--------------------------- MODULE TimeoutQueue ---------------------------
(***************************************************************************)
(* From the master record of a batch transfer to the moment its timeout    *)
(* fires: the Joiner schedules a delayed message (schedule_batch_timeout), *)
(* the message hops in delays of at most MaxDelay (process_timeout_message)*)
(* and fires when it is received at the target time or later.  What the    *)
(* firing message does is in BatchTracker, the fan-out that precedes the   *)
(* scheduling in MetadataJoin.  Time is counted in ticks; a handler takes  *)
(* none.                                                                   *)
(***************************************************************************)
EXTENDS Integers, FiniteSets

CONSTANTS
    Target,         \* batchTimeoutAt
    MaxDelay,       \* SQS delays a message no longer (900 s)
    Visibility,     \* a received message stays hidden so long (360 s)
    MaxReceives,    \* receives of one message before the DLQ
    MaxDeliveries,  \* deliveries of the master's stream record before the DLQ
    Lag,            \* bound: ticks SQS is late with a visible message
    Messages,       \* bound: places for messages
    MaxFailures,    \* bound: failures in one behaviour
    Horizon         \* bound: the clock goes no further by itself

ASSUME TimesAssumption ==
    /\ Target \in Nat
    /\ MaxDelay \in Nat \ {0}
    /\ Visibility \in Nat
    /\ Lag \in Nat
    /\ Horizon \in Nat

ASSUME BoundsAssumption ==
    /\ IsFiniteSet(Messages)
    /\ MaxReceives \in Nat \ {0}
    /\ MaxDeliveries \in Nat \ {0}
    /\ MaxFailures \in Nat

VARIABLES
    now,
    pc,             \* where the handling of the master's stream record stands
    attempt,        \* its delivery count
    scheduled,      \* batchTimeoutScheduled
    place,          \* of each message
    visibleAt,      \* when a queued message may be received
    receives,       \* how often it was received
    fired,          \* whether some message has fired
    due,            \* history: when the first message should fire, 0 before it is sent
    copies,         \* history: failures that may have left a second message
    failures

vars == <<now, pc, attempt, scheduled, place, visibleAt, receives, fired, due, copies, failures>>

Labels == {"fanout", "check", "send", "mark", "done", "dead"}

\* "handled": done with, but not deleted yet; "dead": in the DLQ.
Places == {"free", "queued", "held", "handled", "dead"}

\* The type invariant.
TypeOK ==
    /\ now \in Nat
    /\ pc \in Labels
    /\ attempt \in 1..MaxDeliveries
    /\ scheduled \in BOOLEAN
    /\ place \in [Messages -> Places]
    /\ visibleAt \in [Messages -> Nat]
    /\ receives \in [Messages -> 0..MaxReceives]
    /\ fired \in BOOLEAN
    /\ due \in Nat
    /\ copies \in 0..failures
    /\ failures \in 0..MaxFailures

Init ==
    /\ now = 0
    /\ pc = "fanout"
    /\ attempt = 1
    /\ scheduled = FALSE
    /\ place = [m \in Messages |-> "free"]
    /\ visibleAt = [m \in Messages |-> 0]
    /\ receives = [m \in Messages |-> 0]
    /\ fired = FALSE
    /\ due = 0
    /\ copies = 0
    /\ failures = 0

Live == {m \in Messages : place[m] \in {"queued", "held"}}

Lesser(a, b) == IF a < b THEN a ELSE b
Greater(a, b) == IF a > b THEN a ELSE b

SomethingFails ==
    /\ failures < MaxFailures
    /\ failures' = failures + 1

\* SendMessage, while the message at hand (if any) changes its place.  SQS refuses a delay
\* that is negative or too long.
NewMessage == CHOOSE m \in Messages : place[m] = "free"

Send(delay, places) ==
    /\ delay \in 0..MaxDelay
    /\ \E m \in Messages : place[m] = "free"
    /\ place' = [places EXCEPT ![NewMessage] = "queued"]
    /\ visibleAt' = [visibleAt EXCEPT ![NewMessage] = now + delay]
    /\ receives' = [receives EXCEPT ![NewMessage] = 0]

-----------------------------------------------------------------------------
(* The handling of the master's stream record.                             *)

\* The fan-out comes first, and may fail on every delivery.
FanOut ==
    /\ pc = "fanout"
    /\ pc' = "check"
    /\ UNCHANGED <<now, attempt, scheduled, place, visibleAt, receives, fired, due, copies,
                   failures>>

\* Mutant: the marker is not looked at.
NeverScheduled == FALSE

AlreadyScheduled == scheduled

CheckScheduled ==
    /\ pc = "check"
    /\ pc' = IF AlreadyScheduled THEN "done" ELSE "send"
    /\ UNCHANGED <<now, attempt, scheduled, place, visibleAt, receives, fired, due, copies,
                   failures>>

\* A target in the past gives the shortest delay.
FirstDelay == Lesser(Greater(Target - now, 1), MaxDelay)

SendTimeout ==
    /\ pc = "send"
    /\ pc' = "mark"
    /\ Send(FirstDelay, place)
    /\ due' = IF due = 0 THEN Greater(Target, now + 1) ELSE due
    /\ UNCHANGED <<now, attempt, scheduled, fired, copies, failures>>

\* Mutant: the marker is written before the message is sent.
MarkDueBeforeSend == pc \in {"send", "mark"}

MarkDue == pc = "mark"

MarkScheduled ==
    /\ MarkDue
    /\ scheduled' = TRUE
    /\ pc' = "done"
    /\ UNCHANGED <<now, attempt, place, visibleAt, receives, fired, due, copies, failures>>

\* The invocation fails at some point, or a later record of its batch does: the Pipe
\* delivers again from the start.
FailRecord ==
    /\ SomethingFails
    /\ pc # "dead"
    /\ \/ /\ attempt < MaxDeliveries
          /\ attempt' = attempt + 1
          /\ pc' = "fanout"
       \/ /\ attempt = MaxDeliveries
          /\ pc # "done"
          /\ pc' = "dead"
          /\ UNCHANGED attempt
    /\ copies' = IF pc = "mark" THEN copies + 1 ELSE copies
    /\ UNCHANGED <<now, scheduled, place, visibleAt, receives, fired, due>>

-----------------------------------------------------------------------------
(* The queue and the handling of its messages.                             *)

Receive(m) ==
    /\ place[m] = "queued"
    /\ visibleAt[m] <= now
    /\ place' = [place EXCEPT ![m] = "held"]
    /\ receives' = [receives EXCEPT ![m] = @ + 1]
    /\ UNCHANGED <<now, pc, attempt, scheduled, visibleAt, fired, due, copies, failures>>

\* Mutant: a hop always takes the full delay.
FullHopDelay == MaxDelay

HopDelay == Lesser(Target - now, MaxDelay)

Hop(m) ==
    /\ place[m] = "held"
    /\ now < Target
    /\ Send(HopDelay, [place EXCEPT ![m] = "handled"])
    /\ UNCHANGED <<now, pc, attempt, scheduled, fired, due, copies, failures>>

Fire(m) ==
    /\ place[m] = "held"
    /\ now >= Target
    /\ place' = [place EXCEPT ![m] = "handled"]
    /\ fired' = TRUE
    /\ UNCHANGED <<now, pc, attempt, scheduled, visibleAt, receives, due, copies, failures>>

\* The event source deletes a message whose handler returned.
Delete(m) ==
    /\ place[m] = "handled"
    /\ place' = [place EXCEPT ![m] = "free"]
    /\ UNCHANGED <<now, pc, attempt, scheduled, visibleAt, receives, fired, due, copies,
                   failures>>

\* Mutant: one more receive than configured.
ReceivableOnceMore(m) == receives[m] <= MaxReceives

Receivable(m) == receives[m] < MaxReceives

\* The handler or the deletion fails: the message shows up again, or goes to the DLQ.
FailMessage(m) ==
    /\ SomethingFails
    /\ place[m] \in {"held", "handled"}
    /\ IF Receivable(m)
       THEN /\ place' = [place EXCEPT ![m] = "queued"]
            /\ visibleAt' = [visibleAt EXCEPT ![m] = now + Visibility]
            /\ copies' = IF place[m] = "handled" THEN copies + 1 ELSE copies
       ELSE /\ place' = [place EXCEPT ![m] = "dead"]
            /\ UNCHANGED <<visibleAt, copies>>
    /\ UNCHANGED <<now, pc, attempt, scheduled, receives, fired, due>>

\* SQS delivers at least once, and a SendMessage whose answer is lost is sent again.
Duplicate(m) ==
    /\ SomethingFails
    /\ place[m] = "queued"
    /\ \E n \in Messages : place[n] = "free"
    /\ place' = [place EXCEPT ![NewMessage] = "queued"]
    /\ visibleAt' = [visibleAt EXCEPT ![NewMessage] = visibleAt[m]]
    /\ receives' = [receives EXCEPT ![NewMessage] = receives[m]]
    /\ copies' = copies + 1
    /\ UNCHANGED <<now, pc, attempt, scheduled, fired, due>>

\* Time passes between the handlers, and SQS is Lag ticks late at most.
Tick ==
    /\ \A m \in Messages :
        /\ place[m] \notin {"held", "handled"}
        /\ place[m] = "queued" => now < visibleAt[m] + Lag
    /\ now < Horizon \/ \E m \in Messages : place[m] = "queued" /\ now < visibleAt[m]
    /\ now' = now + 1
    /\ UNCHANGED <<pc, attempt, scheduled, place, visibleAt, receives, fired, due, copies,
                   failures>>

RecordStep == FanOut \/ CheckScheduled \/ SendTimeout \/ MarkScheduled
MessageStep(m) == Receive(m) \/ Hop(m) \/ Fire(m) \/ Delete(m)

Next ==
    \/ RecordStep
    \/ \E m \in Messages : MessageStep(m)
    \/ FailRecord
    \/ \E m \in Messages : FailMessage(m) \/ Duplicate(m)
    \/ Tick

Spec == Init /\ [][Next]_vars

\* The Pipe and SQS keep delivering, and time goes on.
Fairness ==
    /\ WF_vars(RecordStep)
    /\ \A m \in Messages : WF_vars(MessageStep(m))
    /\ WF_vars(Tick)

FairSpec == Spec /\ Fairness

-----------------------------------------------------------------------------
(* Properties.                                                             *)

InDLQ == \E m \in Messages : place[m] = "dead"

\* The marker promises a message: once it is set there is one under way, until the
\* timeout fires or a message ends in the DLQ.
MarkedIsUnderWay == scheduled => Live # {} \/ fired \/ InDLQ

\* Delays do not add up over the hops: the timeout fires one Lag after the target (or
\* after a late scheduling) at most, and one visibility timeout more per failure.
FiresOnTime ==
    due # 0 /\ now > due + Lag + failures * (Visibility + Lag) => fired \/ InDLQ

\* Hops and redeliveries do not multiply messages: there is one, and one more for each
\* failure that came after a send and before what records it.
NoAmplification == Cardinality(Live) <= 1 + copies

Call == INSTANCE DelayedCall WITH
            Grace <- Lag, Penalty <- Visibility + Lag,
            asked <- scheduled \/ pc = "mark", pending <- Cardinality(Live),
            called <- fired, lost <- InDLQ, setbacks <- failures

\* However many hops it takes and whatever is received again, the chain of messages
\* implements one delayed call: a hop changes nothing, a repetition needs a failure,
\* and the clock does not pass the deadline before the timeout fired or was lost.
ImplementsCall == Call!Spec

\* A transfer with a timeout has it fire, though invocations fail, unless the master's
\* stream record or a message has used up its deliveries.
EventuallyFires == <>(fired \/ pc = "dead" \/ InDLQ)
=============================================================================
