--------------------------- MODULE BatchTracker ---------------------------
(***************************************************************************)
(* Batch tracking of one multi-file transfer by the Joiner Lambda          *)
(* (file_transfer_mgmt.py, batch_timeout.py, and the tail of               *)
(* handler._process_record).  The workers are Lambda invocations: one per  *)
(* completed per-file record, the fan-out of the master record, and one    *)
(* per SQS timeout message past its target time.  An action is one         *)
(* DynamoDB or EventBridge call with the code that follows it up to the    *)
(* next call; a worker may fail between any two of them and is redelivered *)
(* from the start.  A file here is identified with its file-transfer-id,   *)
(* with its per-file record and with the invocation that handles it.       *)
(***************************************************************************)
EXTENDS Naturals, FiniteSets

CONSTANTS
    Files,          \* the files of the StartFileTransfer request
    FanOut,         \* the invocation that handles the master record's INSERT
    Timers,         \* the deliveries of the transfer's timeout messages
    MaxDeliveries,  \* deliveries of one stream record or message before the DLQ
    MaxFailures     \* bound: failures of any kind in one behaviour

ASSUME FilesAssumption == IsFiniteSet(Files) /\ Files # {}

ASSUME WorkersAssumption ==
    /\ FanOut \notin Files \union Timers
    /\ Files \intersect Timers = {}
    /\ Timers # {}

ASSUME BoundsAssumption == MaxDeliveries \in Nat \ {0} /\ MaxFailures \in Nat

VARIABLES
    \* The master record, as the helper wrote it and the Joiner updates it.
    emissionMode,           \* which events the caller asked for
    live,                   \* FALSE once DynamoDB's TTL deleted the record; its
                            \* attributes keep what they held then, for no reader
    remnant,                \* an item of the event marker alone stands in its place
    fileStatuses,           \* the keys of the map, without the "_init" sentinel
    resolvedCount,          \* the number attribute; 0 stands for "absent"
    batchEventPublished,
    batchTimeoutPublished,
    \* The invocations.
    pc,                     \* the call each worker makes next
    seen,                   \* fileStatuses as the worker last read it
    todo,                   \* FanOut: per-file items still to reconcile
    announcing,             \* FanOut: the item whose event is to be published
    deliveries,             \* how often each worker's input has been delivered
    failures,
    \* History.
    puts                    \* every put_events entry handed to EventBridge

master == <<emissionMode, live, remnant, fileStatuses, resolvedCount,
            batchEventPublished, batchTimeoutPublished>>
workers == <<pc, seen, todo, announcing, deliveries>>
vars == <<master, workers, failures, puts>>

Workers == Files \union {FanOut} \union Timers
Trackers == Files \union {FanOut}       \* the workers that may complete the batch

\* The helper writes batch fields for these two modes only.
Modes == {"INDIVIDUAL_AND_WHOLE_TRANSFER_COMPLETION", "WHOLE_TRANSFER_COMPLETION_ONLY"}

\* expectedFiles is the number of file paths of the request.
ExpectedFiles == Cardinality(Files)

Labels == {"idle", "ready", "count", "reread", "items", "mark", "publish", "schedule",
           "timeout", "degraded", "markTimeout", "done", "dead"}

Put == [kind : {"file", "completion", "timeout", "degraded"},
        by : Workers, delivery : 1..MaxDeliveries,
        files : SUBSET Files, accepted : BOOLEAN]

\* The type invariant, for every variable above.
TypeOK ==
    /\ emissionMode \in Modes
    /\ live \in BOOLEAN
    /\ remnant \in BOOLEAN
    /\ fileStatuses \subseteq Files
    /\ resolvedCount \in Nat
    /\ batchEventPublished \in BOOLEAN
    /\ batchTimeoutPublished \in BOOLEAN
    /\ pc \in [Workers -> Labels]
    /\ seen \in [Workers -> SUBSET Files]
    /\ todo \subseteq Files
    /\ announcing \subseteq Files
    /\ deliveries \in [Workers -> 1..MaxDeliveries]
    /\ failures \in 0..MaxFailures
    /\ puts \subseteq Put

Init ==
    /\ emissionMode \in Modes
    /\ live = TRUE
    /\ remnant = FALSE
    /\ fileStatuses = {}
    /\ resolvedCount = 0
    /\ batchEventPublished = FALSE
    /\ batchTimeoutPublished = FALSE
    /\ pc = [w \in Workers |-> IF w = FanOut THEN "ready" ELSE "idle"]
    /\ seen = [w \in Workers |-> {}]
    /\ todo = {}
    /\ announcing = {}
    /\ deliveries = [w \in Workers |-> 1]
    /\ failures = 0
    /\ puts = {}

-----------------------------------------------------------------------------
(* Steps shared by the workers.                                            *)

Goto(w, label) == pc' = [pc EXCEPT ![w] = label]

\* The fan-out's handler goes on to schedule the timeout.
Return(w) ==
    /\ Goto(w, IF w = FanOut THEN "schedule" ELSE "done")
    /\ seen' = [seen EXCEPT ![w] = {}]

\* A call, an entry or an invocation fails, within the bound.
SomethingFails ==
    /\ failures < MaxFailures
    /\ failures' = failures + 1

\* One put_events entry: accepted, or counted in FailedEntryCount, which the
\* code only logs.
PutEvent(w, kind, files) ==
    \E accepted \in BOOLEAN :
        /\ puts' = puts \union {[kind |-> kind, by |-> w, delivery |-> deliveries[w],
                                 files |-> files, accepted |-> accepted]}
        /\ IF accepted THEN UNCHANGED failures ELSE SomethingFails

ModeHasIndividualEvents == emissionMode # "WHOLE_TRANSFER_COMPLETION_ONLY"

\* Without a master record, or with a remnant that has no mode, the default holds.
ShouldPublishIndividualEvent == ~live \/ ModeHasIndividualEvents

\* Mutant: the batch passes one file early.
AlmostAllResolved(count) == count + 1 >= ExpectedFiles

AllResolved(count) == count = ExpectedFiles

\* The guard of _check_and_publish_batch on what the worker has just read.  An item
\* that is gone, or a remnant, has neither a mode nor a count.
CheckBatch(w, files, count) ==
    IF live /\ AllResolved(count) /\ ~batchEventPublished
    THEN /\ Goto(w, "mark")
         /\ seen' = [seen EXCEPT ![w] = files]
    ELSE Return(w)

\* Mutant: the counting updates lose their condition.
CountedAgain(f) == TRUE

\* attribute_not_exists(#fs.#ftId), the condition of both counting updates.
NotYetCounted(f) == f \notin fileStatuses

CountOnce(f) ==
    /\ fileStatuses' = fileStatuses \union {f}
    /\ resolvedCount' = resolvedCount + 1

\* Mutant: one delivery too many.
RedeliverableTooOften(w) == deliveries[w] <= MaxDeliveries

Redeliverable(w) == deliveries[w] < MaxDeliveries

\* The input is redelivered and handled from the start, until its deliveries are
\* used up.
Redeliver(w) ==
    /\ IF Redeliverable(w)
       THEN /\ deliveries' = [deliveries EXCEPT ![w] = @ + 1]
            /\ Goto(w, "ready")
       ELSE /\ pc[w] # "done"
            /\ Goto(w, "dead")
            /\ UNCHANGED deliveries
    /\ seen' = [seen EXCEPT ![w] = {}]
    /\ IF w = FanOut
       THEN todo' = {} /\ announcing' = {}
       ELSE UNCHANGED <<todo, announcing>>

-----------------------------------------------------------------------------
(* A per-file record with both fields: the end of _process_record and      *)
(* process_file_completion.                                                *)

\* The Pipe delivers the record once its metadata has been copied to it.
DeliverFile(f) ==
    /\ pc[f] = "idle"
    /\ Goto(f, "ready")
    /\ UNCHANGED <<master, seen, todo, announcing, deliveries, failures, puts>>

\* Reads the master record and publishes the file's own event if it may.
\* Without a master record nothing is tracked.
AnnounceFile(f) ==
    /\ pc[f] = "ready"
    /\ Goto(f, IF live THEN "count" ELSE "done")
    /\ IF ShouldPublishIndividualEvent
       THEN PutEvent(f, "file", {f})
       ELSE UNCHANGED <<failures, puts>>
    /\ UNCHANGED <<master, seen, todo, announcing, deliveries>>

\* The update returns the new item (ALL_NEW), on which the batch is checked.  If
\* its answer is lost the SDK sends it again and meets its own first attempt.
CountFile(f) ==
    /\ pc[f] = "count"
    /\ live
    /\ \/ /\ NotYetCounted(f)
          /\ CountOnce(f)
          /\ CheckBatch(f, fileStatuses', resolvedCount')
          /\ UNCHANGED failures
       \/ /\ NotYetCounted(f)
          /\ CountOnce(f)
          /\ Goto(f, "reread")
          /\ SomethingFails
          /\ UNCHANGED seen
       \/ /\ ~NotYetCounted(f)
          /\ Goto(f, "reread")
          /\ UNCHANGED <<fileStatuses, resolvedCount, seen, failures>>
    /\ UNCHANGED <<emissionMode, live, remnant, batchEventPublished,
                   batchTimeoutPublished, todo, announcing, deliveries, puts>>

\* The record expired after it was read.  The path fileStatuses is not valid in a
\* missing item: an error that no handler catches, so the invocation fails.
CountRefused(f) ==
    /\ pc[f] = "count"
    /\ ~live
    /\ Redeliver(f)
    /\ UNCHANGED <<master, failures, puts>>

-----------------------------------------------------------------------------
(* The fan-out of the master record: reconcile_existing_files.             *)

\* The master read and the index query, which returns some of the per-file items;
\* with none, or without a master record, there is nothing to reconcile.
QueryItems ==
    /\ pc[FanOut] = "ready"
    /\ \E items \in SUBSET Files :
         IF live /\ items # {}
         THEN /\ todo' = items
              /\ Goto(FanOut, "items")
         ELSE /\ Goto(FanOut, "schedule")
              /\ UNCHANGED todo
    /\ UNCHANGED <<master, seen, announcing, deliveries, failures, puts>>

\* A duplicate is passed over; so is any other error, after a log line, that of a
\* record gone by now included.  The mode is the one the fan-out has read.
ReconcileFile(f) ==
    /\ pc[FanOut] = "items"
    /\ announcing = {}
    /\ f \in todo
    /\ \/ /\ IF live /\ NotYetCounted(f)
             THEN CountOnce(f)
             ELSE UNCHANGED <<fileStatuses, resolvedCount>>
          /\ UNCHANGED failures
       \/ /\ SomethingFails
          /\ UNCHANGED <<fileStatuses, resolvedCount>>
    /\ todo' = todo \ {f}
    /\ announcing' = IF ModeHasIndividualEvents THEN {f} ELSE {}
    /\ UNCHANGED <<emissionMode, live, remnant, batchEventPublished,
                   batchTimeoutPublished, pc, seen, deliveries, puts>>

AnnounceReconciled ==
    /\ pc[FanOut] = "items"
    /\ announcing # {}
    /\ PutEvent(FanOut, "file", announcing)
    /\ announcing' = {}
    /\ UNCHANGED <<master, pc, seen, todo, deliveries>>

\* schedule_batch_timeout, after the fan-out: the timeout message is sent, and SQS will
\* deliver it at least once.  A redelivered fan-out finds it sent already, or, when it
\* failed before its own marker, sends another one.
ScheduleBatchTimeout ==
    /\ pc[FanOut] = "schedule"
    /\ \E T \in SUBSET {t \in Timers : pc[t] = "idle"} :
         /\ T = {} => \E t \in Timers : pc[t] # "idle"
         /\ pc' = [w \in Workers |->
                     IF w \in T THEN "ready" ELSE IF w = FanOut THEN "done" ELSE pc[w]]
    /\ UNCHANGED <<master, seen, todo, announcing, deliveries, failures, puts>>

-----------------------------------------------------------------------------
(* Completing the batch: the second read and _check_and_publish_batch.     *)

\* Mutant: a duplicate returns without looking at the batch again.
RereadSkipped(w) ==
    /\ \/ pc[w] = "reread"
       \/ pc[w] = "items" /\ todo = {} /\ announcing = {}
    /\ Return(w)
    /\ UNCHANGED <<master, todo, announcing, deliveries, failures, puts>>

\* The consistent read after a duplicate, and after the last reconciled item.
RereadMaster(w) ==
    /\ \/ pc[w] = "reread"
       \/ pc[w] = "items" /\ todo = {} /\ announcing = {}
    /\ CheckBatch(w, fileStatuses, resolvedCount)
    /\ UNCHANGED <<master, todo, announcing, deliveries, failures, puts>>

\* Mutants: the condition forgets one of the two markers.
NoTimeoutMarkerOnly == IF live THEN ~batchTimeoutPublished ELSE ~remnant
NoEventMarkerOnly == IF live THEN ~batchEventPublished ELSE ~remnant

\* The condition of the batchEventPublished update.  It holds of a missing item too.
NoBatchMarker ==
    \/ live /\ ~batchEventPublished /\ ~batchTimeoutPublished
    \/ ~live /\ ~remnant

\* The update: on a missing item it creates one of the marker alone, without ttl.
SetBatchMarker ==
    \/ live /\ batchEventPublished' = TRUE /\ UNCHANGED remnant
    \/ ~live /\ remnant' = TRUE /\ UNCHANGED batchEventPublished

\* The marker comes before the event.  When its answer is lost the second
\* attempt of the SDK fails the condition, and the worker returns.
MarkBatchPublished(w) ==
    /\ pc[w] = "mark"
    /\ \/ /\ NoBatchMarker
          /\ SetBatchMarker
          /\ Goto(w, "publish")
          /\ UNCHANGED <<seen, failures>>
       \/ /\ NoBatchMarker
          /\ SetBatchMarker
          /\ SomethingFails
          /\ Return(w)
       \/ /\ ~NoBatchMarker
          /\ Return(w)
          /\ UNCHANGED <<batchEventPublished, remnant, failures>>
    /\ UNCHANGED <<emissionMode, live, fileStatuses, resolvedCount, batchTimeoutPublished,
                   todo, announcing, deliveries, puts>>

PublishBatch(w) ==
    /\ pc[w] = "publish"
    /\ PutEvent(w, "completion", seen[w])
    /\ Return(w)
    /\ UNCHANGED <<master, todo, announcing, deliveries>>

-----------------------------------------------------------------------------
(* A timeout message past its target time: process_timeout_message.        *)

\* Mutants: the guard forgets the count, or takes a count of zero for no count.
TimeoutUnmarked == ~batchEventPublished /\ ~batchTimeoutPublished
TimeoutPendingIfCounted ==
    TimeoutUnmarked /\ resolvedCount # 0 /\ resolvedCount < ExpectedFiles

\* The guards of the fire path on the record as it is read.
TimeoutPending ==
    /\ ~batchEventPublished
    /\ ~batchTimeoutPublished
    /\ resolvedCount < ExpectedFiles

\* Of a remnant the read returns the event marker, and the message is done with.
ReadAtFireTime(t) ==
    /\ pc[t] = "ready"
    /\ IF live /\ TimeoutPending
       THEN /\ Goto(t, "timeout")
            /\ seen' = [seen EXCEPT ![t] = fileStatuses]
       ELSE /\ Goto(t, IF live \/ remnant THEN "done" ELSE "degraded")
            /\ UNCHANGED seen
    /\ UNCHANGED <<master, todo, announcing, deliveries, failures, puts>>

\* The record is gone: an event made from the message alone, and no marker.
PublishDegraded(t) ==
    /\ pc[t] = "degraded"
    /\ PutEvent(t, "degraded", {})
    /\ Goto(t, "done")
    /\ UNCHANGED <<master, seen, todo, announcing, deliveries>>

PublishTimeout(t) ==
    /\ pc[t] = "timeout"
    /\ PutEvent(t, "timeout", seen[t])
    /\ Goto(t, "markTimeout")
    /\ UNCHANGED <<master, seen, todo, announcing, deliveries>>

\* Mutants: the condition forgets the count, or keeps a distance of one file.
TimeoutMarkerOnce == live /\ ~batchTimeoutPublished
TimeoutMarkerBelowLast ==
    live /\ ~batchTimeoutPublished /\ resolvedCount # 0 /\ resolvedCount + 1 < ExpectedFiles

\* The condition of the batchTimeoutPublished update.  A comparison with an
\* absent attribute is false: the helper never writes resolvedCount, and an item that
\* is gone, or a remnant, has none.
TimeoutMarkerAllowed ==
    /\ live
    /\ ~batchTimeoutPublished
    /\ resolvedCount # 0
    /\ resolvedCount < ExpectedFiles

\* Every error of the update is swallowed.
MarkTimeoutPublished(t) ==
    /\ pc[t] = "markTimeout"
    /\ \/ /\ batchTimeoutPublished' = (batchTimeoutPublished \/ TimeoutMarkerAllowed)
          /\ UNCHANGED failures
       \/ /\ SomethingFails
          /\ UNCHANGED batchTimeoutPublished
    /\ Return(t)
    /\ UNCHANGED <<emissionMode, live, remnant, fileStatuses, resolvedCount,
                   batchEventPublished, todo, announcing, deliveries, puts>>

-----------------------------------------------------------------------------
(* The platform.                                                           *)

\* An invocation fails, or a neighbour in the same batch of stream records does, or
\* SQS delivers a message again.
Fail(w) ==
    /\ pc[w] \notin {"idle", "dead"}
    /\ SomethingFails
    /\ Redeliver(w)
    /\ UNCHANGED <<master, puts>>

\* The master record's TTL passes.  DynamoDB deletes it whatever is in flight: files
\* may be handled, and messages redelivered, at any distance from the request.
ExpireMaster ==
    /\ live
    /\ live' = FALSE
    /\ UNCHANGED <<emissionMode, remnant, fileStatuses, resolvedCount, batchEventPublished,
                   batchTimeoutPublished, workers, failures, puts>>

FileStep(f) == AnnounceFile(f) \/ CountFile(f) \/ CountRefused(f)
FanOutStep ==
    \/ QueryItems \/ AnnounceReconciled \/ ScheduleBatchTimeout
    \/ \E f \in Files : ReconcileFile(f)
TrackerStep(w) == RereadMaster(w) \/ MarkBatchPublished(w) \/ PublishBatch(w)
TimerStep(t) ==
    \/ ReadAtFireTime(t) \/ PublishDegraded(t)
    \/ PublishTimeout(t) \/ MarkTimeoutPublished(t)

Next ==
    \/ \E f \in Files : DeliverFile(f)
    \/ \E f \in Files : FileStep(f)
    \/ FanOutStep
    \/ \E w \in Trackers : TrackerStep(w)
    \/ \E t \in Timers : TimerStep(t)
    \/ \E w \in Workers : Fail(w)
    \/ ExpireMaster

Spec == Init /\ [][Next]_vars

\* The Pipe and SQS hand every delivered input to the Lambda, which runs to its
\* end or fails; whether a file's record is ever completed is not assumed.
Fairness ==
    /\ \A f \in Files : WF_vars(FileStep(f))
    /\ WF_vars(FanOutStep)
    /\ \A w \in Trackers : WF_vars(TrackerStep(w))
    /\ \A t \in Timers : WF_vars(TimerStep(t))

FairSpec == Spec /\ Fairness

-----------------------------------------------------------------------------
(* Properties.                                                             *)

Completions == {e \in puts : e.kind = "completion"}

\* A file is counted once, however often the stream and the fan-out meet it: the
\* number attribute and the map, written by one update, never disagree.
CountMatchesFiles == resolvedCount = Cardinality(fileStatuses)

\* At most one completion event is handed to EventBridge, whichever files' workers,
\* reconciliation and redeliveries see the last file counted.  The exception is a worker
\* that held the whole batch while the record expired, and marked a remnant.
AtMostOneCompletion == remnant \/ \A d, e \in Completions : d = e

\* A completion event lists every file of the transfer: the snapshot it is made
\* from is never older than the count that let it pass.
CompletionIsWhole == \A e \in Completions : e.files = Files

\* A completion event is never handed over for a transfer whose record bears the
\* timeout marker, although the timeout path writes it after an old read; with the same
\* exception, since a remnant's marker is set without a look at what was there.
NoCompletionAfterTimeoutMarker == batchTimeoutPublished => Completions = {} \/ remnant

\* A timeout event always names at least one file as timed out: the file map it
\* shows is the one its guard counted.
TimeoutLeavesFileOut == \A e \in puts : e.kind = "timeout" => e.files # Files

\* A batch is not left behind: while its record lives, the handling of its files does not
\* come to an end with neither marker set, although the last file may be counted by the
\* reconciliation, by an attempt whose answer is lost, or by a delivery that then fails.
AllReturnedIsMarked ==
    live /\ (\A f \in Files : pc[f] = "done") => batchEventPublished \/ batchTimeoutPublished

TimeoutHeard(kinds) == \E e \in puts : e.kind \in kinds /\ e.accepted
TimeoutRejected == \E e \in puts : e.kind \in {"timeout", "degraded"} /\ ~e.accepted

\* A timeout is silent only where EventBridge rejects its entry, which publish.py logs and
\* the timeout path does not notice.  Short of that, the marker is on the record only
\* after the event was accepted, and a message handled to its end with a file missing
\* has its event accepted, whichever deliveries failed where.
NoSilentTimeout ==
    ~TimeoutRejected =>
        /\ batchTimeoutPublished => TimeoutHeard({"timeout"})
        /\ (\E t \in Timers : pc[t] = "done") =>
               fileStatuses = Files \/ TimeoutHeard({"timeout", "degraded"})

\* How far a timeout is final: without a failure, one that found a counted file and is
\* handled to its end with a file still missing has left its marker on the record, if that
\* still lives.  TimeoutIsFinal, below, claims it for a timeout that found none too.
TimeoutOverSomeIsFinal ==
    failures = 0 /\ live =>
        \A e \in puts :
            e.kind = "timeout" /\ e.files # {} /\ pc[e.by] = "done" /\ fileStatuses # Files
                => batchTimeoutPublished

\* The transfer's final marks, seen through the master record only, or through what it
\* held when it expired.
Outcome ==
    IF batchEventPublished THEN "completed"
    ELSE IF batchTimeoutPublished THEN "timedOut" ELSE "open"

Abstract == INSTANCE BatchOutcome WITH counted <- fileStatuses, outcome <- Outcome

\* The workers together implement the abstract outcome: one final mark, "completed"
\* over all files or "timedOut" over some, and no file counted twice.
ImplementsOutcome == Abstract!Spec

\* The last file is not forgotten: when every file's record has been delivered and
\* all are counted, some worker marks the batch, even if the one that counted
\* last failed and came back as a duplicate.
ResolvedIsMarked ==
    (resolvedCount = ExpectedFiles /\ \A f \in Files : pc[f] # "idle")
        ~> (\/ batchEventPublished \/ batchTimeoutPublished
            \/ ~live \/ \E w \in Trackers : pc[w] = "dead")

\* The messages that were sent, or the fan-out that should have sent one, are in the DLQ.
TimeoutLost ==
    /\ \A t \in Timers : pc[t] \in {"idle", "dead"}
    /\ \E w \in Timers \union {FanOut} : pc[w] = "dead"

\* A transfer with a missing file does not end in silence: all files get counted or a
\* timeout event reaches EventBridge, unless its entry was rejected, which is only logged,
\* or the fan-out or the messages it sent went to the DLQ.
MissingFileIsReported ==
    <>(\/ fileStatuses = Files
       \/ TimeoutHeard({"timeout", "degraded"})
       \/ TimeoutRejected
       \/ TimeoutLost)

-----------------------------------------------------------------------------
(* What the documentation says and the code does not do.                   *)

\* USER_GUIDE.md: a timeout event and a completion event are mutually exclusive for
\* the same transfer.
TimeoutExcludesCompletion ==
    ~ \E d, e \in puts : d.kind = "completion" /\ e.kind = "timeout"

\* USER_GUIDE.md: if the timeout fires first, only the timeout event is published, even
\* if the remaining files complete later.  Once an accepted timeout event's message
\* has been handled to its end with a file still missing, no completion event follows
\* while the record lives.
TimeoutFiredFirst ==
    /\ \E e \in puts : e.kind = "timeout" /\ e.accepted /\ pc[e.by] = "done"
    /\ fileStatuses # Files

TimeoutIsFinal == [](TimeoutFiredFirst => [](live => Completions = {}))

\* ARCHITECTURE.md: the event is published and then marked, so that a marked batch
\* has, or on a redelivery still gets, its completion event.
MarkedBatchIsPublished == batchEventPublished ~> Completions # {}
=============================================================================
