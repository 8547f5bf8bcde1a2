-------------------------- MODULE RecordLifecycle --------------------------
(***************************************************************************)
(* One operation's records from the helper's call to their expiry: what    *)
(* the caller learns (SftpConnectorHelper.java), how long the records of   *)
(* the operation live (the ttl of the helper and of the Event Writer),     *)
(* what late handlers find, and the alerts when records expire             *)
(* (orphan_detection.py).  A tick is about an hour; a handler takes        *)
(* seconds, but a record may expire between two of its steps.  A           *)
(* multi-file transfer has its metadata on Master and one record per file; *)
(* any other operation has its one record, Master.  Joining is one step    *)
(* here, and only what depends on a record's presence is kept of the batch *)
(* tracking: see MetadataJoin and BatchTracker.                            *)
(***************************************************************************)
EXTENDS Naturals, FiniteSets

CONSTANTS
    Files,          \* the per-file records of a transfer
    Master,         \* the record the helper writes
    Ttl,            \* ttlDuration of the helper, TTL_SECONDS of the Event Writer
    Stagger,        \* what the helper adds for a transfer: one hour
    MaxAge,         \* age at which the Pipe drops a stream record
    EventAge,       \* how long after a delivery AWS may repeat it
    Timeouts,       \* the batch timeouts callers choose; 0 disables
    Lag,            \* how late the timeout message may fire
    Horizon,        \* bound: the clock
    MaxFailures     \* bound: failures of any kind in one behaviour

ASSUME RecordsAssumption == IsFiniteSet(Files) /\ Files # {} /\ Master \notin Files

\* The construct does not enforce that its ttl_duration exceeds the age limits.
ASSUME TimesAssumption ==
    /\ Ttl \in Nat /\ Stagger \in Nat /\ MaxAge \in Nat /\ EventAge \in Nat /\ Lag \in Nat
    /\ MaxAge < Ttl /\ EventAge < Ttl
    /\ Timeouts \subseteq Nat
    /\ Horizon \in Nat /\ MaxFailures \in Nat

VARIABLES
    emissionMode,   \* "single" stands for an operation that is no transfer
    batchTimeout,
    caller,         \* where the call stands, then what the caller got
    running,        \* Transfer Family accepted the operation
    item,           \* the attributes of each record, {} for no record
    ttl,            \* its ttl attribute, 0 for none
    now,            \* ticks since the call
    removes,        \* stream records of expired items, to be handled
    counted,        \* the files in the master's fileStatuses
    handling,       \* what the handler of each item has yet to do
    scheduled,      \* the timeout message was sent
    published,      \* events put on the bus
    alerts,         \* orphan alerts
    written,        \* history: the metadata was stored
    storedAt,       \* history: when each record's latest event was stored
    joinedAt,       \* history: since when it had both fields
    stored, joined, \* history: the records for which these mean something
    lost,           \* history: records whose alert a failure prevented
    failures

call == <<emissionMode, batchTimeout, caller, running, written>>
records == <<item, ttl, counted>>
arrivals == <<storedAt, joinedAt, stored, joined>>
handlers == <<handling, scheduled>>
outputs == <<published, alerts, removes, lost>>
vars == <<call, records, arrivals, handlers, outputs, now, failures>>

Items == Files \union {Master}
Attributes == {"metadata", "eventResult", "transferId", "batchEventPublished",
               "batchTimeoutPublished", "batchTimeoutScheduled"}
BatchModes == {"INDIVIDUAL_AND_WHOLE_TRANSFER_COMPLETION", "WHOLE_TRANSFER_COMPLETION_ONLY"}
Modes == BatchModes \union {"single", "INDIVIDUAL_FILE_EVENTS_ONLY"}
Outcomes == {"returned", "IllegalArgumentException", "IllegalStateException", "SdkException",
             "duplicate", "writeFailed", "crashed"}
Events == [kind : {"individual"}, item : Items] \union
          [kind : {"completion", "timeout", "degraded"}]

\* The type invariant.
TypeOK ==
    /\ emissionMode \in Modes
    /\ batchTimeout \in Timeouts \union {0}
    /\ caller \in Outcomes \union {"calling", "started"}
    /\ running \in BOOLEAN
    /\ item \in [Items -> SUBSET Attributes]
    /\ ttl \in [Items -> Nat]
    /\ now \in 0..Horizon
    /\ removes \subseteq [item : Items, image : SUBSET Attributes]
    /\ counted \subseteq Files
    /\ handling \in [Items -> {"idle", "count", "mark", "timeout"}]
    /\ scheduled \in BOOLEAN
    /\ published \subseteq Events
    /\ alerts \subseteq [item : Items, type : {"metadata-only", "event-only"}]
    /\ written \in BOOLEAN
    /\ storedAt \in [Items -> Nat]
    /\ joinedAt \in [Items -> Nat]
    /\ stored \subseteq Items
    /\ joined \subseteq Items
    /\ lost \subseteq Items
    /\ failures \in 0..MaxFailures

\* FileTransferOptions: no timeout without a batch event.
BatchTimeouts == IF emissionMode \in BatchModes THEN Timeouts ELSE {0}

Init ==
    /\ emissionMode \in Modes
    /\ batchTimeout \in BatchTimeouts
    /\ caller = "calling"
    /\ running = FALSE
    /\ written = FALSE
    /\ item = [i \in Items |-> {}]
    /\ ttl = [i \in Items |-> 0]
    /\ now = 0
    /\ removes = {} /\ counted = {} /\ published = {} /\ alerts = {} /\ lost = {}
    /\ handling = [i \in Items |-> "idle"]
    /\ scheduled = FALSE
    /\ storedAt = [i \in Items |-> 0]
    /\ joinedAt = [i \in Items |-> 0]
    /\ stored = {} /\ joined = {}
    /\ failures = 0

SomethingFails ==
    /\ failures < MaxFailures
    /\ failures' = failures + 1

\* Mutant: completeness looks at the event only.
HasEvent(image) == "eventResult" \in image

Complete(image) == {"metadata", "eventResult"} \subseteq image
Live == item[Master] # {}

\* An UpdateItem, which creates the item if there is none.
Update(i, attributes) ==
    /\ item' = [item EXCEPT ![i] = @ \union attributes]
    /\ IF Complete(item[i] \union attributes) /\ ~Complete(item[i])
       THEN joined' = joined \union {i} /\ joinedAt' = [joinedAt EXCEPT ![i] = now]
       ELSE UNCHANGED <<joined, joinedAt>>

-----------------------------------------------------------------------------
(* The helper's start call.                                                *)

\* Transfer Family may refuse, accept, or accept without its answer arriving.
StartOperation ==
    /\ caller = "calling"
    /\ \/ caller' \in {"IllegalArgumentException", "SdkException"} /\ UNCHANGED <<running, failures>>
       \/ caller' = "started" /\ running' = TRUE /\ UNCHANGED failures
       \/ /\ SomethingFails
          /\ caller' \in {"SdkException", "IllegalStateException"}
          /\ running' = TRUE
    /\ UNCHANGED <<emissionMode, batchTimeout, written, records, arrivals, handlers,
                   outputs, now>>

\* Mutants: no stagger, and a condition on the whole item.
PlainLifetime == Ttl
NoRecordYet == item[Master] = {}

RecordLifetime == IF emissionMode = "single" THEN Ttl ELSE Ttl + Stagger

\* Checked when the transfer is under way.
TimeoutAllowed == batchTimeout = 0 \/ batchTimeout < RecordLifetime

RejectTimeout ==
    /\ caller = "started"
    /\ ~TimeoutAllowed
    /\ caller' = "IllegalArgumentException"
    /\ UNCHANGED <<emissionMode, batchTimeout, running, written, records, arrivals, handlers,
                   outputs, now, failures>>

\* attribute_not_exists(metadata)
NoMetadataYet == "metadata" \notin item[Master]

\* If the answer is lost the SDK sends the write again.
WriteMetadata ==
    /\ caller = "started"
    /\ TimeoutAllowed
    /\ IF NoMetadataYet
       THEN /\ Update(Master, {"metadata"})
            /\ ttl' = [ttl EXCEPT ![Master] = now + RecordLifetime]
            /\ written' = TRUE
            /\ \/ caller' = "returned" /\ UNCHANGED failures
               \/ SomethingFails /\ UNCHANGED caller
       ELSE /\ caller' = "duplicate"
            /\ UNCHANGED <<item, ttl, written, joined, joinedAt, failures>>
    /\ UNCHANGED <<emissionMode, batchTimeout, running, counted, storedAt, stored, handlers,
                   outputs, now>>

\* DynamoDB refuses or is not reached, or the application dies.
AbandonWrite ==
    /\ caller = "started"
    /\ TimeoutAllowed
    /\ SomethingFails
    /\ caller' \in {"writeFailed", "SdkException", "crashed"}
    /\ UNCHANGED <<emissionMode, batchTimeout, running, written, records, arrivals, handlers,
                   outputs, now>>

-----------------------------------------------------------------------------
(* Events, joining, publishing.                                            *)

EventTtl(i) == now + Ttl

\* The Event Writer: an event may come twice, each time with a new ttl.
StoreEvent(i) ==
    /\ running
    /\ i \in (IF emissionMode = "single" THEN {Master} ELSE Files)
    /\ i \in stored => now <= storedAt[i] + EventAge
    /\ Update(i, {"eventResult"} \union (IF i = Master THEN {} ELSE {"transferId"}))
    /\ ttl' = [ttl EXCEPT ![i] = EventTtl(i)]
    /\ stored' = stored \union {i}
    /\ storedAt' = [storedAt EXCEPT ![i] = now]
    /\ UNCHANGED <<call, counted, handlers, outputs, now, failures>>

\* The pull by the file's stream record, and the push by the master's.
CopyMetadata(f) ==
    /\ f \in stored
    /\ \/ now <= storedAt[f] + MaxAge /\ "metadata" \in item[Master]
       \/ now <= MaxAge /\ written /\ "eventResult" \in item[f]
    /\ "metadata" \notin item[f]
    /\ Update(f, {"metadata"})
    /\ UNCHANGED <<call, ttl, counted, storedAt, stored, handlers, outputs, now, failures>>

\* The master's record as the helper wrote it.  After its expiry there is none, or one that
\* a marker update created anew.
Intact == "metadata" \in item[Master]

\* Mutant: the gate names the wrong mode.
PublishUnlessIndividual == ~Intact \/ emissionMode # "INDIVIDUAL_AND_WHOLE_TRANSFER_COMPLETION"

ShouldPublishIndividualEvent == ~Intact \/ emissionMode # "WHOLE_TRANSFER_COMPLETION_ONLY"

Unmarked == item[Master] \intersect {"batchEventPublished", "batchTimeoutPublished"} = {}

GoesOn(i, step) == handling' = [handling EXCEPT ![i] = step]

\* The stream record of a complete item, while the Pipe still delivers it: the master's
\* record is read, and the individual event goes out if that allows.
HandleJoined(i) ==
    /\ i \in joined
    /\ now <= joinedAt[i] + MaxAge
    /\ handling[i] = "idle"
    /\ published' = IF ShouldPublishIndividualEvent
                    THEN published \union {[kind |-> "individual", item |-> i]} ELSE published
    /\ GoesOn(i, IF Intact /\ emissionMode \in BatchModes THEN "count" ELSE "idle")
    /\ UNCHANGED <<call, records, arrivals, scheduled, alerts, removes, lost, now, failures>>

\* The file is counted.  An update of a record that is gone by now has an invalid path, and
\* the record is delivered again.
CountJoined(f) ==
    /\ handling[f] = "count"
    /\ counted' = IF Intact THEN counted \union {f} ELSE counted
    /\ GoesOn(f, IF counted' = Files /\ "batchEventPublished" \notin item[Master]
                 THEN "mark" ELSE "idle")
    /\ UNCHANGED <<call, item, ttl, arrivals, scheduled, outputs, now, failures>>

\* The last one marks the batch and publishes its event.  The condition holds for a record
\* that is gone, too: the update creates one anew, without a ttl.
MarkBatch(f) ==
    /\ handling[f] = "mark"
    /\ IF Unmarked
       THEN /\ item' = [item EXCEPT ![Master] = @ \union {"batchEventPublished"}]
            /\ published' = published \union {[kind |-> "completion"]}
       ELSE UNCHANGED <<item, published>>
    /\ GoesOn(f, "idle")
    /\ UNCHANGED <<call, ttl, counted, arrivals, scheduled, alerts, removes, lost, now, failures>>

\* The fan-out of the master's stream record sends the timeout message, then sets its marker.
ScheduleTimeout ==
    /\ written /\ batchTimeout # 0
    /\ now <= MaxAge
    /\ "batchTimeoutScheduled" \notin item[Master]
    /\ scheduled' = TRUE
    /\ \/ Update(Master, {"batchTimeoutScheduled"}) /\ UNCHANGED failures
       \/ SomethingFails /\ UNCHANGED <<item, joined, joinedAt>>
    /\ UNCHANGED <<call, ttl, counted, storedAt, stored, handling, outputs, now>>

\* The timeout message fires: a degraded event when the record is gone.
FireTimeout ==
    /\ scheduled
    /\ handling[Master] = "idle"
    /\ batchTimeout <= now /\ now <= batchTimeout + Lag
    /\ IF Live
       THEN /\ Unmarked /\ counted # Files
            /\ published' = published \union {[kind |-> "timeout"]}
            /\ GoesOn(Master, "timeout")
       ELSE /\ published' = published \union {[kind |-> "degraded"]}
            /\ UNCHANGED handling
    /\ UNCHANGED <<call, records, arrivals, scheduled, alerts, removes, lost, now, failures>>

\* Mutant: a count that is missing is taken for zero.
NotAllCounted == counted # Files

\* resolvedCount < :expected, which is false without a count.
BelowExpected == counted # {} /\ counted # Files

MarkTimeout ==
    /\ handling[Master] = "timeout"
    /\ item' = IF BelowExpected
               THEN [item EXCEPT ![Master] = @ \union {"batchTimeoutPublished"}] ELSE item
    /\ GoesOn(Master, "idle")
    /\ UNCHANGED <<call, ttl, counted, arrivals, scheduled, outputs, now, failures>>

\* A handler ends half-way.  The Pipe or the queue delivers again.
FailHandler(i) ==
    /\ handling[i] # "idle"
    /\ SomethingFails
    /\ GoesOn(i, "idle")
    /\ UNCHANGED <<call, records, arrivals, scheduled, outputs, now>>

-----------------------------------------------------------------------------
(* Expiry and orphan detection.                                            *)

\* DynamoDB deletes an expired item, sooner or later.
Expire(i) ==
    /\ item[i] # {}
    /\ ttl[i] # 0 /\ ttl[i] <= now
    /\ item' = [item EXCEPT ![i] = {}]
    /\ ttl' = [ttl EXCEPT ![i] = 0]
    /\ counted' = IF i = Master THEN {} ELSE counted
    /\ removes' = removes \union {[item |-> i, image |-> item[i]]}
    /\ UNCHANGED <<call, arrivals, handlers, published, alerts, lost, now, failures>>

\* The query of the transferId index.
PerFileRecordExists == \E f \in Files : "transferId" \in item[f]

\* Mutants: the event-only branch comes first, or a query without result is normal.
OrphanTypeEventFirst(image) ==
    IF "eventResult" \in image THEN "event-only"
    ELSE IF "metadata" \in image /\ (PerFileRecordExists \/ "batchTimeoutPublished" \in image)
         THEN "none"
    ELSE "metadata-only"
OrphanTypeEventOnly(image) ==
    IF "eventResult" \in image /\ "metadata" \notin image THEN "event-only" ELSE "none"

\* Mutant: the type names what is missing.
OrphanTypeMissing(image) ==
    IF Complete(image) THEN "none"
    ELSE IF "metadata" \in image THEN "event-missing" ELSE "metadata-missing"

\* The four branches of detect_orphan.
OrphanType(image) ==
    IF Complete(image) THEN "none"
    ELSE IF "metadata" \in image /\ "transferId" \notin image
         THEN IF "batchTimeoutPublished" \in image \/ PerFileRecordExists
              THEN "none" ELSE "metadata-only"
    ELSE IF "metadata" \in image THEN "metadata-only"
    ELSE IF "eventResult" \in image THEN "event-only"
    ELSE "none"

\* Publishing an alert may fail, which is swallowed, or a neighbour of its batch may,
\* and the Pipe delivers the record again.
DetectOrphan(r) ==
    /\ r \in removes
    /\ LET type == OrphanType(r.image)
       IN \/ /\ alerts' = IF type = "none" THEN alerts
                          ELSE alerts \union {[item |-> r.item, type |-> type]}
             /\ \/ removes' = removes \ {r} /\ UNCHANGED failures
                \/ SomethingFails /\ UNCHANGED removes
             /\ UNCHANGED lost
          \/ /\ SomethingFails
             /\ lost' = lost \union {r.item}
             /\ removes' = removes \ {r}
             /\ UNCHANGED alerts
    /\ UNCHANGED <<call, records, arrivals, handlers, published, now>>

\* Bound: a call of the helper and a handler, which take seconds, end within the tick.
Tick ==
    /\ caller \in Outcomes
    /\ \A i \in Items : handling[i] = "idle"
    /\ now < Horizon
    /\ now' = now + 1
    /\ UNCHANGED <<call, records, arrivals, handlers, outputs, failures>>

Next ==
    \/ StartOperation \/ RejectTimeout \/ WriteMetadata \/ AbandonWrite
    \/ \E i \in Items : StoreEvent(i) \/ HandleJoined(i) \/ FailHandler(i) \/ Expire(i)
    \/ \E f \in Files : CopyMetadata(f) \/ CountJoined(f) \/ MarkBatch(f)
    \/ ScheduleTimeout \/ FireTimeout \/ MarkTimeout
    \/ \E r \in removes : DetectOrphan(r)
    \/ Tick

Spec == Init /\ [][Next]_vars

-----------------------------------------------------------------------------
(* Properties.                                                             *)

\* What the caller is told about the metadata is so: a normal return, and the exception
\* for a duplicate, mean that it is stored, a rejected argument that it is not.
CallerLearnsTheTruth ==
    [][caller' # caller =>
        /\ caller' \in {"returned", "duplicate"} => "metadata" \in item'[Master]
        /\ caller' = "IllegalArgumentException" => "metadata" \notin item'[Master]]_vars

\* An update that comes after the expiry of its record creates one without a ttl, which
\* stays for ever.  Only the marker of the batch event comes so late, for a file that was
\* finished when the master's record was about to expire; no copy of the metadata, no
\* timeout marker and no event does.
OnlyAMarkerStays ==
    \A i \in Items : item[i] # {} /\ ttl[i] = 0 =>
        /\ i = Master /\ item[i] = {"batchEventPublished"}
        /\ \E f \in joined : storedAt[f] + 2 * MaxAge >= Ttl + Stagger

\* A record that was joined is never reported as an orphan.
NoAlertForJoined == \A a \in alerts : a.item \notin joined

\* Whatever became of the call: an event without metadata, and metadata without any event,
\* are reported when their record is gone, unless the report itself failed.  A transfer
\* whose timeout event went out needs no further report.
UnmatchedIsReported ==
    \A i \in Items \ lost :
        ttl[i] = 0 /\ (\A r \in removes : r.item # i) =>
            /\ i \in stored \ joined => [item |-> i, type |-> "event-only"] \in alerts
            /\ i = Master /\ written /\ stored = {} /\ [kind |-> "timeout"] \notin published
                => [item |-> i, type |-> "metadata-only"] \in alerts

Join == INSTANCE JoinOutcome WITH
            described <- joined \union (IF written THEN {Master} ELSE {}),
            announced <- {i \in Items : [kind |-> "individual", item |-> i] \in published},
            abandoned <- {}

\* The join as one step per copy, with records that expire and are created anew by late
\* events, implements the abstract join that MetadataJoin implements in detail.
ImplementsJoin == Join!Spec

\* A timeout that leaves room for the message's delay finds the transfer's record, so it
\* does not contradict a completion event.
TimeoutFindsRecord ==
    [kind |-> "degraded"] \in published => batchTimeout + Lag >= Ttl + Stagger

\* A caller who wants the batch event only gets no event for a file, unless the file
\* was finished when the master's record was about to expire.
EmissionModeHolds ==
    emissionMode = "WHOLE_TRANSFER_COMPLETION_ONLY" =>
        \A f \in Files :
            [kind |-> "individual", item |-> f] \in published
                => storedAt[f] + 2 * MaxAge >= Ttl + Stagger

\* A transfer all of whose files were joined is not reported when its master expires.
JoinedTransferIsNoOrphan ==
    Files \subseteq joined => \A a \in alerts : a.item # Master
=============================================================================
