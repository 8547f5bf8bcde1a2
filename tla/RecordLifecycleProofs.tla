----------------------- MODULE RecordLifecycleProofs -----------------------
(***************************************************************************)
(* Proofs about RecordLifecycle, for any files, lifetimes, limits and      *)
(* bounds.  The invariant is about age: while a record's event can still   *)
(* be repeated or its stream record still be handled, the record is there; *)
(* once the record is gone, nothing can bring it back.                     *)
(***************************************************************************)
EXTENDS RecordLifecycle, TLAPS

\* The call is over before time passes, and only it writes metadata to Master.
CallInv ==
    /\ caller \in {"calling", "started"} => now = 0
    /\ caller = "calling" => ~written
    /\ caller = "started" /\ written => TimeoutAllowed
    /\ now = 0 => removes = {} /\ alerts = {}
    /\ emissionMode \notin BatchModes => batchTimeout = 0
    /\ scheduled => written /\ batchTimeout # 0
    /\ emissionMode = "single" => stored \intersect Files = {}
    /\ emissionMode # "single" => Master \notin stored

\* A record whose event was stored has not expired before its time.
Aged(i) == now >= storedAt[i] + Ttl

EventInv ==
    \A i \in Items :
        /\ storedAt[i] <= now
        /\ i \in stored =>
            \/ "eventResult" \in item[i] /\ ttl[i] >= storedAt[i] + Ttl
            \/ item[i] = {} /\ Aged(i)
        /\ item[i] = {} => ttl[i] = 0
        /\ i \notin stored => "eventResult" \notin item[i]
        /\ i \in Files \ stored => item[i] = {}
        /\ "transferId" \in item[i] => i \in Files

\* The master record lives as long as the helper said.  Then there is none, or the marker of
\* the batch event alone.
MasterInv ==
    /\ ~written => joined = {} /\ \A i \in Items : "metadata" \notin item[i]
    /\ ~written /\ emissionMode # "single" => item[Master] = {}
    /\ written => ("metadata" \in item[Master] \/ now > 0)
    /\ written /\ emissionMode # "single" =>
        \/ "metadata" \in item[Master] /\ ttl[Master] = Ttl + Stagger
        \/ /\ item[Master] \in {{}, {"batchEventPublished"}} /\ ttl[Master] = 0
           /\ now >= Ttl + Stagger
    /\ "batchTimeoutPublished" \in item[Master] => counted # {}
    /\ counted # {} => "metadata" \in item[Master]
    /\ counted \subseteq joined

JoinInv ==
    \A i \in Items :
        /\ Complete(item[i]) => i \in joined
        /\ i \in joined =>
            /\ i \in stored
            /\ Complete(item[i]) \/ (item[i] = {} /\ Aged(i))
            /\ i \in Files => joinedAt[i] <= storedAt[i] + MaxAge

\* Only what is young enough is handled, and only batches are tracked.
HandlingInv ==
    \A i \in Items :
        /\ handling[i] # "idle" => emissionMode \in BatchModes
        /\ handling[i] \in {"count", "mark"} =>
            i \in Files \intersect joined /\ now <= joinedAt[i] + MaxAge

\* A record that expired without its metadata will not get it.
Dead(i) ==
    /\ now > 0
    /\ "metadata" \notin item[i]
    /\ i \in Files => i \in stored /\ item[i] = {} /\ Aged(i)

AlertInv ==
    /\ \A r \in removes : Dead(r.item) /\ (r.item \in joined => Complete(r.image))
    /\ \A a \in alerts : Dead(a.item) /\ a.item \notin joined

\* What is not matched is in its record, in the stream record of its removal, or reported.
Pending(i, has, hasnot) ==
    \E r \in removes : r.item = i /\ has \in r.image /\ r.image \intersect hasnot = {}

ReportInv ==
    /\ \A i \in (stored \ joined) \ lost :
        \/ "eventResult" \in item[i]
        \/ Pending(i, "eventResult", {"metadata"})
        \/ [item |-> i, type |-> "event-only"] \in alerts
    /\ written /\ stored = {} /\ Master \notin lost =>
        \/ "metadata" \in item[Master]
        \/ Pending(Master, "metadata", {"eventResult", "transferId", "batchTimeoutPublished"})
        \/ [item |-> Master, type |-> "metadata-only"] \in alerts

IInv ==
    /\ TypeOK
    /\ CallInv
    /\ EventInv
    /\ MasterInv
    /\ JoinInv
    /\ HandlingInv
    /\ AlertInv
    /\ ReportInv
    /\ OnlyAMarkerStays
    /\ TimeoutFindsRecord
    /\ EmissionModeHolds

\* Every step keeps the types.
LEMMA TypeStep ==
    ASSUME TypeOK, CallInv, JoinInv, HandlingInv, [Next]_vars
    PROVE  TypeOK'
<1> USE RecordsAssumption, TimesAssumption DEF TypeOK, Events, Modes, BatchModes, Outcomes,
    Complete, Items, Attributes
<1>1. CASE StartOperation
  <2>1. caller' \in Outcomes \union {"calling", "started"} /\ running' \in BOOLEAN
    BY <1>1 DEF StartOperation
  <2>2. failures' \in 0..MaxFailures
    BY <1>1 DEF StartOperation, SomethingFails
  <2> QED BY <2>1, <2>2, <1>1 DEF StartOperation, call, records, arrivals, handlers, outputs
<1>2. CASE RejectTimeout
  BY <1>2 DEF RejectTimeout, TimeoutAllowed, call, records, arrivals, handlers, outputs, vars
<1>3. CASE WriteMetadata
  <2>1. /\ item' \in [Items -> SUBSET Attributes]
        /\ joined' \subseteq Items /\ joinedAt' \in [Items -> Nat]
    BY <1>3 DEF WriteMetadata, Update
  <2>2. ttl' \in [Items -> Nat] /\ written' \in BOOLEAN
    <3>1. RecordLifetime \in Nat
      BY DEF RecordLifetime
    <3>2. now + RecordLifetime \in Nat
      BY <3>1
    <3>3. ttl' \in [Items -> Nat]
      BY <1>3, <3>2 DEF WriteMetadata
    <3>4. written' \in BOOLEAN
      BY <1>3 DEF WriteMetadata
    <3> QED BY <3>3, <3>4
  <2>3. caller' \in Outcomes \union {"calling", "started"} /\ failures' \in 0..MaxFailures
    BY <1>3 DEF WriteMetadata, SomethingFails
  <2> QED BY <2>1, <2>2, <2>3, <1>3 DEF WriteMetadata, handlers, outputs
<1>4. CASE AbandonWrite
  BY <1>4 DEF AbandonWrite, SomethingFails, call, records, arrivals, handlers, outputs, vars
<1>5. ASSUME NEW i \in Items, StoreEvent(i) PROVE TypeOK'
  BY <1>5 DEF StoreEvent, Update, EventTtl, call, records, arrivals, handlers, outputs, vars
<1>6. ASSUME NEW i \in Items, HandleJoined(i) PROVE TypeOK'
  <2>1. published' \subseteq Events
    BY <1>6 DEF HandleJoined
  <2>2. handling' \in [Items -> {"idle", "count", "mark", "timeout"}]
    BY <1>6 DEF HandleJoined, GoesOn
  <2> QED BY <2>1, <2>2, <1>6 DEF HandleJoined, call, records, arrivals
<1>7. ASSUME NEW i \in Items, Expire(i) PROVE TypeOK'
  BY <1>7 DEF Expire, call, records, arrivals, handlers, outputs, vars
<1>8. ASSUME NEW f \in Files, CopyMetadata(f) PROVE TypeOK'
  BY <1>8 DEF CopyMetadata, Update, call, records, arrivals, handlers, outputs, vars
<1>9. CASE FireTimeout
  BY <1>9 DEF FireTimeout, GoesOn, Unmarked, Live, call, records, arrivals, handlers,
     outputs, vars
<1>10. ASSUME NEW r \in removes, DetectOrphan(r) PROVE TypeOK'
  BY <1>10 DEF DetectOrphan, SomethingFails, OrphanType, PerFileRecordExists, call,
     records, arrivals, handlers, outputs, vars
<1>11. CASE Tick
  BY <1>11 DEF Tick, Outcomes, call, records, arrivals, handlers, outputs, vars
<1>12. CASE UNCHANGED vars
  BY <1>12 DEF call, records, arrivals, handlers, outputs, vars
<1>13. ASSUME NEW f \in Files, CountJoined(f) PROVE TypeOK'
  BY <1>13 DEF CountJoined, GoesOn, Intact, call, records, arrivals, handlers, outputs, vars
<1>14. ASSUME NEW f \in Files, MarkBatch(f) PROVE TypeOK'
  BY <1>14 DEF MarkBatch, GoesOn, Unmarked, call, records, arrivals, handlers, outputs, vars
<1>15. CASE ScheduleTimeout
  BY <1>15 DEF ScheduleTimeout, SomethingFails, Update, call, records, arrivals, handlers,
     outputs, vars
<1>16. CASE MarkTimeout
  BY <1>16 DEF MarkTimeout, GoesOn, BelowExpected, call, records, arrivals, handlers,
     outputs, vars
<1>17. ASSUME NEW i \in Items, FailHandler(i) PROVE TypeOK'
  BY <1>17 DEF FailHandler, SomethingFails, GoesOn, call, records, arrivals, handlers,
     outputs, vars
<1> QED BY <1>1, <1>2, <1>3, <1>4, <1>5, <1>6, <1>7, <1>8, <1>9, <1>10, <1>11, <1>12, <1>13,
     <1>14, <1>15, <1>16, <1>17 DEF Next

\* Time passes, and records go, only when the call is over.
LEMMA CallStep ==
    ASSUME TypeOK, CallInv, [Next]_vars
    PROVE  CallInv'
<1> USE RecordsAssumption, TimesAssumption DEF TypeOK, CallInv, TimeoutAllowed,
    RecordLifetime, Modes, BatchModes, Outcomes, Complete, Items, Attributes
<1>1. CASE StartOperation
  BY <1>1 DEF StartOperation, SomethingFails, call, records, arrivals, handlers, outputs, vars
<1>2. CASE RejectTimeout
  BY <1>2 DEF RejectTimeout, TimeoutAllowed, call, records, arrivals, handlers, outputs, vars
<1>3. CASE WriteMetadata
  BY <1>3 DEF WriteMetadata, SomethingFails, Update, NoMetadataYet, RecordLifetime, call,
     records, arrivals, handlers, outputs, vars
<1>4. CASE AbandonWrite
  BY <1>4 DEF AbandonWrite, SomethingFails, call, records, arrivals, handlers, outputs, vars
<1>5. ASSUME NEW i \in Items, StoreEvent(i) PROVE CallInv'
  BY <1>5 DEF StoreEvent, Update, EventTtl, call, records, arrivals, handlers, outputs, vars
<1>6. ASSUME NEW i \in Items, HandleJoined(i) PROVE CallInv'
  BY <1>6 DEF HandleJoined, GoesOn, Intact, ShouldPublishIndividualEvent, call, records,
     arrivals, handlers, outputs, vars
<1>7. ASSUME NEW i \in Items, Expire(i) PROVE CallInv'
  BY <1>7 DEF Expire, call, records, arrivals, handlers, outputs, vars
<1>8. ASSUME NEW f \in Files, CopyMetadata(f) PROVE CallInv'
  BY <1>8 DEF CopyMetadata, Update, call, records, arrivals, handlers, outputs, vars
<1>9. CASE FireTimeout
  BY <1>9 DEF FireTimeout, GoesOn, Unmarked, Live, call, records, arrivals, handlers,
     outputs, vars
<1>10. ASSUME NEW r \in removes, DetectOrphan(r) PROVE CallInv'
  BY <1>10 DEF DetectOrphan, SomethingFails, OrphanType, PerFileRecordExists, call,
     records, arrivals, handlers, outputs, vars
<1>11. CASE Tick
  BY <1>11 DEF Tick, Outcomes, call, records, arrivals, handlers, outputs, vars
<1>12. CASE UNCHANGED vars
  BY <1>12 DEF call, records, arrivals, handlers, outputs, vars
<1>13. ASSUME NEW f \in Files, CountJoined(f) PROVE CallInv'
  BY <1>13 DEF CountJoined, GoesOn, Intact, call, records, arrivals, handlers, outputs, vars
<1>14. ASSUME NEW f \in Files, MarkBatch(f) PROVE CallInv'
  BY <1>14 DEF MarkBatch, GoesOn, Unmarked, call, records, arrivals, handlers, outputs, vars
<1>15. CASE ScheduleTimeout
  BY <1>15 DEF ScheduleTimeout, SomethingFails, Update, call, records, arrivals, handlers,
     outputs, vars
<1>16. CASE MarkTimeout
  BY <1>16 DEF MarkTimeout, GoesOn, BelowExpected, call, records, arrivals, handlers,
     outputs, vars
<1>17. ASSUME NEW i \in Items, FailHandler(i) PROVE CallInv'
  BY <1>17 DEF FailHandler, SomethingFails, GoesOn, call, records, arrivals, handlers,
     outputs, vars
<1> QED BY <1>1, <1>2, <1>3, <1>4, <1>5, <1>6, <1>7, <1>8, <1>9, <1>10, <1>11, <1>12, <1>13,
     <1>14, <1>15, <1>16, <1>17 DEF Next

\* An event is stored with a ttl that is Ttl ticks away, and its record is there until then;
\* an event repeated by then only prolongs it, since EventAge is less than Ttl.
LEMMA EventStep ==
    ASSUME TypeOK, CallInv, EventInv, HandlingInv, [Next]_vars
    PROVE  EventInv'
<1> USE RecordsAssumption, TimesAssumption DEF TypeOK, CallInv, EventInv, HandlingInv,
     BatchModes, Aged, Complete,
    Items, Attributes
<1>1. CASE StartOperation \/ RejectTimeout \/ AbandonWrite \/ UNCHANGED vars
  BY <1>1 DEF StartOperation, SomethingFails, RejectTimeout, TimeoutAllowed, AbandonWrite,
     call, records, arrivals, handlers, outputs, vars
<1>2. CASE WriteMetadata
  BY <1>2 DEF WriteMetadata, SomethingFails, Update, NoMetadataYet, RecordLifetime, call,
     records, arrivals, handlers, outputs, vars
<1>3. ASSUME NEW i \in Items, StoreEvent(i) PROVE EventInv'
  BY <1>3 DEF StoreEvent, Update, EventTtl, call, records, arrivals, handlers, outputs, vars
<1>4. ASSUME NEW i \in Items, HandleJoined(i) PROVE EventInv'
  BY <1>4 DEF HandleJoined, GoesOn, Intact, ShouldPublishIndividualEvent, call, records,
     arrivals, handlers, outputs, vars
<1>5. ASSUME NEW i \in Items, Expire(i) PROVE EventInv'
  BY <1>5 DEF Expire, call, records, arrivals, handlers, outputs, vars
<1>6. ASSUME NEW f \in Files, CopyMetadata(f) PROVE EventInv'
  BY <1>6 DEF CopyMetadata, Update, call, records, arrivals, handlers, outputs, vars
<1>7. CASE FireTimeout
  BY <1>7 DEF FireTimeout, GoesOn, Unmarked, Live, call, records, arrivals, handlers,
     outputs, vars
<1>8. ASSUME NEW r \in removes, DetectOrphan(r) PROVE EventInv'
  BY <1>8 DEF DetectOrphan, SomethingFails, OrphanType, PerFileRecordExists, call, records,
     arrivals, handlers, outputs, vars
<1>9. CASE Tick
  BY <1>9 DEF Tick, Outcomes, call, records, arrivals, handlers, outputs, vars
<1>10. ASSUME NEW f \in Files, CountJoined(f) PROVE EventInv'
  BY <1>10 DEF CountJoined, GoesOn, Intact, call, records, arrivals, handlers, outputs, vars
<1>11. ASSUME NEW f \in Files, MarkBatch(f) PROVE EventInv'
  BY <1>11 DEF MarkBatch, GoesOn, Unmarked, call, records, arrivals, handlers, outputs, vars
<1>12. CASE ScheduleTimeout
  BY <1>12 DEF ScheduleTimeout, SomethingFails, Update, call, records, arrivals, handlers,
     outputs, vars
<1>13. CASE MarkTimeout
  BY <1>13 DEF MarkTimeout, GoesOn, BelowExpected, call, records, arrivals, handlers,
     outputs, vars
<1>14. ASSUME NEW i \in Items, FailHandler(i) PROVE EventInv'
  BY <1>14 DEF FailHandler, SomethingFails, GoesOn, call, records, arrivals, handlers,
     outputs, vars
<1> QED BY <1>1, <1>2, <1>3, <1>4, <1>5, <1>6, <1>7, <1>8, <1>9, <1>10, <1>11, <1>12, <1>13,
     <1>14 DEF Next

\* Only the helper's call writes the master's metadata, and only its expiry removes it.
LEMMA MasterStep ==
    ASSUME TypeOK, CallInv, EventInv, MasterInv, JoinInv, HandlingInv, [Next]_vars
    PROVE  MasterInv'
<1> USE RecordsAssumption, TimesAssumption DEF TypeOK, CallInv, EventInv, MasterInv,
    JoinInv, HandlingInv, Modes, BatchModes, Outcomes, Aged, Complete, Items, Attributes
<1>1. CASE StartOperation \/ RejectTimeout \/ AbandonWrite \/ UNCHANGED vars
  BY <1>1 DEF StartOperation, SomethingFails, RejectTimeout, TimeoutAllowed, AbandonWrite,
     call, records, arrivals, handlers, outputs, vars
<1>2. CASE WriteMetadata
  BY <1>2 DEF WriteMetadata, SomethingFails, Update, NoMetadataYet, RecordLifetime, call,
     records, arrivals, handlers, outputs, vars
<1>3. ASSUME NEW i \in Items, StoreEvent(i) PROVE MasterInv'
  BY <1>3 DEF StoreEvent, Update, EventTtl, call, records, arrivals, handlers, outputs, vars
<1>4. ASSUME NEW i \in Items, HandleJoined(i) PROVE MasterInv'
  BY <1>4 DEF HandleJoined, GoesOn, Intact, ShouldPublishIndividualEvent, call, records,
     arrivals, handlers, outputs, vars
<1>5. ASSUME NEW i \in Items, Expire(i) PROVE MasterInv'
  BY <1>5 DEF Expire, call, records, arrivals, handlers, outputs, vars
<1>6. ASSUME NEW f \in Files, CopyMetadata(f) PROVE MasterInv'
  BY <1>6 DEF CopyMetadata, Update, call, records, arrivals, handlers, outputs, vars
<1>7. CASE FireTimeout
  BY <1>7 DEF FireTimeout, GoesOn, Unmarked, Live, call, records, arrivals, handlers,
     outputs, vars
<1>8. ASSUME NEW r \in removes, DetectOrphan(r) PROVE MasterInv'
  BY <1>8 DEF DetectOrphan, SomethingFails, OrphanType, PerFileRecordExists, call, records,
     arrivals, handlers, outputs, vars
<1>9. CASE Tick
  BY <1>9 DEF Tick, Outcomes, call, records, arrivals, handlers, outputs, vars
<1>10. ASSUME NEW f \in Files, CountJoined(f) PROVE MasterInv'
  BY <1>10 DEF CountJoined, GoesOn, Intact, call, records, arrivals, handlers, outputs, vars
<1>11. ASSUME NEW f \in Files, MarkBatch(f) PROVE MasterInv'
  BY <1>11 DEF MarkBatch, GoesOn, Unmarked, call, records, arrivals, handlers, outputs, vars
<1>12. CASE ScheduleTimeout
  BY <1>12 DEF ScheduleTimeout, SomethingFails, Update, call, records, arrivals, handlers,
     outputs, vars
<1>13. CASE MarkTimeout
  BY <1>13 DEF MarkTimeout, GoesOn, BelowExpected, call, records, arrivals, handlers,
     outputs, vars
<1>14. ASSUME NEW i \in Items, FailHandler(i) PROVE MasterInv'
  BY <1>14 DEF FailHandler, SomethingFails, GoesOn, call, records, arrivals, handlers,
     outputs, vars
<1> QED BY <1>1, <1>2, <1>3, <1>4, <1>5, <1>6, <1>7, <1>8, <1>9, <1>10, <1>11, <1>12, <1>13,
     <1>14 DEF Next

\* A joined record stays complete until it expires, and its file's join is not late.
LEMMA JoinStep ==
    ASSUME TypeOK, CallInv, EventInv, MasterInv, JoinInv, HandlingInv, [Next]_vars
    PROVE  JoinInv'
<1> USE RecordsAssumption, TimesAssumption DEF TypeOK, CallInv, EventInv, MasterInv,
    JoinInv, HandlingInv, Aged, Complete, Items, Attributes
<1>1. CASE StartOperation \/ RejectTimeout \/ AbandonWrite \/ UNCHANGED vars
  BY <1>1 DEF StartOperation, SomethingFails, RejectTimeout, TimeoutAllowed, AbandonWrite,
     call, records, arrivals, handlers, outputs, vars
<1>2. CASE WriteMetadata
  BY <1>2 DEF WriteMetadata, SomethingFails, Update, NoMetadataYet, RecordLifetime, call,
     records, arrivals, handlers, outputs, vars
<1>3. ASSUME NEW i \in Items, StoreEvent(i) PROVE JoinInv'
  BY <1>3 DEF StoreEvent, Update, EventTtl, call, records, arrivals, handlers, outputs, vars
<1>4. ASSUME NEW i \in Items, HandleJoined(i) PROVE JoinInv'
  BY <1>4 DEF HandleJoined, GoesOn, Intact, ShouldPublishIndividualEvent, call, records,
     arrivals, handlers, outputs, vars
<1>5. ASSUME NEW i \in Items, Expire(i) PROVE JoinInv'
  BY <1>5 DEF Expire, call, records, arrivals, handlers, outputs, vars
<1>6. ASSUME NEW f \in Files, CopyMetadata(f) PROVE JoinInv'
  BY <1>6 DEF CopyMetadata, Update, call, records, arrivals, handlers, outputs, vars
<1>7. CASE FireTimeout
  BY <1>7 DEF FireTimeout, GoesOn, Unmarked, Live, call, records, arrivals, handlers,
     outputs, vars
<1>8. ASSUME NEW r \in removes, DetectOrphan(r) PROVE JoinInv'
  BY <1>8 DEF DetectOrphan, SomethingFails, OrphanType, PerFileRecordExists, call, records,
     arrivals, handlers, outputs, vars
<1>9. CASE Tick
  BY <1>9 DEF Tick, Outcomes, call, records, arrivals, handlers, outputs, vars
<1>10. ASSUME NEW f \in Files, CountJoined(f) PROVE JoinInv'
  BY <1>10 DEF CountJoined, GoesOn, Intact, call, records, arrivals, handlers, outputs, vars
<1>11. ASSUME NEW f \in Files, MarkBatch(f) PROVE JoinInv'
  BY <1>11 DEF MarkBatch, GoesOn, Unmarked, call, records, arrivals, handlers, outputs, vars
<1>12. CASE ScheduleTimeout
  BY <1>12 DEF ScheduleTimeout, SomethingFails, Update, call, records, arrivals, handlers,
     outputs, vars
<1>13. CASE MarkTimeout
  BY <1>13 DEF MarkTimeout, GoesOn, BelowExpected, call, records, arrivals, handlers,
     outputs, vars
<1>14. ASSUME NEW i \in Items, FailHandler(i) PROVE JoinInv'
  BY <1>14 DEF FailHandler, SomethingFails, GoesOn, call, records, arrivals, handlers,
     outputs, vars
<1> QED BY <1>1, <1>2, <1>3, <1>4, <1>5, <1>6, <1>7, <1>8, <1>9, <1>10, <1>11, <1>12, <1>13,
     <1>14 DEF Next

\* What is being handled is joined, young enough, and a file of a batch.
LEMMA HandlingStep ==
    ASSUME TypeOK, CallInv, EventInv, MasterInv, JoinInv, HandlingInv, [Next]_vars
    PROVE  HandlingInv'
<1> USE RecordsAssumption, TimesAssumption DEF TypeOK, CallInv, EventInv, MasterInv,
    JoinInv, HandlingInv, Modes, BatchModes, Aged, Complete, Items, Attributes
<1>1. CASE StartOperation \/ RejectTimeout \/ AbandonWrite \/ UNCHANGED vars
  BY <1>1 DEF StartOperation, SomethingFails, RejectTimeout, TimeoutAllowed, AbandonWrite,
     call, records, arrivals, handlers, outputs, vars
<1>2. CASE WriteMetadata
  BY <1>2 DEF WriteMetadata, SomethingFails, Update, NoMetadataYet, RecordLifetime,
     call, records, arrivals, handlers, outputs, vars
<1>3. ASSUME NEW i \in Items, StoreEvent(i) PROVE HandlingInv'
  BY <1>3 DEF StoreEvent, Update, EventTtl, call, records, arrivals, handlers, outputs, vars
<1>4. ASSUME NEW i \in Items, HandleJoined(i) PROVE HandlingInv'
  BY <1>4 DEF HandleJoined, GoesOn, Intact, ShouldPublishIndividualEvent,
     call, records, arrivals, handlers, outputs, vars
<1>5. ASSUME NEW i \in Items, Expire(i) PROVE HandlingInv'
  BY <1>5 DEF Expire, call, records, arrivals, handlers, outputs, vars
<1>6. ASSUME NEW f \in Files, CopyMetadata(f) PROVE HandlingInv'
  BY <1>6 DEF CopyMetadata, Update, call, records, arrivals, handlers, outputs, vars
<1>7. CASE FireTimeout
  BY <1>7 DEF FireTimeout, GoesOn, Unmarked, Live, call, records, arrivals, handlers,
     outputs, vars
<1>8. ASSUME NEW r \in removes, DetectOrphan(r) PROVE HandlingInv'
  BY <1>8 DEF DetectOrphan, SomethingFails, OrphanType, PerFileRecordExists,
     call, records, arrivals, handlers, outputs, vars
<1>9. CASE Tick
  BY <1>9 DEF Tick, Outcomes, call, records, arrivals, handlers, outputs, vars
<1>10. ASSUME NEW f \in Files, CountJoined(f) PROVE HandlingInv'
  BY <1>10 DEF CountJoined, GoesOn, Intact, call, records, arrivals, handlers, outputs, vars
<1>11. ASSUME NEW f \in Files, MarkBatch(f) PROVE HandlingInv'
  BY <1>11 DEF MarkBatch, GoesOn, Unmarked, call, records, arrivals, handlers, outputs, vars
<1>12. CASE ScheduleTimeout
  BY <1>12 DEF ScheduleTimeout, SomethingFails, Update, call, records, arrivals, handlers,
     outputs, vars
<1>13. CASE MarkTimeout
  BY <1>13 DEF MarkTimeout, GoesOn, BelowExpected, call, records, arrivals, handlers,
     outputs, vars
<1>14. ASSUME NEW i \in Items, FailHandler(i) PROVE HandlingInv'
  BY <1>14 DEF FailHandler, SomethingFails, GoesOn, call, records, arrivals, handlers,
     outputs, vars
<1> QED BY <1>1, <1>2, <1>3, <1>4, <1>5, <1>6, <1>7, <1>8, <1>9, <1>10, <1>11, <1>12, <1>13,
    <1>14 DEF Next

\* Nothing brings a removed record's metadata back: MaxAge and EventAge are less than Ttl.
\* So a joined record was complete when it was removed, and is not alerted.
LEMMA AlertStep ==
    ASSUME TypeOK, CallInv, EventInv, MasterInv, JoinInv, HandlingInv, AlertInv,
           [Next]_vars
    PROVE  AlertInv'
<1> USE RecordsAssumption, TimesAssumption DEF TypeOK, CallInv, EventInv, MasterInv,
    JoinInv, HandlingInv, AlertInv, Dead, Aged, Complete, Items, Attributes
<1>1. CASE StartOperation \/ RejectTimeout \/ AbandonWrite \/ UNCHANGED vars
  BY <1>1 DEF StartOperation, SomethingFails, RejectTimeout, TimeoutAllowed, AbandonWrite,
     call, records, arrivals, handlers, outputs, vars
<1>2. CASE WriteMetadata
  BY <1>2 DEF WriteMetadata, SomethingFails, Update, NoMetadataYet, RecordLifetime, call,
     records, arrivals, handlers, outputs, vars
<1>3. ASSUME NEW i \in Items, StoreEvent(i) PROVE AlertInv'
  BY <1>3 DEF StoreEvent, Update, EventTtl, call, records, arrivals, handlers, outputs, vars
<1>4. ASSUME NEW i \in Items, HandleJoined(i) PROVE AlertInv'
  BY <1>4 DEF HandleJoined, GoesOn, Intact, ShouldPublishIndividualEvent, call, records,
     arrivals, handlers, outputs, vars
<1>5. ASSUME NEW i \in Items, Expire(i) PROVE AlertInv'
  BY <1>5 DEF Expire, call, records, arrivals, handlers, outputs, vars
<1>6. ASSUME NEW f \in Files, CopyMetadata(f) PROVE AlertInv'
  BY <1>6 DEF CopyMetadata, Update, call, records, arrivals, handlers, outputs, vars
<1>7. CASE FireTimeout
  BY <1>7 DEF FireTimeout, GoesOn, Unmarked, Live, call, records, arrivals, handlers,
     outputs, vars
<1>8. ASSUME NEW r \in removes, DetectOrphan(r) PROVE AlertInv'
  BY <1>8 DEF DetectOrphan, SomethingFails, OrphanType, PerFileRecordExists, call, records,
     arrivals, handlers, outputs, vars
<1>9. CASE Tick
  BY <1>9 DEF Tick, Outcomes, call, records, arrivals, handlers, outputs, vars
<1>10. ASSUME NEW f \in Files, CountJoined(f) PROVE AlertInv'
  BY <1>10 DEF CountJoined, GoesOn, Intact, call, records, arrivals, handlers, outputs, vars
<1>11. ASSUME NEW f \in Files, MarkBatch(f) PROVE AlertInv'
  BY <1>11 DEF MarkBatch, GoesOn, Unmarked, call, records, arrivals, handlers, outputs, vars
<1>12. CASE ScheduleTimeout
  BY <1>12 DEF ScheduleTimeout, SomethingFails, Update, call, records, arrivals, handlers,
     outputs, vars
<1>13. CASE MarkTimeout
  BY <1>13 DEF MarkTimeout, GoesOn, BelowExpected, call, records, arrivals, handlers,
     outputs, vars
<1>14. ASSUME NEW i \in Items, FailHandler(i) PROVE AlertInv'
  BY <1>14 DEF FailHandler, SomethingFails, GoesOn, call, records, arrivals, handlers,
     outputs, vars
<1> QED BY <1>1, <1>2, <1>3, <1>4, <1>5, <1>6, <1>7, <1>8, <1>9, <1>10, <1>11, <1>12, <1>13,
     <1>14 DEF Next

\* What is unmatched goes from its record to its removal, and from there to an alert.
LEMMA ReportStep ==
    ASSUME TypeOK, CallInv, EventInv, MasterInv, JoinInv, HandlingInv, AlertInv,
           ReportInv, [Next]_vars
    PROVE  ReportInv'
<1> USE RecordsAssumption, TimesAssumption DEF TypeOK, CallInv, EventInv, MasterInv,
    JoinInv, HandlingInv, AlertInv, ReportInv, Pending, Dead, Aged, Complete, Items, Attributes
<1>1. CASE StartOperation \/ RejectTimeout \/ AbandonWrite \/ UNCHANGED vars
  BY <1>1 DEF StartOperation, SomethingFails, RejectTimeout, TimeoutAllowed, AbandonWrite,
     call, records, arrivals, handlers, outputs, vars
<1>2. CASE WriteMetadata
  BY <1>2 DEF WriteMetadata, SomethingFails, Update, NoMetadataYet, RecordLifetime, call,
     records, arrivals, handlers, outputs, vars
<1>3. ASSUME NEW i \in Items, StoreEvent(i) PROVE ReportInv'
  BY <1>3 DEF StoreEvent, Update, EventTtl, call, records, arrivals, handlers, outputs, vars
<1>4. ASSUME NEW i \in Items, HandleJoined(i) PROVE ReportInv'
  BY <1>4 DEF HandleJoined, GoesOn, Intact, ShouldPublishIndividualEvent, call, records,
     arrivals, handlers, outputs, vars
<1>5. ASSUME NEW i \in Items, Expire(i) PROVE ReportInv'
  <2> DEFINE r == [item |-> i, image |-> item[i]]
  <2>1. /\ removes' = removes \union {r} /\ item' = [item EXCEPT ![i] = {}]
        /\ UNCHANGED <<stored, joined, lost, alerts, written>>
    BY <1>5 DEF Expire, call, arrivals
  <2>2. r \in removes' /\ r.item = i /\ r.image = item[i]
    BY <2>1
  <2>3. ASSUME NEW j \in (stored \ joined) \ lost
        PROVE  \/ "eventResult" \in item'[j]
               \/ Pending(j, "eventResult", {"metadata"})'
               \/ [item |-> j, type |-> "event-only"] \in alerts
    <3>1. CASE j = i /\ "eventResult" \in item[i]
      <4>1. "metadata" \notin item[i]
        BY <2>3, <3>1
      <4> QED BY <2>2, <3>1, <4>1
    <3>2. CASE j # i \/ "eventResult" \notin item[i]
      <4>1. j # i => item'[j] = item[j]
        BY <2>1
      <4>2. Pending(j, "eventResult", {"metadata"})
            => Pending(j, "eventResult", {"metadata"})'
        BY <2>1
      <4> HIDE DEF Pending
      <4> QED BY <2>3, <3>2, <4>1, <4>2
    <3> QED BY <3>1, <3>2
  <2>4. ASSUME written, stored = {}, Master \notin lost
        PROVE  \/ "metadata" \in item'[Master]
               \/ Pending(Master, "metadata",
                          {"eventResult", "transferId", "batchTimeoutPublished"})'
               \/ [item |-> Master, type |-> "metadata-only"] \in alerts
    <3>1. item[Master] \intersect {"eventResult", "transferId", "batchTimeoutPublished"} = {}
      BY <2>4
    <3> QED BY <2>1, <2>2, <2>4, <3>1
  <2> QED BY <2>1, <2>3, <2>4
<1>6. ASSUME NEW f \in Files, CopyMetadata(f) PROVE ReportInv'
  BY <1>6 DEF CopyMetadata, Update, call, records, arrivals, handlers, outputs, vars
<1>7. CASE FireTimeout
  BY <1>7 DEF FireTimeout, GoesOn, Unmarked, Live, call, records, arrivals, handlers,
     outputs, vars
<1>8. ASSUME NEW r \in removes, DetectOrphan(r) PROVE ReportInv'
  BY <1>8 DEF DetectOrphan, SomethingFails, OrphanType, PerFileRecordExists, call, records,
     arrivals, handlers, outputs, vars
<1>9. CASE Tick
  BY <1>9 DEF Tick, Outcomes, call, records, arrivals, handlers, outputs, vars
<1>10. ASSUME NEW f \in Files, CountJoined(f) PROVE ReportInv'
  BY <1>10 DEF CountJoined, GoesOn, Intact, call, records, arrivals, handlers, outputs, vars
<1>11. ASSUME NEW f \in Files, MarkBatch(f) PROVE ReportInv'
  BY <1>11 DEF MarkBatch, GoesOn, Unmarked, call, records, arrivals, handlers, outputs, vars
<1>12. CASE ScheduleTimeout
  BY <1>12 DEF ScheduleTimeout, SomethingFails, Update, call, records, arrivals, handlers,
     outputs, vars
<1>13. CASE MarkTimeout
  BY <1>13 DEF MarkTimeout, GoesOn, BelowExpected, call, records, arrivals, handlers,
     outputs, vars
<1>14. ASSUME NEW i \in Items, FailHandler(i) PROVE ReportInv'
  BY <1>14 DEF FailHandler, SomethingFails, GoesOn, call, records, arrivals, handlers,
     outputs, vars
<1> QED BY <1>1, <1>2, <1>3, <1>4, <1>5, <1>6, <1>7, <1>8, <1>9, <1>10, <1>11, <1>12, <1>13,
     <1>14 DEF Next

\* The updates without a ttl, of a copy or a flag, find the record they update.
LEMMA ExpiryStep ==
    ASSUME TypeOK, CallInv, EventInv, MasterInv, JoinInv, HandlingInv, OnlyAMarkerStays,
           [Next]_vars
    PROVE  OnlyAMarkerStays'
<1> USE RecordsAssumption, TimesAssumption DEF TypeOK, CallInv, EventInv, MasterInv,
    JoinInv, HandlingInv, OnlyAMarkerStays, Aged, Complete, Items, Attributes
<1>1. CASE StartOperation \/ RejectTimeout \/ AbandonWrite \/ UNCHANGED vars
  BY <1>1 DEF StartOperation, SomethingFails, RejectTimeout, TimeoutAllowed, AbandonWrite,
     call, records, arrivals, handlers, outputs, vars
<1>2. CASE WriteMetadata
  BY <1>2 DEF WriteMetadata, SomethingFails, Update, NoMetadataYet, RecordLifetime, call,
     records, arrivals, handlers, outputs, vars
<1>3. ASSUME NEW i \in Items, StoreEvent(i) PROVE OnlyAMarkerStays'
  BY <1>3 DEF StoreEvent, Update, EventTtl, call, records, arrivals, handlers, outputs, vars
<1>4. ASSUME NEW i \in Items, HandleJoined(i) PROVE OnlyAMarkerStays'
  BY <1>4 DEF HandleJoined, GoesOn, Intact, ShouldPublishIndividualEvent, call, records,
     arrivals, handlers, outputs, vars
<1>5. ASSUME NEW i \in Items, Expire(i) PROVE OnlyAMarkerStays'
  BY <1>5 DEF Expire, call, records, arrivals, handlers, outputs, vars
<1>6. ASSUME NEW f \in Files, CopyMetadata(f) PROVE OnlyAMarkerStays'
  BY <1>6 DEF CopyMetadata, Update, call, records, arrivals, handlers, outputs, vars
<1>7. CASE FireTimeout
  BY <1>7 DEF FireTimeout, GoesOn, Unmarked, Live, call, records, arrivals, handlers,
     outputs, vars
<1>8. ASSUME NEW r \in removes, DetectOrphan(r) PROVE OnlyAMarkerStays'
  BY <1>8 DEF DetectOrphan, SomethingFails, OrphanType, PerFileRecordExists, call, records,
     arrivals, handlers, outputs, vars
<1>9. CASE Tick
  BY <1>9 DEF Tick, Outcomes, call, records, arrivals, handlers, outputs, vars
<1>10. ASSUME NEW f \in Files, CountJoined(f) PROVE OnlyAMarkerStays'
  BY <1>10 DEF CountJoined, GoesOn, Intact, call, records, arrivals, handlers, outputs, vars
<1>11. ASSUME NEW f \in Files, MarkBatch(f) PROVE OnlyAMarkerStays'
  <2>1. /\ ttl' = ttl /\ storedAt' = storedAt /\ joined' = joined
        /\ \A i \in Files : item'[i] = item[i]
        /\ item'[Master] \in {item[Master], item[Master] \union {"batchEventPublished"}}
    BY <1>11 DEF MarkBatch, records, arrivals
  <2>2. f \in joined /\ now <= storedAt[f] + 2 * MaxAge /\ emissionMode # "single" /\ written
    BY <1>11 DEF MarkBatch
  <2>3. CASE "metadata" \in item[Master]
    BY <2>1, <2>2, <2>3
  <2>4. CASE "metadata" \notin item[Master]
    <3>1. item[Master] \in {{}, {"batchEventPublished"}} /\ now >= Ttl + Stagger
      BY <2>2, <2>4
    <3>2. item'[Master] \in {{}, {"batchEventPublished"}}
      BY <2>1, <3>1
    <3>3. storedAt[f] + 2 * MaxAge >= Ttl + Stagger
      BY <2>2, <3>1
    <3> QED BY <2>1, <2>2, <3>2, <3>3
  <2> QED BY <2>3, <2>4
<1>12. CASE ScheduleTimeout
  <2>1. ttl[Master] = Ttl + Stagger
    BY <1>12 DEF ScheduleTimeout, BatchModes
  <2>2. ttl'[Master] # 0 /\ ttl' = ttl /\ storedAt' = storedAt
    BY <2>1, <1>12 DEF ScheduleTimeout, records
  <2>3. \A i \in Files : item'[i] = item[i]
    BY <1>12 DEF ScheduleTimeout, Update
  <2> QED BY <2>2, <2>3
<1>13. CASE MarkTimeout
  BY <1>13 DEF MarkTimeout, GoesOn, BelowExpected, call, records, arrivals, handlers,
     outputs, vars
<1>14. ASSUME NEW i \in Items, FailHandler(i) PROVE OnlyAMarkerStays'
  BY <1>14 DEF FailHandler, SomethingFails, GoesOn, call, records, arrivals, handlers,
     outputs, vars
<1> QED BY <1>1, <1>2, <1>3, <1>4, <1>5, <1>6, <1>7, <1>8, <1>9, <1>10, <1>11, <1>12, <1>13,
     <1>14 DEF Next

\* A timeout that fires by the end of the lifetime finds the metadata.
LEMMA TimeoutStep ==
    ASSUME TypeOK, CallInv, MasterInv, TimeoutFindsRecord, [Next]_vars
    PROVE  TimeoutFindsRecord'
<1> USE RecordsAssumption, TimesAssumption DEF TypeOK, CallInv, MasterInv,
    TimeoutFindsRecord, Modes, BatchModes, Events, Items
<1>1. CASE StartOperation \/ RejectTimeout \/ AbandonWrite \/ UNCHANGED vars
  BY <1>1 DEF StartOperation, SomethingFails, RejectTimeout, TimeoutAllowed, AbandonWrite,
     call, records, arrivals, handlers, outputs, vars
<1>2. CASE WriteMetadata
  BY <1>2 DEF WriteMetadata, SomethingFails, Update, NoMetadataYet, RecordLifetime, call,
     records, arrivals, handlers, outputs, vars
<1>3. ASSUME NEW i \in Items, StoreEvent(i) PROVE TimeoutFindsRecord'
  BY <1>3 DEF StoreEvent, Update, EventTtl, call, records, arrivals, handlers, outputs, vars
<1>4. ASSUME NEW i \in Items, HandleJoined(i) PROVE TimeoutFindsRecord'
  BY <1>4 DEF HandleJoined, GoesOn, Intact, ShouldPublishIndividualEvent, call, records,
     arrivals, handlers, outputs, vars
<1>5. ASSUME NEW i \in Items, Expire(i) PROVE TimeoutFindsRecord'
  BY <1>5 DEF Expire, call, records, arrivals, handlers, outputs, vars
<1>6. ASSUME NEW f \in Files, CopyMetadata(f) PROVE TimeoutFindsRecord'
  BY <1>6 DEF CopyMetadata, Update, call, records, arrivals, handlers, outputs, vars
<1>7. CASE FireTimeout
  BY <1>7 DEF FireTimeout, GoesOn, Unmarked, Live, call, records, arrivals, handlers,
     outputs, vars
<1>8. ASSUME NEW r \in removes, DetectOrphan(r) PROVE TimeoutFindsRecord'
  BY <1>8 DEF DetectOrphan, SomethingFails, OrphanType, PerFileRecordExists, call, records,
     arrivals, handlers, outputs, vars
<1>9. CASE Tick
  BY <1>9 DEF Tick, Outcomes, call, records, arrivals, handlers, outputs, vars
<1>10. ASSUME NEW f \in Files, CountJoined(f) PROVE TimeoutFindsRecord'
  BY <1>10 DEF CountJoined, GoesOn, Intact, call, records, arrivals, handlers, outputs, vars
<1>11. ASSUME NEW f \in Files, MarkBatch(f) PROVE TimeoutFindsRecord'
  BY <1>11 DEF MarkBatch, GoesOn, Unmarked, call, records, arrivals, handlers, outputs, vars
<1>12. CASE ScheduleTimeout
  BY <1>12 DEF ScheduleTimeout, SomethingFails, Update, call, records, arrivals, handlers,
     outputs, vars
<1>13. CASE MarkTimeout
  BY <1>13 DEF MarkTimeout, GoesOn, BelowExpected, call, records, arrivals, handlers,
     outputs, vars
<1>14. ASSUME NEW i \in Items, FailHandler(i) PROVE TimeoutFindsRecord'
  BY <1>14 DEF FailHandler, SomethingFails, GoesOn, call, records, arrivals, handlers,
     outputs, vars
<1> QED BY <1>1, <1>2, <1>3, <1>4, <1>5, <1>6, <1>7, <1>8, <1>9, <1>10, <1>11, <1>12, <1>13,
     <1>14 DEF Next

\* The master is gone when a file's event is published for want of it.
LEMMA ModeStep ==
    ASSUME TypeOK, CallInv, EventInv, MasterInv, JoinInv, HandlingInv,
           EmissionModeHolds, [Next]_vars
    PROVE  EmissionModeHolds'
<1> USE RecordsAssumption, TimesAssumption DEF TypeOK, CallInv, EventInv, MasterInv,
    JoinInv, HandlingInv, EmissionModeHolds, Modes, BatchModes, Events, Items, Complete
<1>1. CASE StartOperation \/ RejectTimeout \/ AbandonWrite \/ UNCHANGED vars
  BY <1>1 DEF StartOperation, SomethingFails, RejectTimeout, TimeoutAllowed, AbandonWrite,
     call, records, arrivals, handlers, outputs, vars
<1>2. CASE WriteMetadata
  BY <1>2 DEF WriteMetadata, SomethingFails, Update, NoMetadataYet, RecordLifetime, call,
     records, arrivals, handlers, outputs, vars
<1>3. ASSUME NEW i \in Items, StoreEvent(i) PROVE EmissionModeHolds'
  BY <1>3 DEF StoreEvent, Update, EventTtl, call, records, arrivals, handlers, outputs, vars
<1>4. ASSUME NEW i \in Items, HandleJoined(i) PROVE EmissionModeHolds'
  BY <1>4 DEF HandleJoined, GoesOn, Intact, ShouldPublishIndividualEvent, call, records,
     arrivals, handlers, outputs, vars
<1>5. ASSUME NEW i \in Items, Expire(i) PROVE EmissionModeHolds'
  BY <1>5 DEF Expire, call, records, arrivals, handlers, outputs, vars
<1>6. ASSUME NEW f \in Files, CopyMetadata(f) PROVE EmissionModeHolds'
  BY <1>6 DEF CopyMetadata, Update, call, records, arrivals, handlers, outputs, vars
<1>7. CASE FireTimeout
  BY <1>7 DEF FireTimeout, GoesOn, Unmarked, Live, call, records, arrivals, handlers,
     outputs, vars
<1>8. ASSUME NEW r \in removes, DetectOrphan(r) PROVE EmissionModeHolds'
  BY <1>8 DEF DetectOrphan, SomethingFails, OrphanType, PerFileRecordExists, call, records,
     arrivals, handlers, outputs, vars
<1>9. CASE Tick
  BY <1>9 DEF Tick, Outcomes, call, records, arrivals, handlers, outputs, vars
<1>10. ASSUME NEW f \in Files, CountJoined(f) PROVE EmissionModeHolds'
  BY <1>10 DEF CountJoined, GoesOn, Intact, call, records, arrivals, handlers, outputs, vars
<1>11. ASSUME NEW f \in Files, MarkBatch(f) PROVE EmissionModeHolds'
  BY <1>11 DEF MarkBatch, GoesOn, Unmarked, call, records, arrivals, handlers, outputs, vars
<1>12. CASE ScheduleTimeout
  BY <1>12 DEF ScheduleTimeout, SomethingFails, Update, call, records, arrivals, handlers,
     outputs, vars
<1>13. CASE MarkTimeout
  BY <1>13 DEF MarkTimeout, GoesOn, BelowExpected, call, records, arrivals, handlers,
     outputs, vars
<1>14. ASSUME NEW i \in Items, FailHandler(i) PROVE EmissionModeHolds'
  BY <1>14 DEF FailHandler, SomethingFails, GoesOn, call, records, arrivals, handlers,
     outputs, vars
<1> QED BY <1>1, <1>2, <1>3, <1>4, <1>5, <1>6, <1>7, <1>8, <1>9, <1>10, <1>11, <1>12, <1>13,
     <1>14 DEF Next

-----------------------------------------------------------------------------

\* The initial states satisfy the inductive invariant.
LEMMA InitIInv ==
    Init => IInv
<1> SUFFICES ASSUME Init PROVE IInv
  OBVIOUS
<1> USE RecordsAssumption, TimesAssumption DEF Init, BatchTimeouts, Items, Complete
<1>1. TypeOK
  <2>1. emissionMode \in Modes /\ batchTimeout \in Timeouts \union {0}
    OBVIOUS
  <2>2. item \in [Items -> SUBSET Attributes] /\ ttl \in [Items -> Nat]
    OBVIOUS
  <2>3. storedAt \in [Items -> Nat] /\ joinedAt \in [Items -> Nat]
    OBVIOUS
  <2>4. now \in 0..Horizon /\ failures \in 0..MaxFailures
    OBVIOUS
  <2>5. caller \in Outcomes \union {"calling", "started"}
    OBVIOUS
  <2> QED BY <2>1, <2>2, <2>3, <2>4, <2>5 DEF TypeOK
<1>2. CallInv
  BY DEF CallInv, BatchModes
<1>3. EventInv /\ MasterInv /\ JoinInv /\ HandlingInv
  BY DEF EventInv, MasterInv, JoinInv, HandlingInv
<1>4. AlertInv /\ ReportInv
  BY DEF AlertInv, ReportInv
<1>5. OnlyAMarkerStays /\ TimeoutFindsRecord /\ EmissionModeHolds
  BY DEF OnlyAMarkerStays, TimeoutFindsRecord, EmissionModeHolds
<1> QED BY <1>1, <1>2, <1>3, <1>4, <1>5 DEF IInv

\* The inductive invariant, of all behaviours.
LEMMA Inductive ==
    Spec => []IInv
<1>1. Init => IInv
  BY InitIInv
<1>2. IInv /\ [Next]_vars => IInv'
  BY TypeStep, CallStep, EventStep, MasterStep, JoinStep, HandlingStep, AlertStep, ReportStep,
     ExpiryStep, TimeoutStep, ModeStep DEF IInv
<1> QED BY <1>1, <1>2, PTL DEF Spec

\* Type correctness.
THEOREM TypeCorrect ==
    Spec => []TypeOK
<1>1. IInv => TypeOK
  BY DEF IInv
<1> QED BY <1>1, Inductive, PTL

\* An update that comes after the expiry of its record creates no record that stays for ever,
\* except the marker of the batch event, for a file finished when the master's record was
\* about to expire.  The copies, the timeout's markers and the events come in time, or their
\* conditions do not hold for a record that is gone.
THEOREM OnlyMarkersStay ==
    Spec => []OnlyAMarkerStays
<1>1. IInv => OnlyAMarkerStays
  BY DEF IInv
<1> QED BY <1>1, Inductive, PTL

\* No alert for a record that was joined, before the alert or after it.
THEOREM NoFalseAlert ==
    Spec => []NoAlertForJoined
<1>1. IInv => NoAlertForJoined
  BY DEF IInv, AlertInv, NoAlertForJoined
<1> QED BY <1>1, Inductive, PTL

\* An event that found no metadata, and metadata that no event followed, are reported by
\* the time their record's removal is handled.
THEOREM UnmatchedReported ==
    Spec => []UnmatchedIsReported
<1>1. IInv => UnmatchedIsReported
  <2> SUFFICES ASSUME IInv PROVE UnmatchedIsReported
    OBVIOUS
  <2>1. \A i \in Items : ttl[i] = 0 => "metadata" \notin item[i] /\ "eventResult" \notin item[i]
    BY DEF IInv, OnlyAMarkerStays
  <2> QED BY <2>1, RecordsAssumption
          DEF IInv, TypeOK, ReportInv, Pending, UnmatchedIsReported, Items
<1> QED BY <1>1, Inductive, PTL

\* The degraded timeout event needs a timeout too near the record's lifetime.
THEOREM TimeoutInLifetime ==
    Spec => []TimeoutFindsRecord
<1>1. IInv => TimeoutFindsRecord
  BY DEF IInv
<1> QED BY <1>1, Inductive, PTL

\* The emission mode holds for every file that is finished well within the lifetime.
THEOREM ModeRespected ==
    Spec => []EmissionModeHolds
<1>1. IInv => EmissionModeHolds
  BY DEF IInv
<1> QED BY <1>1, Inductive, PTL

\* The step that ends the call tells the caller what became of the metadata.
LEMMA AnswerStep ==
    ASSUME IInv, [Next]_vars, caller' # caller
    PROVE  /\ caller' \in {"returned", "duplicate"} => "metadata" \in item'[Master]
           /\ caller' = "IllegalArgumentException" => "metadata" \notin item'[Master]
<1> USE RecordsAssumption DEF IInv, Items
<1>1. CASE StartOperation
  BY <1>1 DEF StartOperation, records, CallInv, MasterInv
<1>2. CASE RejectTimeout
  BY <1>2 DEF RejectTimeout, CallInv, MasterInv, records
<1>3. CASE WriteMetadata
  BY <1>3 DEF WriteMetadata, Update, NoMetadataYet, TypeOK
<1>4. CASE AbandonWrite
  BY <1>4 DEF AbandonWrite
<1>5. UNCHANGED call => UNCHANGED caller
  BY DEF call
<1> QED
  BY <1>1, <1>2, <1>3, <1>4, <1>5
     DEF Next, StoreEvent, HandleJoined, CountJoined, MarkBatch, ScheduleTimeout, FireTimeout,
         MarkTimeout, FailHandler, Expire, CopyMetadata, DetectOrphan, Tick, vars

\* A caller's return, its exceptions for a duplicate and for an argument are right about
\* whether the metadata is stored.
THEOREM CallerToldTruth ==
    Spec => CallerLearnsTheTruth
<1>1. IInv /\ [Next]_vars =>
        [caller' # caller =>
            /\ caller' \in {"returned", "duplicate"} => "metadata" \in item'[Master]
            /\ caller' = "IllegalArgumentException" => "metadata" \notin item'[Master]]_vars
  BY AnswerStep
<1> QED BY <1>1, Inductive, PTL DEF Spec, CallerLearnsTheTruth

-----------------------------------------------------------------------------
(* The abstract join.                                                      *)

LEMMA JoinInit == Init => Join!Init
BY DEF Init, Join!Init

\* The individual events that are out.
Out == {i \in Items : [kind |-> "individual", item |-> i] \in published}

Described == joined \union (IF written THEN {Master} ELSE {})

AbstractKept == UNCHANGED <<stored, joined, written, published>>

LEMMA JoinStutters ==
    ASSUME AbstractKept
    PROVE  UNCHANGED Join!vars
BY DEF AbstractKept, Join!vars

\* The metadata is stored once, and an answer that got lost changes nothing.
LEMMA WriteRefines ==
    ASSUME IInv, WriteMetadata
    PROVE  Join!Next \/ UNCHANGED Join!vars
<1>1. CASE ~NoMetadataYet
  BY <1>1, JoinStutters DEF WriteMetadata, outputs, AbstractKept
<1>2. CASE NoMetadataYet
  <2>1. ~written
    BY <1>2 DEF WriteMetadata, NoMetadataYet, IInv, CallInv, MasterInv
  <2>2. joined = {} /\ written' /\ joined' \subseteq {Master}
    BY <1>2, <2>1 DEF WriteMetadata, Update, IInv, MasterInv
  <2>3. Described = {} /\ Described' = {Master}
    BY <2>1, <2>2 DEF Described
  <2>4. Join!WriteMetadata
    BY <2>3, <1>2 DEF Join!WriteMetadata, WriteMetadata, outputs, Described
  <2> QED BY <2>4 DEF Join!Next
<1> QED BY <1>1, <1>2

\* An event completes its own item only if that is the one the helper wrote.
LEMMA StoreRefines ==
    ASSUME IInv, NEW i \in Items, StoreEvent(i)
    PROVE  Join!Next \/ UNCHANGED Join!vars
<1>1. joined' = joined \/ (i = Master /\ written /\ joined' = joined \union {i})
  <2>1. i \in Files => item[i] = {} \/ "eventResult" \in item[i]
    BY DEF IInv, EventInv, Items
  <2>2. ~written => "metadata" \notin item[i]
    BY DEF IInv, MasterInv
  <2> QED BY <2>1, <2>2 DEF StoreEvent, Update, Complete, Items
<1>2. Described' = Described
  BY <1>1 DEF StoreEvent, call, Described
<1>3. Join!StoreEvent(i)
  BY <1>2 DEF Join!StoreEvent, StoreEvent, outputs, Described
<1> QED BY <1>3 DEF Join!Next

\* A copy that is not too late finds the event still there: it joins.
LEMMA CopyRefines ==
    ASSUME IInv, NEW f \in Files, CopyMetadata(f)
    PROVE  Join!Next \/ UNCHANGED Join!vars
<1> USE RecordsAssumption, TimesAssumption
<1>0. f \in Items /\ Master \in Items /\ f # Master /\ f \in stored
  BY DEF Items, CopyMetadata
<1>1. written
  BY <1>0 DEF IInv, MasterInv, CopyMetadata
<1>2. now \in Nat /\ storedAt[f] \in Nat /\ item[f] \subseteq Attributes
  BY <1>0 DEF IInv, TypeOK
<1>3. ~Aged(f) \/ "eventResult" \in item[f]
  BY <1>2 DEF CopyMetadata, Aged
<1>4. "eventResult" \in item[f]
  BY <1>0, <1>3 DEF IInv, EventInv
<1>5. f \notin joined
  BY <1>0, <1>4 DEF IInv, JoinInv, Complete, CopyMetadata
<1>6. joined' = joined \union {f} /\ UNCHANGED <<stored, written, published>>
  BY <1>4 DEF CopyMetadata, Update, Complete, call, outputs
<1>7. Described' = Described \union {f} /\ Master \in Described /\ f \notin Described
  BY <1>0, <1>1, <1>5, <1>6 DEF Described
<1>8. Join!CopyMetadata(f)
  BY <1>0, <1>6, <1>7 DEF Join!CopyMetadata, Described
<1> QED BY <1>0, <1>8 DEF Join!Next

\* A joined item is handled: its event goes out, or the mode suppresses it.
LEMMA HandleRefines ==
    ASSUME IInv, NEW i \in Items, HandleJoined(i)
    PROVE  Join!Next \/ UNCHANGED Join!vars
<1>1. i \in joined /\ i \in stored /\ UNCHANGED <<stored, joined, written>>
  BY DEF HandleJoined, IInv, JoinInv, call, arrivals
<1>2. CASE ShouldPublishIndividualEvent
  <2>1. published' = published \union {[kind |-> "individual", item |-> i]}
    BY <1>2 DEF HandleJoined
  <2>2. Out' = Out \union {i}
    BY <2>1 DEF Out
  <2>3. Join!Announce(i)
    BY <1>1, <2>2 DEF Join!Announce, Out
  <2> QED BY <2>3 DEF Join!Next
<1>3. CASE ~ShouldPublishIndividualEvent
  BY <1>1, <1>3, JoinStutters DEF HandleJoined, AbstractKept
<1> QED BY <1>2, <1>3

LEMMA JoinNext ==
    IInv /\ [Next]_vars => [Join!Next]_(Join!vars)
<1> SUFFICES ASSUME IInv, [Next]_vars
             PROVE  Join!Next \/ UNCHANGED Join!vars
  OBVIOUS
<1>1. CASE AbstractKept
  BY <1>1, JoinStutters
<1>2. CASE FireTimeout
  <2>1. \/ published' = published \union {[kind |-> "timeout"]}
        \/ published' = published \union {[kind |-> "degraded"]}
    BY <1>2 DEF FireTimeout
  <2>2. Out' = Out
    BY <2>1 DEF Out
  <2> QED BY <1>2, <2>2 DEF FireTimeout, call, arrivals, Out, Join!vars
<1>3. ASSUME NEW f \in Files, MarkBatch(f) PROVE UNCHANGED Join!vars
  <2>1. published' = published \/ published' = published \union {[kind |-> "completion"]}
    BY <1>3 DEF MarkBatch
  <2>2. Out' = Out
    BY <2>1 DEF Out
  <2> QED BY <1>3, <2>2 DEF MarkBatch, call, arrivals, Out, Join!vars
<1>4. CASE ScheduleTimeout
  <2>1. UNCHANGED joined
    BY <1>4 DEF ScheduleTimeout, Update, Complete
  <2> QED BY <1>4, <2>1, JoinStutters DEF ScheduleTimeout, call, outputs, AbstractKept
<1> QED BY <1>1, <1>2, <1>3, <1>4, WriteRefines, StoreRefines, CopyRefines, HandleRefines
    DEF Next, StartOperation, RejectTimeout, AbandonWrite, Expire, DetectOrphan, Tick,
        CountJoined, MarkTimeout, FailHandler, vars,
        call, arrivals, outputs, AbstractKept

\* Copies and events that come late, records that expire and are created anew, and a write
\* whose answer is lost implement the plain join, in which nothing is ever abandoned.
THEOREM LifecycleJoins ==
    Spec => ImplementsJoin
BY JoinInit, JoinNext, Inductive, PTL DEF Spec, ImplementsJoin, Join!Spec
=============================================================================
