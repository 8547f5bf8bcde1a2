------------------------ MODULE BatchTrackerProofs ------------------------
(***************************************************************************)
(* Proofs about BatchTracker, for any finite set of files, any number of   *)
(* timeout messages and any bounds on deliveries and failures.             *)
(***************************************************************************)
EXTENDS BatchTracker, FiniteSetTheorems, TLAPS

(* The cardinality of the file map, which resolvedCount mirrors.           *)

LEMMA CountBounds ==
    ASSUME NEW S \in SUBSET Files
    PROVE  /\ IsFiniteSet(S)
           /\ Cardinality(S) \in Nat
           /\ ExpectedFiles \in Nat
           /\ Cardinality(S) <= ExpectedFiles
           /\ Cardinality(S) = ExpectedFiles => S = Files
<1>1. IsFiniteSet(Files)
  BY FilesAssumption
<1>2. IsFiniteSet(S)
  BY <1>1, FS_Subset
<1> QED
  BY <1>1, <1>2, FS_Subset, FS_CardinalityType DEF ExpectedFiles

LEMMA CountOneMore ==
    ASSUME NEW S \in SUBSET Files, NEW f \in Files, f \notin S
    PROVE  Cardinality(S \union {f}) = Cardinality(S) + 1
BY CountBounds, FS_AddElement

-----------------------------------------------------------------------------
(* Type correctness.                                                       *)

LEMMA WorkerKinds ==
    /\ Files \subseteq Workers
    /\ Timers \subseteq Workers
    /\ Trackers \subseteq Workers
    /\ FanOut \in Workers
BY DEF Workers, Trackers

LEMMA InitType == Init => TypeOK
<1> SUFFICES ASSUME Init PROVE TypeOK
  OBVIOUS
<1>1. 1 \in 1..MaxDeliveries /\ 0 \in 0..MaxFailures /\ 0 \in Nat
  BY BoundsAssumption
<1>2. pc \in [Workers -> Labels]
  BY DEF Init, Labels
<1>3. /\ seen \in [Workers -> SUBSET Files]
      /\ deliveries \in [Workers -> 1..MaxDeliveries]
  BY <1>1 DEF Init
<1> QED
  BY <1>1, <1>2, <1>3 DEF Init, TypeOK

\* One call of put_events keeps the history and the failure count in type.
LEMMA PutEventType ==
    ASSUME TypeOK, NEW w \in Workers,
           NEW kind \in {"file", "completion", "timeout", "degraded"},
           NEW files \in SUBSET Files, PutEvent(w, kind, files)
    PROVE  puts' \subseteq Put /\ failures' \in 0..MaxFailures
<1>1. PICK accepted \in BOOLEAN :
        /\ puts' = puts \union {[kind |-> kind, by |-> w, delivery |-> deliveries[w],
                                 files |-> files, accepted |-> accepted]}
        /\ IF accepted THEN UNCHANGED failures ELSE SomethingFails
  BY DEF PutEvent
<1>2. puts \subseteq Put /\ deliveries[w] \in 1..MaxDeliveries
  BY DEF TypeOK
<1>3. [kind |-> kind, by |-> w, delivery |-> deliveries[w],
       files |-> files, accepted |-> accepted] \in Put
  BY <1>2 DEF Put
<1>4. failures' \in 0..MaxFailures
  BY <1>1, BoundsAssumption DEF TypeOK, SomethingFails
<1> QED
  BY <1>1, <1>2, <1>3, <1>4

\* A redelivered worker starts again or is given up; the others stay where they are.
LEMMA RedeliverMoves ==
    ASSUME TypeOK, NEW w \in Workers, Redeliver(w)
    PROVE  /\ \A v \in Workers \ {w} : pc'[v] = pc[v] /\ seen'[v] = seen[v]
           /\ pc'[w] \in {"ready", "dead"}
BY DEF TypeOK, Redeliver, Goto

LEMMA RedeliverType ==
    ASSUME TypeOK, NEW w \in Workers, Redeliver(w)
    PROVE  /\ pc' \in [Workers -> Labels]
           /\ deliveries' \in [Workers -> 1..MaxDeliveries]
           /\ seen' \in [Workers -> SUBSET Files]
           /\ todo' \subseteq Files
           /\ announcing' \subseteq Files
<1>1. pc' \in [Workers -> Labels] /\ deliveries' \in [Workers -> 1..MaxDeliveries]
  BY BoundsAssumption DEF TypeOK, Redeliver, Redeliverable, Goto, Labels
<1>2. seen' \in [Workers -> SUBSET Files]
  BY DEF TypeOK, Redeliver
<1>3. todo' \subseteq Files /\ announcing' \subseteq Files
  BY DEF TypeOK, Redeliver
<1> QED
  BY <1>1, <1>2, <1>3

\* A step of a file's worker, or of the fan-out short of scheduling, moves no other.
LEMMA FileStepMoves ==
    ASSUME TypeOK, NEW f \in Files, DeliverFile(f) \/ FileStep(f)
    PROVE  \A v \in Workers \ {f} : pc'[v] = pc[v] /\ seen'[v] = seen[v]
<1>1. f \in Workers
  BY WorkerKinds
<1>2. CASE CountRefused(f)
  BY <1>1, <1>2, RedeliverMoves DEF CountRefused
<1>3. CASE DeliverFile(f) \/ AnnounceFile(f)
  BY <1>3 DEF DeliverFile, AnnounceFile, Goto, TypeOK
<1>4. CASE CountFile(f)
  BY <1>4 DEF CountFile, CheckBatch, Return, Goto, TypeOK
<1> QED
  BY <1>2, <1>3, <1>4 DEF FileStep

LEMMA FanOutStepMoves ==
    ASSUME TypeOK, FanOutStep, ~ScheduleBatchTimeout
    PROVE  \A v \in Workers \ {FanOut} : pc'[v] = pc[v] /\ seen'[v] = seen[v]
BY DEF FanOutStep, QueryItems, AnnounceReconciled, ReconcileFile, Goto, TypeOK

LEMMA FileStepType ==
    ASSUME TypeOK, NEW f \in Files, DeliverFile(f) \/ FileStep(f)
    PROVE  TypeOK'
<1>0. f \in Workers
  BY WorkerKinds
<1>1. CASE DeliverFile(f)
  BY <1>0, <1>1 DEF TypeOK, DeliverFile, Goto, Labels, master
<1>2. CASE AnnounceFile(f)
  <2>1. puts' \subseteq Put /\ failures' \in 0..MaxFailures
    <3>1. CASE PutEvent(f, "file", {f})
      BY <1>0, <3>1, PutEventType
    <3>2. CASE UNCHANGED <<failures, puts>>
      BY <3>2 DEF TypeOK
    <3> QED
      BY <1>2, <3>1, <3>2 DEF AnnounceFile
  <2> QED
    BY <1>0, <1>2, <2>1 DEF TypeOK, AnnounceFile, Goto, Labels, master
<1>3. CASE CountFile(f)
  BY <1>0, <1>3, BoundsAssumption
  DEF TypeOK, CountFile, CountOnce, CheckBatch, Return, Goto, Labels, SomethingFails
<1>4. CASE CountRefused(f)
  BY <1>0, <1>4, RedeliverType DEF TypeOK, CountRefused, master
<1> QED
  BY <1>1, <1>2, <1>3, <1>4 DEF FileStep

LEMMA FanOutStepType ==
    ASSUME TypeOK, FanOutStep
    PROVE  TypeOK'
<1>1. CASE QueryItems
  BY <1>1, WorkerKinds DEF TypeOK, QueryItems, Goto, Labels, master
<1>2. CASE AnnounceReconciled
  <2>1. puts' \subseteq Put /\ failures' \in 0..MaxFailures
    BY <1>2, WorkerKinds, PutEventType DEF AnnounceReconciled, TypeOK
  <2> QED
    BY <1>2, <2>1 DEF TypeOK, AnnounceReconciled, master
<1>3. ASSUME NEW f \in Files, ReconcileFile(f)
      PROVE  TypeOK'
  BY <1>3, BoundsAssumption DEF TypeOK, ReconcileFile, CountOnce, SomethingFails
<1>4. CASE ScheduleBatchTimeout
  BY <1>4 DEF TypeOK, ScheduleBatchTimeout, Labels, master
<1> QED
  BY <1>1, <1>2, <1>3, <1>4 DEF FanOutStep

LEMMA TrackerStepType ==
    ASSUME TypeOK, NEW w \in Trackers, TrackerStep(w)
    PROVE  TypeOK'
<1>0. w \in Workers
  BY WorkerKinds
<1>1. CASE RereadMaster(w)
  BY <1>0, <1>1 DEF TypeOK, RereadMaster, CheckBatch, Return, Goto, Labels, master
<1>2. CASE MarkBatchPublished(w)
  <2>1. /\ pc' \in [Workers -> Labels]
        /\ seen' \in [Workers -> SUBSET Files]
        /\ failures' \in 0..MaxFailures
    BY <1>0, <1>2, BoundsAssumption
    DEF TypeOK, MarkBatchPublished, Return, Goto, Labels, SomethingFails
  <2>2. batchEventPublished' \in BOOLEAN /\ remnant' \in BOOLEAN
    BY <1>2 DEF TypeOK, MarkBatchPublished, SetBatchMarker
  <2> QED
    BY <1>2, <2>1, <2>2 DEF TypeOK, MarkBatchPublished
<1>3. CASE PublishBatch(w)
  <2>1. puts' \subseteq Put /\ failures' \in 0..MaxFailures
    BY <1>0, <1>3, PutEventType DEF PublishBatch, TypeOK
  <2> QED
    BY <1>0, <1>3, <2>1 DEF TypeOK, PublishBatch, Return, Goto, Labels, master
<1> QED
  BY <1>1, <1>2, <1>3 DEF TrackerStep

LEMMA TimerStepType ==
    ASSUME TypeOK, NEW t \in Timers, TimerStep(t)
    PROVE  TypeOK'
<1>0. t \in Workers
  BY WorkerKinds
<1>1. CASE ReadAtFireTime(t)
  BY <1>0, <1>1 DEF TypeOK, ReadAtFireTime, Goto, Labels, master
<1>2. CASE PublishDegraded(t)
  <2>1. puts' \subseteq Put /\ failures' \in 0..MaxFailures
    BY <1>0, <1>2, PutEventType DEF PublishDegraded
  <2> QED
    BY <1>0, <1>2, <2>1 DEF TypeOK, PublishDegraded, Goto, Labels, master
<1>3. CASE PublishTimeout(t)
  <2>1. puts' \subseteq Put /\ failures' \in 0..MaxFailures
    BY <1>0, <1>3, PutEventType DEF PublishTimeout, TypeOK
  <2> QED
    BY <1>0, <1>3, <2>1 DEF TypeOK, PublishTimeout, Goto, Labels, master
<1>4. CASE MarkTimeoutPublished(t)
  <2>1. /\ pc' \in [Workers -> Labels]
        /\ seen' \in [Workers -> SUBSET Files]
        /\ failures' \in 0..MaxFailures
    BY <1>0, <1>4, BoundsAssumption
    DEF TypeOK, MarkTimeoutPublished, Return, Goto, Labels, SomethingFails
  <2>2. batchTimeoutPublished' \in BOOLEAN
    BY <1>4 DEF TypeOK, MarkTimeoutPublished
  <2> QED
    BY <1>4, <2>1, <2>2 DEF TypeOK, MarkTimeoutPublished
<1> QED
  BY <1>1, <1>2, <1>3, <1>4 DEF TimerStep

LEMMA PlatformStepType ==
    ASSUME TypeOK, ExpireMaster \/ \E w \in Workers : Fail(w)
    PROVE  TypeOK'
<1>1. CASE ExpireMaster
  BY <1>1 DEF TypeOK, ExpireMaster, workers
<1>2. ASSUME NEW w \in Workers, Fail(w)
      PROVE  TypeOK'
  <2>1. failures' \in 0..MaxFailures
    BY <1>2, BoundsAssumption DEF TypeOK, Fail, SomethingFails
  <2> QED
    BY <1>2, <2>1, RedeliverType DEF TypeOK, Fail, master
<1> QED
  BY <1>1, <1>2

\* Every step of every worker, failure and redelivery keeps the types.
LEMMA NextType == TypeOK /\ [Next]_vars => TypeOK'
<1> SUFFICES ASSUME TypeOK, [Next]_vars PROVE TypeOK'
  OBVIOUS
<1>1. CASE UNCHANGED vars
  BY <1>1 DEF TypeOK, vars, master, workers
<1> QED
  BY <1>1, FileStepType, FanOutStepType, TrackerStepType, TimerStepType,
     PlatformStepType DEF Next

\* The type invariant: every attribute of the master record and every worker's
\* position stay in range, redeliveries and failures within their bounds.
THEOREM TypeCorrect == Spec => []TypeOK
<1>1. Init => TypeOK
  BY InitType
<1>2. TypeOK /\ [Next]_vars => TypeOK'
  BY NextType
<1> QED
  BY <1>1, <1>2, PTL DEF Spec

-----------------------------------------------------------------------------
(* The count.                                                              *)

\* The two counting updates, and no other step, change the map and the number.
LEMMA CountOnceMatches ==
    ASSUME TypeOK, CountMatchesFiles, NEW f \in Files, NotYetCounted(f), CountOnce(f)
    PROVE  CountMatchesFiles' /\ fileStatuses \subseteq fileStatuses'
BY CountOneMore DEF TypeOK, CountMatchesFiles, NotYetCounted, CountOnce

LEMMA NextCount ==
    TypeOK /\ CountMatchesFiles /\ [Next]_vars
        => CountMatchesFiles' /\ fileStatuses \subseteq fileStatuses'
<1> SUFFICES ASSUME TypeOK, CountMatchesFiles, [Next]_vars
             PROVE  CountMatchesFiles' /\ fileStatuses \subseteq fileStatuses'
  OBVIOUS
<1>1. ASSUME UNCHANGED <<fileStatuses, resolvedCount>>
      PROVE  CountMatchesFiles' /\ fileStatuses \subseteq fileStatuses'
  BY <1>1 DEF CountMatchesFiles
<1>2. ASSUME NEW f \in Files, DeliverFile(f) \/ FileStep(f)
      PROVE  CountMatchesFiles' /\ fileStatuses \subseteq fileStatuses'
  <2>1. CASE CountFile(f)
    BY <1>1, <2>1, CountOnceMatches DEF CountFile
  <2> QED
    BY <1>1, <1>2, <2>1 DEF FileStep, DeliverFile, AnnounceFile, CountRefused, master
<1>3. ASSUME FanOutStep
      PROVE  CountMatchesFiles' /\ fileStatuses \subseteq fileStatuses'
  <2>1. ASSUME NEW f \in Files, ReconcileFile(f)
        PROVE  CountMatchesFiles' /\ fileStatuses \subseteq fileStatuses'
    BY <1>1, <2>1, CountOnceMatches DEF ReconcileFile
  <2> QED
    BY <1>1, <1>3, <2>1
    DEF FanOutStep, QueryItems, AnnounceReconciled, ScheduleBatchTimeout, master
<1>4. ASSUME NEW w \in Trackers, TrackerStep(w)
      PROVE  UNCHANGED <<fileStatuses, resolvedCount>>
  BY <1>4 DEF TrackerStep, RereadMaster, MarkBatchPublished, PublishBatch, master
<1>5. ASSUME NEW t \in Timers, TimerStep(t)
      PROVE  UNCHANGED <<fileStatuses, resolvedCount>>
  BY <1>5 DEF TimerStep, ReadAtFireTime, PublishDegraded, PublishTimeout,
              MarkTimeoutPublished, master
<1>6. ASSUME ExpireMaster \/ \E w \in Workers : Fail(w)
      PROVE  UNCHANGED <<fileStatuses, resolvedCount>>
  BY <1>6 DEF ExpireMaster, Fail, master
<1>7. CASE UNCHANGED vars
  BY <1>1, <1>7 DEF vars, master
<1> QED
  BY <1>1, <1>2, <1>3, <1>4, <1>5, <1>6, <1>7 DEF Next

\* A file is counted at most once: the number attribute equals the size of the map
\* although the stream and the fan-out update both for the same files.
THEOREM CountIsExact == Spec => []CountMatchesFiles
<1>1. Init => CountMatchesFiles
  BY FS_EmptySet DEF Init, CountMatchesFiles
<1>2. TypeOK /\ CountMatchesFiles /\ [Next]_vars => CountMatchesFiles'
  BY NextCount
<1> QED
  BY <1>1, <1>2, TypeCorrect, PTL DEF Spec

-----------------------------------------------------------------------------
(* What the workers have seen.                                             *)

\* A worker about to mark or publish the batch holds the whole map, and the record
\* does; a worker about to publish a timeout holds an incomplete one.
SeenIsWhole ==
    \A w \in Workers : pc[w] \in {"mark", "publish"}
                        => seen[w] = Files /\ fileStatuses = Files

SeenLeavesFileOut == \A w \in Workers : pc[w] = "timeout" => seen[w] # Files

SeenInv == SeenIsWhole /\ SeenLeavesFileOut

\* What a step of worker w has to show: the others keep what they hold.
LEMMA SeenFrame ==
    ASSUME TypeOK, TypeOK', SeenInv, fileStatuses \subseteq fileStatuses',
           NEW w \in Workers,
           \A v \in Workers \ {w} : pc'[v] = pc[v] /\ seen'[v] = seen[v],
           pc'[w] \in {"mark", "publish"} => seen'[w] = Files /\ fileStatuses' = Files,
           pc'[w] = "timeout" => seen'[w] # Files
    PROVE  SeenInv'
BY DEF TypeOK, SeenInv, SeenIsWhole, SeenLeavesFileOut

LEMMA SeenKept ==
    ASSUME TypeOK, TypeOK', SeenInv, fileStatuses \subseteq fileStatuses',
           UNCHANGED <<pc, seen>>
    PROVE  SeenInv'
BY DEF TypeOK, SeenInv, SeenIsWhole, SeenLeavesFileOut

\* The guard lets a worker on only with a whole map, because the count it compares
\* with expectedFiles belongs to the very map it keeps.
LEMMA CheckBatchWhole ==
    ASSUME TypeOK, NEW w \in Workers, NEW S \in SUBSET Files,
           CheckBatch(w, S, Cardinality(S))
    PROVE  /\ \A v \in Workers \ {w} : pc'[v] = pc[v] /\ seen'[v] = seen[v]
           /\ pc'[w] \in {"mark", "done", "schedule"}
           /\ pc'[w] = "mark" => seen'[w] = Files /\ S = Files
BY CountBounds DEF CheckBatch, AllResolved, Return, Goto, TypeOK

LEMMA SeenFileStep ==
    ASSUME TypeOK, TypeOK', CountMatchesFiles, CountMatchesFiles', SeenInv,
           fileStatuses \subseteq fileStatuses',
           NEW f \in Files, DeliverFile(f) \/ FileStep(f)
    PROVE  SeenInv'
<1>0. f \in Workers
  BY WorkerKinds
<1>1. CASE DeliverFile(f)
  BY <1>0, <1>1, SeenFrame DEF DeliverFile, Goto, TypeOK
<1>2. CASE AnnounceFile(f)
  BY <1>0, <1>2, SeenFrame DEF AnnounceFile, Goto, TypeOK
<1>3. CASE CountFile(f)
  <2>1. CASE pc'[f] = "reread" /\ Goto(f, "reread") /\ UNCHANGED seen
    BY <1>0, <2>1, SeenFrame DEF Goto, TypeOK
  <2>2. CASE CheckBatch(f, fileStatuses', resolvedCount')
    <3>1. fileStatuses' \in SUBSET Files /\ resolvedCount' = Cardinality(fileStatuses')
      BY DEF TypeOK, CountMatchesFiles
    <3> QED
      BY <1>0, <2>2, <3>1, CheckBatchWhole, SeenFrame
  <2> QED
    BY <1>0, <1>3, <2>1, <2>2 DEF CountFile, Goto, TypeOK
<1>4. CASE CountRefused(f)
  BY <1>0, <1>4, RedeliverMoves, SeenFrame DEF CountRefused
<1> QED
  BY <1>1, <1>2, <1>3, <1>4 DEF FileStep

LEMMA SeenFanOutStep ==
    ASSUME TypeOK, TypeOK', SeenInv, fileStatuses \subseteq fileStatuses', FanOutStep
    PROVE  SeenInv'
<1>1. CASE QueryItems
  BY <1>1, WorkerKinds, SeenFrame DEF QueryItems, Goto, TypeOK
<1>2. CASE AnnounceReconciled
  BY <1>2, SeenKept DEF AnnounceReconciled
<1>3. ASSUME NEW f \in Files, ReconcileFile(f)
      PROVE  SeenInv'
  BY <1>3, SeenKept DEF ReconcileFile
<1>4. CASE ScheduleBatchTimeout
  BY <1>4 DEF ScheduleBatchTimeout, TypeOK, SeenInv, SeenIsWhole, SeenLeavesFileOut
<1> QED
  BY <1>1, <1>2, <1>3, <1>4 DEF FanOutStep

LEMMA SeenTrackerStep ==
    ASSUME TypeOK, TypeOK', CountMatchesFiles, SeenInv,
           fileStatuses \subseteq fileStatuses', NEW w \in Trackers, TrackerStep(w)
    PROVE  SeenInv'
<1>0. w \in Workers
  BY WorkerKinds
<1>1. CASE RereadMaster(w)
  <2>1. CheckBatch(w, fileStatuses, Cardinality(fileStatuses)) /\ UNCHANGED fileStatuses
    BY <1>1 DEF RereadMaster, CountMatchesFiles, master
  <2>2. fileStatuses \in SUBSET Files
    BY DEF TypeOK
  <2> QED
    BY <1>0, <2>1, <2>2, CheckBatchWhole, SeenFrame
<1>2. CASE MarkBatchPublished(w)
  <2>1. seen[w] = Files /\ fileStatuses = Files /\ UNCHANGED fileStatuses
    BY <1>0, <1>2 DEF MarkBatchPublished, SeenInv, SeenIsWhole
  <2>2. CASE Goto(w, "publish") /\ UNCHANGED seen
    BY <1>0, <2>1, <2>2, SeenFrame DEF Goto, TypeOK
  <2>3. CASE Return(w)
    BY <1>0, <2>3, SeenFrame DEF Return, Goto, TypeOK
  <2> QED
    BY <1>2, <2>2, <2>3 DEF MarkBatchPublished
<1>3. CASE PublishBatch(w)
  BY <1>0, <1>3, SeenFrame DEF PublishBatch, Return, Goto, TypeOK
<1> QED
  BY <1>1, <1>2, <1>3 DEF TrackerStep

LEMMA SeenTimerStep ==
    ASSUME TypeOK, TypeOK', CountMatchesFiles, SeenInv,
           fileStatuses \subseteq fileStatuses', NEW t \in Timers, TimerStep(t)
    PROVE  SeenInv'
<1>0. t \in Workers
  BY WorkerKinds
<1>1. CASE ReadAtFireTime(t)
  <2>1. TimeoutPending => fileStatuses # Files
    BY CountBounds DEF TimeoutPending, CountMatchesFiles, ExpectedFiles
  <2> QED
    BY <1>0, <1>1, <2>1, SeenFrame DEF ReadAtFireTime, Goto, TypeOK
<1>2. CASE PublishDegraded(t)
  BY <1>0, <1>2, SeenFrame DEF PublishDegraded, Goto, TypeOK
<1>3. CASE PublishTimeout(t)
  BY <1>0, <1>3, SeenFrame DEF PublishTimeout, Goto, TypeOK
<1>4. CASE MarkTimeoutPublished(t)
  BY <1>0, <1>4, SeenFrame DEF MarkTimeoutPublished, Return, Goto, TypeOK
<1> QED
  BY <1>1, <1>2, <1>3, <1>4 DEF TimerStep

LEMMA SeenPlatformStep ==
    ASSUME TypeOK, TypeOK', SeenInv, fileStatuses \subseteq fileStatuses',
           ExpireMaster \/ \E w \in Workers : Fail(w)
    PROVE  SeenInv'
<1>1. CASE ExpireMaster
  BY <1>1, SeenKept DEF ExpireMaster, workers
<1>2. ASSUME NEW w \in Workers, Fail(w)
      PROVE  SeenInv'
  BY <1>2, RedeliverMoves, SeenFrame DEF Fail
<1> QED
  BY <1>1, <1>2

LEMMA NextSeen ==
    TypeOK /\ CountMatchesFiles /\ SeenInv /\ [Next]_vars => SeenInv'
<1> SUFFICES ASSUME TypeOK, CountMatchesFiles, SeenInv, [Next]_vars
             PROVE  SeenInv'
  OBVIOUS
<1>1. TypeOK' /\ CountMatchesFiles' /\ fileStatuses \subseteq fileStatuses'
  BY NextType, NextCount
<1>2. CASE UNCHANGED vars
  BY <1>1, <1>2, SeenKept DEF vars, workers
<1> QED
  BY <1>1, <1>2, SeenFileStep, SeenFanOutStep, SeenTrackerStep, SeenTimerStep,
     SeenPlatformStep DEF Next

-----------------------------------------------------------------------------
(* The two markers exclude each other.                                     *)

\* The event marker is set over a whole map, the timeout marker below it only; a remnant
\* stands for a record that was whole when it expired.
MarkersInv ==
    /\ batchEventPublished => fileStatuses = Files /\ ~batchTimeoutPublished
    /\ remnant => fileStatuses = Files /\ ~live

LEMMA NextMarkers ==
    TypeOK /\ CountMatchesFiles /\ SeenInv /\ MarkersInv /\ [Next]_vars => MarkersInv'
<1> SUFFICES ASSUME TypeOK, CountMatchesFiles, SeenInv, MarkersInv, [Next]_vars
             PROVE  MarkersInv'
  OBVIOUS
<1>1. TypeOK' /\ fileStatuses \subseteq fileStatuses'
  BY NextType, NextCount
<1>2. ASSUME UNCHANGED <<batchEventPublished, batchTimeoutPublished, remnant>>, live' => live
      PROVE  MarkersInv'
  BY <1>1, <1>2 DEF MarkersInv, TypeOK
<1>3. ASSUME NEW f \in Files, DeliverFile(f) \/ FileStep(f)
      PROVE  UNCHANGED <<batchEventPublished, batchTimeoutPublished, remnant, live>>
  BY <1>3 DEF FileStep, DeliverFile, AnnounceFile, CountFile, CountRefused, master
<1>4. ASSUME FanOutStep
      PROVE  UNCHANGED <<batchEventPublished, batchTimeoutPublished, remnant, live>>
  BY <1>4 DEF FanOutStep, QueryItems, AnnounceReconciled, ReconcileFile,
              ScheduleBatchTimeout, master
<1>5. ASSUME NEW w \in Trackers, TrackerStep(w)
      PROVE  MarkersInv'
  <2>1. CASE MarkBatchPublished(w)
    <3>1. fileStatuses = Files
      BY <2>1, WorkerKinds DEF MarkBatchPublished, SeenInv, SeenIsWhole
    <3>2. UNCHANGED <<fileStatuses, batchTimeoutPublished, live>>
      BY <2>1 DEF MarkBatchPublished
    <3>3. CASE NoBatchMarker /\ SetBatchMarker
      BY <3>1, <3>2, <3>3 DEF NoBatchMarker, SetBatchMarker, MarkersInv
    <3>4. CASE UNCHANGED <<batchEventPublished, remnant>>
      BY <1>2, <3>2, <3>4
    <3> QED
      BY <2>1, <3>3, <3>4 DEF MarkBatchPublished
  <2> QED
    BY <1>2, <1>5, <2>1 DEF TrackerStep, RereadMaster, PublishBatch, master
<1>6. ASSUME NEW t \in Timers, TimerStep(t)
      PROVE  MarkersInv'
  <2>1. CASE MarkTimeoutPublished(t)
    <3>1. TimeoutMarkerAllowed => fileStatuses # Files
      BY CountBounds DEF TimeoutMarkerAllowed, CountMatchesFiles, ExpectedFiles
    <3>2. UNCHANGED <<fileStatuses, batchEventPublished, remnant, live>>
      BY <2>1 DEF MarkTimeoutPublished
    <3>3. batchTimeoutPublished' => batchTimeoutPublished \/ TimeoutMarkerAllowed
      BY <2>1 DEF MarkTimeoutPublished
    <3> QED
      BY <3>1, <3>2, <3>3 DEF MarkersInv
  <2> QED
    BY <1>2, <1>6, <2>1
    DEF TimerStep, ReadAtFireTime, PublishDegraded, PublishTimeout, master
<1>7. ASSUME ExpireMaster \/ \E w \in Workers : Fail(w)
      PROVE  MarkersInv'
  BY <1>2, <1>7 DEF ExpireMaster, Fail, master
<1>8. CASE UNCHANGED vars
  BY <1>2, <1>8 DEF vars, master
<1> QED
  BY <1>2, <1>3, <1>4, <1>5, <1>6, <1>7, <1>8 DEF Next

-----------------------------------------------------------------------------
(* The events.                                                             *)

\* Until the marker is set nobody publishes the batch and nothing has been
\* published; whoever set it is the only one to do so.  A remnant takes that back.
PublisherInv ==
    ~remnant =>
        /\ ~batchEventPublished => Completions = {} /\ \A w \in Workers : pc[w] # "publish"
        /\ \A w \in Workers : pc[w] = "publish"
            => Completions = {} /\ \A v \in Workers : pc[v] = "publish" => v = w

EventsInv ==
    /\ PublisherInv
    /\ AtMostOneCompletion
    /\ CompletionIsWhole
    /\ TimeoutLeavesFileOut

\* put_events adds one entry to the history.
LEMMA PutEventAdds ==
    ASSUME NEW w, NEW kind, NEW files, PutEvent(w, kind, files)
    PROVE  \E e : puts' = puts \union {e} /\ e.kind = kind /\ e.files = files
<1>1. PICK accepted \in BOOLEAN :
        puts' = puts \union {[kind |-> kind, by |-> w, delivery |-> deliveries[w],
                              files |-> files, accepted |-> accepted]}
  BY DEF PutEvent
<1> DEFINE entry == [kind |-> kind, by |-> w, delivery |-> deliveries[w],
                     files |-> files, accepted |-> accepted]
<1>2. puts' = puts \union {entry} /\ entry.kind = kind /\ entry.files = files
  BY <1>1
<1> HIDE DEF entry
<1> QED
  BY <1>2

\* A step that publishes no batch event and starts to publish none.
LEMMA EventsFrame ==
    ASSUME EventsInv, UNCHANGED <<batchEventPublished, remnant>>,
           \A w \in Workers : pc'[w] = "publish" => pc[w] = "publish",
           \/ UNCHANGED puts
           \/ \E e : /\ puts' = puts \union {e}
                     /\ e.kind # "completion"
                     /\ e.kind = "timeout" => e.files # Files
    PROVE  EventsInv'
<1>1. Completions' = Completions
  BY DEF Completions
<1>2. PublisherInv'
  BY <1>1 DEF EventsInv, PublisherInv
<1>3. AtMostOneCompletion' /\ CompletionIsWhole'
  BY <1>1 DEF EventsInv, AtMostOneCompletion, CompletionIsWhole
<1>4. TimeoutLeavesFileOut'
  BY DEF EventsInv, TimeoutLeavesFileOut
<1> QED
  BY <1>2, <1>3, <1>4 DEF EventsInv

LEMMA EventsFileStep ==
    ASSUME TypeOK, EventsInv, NEW f \in Files, DeliverFile(f) \/ FileStep(f)
    PROVE  EventsInv'
<1>0. f \in Workers
  BY WorkerKinds
<1>1. UNCHANGED <<batchEventPublished, remnant>>
  BY DEF FileStep, DeliverFile, AnnounceFile, CountFile, CountRefused, master
<1>2. \A w \in Workers : pc'[w] = "publish" => pc[w] = "publish"
  <2>1. CASE CountRefused(f)
    BY <1>0, <2>1, RedeliverMoves DEF CountRefused
  <2> QED
    BY <1>0, <2>1
    DEF FileStep, DeliverFile, AnnounceFile, CountFile, CheckBatch, Return, Goto, TypeOK
<1>3. CASE PutEvent(f, "file", {f})
  BY <1>1, <1>2, <1>3, PutEventAdds, EventsFrame
<1>4. CASE UNCHANGED puts
  BY <1>1, <1>2, <1>4, EventsFrame
<1> QED
  BY <1>3, <1>4 DEF FileStep, DeliverFile, AnnounceFile, CountFile, CountRefused

LEMMA EventsFanOutStep ==
    ASSUME TypeOK, EventsInv, FanOutStep
    PROVE  EventsInv'
<1>1. UNCHANGED <<batchEventPublished, remnant>>
  BY DEF FanOutStep, QueryItems, AnnounceReconciled, ReconcileFile, ScheduleBatchTimeout,
         master
<1>2. \A w \in Workers : pc'[w] = "publish" => pc[w] = "publish"
  <2>1. CASE ScheduleBatchTimeout
    BY <2>1 DEF ScheduleBatchTimeout, TypeOK
  <2> QED
    BY <2>1, WorkerKinds
    DEF FanOutStep, QueryItems, AnnounceReconciled, ReconcileFile, Goto, TypeOK
<1>3. CASE PutEvent(FanOut, "file", announcing)
  BY <1>1, <1>2, <1>3, PutEventAdds, EventsFrame
<1>4. CASE UNCHANGED puts
  BY <1>1, <1>2, <1>4, EventsFrame
<1> QED
  BY <1>3, <1>4
  DEF FanOutStep, QueryItems, AnnounceReconciled, ReconcileFile, ScheduleBatchTimeout

LEMMA EventsTrackerStep ==
    ASSUME TypeOK, SeenInv, EventsInv, NEW w \in Trackers, TrackerStep(w)
    PROVE  EventsInv'
<1>0. w \in Workers
  BY WorkerKinds
<1>1. CASE RereadMaster(w)
  <2>1. UNCHANGED <<batchEventPublished, remnant, puts>>
    BY <1>1 DEF RereadMaster, master
  <2>2. \A v \in Workers : pc'[v] = "publish" => pc[v] = "publish"
    BY <1>0, <1>1 DEF RereadMaster, CheckBatch, Return, Goto, TypeOK
  <2> QED
    BY <2>1, <2>2, EventsFrame
<1>2. CASE MarkBatchPublished(w)
  <2>1. UNCHANGED puts /\ Completions' = Completions
    BY <1>2 DEF MarkBatchPublished, Completions
  <2>2. \A v \in Workers : pc'[v] = "publish" => pc[v] = "publish" \/ v = w
    BY <1>0, <1>2 DEF MarkBatchPublished, Return, Goto, TypeOK
  <2>3. AtMostOneCompletion' /\ CompletionIsWhole' /\ TimeoutLeavesFileOut'
    <3>1. remnant => remnant'
      BY <1>2 DEF MarkBatchPublished, SetBatchMarker, TypeOK
    <3> QED
      BY <2>1, <3>1
      DEF EventsInv, AtMostOneCompletion, CompletionIsWhole, TimeoutLeavesFileOut
  <2>4. CASE NoBatchMarker /\ SetBatchMarker
    <3>1. CASE live
      <4>1. /\ batchEventPublished' = TRUE
            /\ UNCHANGED remnant
            /\ ~remnant => Completions = {} /\ \A v \in Workers : pc[v] # "publish"
        BY <2>4, <3>1 DEF NoBatchMarker, SetBatchMarker, EventsInv, PublisherInv
      <4>2. PublisherInv'
        BY <2>1, <2>2, <4>1 DEF PublisherInv
      <4> QED
        BY <2>3, <4>2 DEF EventsInv
    <3>2. CASE ~live
      <4>1. remnant'
        BY <2>4, <3>2 DEF SetBatchMarker
      <4> QED
        BY <2>3, <4>1 DEF EventsInv, PublisherInv
    <3> QED
      BY <3>1, <3>2
  <2>5. CASE UNCHANGED <<batchEventPublished, remnant>> /\ Return(w)
    <3>1. \A v \in Workers : pc'[v] = "publish" => pc[v] = "publish"
      BY <1>0, <2>5 DEF Return, Goto, TypeOK
    <3> QED
      BY <2>1, <2>5, <3>1, EventsFrame
  <2> QED
    BY <1>2, <2>4, <2>5 DEF MarkBatchPublished
<1>3. CASE PublishBatch(w)
  <2>1. pc[w] = "publish" /\ UNCHANGED <<batchEventPublished, remnant>>
    BY <1>3 DEF PublishBatch, master
  <2>2. seen[w] = Files
    BY <1>0, <2>1 DEF SeenInv, SeenIsWhole
  <2>3. PICK e : puts' = puts \union {e} /\ e.kind = "completion" /\ e.files = Files
    BY <1>3, <2>2, PutEventAdds DEF PublishBatch
  <2>4. CompletionIsWhole' /\ TimeoutLeavesFileOut'
    BY <2>3 DEF EventsInv, CompletionIsWhole, Completions, TimeoutLeavesFileOut
  <2>5. CASE remnant
    BY <2>1, <2>4, <2>5 DEF EventsInv, PublisherInv, AtMostOneCompletion
  <2>6. CASE ~remnant
    <3>1. /\ Completions = {}
          /\ \A v \in Workers : pc[v] = "publish" => v = w
          /\ batchEventPublished
      BY <1>0, <2>1, <2>6 DEF EventsInv, PublisherInv, TypeOK
    <3>2. Completions' = {e}
      BY <2>3, <3>1 DEF Completions
    <3>3. \A v \in Workers : pc'[v] # "publish"
      BY <1>0, <1>3, <3>1 DEF PublishBatch, Return, Goto, TypeOK
    <3>4. PublisherInv'
      BY <2>1, <3>1, <3>3 DEF PublisherInv
    <3>5. AtMostOneCompletion'
      BY <3>2 DEF AtMostOneCompletion
    <3> QED
      BY <2>4, <3>4, <3>5 DEF EventsInv
  <2> QED
    BY <2>5, <2>6
<1> QED
  BY <1>1, <1>2, <1>3 DEF TrackerStep

LEMMA EventsTimerStep ==
    ASSUME TypeOK, SeenInv, EventsInv, NEW t \in Timers, TimerStep(t)
    PROVE  EventsInv'
<1>0. t \in Workers
  BY WorkerKinds
<1>1. UNCHANGED <<batchEventPublished, remnant>>
  BY DEF TimerStep, ReadAtFireTime, PublishDegraded, PublishTimeout, MarkTimeoutPublished,
         master
<1>2. \A w \in Workers : pc'[w] = "publish" => pc[w] = "publish"
  BY <1>0 DEF TimerStep, ReadAtFireTime, PublishDegraded, PublishTimeout,
              MarkTimeoutPublished, Return, Goto, TypeOK
<1>3. CASE PublishDegraded(t)
  <2>1. PutEvent(t, "degraded", {})
    BY <1>3 DEF PublishDegraded
  <2> QED
    BY <1>1, <1>2, <2>1, PutEventAdds, EventsFrame
<1>4. CASE PublishTimeout(t)
  <2>1. PutEvent(t, "timeout", seen[t]) /\ seen[t] # Files
    BY <1>0, <1>4 DEF PublishTimeout, SeenInv, SeenLeavesFileOut
  <2> QED
    BY <1>1, <1>2, <2>1, PutEventAdds, EventsFrame
<1>5. CASE UNCHANGED puts
  BY <1>1, <1>2, <1>5, EventsFrame
<1> QED
  BY <1>3, <1>4, <1>5 DEF TimerStep, ReadAtFireTime, MarkTimeoutPublished

LEMMA NextEvents == TypeOK /\ SeenInv /\ EventsInv /\ [Next]_vars => EventsInv'
<1> SUFFICES ASSUME TypeOK, SeenInv, EventsInv, [Next]_vars
             PROVE  EventsInv'
  OBVIOUS
<1>1. CASE ExpireMaster
  BY <1>1, EventsFrame DEF ExpireMaster, workers
<1>2. ASSUME NEW w \in Workers, Fail(w)
      PROVE  EventsInv'
  <2>1. \A v \in Workers : pc'[v] = "publish" => pc[v] = "publish"
    BY <1>2, RedeliverMoves DEF Fail
  <2> QED
    BY <1>2, <2>1, EventsFrame DEF Fail, master
<1>3. CASE UNCHANGED vars
  BY <1>3, EventsFrame DEF vars, master, workers
<1> QED
  BY <1>1, <1>2, <1>3, EventsFileStep, EventsFanOutStep, EventsTrackerStep,
     EventsTimerStep DEF Next

-----------------------------------------------------------------------------
(* Nothing is left behind.                                                 *)

\* What no step takes back.
Grows ==
    /\ fileStatuses \subseteq fileStatuses'
    /\ batchEventPublished => batchEventPublished'
    /\ batchTimeoutPublished => batchTimeoutPublished'
    /\ live' => live
    /\ puts \subseteq puts'

LEMMA NextGrows == TypeOK /\ CountMatchesFiles /\ [Next]_vars => Grows
<1> SUFFICES ASSUME TypeOK, CountMatchesFiles, [Next]_vars
             PROVE  Grows
  OBVIOUS
<1>1. fileStatuses \subseteq fileStatuses'
  BY NextCount
<1>2. ASSUME NEW w, NEW kind, NEW files, PutEvent(w, kind, files)
      PROVE  puts \subseteq puts'
  BY <1>2, PutEventAdds
<1>3. ASSUME UNCHANGED <<live, batchEventPublished, batchTimeoutPublished>>,
             puts \subseteq puts'
      PROVE  Grows
  BY <1>1, <1>3 DEF Grows
<1>4. ASSUME NEW f \in Files, DeliverFile(f) \/ FileStep(f)
      PROVE  Grows
  <2>1. puts \subseteq puts'
    BY <1>2, <1>4 DEF FileStep, DeliverFile, AnnounceFile, CountFile, CountRefused
  <2> QED
    BY <1>3, <1>4, <2>1
    DEF FileStep, DeliverFile, AnnounceFile, CountFile, CountRefused, master
<1>5. ASSUME FanOutStep
      PROVE  Grows
  <2>1. puts \subseteq puts'
    BY <1>2, <1>5 DEF FanOutStep, QueryItems, AnnounceReconciled, ReconcileFile,
                      ScheduleBatchTimeout
  <2> QED
    BY <1>3, <1>5, <2>1 DEF FanOutStep, QueryItems, AnnounceReconciled, ReconcileFile,
                            ScheduleBatchTimeout, master
<1>6. ASSUME NEW w \in Trackers, TrackerStep(w)
      PROVE  Grows
  <2>1. puts \subseteq puts'
    BY <1>2, <1>6 DEF TrackerStep, RereadMaster, MarkBatchPublished, PublishBatch
  <2>2. CASE MarkBatchPublished(w)
    BY <1>1, <2>1, <2>2 DEF MarkBatchPublished, SetBatchMarker, Grows
  <2> QED
    BY <1>3, <1>6, <2>1, <2>2 DEF TrackerStep, RereadMaster, PublishBatch, master
<1>7. ASSUME NEW t \in Timers, TimerStep(t)
      PROVE  Grows
  <2>1. puts \subseteq puts'
    BY <1>2, <1>7 DEF TimerStep, ReadAtFireTime, PublishDegraded, PublishTimeout,
                      MarkTimeoutPublished
  <2>2. CASE MarkTimeoutPublished(t)
    <3>1. batchTimeoutPublished => batchTimeoutPublished'
      BY <2>2 DEF MarkTimeoutPublished
    <3>2. UNCHANGED <<live, batchEventPublished>>
      BY <2>2 DEF MarkTimeoutPublished
    <3> QED
      BY <1>1, <2>1, <3>1, <3>2 DEF Grows
  <2> QED
    BY <1>3, <1>7, <2>1, <2>2
    DEF TimerStep, ReadAtFireTime, PublishDegraded, PublishTimeout, master
<1>8. ASSUME ExpireMaster \/ \E w \in Workers : Fail(w)
      PROVE  Grows
  BY <1>1, <1>8 DEF ExpireMaster, Fail, master, Grows
<1>9. CASE UNCHANGED vars
  BY <1>3, <1>9 DEF vars, master
<1> QED
  BY <1>4, <1>5, <1>6, <1>7, <1>8, <1>9 DEF Next

\* A file's worker that is past its update, or was, has the file counted: unless the
\* record was gone, it does not return before.
PastCount == {"reread", "items", "mark", "publish", "done"}

ReturnInv ==
    /\ \A f \in Files : live /\ pc[f] \in PastCount => f \in fileStatuses
    /\ AllReturnedIsMarked

\* A step that brings no file's worker past its update.
LEMMA ReturnKept ==
    ASSUME ReturnInv, Grows,
           \A f \in Files : live' /\ pc'[f] \in PastCount => pc[f] = pc'[f]
    PROVE  ReturnInv'
<1>1. \A f \in Files : live' /\ pc'[f] \in PastCount => f \in fileStatuses'
  BY DEF ReturnInv, Grows
<1>2. AllReturnedIsMarked'
  BY DEF ReturnInv, Grows, AllReturnedIsMarked, PastCount
<1> QED
  BY <1>1, <1>2 DEF ReturnInv

\* The step of file f's worker, with f counted; it returns from a batch that is marked
\* or not whole.
LEMMA ReturnMoved ==
    ASSUME ReturnInv, Grows, TypeOK', NEW f \in Files, f \in fileStatuses',
           \A g \in Files \ {f} : pc'[g] = pc[g],
           pc'[f] = "done" /\ fileStatuses' = Files
               => batchEventPublished' \/ batchTimeoutPublished'
    PROVE  ReturnInv'
<1>1. \A g \in Files : live' /\ pc'[g] \in PastCount => g \in fileStatuses'
  BY DEF ReturnInv, Grows
<1>2. AllReturnedIsMarked'
  <2> SUFFICES ASSUME live', \A g \in Files : pc'[g] = "done"
               PROVE  batchEventPublished' \/ batchTimeoutPublished'
    BY DEF AllReturnedIsMarked
  <2>1. fileStatuses' = Files
    BY <1>1 DEF PastCount, TypeOK
  <2> QED
    BY <2>1
<1> QED
  BY <1>1, <1>2 DEF ReturnInv

\* The guard lets no worker return from a whole batch without a marker.
LEMMA CheckBatchReturns ==
    ASSUME TypeOK, live, NEW w \in Workers, CheckBatch(w, Files, Cardinality(Files)),
           pc'[w] = "done"
    PROVE  batchEventPublished
BY DEF TypeOK, CheckBatch, AllResolved, ExpectedFiles, Return, Goto

LEMMA ReturnFileStep ==
    ASSUME TypeOK, TypeOK', CountMatchesFiles', ReturnInv, Grows,
           NEW f \in Files, DeliverFile(f) \/ FileStep(f)
    PROVE  ReturnInv'
<1>0. f \in Workers
  BY WorkerKinds
<1>1. CASE DeliverFile(f)
  BY <1>0, <1>1, ReturnKept DEF DeliverFile, Goto, TypeOK, PastCount, Workers
<1>2. CASE AnnounceFile(f)
  BY <1>0, <1>2, ReturnKept DEF AnnounceFile, Goto, TypeOK, PastCount, Workers, master
<1>3. CASE CountFile(f)
  <2>1. f \in fileStatuses'
    BY <1>3 DEF CountFile, CountOnce, NotYetCounted
  <2>2. live /\ UNCHANGED batchEventPublished
    BY <1>3 DEF CountFile
  <2>3. \A g \in Files \ {f} : pc'[g] = pc[g]
    BY <1>0, <1>3 DEF CountFile, CheckBatch, Return, Goto, TypeOK, Workers
  <2>4. CASE pc'[f] # "done"
    BY <2>1, <2>3, <2>4, ReturnMoved
  <2>5. CASE CheckBatch(f, fileStatuses', resolvedCount')
    <3>1. resolvedCount' = Cardinality(fileStatuses')
      BY DEF CountMatchesFiles
    <3>2. pc'[f] = "done" /\ fileStatuses' = Files => batchEventPublished
      BY <1>0, <2>2, <2>5, <3>1, CheckBatchReturns
    <3> QED
      BY <2>1, <2>2, <2>3, <3>2, ReturnMoved
  <2> QED
    BY <1>0, <1>3, <2>4, <2>5 DEF CountFile, Goto, TypeOK
<1>4. CASE CountRefused(f)
  BY <1>4, ReturnKept DEF CountRefused, Grows
<1> QED
  BY <1>1, <1>2, <1>3, <1>4 DEF FileStep

LEMMA ReturnTrackerStep ==
    ASSUME TypeOK, TypeOK', CountMatchesFiles, MarkersInv, EventsInv, ReturnInv, Grows,
           NEW f \in Files, TrackerStep(f)
    PROVE  ReturnInv'
<1>0. f \in Workers
  BY WorkerKinds
<1>1. CASE ~live
  BY <1>1, ReturnKept DEF Grows
<1>2. CASE live
  <2>1. pc[f] \in PastCount
    BY DEF TrackerStep, RereadMaster, MarkBatchPublished, PublishBatch, PastCount
  <2>2. f \in fileStatuses'
    BY <1>2, <2>1 DEF ReturnInv, Grows
  <2>3. \A g \in Files \ {f} : pc'[g] = pc[g]
    BY <1>0 DEF TrackerStep, RereadMaster, MarkBatchPublished, PublishBatch,
                CheckBatch, Return, Goto, TypeOK, Workers
  <2>4. CASE RereadMaster(f)
    <3>1. CheckBatch(f, fileStatuses, Cardinality(fileStatuses))
      BY <2>4 DEF RereadMaster, CountMatchesFiles
    <3>2. UNCHANGED <<fileStatuses, batchEventPublished>>
      BY <2>4 DEF RereadMaster, master
    <3>3. pc'[f] = "done" /\ fileStatuses = Files => batchEventPublished
      BY <1>0, <1>2, <3>1, CheckBatchReturns
    <3> QED
      BY <2>2, <2>3, <3>2, <3>3, ReturnMoved
  <2>5. CASE MarkBatchPublished(f)
    <3>1. batchEventPublished' \/ batchTimeoutPublished'
      BY <1>2, <2>5 DEF MarkBatchPublished, NoBatchMarker, SetBatchMarker, TypeOK
    <3> QED
      BY <2>2, <2>3, <3>1, ReturnMoved
  <2>6. CASE PublishBatch(f)
    <3>1. batchEventPublished'
      BY <1>0, <1>2, <2>6 DEF PublishBatch, MarkersInv, EventsInv, PublisherInv, Grows
    <3> QED
      BY <2>2, <2>3, <3>1, ReturnMoved
  <2> QED
    BY <2>4, <2>5, <2>6 DEF TrackerStep
<1> QED
  BY <1>1, <1>2

\* The other workers do not move the files' workers.
LEMMA ReturnOtherStep ==
    ASSUME TypeOK, ReturnInv, Grows,
           \/ FanOutStep
           \/ TrackerStep(FanOut)
           \/ \E t \in Timers : TimerStep(t)
    PROVE  ReturnInv'
<1>1. ASSUME NEW w \in Workers \ Files, \A v \in Workers \ {w} : pc'[v] = pc[v]
      PROVE  ReturnInv'
  BY <1>1, WorkerKinds, ReturnKept
<1>2. FanOut \in Workers \ Files /\ Timers \subseteq Workers \ Files
  BY WorkersAssumption DEF Workers
<1>3. CASE FanOutStep \/ TrackerStep(FanOut)
  <2>1. CASE ScheduleBatchTimeout
    <3>1. \A f \in Files : pc'[f] = pc[f]
      BY <1>2, <2>1, WorkersAssumption, WorkerKinds DEF ScheduleBatchTimeout
    <3> QED
      BY <3>1, ReturnKept
  <2>2. CASE ~ScheduleBatchTimeout
    <3>1. \A v \in Workers \ {FanOut} : pc'[v] = pc[v]
      BY <1>3, <2>2 DEF FanOutStep, QueryItems, AnnounceReconciled, ReconcileFile,
                        TrackerStep, RereadMaster, MarkBatchPublished, PublishBatch,
                        CheckBatch, Return, Goto, TypeOK
    <3> QED
      BY <1>1, <1>2, <3>1
  <2> QED
    BY <2>1, <2>2
<1>4. ASSUME NEW t \in Timers, TimerStep(t)
      PROVE  ReturnInv'
  <2>1. \A v \in Workers \ {t} : pc'[v] = pc[v]
    BY <1>4 DEF TimerStep, ReadAtFireTime, PublishDegraded, PublishTimeout,
                MarkTimeoutPublished, Return, Goto, TypeOK
  <2> QED
    BY <1>1, <1>2, <2>1
<1> QED
  BY <1>3, <1>4

LEMMA NextReturn ==
    TypeOK /\ CountMatchesFiles /\ MarkersInv /\ EventsInv /\ ReturnInv /\ [Next]_vars
        => ReturnInv'
<1> SUFFICES ASSUME TypeOK, CountMatchesFiles, MarkersInv, EventsInv, ReturnInv, [Next]_vars
             PROVE  ReturnInv'
  OBVIOUS
<1>1. TypeOK' /\ CountMatchesFiles' /\ Grows
  BY NextType, NextCount, NextGrows
<1>2. ASSUME NEW f \in Files, DeliverFile(f) \/ FileStep(f) \/ TrackerStep(f)
      PROVE  ReturnInv'
  BY <1>1, <1>2, ReturnFileStep, ReturnTrackerStep
<1>3. CASE ExpireMaster
  BY <1>1, <1>3, ReturnKept DEF ExpireMaster, workers
<1>4. ASSUME NEW w \in Workers, Fail(w)
      PROVE  ReturnInv'
  <2>1. \A f \in Files : pc'[f] = pc[f] \/ pc'[f] \in {"ready", "dead"}
    BY <1>4, RedeliverMoves, WorkerKinds DEF Fail
  <2> QED
    BY <1>1, <2>1, ReturnKept DEF PastCount
<1>5. CASE UNCHANGED vars
  BY <1>1, <1>5, ReturnKept DEF vars, workers
<1> QED
  BY <1>1, <1>2, <1>3, <1>4, <1>5, ReturnOtherStep DEF Next, Trackers

-----------------------------------------------------------------------------
(* No silent timeout.                                                      *)

Reported == \E e \in puts : e.kind = "timeout"
ReportedInSomeWay == \E e \in puts : e.kind \in {"timeout", "degraded"}

\* The marker, a worker about to set it, and a worker that returns, come after an entry,
\* accepted or not.
TimeoutInv ==
    /\ \A t \in Timers : pc[t] = "markTimeout" => Reported
    /\ batchTimeoutPublished => Reported
    /\ \A t \in Timers : pc[t] = "done" => fileStatuses = Files \/ ReportedInSomeWay

LEMMA TimeoutFrame ==
    ASSUME TimeoutInv, Grows,
           batchTimeoutPublished' => batchTimeoutPublished \/ Reported,
           \A t \in Timers : pc'[t] = "markTimeout" => pc[t] = "markTimeout" \/ Reported',
           \A t \in Timers : pc'[t] = "done" =>
               pc[t] = "done" \/ fileStatuses = Files \/ ReportedInSomeWay'
    PROVE  TypeOK' => TimeoutInv'
<1> SUFFICES ASSUME TypeOK' PROVE TimeoutInv'
  OBVIOUS
<1>1. /\ Reported => Reported'
      /\ ReportedInSomeWay => ReportedInSomeWay'
  BY DEF Reported, ReportedInSomeWay, Grows
<1>2. fileStatuses = Files => fileStatuses' = Files
  BY DEF Grows, TypeOK
<1>3. batchTimeoutPublished' => Reported'
  BY <1>1 DEF TimeoutInv
<1>4. ASSUME NEW t \in Timers, pc'[t] = "done"
      PROVE  fileStatuses' = Files \/ ReportedInSomeWay'
  BY <1>1, <1>2, <1>4 DEF TimeoutInv
<1>5. \A t \in Timers : pc'[t] = "markTimeout" => Reported'
  BY <1>1 DEF TimeoutInv
<1> QED
  BY <1>3, <1>4, <1>5 DEF TimeoutInv

LEMMA TimeoutTimerStep ==
    ASSUME TypeOK, TypeOK', CountMatchesFiles, MarkersInv, TimeoutInv, Grows,
           NEW t \in Timers, TimerStep(t)
    PROVE  TimeoutInv'
<1>0. t \in Workers /\ Timers \subseteq Workers
  BY WorkerKinds
<1>1. CASE ReadAtFireTime(t)
  <2>1. ~TimeoutPending => fileStatuses = Files \/ Reported
    BY CountBounds DEF TimeoutPending, MarkersInv, TimeoutInv, CountMatchesFiles, TypeOK
  <2>2. UNCHANGED <<puts, batchTimeoutPublished>>
    BY <1>1 DEF ReadAtFireTime, master
  <2>3. \A u \in Timers : pc'[u] # "markTimeout" \/ pc[u] = "markTimeout"
    BY <1>0, <1>1 DEF ReadAtFireTime, Goto, TypeOK
  <2>4. \A u \in Timers : pc'[u] = "done" => pc[u] = "done" \/ ~TimeoutPending \/ remnant
    BY <1>0, <1>1 DEF ReadAtFireTime, Goto, TypeOK
  <2>5. remnant => fileStatuses = Files
    BY DEF MarkersInv
  <2>6. Reported => ReportedInSomeWay'
    BY <2>2 DEF Reported, ReportedInSomeWay
  <2> QED
    BY <2>1, <2>2, <2>3, <2>4, <2>5, <2>6, TimeoutFrame
<1>2. CASE PublishDegraded(t)
  <2>1. ReportedInSomeWay'
    BY <1>2, PutEventAdds DEF PublishDegraded, ReportedInSomeWay
  <2>2. \A u \in Timers : pc'[u] # "markTimeout" \/ pc[u] = "markTimeout"
    BY <1>0, <1>2 DEF PublishDegraded, Goto, TypeOK
  <2> QED
    BY <1>2, <2>1, <2>2, TimeoutFrame DEF PublishDegraded, master
<1>3. CASE PublishTimeout(t)
  <2>1. Reported'
    BY <1>3, PutEventAdds DEF PublishTimeout, Reported
  <2>2. \A u \in Timers : pc'[u] # "done" \/ pc[u] = "done"
    BY <1>0, <1>3 DEF PublishTimeout, Goto, TypeOK
  <2> QED
    BY <1>3, <2>1, <2>2, TimeoutFrame DEF PublishTimeout, master
<1>4. CASE MarkTimeoutPublished(t)
  <2>1. Reported /\ UNCHANGED puts
    BY <1>4 DEF MarkTimeoutPublished, TimeoutInv
  <2>2. \A u \in Timers : pc'[u] # "markTimeout" \/ pc[u] = "markTimeout"
    BY <1>0, <1>4 DEF MarkTimeoutPublished, Return, Goto, TypeOK
  <2> QED
    BY <2>1, <2>2, TimeoutFrame DEF Reported, ReportedInSomeWay
<1> QED
  BY <1>1, <1>2, <1>3, <1>4 DEF TimerStep

\* The other workers write no timeout marker and do not move the timers' workers.
LEMMA TimeoutOtherStep ==
    ASSUME TypeOK, TypeOK', TimeoutInv, Grows,
           \/ \E f \in Files : DeliverFile(f) \/ FileStep(f)
           \/ FanOutStep
           \/ \E w \in Trackers : TrackerStep(w)
    PROVE  TimeoutInv'
<1>1. ASSUME NEW w \in Workers \ Timers, \A v \in Workers \ {w} : pc'[v] = pc[v],
             UNCHANGED batchTimeoutPublished
      PROVE  TimeoutInv'
  BY <1>1, WorkerKinds, TimeoutFrame
<1>2. Trackers \subseteq Workers \ Timers
  BY WorkersAssumption DEF Workers, Trackers
<1>3. ASSUME NEW f \in Files, DeliverFile(f) \/ FileStep(f)
      PROVE  TimeoutInv'
  <2>1. \A v \in Workers \ {f} : pc'[v] = pc[v]
    BY <1>3, FileStepMoves
  <2>2. UNCHANGED batchTimeoutPublished
    BY <1>3 DEF DeliverFile, FileStep, AnnounceFile, CountFile, CountRefused, master
  <2> QED
    BY <1>1, <1>2, <2>1, <2>2 DEF Trackers
<1>4. ASSUME FanOutStep
      PROVE  TimeoutInv'
  <2>1. UNCHANGED batchTimeoutPublished
    BY <1>4 DEF FanOutStep, QueryItems, AnnounceReconciled, ReconcileFile,
                ScheduleBatchTimeout, master
  <2>2. CASE ScheduleBatchTimeout
    <3>1. \A t \in Timers : pc'[t] = pc[t] \/ pc'[t] = "ready"
      BY <2>2, WorkersAssumption, WorkerKinds DEF ScheduleBatchTimeout
    <3> QED
      BY <2>1, <3>1, TimeoutFrame
  <2>3. CASE ~ScheduleBatchTimeout
    <3>1. \A v \in Workers \ {FanOut} : pc'[v] = pc[v]
      BY <1>4, <2>3, FanOutStepMoves
    <3> QED
      BY <1>1, <1>2, <2>1, <3>1 DEF Trackers
  <2> QED
    BY <2>2, <2>3
<1>5. ASSUME NEW w \in Trackers, TrackerStep(w)
      PROVE  TimeoutInv'
  <2>1. \A v \in Workers \ {w} : pc'[v] = pc[v]
    BY <1>5 DEF TrackerStep, RereadMaster, MarkBatchPublished, PublishBatch, CheckBatch,
                Return, Goto, TypeOK
  <2>2. UNCHANGED batchTimeoutPublished
    BY <1>5 DEF TrackerStep, RereadMaster, MarkBatchPublished, PublishBatch, master
  <2> QED
    BY <1>1, <1>2, <1>5, <2>1, <2>2
<1> QED
  BY <1>3, <1>4, <1>5

LEMMA NextTimeout ==
    TypeOK /\ CountMatchesFiles /\ MarkersInv /\ TimeoutInv /\ [Next]_vars => TimeoutInv'
<1> SUFFICES ASSUME TypeOK, CountMatchesFiles, MarkersInv, TimeoutInv, [Next]_vars
             PROVE  TimeoutInv'
  OBVIOUS
<1>1. TypeOK' /\ Grows
  BY NextType, NextCount, NextGrows
<1>2. CASE ExpireMaster
  BY <1>1, <1>2, TimeoutFrame DEF ExpireMaster, workers
<1>3. ASSUME NEW w \in Workers, Fail(w)
      PROVE  TimeoutInv'
  <2>1. \A t \in Timers : pc'[t] = pc[t] \/ pc'[t] \in {"ready", "dead"}
    BY <1>3, RedeliverMoves, WorkerKinds DEF Fail
  <2> QED
    BY <1>1, <1>3, <2>1, TimeoutFrame DEF Fail, master
<1>4. CASE UNCHANGED vars
  BY <1>1, <1>4, TimeoutFrame DEF vars, master, workers
<1> QED
  BY <1>1, <1>2, <1>3, <1>4, TimeoutTimerStep, TimeoutOtherStep DEF Next

-----------------------------------------------------------------------------
(* The timeout that is final.                                              *)

\* Without failures a timer goes its way once: what it read stays counted, and after its
\* event it sets the marker, unless all files are counted by then.
Followed(e) ==
    /\ e.by \in Timers
    /\ e.files \subseteq fileStatuses
    /\ pc[e.by] \in {"markTimeout", "done"}
    /\ live /\ pc[e.by] = "done" /\ e.files # {} /\ fileStatuses # Files
        => batchTimeoutPublished

FinalInv ==
    failures = 0 =>
        /\ \A t \in Timers : pc[t] = "timeout" => seen[t] \subseteq fileStatuses
        /\ \A e \in puts : e.kind = "timeout" => Followed(e)

\* What a step of a timer has to show, if it is one.
LEMMA FinalFrame ==
    ASSUME TypeOK, TypeOK', FinalInv, Grows, failures = 0, NEW T \in SUBSET Timers,
           \A t \in Timers \ T : pc'[t] = pc[t] /\ seen'[t] = seen[t],
           \A t \in T : pc[t] # "done" /\ pc'[t] = "timeout" => seen'[t] \subseteq fileStatuses',
           \A t \in T : pc[t] = "markTimeout" => pc'[t] = "done",
           \A t \in T : pc[t] # "done",
           \A e \in puts : /\ live' /\ e.kind = "timeout" /\ e.by \in T
                           /\ e.files # {} /\ fileStatuses # Files
                => batchTimeoutPublished',
           \A e \in puts' \ puts : e.kind = "timeout" => Followed(e)'
    PROVE  FinalInv'
<1>1. ASSUME NEW e \in puts, e.kind = "timeout"
      PROVE  Followed(e)'
  <2>1. Followed(e)
    BY <1>1 DEF FinalInv
  <2>2. e.files \subseteq fileStatuses' /\ (fileStatuses' # Files => fileStatuses # Files)
    BY <2>1 DEF Followed, Grows, TypeOK
  <2>3. CASE e.by \in T
    BY <1>1, <2>1, <2>2, <2>3 DEF Followed
  <2>4. CASE e.by \notin T
    BY <2>1, <2>2, <2>4 DEF Followed, Grows
  <2> QED
    BY <2>3, <2>4
<1>2. ASSUME NEW t \in Timers, pc'[t] = "timeout"
      PROVE  seen'[t] \subseteq fileStatuses'
  <2>1. t \notin T => seen[t] \subseteq fileStatuses
    BY <1>2 DEF FinalInv
  <2> QED
    BY <1>2, <2>1 DEF Grows
<1> QED
  BY <1>1, <1>2 DEF FinalInv

LEMMA FinalKept ==
    ASSUME TypeOK, TypeOK', FinalInv, Grows, failures = 0,
           \A t \in Timers : pc'[t] = pc[t] /\ seen'[t] = seen[t],
           \A e \in puts' \ puts : e.kind # "timeout"
    PROVE  FinalInv'
<1> DEFINE T == {}
<1>1. /\ T \in SUBSET Timers
      /\ \A t \in Timers \ T : pc'[t] = pc[t] /\ seen'[t] = seen[t]
      /\ \A t : t \notin T
  OBVIOUS
<1> HIDE DEF T
<1> QED
  BY <1>1, FinalFrame

LEMMA FinalTimerStep ==
    ASSUME TypeOK, TypeOK', CountMatchesFiles, FinalInv, Grows, failures' = 0,
           failures = 0, NEW t \in Timers, TimerStep(t)
    PROVE  FinalInv'
<1>0. t \in Workers /\ Timers \subseteq Workers /\ {t} \in SUBSET Timers
  BY WorkerKinds
<1>1. CASE ReadAtFireTime(t)
  <2>1. /\ \A u \in Timers \ {t} : pc'[u] = pc[u] /\ seen'[u] = seen[u]
        /\ pc[t] = "ready" /\ puts' = puts /\ fileStatuses' = fileStatuses
        /\ pc'[t] = "timeout" => seen'[t] = fileStatuses
    BY <1>0, <1>1 DEF ReadAtFireTime, Goto, TypeOK, master
  <2>2. \A e \in puts : e.kind = "timeout" => e.by # t
    BY <2>1 DEF FinalInv, Followed
  <2> QED
    BY <1>0, <2>1, <2>2, FinalFrame
<1>2. CASE PublishDegraded(t)
  <2>1. /\ \A u \in Timers \ {t} : pc'[u] = pc[u] /\ seen'[u] = seen[u]
        /\ pc[t] = "degraded" /\ pc'[t] = "done"
    BY <1>0, <1>2 DEF PublishDegraded, Goto, TypeOK
  <2>2. \A e \in puts' \ puts : e.kind # "timeout"
    BY <1>2, PutEventAdds DEF PublishDegraded
  <2>3. \A e \in puts : e.kind = "timeout" => e.by # t
    BY <2>1 DEF FinalInv, Followed
  <2> QED
    BY <1>0, <2>1, <2>2, <2>3, FinalFrame
<1>3. CASE PublishTimeout(t)
  <2>1. /\ \A u \in Timers \ {t} : pc'[u] = pc[u] /\ seen'[u] = seen[u]
        /\ pc[t] = "timeout" /\ pc'[t] = "markTimeout" /\ fileStatuses' = fileStatuses
    BY <1>0, <1>3 DEF PublishTimeout, Goto, TypeOK, master
  <2>2. \A e \in puts' \ puts : e.by = t /\ e.files = seen[t]
    BY <1>3 DEF PublishTimeout, PutEvent
  <2>3. seen[t] \subseteq fileStatuses
    BY <2>1 DEF FinalInv
  <2>4. \A e \in puts' \ puts : Followed(e)'
    BY <2>1, <2>2, <2>3 DEF Followed
  <2>5. \A e \in puts : e.kind = "timeout" => e.by # t
    BY <2>1 DEF FinalInv, Followed
  <2> QED
    BY <1>0, <2>1, <2>4, <2>5, FinalFrame
<1>4. CASE MarkTimeoutPublished(t)
  <2>1. /\ \A u \in Timers \ {t} : pc'[u] = pc[u] /\ seen'[u] = seen[u]
        /\ pc[t] = "markTimeout" /\ pc'[t] = "done" /\ puts' = puts
    BY <1>0, <1>4, WorkersAssumption DEF MarkTimeoutPublished, Return, Goto, TypeOK
  <2>2. TimeoutMarkerAllowed => batchTimeoutPublished'
    <3>1. ~SomethingFails
      BY DEF SomethingFails
    <3>2. batchTimeoutPublished' = (batchTimeoutPublished \/ TimeoutMarkerAllowed)
      BY <1>4, <3>1 DEF MarkTimeoutPublished
    <3> QED
      BY <3>2, Zenon
  <2>3. batchTimeoutPublished => batchTimeoutPublished'
    BY DEF Grows
  <2>4. ASSUME NEW e \in puts, live, e.kind = "timeout", e.files # {}, fileStatuses # Files
        PROVE  TimeoutMarkerAllowed \/ batchTimeoutPublished
    <3>1. fileStatuses # {}
      BY <2>4 DEF FinalInv, Followed
    <3>2. fileStatuses \subseteq Files
      BY DEF TypeOK
    <3>3. resolvedCount # 0 /\ resolvedCount < ExpectedFiles
      BY <2>4, <3>1, <3>2, CountBounds, FS_EmptySet DEF CountMatchesFiles
    <3> QED
      BY <2>4, <3>3 DEF TimeoutMarkerAllowed
  <2>5. live' => live
    BY DEF Grows
  <2> QED
    BY <1>0, <2>1, <2>2, <2>3, <2>4, <2>5, FinalFrame
<1> QED
  BY <1>1, <1>2, <1>3, <1>4 DEF TimerStep

LEMMA FinalOtherStep ==
    ASSUME TypeOK, TypeOK', FinalInv, Grows, failures = 0,
           \/ \E f \in Files : DeliverFile(f) \/ FileStep(f)
           \/ FanOutStep
           \/ \E w \in Trackers : TrackerStep(w)
    PROVE  FinalInv'
<1>1. ASSUME NEW w \in Workers \ Timers,
             \A v \in Workers \ {w} : pc'[v] = pc[v] /\ seen'[v] = seen[v],
             \A e \in puts' \ puts : e.kind # "timeout"
      PROVE  FinalInv'
  <2>1. \A t \in Timers : pc'[t] = pc[t] /\ seen'[t] = seen[t]
    BY <1>1, WorkerKinds
  <2> QED
    BY <1>1, <2>1, FinalKept
<1>2. Trackers \subseteq Workers \ Timers
  BY WorkersAssumption DEF Workers, Trackers
<1>3. ASSUME NEW f \in Files, DeliverFile(f) \/ FileStep(f)
      PROVE  FinalInv'
  <2>1. \A v \in Workers \ {f} : pc'[v] = pc[v] /\ seen'[v] = seen[v]
    BY <1>3, FileStepMoves
  <2>2. \A e \in puts' \ puts : e.kind # "timeout"
    BY <1>3, PutEventAdds DEF DeliverFile, FileStep, AnnounceFile, CountFile, CountRefused
  <2> QED
    BY <1>1, <1>2, <2>1, <2>2 DEF Trackers
<1>4. ASSUME FanOutStep
      PROVE  FinalInv'
  <2>1. CASE ScheduleBatchTimeout
    <3>1. /\ UNCHANGED <<seen, puts, fileStatuses, live, batchTimeoutPublished>>
          /\ \A t \in Timers : pc'[t] = pc[t] \/ (pc[t] = "idle" /\ pc'[t] = "ready")
      BY <2>1, WorkersAssumption, WorkerKinds DEF ScheduleBatchTimeout, master
    <3> QED
      BY <3>1 DEF FinalInv, Followed
  <2>2. CASE ~ScheduleBatchTimeout
    <3>1. \A v \in Workers \ {FanOut} : pc'[v] = pc[v] /\ seen'[v] = seen[v]
      BY <1>4, <2>2, FanOutStepMoves
    <3>2. \A e \in puts' \ puts : e.kind # "timeout"
      BY <1>4, <2>2, PutEventAdds
      DEF FanOutStep, QueryItems, AnnounceReconciled, ReconcileFile
    <3> QED
      BY <1>1, <1>2, <3>1, <3>2 DEF Trackers
  <2> QED
    BY <2>1, <2>2
<1>5. ASSUME NEW w \in Trackers, TrackerStep(w)
      PROVE  FinalInv'
  <2>1. \A v \in Workers \ {w} : pc'[v] = pc[v] /\ seen'[v] = seen[v]
    BY <1>5 DEF TrackerStep, RereadMaster, MarkBatchPublished, PublishBatch, CheckBatch,
                Return, Goto, TypeOK
  <2>2. \A e \in puts' \ puts : e.kind # "timeout"
    BY <1>5, PutEventAdds DEF TrackerStep, RereadMaster, MarkBatchPublished, PublishBatch
  <2> QED
    BY <1>1, <1>2, <1>5, <2>1, <2>2
<1> QED
  BY <1>3, <1>4, <1>5

\* A failure is never undone.
LEMMA FailuresGrow ==
    ASSUME TypeOK, [Next]_vars
    PROVE  failures' = 0 => failures = 0
<1>1. failures \in Nat
  BY BoundsAssumption DEF TypeOK
<1>2. SomethingFails => failures' # 0
  BY <1>1 DEF SomethingFails
<1>3. \A w, kind, files : PutEvent(w, kind, files) => failures' = failures \/ failures' # 0
  BY <1>2 DEF PutEvent
<1> QED
  BY <1>2, <1>3
  DEF Next, DeliverFile, FileStep, AnnounceFile, CountFile, CountRefused, FanOutStep,
      QueryItems, ReconcileFile, AnnounceReconciled, ScheduleBatchTimeout, TrackerStep, RereadMaster, MarkBatchPublished,
      PublishBatch, TimerStep, ReadAtFireTime, PublishDegraded, PublishTimeout,
      MarkTimeoutPublished, Fail, ExpireMaster, vars

LEMMA NextFinal ==
    TypeOK /\ CountMatchesFiles /\ FinalInv /\ [Next]_vars => FinalInv'
<1> SUFFICES ASSUME TypeOK, CountMatchesFiles, FinalInv, [Next]_vars, failures' = 0
             PROVE  FinalInv'
  BY DEF FinalInv
<1>1. TypeOK' /\ Grows /\ failures = 0
  BY NextType, NextCount, NextGrows, FailuresGrow
<1>2. CASE UNCHANGED <<pc, seen, puts>>
  BY <1>1, <1>2, FinalKept
<1>3. ASSUME NEW w \in Workers, Fail(w)
      PROVE  FALSE
  BY <1>1, <1>3 DEF Fail, SomethingFails
<1> QED
  BY <1>1, <1>2, <1>3, FinalTimerStep, FinalOtherStep DEF Next, ExpireMaster, vars, workers

-----------------------------------------------------------------------------
(* The inductive invariant and what follows from it.                       *)

IInv ==
    /\ TypeOK
    /\ CountMatchesFiles
    /\ SeenInv
    /\ MarkersInv
    /\ EventsInv
    /\ ReturnInv
    /\ TimeoutInv
    /\ FinalInv

LEMMA InitInv == Init => IInv
<1> SUFFICES ASSUME Init PROVE IInv
  OBVIOUS
<1>1. TypeOK /\ CountMatchesFiles
  BY InitType, FS_EmptySet DEF Init, CountMatchesFiles
<1>2. \A w \in Workers : pc[w] \in {"idle", "ready"}
  BY DEF Init
<1>3. SeenInv /\ MarkersInv
  BY <1>2 DEF Init, SeenInv, SeenIsWhole, SeenLeavesFileOut, MarkersInv
<1>4. Completions = {} /\ puts = {}
  BY DEF Init, Completions
<1>5. EventsInv
  BY <1>2, <1>4 DEF EventsInv, PublisherInv, AtMostOneCompletion, CompletionIsWhole,
                    TimeoutLeavesFileOut
<1>6. ReturnInv /\ TimeoutInv
  BY <1>2, FilesAssumption, WorkerKinds
  DEF Init, ReturnInv, PastCount, AllReturnedIsMarked, TimeoutInv
<1>7. FinalInv
  BY <1>2, <1>4, WorkerKinds DEF FinalInv
<1> QED
  BY <1>1, <1>3, <1>5, <1>6, <1>7 DEF IInv

LEMMA NextInv == IInv /\ [Next]_vars => IInv'
BY NextType, NextCount, NextSeen, NextMarkers, NextEvents, NextReturn, NextTimeout,
   NextFinal DEF IInv

LEMMA InvariantHolds == Spec => []IInv
BY InitInv, NextInv, PTL DEF Spec

\* However the last files' workers, the reconciliation and their redeliveries
\* interleave, one completion event at most is handed to EventBridge; a second one needs
\* a record that expired under a worker's hands.
THEOREM CompletionAtMostOnce == Spec => []AtMostOneCompletion
<1>1. IInv => AtMostOneCompletion
  BY DEF IInv, EventsInv
<1> QED
  BY <1>1, InvariantHolds, PTL

\* The completion event lists all the files, whichever snapshot it was made from.
THEOREM CompletionOverAllFiles == Spec => []CompletionIsWhole
<1>1. IInv => CompletionIsWhole
  BY DEF IInv, EventsInv
<1> QED
  BY <1>1, InvariantHolds, PTL

\* The markers, unlike the events, do exclude each other: a record with the timeout
\* marker never gets its completion event, unless a remnant takes its place.
THEOREM TimeoutMarkerSuppresses == Spec => []NoCompletionAfterTimeoutMarker
<1>1. IInv => NoCompletionAfterTimeoutMarker
  BY DEF IInv, MarkersInv, EventsInv, PublisherInv, NoCompletionAfterTimeoutMarker
<1> QED
  BY <1>1, InvariantHolds, PTL

\* A timeout event always reports a file as missing.
THEOREM TimeoutIsPartial == Spec => []TimeoutLeavesFileOut
<1>1. IInv => TimeoutLeavesFileOut
  BY DEF IInv, EventsInv
<1> QED
  BY <1>1, InvariantHolds, PTL

\* However reconciliation, lost answers and redeliveries interleave: as long as the record
\* lives, the last file's worker does not return before the batch has its final mark.
THEOREM BatchNotLeftBehind == Spec => []AllReturnedIsMarked
<1>1. IInv => AllReturnedIsMarked
  BY DEF IInv, ReturnInv
<1> QED
  BY <1>1, InvariantHolds, PTL

\* Event first, marker second, over failures, redeliveries and the record's expiry: short of
\* an entry that EventBridge rejects, a timeout that took effect was accepted, and a timeout
\* message ends without an accepted event only if no file is missing.
THEOREM TimeoutNotSilent == Spec => []NoSilentTimeout
<1>1. IInv => NoSilentTimeout
  BY DEF IInv, TimeoutInv, Reported, ReportedInSomeWay, NoSilentTimeout, TimeoutHeard,
         TimeoutRejected
<1> QED
  BY <1>1, InvariantHolds, PTL

\* What the guide says of every timeout, for those that found a file and met no failure:
\* the marker is there when the message is done, so the batch stays timed out.
THEOREM TimeoutOverSomeCloses == Spec => []TimeoutOverSomeIsFinal
<1>1. IInv => TimeoutOverSomeIsFinal
  BY DEF IInv, FinalInv, Followed, TimeoutOverSomeIsFinal
<1> QED
  BY <1>1, InvariantHolds, PTL

-----------------------------------------------------------------------------
(* The abstract outcome.                                                   *)

LEMMA InitRefines == Init => Abstract!Init
BY DEF Init, Abstract!Init, Outcome

\* A counting step of the abstract specification.
LEMMA CountRefines ==
    ASSUME NEW f \in Files, NotYetCounted(f), CountOnce(f),
           UNCHANGED <<batchEventPublished, batchTimeoutPublished>>
    PROVE  Abstract!Count(f)
BY DEF NotYetCounted, CountOnce, Outcome, Abstract!Count

\* Steps that touch neither the map nor the markers stutter.
LEMMA StutterRefines ==
    ASSUME UNCHANGED <<fileStatuses, batchEventPublished, batchTimeoutPublished>>
    PROVE  UNCHANGED Abstract!vars
BY DEF Outcome, Abstract!vars

LEMMA NextRefines == IInv /\ [Next]_vars => [Abstract!Next]_(Abstract!vars)
<1> SUFFICES ASSUME IInv, [Next]_vars
             PROVE  Abstract!Next \/ UNCHANGED Abstract!vars
  OBVIOUS
<1>1. ASSUME NEW f \in Files, DeliverFile(f) \/ FileStep(f)
      PROVE  Abstract!Next \/ UNCHANGED Abstract!vars
  <2>1. CASE CountFile(f) /\ NotYetCounted(f)
    BY <2>1, CountRefines DEF CountFile, Abstract!Next
  <2>2. CASE CountFile(f) /\ ~NotYetCounted(f)
    BY <2>2, StutterRefines DEF CountFile
  <2> QED
    BY <1>1, <2>1, <2>2, StutterRefines
    DEF FileStep, DeliverFile, AnnounceFile, CountRefused, master
<1>2. ASSUME FanOutStep
      PROVE  Abstract!Next \/ UNCHANGED Abstract!vars
  <2>1. ASSUME NEW f \in Files, ReconcileFile(f)
        PROVE  Abstract!Next \/ UNCHANGED Abstract!vars
    <3>1. CASE UNCHANGED fileStatuses
      BY <2>1, <3>1, StutterRefines DEF ReconcileFile
    <3>2. CASE NotYetCounted(f) /\ CountOnce(f)
      BY <2>1, <3>2, CountRefines DEF ReconcileFile, Abstract!Next
    <3> QED
      BY <2>1, <3>1, <3>2 DEF ReconcileFile
  <2> QED
    BY <1>2, <2>1, StutterRefines
    DEF FanOutStep, QueryItems, AnnounceReconciled, ScheduleBatchTimeout, master
<1>3. ASSUME NEW w \in Trackers, TrackerStep(w)
      PROVE  Abstract!Next \/ UNCHANGED Abstract!vars
  <2>1. CASE MarkBatchPublished(w) /\ NoBatchMarker /\ SetBatchMarker /\ live
    <3>1. fileStatuses = Files
      BY <2>1, WorkerKinds DEF MarkBatchPublished, IInv, SeenInv, SeenIsWhole
    <3>2. Abstract!Complete
      BY <2>1, <3>1
      DEF MarkBatchPublished, NoBatchMarker, SetBatchMarker, Outcome, Abstract!Complete
    <3> QED
      BY <3>2 DEF Abstract!Next
  <2>2. CASE MarkBatchPublished(w) /\ UNCHANGED batchEventPublished
    BY <2>2, StutterRefines DEF MarkBatchPublished
  <2>3. CASE MarkBatchPublished(w)
    BY <2>1, <2>2, <2>3 DEF MarkBatchPublished, SetBatchMarker
  <2> QED
    BY <1>3, <2>3, StutterRefines DEF TrackerStep, RereadMaster, PublishBatch, master
<1>4. ASSUME NEW t \in Timers, TimerStep(t)
      PROVE  Abstract!Next \/ UNCHANGED Abstract!vars
  <2>1. CASE MarkTimeoutPublished(t)
    <3>1. CASE UNCHANGED batchTimeoutPublished
      BY <2>1, <3>1, StutterRefines DEF MarkTimeoutPublished
    <3>2. CASE TimeoutMarkerAllowed /\ batchTimeoutPublished'
      <4>1. fileStatuses # Files /\ fileStatuses # {}
        BY <3>2, CountBounds, FS_EmptySet
        DEF TimeoutMarkerAllowed, IInv, CountMatchesFiles, ExpectedFiles
      <4>2. ~batchEventPublished
        BY <4>1 DEF IInv, MarkersInv
      <4>3. Abstract!TimeOut
        BY <2>1, <3>2, <4>1, <4>2
        DEF MarkTimeoutPublished, TimeoutMarkerAllowed, Outcome, Abstract!TimeOut
      <4> QED
        BY <4>3 DEF Abstract!Next
    <3> QED
      BY <2>1, <3>1, <3>2 DEF MarkTimeoutPublished, IInv, TypeOK
  <2> QED
    BY <1>4, <2>1, StutterRefines
    DEF TimerStep, ReadAtFireTime, PublishDegraded, PublishTimeout, master
<1>5. ASSUME ExpireMaster \/ \E w \in Workers : Fail(w)
      PROVE  UNCHANGED Abstract!vars
  BY <1>5, StutterRefines DEF ExpireMaster, Fail, master
<1>6. CASE UNCHANGED vars
  BY <1>6, StutterRefines DEF vars, master
<1> QED
  BY <1>1, <1>2, <1>3, <1>4, <1>5, <1>6 DEF Next

\* The workers implement BatchOutcome: every file counted once, one final mark, over
\* all files or over some, whatever fails and is redelivered.
THEOREM TrackerImplementsOutcome == Spec => ImplementsOutcome
BY InitRefines, NextRefines, InvariantHolds, PTL
DEF Spec, ImplementsOutcome, Abstract!Spec
=============================================================================
