------------------------ MODULE EventContentsProofs ------------------------
(***************************************************************************)
(* Proofs about EventContents, for any finite set of files, any paths and  *)
(* any results.  The contents of an event depend on the keys it is made of *)
(* and on the inputs, which no step changes; so each property of the       *)
(* published events is a lemma about how they are assembled, and what      *)
(* remains is that an event is made of the right keys.                     *)
(***************************************************************************)
EXTENDS EventContents, FiniteSetTheorems, TLAPS

-----------------------------------------------------------------------------
(* Cardinalities.                                                          *)

\* The numbers of a finite set's elements with a property and without it add up.
LEMMA PartCount ==
    ASSUME NEW S, IsFiniteSet(S), NEW T, T \subseteq S
    PROVE  /\ IsFiniteSet(T)
           /\ Cardinality(S) \in Nat /\ Cardinality(T) \in Nat
           /\ Cardinality(T) <= Cardinality(S)
           /\ Cardinality(S) - Cardinality(T) \in Nat
           /\ Cardinality(S) - Cardinality(T) = 0 <=> T = S
           /\ Cardinality(T) = 0 <=> T = {}
           /\ Cardinality(S \ T) = Cardinality(S) - Cardinality(T)
<1>1. /\ IsFiniteSet(T)
      /\ Cardinality(T) <= Cardinality(S)
      /\ Cardinality(S) = Cardinality(T) => S = T
  BY FS_Subset
<1>2. Cardinality(S) \in Nat /\ Cardinality(T) \in Nat
  BY <1>1, FS_CardinalityType
<1>3. Cardinality(T) = 0 <=> T = {}
  BY <1>1, FS_EmptySet
<1>4. Cardinality(S \ T) = Cardinality(S) - Cardinality(S \intersect T)
  BY FS_Difference
<1>5. S \intersect T = T
  OBVIOUS
<1>6. Cardinality(S \ T) = Cardinality(S) - Cardinality(T)
  BY <1>4, <1>5
<1>7. Cardinality(S) - Cardinality(T) \in Nat
  BY <1>1, <1>2
<1>8. Cardinality(S) - Cardinality(T) = 0 <=> T = S
  <2>1. Cardinality(S) - Cardinality(T) = 0 <=> Cardinality(S) = Cardinality(T)
    BY <1>2
  <2>2. QED
    BY <1>1, <2>1
<1>9. QED
  BY <1>1, <1>2, <1>3, <1>6, <1>7, <1>8

-----------------------------------------------------------------------------
(* The contents of an event.                                               *)

\* The keys that stand for files, how many there are and how many of them completed.
LEMMA KeyCounts ==
    ASSUME TypeOK, NEW K, K \subseteq Keys
    PROVE  /\ RealKeys(K) \subseteq Files /\ IsFiniteSet(RealKeys(K))
           /\ Cardinality(RealKeys(K)) \in Nat /\ CompletedOf(RealKeys(K)) \in Nat
           /\ Cardinality(RealKeys(K)) - CompletedOf(RealKeys(K)) \in Nat
<1>1. RealKeys(K) \subseteq Files
  BY DEF RealKeys, Keys
<1>2. IsFiniteSet(RealKeys(K))
  BY <1>1, FS_Subset, IdsAssumption
<1>3. {k \in RealKeys(K) : StatusCode(k) = "COMPLETED"} \subseteq RealKeys(K)
  OBVIOUS
<1>4. QED
  BY <1>1, <1>2, <1>3, PartCount DEF CompletedOf

\* The placeholders are positions of the call.
LEMMA UnresolvedCount ==
    ASSUME NEW K
    PROVE  Unresolved(K) \subseteq Files /\ Cardinality(Unresolved(K)) \in Nat
<1>1. Unresolved(K) \subseteq Files
  BY DEF Unresolved
<1>2. QED
  BY <1>1, PartCount, IdsAssumption

LEMMA StatusType ==
    ASSUME NEW K
    PROVE  DeriveBatchStatus(K) \in {"ALL_COMPLETED", "ALL_FAILED", "PARTIAL_FAILURE"}
BY DEF DeriveBatchStatus

LEMMA CompletionType ==
    ASSUME TypeOK, NEW K, K \subseteq Keys
    PROVE  AssembleCompletion(K) \in BatchEvents /\ AssembleCompletion(K).type = "completion"
BY KeyCounts, StatusType DEF AssembleCompletion, BatchEvents, Counts

LEMMA TimeoutType ==
    ASSUME TypeOK, NEW K, K \subseteq Keys
    PROVE  AssembleTimeout(K) \in BatchEvents /\ AssembleTimeout(K).type = "timeout"
<1>1. Cardinality(Files) \in Nat
  BY FS_CardinalityType, IdsAssumption
<1>2. QED
  BY <1>1, KeyCounts, UnresolvedCount DEF AssembleTimeout, BatchEvents, Counts

\* The derived status says what the counts say, but for the files without a status-code.
LEMMA StatusAgrees ==
    ASSUME TypeOK
    PROVE  /\ DeriveBatchStatus(Files) = "ALL_COMPLETED"
                  <=> Cardinality(Files) - CompletedOf(Files) = Cardinality(Unstated)
           /\ DeriveBatchStatus(Files) = "ALL_FAILED"
                  <=> CompletedOf(Files) = 0 /\ Unstated = {}
<1> DEFINE completed == {k \in Files : StatusCode(k) = "COMPLETED"}
           others == Files \ completed
           statuses == {FileEntry(k).status : k \in Files}
<1>1. \A k \in Files :
          /\ StatusCode(k) = statusCode[k]
          /\ StatusCode(k) \in {"COMPLETED", "FAILED", "none"}
          /\ FileEntry(k).status = IF StatusCode(k) = "none" THEN "COMPLETED" ELSE StatusCode(k)
  BY IdsAssumption DEF FileEntry, StatusCode, TypeOK, StatusCodes
<1>2. PICK g \in Files : TRUE
  BY IdsAssumption
<1>3. Unstated \subseteq others
  BY <1>1 DEF Unstated
<1>4. statuses = {"COMPLETED"} <=> others = Unstated
  BY <1>1, <1>2 DEF Unstated
<1>5. statuses = {"FAILED"} <=> completed = {} /\ Unstated = {}
  BY <1>1, <1>2 DEF Unstated
<1>6. /\ Cardinality(completed) = 0 <=> completed = {}
      /\ Cardinality(others) = Cardinality(Files) - Cardinality(completed)
      /\ IsFiniteSet(others)
  BY PartCount, FS_Subset, IdsAssumption
<1>7. Cardinality(others) = Cardinality(Unstated) <=> others = Unstated
  BY <1>3, <1>6, FS_Subset
<1>8. /\ DeriveBatchStatus(Files) = "ALL_COMPLETED" <=> statuses = {"COMPLETED"}
      /\ DeriveBatchStatus(Files) = "ALL_FAILED" <=> statuses = {"FAILED"}
  <2>1. {"COMPLETED"} # {"FAILED"}
    OBVIOUS
  <2>2. QED
    BY <2>1 DEF DeriveBatchStatus
<1>9. CompletedOf(Files) = Cardinality(completed)
  BY DEF CompletedOf
<1> HIDE DEF completed, others, statuses
<1>10. QED
  BY <1>4, <1>5, <1>6, <1>7, <1>8, <1>9

\* A completion event made of all files adds up.
LEMMA CompletionContents ==
    ASSUME TypeOK, NEW K, K \subseteq Keys, AllResolved(K), NEW e, e = AssembleCompletion(K)
    PROVE  /\ e.files = Files
           /\ e.counts.completed + e.counts.failed = e.fileCount
           /\ e.fileCount = Cardinality(Files)
           /\ e.status = "ALL_COMPLETED" <=> e.counts.failed = Cardinality(Unstated)
           /\ e.status = "ALL_FAILED" <=> e.counts.completed = 0 /\ Unstated = {}
<1>1. RealKeys(K) = Files
  BY IdsAssumption DEF RealKeys, Keys, AllResolved
<1>2. /\ e.files = Files /\ e.fileCount = Cardinality(Files)
      /\ e.status = DeriveBatchStatus(Files)
      /\ e.counts.completed = CompletedOf(Files)
      /\ e.counts.failed = Cardinality(Files) - CompletedOf(Files)
  BY <1>1 DEF AssembleCompletion
<1>3. Cardinality(Files) \in Nat /\ CompletedOf(Files) \in Nat
  BY <1>1, KeyCounts
<1>4. e.counts.completed + e.counts.failed = e.fileCount
  BY <1>2, <1>3
<1>5. QED
  BY <1>2, <1>4, StatusAgrees

\* A timeout event made of any keys accounts for every position.
LEMMA TimeoutContents ==
    ASSUME TypeOK, NEW K, K \subseteq Keys, NEW e, e = AssembleTimeout(K),
           PathsAsRequested(e.files)
    PROVE  LET total == e.counts.completed + e.counts.failed + e.counts.timedOut
           IN /\ total <= e.fileCount
              /\ DistinctPaths => /\ total = e.fileCount
                                  /\ e.placeholders = Files \ e.files
<1> DEFINE files == RealKeys(K)
<1>1. /\ e.files = files /\ e.fileCount = Cardinality(Files)
      /\ e.placeholders = Unresolved(K)
      /\ e.counts.completed = CompletedOf(files)
      /\ e.counts.failed = Cardinality(files) - CompletedOf(files)
      /\ e.counts.timedOut = Cardinality(Unresolved(K))
  BY DEF AssembleTimeout
<1>2. /\ files \subseteq Files
      /\ Cardinality(files) \in Nat /\ CompletedOf(files) \in Nat
  BY KeyCounts
<1>3. e.counts.completed + e.counts.failed + e.counts.timedOut
          = Cardinality(files) + Cardinality(Unresolved(K))
  BY <1>1, <1>2, UnresolvedCount
<1>4. \A k \in files : FileEntry(k).filePath = requested[k]
  BY <1>1, <1>2, IdsAssumption DEF FileEntry, PathsAsRequested
<1>5. Unresolved(K) \subseteq Files \ files
  BY <1>4 DEF Unresolved
<1>6. /\ IsFiniteSet(Files \ files)
      /\ Cardinality(Files \ files) = Cardinality(Files) - Cardinality(files)
      /\ Cardinality(Files) \in Nat
  BY <1>2, PartCount, FS_Difference, IdsAssumption
<1>7. Cardinality(Unresolved(K)) <= Cardinality(Files \ files)
  BY <1>5, <1>6, FS_Subset
<1>8. DistinctPaths => Unresolved(K) = Files \ files
  BY <1>2, <1>4, <1>5 DEF Unresolved, DistinctPaths
<1>9. Cardinality(Unresolved(K)) \in Nat
  BY UnresolvedCount
<1>10. Cardinality(files) + Cardinality(Unresolved(K)) <= Cardinality(Files)
  BY <1>2, <1>6, <1>7, <1>9
<1>11. DistinctPaths => Cardinality(files) + Cardinality(Unresolved(K)) = Cardinality(Files)
  BY <1>2, <1>6, <1>8, <1>9
<1>12. QED
  BY <1>1, <1>3, <1>8, <1>10, <1>11

-----------------------------------------------------------------------------
(* The inductive invariant.                                                *)

\* An event with a file-transfer-id has an item of its own, any other the item of the
\* operation, of which there is one event only.
RecordsInv ==
    /\ perFile => operation \in Transfers
    /\ ~perFile => \A f, g \in delivered : f = g
    /\ \A r \in records :
           IF perFile THEN r.key = r.event /\ r.transferId = JobId
           ELSE r.key = JobId /\ r.transferId = None

IInv ==
    /\ TypeOK
    /\ RecordsInv
    /\ EventsMeetMetadata
    /\ CompletionAddsUp
    /\ TimeoutAccountsForAll

LEMMA InitInv == Init => IInv
<1> SUFFICES ASSUME Init PROVE IInv
  OBVIOUS
<1>1. TypeOK
  BY DEF Init, TypeOK, Keys
<1>2. RecordsInv /\ EventsMeetMetadata
  BY DEF Init, RecordsInv, EventsMeetMetadata
<1>3. CompletionAddsUp /\ TimeoutAccountsForAll
  BY DEF Init, CompletionAddsUp, TimeoutAccountsForAll
<1>4. QED
  BY <1>1, <1>2, <1>3 DEF IInv

\* The key and the transferId of a stored event.
LEMMA StoredUnder ==
    ASSUME TypeOK, RecordsInv, NEW f \in Files
    PROVE  GetJobId(EventIds(f)) = IF perFile THEN [key |-> f, transferId |-> JobId]
                                   ELSE [key |-> JobId, transferId |-> None]
<1>1. CASE perFile
  <2>1. operation \in Transfers
    BY <1>1 DEF RecordsInv
  <2>2. /\ DOMAIN EventIds(f) = {"transfer-id"} \union {"file-transfer-id"}
        /\ EventIds(f)["transfer-id"] = JobId
        /\ EventIds(f)["file-transfer-id"] = f
    <3>1. OwnField = "transfer-id"
      BY <2>1 DEF OwnField
    <3>2. QED
      BY <1>1, <3>1 DEF EventIds
  <2>3. {"file-transfer-id", "transfer-id"} \subseteq DOMAIN EventIds(f)
    BY <2>2
  <2>4. QED
    BY <1>1, <2>1, <2>2, <2>3 DEF GetJobId
<1>2. CASE ~perFile
  <2>1. CASE operation \in Transfers
    <3>1. DOMAIN EventIds(f) = {"transfer-id"} /\ EventIds(f)["transfer-id"] = JobId
      <4>1. OwnField = "transfer-id"
        BY <2>1 DEF OwnField
      <4>2. QED
        BY <1>2, <4>1 DEF EventIds
    <3>2. "file-transfer-id" \notin DOMAIN EventIds(f)
      BY <3>1
    <3>3. EventIds(f)[IdField[operation]] = JobId
      BY <2>1, <3>1 DEF IdField, Transfers
    <3>4. QED
      BY <1>2, <3>2, <3>3 DEF GetJobId
  <2>2. CASE operation \notin Transfers
    <3>1. operation \in {"DirectoryListing", "RemoteMove", "RemoteDelete"}
      BY <2>2 DEF TypeOK, Operations
    <3>2. EventIds(f)[IdField[operation]] = JobId
      <4>1. IdField[operation] = OwnField
        BY <2>2, <3>1 DEF IdField, OwnField
      <4>2. QED
        BY <1>2, <4>1 DEF EventIds
    <3>3. QED
      BY <1>2, <2>2, <3>2 DEF GetJobId
  <2>3. QED
    BY <2>1, <2>2
<1>3. QED
  BY <1>1, <1>2

\* A step that publishes nothing keeps what holds of the published events.
LEMMA PublishedSame ==
    ASSUME CompletionAddsUp, TimeoutAccountsForAll, UNCHANGED inputs, UNCHANGED published
    PROVE  CompletionAddsUp' /\ TimeoutAccountsForAll'
BY DEF CompletionAddsUp, TimeoutAccountsForAll, Unstated, PathsAsRequested,
       DistinctPaths, inputs

LEMMA StoreEventStep ==
    ASSUME IInv, NEW f \in Files, StoreEvent(f)
    PROVE  IInv'
<1> DEFINE key == IF perFile THEN f ELSE JobId
           new == [key |-> key, transferId |-> IF perFile THEN JobId ELSE None, event |-> f]
<1>1. /\ records' = {r \in records : r.key # key} \union {new}
      /\ delivered' = delivered \union {f}
      /\ perFile \/ delivered \subseteq {f}
      /\ UNCHANGED inputs /\ UNCHANGED master /\ UNCHANGED <<reading, seen>>
      /\ UNCHANGED published
  <2>1. /\ GetJobId(EventIds(f)).key = key
        /\ GetJobId(EventIds(f)).transferId = IF perFile THEN JobId ELSE None
    BY StoredUnder DEF IInv
  <2>2. QED
    BY <2>1 DEF StoreEvent
<1>2. TypeOK'
  <2>1. new \in [key : Files \union {JobId}, transferId : {JobId, None}, event : Files]
    OBVIOUS
  <2>2. QED
    BY <1>1, <2>1 DEF IInv, TypeOK, inputs, master
<1>3. RecordsInv'
  <2>1. new.key = key /\ new.event = f /\ new.transferId = IF perFile THEN JobId ELSE None
    OBVIOUS
  <2>2. \A r \in records' :
            IF perFile THEN r.key = r.event /\ r.transferId = JobId
            ELSE r.key = JobId /\ r.transferId = None
    BY <1>1, <2>1 DEF IInv, RecordsInv
  <2>3. ~perFile => \A g, h \in delivered' : g = h
    BY <1>1
  <2>4. QED
    BY <1>1, <2>2, <2>3 DEF IInv, RecordsInv, inputs
<1>4. EventsMeetMetadata'
  <2> SUFFICES ASSUME NEW g \in delivered'
               PROVE  \E r \in records' : r.event = g /\ JobId \in {r.key, r.transferId}
    BY DEF EventsMeetMetadata
  <2>1. CASE g = f
    <3>1. new \in records' /\ new.event = g /\ JobId \in {new.key, new.transferId}
      BY <1>1, <2>1
    <3>2. QED
      BY <3>1
  <2>2. CASE g # f
    <3>1. g \in delivered /\ perFile
      BY <1>1, <2>2
    <3>2. PICK r \in records : r.event = g /\ JobId \in {r.key, r.transferId}
      BY <3>1 DEF IInv, EventsMeetMetadata
    <3>3. r.key = g
      BY <3>1, <3>2 DEF IInv, RecordsInv
    <3>4. r \in records'
      BY <1>1, <2>2, <3>1, <3>2, <3>3
    <3>5. QED
      BY <3>2, <3>4
  <2>3. QED
    BY <2>1, <2>2
<1>5. CompletionAddsUp' /\ TimeoutAccountsForAll'
  BY <1>1, PublishedSame DEF IInv
<1>6. QED
  BY <1>2, <1>3, <1>4, <1>5 DEF IInv

\* The records and the delivered events stay.
LEMMA RecordsSame ==
    ASSUME RecordsInv, EventsMeetMetadata, UNCHANGED inputs, UNCHANGED <<delivered, records>>
    PROVE  RecordsInv' /\ EventsMeetMetadata'
BY DEF RecordsInv, EventsMeetMetadata, inputs

LEMMA CountFileStep ==
    ASSUME IInv, NEW f \in Files, CountFile(f)
    PROVE  IInv'
<1> DEFINE keys == fileStatuses \union {f}
           completes == AllResolved(keys) /\ markers = {}
           new == AssembleCompletion(keys)
<1>1. /\ fileStatuses' = keys
      /\ completes => published' = published \union {new} /\ markers' = {"batchEventPublished"}
      /\ ~completes => UNCHANGED <<published, markers>>
      /\ UNCHANGED inputs /\ UNCHANGED <<delivered, records, expired, reading, seen>>
  BY DEF CountFile
<1>2. keys \subseteq Keys
  BY DEF IInv, TypeOK, Keys
<1>3. RecordsInv' /\ EventsMeetMetadata'
  BY <1>1, RecordsSame DEF IInv
<1>4. new \in BatchEvents /\ new.type = "completion"
  BY <1>2, CompletionType DEF IInv
<1>5. TypeOK'
  BY <1>1, <1>2, <1>4 DEF IInv, TypeOK, inputs
<1>6. CASE completes
  <2>1. /\ new.files = Files
        /\ new.counts.completed + new.counts.failed = new.fileCount
        /\ new.fileCount = Cardinality(Files)
        /\ new.status = "ALL_COMPLETED" <=> new.counts.failed = Cardinality(Unstated)
        /\ new.status = "ALL_FAILED" <=> new.counts.completed = 0 /\ Unstated = {}
    BY <1>2, <1>6, CompletionContents DEF IInv
  <2> HIDE DEF new
  <2>2. CompletionAddsUp'
    BY <1>1, <1>6, <2>1 DEF IInv, CompletionAddsUp, Unstated, inputs
  <2>3. TimeoutAccountsForAll'
    BY <1>1, <1>4, <1>6
       DEF IInv, TimeoutAccountsForAll, PathsAsRequested, DistinctPaths, inputs
  <2>4. QED
    BY <1>3, <1>5, <2>2, <2>3 DEF IInv
<1>7. CASE ~completes
  BY <1>1, <1>3, <1>5, <1>7, PublishedSame DEF IInv
<1>8. QED
  BY <1>6, <1>7

LEMMA PublishTimeoutStep ==
    ASSUME IInv, PublishTimeout
    PROVE  IInv'
<1> DEFINE new == AssembleTimeout(seen)
<1>1. /\ published' = published \union {new}
      /\ reading' = FALSE /\ seen' = {}
      /\ markers' \subseteq markers \union {"batchTimeoutPublished"}
      /\ UNCHANGED inputs /\ UNCHANGED <<delivered, records, fileStatuses, expired>>
  BY DEF PublishTimeout
<1>2. seen \subseteq Keys
  BY DEF IInv, TypeOK
<1>3. RecordsInv' /\ EventsMeetMetadata'
  BY <1>1, RecordsSame DEF IInv
<1>4. new \in BatchEvents /\ new.type = "timeout"
  BY <1>2, TimeoutType DEF IInv
<1>5. TypeOK'
  <2>1. markers' \subseteq {"batchEventPublished", "batchTimeoutPublished"}
    BY <1>1 DEF IInv, TypeOK
  <2>2. QED
    BY <1>1, <1>4, <2>1 DEF IInv, TypeOK, inputs
<1>6. PathsAsRequested(new.files) =>
          LET total == new.counts.completed + new.counts.failed + new.counts.timedOut
          IN /\ total <= new.fileCount
             /\ DistinctPaths => /\ total = new.fileCount
                                 /\ new.placeholders = Files \ new.files
  BY <1>2, TimeoutContents DEF IInv
<1> HIDE DEF new
<1>7. CompletionAddsUp'
  BY <1>1, <1>4 DEF IInv, CompletionAddsUp, Unstated, inputs
<1>8. TimeoutAccountsForAll'
  BY <1>1, <1>6 DEF IInv, TimeoutAccountsForAll, PathsAsRequested, DistinctPaths, inputs
<1>9. QED
  BY <1>3, <1>5, <1>7, <1>8 DEF IInv

LEMMA NextInv == IInv /\ [Next]_vars => IInv'
<1> SUFFICES ASSUME IInv, [Next]_vars PROVE IInv'
  OBVIOUS
<1>1. ASSUME NEW f \in Files, StoreEvent(f) PROVE IInv'
  BY <1>1, StoreEventStep
<1>2. ASSUME NEW f \in Files, CountFile(f) PROVE IInv'
  BY <1>2, CountFileStep
<1>3. CASE ReadForTimeout
  <2>1. RecordsInv' /\ EventsMeetMetadata'
    BY <1>3, RecordsSame DEF IInv, ReadForTimeout
  <2>2. CompletionAddsUp' /\ TimeoutAccountsForAll'
    BY <1>3, PublishedSame DEF IInv, ReadForTimeout
  <2>3. TypeOK'
    <3>1. seen' \subseteq Keys /\ reading' = TRUE
      BY <1>3 DEF IInv, TypeOK, ReadForTimeout
    <3>2. QED
      BY <1>3, <3>1 DEF IInv, TypeOK, ReadForTimeout, inputs, master
  <2>4. QED
    BY <2>1, <2>2, <2>3 DEF IInv
<1>4. CASE PublishTimeout
  BY <1>4, PublishTimeoutStep
<1>5. CASE ExpireMaster
  <2>1. RecordsInv' /\ EventsMeetMetadata'
    BY <1>5, RecordsSame DEF IInv, ExpireMaster
  <2>2. CompletionAddsUp' /\ TimeoutAccountsForAll'
    BY <1>5, PublishedSame DEF IInv, ExpireMaster
  <2>3. TypeOK'
    BY <1>5 DEF IInv, TypeOK, ExpireMaster, inputs
  <2>4. QED
    BY <2>1, <2>2, <2>3 DEF IInv
<1>6. CASE UNCHANGED vars
  <2>1. RecordsInv' /\ EventsMeetMetadata'
    BY <1>6, RecordsSame DEF IInv, vars
  <2>2. CompletionAddsUp' /\ TimeoutAccountsForAll'
    BY <1>6, PublishedSame DEF IInv, vars
  <2>3. TypeOK'
    BY <1>6 DEF IInv, TypeOK, vars, inputs, master
  <2>4. QED
    BY <2>1, <2>2, <2>3 DEF IInv
<1>7. QED
  BY <1>1, <1>2, <1>3, <1>4, <1>5, <1>6 DEF Next

-----------------------------------------------------------------------------
(* The theorems.                                                           *)

LEMMA Invariance == Spec => []IInv
<1>1. Init => IInv
  BY InitInv
<1>2. IInv /\ [Next]_vars => IInv'
  BY NextInv
<1>3. QED
  BY <1>1, <1>2, PTL DEF Spec

\* Every variable stays in its type; in particular no event lists the sentinel as a file.
THEOREM TypeCorrect == Spec => []TypeOK
<1>1. IInv => TypeOK
  BY DEF IInv
<1>2. QED
  BY <1>1, Invariance, PTL

\* The Event Writer stores every event where the helper's id leads to, and none over another.
THEOREM EventsAreFound == Spec => []EventsMeetMetadata
<1>1. IInv => EventsMeetMetadata
  BY DEF IInv
<1>2. QED
  BY <1>1, Invariance, PTL

\* A completion event covers the call, and its counts and its status agree
\* on every file whose event states a status.
THEOREM CompletionIsConsistent == Spec => []CompletionAddsUp
<1>1. IInv => CompletionAddsUp
  BY DEF IInv
<1>2. QED
  BY <1>1, Invariance, PTL

\* A timeout event accounts for every file when the paths are reported as requested.
THEOREM TimeoutIsConsistent == Spec => []TimeoutAccountsForAll
<1>1. IInv => TimeoutAccountsForAll
  BY DEF IInv
<1>2. QED
  BY <1>1, Invariance, PTL
=============================================================================
