---------------------------- MODULE EventContents ----------------------------
(***************************************************************************)
(* What the events say: under which key the Event Writer stores an event   *)
(* (field_mapping.py), what is kept of each file in the master's           *)
(* fileStatuses, and the batch completion and batch timeout events made    *)
(* of that (_assemble_batch_event_detail, _assemble_timeout_event).        *)
(* Who publishes when is BatchTracker's subject: here counting and         *)
(* completing are one step, and the timeout is read and published in two.  *)
(***************************************************************************)
EXTENDS Naturals, FiniteSets

CONSTANTS
    Files,      \* the positions in the caller's list of paths; AWS gives each an id
    Paths,      \* the paths
    JobId,      \* the id that Transfer Family returned to the helper
    Init_       \* the sentinel key "_init"

ASSUME IdsAssumption ==
    /\ IsFiniteSet(Files) /\ Files # {}
    /\ JobId \notin Files /\ Init_ \notin Files

VARIABLES
    operation,      \* the kind of the operation
    perFile,        \* its events have a file-transfer-id
    requested,      \* the path at each position
    reported,       \* the file-path of each file's event, "" for none
    statusCode,     \* its status-code, "none" for none
    delivered,      \* the files whose event AWS has delivered
    records,        \* the stored events, with the key and transferId of the item
    fileStatuses,   \* in the master's record: the keys of the map, see FileEntry
    markers,        \* its markers batchEventPublished and batchTimeoutPublished
    expired,        \* the master's record is gone
    reading,        \* the timeout handler has read the record
    seen,           \* and the fileStatuses that it found
    published       \* the batch events

inputs == <<operation, perFile, requested, reported, statusCode>>
master == <<fileStatuses, markers, expired>>
vars == <<inputs, delivered, records, master, reading, seen, published>>

Transfers == {"FileSend", "FileRetrieve"}
Operations == Transfers \union {"DirectoryListing", "RemoteMove", "RemoteDelete"}
StatusCodes == {"COMPLETED", "FAILED", "none"}
None == "none"      \* no transferId
Keys == Files \union {Init_}
Counts == [completed : Nat, failed : Nat, timedOut : Nat]

\* An event lists details of files, and placeholders for positions.
BatchEvents ==
    [type : {"completion"}, status : {"ALL_COMPLETED", "ALL_FAILED", "PARTIAL_FAILURE"},
     fileCount : Nat, counts : Counts, files : SUBSET Files, placeholders : SUBSET Files]
    \union
    [type : {"timeout"}, status : {"TIMED_OUT"},
     fileCount : Nat, counts : Counts, files : SUBSET Files, placeholders : SUBSET Files]

\* The type invariant.
TypeOK ==
    /\ operation \in Operations
    /\ perFile \in BOOLEAN
    /\ requested \in [Files -> Paths]
    /\ reported \in [Files -> Paths \union {""}]
    /\ statusCode \in [Files -> StatusCodes]
    /\ delivered \subseteq Files
    /\ records \subseteq [key : Files \union {JobId}, transferId : {JobId, None}, event : Files]
    /\ fileStatuses \subseteq Keys
    /\ markers \subseteq {"batchEventPublished", "batchTimeoutPublished"}
    /\ expired \in BOOLEAN
    /\ reading \in BOOLEAN
    /\ seen \subseteq Keys
    /\ published \subseteq BatchEvents

\* writeMetadataWithBatchFields stores a sentinel, since DynamoDB must find a map.
Init ==
    /\ operation \in Operations
    /\ perFile \in IF operation \in Transfers THEN BOOLEAN ELSE {FALSE}
    /\ requested \in [Files -> Paths]
    /\ reported \in [Files -> Paths \union {""}]
    /\ statusCode \in [Files -> StatusCodes]
    /\ delivered = {} /\ records = {}
    /\ fileStatuses = {Init_}
    /\ markers = {} /\ expired = FALSE
    /\ reading = FALSE /\ seen = {}
    /\ published = {}

-----------------------------------------------------------------------------
(* The Event Writer.                                                       *)

\* AWS names the operation in a field of its kind.
OwnField ==
    IF operation \in Transfers THEN "transfer-id"
    ELSE IF operation = "DirectoryListing" THEN "listing-id"
    ELSE IF operation = "RemoteMove" THEN "move-id"
    ELSE "delete-id"

\* The ids in an event's detail.
EventIds(f) ==
    [field \in {OwnField} \union (IF perFile THEN {"file-transfer-id"} ELSE {}) |->
        IF field = OwnField THEN JobId ELSE f]

\* OPERATION_MAP: the detail-type names the operation, and so the field.
IdField ==
    [FileSend |-> "transfer-id", FileRetrieve |-> "transfer-id",
     DirectoryListing |-> "listing-id", RemoteMove |-> "move-id", RemoteDelete |-> "delete-id"]

\* Mutant: the event of a file is stored in the item of its transfer.
GetJobIdOfTransfer(ids) == [key |-> ids[IdField[operation]], transferId |-> None]

GetJobId(ids) ==
    IF operation \in Transfers /\ {"file-transfer-id", "transfer-id"} \subseteq DOMAIN ids
    THEN [key |-> ids["file-transfer-id"], transferId |-> ids["transfer-id"]]
    ELSE [key |-> ids[IdField[operation]], transferId |-> None]

\* An event replaces what its item had as eventResult.
StoreEvent(f) ==
    /\ perFile \/ delivered \subseteq {f}
    /\ LET id == GetJobId(EventIds(f))
       IN records' = {r \in records : r.key # id.key} \union
                     {[key |-> id.key, transferId |-> id.transferId, event |-> f]}
    /\ delivered' = delivered \union {f}
    /\ UNCHANGED <<inputs, master, reading, seen, published>>

-----------------------------------------------------------------------------
(* The batch completion event.                                             *)

\* The detail and the entry under a key, which are empty for the sentinel.
StatusCode(k) == IF k = Init_ THEN "none" ELSE statusCode[k]

\* The status of an entry defaults to COMPLETED.
FileEntry(k) ==
    IF k = Init_ THEN [status |-> "", filePath |-> ""]
    ELSE [status |-> IF StatusCode(k) = "none" THEN "COMPLETED" ELSE StatusCode(k),
          filePath |-> reported[k]]

\* Mutant: the sentinel is taken for a file.
RealKeysAll(keys) == keys

\* The entries that stand for files.
RealKeys(keys) == keys \ {Init_}

\* Mutant: one success is taken for all.
DeriveAnyStatus(keys) ==
    IF \E k \in keys : FileEntry(k).status = "COMPLETED" THEN "ALL_COMPLETED" ELSE "ALL_FAILED"

DeriveBatchStatus(keys) ==
    LET statuses == {FileEntry(k).status : k \in keys}
    IN CASE statuses = {"COMPLETED"} -> "ALL_COMPLETED"
         [] statuses = {"FAILED"} -> "ALL_FAILED"
         [] OTHER -> "PARTIAL_FAILURE"

\* The counts are of the status-codes in the details, which may be missing.
CompletedOf(keys) == Cardinality({k \in keys : StatusCode(k) = "COMPLETED"})

AssembleCompletion(keys) ==
    LET files == RealKeys(keys)
        completed == CompletedOf(files)
    IN [type |-> "completion", status |-> DeriveBatchStatus(files),
        fileCount |-> Cardinality(files),
        counts |-> [completed |-> completed, failed |-> Cardinality(files) - completed,
                    timedOut |-> 0],
        files |-> files, placeholders |-> {}]

\* resolvedCount against expectedFiles.
AllResolved(keys) == Files \subseteq keys

\* A joined record with the transfer's id, counted once; the last one completes the batch.
CountFile(f) ==
    /\ ~expired
    /\ \E r \in records : r.event = f /\ r.transferId = JobId
    /\ f \notin fileStatuses
    /\ fileStatuses' = fileStatuses \union {f}
    /\ IF AllResolved(fileStatuses') /\ markers = {}
       THEN /\ markers' = {"batchEventPublished"}
            /\ published' = published \union {AssembleCompletion(fileStatuses')}
       ELSE UNCHANGED <<markers, published>>
    /\ UNCHANGED <<inputs, delivered, records, expired, reading, seen>>

-----------------------------------------------------------------------------
(* The batch timeout event.                                                *)

\* The timeout handler reads the record; without one it works from an empty map.
ReadForTimeout ==
    /\ operation \in Transfers
    /\ ~reading
    /\ reading' = TRUE
    /\ \/ expired /\ seen' = {}
       \/ /\ ~expired /\ markers = {}
          /\ ~AllResolved(fileStatuses)
          /\ seen' = fileStatuses
    /\ UNCHANGED <<inputs, delivered, records, master, published>>

\* Mutant: a placeholder for every position.
AllPositions(keys) == Files

\* The positions whose path no entry reports.
Unresolved(keys) ==
    {p \in Files : requested[p] \notin {FileEntry(k).filePath : k \in RealKeys(keys)}}

AssembleTimeout(keys) ==
    LET files == RealKeys(keys)
        completed == CompletedOf(files)
    IN [type |-> "timeout", status |-> "TIMED_OUT",
        fileCount |-> Cardinality(Files),
        counts |-> [completed |-> completed, failed |-> Cardinality(files) - completed,
                    timedOut |-> Cardinality(Unresolved(keys))],
        files |-> files, placeholders |-> Unresolved(keys)]

\* The marker needs a resolvedCount below the expected one: it has none before the first file.
PublishTimeout ==
    /\ reading
    /\ published' = published \union {AssembleTimeout(seen)}
    /\ reading' = FALSE /\ seen' = {}
    /\ markers' = IF ~expired /\ RealKeys(fileStatuses) # {} /\ ~AllResolved(fileStatuses)
                  THEN markers \union {"batchTimeoutPublished"} ELSE markers
    /\ UNCHANGED <<inputs, delivered, records, fileStatuses, expired>>

\* TTL deletion.
ExpireMaster ==
    /\ ~expired
    /\ expired' = TRUE
    /\ UNCHANGED <<inputs, delivered, records, fileStatuses, markers, reading, seen, published>>

Next ==
    \/ \E f \in Files : StoreEvent(f) \/ CountFile(f)
    \/ ReadForTimeout \/ PublishTimeout \/ ExpireMaster

Spec == Init /\ [][Next]_vars

-----------------------------------------------------------------------------
(* Properties.                                                             *)

\* Whatever the operation: the event of each file is kept, in an item that the id in the
\* helper's response leads to, so that it meets the metadata.
EventsMeetMetadata ==
    \A f \in delivered : \E r \in records : r.event = f /\ JobId \in {r.key, r.transferId}

Unstated == {f \in Files : statusCode[f] = "none"}

\* A completion event has every file of the call and no other entry, and its counts add up.
\* Its status and its counts differ on the files whose event came without a status-code, and
\* on no other: they are completed for the status, and failed for the counts.
CompletionAddsUp ==
    \A e \in published : e.type = "completion" =>
        /\ e.files = Files
        /\ e.counts.completed + e.counts.failed = e.fileCount
        /\ e.fileCount = Cardinality(Files)
        /\ e.status = "ALL_COMPLETED" <=> e.counts.failed = Cardinality(Unstated)
        /\ e.status = "ALL_FAILED" <=> e.counts.completed = 0 /\ Unstated = {}

PathsAsRequested(files) == \A f \in files : reported[f] = requested[f]
DistinctPaths == \A p, q \in Files : requested[p] = requested[q] => p = q

\* If AWS reports the paths as they were requested, each once: a timeout event, the degraded
\* one included, has every file of the call exactly once, resolved or timed out, and its
\* counts add up.  A path that was requested twice makes them fall short.
TimeoutAccountsForAll ==
    \A e \in published : e.type = "timeout" /\ PathsAsRequested(e.files) =>
        LET total == e.counts.completed + e.counts.failed + e.counts.timedOut
        IN /\ total <= e.fileCount
           /\ DistinctPaths => /\ total = e.fileCount
                               /\ e.placeholders = Files \ e.files
=============================================================================
