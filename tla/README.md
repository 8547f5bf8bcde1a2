# A verification of sftp-connector-helper

The library correlates AWS Transfer Family *SFTP connector* operations with business
metadata.  A caller starts an operation through the Java helper, which records the
metadata in a DynamoDB table; AWS later emits events about the operation; two Lambda
functions bring the two together and publish *enriched* events on a custom bus.  For a
transfer of several files it can also publish one event for the whole transfer, or a
timeout event when files stay missing.

This directory holds TLA+ modules translated from the source, the configurations that
model-check them, and proofs about them.

## The system

### Components

| Component | State it keeps | Operations |
|---|---|---|
| Java helper (`helpers/java`) | none of its own | `startFileTransfer`, `startDirectoryListing`, `startRemoteMove`, `startRemoteDelete`: check arguments, call Transfer Family, then write the metadata record under the returned job id |
| Correlation table (DynamoDB) | one item per job: `metadata`, `eventResult`, `transferId`, `ttl`; a *master* item also `emissionMode`, `expectedFiles`, `fileStatuses`, `resolvedCount`, `batchEventPublished`, `batchTimeoutPublished`, `batchTimeoutScheduled` | conditional and unconditional updates, consistent and eventually consistent reads, an eventually consistent index on `transferId`, a stream of item images, TTL deletion |
| Event Writer (`lambdas/event-writer`) | none | stores an AWS event as `eventResult` of its job; a file of a multi-file transfer gets an item of its own, under its file-transfer-id, that names the transfer |
| Joiner, dispatch (`lambdas/joiner/handler.py`) | none | per stream record: orphan check on REMOVE, loop prevention, metadata copy or fan-out, completeness, individual event, batch tracking; per SQS message: timeout |
| Joiner, metadata copy (`metadata_copy.py`) | none | a per-file record pulls the metadata from the master, the master's INSERT pushes it to the per-file records the index shows |
| Joiner, batch tracking (`file_transfer_mgmt.py`) | attributes of the master item | count a file once, detect the last one, mark the batch and publish it; reconcile the files that were there before the master |
| Joiner, batch timeout (`batch_timeout.py`) | the marker attributes, the message in the timeout queue | schedule, hop, fire |
| Joiner, orphan detection (`orphan_detection.py`) | none | alert on an expired item that was never joined |
| Delivery (`cdk/.../construct.py`) | stream position, queue | stream Pipe (batches of 4, 3 retries, DLQ), timeout queue (3 receives, DLQ), event rule (2 retries, DLQ) |

They interact through the table (each write may produce a stream record, which invokes
the Joiner), through the timeout queue (the Joiner sends to itself) and through the
custom bus.  Nothing calls anything else directly.

### What is hard

* **Interleaving.**  Stream records of different items, the fan-out of the master record
  and timeout messages run in concurrent invocations that update one master item.
* **Redelivery.**  A record is handled again from the start after any failure, its own or
  that of a neighbour in its batch; a message may be delivered twice.  Every handler must
  cope with its own earlier half.
* **Order of marker and event.**  A marker and a put on the bus cannot be atomic: the
  completion path marks first, the timeout path publishes first.
* **Absent attributes and stale reads.**  `resolvedCount` does not exist before the first
  file; some reads are eventually consistent.
* **Expiry.**  Items disappear, the master an hour after the others, at any time between two steps of a
  handler; an update that comes later creates an item anew.

What makes each component correct:

* *Batch tracking*: a file is counted once; the batch is completed when and only when all
  files are counted; at most one completion event, over all files; a record marked as timed
  out is not completed; the last file is not forgotten.
* *Batch timeout*: never early, never reports a transfer whose files are all resolved,
  and a transfer with a missing file does not end in silence, unless EventBridge rejects the event.
* *Metadata copy*: whichever of event and metadata comes first, each file is joined and its
  individual event published; nothing is published for ever in a loop.
* *Orphan detection*: an alert for an item that was never joined and for no other.
* *Records*: none stays for ever but the marker of a late batch event, and those that a late handler
  needs are still there.
* *Java helper*: a caller that gets a normal result has its metadata stored, one whose arguments
  are rejected has not.
* *Events*: they are stored where the helper's id leads to; the batch events account for
  every file of the call.

`PROJECT.json` lists the hazards with their lines.

## Modules

| Module | What it is |
|---|---|
| `BatchOutcome` | abstract specification: files counted once each; one final mark, `completed` over all files or `timedOut` over some |
| `BatchTracker` | batch tracking of one transfer by all the workers that touch its master record, one action per call; implements `BatchOutcome` |
| `MCBatchTracker` | the instance for TLC |
| `BatchTrackerProofs` | the proofs |
| `JoinOutcome` | abstract specification: metadata written once to the master, copied from it to items that have their event, individual events only where both are |
| `MetadataJoin` | the items of one operation, their stream records and the Joiner's handling of each record: dispatch, copy, fan-out, publication; implements `JoinOutcome` |
| `MCMetadataJoin` | the instance for TLC |
| `MetadataJoinProofs` | the proofs |
| `DelayedCall` | abstract specification: one call asked for, due at a time, with a deadline that only a failure moves |
| `TimeoutQueue` | a transfer's timeout from the master's stream record over the hops of its message to the moment it fires, with a clock; implements `DelayedCall` |
| `MCTimeoutQueue` | the instance for TLC |
| `TimeoutQueueProofs` | the proofs |
| `RecordLifecycle` | one operation's records from the helper's call to their expiry, with a clock: what the caller learns, ttl, late handlers, orphan detection; implements `JoinOutcome` too |
| `MCRecordLifecycle` | the instance for TLC |
| `RecordLifecycleProofs` | the proofs |
| `EventContents` | the key of a stored event, and the contents of the batch events |
| `MCEventContents` | the instance for TLC |
| `EventContentsProofs` | the proofs |

The systems meet at these points.  `BatchTracker`'s `ScheduleBatchTimeout` is `TimeoutQueue`'s
scheduling, and a timer may start to run once it is done, where `TimeoutQueue` fires.
`TimeoutQueue`'s `FanOut`, and `BatchTracker`'s `QueryItems`, stand for the fan-out that
`MetadataJoin` has in full.  `MetadataJoin` counts a file in one step, which `BatchTracker` takes
apart.  `RecordLifecycle` runs the whole chain on a clock of hours; it takes apart only those
handlers whose record may expire between two of their calls.  That its one-step join and the
detailed one of `MetadataJoin` do the same is what their common abstract specification `JoinOutcome`
says: both are proved to implement it.  `EventContents` has the data that the others abstract from.

### BatchTracker and the code

State: the attributes of the master item (`emissionMode`, `live`, `fileStatuses` without
its `_init` sentinel, `resolvedCount` with 0 for "absent", the two markers), which keep their last values
when it expires; `remnant`, the item of an event marker alone that an update may create after that; for each
worker the call it makes next (`pc`) and the file map it last read (`seen`); for the
fan-out its remaining items; the deliveries of each input; the history `puts` of all
`put_events` entries, accepted or rejected.

A *worker* is an invocation that handles one input: a per-file record with both fields (named by its
file), the INSERT of the master record (`FanOut`), or a timeout message (`Timers`), which is idle
until the fan-out has returned and its handler has sent it.  Between two calls to DynamoDB or
EventBridge other workers may run.

| Action | Code |
|---|---|
| `DeliverFile`, `AnnounceFile` | `_process_record`, from the completeness check on: read the master, publish the file's own event if the mode allows |
| `CountFile` | the conditional counting update of `process_file_completion` and the guard on its `ALL_NEW` answer |
| `RereadMaster` | the consistent read after a duplicate, and after the last reconciled item, with the guard |
| `QueryItems`, `ReconcileFile`, `AnnounceReconciled` | the fan-out's query and the loop of `reconcile_existing_files` |
| `ScheduleBatchTimeout` | `schedule_batch_timeout`, after the fan-out: one message or, on a redelivery or by duplication, more |
| `CountRefused` | the counting update of a record that has expired: an invalid path, which no handler catches |
| `MarkBatchPublished`, `PublishBatch` | the rest of `_check_and_publish_batch`: conditional marker (of a missing item too), then the event |
| `ReadAtFireTime`, `PublishDegraded`, `PublishTimeout`, `MarkTimeoutPublished` | the fire path of `process_timeout_message` |
| `Fail` | any failure of an invocation, or of a neighbour in its batch, or a duplicated message: redelivery or DLQ |
| `ExpireMaster` | TTL deletion of the master item, whatever is in flight |

Besides `Fail`, single calls fail where the code treats that specially: a rejected
`put_events` entry is only logged; an error of the reconciliation's update or of the timeout
marker is swallowed; and the answer to a conditional write may be lost, in which case the
SDK sends it again and meets its own first attempt.

Abstractions: a file is identified with its file-transfer-id; statuses and payloads are left out;
the query returns any set of items (the index is eventually consistent); an individual-events-only
transfer has no batch fields and never gets here; whether the caller asked for a timeout is not
asked, since a message need not ever be received in the safety runs, and the liveness properties are
about the transfers with one.

Two things that the code does and that the properties of the batch runs name as exceptions:

* A worker that has seen the last file counted and then sets `batchEventPublished` on a record that
  has expired meanwhile: `attribute_not_exists` holds for a missing item, so the update creates one
  (`remnant`) and the event goes out, even if the record was marked before it expired
  (`AtMostOneCompletion`, `NoCompletionAfterTimeoutMarker`).
* An entry that `put_events` rejects: `publish.py:106` logs it and returns, and
  `batch_timeout.py:103` then sets the marker.  The comment at `batch_timeout.py:98` calls this
  order "(at-least-once)"; it is so for a crash, but after a rejected entry the handler goes on as
  if it had been accepted, and nothing sends it again (`NoSilentTimeout`, `MissingFileIsReported`).

### MetadataJoin and the code

State: for each item the attributes it has (`item`), its stream as a sequence of old and new
images (`log`), the record to be handled next, its delivery count and where its handling stands
(`next`, `attempt`, `pc`).  For the fan-out, the items its query returned and what is left of
them.  Histories: `counted`, `published`, `lost`, the items on which a failure
was final (DLQ, or an error that the code only logs), and `missed`, the files that a lagging read did
not show although they, or the master they needed, were written.

| Action | Code |
|---|---|
| `WriteMetadata` | `writeMetadata` and `writeMetadataWithBatchFields` of the helper |
| `StoreEvent` | the Event Writer's `update_item`; AWS delivers an event up to `MaxEvents` times |
| `StartRecord` | `_process_record` up to the branch taken: loop prevention (`AlreadyHandled`), `_metadata_copy_dispatch` and the completeness check (`Route`) |
| `ReadMaster`, `CopyMetadata` | `copy_metadata_from_master` |
| `QueryFiles`, `FanOutTo`, `FanOutDone` | `fan_out_metadata_to_per_file_records` |
| `ReconcileFile` | one turn of the loop in `reconcile_existing_files` |
| `PublishJoined`, `CountJoined` | the rest of `_process_record`: the individual event, then `process_file_completion` |
| `Fail` (`RetryBatch`, `GiveUpBatch`) | an invocation fails: the Pipe delivers its batch again, which is up to four records of any items, those handled already included, or gives up what is left of it |

An image is the set of the attributes the Joiner's branches look at.  `operation` tells a multi-file
transfer (metadata on the master item, events on the files' items) from the other operations (both
on one item).  An update that changes nothing has no stream record.  Records of one item are handled
in order, those of different items in any interleaving.  With `StaleReads` the pull may miss the
master and the query may return old index entries or none, and `missed` tells for which files;
without it both see every earlier write.  Left out: metadata that is no JSON object (it is reported
by a metric and goes no further), expiry, and the batch markers.

`PublishedOnce` says what the code achieves, which is less than one might wish: with batch fields on the
master, an item that was there before the master's record is published by the reconciliation *and* by its
own stream record once the copy has made it complete; and a failure may repeat both, since a
batch with the master's record and the file's is retried as a whole.  The
integration test `MultiFileTransferIT.java:396` counts one individual event per file and meets
only the usual order, metadata first.

### TimeoutQueue and the code

State: a clock (`now`, in ticks), where the handling of the master's stream record stands (`pc`,
`attempt`), the marker `batchTimeoutScheduled`, and for each place in the queue whether it holds a
message, whether the message is delayed, received or done with, when it becomes visible and how
often it was received.  Histories: when the first message was due, and how many failures may have
left a second message.

| Action | Code |
|---|---|
| `FanOut` | the fan-out that `_metadata_copy_dispatch` makes before it schedules |
| `CheckScheduled`, `SendTimeout`, `MarkScheduled` | the three calls of `schedule_batch_timeout` |
| `Receive`, `Delete` | the SQS event source |
| `Hop`, `Fire` | the two branches of `process_timeout_message` |
| `FailRecord` | the Joiner's invocation fails between any two calls, or its batch does later: the Pipe delivers again, or gives up |
| `FailMessage`, `Duplicate` | a handler or a deletion fails, and the message shows up after the visibility timeout or goes to the DLQ; SQS delivers twice, or the SDK sends twice |
| `Tick` | time passes, but no visible message waits longer than `Lag` |

Handlers take no time, which is small against a tick of minutes.  All handlers read the same
clock; retention (24 hours) and the age limit of stream records are not reached, since every
hop is a new message of at most 900 seconds.

### RecordLifecycle and the code

State: a clock in ticks of about an hour (`now`); how the call went (`caller`, `running`); the
attributes of each record and its `ttl`; the REMOVE records to be handled; the files counted; the
events and alerts sent; what the handler of each record has yet to do (`handling`), and whether the timeout
message was sent.  Histories: when each record's event was stored and when it was joined.

| Action | Code |
|---|---|
| `StartOperation` | the call to Transfer Family: refused, accepted, or accepted without an answer (the caller sees `SdkException`) or without an id (`IllegalStateException`) |
| `RejectTimeout` | the check of `batchTimeout` against the record's lifetime, made after the transfer was started |
| `WriteMetadata`, `AbandonWrite` | the conditional write, its retry by the SDK, and its failures |
| `StoreEvent`, `CopyMetadata` | Event Writer and metadata copy, one step each |
| `HandleJoined`, `CountJoined`, `MarkBatch` | what follows the join: the read of the master with the individual event, the counting update, the marker with the batch event |
| `ScheduleTimeout` | `schedule_batch_timeout` at the end of the fan-out |
| `FireTimeout`, `MarkTimeout` | the fire path of `process_timeout_message`: the guard's read with the event, which may be the degraded one, and the marker |
| `FailHandler` | a handler ends half-way and is delivered again |
| `Expire` | TTL deletion, some time after the ttl |
| `DetectOrphan` | `detect_orphan`: its branches (`OrphanType`), the index query, the swallowed failure of the alert, and the redelivery for a neighbour's sake |
| `Tick` | time passes, once the call is over |

A handler runs no later than the Pipe keeps its stream record (`MaxAge`), AWS repeats an event no
later than `EventAge`, a timeout message is at most `Lag` late.  A record may expire between any two steps of a
handler, and handlers interleave, but one handler ends within the tick it began in (a tick is an
hour, an invocation ends after minutes at most).  The mode `single` stands for every
operation with one record.

`OnlyAMarkerStays` says what becomes of the updates without a ttl.  Copies, the markers of the
timeout and repeated events do not leave a record behind; the update of `batchEventPublished` does,
when the master expired after the last file was counted, and DynamoDB never deletes that item.  It
takes a file whose event came when the master was about to expire.

Two disagreements that have no run of their own.  `orphan_detection.py:91` says "Skip orphan alert if timeout
event was already published", and looks at the marker: when the timeout fired before any file was
counted the event was published and the marker is missing (the finding of `batch_timeout_final`), so
the alert is sent all the same.  `UnmatchedIsReported` therefore asks for an alert only where no timeout event
went out.  The other: after a lost answer the caller gets
`MetadataWriteException` though the metadata is stored, against its javadoc's "metadata correlation will not be
available"; `CallerLearnsTheTruth` holds since a caller can tell this case by the exception's message.

What the module showed besides: the third branch of `detect_orphan` (metadata and
`transferId` without an event) is never taken, since a copy is only made to an item that has its
event.

### EventContents and the code

State: the inputs, which do not change (the operation, whether its events have a
`file-transfer-id`, the path requested at each position, path and status-code of each file's
event); the stored events with key and `transferId`; the keys of `fileStatuses`, with the
sentinel; the markers; what the timeout handler read; the batch events.

| Action or operator | Code |
|---|---|
| `StoreEvent`, `GetJobId`, `IdField` | the Event Writer's `lambda_handler`, `get_job_id`, `OPERATION_MAP` |
| `CountFile`, `FileEntry` | `process_file_completion`, which ends with the completion event |
| `AssembleCompletion`, `DeriveBatchStatus`, `CompletedOf` | `_assemble_batch_event_detail` |
| `ReadForTimeout`, `PublishTimeout` | the fire path of `process_timeout_message` |
| `AssembleTimeout`, `Unresolved` | `_assemble_timeout_event` |
| `ExpireMaster` | TTL deletion |

A file's details and entry follow from its event, so the map is its set of keys.  The order of the
`files` in an event, connector id, direction and metadata are left out.  Failures between the calls are
in `BatchTracker`.

Without a `status-code` a file has the status `COMPLETED` and counts as failed (`ALL_COMPLETED` with
`failed-count` 1): `CompletionAddsUp` says that status and counts differ on these files and on no
other.  `TimeoutAccountsForAll` has two conditions because the code does not meet it otherwise.  A
path requested twice gets no placeholder once one of its files is resolved, and a path that AWS
reports differently has a placeholder besides its result, so the counts of a timeout event fall
short of `file-count` or exceed it.

### Runs

| Run | Result | Shows |
|---|---|---|
| `batch_safety` | pass | types; `CountMatchesFiles`; `AtMostOneCompletion`; `CompletionIsWhole`; `NoCompletionAfterTimeoutMarker`; `TimeoutLeavesFileOut`; `AllReturnedIsMarked`: the files' handlers do not all return and leave a live record unmarked; `NoSilentTimeout`: unless an entry was rejected, no marker without an accepted event, no end of a timeout message without either an accepted event or a whole count; `TimeoutOverSomeIsFinal`: what is true of `TimeoutIsFinal` below; the refinement `ImplementsOutcome` |
| `batch_liveness` | pass | `ResolvedIsMarked`: when all files are delivered and counted, some worker marks the batch, though the one that counted last may have failed; `MissingFileIsReported`: an accepted event reports a missing file, unless its entry was rejected or its message lost |
| `batch_exclusion` | violation | timeout event and completion event for one transfer, by a race without any failure: the message fires after the fan-out, as files are still being counted |
| `batch_timeout_final` | violation | a timeout that fires before any file is counted leaves no marker, because `resolvedCount < :expected` is false for an absent attribute; the completion event follows |
| `batch_lost_event` | violation | a failure, or a lost answer, between `batchEventPublished` and the event loses the event for good |
| `join_safety` | pass | types; no individual event before both sides are there; the Joiner's writes do not feed it; how often an event is published; `NothingLeftUnannounced`: what is joined and handled was announced and counted; the refinement `ImplementsJoin`; all with lagging reads |
| `join_liveness` | pass | `NothingLeftUnjoined` and `EventuallyPublishedIfSeen`: though a batch may fail and reads may lag, every file is joined and published that no lagging read missed |
| `join_stale` | violation | without any failure, a stale pull and a stale query miss each other and the file's event is never published |
| `lifecycle` | pass | types; `CallerLearnsTheTruth`; `OnlyAMarkerStays`; `NoAlertForJoined` and `UnmatchedIsReported`; `TimeoutFindsRecord`; `EmissionModeHolds`; the refinement `ImplementsJoin` |
| `lifecycle_orphan` | violation | the master expires an hour after its files, when the index is empty: a transfer that was joined completely is reported as an orphan |
| `contents` | pass | types; `EventsMeetMetadata`; `CompletionAddsUp`; `TimeoutAccountsForAll` |
| `timeout_queue` | pass | types; a set marker has a message under way; the timeout fires in time and eventually; messages do not multiply; the refinement `ImplementsCall` |

Bounds of the batch runs: two files are the fewest with a last one and another; the fan-out and the
timeout message it sends run against them, and the master may expire at any time.  Two deliveries
and two failures, of any kind at any place, reach every redelivery path, a redelivery that fails
again, and the DLQ (the liveness run has one failure).  A second delivery of the timeout message
after the first has ended is a redelivery; two of them at the same time are covered by the proofs,
which hold for any number of messages. The safety run takes the files as symmetric; the liveness run
does not.  The join runs use no symmetry.

Bounds of the join runs: files do not interact before they are counted but by the batches they
share, so the safety run has one file and the master, whose records share batches too, and spends
the states on two deliveries of an AWS event (a rewrite after the join) and three failures with two
deliveries each: a redelivery, the DLQ after it, and one more on another batch.  The liveness run
has two files, which gives the query a result with one file in it and one not, and batches of three
items, with one failure.  More of both is covered by the proofs.  A batch of four reaches back to
the start of a file's stream (three records at most).

Bounds of the timeout run: a target of two full hops and one shorter; five places hold the messages that two
failures can leave, the one being handled and its successor, so a send never lacks a place;
the clock runs far enough to exceed what `FiresOnTime` allows with two failures, and the
Joiner may take all that time before it schedules.

Bounds of the lifecycle runs: two files let one be missing; a lifetime of two ticks and one of
stagger against limits of one tick leave an instant before, at and after each limit; the clock ends
after the last possible expiry of a record stored at the first tick; timeouts below, at and above
the lifetime; one failure, since each property speaks of one record's handlers and a second failure
only repeats a loss that `lost` already excuses.

Bounds of the contents run: with two positions, two paths and no path the requested and reported paths
may be equal, different, swapped or absent; three statuses for each file; any number of timeout messages one
after the other.  Three files with three paths were checked once (2.4 million states, too long for
a regular run) and the proofs cover the rest.

Fairness (`FairSpec`): the Pipe and SQS keep handing delivered inputs to the Lambda, so a
worker that can take its next step eventually does.  It is not assumed that a file is ever
completed (`DeliverFile` is not fair): that is what timeouts are for.  In `MetadataJoin` each item's
records are fair on their own, since the Pipe polls the stream's shards independently; the
helper's and the Event Writer's writes are not fair, and `EventuallyPublishedIfSeen` starts when both
were made.  In `TimeoutQueue` the clock is fair too.  `CHECK_DEADLOCK FALSE`
is used because a transfer ends: all workers done, the record expired.

### Proofs

`BatchTrackerProofs` proves, for any finite non-empty set of files, any number of messages
and any bounds:

* `TypeCorrect`: `TypeOK`;
* `CountIsExact`: the number equals the size of the map, since one conditional update writes both;
* `CompletionAtMostOnce`, `CompletionOverAllFiles`, `TimeoutMarkerSuppresses`, `TimeoutIsPartial`;
* `BatchNotLeftBehind` (`AllReturnedIsMarked`), `TimeoutNotSilent` (`NoSilentTimeout`),
  `TimeoutOverSomeCloses` (`TimeoutOverSomeIsFinal`);
* `TrackerImplementsOutcome`: the refinement of `BatchOutcome`.

Assumptions: `FilesAssumption`, `WorkersAssumption`, `BoundsAssumption` of `BatchTracker`.

The inductive invariant `IInv` adds to the types and the count what the workers hold: a worker about
to mark or publish holds the whole map and so does the record (`SeenInv`: the count it compared
belongs to the map it keeps, and a subset of the files with as many elements is all of them); the
event marker implies a whole map and no timeout marker (`MarkersInv`: the timeout marker needs a
count below the whole, and the map only grows); without the event marker nobody is publishing and
nothing was published, and whoever set it is alone (`PublisherInv`).  The parts about the event
marker speak of the record while it has not been replaced by a remnant, whose marker was set without
a look at what was there.  None of the properties of the events and markers is inductive without
these.

Three more parts carry the newer theorems.  `ReturnInv`: while the record lives, a file's worker that is
past its update has its file in the map, so the last worker to return has seen the whole count, by
its own update or by the consistent re-read, and did not return before the marker was there.  The
re-read is what makes this true when the update that counted last was followed by a failure.
`TimeoutInv`: a worker about to write the timeout marker has its event in `puts`, accepted or not, and
so has a message that ended with a file missing; an accepted one follows where none was rejected.  `FinalInv`,
which speaks of behaviours without a failure: the map a timer holds is still part of the record, so
while that lives the marker's condition, a count that exists and is below the whole, holds when a counted
file was seen and one is still missing.

`TimeoutQueueProofs` proves, for any target, delays, lag, number of messages and bounds:

* `TypeCorrect`: `TypeOK`, with the fact that a queued message has a receive left;
* `FiresInTime`: `FiresOnTime`;
* `MarkerIsTrue`: `MarkedIsUnderWay`;
* `MessagesDoNotMultiply`: `NoAmplification`;
* `QueueImplementsCall`: the refinement of `DelayedCall`.

Assumptions: `TimesAssumption` and `BoundsAssumption` of `TimeoutQueue`.  The first three rest on `TInv`:
from the first send until the timeout fires or a message is dead, some message is *timely*,
that is received in time or visible no later than the due time plus what failures have added.
A hop replaces a timely message by one that becomes visible at the target at the latest: this
is why the lag counts once and not once per hop.  For the last, `CInv` counts the live messages
against the sends that are recorded, or about to be, and the failures that came before the record.
`DelayedCall` has neither messages nor hops: its state maps to the number of live messages, to whether a
send is or will be recorded, and to the time the first was due.  A hop, a receive and a deletion
are stutters (`HopReplaces`: a hop takes one live message away and adds one); every failure is one
`Setback` with one effect at most; and a tick respects the abstract deadline because of `TInv`.

`MetadataJoinProofs` proves, for any finite set of files and any number of deliveries and failures:

* `TypeCorrect`, `JoinedBeforePublished` (`NoEventBeforeJoin`), `LoopsEnd` (`NoFeedback`),
  `PublishedOnceOnly` (`PublishedOnce`), `JoinedIsDealtWith` (`NothingLeftUnannounced`);
* `DetailedJoinImplements`: the refinement of `JoinOutcome`;
* `PullAndPushMeet`: `NothingLeftUnjoined`, for reads that may lag: what the lag may cost is exactly the files
  in `missed`.

Assumptions: those named in `MetadataJoin`.  The invariant says what an item's stream can hold: each
image extends the one before it (`LogInv`), and the last one is the item, so whoever handles a
record knows what the item has at least; where a handler stands tells which image it took
(`PcInv`).  `PendingInv` is the argument of the race: if a file lacks the metadata then its own
record is still to be handled by a pull that will find the master, or the master's is by a fan-out
that will find the file, or a failure was final, or a lagging read has missed it. `AnnounceInv` is
what follows the join: a complete item has a record still to be handled whose images lead to
publication, or its event went out and its file is counted.  It needs no current reads, for the
update that completed the item is itself such a record.  `OnceInv` bounds the events by the ways
there are to one, used up: the item's own stream record and the reconciliation by the master's. A
failed batch gives each item back both at most (`Repeats`, `FailFacts`), since it rewinds the
records of all the items in it that were handled, but no item's stream by more than the records that
led to those events: hence one more event per way and failure. For the refinement, `CopyInv` says
that whoever is about to copy has seen the master's metadata, and whoever is to be reconciled has
its event.

`RecordLifecycleProofs` proves, for any files, times and numbers of failures, `TypeCorrect` and all
other properties of the run `lifecycle`: `OnlyMarkersStay`, `NoFalseAlert`, `UnmatchedReported`,
`TimeoutInLifetime`, `ModeRespected`, `CallerToldTruth`, and `LifecycleJoins`, the refinement of
`JoinOutcome` with "joined" as the history of copies, so that an expiry is a stutter.  Assumptions:
`RecordsAssumption`, and `TimesAssumption`, by which the time to live exceeds the age limits of
stream records and events.  The construct does not enforce that: with a `ttl_duration` of an hour or
less, copies may create records that never expire, too, and joined files may be reported.  The
invariant relates the ttl of each record to the times in the histories (`EventInv`, `MasterInv`),
from which a late handler's record is there or its deadline is over, and the master is as the helper
wrote it, gone, or a marker alone; `HandlingInv` bounds how old the record is that a handler
half-way works for; `ReportInv` follows an unmatched record from its expiry over the REMOVE record
to the alert.

`EventContentsProofs` proves all properties of the run `contents` for any finite set of files, any paths
and any results: `TypeCorrect`, `EventsAreFound`, `CompletionIsConsistent`, `TimeoutIsConsistent`.
What an event says depends on its keys and on the inputs, so each property is a lemma
about `AssembleCompletion` or `AssembleTimeout` and cardinalities; `RecordsInv` tells the key of every stored
event.  Assumption: `IdsAssumption`.

Only model-checked: the liveness properties (`ResolvedIsMarked`, `MissingFileIsReported`,
`EventuallyPublishedIfSeen`, `EventuallyFires`: fairness is out of the prover's reach) and the five
violations.  The safety that these rest on is proved: `BatchNotLeftBehind` and
`TimeoutNotSilent` for the batch runs, `PullAndPushMeet` and `JoinedIsDealtWith` for the join, `MarkerIsTrue`
and `FiresInTime` for the timeout.  Left to TLC is that the steps which are enabled come.

## Not modelled

* **The order of records within a batch of the Pipe.**  `MetadataJoin` retries and gives up batches as a whole,
  with records of several items; that such records are handled one after the other only
  removes interleavings.
* **Metadata that is no JSON object, stored events without source or detail.**  The Joiner
  reports or skips them.  The helper validates the metadata and the Event Writer stores whole
  events, so no state of the models leads there.
* **Argument validation, the builder and the listing filter of the helper.**  Pure functions over JSON
  and regular expressions.
* **Logs, metrics and alarms; roles and other resources of the construct.**  No state that a
  property could be about.
* **Sizes and rates.**  Item and event size limits (a transfer of very many files), throttling other
  than as a failure of a call.
