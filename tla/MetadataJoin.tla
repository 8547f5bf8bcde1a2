--------------------------- MODULE MetadataJoin ---------------------------
(***************************************************************************)
(* How one operation's metadata and events are brought together: the       *)
(* helper's metadata write, the Event Writer's writes, the stream records  *)
(* these writes produce, and the Joiner's handling of each record          *)
(* (handler._process_record, metadata_copy.py).  An item is the record of  *)
(* one job.  In a multi-file transfer the metadata is written to the       *)
(* master item and the events to one item per file, so the Joiner copies:  *)
(* a file's item pulls from the master, the master's INSERT pushes to the  *)
(* files.  Any other operation has both fields on one item, here Master.   *)
(* Counting files is one step here, and the batch markers, which the loop  *)
(* guard skips as it does the counting, are left out: see BatchTracker.    *)
(***************************************************************************)
EXTENDS Naturals, Sequences, FiniteSets

LOCAL INSTANCE Functions

CONSTANTS
    Files,          \* the per-file items of a multi-file transfer
    Master,         \* the item the helper writes to
    StaleReads,     \* whether eventually consistent reads may lag
    MaxEvents,      \* bound: deliveries of one AWS event to the Event Writer
    MaxDeliveries,  \* deliveries of one stream record before the DLQ
    MaxFailures     \* bound: failures of any kind in one behaviour

ASSUME ItemsAssumption == IsFiniteSet(Files) /\ Files # {} /\ Master \notin Files

ASSUME ConstantsAssumption ==
    /\ StaleReads \in BOOLEAN
    /\ MaxEvents \in Nat \ {0}
    /\ MaxDeliveries \in Nat \ {0}
    /\ MaxFailures \in Nat

VARIABLES
    operation,      \* "transfer" (fan-out) or "single"
    emissionMode,   \* "none" stands for a master without batch fields
    item,           \* the attributes present on each item, {} for no item
    events,         \* deliveries of each item's event so far
    log,            \* the stream records of each item: old and new attributes
    next,           \* the record of each item to be handled next
    attempt,        \* its delivery count
    pc,             \* where the handling of that record stands
    query,          \* Master: the items the fan-out's query returned
    todo,           \* Master: those still to get their copy
    unannounced,    \* Master: those still to be reconciled
    counted,        \* the files counted in the master item
    published,      \* individual events published, per item
    lost,           \* items on which a failure was final (DLQ, log line only)
    missed,         \* history: the files a lagging read did not show
    failures

vars == <<operation, emissionMode, item, events, log, next, attempt, pc, query, todo,
          unannounced, counted, published, lost, missed, failures>>

Items == Files \union {Master}
Attributes == {"metadata", "eventResult", "fileStatuses"}
Record == [old : SUBSET Attributes, new : SUBSET Attributes]
Modes == {"none", "INDIVIDUAL_AND_WHOLE_TRANSFER_COMPLETION", "WHOLE_TRANSFER_COMPLETION_ONLY"}
Labels == {"idle", "read", "copy", "query", "fanout", "reconcile", "publish", "count"}

\* The type invariant.
TypeOK ==
    /\ operation \in {"transfer", "single"}
    /\ emissionMode \in Modes
    /\ item \in [Items -> SUBSET Attributes]
    /\ events \in [Items -> 0..MaxEvents]
    /\ \A i \in Items : \A n \in DOMAIN log[i] : log[i][n] \in Record
    /\ next \in [Items -> Nat \ {0}]
    /\ attempt \in [Items -> 1..MaxDeliveries]
    /\ pc \in [Items -> Labels]
    /\ query \in SUBSET Files
    /\ todo \in SUBSET Files
    /\ unannounced \in SUBSET Files
    /\ counted \in SUBSET Files
    /\ published \in [Items -> Nat]
    /\ lost \in SUBSET Items
    /\ missed \in SUBSET Files
    /\ failures \in 0..MaxFailures

Init ==
    /\ operation \in {"transfer", "single"}
    /\ emissionMode \in IF operation = "single" THEN {"none"} ELSE Modes
    /\ item = [i \in Items |-> {}]
    /\ events = [i \in Items |-> 0]
    /\ log = [i \in Items |-> <<>>]
    /\ next = [i \in Items |-> 1]
    /\ attempt = [i \in Items |-> 1]
    /\ pc = [i \in Items |-> "idle"]
    /\ query = {} /\ todo = {} /\ unannounced = {} /\ counted = {}
    /\ published = [i \in Items |-> 0]
    /\ lost = {} /\ missed = {}
    /\ failures = 0

-----------------------------------------------------------------------------
(* Writes.  An update that changes the item appends to its stream; one     *)
(* that sets what is already there does not.                               *)

Has(image, attribute) == attribute \in image

\* Mutant: completeness looks at the event only.
HasEventField(image) == "eventResult" \in image

HasBothFields(image) == {"metadata", "eventResult"} \subseteq image

AppendRecord(i, image) ==
    log' = [log EXCEPT ![i] = Append(@, [old |-> item[i], new |-> image])]

Write(i, image) ==
    /\ item' = [item EXCEPT ![i] = image]
    /\ AppendRecord(i, image)

SetMetadata(i) ==
    IF Has(item[i], "metadata")
    THEN UNCHANGED <<item, log>>
    ELSE Write(i, item[i] \union {"metadata"})

\* The helper, after Transfer Family accepted the operation.
WriteMetadata ==
    /\ ~Has(item[Master], "metadata")
    /\ Write(Master, item[Master] \union {"metadata"} \union
                     (IF emissionMode = "none" THEN {} ELSE {"fileStatuses"}))
    /\ UNCHANGED <<operation, emissionMode, events, next, attempt, pc, query, todo,
                   unannounced, counted, published, lost, missed, failures>>

\* The Event Writer.  A repeated delivery rewrites the ttl, unless it comes in the
\* same second.
StoreEvent(i) ==
    /\ i \in IF operation = "transfer" THEN Files ELSE {Master}
    /\ events[i] < MaxEvents
    /\ events' = [events EXCEPT ![i] = @ + 1]
    /\ \/ Write(i, item[i] \union {"eventResult"})
       \/ Has(item[i], "eventResult") /\ UNCHANGED <<item, log>>
    /\ UNCHANGED <<operation, emissionMode, next, attempt, pc, query, todo,
                   unannounced, counted, published, lost, missed, failures>>

-----------------------------------------------------------------------------
(* The Joiner, one stream record of an item at a time.                     *)

SomethingFails ==
    /\ failures < MaxFailures
    /\ failures' = failures + 1

Goto(i, label) == pc' = [pc EXCEPT ![i] = label]

\* The record is done with, and the next one of the item may come.
Finish(i) ==
    /\ Goto(i, "idle")
    /\ next' = [next EXCEPT ![i] = @ + 1]
    /\ attempt' = [attempt EXCEPT ![i] = 1]

\* Mutants: the loop guard forgets the old image's metadata, or a complete old image, or
\* takes an old image with the metadata for a complete one.
MasterAlwaysHandled(r) ==
    HasBothFields(r.old) \/ (Has(r.new, "fileStatuses") /\ ~HasBothFields(r.new))
CompleteNotHandled(r) ==
    Has(r.old, "metadata") /\ Has(r.new, "fileStatuses") /\ ~HasBothFields(r.new)
MetadataMeansHandled(r) == Has(r.old, "metadata")

\* Loop prevention: a MODIFY of an item that was complete, and a batch-tracking
\* MODIFY of a master.
AlreadyHandled(r) ==
    \/ HasBothFields(r.old)
    \/ Has(r.old, "metadata") /\ Has(r.new, "fileStatuses") /\ ~HasBothFields(r.new)

\* Which branch the record takes.  Only the per-file items have a transferId.
Route(i, r) ==
    IF AlreadyHandled(r) THEN "idle"
    ELSE IF ~Has(r.old, "metadata") /\ i \in Files
            /\ Has(r.new, "eventResult") /\ ~Has(r.new, "metadata") THEN "read"
    ELSE IF ~Has(r.old, "metadata") /\ i \notin Files
            /\ Has(r.new, "metadata") /\ ~Has(r.new, "eventResult") THEN "query"
    ELSE IF HasBothFields(r.new) THEN "publish"
    ELSE "idle"

StartRecord(i) ==
    /\ pc[i] = "idle"
    /\ next[i] <= Len(log[i])
    /\ LET route == Route(i, log[i][next[i]])
       IN IF route = "idle"
          THEN Finish(i)
          ELSE Goto(i, route) /\ UNCHANGED <<next, attempt>>
    /\ UNCHANGED <<operation, emissionMode, item, events, log, query, todo, unannounced,
                   counted, published, lost, missed, failures>>

\* Mutant: the master's item is taken for written.
MasterAssumed == TRUE

\* copy_metadata_from_master: the read is eventually consistent.
MasterSeen == Has(item[Master], "metadata")

ReadMaster(f) ==
    /\ pc[f] = "read"
    /\ \/ MasterSeen /\ Goto(f, "copy") /\ UNCHANGED <<next, attempt, missed>>
       \/ ~MasterSeen /\ Finish(f) /\ UNCHANGED missed
       \/ MasterSeen /\ StaleReads /\ Finish(f) /\ missed' = missed \union {f}
    /\ UNCHANGED <<operation, emissionMode, item, events, log, query, todo, unannounced,
                   counted, published, lost, failures>>

CopyMetadata(f) ==
    /\ pc[f] = "copy"
    /\ SetMetadata(f)
    /\ Finish(f)
    /\ UNCHANGED <<operation, emissionMode, events, query, todo, unannounced, counted,
                   published, lost, missed, failures>>

\* fan_out_metadata_to_per_file_records: the index has no consistent reads.  The
\* items without metadata in their index entry get a copy.
Indexed == {f \in Files : Has(item[f], "eventResult")}
Uncopied == {f \in Indexed : ~Has(item[f], "metadata")}

QueryFiles ==
    /\ pc[Master] = "query"
    /\ \E found \in SUBSET Indexed, bare \in SUBSET Indexed :
        /\ StaleReads \/ (found = Indexed /\ bare = Uncopied)
        /\ Uncopied \intersect found \subseteq bare /\ bare \subseteq found
        /\ query' = found
        /\ todo' = bare
        /\ missed' = missed \union (Uncopied \ found)
    /\ Goto(Master, "fanout")
    /\ UNCHANGED <<operation, emissionMode, item, events, log, next, attempt, unannounced,
                   counted, published, lost, failures>>

\* A copy that fails is logged and left.
FanOutTo(f) ==
    /\ pc[Master] = "fanout"
    /\ f \in todo
    /\ todo' = todo \ {f}
    /\ \/ SetMetadata(f) /\ UNCHANGED <<lost, failures>>
       \/ SomethingFails /\ lost' = lost \union {f} /\ UNCHANGED <<item, log>>
    /\ UNCHANGED <<operation, emissionMode, events, next, attempt, pc, query, unannounced,
                   counted, published, missed>>

\* With batch fields on the master the items found are reconciled.
FanOutDone ==
    /\ pc[Master] = "fanout"
    /\ todo = {}
    /\ query' = {}
    /\ IF emissionMode # "none" /\ query # {}
       THEN /\ unannounced' = query
            /\ Goto(Master, "reconcile")
            /\ UNCHANGED <<next, attempt>>
       ELSE /\ Finish(Master)
            /\ UNCHANGED unannounced
    /\ UNCHANGED <<operation, emissionMode, item, events, log, todo, counted, published,
                   lost, missed, failures>>

ShouldPublishIndividualEvent == emissionMode # "WHOLE_TRANSFER_COMPLETION_ONLY"

\* put_events for one item; a rejected entry is only logged.
PublishEvent(i) ==
    \/ /\ published' = [published EXCEPT ![i] = @ + 1]
       /\ UNCHANGED <<lost, failures>>
    \/ /\ SomethingFails
       /\ lost' = lost \union {i}
       /\ UNCHANGED published

AnnounceIfAllowed(i) ==
    IF ShouldPublishIndividualEvent
    THEN PublishEvent(i)
    ELSE UNCHANGED <<published, lost, failures>>

\* Mutant: the counting update loses its condition.
CountAgainInMaster(f) ==
    /\ counted' = counted \union {f}
    /\ AppendRecord(Master, item[Master])

\* The counting update, which changes the master item once per file.
CountInMaster(f) ==
    IF f \in counted
    THEN UNCHANGED <<counted, log>>
    ELSE /\ counted' = counted \union {f}
         /\ AppendRecord(Master, item[Master])

ReconcileFile(f) ==
    /\ pc[Master] = "reconcile"
    /\ f \in unannounced
    /\ unannounced' = unannounced \ {f}
    /\ CountInMaster(f)
    /\ AnnounceIfAllowed(f)
    /\ IF unannounced' = {}
       THEN Finish(Master)
       ELSE UNCHANGED <<pc, next, attempt>>
    /\ UNCHANGED <<operation, emissionMode, item, events, query, todo, missed>>

\* The item is complete: its event goes out if the master's mode allows.
PublishJoined(i) ==
    /\ pc[i] = "publish"
    /\ AnnounceIfAllowed(i)
    /\ IF i \in Files /\ emissionMode # "none"
       THEN Goto(i, "count") /\ UNCHANGED <<next, attempt>>
       ELSE Finish(i)
    /\ UNCHANGED <<operation, emissionMode, item, events, log, query, todo, unannounced,
                   counted, missed>>

CountJoined(f) ==
    /\ pc[f] = "count"
    /\ CountInMaster(f)
    /\ Finish(f)
    /\ UNCHANGED <<operation, emissionMode, item, events, query, todo, unannounced,
                   published, lost, missed, failures>>

\* batch_size of the Pipe, and how many records of each item a batch may hold.
BatchSize == 4
Shares == {share \in [Items -> 0..BatchSize] : SumFunction(share) <= BatchSize}

\* The batches that item i's next record may be part of.  One invocation handles the
\* batch, so no other record of it is being handled.
SharesWith(i) ==
    {share \in Shares : /\ share[i] > 0
                        /\ \A j \in Items \ {i} : share[j] > 0 => pc[j] = "idle"}

\* Mutant: the Pipe tries once more than configured.
TriedOnceMore(i) == attempt[i] <= MaxDeliveries

RetriesLeft(i) == attempt[i] < MaxDeliveries

\* The Pipe delivers the batch again: the records of it that are handled already, of
\* whichever item, are handled once more.
RetryBatch(i) ==
    /\ RetriesLeft(i)
    /\ \E share \in SharesWith(i) :
         /\ pc[i] = "idle" => share[i] > 1
         /\ share[i] <= next[i]
         /\ \A j \in Items \ {i} : share[j] < next[j]
         /\ next' = [j \in Items |->
                       IF j = i THEN next[j] - (share[j] - 1) ELSE next[j] - share[j]]
         /\ attempt' = [j \in Items |-> IF share[j] > 0 THEN attempt[i] + 1 ELSE attempt[j]]
    /\ UNCHANGED lost

\* Whom a record dropped by the Pipe would have served: a master's, all files.
Dropped(share) ==
    UNION {IF j = Master THEN Items ELSE {j} :
             j \in {k \in Items : \E n \in next[k]..(next[k] + share[k] - 1) :
                                     Route(k, log[k][n]) # "idle"}}

\* The Pipe gives up what is left of the batch.
GiveUpBatch(i) ==
    /\ ~RetriesLeft(i)
    /\ \E share \in SharesWith(i) :
         /\ \A j \in Items : share[j] > 0 => next[j] + share[j] <= Len(log[j]) + 1
         /\ next' = [j \in Items |-> next[j] + share[j]]
         /\ attempt' = [j \in Items |-> IF share[j] > 0 THEN 1 ELSE attempt[j]]
         /\ lost' = lost \union Dropped(share)

\* The invocation fails at one of its records, or at none, when it ran out of time.
Fail(i) ==
    /\ SomethingFails
    /\ log[i] # <<>>
    /\ Goto(i, "idle")
    /\ RetryBatch(i) \/ GiveUpBatch(i)
    /\ IF i = Master
       THEN query' = {} /\ todo' = {} /\ unannounced' = {}
       ELSE UNCHANGED <<query, todo, unannounced>>
    /\ UNCHANGED <<operation, emissionMode, item, events, log, counted, published, missed>>

FileStep(f) == ReadMaster(f) \/ CopyMetadata(f) \/ CountJoined(f)
MasterStep == QueryFiles \/ FanOutDone \/ \E f \in Files : FanOutTo(f) \/ ReconcileFile(f)

Next ==
    \/ WriteMetadata
    \/ \E i \in Items : StoreEvent(i)
    \/ \E i \in Items : StartRecord(i) \/ PublishJoined(i)
    \/ \E f \in Files : FileStep(f)
    \/ MasterStep
    \/ \E i \in Items : Fail(i)

Spec == Init /\ [][Next]_vars

\* The Pipe keeps delivering; whether and when the helper and AWS write is open.
Fairness ==
    /\ \A i \in Items : WF_vars(StartRecord(i) \/ PublishJoined(i))
    /\ \A f \in Files : WF_vars(FileStep(f))
    /\ WF_vars(MasterStep)

FairSpec == Spec /\ Fairness

-----------------------------------------------------------------------------
(* Properties.                                                             *)

Handled(i) == pc[i] = "idle" /\ next[i] > Len(log[i])

\* Once both sides are written and their stream records are handled, every file has
\* its metadata: the pull and the push cannot both miss, whatever their order, unless a
\* read of one of them lagged behind a write that it had to see, or a failure was final.
NothingLeftUnjoined ==
    \A f \in Files \ (lost \union missed) :
        /\ Has(item[Master], "metadata") /\ Has(item[f], "eventResult")
        /\ Handled(Master) /\ Handled(f)
        => Has(item[f], "metadata")

\* An individual event is published only for an item that has both fields.
NoEventBeforeJoin ==
    \A i \in Items \ lost : published[i] > 0 => {"metadata", "eventResult"} \subseteq item[i]

\* The Joiner's own writes do not feed it: it adds one stream record to a file's item
\* at most, and to the master's one per counted file.
NoFeedback ==
    /\ \A f \in Files : Len(log[f]) <= events[f] + 1
    /\ Len(log[Master]) <= events[Master] + 1 + Cardinality(counted)

\* What is joined is dealt with: when the stream records of a complete item are handled,
\* its event went out, if the mode allows, and its file is counted.  This holds for
\* lagging reads too: they delay the join, not what follows it.
NothingLeftUnannounced ==
    \A i \in Items \ lost :
        HasBothFields(item[i]) /\ Handled(i) =>
            /\ ShouldPublishIndividualEvent => published[i] > 0
            /\ i \in Files /\ emissionMode # "none" => i \in counted

\* An individual event goes out once, though AWS events come twice and two paths copy the
\* metadata.  With batch fields on the master the reconciliation may publish it a second
\* time.  A failure repeats each of the two ways once at most: it delivers a batch again
\* that may hold the master's record and the file's.
PublishedOnce ==
    \A i \in Items :
        published[i] <= (1 + failures) * (IF emissionMode = "none" THEN 1 ELSE 2)

With(attribute) == {i \in Items : Has(item[i], attribute)}

Join == INSTANCE JoinOutcome WITH
            stored <- With("eventResult"), described <- With("metadata"),
            announced <- {i \in Items : published[i] > 0}, abandoned <- lost

\* Pull, push and redeliveries together implement the abstract join: whatever an old
\* image or a lagging read showed, the metadata is copied only from a master that has
\* it to an item that has its event, and no event goes out before.
ImplementsJoin == Join!Spec

\* The event and the metadata its item is waiting for are both written.
Joinable(i) == Has(item[Master], "metadata") /\ Has(item[i], "eventResult")

\* A joined pair always yields its individual event, in either order of arrival and with
\* reads that may lag, unless a lagging read missed this very file, a failure was final
\* or the caller wants the batch event only.
EventuallyPublishedIfSeen ==
    \A i \in Items :
        Joinable(i) ~> (\/ published[i] > 0 \/ i \in lost \union missed
                        \/ ~ShouldPublishIndividualEvent)

\* The same without the reservation about lagging reads.
EventuallyPublished ==
    \A i \in Items :
        Joinable(i) ~> (published[i] > 0 \/ i \in lost \/ ~ShouldPublishIndividualEvent)
=============================================================================
