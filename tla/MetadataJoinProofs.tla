------------------------ MODULE MetadataJoinProofs ------------------------
(***************************************************************************)
(* Proofs about MetadataJoin, for any files and bounds.  Everything rests  *)
(* on the stream: an item only gains attributes, its records are in the    *)
(* order of its writes, and where the handling of a record stands tells    *)
(* the branch the record took.                                             *)
(***************************************************************************)
EXTENDS MetadataJoin, FiniteSetTheorems, TLAPS

TypeInv ==
    /\ TypeOK
    /\ log \in [Items -> Seq(Record)]

ControlType ==
    /\ pc \in [Items -> Labels]
    /\ next \in [Items -> Nat \ {0}]
    /\ attempt \in [Items -> 1..MaxDeliveries]

SetsType ==
    /\ query \subseteq Files /\ todo \subseteq Files /\ unannounced \subseteq Files
    /\ counted \subseteq Files /\ lost \subseteq Items /\ missed \subseteq Files

CountersKept ==
    /\ operation' = operation /\ emissionMode' = emissionMode
    /\ events' \in [Items -> 0..MaxEvents]
    /\ published' \in [Items -> Nat] /\ failures' \in 0..MaxFailures

Both == {"metadata", "eventResult"}

\* The records of an item follow one another, and the item has what they show.
LogInv ==
    \A i \in Items : \A n \in 1..Len(log[i]) :
        /\ log[i][n].new \subseteq item[i]
        /\ \A m \in 1..(n - 1) : log[i][m].new \subseteq log[i][n].old

Branch(label) ==
    IF label \in {"read", "copy"} THEN "read"
    ELSE IF label \in {"query", "fanout", "reconcile"} THEN "query"
    ELSE "publish"

PcInv ==
    \A i \in Items :
        /\ next[i] <= Len(log[i]) + 1
        /\ pc[i] # "idle" =>
            /\ next[i] <= Len(log[i])
            /\ Route(i, log[i][next[i]]) = Branch(pc[i])

\* What the fan-out found has its event, and its metadata unless that is still to be copied.
FanOutInv ==
    /\ todo \subseteq query
    /\ todo # {} => pc[Master] = "fanout"
    /\ pc[Master] = "reconcile" => emissionMode # "none"
    /\ \A f \in query : /\ "eventResult" \in item[f]
                        /\ "metadata" \in item[f] \/ f \in todo \/ f \in lost
    /\ \A f \in unannounced : Both \subseteq item[f] \/ f \in lost

\* The Joiner's copies write an item once, its counting once per file.
FeedbackInv ==
    /\ \A f \in Files :
        Len(log[f]) <= events[f] + (IF "metadata" \in item[f] THEN 1 ELSE 0)
    /\ Len(log[Master]) <= events[Master] + Cardinality(counted)
                           + (IF "metadata" \in item[Master] THEN 1 ELSE 0)

\* The stream of an item yields its event once, the reconciliation once more, and a
\* failure may repeat both.
Past(i, route) ==
    \E n \in 1..Len(log[i]) : n < next[i] /\ Route(i, log[i][n]) = route
Streamed(i) == pc[i] = "count" \/ Past(i, "publish")
Reconciled(i) ==
    /\ i \in Files
    /\ emissionMode # "none"
    /\ (pc[Master] = "reconcile" /\ i \notin unannounced) \/ Past(Master, "query")

Repeats == IF emissionMode = "none" THEN failures ELSE failures + failures

OnceInv ==
    \A i \in Items : published[i] <= (IF Streamed(i) THEN 1 ELSE 0)
                                     + (IF Reconciled(i) THEN 1 ELSE 0) + Repeats

\* Only a transfer has events for its files, and only another operation one for the master.
EventsInv ==
    /\ "eventResult" \in item[Master] => operation = "single"
    /\ \A f \in Files : "eventResult" \in item[f] => operation = "transfer"

\* A file that has only its event will be read for, or fanned out to, when the master has
\* its metadata, unless a lagging read missed it.
PullPending(f) == \E n \in 1..Len(log[f]) : next[f] <= n /\ Route(f, log[f][n]) = "read"
PushPending(f) ==
    \/ f \in todo
    \/ \E n \in 1..Len(log[Master]) :
        /\ next[Master] <= n
        /\ Route(Master, log[Master][n]) = "query"
        /\ n = next[Master] => pc[Master] \in {"idle", "query"}

PendingInv ==
    \A f \in Files \ (lost \union missed) :
        "eventResult" \in item[f] /\ "metadata" \in item[Master] \ item[f]
        => PullPending(f) \/ PushPending(f)

\* Whoever is about to copy has seen the metadata, and whoever is to be reconciled has
\* its event.
CopyInv ==
    /\ \A f \in Files : pc[f] = "copy" => "metadata" \in item[Master]
    /\ \A f \in unannounced : "eventResult" \in item[f]

\* A complete item's publication is pending until it is made, the counting until it is done.
PublishPending(i) ==
    \E n \in 1..Len(log[i]) : next[i] <= n /\ Route(i, log[i][n]) = "publish"

Announced(i) == ShouldPublishIndividualEvent => published[i] > 0
CountedIfTracked(i) == i \in Files /\ emissionMode # "none" => i \in counted

AnnounceInv ==
    \A i \in Items \ lost :
        /\ pc[i] = "count" => Announced(i)
        /\ Both \subseteq item[i] =>
               PublishPending(i) \/ (Announced(i) /\ CountedIfTracked(i))

IInv ==
    /\ TypeInv
    /\ LogInv
    /\ PcInv
    /\ FanOutInv
    /\ NoEventBeforeJoin
    /\ FeedbackInv
    /\ OnceInv
    /\ EventsInv
    /\ PendingInv
    /\ CopyInv
    /\ AnnounceInv

\* The routes, and what each says of the record.
LEMMA RouteFacts ==
    ASSUME NEW i \in Items, NEW r \in Record
    PROVE  /\ Route(i, r) \in {"idle", "read", "query", "publish"}
           /\ Route(i, r) = "read" => i \in Files
           /\ Route(i, r) = "query" => i = Master /\ "metadata" \notin r.old
                                       /\ "metadata" \in r.new
           /\ Route(i, r) = "publish" => Both \subseteq r.new /\ ~(Both \subseteq r.old)
           /\ i \in Files /\ "metadata" \notin r.old \union r.new /\ "eventResult" \in r.new
                => Route(i, r) = "read"
           /\ i = Master /\ "metadata" \in r.new \ r.old /\ "eventResult" \notin r.new
                => Route(i, r) = "query"
BY ItemsAssumption DEF Route, AlreadyHandled, HasBothFields, Has, Items, Both, Record,
   Attributes

\* What a step does to the items and their streams.
Grows ==
    /\ item' \in [Items -> SUBSET Attributes] /\ log' \in [Items -> Seq(Record)]
    /\ \A j \in Items :
        /\ item[j] \subseteq item'[j]
        /\ \/ log'[j] = log[j] /\ item'[j] = item[j]
           \/ log'[j] = Append(log[j], [old |-> item[j], new |-> item'[j]])

\* Writes make them grow.
LEMMA WriteGrows ==
    ASSUME TypeInv, NEW i \in Items, NEW image \in SUBSET Attributes, item[i] \subseteq image,
           Write(i, image)
    PROVE  Grows
<1> DEFINE r == [old |-> item[i], new |-> image]
<1> USE DEF TypeInv, TypeOK
<1>1. item \in [Items -> SUBSET Attributes] /\ log \in [Items -> Seq(Record)]
  OBVIOUS
<1>2. item' = [item EXCEPT ![i] = image] /\ log' = [log EXCEPT ![i] = Append(@, r)]
  BY DEF Write, AppendRecord
<1>3. r \in Record
  BY <1>1 DEF Record
<1> QED BY <1>1, <1>2, <1>3 DEF Grows

\* An unchanged item may still get a stream record, as the master does when counting.
LEMMA AppendGrows ==
    ASSUME TypeInv, NEW i \in Items, UNCHANGED item, AppendRecord(i, item[i])
    PROVE  Grows
<1>1. Write(i, item[i])
  BY DEF TypeInv, TypeOK, Write
<1> QED BY <1>1, WriteGrows DEF TypeInv, TypeOK

\* No write.
LEMMA NothingGrows ==
    ASSUME TypeInv, UNCHANGED <<item, log>>
    PROVE  Grows
BY DEF TypeInv, TypeOK, Grows

\* A copy of the metadata.
LEMMA MetadataGrows ==
    ASSUME TypeInv, NEW i \in Items, SetMetadata(i)
    PROVE  Grows
<1>1. item[i] \union {"metadata"} \in SUBSET Attributes
  BY DEF TypeInv, TypeOK, Attributes
<1> QED BY <1>1, WriteGrows, NothingGrows DEF SetMetadata

\* An item gains attributes only, and each write that changes it goes to its stream.
LEMMA WriteStep ==
    ASSUME TypeInv, [Next]_vars
    PROVE  Grows
<1> USE ItemsAssumption, ConstantsAssumption
<1>1. CASE WriteMetadata
  <2> DEFINE image == item[Master] \union {"metadata"}
                          \union (IF emissionMode = "none" THEN {} ELSE {"fileStatuses"})
  <2>1. Write(Master, image)
    BY <1>1 DEF WriteMetadata
  <2>2. Master \in Items /\ image \in SUBSET Attributes
    BY DEF TypeInv, TypeOK, Items, Attributes
  <2> QED BY <2>1, <2>2, WriteGrows
<1>2. ASSUME NEW i \in Items, StoreEvent(i) PROVE Grows
  <2>1. item[i] \union {"eventResult"} \in SUBSET Attributes
    BY DEF TypeInv, TypeOK, Attributes
  <2> QED BY <1>2, <2>1, WriteGrows, NothingGrows DEF StoreEvent
<1>3. ASSUME NEW i \in Items, StartRecord(i) PROVE Grows
  BY <1>3, NothingGrows DEF StartRecord
<1>4. ASSUME NEW i \in Items, PublishJoined(i) PROVE Grows
  BY <1>4, NothingGrows DEF PublishJoined
<1>5. ASSUME NEW f \in Files, ReadMaster(f) PROVE Grows
  BY <1>5, NothingGrows DEF ReadMaster
<1>6. ASSUME NEW f \in Files, CopyMetadata(f) PROVE Grows
  BY <1>6, MetadataGrows DEF CopyMetadata, Items
<1>7. ASSUME NEW f \in Files, CountJoined(f) PROVE Grows
  BY <1>7, AppendGrows, NothingGrows DEF CountJoined, CountInMaster, Items
<1>8. CASE QueryFiles
  BY <1>8, NothingGrows DEF QueryFiles
<1>9. ASSUME NEW f \in Files, FanOutTo(f) PROVE Grows
  BY <1>9, MetadataGrows, NothingGrows DEF FanOutTo, Items
<1>10. CASE FanOutDone
  BY <1>10, NothingGrows DEF FanOutDone
<1>11. ASSUME NEW f \in Files, ReconcileFile(f) PROVE Grows
  BY <1>11, AppendGrows, NothingGrows DEF ReconcileFile, CountInMaster, Items
<1>12. ASSUME NEW i \in Items, Fail(i) PROVE Grows
  BY <1>12, NothingGrows DEF Fail
<1>13. CASE UNCHANGED vars
  BY <1>13, NothingGrows DEF vars
<1> QED BY <1>1, <1>2, <1>3, <1>4, <1>5, <1>6, <1>7, <1>8, <1>9, <1>10, <1>11, <1>12,
    <1>13 DEF Next, FileStep, MasterStep

\* Finishing a record keeps the control types.
LEMMA FinishType ==
    ASSUME TypeInv, NEW i \in Items, Finish(i)
    PROVE  ControlType'
<1> USE DEF TypeInv, TypeOK, ControlType, Finish, Goto, Labels
<1>1. pc' \in [Items -> Labels]
  OBVIOUS
<1>2. next' \in [Items -> Nat \ {0}]
  OBVIOUS
<1>3. attempt' \in [Items -> 1..MaxDeliveries]
  BY ConstantsAssumption
<1> QED BY <1>1, <1>2, <1>3

\* So does going on with it.
LEMMA GotoType ==
    ASSUME TypeInv, NEW i \in Items, NEW label \in Labels, Goto(i, label),
           UNCHANGED <<next, attempt>>
    PROVE  ControlType'
BY DEF TypeInv, TypeOK, ControlType, Goto

\* The record to be handled next.
LEMMA CurrentRecord ==
    ASSUME TypeInv, NEW i \in Items, NEW n \in 1..Len(log[i])
    PROVE  log[i][n] \in Record
BY DEF TypeInv

\* The bound on failures.
LEMMA FailureType ==
    ASSUME TypeInv, SomethingFails PROVE failures' \in 0..MaxFailures
BY ConstantsAssumption DEF TypeInv, TypeOK, SomethingFails

\* The counters when an event is announced.
LEMMA AnnounceType ==
    ASSUME TypeInv, NEW i \in Items, AnnounceIfAllowed(i)
    PROVE  published' \in [Items -> Nat] /\ failures' \in 0..MaxFailures
<1>1. PublishEvent(i) \/ UNCHANGED <<published, failures>>
  BY DEF AnnounceIfAllowed
<1>2. published \in [Items -> Nat]
  BY DEF TypeInv, TypeOK
<1>3. published' = published \/ published' = [published EXCEPT ![i] = @ + 1]
  BY <1>1 DEF PublishEvent
<1>4. published' \in [Items -> Nat]
  BY <1>2, <1>3
<1>5. failures' \in 0..MaxFailures
  BY <1>1, FailureType DEF TypeInv, TypeOK, PublishEvent
<1> QED BY <1>4, <1>5

\* A batch that a record is part of, and what no other handler may be at.
LEMMA ShareFacts ==
    ASSUME NEW i \in Items, NEW share \in SharesWith(i)
    PROVE  /\ \A j \in Items : share[j] \in Nat
           /\ share[i] > 0
           /\ \A j \in Items : j # i /\ share[j] > 0 => pc[j] = "idle"
BY DEF SharesWith, Shares, BatchSize

\* A batch that is delivered again starts over.
LEMMA RetryMoves ==
    ASSUME TypeInv, NEW i \in Items, RetryBatch(i)
    PROVE  /\ next' \in [Items -> Nat \ {0}]
           /\ attempt' \in [Items -> 1..MaxDeliveries]
           /\ lost' = lost
           /\ \A j \in Items : next'[j] <= next[j]
           /\ \A j \in Items : j # i /\ next'[j] # next[j] => pc[j] = "idle"
<1>1. PICK share \in SharesWith(i) :
        /\ share[i] <= next[i]
        /\ \A j \in Items \ {i} : share[j] < next[j]
        /\ next' = [j \in Items |->
                      IF j = i THEN next[j] - (share[j] - 1) ELSE next[j] - share[j]]
        /\ attempt' = [j \in Items |-> IF share[j] > 0 THEN attempt[i] + 1 ELSE attempt[j]]
  BY DEF RetryBatch
<1>2. /\ \A j \in Items : share[j] \in Nat
      /\ share[i] > 0
      /\ \A j \in Items : j # i /\ share[j] > 0 => pc[j] = "idle"
  BY <1>1, ShareFacts
<1>3. next \in [Items -> Nat \ {0}] /\ attempt \in [Items -> 1..MaxDeliveries]
  BY DEF TypeInv, TypeOK
<1>4. ASSUME NEW j \in Items
      PROVE  /\ next'[j] \in Nat \ {0} /\ next'[j] <= next[j]
             /\ j # i /\ next'[j] # next[j] => pc[j] = "idle"
  <2>1. share[j] \in Nat /\ next[j] \in Nat \ {0}
    BY <1>2, <1>3
  <2>2. CASE j = i
    <3>1. next'[j] = next[j] - (share[j] - 1)
      BY <1>1, <2>2
    <3> QED BY <1>1, <1>2, <2>1, <2>2, <3>1
  <2>3. CASE j # i
    <3>1. next'[j] = next[j] - share[j] /\ share[j] < next[j]
      BY <1>1, <2>3
    <3>2. share[j] > 0 => pc[j] = "idle"
      BY <1>2, <2>3
    <3> QED BY <2>1, <2>3, <3>1, <3>2
  <2> QED BY <2>2, <2>3
<1>5. attempt' \in [Items -> 1..MaxDeliveries]
  <2>1. attempt[i] + 1 \in 1..MaxDeliveries
    BY <1>3, ConstantsAssumption DEF RetryBatch, RetriesLeft
  <2> QED BY <1>1, <1>3, <2>1
<1> QED BY <1>1, <1>4, <1>5 DEF RetryBatch

\* A batch that is given up is skipped, and whom its records would have served is lost.
LEMMA GiveUpMoves ==
    ASSUME TypeInv, NEW i \in Items, GiveUpBatch(i)
    PROVE  /\ next' \in [Items -> Nat \ {0}]
           /\ attempt' \in [Items -> 1..MaxDeliveries]
           /\ lost \subseteq lost' /\ lost' \subseteq Items
           /\ \A j \in Items : j # i /\ next'[j] # next[j] => pc[j] = "idle"
           /\ \A j \in Items : next'[j] = next[j] \/ next'[j] <= Len(log[j]) + 1
           /\ \A j \in Items : \A n \in 1..Len(log[j]) :
                 next[j] <= n /\ n < next'[j] /\ Route(j, log[j][n]) # "idle" =>
                     j \in lost' /\ (j = Master => Items \subseteq lost')
<1>1. PICK share \in SharesWith(i) :
        /\ \A j \in Items : share[j] > 0 => next[j] + share[j] <= Len(log[j]) + 1
        /\ next' = [j \in Items |-> next[j] + share[j]]
        /\ attempt' = [j \in Items |-> IF share[j] > 0 THEN 1 ELSE attempt[j]]
        /\ lost' = lost \union Dropped(share)
  BY DEF GiveUpBatch
<1>2. /\ \A j \in Items : share[j] \in Nat
      /\ \A j \in Items : j # i /\ share[j] > 0 => pc[j] = "idle"
  BY <1>1, ShareFacts
<1>3. /\ next \in [Items -> Nat \ {0}] /\ attempt \in [Items -> 1..MaxDeliveries]
      /\ lost \subseteq Items
  BY DEF TypeInv, TypeOK
<1>4. ASSUME NEW j \in Items
      PROVE  /\ next'[j] \in Nat \ {0}
             /\ j # i /\ next'[j] # next[j] => pc[j] = "idle"
             /\ next'[j] = next[j] \/ next'[j] <= Len(log[j]) + 1
  <2>1. share[j] \in Nat /\ next[j] \in Nat \ {0} /\ next'[j] = next[j] + share[j]
    BY <1>1, <1>2, <1>3
  <2> QED BY <1>1, <1>2, <2>1
<1>5. attempt' \in [Items -> 1..MaxDeliveries]
  BY <1>1, <1>3, ConstantsAssumption
<1>6. Dropped(share) \subseteq Items
  BY DEF Dropped
<1>7. ASSUME NEW j \in Items, NEW n \in 1..Len(log[j]), next[j] <= n, n < next'[j],
             Route(j, log[j][n]) # "idle"
      PROVE  j \in lost' /\ (j = Master => Items \subseteq lost')
  <2> DEFINE served(k) == IF k = Master THEN Items ELSE {k}
  <2> DEFINE dropping == {k \in Items : \E m \in next[k]..(next[k] + share[k] - 1) :
                                         Route(k, log[k][m]) # "idle"}
  <2>1. share[j] \in Nat /\ next[j] \in Nat \ {0} /\ next'[j] = next[j] + share[j]
    BY <1>1, <1>2, <1>3
  <2>2. n \in next[j]..(next[j] + share[j] - 1)
    BY <1>7, <2>1
  <2>3. j \in dropping
    BY <1>7, <2>2
  <2>4. Dropped(share) = UNION {served(k) : k \in dropping}
    BY DEF Dropped
  <2> HIDE DEF dropping
  <2>5. served(j) \subseteq Dropped(share)
    BY <2>3, <2>4
  <2> QED BY <1>1, <2>5
<1> QED BY <1>1, <1>3, <1>4, <1>5, <1>6, <1>7

\* What a failed invocation does to the streams: it moves no handler of another batch, and
\* skips a record only at the known loss of those it would have served.
FailMoves(i) ==
    /\ pc' = [pc EXCEPT ![i] = "idle"]
    /\ next' \in [Items -> Nat \ {0}]
    /\ attempt' \in [Items -> 1..MaxDeliveries]
    /\ lost \subseteq lost' /\ lost' \subseteq Items
    /\ \A j \in Items : next'[j] = next[j] \/ pc'[j] = "idle"
    /\ \A j \in Items : next'[j] <= next[j] \/ next'[j] <= Len(log[j]) + 1
    /\ \A j \in Items : \A n \in 1..Len(log[j]) :
          next[j] <= n /\ Route(j, log[j][n]) # "idle" =>
              next'[j] <= n \/ (j \in lost' /\ (j = Master => Items \subseteq lost'))

LEMMA FailFacts ==
    ASSUME TypeInv, NEW i \in Items, Fail(i)
    PROVE  FailMoves(i)
<1>1. pc' = [pc EXCEPT ![i] = "idle"] /\ (RetryBatch(i) \/ GiveUpBatch(i))
  BY DEF Fail, Goto
<1>2. /\ pc \in [Items -> Labels] /\ next \in [Items -> Nat \ {0}]
      /\ log \in [Items -> Seq(Record)] /\ lost \subseteq Items
  BY DEF TypeInv, TypeOK
<1>3. pc'[i] = "idle" /\ \A j \in Items : pc[j] = "idle" => pc'[j] = "idle"
  BY <1>1, <1>2
<1>4. CASE RetryBatch(i)
  <2>1. /\ next' \in [Items -> Nat \ {0}]
        /\ attempt' \in [Items -> 1..MaxDeliveries]
        /\ lost' = lost
        /\ \A j \in Items : next'[j] <= next[j]
        /\ \A j \in Items : j # i /\ next'[j] # next[j] => pc[j] = "idle"
    BY <1>4, RetryMoves
  <2>2. ASSUME NEW j \in Items, NEW n \in 1..Len(log[j]), next[j] <= n
        PROVE  next'[j] <= n
    <3>1. next'[j] \in Nat /\ next[j] \in Nat /\ n \in Nat /\ next'[j] <= next[j]
      BY <1>2, <2>1
    <3> QED BY <2>2, <3>1
  <2> QED BY <1>1, <1>2, <1>3, <2>1, <2>2 DEF FailMoves
<1>5. CASE GiveUpBatch(i)
  <2>1. /\ next' \in [Items -> Nat \ {0}]
        /\ attempt' \in [Items -> 1..MaxDeliveries]
        /\ lost \subseteq lost' /\ lost' \subseteq Items
        /\ \A j \in Items : j # i /\ next'[j] # next[j] => pc[j] = "idle"
        /\ \A j \in Items : next'[j] = next[j] \/ next'[j] <= Len(log[j]) + 1
        /\ \A j \in Items : \A n \in 1..Len(log[j]) :
              next[j] <= n /\ n < next'[j] /\ Route(j, log[j][n]) # "idle" =>
                  j \in lost' /\ (j = Master => Items \subseteq lost')
    BY <1>5, GiveUpMoves
  <2>2. \A j \in Items : \A n \in 1..Len(log[j]) : next'[j] <= n \/ n < next'[j]
    BY <2>1
  <2>3. \A j \in Items : next'[j] <= next[j] \/ next'[j] <= Len(log[j]) + 1
    BY <1>2, <2>1
  <2> QED BY <1>1, <1>3, <2>1, <2>2, <2>3 DEF FailMoves
<1> QED BY <1>1, <1>4, <1>5

\* Where the handling of records stands.
LEMMA ControlStep ==
    ASSUME TypeInv, [Next]_vars
    PROVE  ControlType'
<1> USE ItemsAssumption, ConstantsAssumption
<1>1. CASE WriteMetadata
  BY <1>1 DEF ControlType, TypeInv, TypeOK, WriteMetadata
<1>2. ASSUME NEW i \in Items, StoreEvent(i) PROVE ControlType'
  BY <1>2 DEF ControlType, TypeInv, TypeOK, StoreEvent
<1>3. ASSUME NEW i \in Items, StartRecord(i) PROVE ControlType'
  <2> DEFINE route == Route(i, log[i][next[i]])
  <2>1. log[i][next[i]] \in Record
    BY <1>3, CurrentRecord DEF StartRecord, TypeInv, TypeOK
  <2>2. route \in Labels
    BY <2>1, RouteFacts DEF Labels
  <2> HIDE DEF route
  <2> QED BY <1>3, <2>2, FinishType, GotoType DEF StartRecord, route
<1>4. ASSUME NEW i \in Items, PublishJoined(i) PROVE ControlType'
  BY <1>4, FinishType, GotoType DEF PublishJoined, Items, Labels
<1>5. ASSUME NEW f \in Files, ReadMaster(f) PROVE ControlType'
  BY <1>5, FinishType, GotoType DEF ReadMaster, Items, Labels
<1>6. ASSUME NEW f \in Files, CopyMetadata(f) PROVE ControlType'
  BY <1>6, FinishType, GotoType DEF CopyMetadata, Items, Labels
<1>7. ASSUME NEW f \in Files, CountJoined(f) PROVE ControlType'
  BY <1>7, FinishType, GotoType DEF CountJoined, Items, Labels
<1>8. CASE QueryFiles
  BY <1>8, FinishType, GotoType DEF QueryFiles, Items, Labels
<1>9. ASSUME NEW f \in Files, FanOutTo(f) PROVE ControlType'
  BY <1>9 DEF ControlType, TypeInv, TypeOK, FanOutTo
<1>10. CASE FanOutDone
  BY <1>10, FinishType, GotoType DEF FanOutDone, Items, Labels
<1>11. ASSUME NEW f \in Files, ReconcileFile(f) PROVE ControlType'
  BY <1>11, FinishType DEF ReconcileFile, ControlType, TypeInv, TypeOK, Items
<1>12. ASSUME NEW i \in Items, Fail(i) PROVE ControlType'
  BY <1>12, FailFacts DEF FailMoves, ControlType, Labels, TypeInv, TypeOK
<1>13. CASE UNCHANGED vars
  BY <1>13 DEF ControlType, TypeInv, TypeOK, vars
<1> QED BY <1>1, <1>2, <1>3, <1>4, <1>5, <1>6, <1>7, <1>8, <1>9, <1>10, <1>11, <1>12,
    <1>13 DEF Next, FileStep, MasterStep

\* The sets of the fan-out, the counting and the losses.
LEMMA SetsStep ==
    ASSUME TypeInv, [Next]_vars
    PROVE  SetsType'
<1> USE ItemsAssumption, ConstantsAssumption DEF SetsType, TypeInv, TypeOK, Items
<1>1. CASE WriteMetadata
  BY <1>1 DEF WriteMetadata
<1>2. ASSUME NEW i \in Items, StoreEvent(i) PROVE SetsType'
  BY <1>2 DEF StoreEvent
<1>3. ASSUME NEW i \in Items, StartRecord(i) PROVE SetsType'
  BY <1>3 DEF StartRecord
<1>4. ASSUME NEW i \in Items, PublishJoined(i) PROVE SetsType'
  BY <1>4 DEF PublishJoined, AnnounceIfAllowed, PublishEvent, SomethingFails
<1>5. ASSUME NEW f \in Files, ReadMaster(f) PROVE SetsType'
  BY <1>5 DEF ReadMaster
<1>6. ASSUME NEW f \in Files, CopyMetadata(f) PROVE SetsType'
  BY <1>6 DEF CopyMetadata, SetMetadata
<1>7. ASSUME NEW f \in Files, CountJoined(f) PROVE SetsType'
  BY <1>7 DEF CountJoined, CountInMaster
<1>8. CASE QueryFiles
  BY <1>8 DEF QueryFiles, Indexed, Uncopied
<1>9. ASSUME NEW f \in Files, FanOutTo(f) PROVE SetsType'
  BY <1>9 DEF FanOutTo, SetMetadata, SomethingFails
<1>10. CASE FanOutDone
  BY <1>10 DEF FanOutDone
<1>11. ASSUME NEW f \in Files, ReconcileFile(f) PROVE SetsType'
  BY <1>11 DEF ReconcileFile, CountInMaster, AnnounceIfAllowed, PublishEvent, SomethingFails
<1>12. ASSUME NEW i \in Items, Fail(i) PROVE SetsType'
  BY <1>12, FailFacts DEF Fail, FailMoves
<1>13. CASE UNCHANGED vars
  BY <1>13 DEF vars
<1> QED BY <1>1, <1>2, <1>3, <1>4, <1>5, <1>6, <1>7, <1>8, <1>9, <1>10, <1>11, <1>12,
    <1>13 DEF Next, FileStep, MasterStep

\* A counter below its bound may take one more.
LEMMA NextInRange ==
    ASSUME NEW N \in Nat, NEW n \in 0..N, n < N
    PROVE  n + 1 \in 0..N
OBVIOUS

\* The counters.
LEMMA NumbersStep ==
    ASSUME TypeInv, [Next]_vars
    PROVE  CountersKept
<1> USE ItemsAssumption, ConstantsAssumption DEF CountersKept, TypeInv, TypeOK, Items
<1>1. CASE WriteMetadata
  BY <1>1 DEF WriteMetadata
<1>2. ASSUME NEW i \in Items, StoreEvent(i) PROVE CountersKept
  <2>1. events' \in [Items -> 0..MaxEvents]
    <3>1. events \in [Items -> 0..MaxEvents]
      BY DEF TypeInv, TypeOK
    <3>2. events[i] < MaxEvents /\ events' = [events EXCEPT ![i] = @ + 1]
      BY <1>2 DEF StoreEvent
    <3>3. events[i] + 1 \in 0..MaxEvents
      BY <3>1, <3>2, NextInRange
    <3> QED BY <3>1, <3>2, <3>3
  <2> QED BY <1>2, <2>1 DEF StoreEvent, TypeInv, TypeOK
<1>3. ASSUME NEW i \in Items, StartRecord(i) PROVE CountersKept
  BY <1>3 DEF StartRecord
<1>4. ASSUME NEW i \in Items, PublishJoined(i) PROVE CountersKept
  BY <1>4, AnnounceType DEF PublishJoined, TypeInv, TypeOK
<1>5. ASSUME NEW f \in Files, ReadMaster(f) PROVE CountersKept
  BY <1>5 DEF ReadMaster
<1>6. ASSUME NEW f \in Files, CopyMetadata(f) PROVE CountersKept
  BY <1>6 DEF CopyMetadata, SetMetadata
<1>7. ASSUME NEW f \in Files, CountJoined(f) PROVE CountersKept
  BY <1>7 DEF CountJoined, CountInMaster
<1>8. CASE QueryFiles
  BY <1>8 DEF QueryFiles, Indexed, Uncopied
<1>9. ASSUME NEW f \in Files, FanOutTo(f) PROVE CountersKept
  BY <1>9, FailureType DEF FanOutTo, TypeInv, TypeOK
<1>10. CASE FanOutDone
  BY <1>10 DEF FanOutDone
<1>11. ASSUME NEW f \in Files, ReconcileFile(f) PROVE CountersKept
  BY <1>11, AnnounceType DEF ReconcileFile, TypeInv, TypeOK, Items
<1>12. ASSUME NEW i \in Items, Fail(i) PROVE CountersKept
  BY <1>12, FailureType DEF Fail, TypeInv, TypeOK
<1>13. CASE UNCHANGED vars
  BY <1>13 DEF vars
<1> QED BY <1>1, <1>2, <1>3, <1>4, <1>5, <1>6, <1>7, <1>8, <1>9, <1>10, <1>11, <1>12,
    <1>13 DEF Next, FileStep, MasterStep

\* Every step keeps the types.
LEMMA TypeStep ==
    ASSUME TypeInv, [Next]_vars PROVE TypeInv'
<1>1. \A i \in Items : \A n \in DOMAIN log'[i] : log'[i][n] \in Record
  BY WriteStep DEF Grows
<1> QED
  BY <1>1, WriteStep, ControlStep, SetsStep, NumbersStep
     DEF TypeInv, TypeOK, ControlType, SetsType, CountersKept, Grows

\* The records of a stream stay as they are.
LEMMA Prefix ==
    ASSUME TypeInv, Grows, NEW i \in Items
    PROVE  /\ Len(log[i]) \in Nat /\ Len(log'[i]) \in Nat /\ Len(log[i]) <= Len(log'[i])
           /\ \A n \in 1..Len(log[i]) : log'[i][n] = log[i][n]
<1>1. log[i] \in Seq(Record) /\ log'[i] \in Seq(Record)
  BY DEF TypeInv, Grows
<1>2. PICK r \in {[old |-> item[i], new |-> item'[i]]} :
        log'[i] = log[i] \/ log'[i] = Append(log[i], r)
  BY DEF Grows
<1>3. CASE log'[i] = log[i]
  BY <1>1, <1>3
<1>4. CASE log'[i] = Append(log[i], r)
  BY <1>1, <1>4
<1> QED BY <1>2, <1>3, <1>4

\* The records of an item stay in order.
LEMMA LogStep ==
    ASSUME TypeInv, LogInv, [Next]_vars PROVE LogInv'
<1>0. Grows
  BY WriteStep
<1> SUFFICES ASSUME NEW i \in Items, NEW n \in 1..Len(log'[i])
             PROVE  /\ log'[i][n].new \subseteq item'[i]
                    /\ \A m \in 1..(n - 1) : log'[i][m].new \subseteq log'[i][n].old
  BY DEF LogInv
<1>1. item[i] \subseteq item'[i] /\ log[i] \in Seq(Record)
  BY <1>0 DEF Grows, TypeInv
<1>2. CASE n \in 1..Len(log[i])
  <2>1. log'[i][n] = log[i][n] /\ \A m \in 1..(n - 1) : log'[i][m] = log[i][m]
    BY <1>0, <1>2, Prefix
  <2> QED BY <1>1, <1>2, <2>1 DEF LogInv
<1>3. CASE n \notin 1..Len(log[i])
  <2>1. log'[i] = Append(log[i], [old |-> item[i], new |-> item'[i]])
    BY <1>0, <1>3 DEF Grows
  <2>2. n = Len(log[i]) + 1
    BY <1>1, <1>3, <2>1
  <2>3. log'[i][n].old = item[i] /\ log'[i][n].new = item'[i]
    BY <1>1, <2>1, <2>2
  <2>4. ASSUME NEW m \in 1..(n - 1) PROVE log'[i][m] = log[i][m] /\ m \in 1..Len(log[i])
    BY <1>1, <2>1, <2>2
  <2> QED BY <2>3, <2>4 DEF LogInv
<1> QED BY <1>2, <1>3

\* How the handling of a record goes on: it ends, stays on its branch, or takes its route.
PcMoves ==
    \A j \in Items :
        \/ pc'[j] = "idle"
        \/ /\ next'[j] = next[j]
           /\ \/ pc[j] # "idle" /\ Branch(pc'[j]) = Branch(pc[j])
              \/ next[j] <= Len(log[j]) /\ Branch(pc'[j]) = Route(j, log[j][next[j]])

\* Every step moves so.
LEMMA MoveStep ==
    ASSUME TypeInv, [Next]_vars
    PROVE  PcMoves
<1> USE ItemsAssumption, ConstantsAssumption DEF PcMoves
<1>1. CASE WriteMetadata
  BY <1>1 DEF WriteMetadata, Branch, Items, TypeInv, TypeOK
<1>2. ASSUME NEW i \in Items, StoreEvent(i) PROVE PcMoves
  BY <1>2 DEF StoreEvent, Branch, Items, TypeInv, TypeOK
<1>3. ASSUME NEW i \in Items, StartRecord(i) PROVE PcMoves
  <2> DEFINE route == Route(i, log[i][next[i]])
  <2>1. log[i][next[i]] \in Record /\ next[i] <= Len(log[i])
    BY <1>3, CurrentRecord DEF StartRecord, TypeInv, TypeOK
  <2>2. route \in {"idle", "read", "query", "publish"}
    BY <2>1, RouteFacts
  <2>3. Branch(route) = route \/ route = "idle"
    BY <2>2 DEF Branch
  <2> HIDE DEF route
  <2> QED BY <1>3, <2>1, <2>3 DEF StartRecord, Goto, Finish, TypeInv, TypeOK, route
<1>4. ASSUME NEW i \in Items, PublishJoined(i) PROVE PcMoves
  BY <1>4 DEF PublishJoined, Finish, Goto, Branch, Items, TypeInv, TypeOK
<1>5. ASSUME NEW f \in Files, ReadMaster(f) PROVE PcMoves
  BY <1>5 DEF ReadMaster, Finish, Goto, Branch, Items, TypeInv, TypeOK
<1>6. ASSUME NEW f \in Files, CopyMetadata(f) PROVE PcMoves
  BY <1>6 DEF CopyMetadata, Finish, Goto, Branch, Items, TypeInv, TypeOK
<1>7. ASSUME NEW f \in Files, CountJoined(f) PROVE PcMoves
  BY <1>7 DEF CountJoined, Finish, Goto, Branch, Items, TypeInv, TypeOK
<1>8. CASE QueryFiles
  BY <1>8 DEF QueryFiles, Goto, Branch, Items, TypeInv, TypeOK
<1>9. ASSUME NEW f \in Files, FanOutTo(f) PROVE PcMoves
  BY <1>9 DEF FanOutTo, Branch, Items, TypeInv, TypeOK
<1>10. CASE FanOutDone
  BY <1>10 DEF FanOutDone, Finish, Goto, Branch, Items, TypeInv, TypeOK
<1>11. ASSUME NEW f \in Files, ReconcileFile(f) PROVE PcMoves
  BY <1>11 DEF ReconcileFile, Finish, Goto, Branch, Items, TypeInv, TypeOK
<1>12. ASSUME NEW i \in Items, Fail(i) PROVE PcMoves
  BY <1>12, FailFacts DEF FailMoves, Branch, TypeInv, TypeOK
<1>13. CASE UNCHANGED vars
  BY <1>13 DEF vars, Branch, Items, TypeInv, TypeOK
<1> QED BY <1>1, <1>2, <1>3, <1>4, <1>5, <1>6, <1>7, <1>8, <1>9, <1>10, <1>11, <1>12,
    <1>13 DEF Next, FileStep, MasterStep

\* A finished record leaves its item at the next one.
LEMMA FinishNext ==
    ASSUME TypeInv, NEW i \in Items, Finish(i)
    PROVE  /\ next'[i] = next[i] + 1 /\ pc'[i] = "idle"
           /\ \A j \in Items : j # i => next'[j] = next[j] /\ pc'[j] = pc[j]
BY DEF TypeInv, TypeOK, Finish, Goto

\* Nothing is handled before it is there.
LEMMA NextStep ==
    ASSUME TypeInv, PcInv, [Next]_vars
    PROVE  \A j \in Items : next'[j] <= Len(log[j]) + 1
<1> USE ItemsAssumption, ConstantsAssumption
<1>a. /\ next \in [Items -> Nat \ {0}]
      /\ \A j \in Items : /\ Len(log[j]) \in Nat /\ next[j] \in Nat \ {0}
                          /\ next[j] <= Len(log[j]) + 1
                          /\ pc[j] # "idle" => next[j] <= Len(log[j])
      /\ Master \in Items /\ \A f \in Files : f \in Items
  <2>1. log \in [Items -> Seq(Record)] /\ next \in [Items -> Nat \ {0}]
    BY DEF TypeInv, TypeOK
  <2> QED BY <2>1 DEF PcInv, Items
<1>1. CASE WriteMetadata
  BY <1>1, <1>a DEF WriteMetadata
<1>2. ASSUME NEW i \in Items, StoreEvent(i)
      PROVE \A j \in Items : next'[j] <= Len(log[j]) + 1
  BY <1>2, <1>a DEF StoreEvent
<1>3. ASSUME NEW i \in Items, StartRecord(i)
      PROVE \A j \in Items : next'[j] <= Len(log[j]) + 1
  <2>1. next[i] <= Len(log[i]) /\ (Finish(i) \/ UNCHANGED next)
    BY <1>3 DEF StartRecord
  <2>2. CASE Finish(i)
    <3>1. next'[i] <= Len(log[i]) + 1
      BY <1>a, <2>1, <2>2, FinishNext
    <3> QED BY <1>a, <2>2, <3>1, FinishNext
  <2>3. CASE UNCHANGED next
    BY <1>a, <2>3
  <2> QED BY <2>1, <2>2, <2>3
<1>4. ASSUME NEW i \in Items, PublishJoined(i)
      PROVE \A j \in Items : next'[j] <= Len(log[j]) + 1
  <2>1. pc[i] = "publish" /\ (Finish(i) \/ UNCHANGED next)
    BY <1>4 DEF PublishJoined
  <2> QED BY <1>a, <2>1, FinishNext
<1>5. ASSUME NEW f \in Files, ReadMaster(f)
      PROVE \A j \in Items : next'[j] <= Len(log[j]) + 1
  BY <1>5, <1>a, FinishNext DEF ReadMaster
<1>6. ASSUME NEW f \in Files, CopyMetadata(f)
      PROVE \A j \in Items : next'[j] <= Len(log[j]) + 1
  BY <1>6, <1>a, FinishNext DEF CopyMetadata
<1>7. ASSUME NEW f \in Files, CountJoined(f)
      PROVE \A j \in Items : next'[j] <= Len(log[j]) + 1
  BY <1>7, <1>a, FinishNext DEF CountJoined
<1>8. CASE QueryFiles
  BY <1>8, <1>a DEF QueryFiles
<1>9. ASSUME NEW f \in Files, FanOutTo(f) PROVE \A j \in Items : next'[j] <= Len(log[j]) + 1
  BY <1>9, <1>a DEF FanOutTo
<1>10. CASE FanOutDone
  <2>1. pc[Master] = "fanout" /\ (Finish(Master) \/ UNCHANGED next)
    BY <1>10 DEF FanOutDone
  <2> QED BY <1>a, <2>1, FinishNext
<1>11. ASSUME NEW f \in Files, ReconcileFile(f)
      PROVE \A j \in Items : next'[j] <= Len(log[j]) + 1
  <2>1. pc[Master] = "reconcile" /\ (Finish(Master) \/ UNCHANGED next)
    BY <1>11 DEF ReconcileFile
  <2> QED BY <1>a, <2>1, FinishNext
<1>12. ASSUME NEW i \in Items, Fail(i) PROVE \A j \in Items : next'[j] <= Len(log[j]) + 1
  <2>1. /\ next' \in [Items -> Nat \ {0}]
        /\ \A j \in Items : next'[j] <= next[j] \/ next'[j] <= Len(log[j]) + 1
    BY <1>12, FailFacts DEF FailMoves
  <2> QED BY <1>a, <2>1
<1>13. CASE UNCHANGED vars
  BY <1>13, <1>a DEF vars
<1> QED BY <1>1, <1>2, <1>3, <1>4, <1>5, <1>6, <1>7, <1>8, <1>9, <1>10, <1>11, <1>12,
    <1>13 DEF Next, FileStep, MasterStep

\* Where the handling stands goes with the record's route.
LEMMA PcStep ==
    ASSUME TypeInv, PcInv, [Next]_vars PROVE PcInv'
<1>0. \A i \in Items : next'[i] <= Len(log'[i]) + 1
  <2>1. ASSUME NEW i \in Items
        PROVE  Len(log[i]) \in Nat /\ Len(log'[i]) \in Nat /\ Len(log[i]) <= Len(log'[i])
    BY WriteStep, Prefix
  <2>2. next' \in [Items -> Nat \ {0}]
    BY TypeStep DEF TypeInv, TypeOK
  <2> QED BY <2>1, <2>2, NextStep
<1> SUFFICES ASSUME NEW i \in Items, pc'[i] # "idle"
             PROVE  next'[i] <= Len(log'[i]) /\ Route(i, log'[i][next'[i]]) = Branch(pc'[i])
  BY <1>0 DEF PcInv
<1>1. /\ next'[i] = next[i] /\ next[i] \in Nat \ {0}
      /\ next[i] <= Len(log[i])
      /\ Route(i, log[i][next[i]]) = Branch(pc'[i])
  BY MoveStep DEF PcMoves, PcInv, TypeInv, TypeOK
<1>2. log'[i][next[i]] = log[i][next[i]] /\ next[i] <= Len(log'[i])
  BY <1>1, WriteStep, Prefix
<1> QED BY <1>1, <1>2

\* What the fan-out found stays so when its sets do.
LEMMA FanOutKeeps ==
    ASSUME TypeInv, FanOutInv, Grows, lost \subseteq lost',
           UNCHANGED <<emissionMode, query, todo, unannounced>>,
           todo = {} \/ pc'[Master] = "fanout",
           pc'[Master] = "reconcile" => pc[Master] = "reconcile"
    PROVE  FanOutInv'
<1>1. \A f \in Files, a \in Attributes : a \in item[f] => a \in item'[f]
  BY DEF Grows, Items
<1>2. query \subseteq Files /\ unannounced \subseteq Files
  BY DEF TypeInv, TypeOK
<1>3. "metadata" \in Attributes /\ "eventResult" \in Attributes
  BY DEF Attributes
<1> QED BY <1>1, <1>2, <1>3 DEF FanOutInv, Both

\* What the fan-out finds gets its metadata.
LEMMA FanOutStep ==
    ASSUME TypeInv, FanOutInv, [Next]_vars
    PROVE  FanOutInv'
<1> USE ItemsAssumption, ConstantsAssumption
<1>a. /\ Grows
      /\ \A f \in Files : /\ "metadata" \in item[f] => "metadata" \in item'[f]
                          /\ "eventResult" \in item[f] => "eventResult" \in item'[f]
      /\ pc \in [Items -> Labels] /\ Master \in Items
      /\ query \subseteq Files /\ todo \subseteq Files /\ unannounced \subseteq Files
  BY WriteStep DEF Grows, TypeInv, TypeOK, Items
<1>1. CASE WriteMetadata
  BY <1>1, <1>a, FanOutKeeps DEF WriteMetadata, FanOutInv
<1>2. ASSUME NEW i \in Items, StoreEvent(i) PROVE FanOutInv'
  BY <1>2, <1>a, FanOutKeeps DEF StoreEvent, FanOutInv
<1>3. ASSUME NEW i \in Items, StartRecord(i) PROVE FanOutInv'
  <2> DEFINE route == Route(i, log[i][next[i]])
  <2>1. log[i][next[i]] \in Record
    BY <1>3, CurrentRecord DEF StartRecord, TypeInv, TypeOK
  <2>2. route \in {"idle", "read", "query", "publish"}
    BY <2>1, RouteFacts
  <2> HIDE DEF route
  <2> QED BY <1>3, <1>a, <2>2, FanOutKeeps DEF StartRecord, Goto, Finish, FanOutInv, route
<1>4. ASSUME NEW i \in Items, PublishJoined(i) PROVE FanOutInv'
  BY <1>4, <1>a, FanOutKeeps DEF PublishJoined, AnnounceIfAllowed, PublishEvent,
     SomethingFails, Finish, Goto, FanOutInv
<1>5. ASSUME NEW f \in Files, ReadMaster(f) PROVE FanOutInv'
  BY <1>5, <1>a, FanOutKeeps DEF ReadMaster, Finish, Goto, FanOutInv
<1>6. ASSUME NEW f \in Files, CopyMetadata(f) PROVE FanOutInv'
  BY <1>6, <1>a, FanOutKeeps DEF CopyMetadata, Finish, Goto, FanOutInv
<1>7. ASSUME NEW f \in Files, CountJoined(f) PROVE FanOutInv'
  BY <1>7, <1>a, FanOutKeeps DEF CountJoined, Finish, Goto, FanOutInv
<1>8. CASE QueryFiles
  <2>1. PICK found \in SUBSET Indexed, bare \in SUBSET Indexed :
            /\ Uncopied \intersect found \subseteq bare /\ bare \subseteq found
            /\ query' = found /\ todo' = bare
    BY <1>8 DEF QueryFiles
  <2>2. \A f \in found : "eventResult" \in item[f] /\ ("metadata" \in item[f] \/ f \in bare)
    BY <2>1 DEF Indexed, Uncopied, Has
  <2>3. /\ pc' = [pc EXCEPT ![Master] = "fanout"]
        /\ UNCHANGED <<item, unannounced, lost>>
    BY <1>8 DEF QueryFiles, Goto
  <2> QED BY <2>1, <2>2, <2>3, <1>a DEF FanOutInv
<1>9. ASSUME NEW f \in Files, FanOutTo(f) PROVE FanOutInv'
  <2>1. "metadata" \in item'[f] \/ f \in lost'
    BY <1>9 DEF FanOutTo, SetMetadata, Write, Has, TypeInv, TypeOK, Items
  <2>2. /\ todo' = todo \ {f} /\ lost \subseteq lost' /\ pc[Master] = "fanout"
        /\ UNCHANGED <<emissionMode, pc, query, unannounced>>
    BY <1>9 DEF FanOutTo
  <2> QED BY <1>a, <2>1, <2>2 DEF FanOutInv, Both
<1>10. CASE FanOutDone
  <2>1. /\ todo = {} /\ query' = {} /\ pc[Master] = "fanout"
        /\ UNCHANGED <<emissionMode, todo, item, lost>>
        /\ \/ unannounced' = query /\ emissionMode # "none"
           \/ unannounced' = unannounced /\ pc'[Master] = "idle"
    BY <1>10, <1>a DEF FanOutDone, Finish, Goto
  <2> QED BY <1>a, <2>1 DEF FanOutInv, Both
<1>11. ASSUME NEW f \in Files, ReconcileFile(f) PROVE FanOutInv'
  <2>1. /\ unannounced' = unannounced \ {f} /\ lost \subseteq lost'
        /\ pc[Master] = "reconcile" /\ pc'[Master] \in {"idle", "reconcile"}
        /\ UNCHANGED <<emissionMode, todo, item, query>>
    BY <1>11, <1>a DEF ReconcileFile, Finish, Goto, AnnounceIfAllowed, PublishEvent
  <2> QED BY <1>a, <2>1 DEF FanOutInv
<1>12. ASSUME NEW i \in Items, Fail(i) PROVE FanOutInv'
  <2>1. CASE i = Master
    <3>1. query' = {} /\ todo' = {} /\ unannounced' = {} /\ pc'[Master] = "idle"
      BY <1>12, <2>1, <1>a DEF Fail, Goto
    <3> QED BY <3>1 DEF FanOutInv
  <2>2. CASE i # Master
    <3>1. /\ lost \subseteq lost' /\ pc'[Master] = pc[Master]
          /\ UNCHANGED <<emissionMode, query, todo, unannounced>>
      BY <1>12, <2>2, <1>a, FailFacts DEF Fail, FailMoves
    <3> QED BY <3>1, <1>a, FanOutKeeps DEF FanOutInv
  <2> QED BY <2>1, <2>2
<1>13. CASE UNCHANGED vars
  BY <1>13, <1>a, FanOutKeeps DEF vars, FanOutInv
<1> QED BY <1>1, <1>2, <1>3, <1>4, <1>5, <1>6, <1>7, <1>8, <1>9, <1>10, <1>11, <1>12,
    <1>13 DEF Next, FileStep, MasterStep

\* A record on its way to be published shows an item with both fields.
LEMMA PublishedIsComplete ==
    ASSUME TypeInv, LogInv, PcInv, NEW i \in Items, pc[i] = "publish"
    PROVE  Both \subseteq item[i]
<1>1. next[i] \in 1..Len(log[i]) /\ Route(i, log[i][next[i]]) = "publish"
  <2>1. log[i] \in Seq(Record) /\ next[i] \in Nat \ {0}
    BY DEF TypeInv, TypeOK
  <2> QED BY <2>1 DEF PcInv, Branch
<1>2. log[i][next[i]] \in Record
  BY <1>1, CurrentRecord
<1> QED BY <1>1, <1>2, RouteFacts DEF LogInv

\* Publishing adds one event or loses it.
LEMMA AnnounceOnce ==
    ASSUME TypeInv, NEW i \in Items, AnnounceIfAllowed(i)
    PROVE  /\ lost \subseteq lost' /\ (failures' = failures \/ failures' = failures + 1)
           /\ \A j \in Items : j # i => published'[j] = published[j]
           /\ published'[i] \in {published[i], published[i] + 1}
BY DEF TypeInv, TypeOK, AnnounceIfAllowed, PublishEvent, SomethingFails

\* An event goes out for a complete item only.
LEMMA NoEventStep ==
    ASSUME TypeInv, LogInv, PcInv, FanOutInv, NoEventBeforeJoin, [Next]_vars
    PROVE  NoEventBeforeJoin'
<1>1. \A i \in Items : "metadata" \in item[i] /\ "eventResult" \in item[i]
                         => "metadata" \in item'[i] /\ "eventResult" \in item'[i]
  BY WriteStep DEF Grows
<1>2. ASSUME NEW i \in Items, PublishJoined(i) PROVE NoEventBeforeJoin'
  <2>1. Both \subseteq item[i] /\ AnnounceIfAllowed(i)
    BY <1>2, PublishedIsComplete DEF PublishJoined
  <2> QED BY <1>1, <2>1, AnnounceOnce DEF NoEventBeforeJoin, Both
<1>3. ASSUME NEW f \in Files, ReconcileFile(f) PROVE NoEventBeforeJoin'
  <2>1. (Both \subseteq item[f] \/ f \in lost) /\ AnnounceIfAllowed(f) /\ f \in Items
    BY <1>3 DEF ReconcileFile, FanOutInv, Items
  <2> QED BY <1>1, <2>1, AnnounceOnce DEF NoEventBeforeJoin, Both
<1>4. ASSUME UNCHANGED published, lost \subseteq lost' PROVE NoEventBeforeJoin'
  BY <1>1, <1>4 DEF NoEventBeforeJoin
<1>6. \A i \in Items : Fail(i) => UNCHANGED published /\ lost \subseteq lost'
  BY FailFacts DEF Fail, FailMoves
<1>5. \/ UNCHANGED published /\ lost \subseteq lost'
      \/ \E i \in Items : PublishJoined(i)
      \/ \E f \in Files : ReconcileFile(f)
  BY <1>6
     DEF Next, FileStep, MasterStep, WriteMetadata, StoreEvent, StartRecord, ReadMaster,
         CopyMetadata, CountJoined, QueryFiles, FanOutTo, FanOutDone, vars
<1> QED BY <1>2, <1>3, <1>4, <1>5

\* What one write adds to a stream.
LEMMA WriteLength ==
    ASSUME TypeInv, NEW i \in Items, NEW image, Write(i, image)
    PROVE  /\ Len(log'[i]) = Len(log[i]) + 1 /\ Len(log[i]) \in Nat
           /\ item'[i] = image
           /\ \A j \in Items : j # i => log'[j] = log[j] /\ item'[j] = item[j]
<1>1. log \in [Items -> Seq(Record)] /\ item \in [Items -> SUBSET Attributes]
  BY DEF TypeInv, TypeOK
<1>2. PICK r : log'[i] = Append(log[i], r)
  BY <1>1 DEF Write, AppendRecord
<1>3. Len(log'[i]) = Len(log[i]) + 1 /\ Len(log[i]) \in Nat
  BY <1>1, <1>2
<1> QED BY <1>1, <1>3 DEF Write, AppendRecord

\* Counting a file, once, is one write to the master.
LEMMA CountLength ==
    ASSUME TypeInv, NEW f \in Files, CountInMaster(f), UNCHANGED <<item, events>>, FeedbackInv
    PROVE  FeedbackInv'
<1>1. CASE f \in counted
  BY <1>1 DEF CountInMaster, FeedbackInv
<1>2. CASE f \notin counted
  <2>1. Write(Master, item[Master]) /\ counted' = counted \union {f}
    BY <1>2 DEF CountInMaster, Write, TypeInv, TypeOK
  <2>2. IsFiniteSet(counted)
    BY ItemsAssumption, FS_Subset DEF TypeInv, TypeOK
  <2>3. Cardinality(counted') = Cardinality(counted) + 1 /\ Cardinality(counted) \in Nat
    BY <1>2, <2>1, <2>2, FS_AddElement, FS_CardinalityType
  <2>4. Master \in Items /\ \A g \in Files : g \in Items /\ g # Master
    BY ItemsAssumption DEF Items
  <2>5. events[Master] \in Nat
    BY <2>4, ConstantsAssumption DEF TypeInv, TypeOK
  <2> QED BY <2>1, <2>3, <2>4, <2>5, WriteLength DEF FeedbackInv
<1> QED BY <1>1, <1>2

\* The Joiner writes an item's metadata once and its counting once per file.
LEMMA FeedbackStep ==
    ASSUME TypeInv, FeedbackInv, [Next]_vars
    PROVE  FeedbackInv'
<1> USE ItemsAssumption, ConstantsAssumption
<1>a. /\ Master \in Items /\ \A f \in Files : f \in Items /\ f # Master
      /\ events \in [Items -> Nat] /\ Cardinality(counted) \in Nat
      /\ \A i \in Items : Len(log[i]) \in Nat
  BY FS_Subset, FS_CardinalityType DEF TypeInv, TypeOK, Items
<1>1. CASE WriteMetadata
  <2> DEFINE image == item[Master] \union {"metadata"}
                          \union (IF emissionMode = "none" THEN {} ELSE {"fileStatuses"})
  <2>1. Write(Master, image) /\ "metadata" \notin item[Master] /\ "metadata" \in image
        /\ UNCHANGED <<events, counted>>
    BY <1>1 DEF WriteMetadata, Has
  <2> HIDE DEF image
  <2> QED BY <1>a, <2>1, WriteLength DEF FeedbackInv
<1>2. ASSUME NEW i \in Items, StoreEvent(i) PROVE FeedbackInv'
  <2> DEFINE image == item[i] \union {"eventResult"}
  <2>1. /\ Write(i, image) \/ UNCHANGED <<item, log>>
        /\ events' = [events EXCEPT ![i] = @ + 1] /\ counted' = counted
    BY <1>2 DEF StoreEvent
  <2>2. "metadata" \in image <=> "metadata" \in item[i]
    OBVIOUS
  <2>3. events'[i] = events[i] + 1 /\ \A j \in Items : j # i => events'[j] = events[j]
    BY <1>a, <2>1
  <2> HIDE DEF image
  <2>4. CASE Write(i, image)
    <3>1. /\ Len(log'[i]) = Len(log[i]) + 1 /\ item'[i] = image
          /\ \A j \in Items : j # i => log'[j] = log[j] /\ item'[j] = item[j]
      BY <2>4, WriteLength
    <3>2. CASE i = Master
      <4>1. Len(log[Master]) <= events[Master] + Cardinality(counted)
                                 + (IF "metadata" \in item[Master] THEN 1 ELSE 0)
        BY DEF FeedbackInv
      <4>2. Len(log'[Master]) <= events'[Master] + Cardinality(counted')
                                  + (IF "metadata" \in item'[Master] THEN 1 ELSE 0)
        BY <1>a, <2>1, <2>2, <2>3, <3>1, <3>2, <4>1
      <4>3. \A g \in Files : /\ log'[g] = log[g] /\ item'[g] = item[g]
                             /\ events'[g] = events[g]
        BY <1>a, <2>3, <3>1, <3>2
      <4> QED BY <4>2, <4>3 DEF FeedbackInv
    <3>3. CASE i # Master
      <4>1. Len(log'[Master]) <= events'[Master] + Cardinality(counted')
                                  + (IF "metadata" \in item'[Master] THEN 1 ELSE 0)
        BY <1>a, <2>1, <2>3, <3>1, <3>3 DEF FeedbackInv
      <4>2. ASSUME NEW g \in Files
            PROVE  Len(log'[g]) <= events'[g] + (IF "metadata" \in item'[g] THEN 1 ELSE 0)
        <5>1. CASE g = i
          <6>1. Len(log[g]) <= events[g] + (IF "metadata" \in item[g] THEN 1 ELSE 0)
            BY DEF FeedbackInv
          <6> QED BY <1>a, <2>2, <2>3, <3>1, <5>1, <6>1
        <5>2. CASE g # i
          BY <1>a, <2>3, <3>1, <5>2 DEF FeedbackInv
        <5> QED BY <5>1, <5>2
      <4> QED BY <4>1, <4>2 DEF FeedbackInv
    <3> QED BY <3>2, <3>3
  <2>5. CASE UNCHANGED <<item, log>>
    BY <1>a, <2>1, <2>3, <2>5 DEF FeedbackInv
  <2> QED BY <2>1, <2>4, <2>5
<1>3. ASSUME NEW i \in Items, StartRecord(i) PROVE FeedbackInv'
  BY <1>3 DEF StartRecord, FeedbackInv
<1>4. ASSUME NEW i \in Items, PublishJoined(i) PROVE FeedbackInv'
  BY <1>4 DEF PublishJoined, FeedbackInv
<1>5. ASSUME NEW f \in Files, ReadMaster(f) PROVE FeedbackInv'
  BY <1>5 DEF ReadMaster, FeedbackInv
<1>6. ASSUME NEW f \in Files, CopyMetadata(f) PROVE FeedbackInv'
  <2>1. SetMetadata(f) /\ UNCHANGED <<events, counted>>
    BY <1>6 DEF CopyMetadata
  <2>2. (Write(f, item[f] \union {"metadata"}) /\ "metadata" \notin item[f])
        \/ UNCHANGED <<item, log>>
    BY <2>1 DEF SetMetadata, Has
  <2> DEFINE image == item[f] \union {"metadata"}
  <2>3. "metadata" \in image
    OBVIOUS
  <2> HIDE DEF image
  <2>4. CASE Write(f, image) /\ "metadata" \notin item[f]
    <3>1. /\ Len(log'[f]) = Len(log[f]) + 1 /\ item'[f] = image
          /\ \A j \in Items : j # f => log'[j] = log[j] /\ item'[j] = item[j]
      BY <1>a, <2>4, WriteLength
    <3>2. Len(log[f]) <= events[f]
      BY <1>a, <2>4 DEF FeedbackInv
    <3>3. Len(log'[f]) <= events'[f] + (IF "metadata" \in item'[f] THEN 1 ELSE 0)
      BY <1>a, <2>1, <2>3, <3>1, <3>2
    <3> QED BY <1>a, <2>1, <3>1, <3>3 DEF FeedbackInv
  <2>5. CASE UNCHANGED <<item, log>>
    BY <2>1, <2>5 DEF FeedbackInv
  <2> QED BY <2>2, <2>4, <2>5 DEF image
<1>7. ASSUME NEW f \in Files, CountJoined(f) PROVE FeedbackInv'
  BY <1>7, CountLength DEF CountJoined
<1>8. CASE QueryFiles
  BY <1>8 DEF QueryFiles, FeedbackInv
<1>9. ASSUME NEW f \in Files, FanOutTo(f) PROVE FeedbackInv'
  <2>1. (SetMetadata(f) \/ UNCHANGED <<item, log>>) /\ UNCHANGED <<events, counted>>
    BY <1>9 DEF FanOutTo
  <2>2. (Write(f, item[f] \union {"metadata"}) /\ "metadata" \notin item[f])
        \/ UNCHANGED <<item, log>>
    BY <2>1 DEF SetMetadata, Has
  <2> DEFINE image == item[f] \union {"metadata"}
  <2>3. "metadata" \in image
    OBVIOUS
  <2> HIDE DEF image
  <2>4. CASE Write(f, image) /\ "metadata" \notin item[f]
    <3>1. /\ Len(log'[f]) = Len(log[f]) + 1 /\ item'[f] = image
          /\ \A j \in Items : j # f => log'[j] = log[j] /\ item'[j] = item[j]
      BY <1>a, <2>4, WriteLength
    <3>2. Len(log[f]) <= events[f]
      BY <1>a, <2>4 DEF FeedbackInv
    <3>3. Len(log'[f]) <= events'[f] + (IF "metadata" \in item'[f] THEN 1 ELSE 0)
      BY <1>a, <2>1, <2>3, <3>1, <3>2
    <3> QED BY <1>a, <2>1, <3>1, <3>3 DEF FeedbackInv
  <2>5. CASE UNCHANGED <<item, log>>
    BY <2>1, <2>5 DEF FeedbackInv
  <2> QED BY <2>2, <2>4, <2>5 DEF image
<1>10. CASE FanOutDone
  BY <1>10 DEF FanOutDone, FeedbackInv
<1>11. ASSUME NEW f \in Files, ReconcileFile(f) PROVE FeedbackInv'
  BY <1>11, CountLength DEF ReconcileFile
<1>12. ASSUME NEW i \in Items, Fail(i) PROVE FeedbackInv'
  BY <1>12 DEF Fail, FeedbackInv
<1>13. CASE UNCHANGED vars
  BY <1>13 DEF vars, FeedbackInv
<1> QED BY <1>1, <1>2, <1>3, <1>4, <1>5, <1>6, <1>7, <1>8, <1>9, <1>10, <1>11, <1>12,
    <1>13 DEF Next, FileStep, MasterStep

\* What is past stays past.
LEMMA PastKeeps ==
    ASSUME TypeInv, [Next]_vars, NEW i \in Items, next[i] <= next'[i], NEW route, Past(i, route)
    PROVE  Past(i, route)'
<1>1. PICK n \in 1..Len(log[i]) : n < next[i] /\ Route(i, log[i][n]) = route
  BY DEF Past
<1>2. n \in 1..Len(log'[i]) /\ log'[i][n] = log[i][n]
  BY WriteStep, Prefix
<1>3. n < next'[i]
  BY <1>1, TypeStep DEF TypeInv, TypeOK
<1> QED BY <1>1, <1>2, <1>3 DEF Past

\* A record that was finished is past.
LEMMA PastGains ==
    ASSUME TypeInv, [Next]_vars, NEW i \in Items, next'[i] = next[i] + 1, next[i] <= Len(log[i]),
           NEW route, Route(i, log[i][next[i]]) = route
    PROVE  Past(i, route)'
<1>1. next[i] \in Nat \ {0} /\ log[i] \in Seq(Record)
  BY DEF TypeInv, TypeOK
<1>2. next[i] \in 1..Len(log[i]) /\ next[i] < next'[i]
  BY <1>1
<1>3. next[i] \in 1..Len(log'[i]) /\ log'[i][next[i]] = log[i][next[i]]
  BY <1>2, WriteStep, Prefix
<1> QED BY <1>2, <1>3 DEF Past

\* An item's stream has one record that leads to a publication, and one that leads to a
\* fan-out: the next such record would show, in its old image, what the first had added.
LEMMA OnlyOnce ==
    ASSUME TypeInv, LogInv, PcInv, NEW i \in Items, pc[i] # "idle",
           Branch(pc[i]) \in {"publish", "query"}
    PROVE  ~Past(i, Branch(pc[i]))
<1> SUFFICES ASSUME NEW n \in 1..Len(log[i]), n < next[i],
                    Route(i, log[i][n]) = Branch(pc[i])
             PROVE  FALSE
  BY DEF Past
<1>1. log[i] \in Seq(Record) /\ next[i] \in Nat \ {0}
  BY DEF TypeInv, TypeOK
<1>2. next[i] \in 1..Len(log[i]) /\ Route(i, log[i][next[i]]) = Branch(pc[i])
  BY <1>1 DEF PcInv
<1>3. log[i][n] \in Record /\ log[i][next[i]] \in Record
  BY <1>1, <1>2
<1>4. log[i][n].new \subseteq log[i][next[i]].old
  BY <1>1, <1>2 DEF LogInv
<1> QED BY <1>2, <1>3, <1>4, RouteFacts DEF Both

\* Without a failure the handling goes forward.
Forward ==
    /\ \A j \in Items :
        \/ next'[j] = next[j] + 1
        \/ next'[j] = next[j] /\ (pc[j] \in {"count", "reconcile"} => pc'[j] = pc[j])
    /\ pc[Master] = "reconcile" => unannounced' \subseteq unannounced

\* Every step that does not end an invocation with an error is such a step.
LEMMA ForwardStep ==
    ASSUME TypeInv, [Next]_vars, \A i \in Items : ~Fail(i)
    PROVE  Forward
<1> USE ItemsAssumption, ConstantsAssumption
<1>a. /\ pc \in [Items -> Labels] /\ next \in [Items -> Nat \ {0}] /\ failures \in Nat
      /\ Master \in Items /\ \A f \in Files : f \in Items /\ f # Master
  BY DEF TypeInv, TypeOK, Items
<1>1. CASE WriteMetadata
  BY <1>1, <1>a, FinishNext DEF WriteMetadata, Forward
<1>2. ASSUME NEW i \in Items, StoreEvent(i) PROVE Forward
  BY <1>2, <1>a, FinishNext DEF StoreEvent, Forward
<1>3. ASSUME NEW i \in Items, StartRecord(i) PROVE Forward
  <2>1. /\ pc[i] = "idle" /\ UNCHANGED unannounced
        /\ \/ Finish(i)
           \/ UNCHANGED next /\ \A j \in Items : j # i => pc'[j] = pc[j]
    BY <1>3, <1>a DEF StartRecord, Goto
  <2> QED BY <1>a, <2>1, FinishNext DEF Forward
<1>4. ASSUME NEW i \in Items, PublishJoined(i) PROVE Forward
  <2>1. /\ pc[i] = "publish" /\ UNCHANGED unannounced
        /\ \/ Finish(i)
           \/ UNCHANGED next /\ \A j \in Items : j # i => pc'[j] = pc[j]
    BY <1>4, <1>a DEF PublishJoined, Goto
  <2> QED BY <1>a, <2>1, FinishNext DEF Forward
<1>5. ASSUME NEW f \in Files, ReadMaster(f) PROVE Forward
  BY <1>5, <1>a, FinishNext DEF ReadMaster, Goto, Forward
<1>6. ASSUME NEW f \in Files, CopyMetadata(f) PROVE Forward
  BY <1>6, <1>a, FinishNext DEF CopyMetadata, Goto, Forward
<1>7. ASSUME NEW f \in Files, CountJoined(f) PROVE Forward
  BY <1>7, <1>a, FinishNext DEF CountJoined, Goto, Forward
<1>8. CASE QueryFiles
  BY <1>8, <1>a, FinishNext DEF QueryFiles, Goto, Forward
<1>9. ASSUME NEW f \in Files, FanOutTo(f) PROVE Forward
  BY <1>9, <1>a, FinishNext DEF FanOutTo, Forward
<1>10. CASE FanOutDone
  <2>1. /\ pc[Master] = "fanout"
        /\ \/ Finish(Master)
           \/ UNCHANGED next /\ \A j \in Items : j # Master => pc'[j] = pc[j]
    BY <1>10, <1>a DEF FanOutDone, Goto
  <2> QED BY <1>a, <2>1, FinishNext DEF Forward
<1>11. ASSUME NEW f \in Files, ReconcileFile(f) PROVE Forward
  <2>1. /\ unannounced' \subseteq unannounced
        /\ Finish(Master) \/ UNCHANGED <<next, pc>>
    BY <1>11 DEF ReconcileFile
  <2> QED BY <1>a, <2>1, FinishNext DEF Forward
<1>12. CASE UNCHANGED vars
  BY <1>12, <1>a, FinishNext DEF vars, Forward
<1> QED BY <1>1, <1>2, <1>3, <1>4, <1>5, <1>6, <1>7, <1>8, <1>9, <1>10, <1>11, <1>12
    DEF Next, FileStep, MasterStep

\* Failures are counted one by one, and no loss and no miss is ever forgotten.
LEMMA FailureCount ==
    ASSUME TypeInv, [Next]_vars
    PROVE  /\ failures' = failures \/ failures' = failures + 1
           /\ lost \subseteq lost' /\ missed \subseteq missed'
<1>1. ASSUME NEW i \in Items, AnnounceIfAllowed(i)
      PROVE  (failures' = failures \/ failures' = failures + 1) /\ lost \subseteq lost'
  BY <1>1, AnnounceOnce
<1>2. ASSUME NEW i \in Items, Fail(i)
      PROVE  (failures' = failures \/ failures' = failures + 1) /\ lost \subseteq lost'
  BY <1>2, FailFacts DEF Fail, FailMoves, SomethingFails
<1>4. missed \subseteq missed'
  BY DEF Next, FileStep, MasterStep, WriteMetadata, StoreEvent, StartRecord, PublishJoined,
         ReadMaster, CopyMetadata, CountJoined, QueryFiles, FanOutTo, FanOutDone,
         ReconcileFile, Fail, vars
<1>3. Files \subseteq Items
  BY DEF Items
<1> QED
  BY <1>1, <1>2, <1>3, <1>4
     DEF Next, FileStep, MasterStep, WriteMetadata, StoreEvent, StartRecord, PublishJoined,
         ReadMaster, CopyMetadata, CountJoined, QueryFiles, FanOutTo, FanOutDone,
         ReconcileFile, SomethingFails, vars

\* The two ways to an item's event are each used up for good.
LEMMA BudgetKeeps ==
    ASSUME TypeInv, PcInv, [Next]_vars, \A j \in Items : ~Fail(j), NEW i \in Items
    PROVE  /\ Streamed(i) => Streamed(i)'
           /\ Reconciled(i) => Reconciled(i)'
<1>1. Forward /\ Master \in Items
  BY ForwardStep DEF Items
<1>2. \A j \in Items : next[j] <= next'[j]
  <2>1. \A j \in Items : next[j] \in Nat
    BY DEF TypeInv, TypeOK
  <2> QED BY <1>1, <2>1 DEF Forward
<1>3. ASSUME Streamed(i) PROVE Streamed(i)'
  <2>1. CASE Past(i, "publish")
    BY <1>2, <2>1, PastKeeps DEF Streamed
  <2>2. CASE pc[i] = "count" /\ next'[i] = next[i]
    BY <1>1, <2>2 DEF Forward, Streamed, TypeInv, TypeOK
  <2>3. CASE pc[i] = "count" /\ next'[i] = next[i] + 1
    <3>1. next[i] <= Len(log[i]) /\ Route(i, log[i][next[i]]) = "publish"
      BY <2>3 DEF PcInv, Branch
    <3>2. Past(i, "publish")'
      BY <2>3, <3>1, PastGains
    <3> QED BY <3>2 DEF Streamed
  <2> QED BY <1>1, <1>3, <2>1, <2>2, <2>3 DEF Forward, Streamed
<1>4. ASSUME Reconciled(i) PROVE Reconciled(i)'
  <2>0. i \in Files /\ emissionMode' = emissionMode /\ emissionMode # "none"
    BY <1>4, NumbersStep DEF CountersKept, Reconciled
  <2>1. CASE Past(Master, "query")
    BY <1>1, <1>2, <2>0, <2>1, PastKeeps DEF Reconciled
  <2>2. CASE pc[Master] = "reconcile" /\ i \notin unannounced /\ next'[Master] = next[Master]
    BY <1>1, <2>0, <2>2 DEF Forward, Reconciled, TypeInv, TypeOK
  <2>3. CASE pc[Master] = "reconcile" /\ next'[Master] = next[Master] + 1
    <3>1. next[Master] <= Len(log[Master]) /\ Route(Master, log[Master][next[Master]]) = "query"
      BY <1>1, <2>3 DEF PcInv, Branch
    <3>2. Past(Master, "query")'
      BY <1>1, <2>3, <3>1, PastGains
    <3> QED BY <2>0, <3>2 DEF Reconciled
  <2> QED BY <1>1, <1>4, <2>1, <2>2, <2>3 DEF Forward, Reconciled
<1> QED BY <1>3, <1>4

\* Each event sent uses up one of them.
LEMMA OnceStep ==
    ASSUME TypeInv, LogInv, PcInv, FanOutInv, OnceInv, [Next]_vars PROVE OnceInv'
<1> SUFFICES \A j \in Items : published'[j] <= (IF Streamed(j)' THEN 1 ELSE 0)
                                               + (IF Reconciled(j)' THEN 1 ELSE 0) + Repeats'
  BY DEF OnceInv, Items
<1>0. failures \in Nat /\ (failures' = failures \/ failures' = failures + 1)
  BY FailureCount, ConstantsAssumption DEF TypeInv, TypeOK
<1>1. Repeats \in Nat /\ Repeats' \in Nat /\ Repeats <= Repeats'
  BY <1>0, NumbersStep DEF Repeats, CountersKept
<1>2. published \in [Items -> Nat] /\ published' \in [Items -> Nat]
  BY NumbersStep DEF CountersKept, TypeInv, TypeOK
<1>3. ASSUME \A i \in Items : ~Fail(i)
      PROVE  \A j \in Items : /\ published[j] <= (IF Streamed(j) THEN 1 ELSE 0)
                                                 + (IF Reconciled(j) THEN 1 ELSE 0) + Repeats
                              /\ Streamed(j) => Streamed(j)'
                              /\ Reconciled(j) => Reconciled(j)'
  BY <1>3, BudgetKeeps DEF OnceInv
<1>4. ASSUME UNCHANGED published, \A i \in Items : ~Fail(i)
      PROVE  \A j \in Items : published'[j] <= (IF Streamed(j)' THEN 1 ELSE 0)
                                               + (IF Reconciled(j)' THEN 1 ELSE 0) + Repeats'
  BY <1>1, <1>2, <1>3, <1>4
<1>8. ASSUME NEW i \in Items, Fail(i)
      PROVE  \A j \in Items : published'[j] <= (IF Streamed(j)' THEN 1 ELSE 0)
                                               + (IF Reconciled(j)' THEN 1 ELSE 0) + Repeats'
  <2> TAKE j \in Items
  <2>1. published'[j] = published[j] /\ failures' = failures + 1
    BY <1>8 DEF Fail, SomethingFails
  <2>2. published[j] <= (IF Streamed(j) THEN 1 ELSE 0)
                        + (IF Reconciled(j) THEN 1 ELSE 0) + Repeats
    BY DEF OnceInv
  <2>3. emissionMode' = emissionMode /\ published[j] \in Nat
    BY <1>2, NumbersStep DEF CountersKept
  <2>4. CASE emissionMode = "none"
    <3>1. ~Reconciled(j)
      BY <2>4 DEF Reconciled
    <3>2. published[j] <= 1 + Repeats
      BY <1>1, <2>2, <2>3, <3>1
    <3>3. Repeats' = 1 + Repeats
      BY <1>0, <2>1, <2>3, <2>4 DEF Repeats
    <3> QED BY <1>1, <2>1, <2>3, <3>2, <3>3
  <2>5. CASE emissionMode # "none"
    <3>1. published[j] <= 2 + Repeats
      BY <1>1, <2>2, <2>3
    <3>2. Repeats' = 2 + Repeats
      BY <1>0, <2>1, <2>3, <2>5 DEF Repeats
    <3> QED BY <1>1, <2>1, <2>3, <3>1, <3>2
  <2> QED BY <2>4, <2>5
<1>5. ASSUME NEW i \in Items, PublishJoined(i), \A k \in Items : ~Fail(k)
      PROVE  \A j \in Items : published'[j] <= (IF Streamed(j)' THEN 1 ELSE 0)
                                               + (IF Reconciled(j)' THEN 1 ELSE 0) + Repeats'
  <2>1. pc[i] = "publish" /\ AnnounceIfAllowed(i)
    BY <1>5 DEF PublishJoined
  <2>2. next[i] <= Len(log[i]) /\ Route(i, log[i][next[i]]) = "publish"
    BY <2>1 DEF PcInv, Branch
  <2>3. ~Streamed(i)
    BY <2>1, OnlyOnce DEF Streamed, Branch
  <2>4. Streamed(i)'
    <3>1. Finish(i) \/ pc'[i] = "count"
      BY <1>5 DEF PublishJoined, Goto, TypeInv, TypeOK
    <3>2. ASSUME Finish(i) PROVE Past(i, "publish")'
      BY <2>2, <3>2, FinishNext, PastGains
    <3> QED BY <3>1, <3>2 DEF Streamed
  <2>5. /\ published'[i] \in {published[i], published[i] + 1}
        /\ \A j \in Items : j # i => published'[j] = published[j]
    BY <2>1, AnnounceOnce
  <2> QED BY <1>1, <1>2, <1>3, <1>5, <2>3, <2>4, <2>5
<1>6. ASSUME NEW f \in Files, ReconcileFile(f), \A k \in Items : ~Fail(k)
      PROVE  \A j \in Items : published'[j] <= (IF Streamed(j)' THEN 1 ELSE 0)
                                               + (IF Reconciled(j)' THEN 1 ELSE 0) + Repeats'
  <2>0. f \in Items /\ Master \in Items
    BY DEF Items
  <2>1. /\ pc[Master] = "reconcile" /\ AnnounceIfAllowed(f)
        /\ f \in unannounced /\ unannounced' = unannounced \ {f}
    BY <1>6 DEF ReconcileFile
  <2>2. /\ next[Master] <= Len(log[Master])
        /\ Route(Master, log[Master][next[Master]]) = "query"
    BY <2>0, <2>1 DEF PcInv, Branch
  <2>3. ~Reconciled(f)
    BY <2>0, <2>1, OnlyOnce DEF Reconciled, Branch
  <2>4. Reconciled(f)'
    <3>1. Finish(Master) \/ pc'[Master] = "reconcile"
      BY <1>6, <2>1 DEF ReconcileFile
    <3>2. ASSUME Finish(Master) PROVE Past(Master, "query")'
      BY <2>0, <2>2, <3>2, FinishNext, PastGains
    <3>3. emissionMode' # "none"
      BY <2>1, NumbersStep DEF CountersKept, FanOutInv
    <3> QED BY <2>1, <3>1, <3>2, <3>3 DEF Reconciled
  <2>5. /\ published'[f] \in {published[f], published[f] + 1}
        /\ \A j \in Items : j # f => published'[j] = published[j]
    BY <2>0, <2>1, AnnounceOnce
  <2> QED BY <2>0, <1>1, <1>2, <1>3, <1>6, <2>3, <2>4, <2>5
<1>7. UNCHANGED published \/ (\E i \in Items : PublishJoined(i))
                          \/ (\E f \in Files : ReconcileFile(f))
  BY DEF Next, FileStep, MasterStep, WriteMetadata, StoreEvent, StartRecord, ReadMaster,
         CopyMetadata, CountJoined, QueryFiles, FanOutTo, FanOutDone, Fail, vars
<1> QED BY <1>4, <1>5, <1>6, <1>7, <1>8

\* Which events there are is settled by the operation.
LEMMA EventsStep ==
    ASSUME TypeInv, EventsInv, [Next]_vars PROVE EventsInv'
<1>1. ASSUME NEW i \in Items, "eventResult" \in item'[i], "eventResult" \notin item[i]
      PROVE  i \in IF operation = "transfer" THEN Files ELSE {Master}
  <2>0. item \in [Items -> SUBSET Attributes] /\ Master \in Items /\ Files \subseteq Items
    BY DEF TypeInv, TypeOK, Items
  <2>1. ~WriteMetadata
    BY <2>0, <1>1 DEF WriteMetadata, Write
  <2>2. \A f \in Files : SetMetadata(f) => item'[i] \subseteq item[i] \union {"metadata"}
    BY <2>0 DEF SetMetadata, Write
  <2>3. UNCHANGED item \/ \E j \in Items : StoreEvent(j)
    BY <1>1, <2>1, <2>2
       DEF Next, FileStep, MasterStep, StartRecord, PublishJoined, ReadMaster, CopyMetadata,
           CountJoined, QueryFiles, FanOutTo, FanOutDone, ReconcileFile, Fail, vars
  <2>4. PICK j \in Items : StoreEvent(j)
    BY <1>1, <2>3
  <2>5. j = i
    BY <2>0, <2>4, <1>1 DEF StoreEvent, Write
  <2> QED BY <2>4, <2>5 DEF StoreEvent
<1>2. operation' = operation /\ Master \in Items /\ \A f \in Files : f \in Items /\ f # Master
  BY NumbersStep, ItemsAssumption DEF CountersKept, Items
<1> QED BY <1>1, <1>2 DEF EventsInv, TypeInv, TypeOK

\* A record that is written is still to be handled.
LEMMA NewRecord ==
    ASSUME TypeInv, PcInv, [Next]_vars, NEW i \in Items, item'[i] # item[i]
    PROVE  LET n == Len(log[i]) + 1 IN
           /\ n \in 1..Len(log'[i]) /\ log'[i][n] \in Record
           /\ log'[i][n].old = item[i] /\ log'[i][n].new = item'[i]
           /\ next'[i] <= n
           /\ next'[i] = n => pc'[i] = "idle"
<1> DEFINE r == [old |-> item[i], new |-> item'[i]]
<1>1. log'[i] = Append(log[i], r)
  BY WriteStep DEF Grows
<1>2. log[i] \in Seq(Record) /\ log'[i] \in Seq(Record)
  BY WriteStep DEF Grows, TypeInv
<1>3. Len(log'[i]) = Len(log[i]) + 1 /\ log'[i][Len(log[i]) + 1] = r
  BY <1>1, <1>2
<1>4. log'[i][Len(log[i]) + 1] \in Record
  BY <1>2, <1>3
<1>5. next'[i] <= Len(log[i]) + 1
  BY NextStep
<1>6. next'[i] = Len(log[i]) + 1 => pc'[i] = "idle"
  <2>1. next'[i] = next[i] => next[i] \in Nat /\ next[i] = next'[i]
    BY DEF TypeInv, TypeOK
  <2> QED BY <1>2, <2>1, MoveStep DEF PcMoves, PcInv
<1> QED BY <1>2, <1>3, <1>4, <1>5, <1>6

\* After a copy the metadata is there.
LEMMA MetadataSet ==
    ASSUME TypeInv, NEW i \in Items, SetMetadata(i)
    PROVE  "metadata" \in item'[i]
BY DEF TypeInv, TypeOK, SetMetadata, Write, Has

\* A file that is to be read for stays so until it is: a read that finds no metadata is one
\* that came before the metadata, or one that missed it.
LEMMA PullStep ==
    ASSUME TypeInv, PcInv, NEW g \in Files, g \notin lost' \union missed',
           "metadata" \in item[Master], "metadata" \notin item'[g], PullPending(g), [Next]_vars
    PROVE  PullPending(g)'
<1> USE ItemsAssumption, ConstantsAssumption
<1>a. /\ next \in [Items -> Nat \ {0}] /\ pc \in [Items -> Labels] /\ Master \in Items
      /\ g \in Items /\ g # Master /\ \A f \in Files : f \in Items /\ f # Master
      /\ \A i \in Items : Len(log[i]) \in Nat
      /\ \A i \in Items : pc[i] # "idle" => Route(i, log[i][next[i]]) = Branch(pc[i])
  <2>1. /\ log \in [Items -> Seq(Record)] /\ next \in [Items -> Nat \ {0}]
        /\ pc \in [Items -> Labels]
    BY DEF TypeInv, TypeOK
  <2> QED BY <2>1, ItemsAssumption DEF PcInv, Items
<1>c. PICK n \in 1..Len(log[g]) : next[g] <= n /\ Route(g, log[g][n]) = "read"
  BY DEF PullPending
<1>d. n \in 1..Len(log'[g]) /\ log'[g][n] = log[g][n]
  BY <1>a, WriteStep, Prefix
<1>b. /\ Route(g, log[g][n]) = "read" /\ n \in Nat /\ next[g] <= n /\ n <= Len(log[g])
      /\ next'[g] <= n => PullPending(g)'
  BY <1>a, <1>c, <1>d DEF PullPending
<1>1. CASE WriteMetadata
  BY <1>1, <1>a, <1>b DEF WriteMetadata
<1>2. ASSUME NEW i \in Items, StoreEvent(i) PROVE PullPending(g)'
  BY <1>2, <1>a, <1>b DEF StoreEvent
<1>3. ASSUME NEW i \in Items, StartRecord(i) PROVE PullPending(g)'
  <2>1. \/ UNCHANGED next
        \/ Finish(i) /\ Route(i, log[i][next[i]]) = "idle"
    BY <1>3 DEF StartRecord
  <2> QED BY <1>a, <1>b, <2>1, FinishNext
<1>4. ASSUME NEW i \in Items, PublishJoined(i) PROVE PullPending(g)'
  <2>1. pc[i] = "publish" /\ (UNCHANGED next \/ Finish(i))
    BY <1>4 DEF PublishJoined
  <2> QED BY <1>a, <1>b, <2>1, FinishNext DEF Branch
<1>5. ASSUME NEW f \in Files, ReadMaster(f) PROVE PullPending(g)'
  <2>1. UNCHANGED next \/ (Finish(f) /\ f \in missed')
    BY <1>5 DEF ReadMaster, MasterSeen, Has
  <2> QED BY <1>a, <1>b, <2>1, FinishNext
<1>6. ASSUME NEW f \in Files, CopyMetadata(f) PROVE PullPending(g)'
  <2>1. Finish(f) /\ "metadata" \in item'[f]
    BY <1>6, <1>a, MetadataSet DEF CopyMetadata
  <2> QED BY <1>a, <1>b, <2>1, FinishNext
<1>7. ASSUME NEW f \in Files, CountJoined(f) PROVE PullPending(g)'
  <2>1. Finish(f) /\ pc[f] = "count"
    BY <1>7 DEF CountJoined
  <2> QED BY <1>a, <1>b, <2>1, FinishNext DEF Branch
<1>8. CASE QueryFiles
  BY <1>8, <1>a, <1>b DEF QueryFiles
<1>9. ASSUME NEW f \in Files, FanOutTo(f) PROVE PullPending(g)'
  BY <1>9, <1>a, <1>b DEF FanOutTo
<1>10. CASE FanOutDone
  <2>1. UNCHANGED next \/ Finish(Master)
    BY <1>10 DEF FanOutDone
  <2> QED BY <1>a, <1>b, <2>1, FinishNext
<1>11. ASSUME NEW f \in Files, ReconcileFile(f) PROVE PullPending(g)'
  <2>1. UNCHANGED next \/ Finish(Master)
    BY <1>11 DEF ReconcileFile
  <2> QED BY <1>a, <1>b, <2>1, FinishNext
<1>12. ASSUME NEW i \in Items, Fail(i) PROVE PullPending(g)'
  <2>1. next'[g] <= n \/ g \in lost'
    BY <1>12, <1>a, <1>c, FailFacts DEF FailMoves
  <2> QED BY <1>b, <2>1
<1>13. CASE UNCHANGED vars
  BY <1>13, <1>a, <1>b DEF vars
<1> QED BY <1>1, <1>2, <1>3, <1>4, <1>5, <1>6, <1>7, <1>8, <1>9, <1>10, <1>11, <1>12,
    <1>13 DEF Next, FileStep, MasterStep

\* A file that is to be fanned out to stays so until it has its metadata, or the loss or the
\* miss is known.
LEMMA PushStep ==
    ASSUME TypeInv, PcInv, FanOutInv, NEW g \in Files, g \notin lost' \union missed',
           "eventResult" \in item[g], "metadata" \notin item'[g], PushPending(g), [Next]_vars
    PROVE  PushPending(g)'
<1> USE ItemsAssumption, ConstantsAssumption
<1>a. /\ next \in [Items -> Nat \ {0}] /\ pc \in [Items -> Labels] /\ Master \in Items
      /\ g \in Items /\ g # Master /\ \A f \in Files : f \in Items /\ f # Master
      /\ \A i \in Items : Len(log[i]) \in Nat
      /\ "eventResult" \in item[g] /\ "metadata" \notin item[g]
      /\ \A i \in Items : pc[i] # "idle" => Route(i, log[i][next[i]]) = Branch(pc[i])
  <2>1. /\ log \in [Items -> Seq(Record)] /\ next \in [Items -> Nat \ {0}]
        /\ pc \in [Items -> Labels]
    BY DEF TypeInv, TypeOK
  <2>2. "metadata" \notin item[g]
    BY WriteStep DEF Grows, Items
  <2> QED BY <2>1, <2>2, ItemsAssumption DEF PcInv, Items
<1>c. /\ Len(log[Master]) <= Len(log'[Master]) /\ Len(log'[Master]) \in Nat
      /\ \A n \in 1..Len(log[Master]) : log'[Master][n] = log[Master][n]
  BY <1>a, WriteStep, Prefix
<1>b. /\ g \in todo' => PushPending(g)'
      /\ \A n \in 1..Len(log[Master]) :
            /\ Route(Master, log[Master][n]) = "query" /\ next'[Master] <= n
            /\ n = next'[Master] => pc'[Master] \in {"idle", "query"}
            => PushPending(g)'
      /\ g \in todo \/ \E n \in 1..Len(log[Master]) :
            /\ next[Master] <= n
            /\ Route(Master, log[Master][n]) = "query"
            /\ n = next[Master] => pc[Master] \in {"idle", "query"}
  BY <1>a, <1>c DEF PushPending
<1>1. CASE WriteMetadata
  BY <1>1, <1>a, <1>b DEF WriteMetadata
<1>2. ASSUME NEW i \in Items, StoreEvent(i) PROVE PushPending(g)'
  BY <1>2, <1>a, <1>b DEF StoreEvent
<1>3. ASSUME NEW i \in Items, StartRecord(i) PROVE PushPending(g)'
  <2>0. UNCHANGED todo
    BY <1>3 DEF StartRecord
  <2>1. CASE i # Master
    <3>1. next'[Master] = next[Master] /\ pc'[Master] = pc[Master]
      BY <1>3, <1>a, <2>1, FinishNext DEF StartRecord, Goto
    <3> QED BY <1>a, <1>b, <2>0, <3>1
  <2>2. CASE i = Master
    <3> DEFINE route == Route(Master, log[Master][next[Master]])
    <3>1. \/ UNCHANGED next /\ pc'[Master] = route
          \/ Finish(Master) /\ route = "idle"
      BY <1>3, <1>a, <2>2 DEF StartRecord, Goto
    <3> QED BY <1>a, <1>b, <2>0, <3>1, FinishNext
  <2> QED BY <2>1, <2>2
<1>4. ASSUME NEW i \in Items, PublishJoined(i) PROVE PushPending(g)'
  <2>1. UNCHANGED todo /\ pc[i] = "publish"
    BY <1>4 DEF PublishJoined
  <2>2. CASE i # Master
    <3>1. next'[Master] = next[Master] /\ pc'[Master] = pc[Master]
      BY <1>4, <1>a, <2>2, FinishNext DEF PublishJoined, Goto
    <3> QED BY <1>a, <1>b, <2>1, <3>1
  <2>3. CASE i = Master
    <3>1. Finish(Master)
      BY <1>4, <1>a, <2>3 DEF PublishJoined
    <3> QED BY <1>a, <1>b, <2>1, <2>3, <3>1, FinishNext DEF Branch
  <2> QED BY <2>2, <2>3
<1>5. ASSUME NEW f \in Files, ReadMaster(f) PROVE PushPending(g)'
  <2>1. UNCHANGED todo /\ next'[Master] = next[Master] /\ pc'[Master] = pc[Master]
    BY <1>5, <1>a, FinishNext DEF ReadMaster, Goto
  <2> QED BY <1>a, <1>b, <2>1
<1>6. ASSUME NEW f \in Files, CopyMetadata(f) PROVE PushPending(g)'
  <2>1. UNCHANGED todo /\ next'[Master] = next[Master] /\ pc'[Master] = pc[Master]
    BY <1>6, <1>a, FinishNext DEF CopyMetadata, Goto
  <2> QED BY <1>a, <1>b, <2>1
<1>7. ASSUME NEW f \in Files, CountJoined(f) PROVE PushPending(g)'
  <2>1. UNCHANGED todo /\ next'[Master] = next[Master] /\ pc'[Master] = pc[Master]
    BY <1>7, <1>a, FinishNext DEF CountJoined, Goto
  <2> QED BY <1>a, <1>b, <2>1
<1>8. CASE QueryFiles
  <2>1. g \in Uncopied
    BY <1>a DEF Uncopied, Indexed, Has
  <2>2. g \in todo' \/ g \in missed'
    BY <1>8, <2>1 DEF QueryFiles
  <2> QED BY <2>2 DEF PushPending
<1>9. ASSUME NEW f \in Files, FanOutTo(f) PROVE PushPending(g)'
  <2>1. f # g \/ "metadata" \in item'[g] \/ g \in lost'
    BY <1>9, <1>a DEF FanOutTo, SetMetadata, Write, Has, TypeInv, TypeOK
  <2>2. todo' = todo \ {f} /\ UNCHANGED <<pc, next>>
    BY <1>9 DEF FanOutTo
  <2> QED BY <1>a, <1>b, <2>1, <2>2
<1>10. CASE FanOutDone
  <2>1. todo = {} /\ pc[Master] = "fanout"
    BY <1>10 DEF FanOutDone
  <2>2. \/ next'[Master] = next[Master] + 1 /\ pc'[Master] = "idle"
        \/ next'[Master] = next[Master]
    BY <1>10, <1>a, FinishNext DEF FanOutDone
  <2> QED BY <1>a, <1>b, <2>1, <2>2
<1>11. ASSUME NEW f \in Files, ReconcileFile(f) PROVE PushPending(g)'
  <2>1. todo = {} /\ pc[Master] = "reconcile"
    BY <1>11 DEF ReconcileFile, FanOutInv
  <2>2. \/ next'[Master] = next[Master] + 1 /\ pc'[Master] = "idle"
        \/ next'[Master] = next[Master]
    BY <1>11, <1>a, FinishNext DEF ReconcileFile
  <2> QED BY <1>a, <1>b, <2>1, <2>2
<1>12. ASSUME NEW i \in Items, Fail(i) PROVE PushPending(g)'
  <2>a. FailMoves(i)
    BY <1>12, FailFacts
  <2>1. CASE next'[Master] = next[Master] /\ i # Master
    <3>1. UNCHANGED todo /\ pc'[Master] = pc[Master]
      BY <1>12, <1>a, <2>1 DEF Fail, Goto
    <3> QED BY <1>a, <1>b, <2>1, <3>1
  <2>2. \E n \in 1..Len(log[Master]) :
            next[Master] <= n /\ Route(Master, log[Master][n]) = "query"
    <3>1. CASE g \in todo
      <4>1. pc[Master] = "fanout"
        BY <3>1 DEF FanOutInv
      <4>2. next[Master] \in 1..Len(log[Master])
        BY <1>a, <4>1 DEF PcInv
      <4> QED BY <1>a, <4>1, <4>2 DEF Branch
    <3>2. CASE g \notin todo
      BY <3>2 DEF PushPending
    <3> QED BY <3>1, <3>2
  <2>3. CASE next'[Master] # next[Master] \/ i = Master
    <3>1. PICK n \in 1..Len(log[Master]) :
                next[Master] <= n /\ Route(Master, log[Master][n]) = "query"
      BY <2>2
    <3>2. pc'[Master] = "idle"
      BY <1>a, <2>a, <2>3 DEF FailMoves
    <3>3. next'[Master] <= n
      BY <1>a, <2>a, <3>1 DEF FailMoves
    <3> QED BY <1>b, <3>1, <3>2, <3>3
  <2> QED BY <2>1, <2>3
<1>13. CASE UNCHANGED vars
  BY <1>13, <1>a, <1>b DEF vars
<1> QED BY <1>1, <1>2, <1>3, <1>4, <1>5, <1>6, <1>7, <1>8, <1>9, <1>10, <1>11, <1>12,
    <1>13 DEF Next, FileStep, MasterStep

\* The pull and the push cannot both miss a file.
LEMMA PendingStep ==
    ASSUME TypeInv, PcInv, FanOutInv, EventsInv, PendingInv, [Next]_vars PROVE PendingInv'
<1> SUFFICES ASSUME NEW f \in Files, f \notin lost' \union missed',
                    "eventResult" \in item'[f],
                    "metadata" \in item'[Master], "metadata" \notin item'[f]
             PROVE  (PullPending(f) \/ PushPending(f))'
  BY DEF PendingInv
<1>1. f \in Items /\ Master \in Items /\ f # Master
  BY ItemsAssumption DEF Items
<1>2. "metadata" \notin item[f] /\ f \notin lost \union missed
  <2>1. lost \subseteq lost' /\ missed \subseteq missed'
    BY FailureCount
  <2> QED BY <1>1, <2>1, WriteStep DEF Grows
<1>3. CASE "eventResult" \notin item[f]
  <2>1. item'[f] # item[f]
    BY <1>3
  <2> DEFINE n == Len(log[f]) + 1
  <2>2. /\ n \in 1..Len(log'[f]) /\ log'[f][n] \in Record
        /\ log'[f][n].old = item[f] /\ log'[f][n].new = item'[f] /\ next'[f] <= n
    BY <1>1, <2>1, NewRecord
  <2> HIDE DEF n
  <2>3. Route(f, log'[f][n]) = "read"
    BY <1>1, <1>2, <2>2, RouteFacts
  <2> QED BY <2>2, <2>3 DEF PullPending
<1>4. CASE "metadata" \notin item[Master]
  <2>1. item'[Master] # item[Master]
    BY <1>4
  <2> DEFINE n == Len(log[Master]) + 1
  <2>2. /\ n \in 1..Len(log'[Master]) /\ log'[Master][n] \in Record
        /\ log'[Master][n].old = item[Master] /\ log'[Master][n].new = item'[Master]
        /\ next'[Master] <= n /\ (next'[Master] = n => pc'[Master] = "idle")
    BY <1>1, <2>1, NewRecord
  <2> HIDE DEF n
  <2>3. "eventResult" \notin item'[Master]
    BY EventsStep DEF EventsInv
  <2>4. Route(Master, log'[Master][n]) = "query"
    BY <1>1, <1>4, <2>2, <2>3, RouteFacts
  <2> QED BY <2>2, <2>4 DEF PushPending
<1>5. CASE "eventResult" \in item[f] /\ "metadata" \in item[Master]
  <2>1. PullPending(f) \/ PushPending(f)
    BY <1>2, <1>5 DEF PendingInv
  <2> QED BY <1>5, <2>1, PullStep, PushStep
<1> QED BY <1>3, <1>4, <1>5

-----------------------------------------------------------------------------
(* What follows a join.                                                    *)

\* A read is for an item with its event, and an item that becomes complete is published.
LEMMA RouteJoins ==
    ASSUME NEW i \in Items, NEW r \in Record
    PROVE  /\ Route(i, r) = "read" => "eventResult" \in r.new
           /\ Both \subseteq r.new /\ ~(Both \subseteq r.old) => Route(i, r) = "publish"
BY DEF Route, AlreadyHandled, HasBothFields, Has, Both, Record

\* The two labels that only their own branch leads to.
LabelMoves ==
    \A j \in Items :
        /\ pc'[j] = "count" => pc[j] = "count" \/ PublishJoined(j)
        /\ pc'[j] = "copy" => pc[j] = "copy" \/ MasterSeen

LEMMA LabelStep ==
    ASSUME TypeInv, [Next]_vars
    PROVE  LabelMoves
<1> USE ItemsAssumption, ConstantsAssumption DEF LabelMoves
<1>a. pc \in [Items -> Labels] /\ Master \in Items /\ Files \subseteq Items
  BY DEF TypeInv, TypeOK, Items
<1>1. ASSUME NEW i \in Items, StartRecord(i) PROVE LabelMoves
  <2> DEFINE route == Route(i, log[i][next[i]])
  <2>1. route \in {"idle", "read", "query", "publish"}
    BY <1>1, CurrentRecord, RouteFacts DEF StartRecord, TypeInv, TypeOK
  <2> HIDE DEF route
  <2> QED BY <1>1, <1>a, <2>1 DEF StartRecord, Goto, Finish, route
<1>2. ASSUME NEW i \in Items, PublishJoined(i) PROVE LabelMoves
  BY <1>2, <1>a DEF PublishJoined, Finish, Goto
<1>3. ASSUME NEW f \in Files, FileStep(f) PROVE LabelMoves
  BY <1>3, <1>a DEF FileStep, ReadMaster, CopyMetadata, CountJoined, Finish, Goto
<1>4. CASE QueryFiles \/ FanOutDone
  BY <1>4, <1>a DEF QueryFiles, FanOutDone, Finish, Goto
<1>5. ASSUME NEW f \in Files, FanOutTo(f) \/ ReconcileFile(f) PROVE LabelMoves
  BY <1>5, <1>a DEF FanOutTo, ReconcileFile, Finish, Goto
<1>6. ASSUME NEW i \in Items, Fail(i) PROVE LabelMoves
  BY <1>6, <1>a, FailFacts DEF FailMoves
<1>7. CASE UNCHANGED pc
  BY <1>7
<1> QED BY <1>1, <1>2, <1>3, <1>4, <1>5, <1>6, <1>7
    DEF Next, MasterStep, WriteMetadata, StoreEvent, vars

\* The metadata of the master and the event of a file do not go away.
LEMMA CopyStep ==
    ASSUME TypeInv, FanOutInv, CopyInv, [Next]_vars
    PROVE  CopyInv'
<1>1. /\ \A i \in Items : item[i] \subseteq item'[i]
      /\ Master \in Items /\ Files \subseteq Items
      /\ query \subseteq Files /\ unannounced \subseteq Files
  BY WriteStep DEF Grows, Items, TypeInv, TypeOK
<1>2. \A f \in Files : pc'[f] = "copy" => "metadata" \in item'[Master]
  BY <1>1, LabelStep DEF LabelMoves, CopyInv, MasterSeen, Has
<1>3. unannounced' \subseteq unannounced \union query
  BY DEF Next, FileStep, MasterStep, WriteMetadata, StoreEvent, StartRecord, PublishJoined,
         ReadMaster, CopyMetadata, CountJoined, QueryFiles, FanOutTo, FanOutDone,
         ReconcileFile, Fail, vars
<1>4. \A f \in unannounced \union query : "eventResult" \in item[f]
  BY DEF CopyInv, FanOutInv
<1> QED BY <1>1, <1>2, <1>3, <1>4 DEF CopyInv

\* What was announced and counted stays so.
LEMMA AnnouncedStays ==
    ASSUME TypeInv, [Next]_vars, NEW i \in Items
    PROVE  /\ Announced(i) => Announced(i)'
           /\ CountedIfTracked(i) => CountedIfTracked(i)'
<1>1. emissionMode' = emissionMode
  BY NumbersStep DEF CountersKept
<1>2. published[i] \in Nat
  BY DEF TypeInv, TypeOK
<1>3. UNCHANGED published \/ \E j \in Items : AnnounceIfAllowed(j)
  BY DEF Next, FileStep, MasterStep, WriteMetadata, StoreEvent, StartRecord, PublishJoined,
         ReadMaster, CopyMetadata, CountJoined, QueryFiles, FanOutTo, FanOutDone,
         ReconcileFile, Fail, vars, Items
<1>4. published'[i] = published[i] \/ published'[i] = published[i] + 1
  <2>1. ASSUME NEW j \in Items, AnnounceIfAllowed(j)
        PROVE  published'[i] = published[i] \/ published'[i] = published[i] + 1
    BY <2>1, AnnounceOnce
  <2> QED BY <1>3, <2>1
<1>5. counted \subseteq counted'
  BY DEF Next, FileStep, MasterStep, WriteMetadata, StoreEvent, StartRecord, PublishJoined,
         ReadMaster, CopyMetadata, CountJoined, QueryFiles, FanOutTo, FanOutDone,
         ReconcileFile, CountInMaster, Fail, vars
<1> QED BY <1>1, <1>2, <1>4, <1>5
    DEF Announced, CountedIfTracked, ShouldPublishIndividualEvent

\* A pending publication stays so until its own handler finishes it, or the loss is known.
LEMMA DueStep ==
    ASSUME TypeInv, PcInv, NEW g \in Items, g \notin lost', PublishPending(g), [Next]_vars
    PROVE  \/ PublishPending(g)'
           \/ PublishJoined(g) /\ Finish(g)
           \/ g \in Files /\ CountJoined(g)
<1> DEFINE Goal == \/ PublishPending(g)'
                   \/ PublishJoined(g) /\ Finish(g)
                   \/ g \in Files /\ CountJoined(g)
<1> SUFFICES Goal
  OBVIOUS
<1> USE ItemsAssumption, ConstantsAssumption
<1>a. /\ next \in [Items -> Nat \ {0}] /\ Master \in Items /\ Files \subseteq Items
      /\ \A i \in Items : Len(log[i]) \in Nat /\ next[i] \in Nat
      /\ \A i \in Items : pc[i] # "idle" => Route(i, log[i][next[i]]) = Branch(pc[i])
  <2>1. log \in [Items -> Seq(Record)] /\ next \in [Items -> Nat \ {0}]
    BY DEF TypeInv, TypeOK
  <2> QED BY <2>1 DEF PcInv, Items
<1>c. PICK n \in 1..Len(log[g]) : next[g] <= n /\ Route(g, log[g][n]) = "publish"
  BY DEF PublishPending
<1>d. n \in 1..Len(log'[g]) /\ log'[g][n] = log[g][n]
  BY <1>a, WriteStep, Prefix
<1>b. n \in Nat /\ next[g] <= n /\ (next'[g] <= n => Goal)
  BY <1>a, <1>c, <1>d DEF PublishPending
<1> HIDE DEF Goal
\* Another handler, or one on another branch, finishes another record.
<1>e. ASSUME NEW i \in Items, Finish(i), i = g => next[g] # n
      PROVE  Goal
  <2>1. CASE i = g
    <3>1. next'[g] <= n
      BY <1>a, <1>b, <1>e, <2>1, FinishNext
    <3> QED BY <1>b, <3>1
  <2>2. CASE i # g
    <3>1. next'[g] = next[g]
      BY <1>a, <1>e, <2>2, FinishNext
    <3> QED BY <1>b, <3>1
  <2> QED BY <2>1, <2>2
<1>1. CASE UNCHANGED next
  BY <1>1, <1>a, <1>b
<1>2. ASSUME NEW i \in Items, StartRecord(i) PROVE Goal
  <2>1. UNCHANGED next \/ (Finish(i) /\ Route(i, log[i][next[i]]) = "idle")
    BY <1>2 DEF StartRecord
  <2> QED BY <1>1, <1>c, <1>e, <2>1
<1>3. ASSUME NEW i \in Items, PublishJoined(i) PROVE Goal
  <2>1. UNCHANGED next \/ Finish(i)
    BY <1>3 DEF PublishJoined
  <2>2. i = g /\ Finish(i) => Goal
    BY <1>3 DEF Goal
  <2> QED BY <1>1, <1>e, <2>1, <2>2
<1>4. ASSUME NEW f \in Files, FileStep(f) PROVE Goal
  <2>1. CASE CountJoined(f)
    <3>1. Finish(f)
      BY <2>1 DEF CountJoined
    <3>2. f = g => Goal
      BY <2>1 DEF Goal
    <3> QED BY <1>a, <1>e, <3>1, <3>2
  <2>2. CASE ReadMaster(f) \/ CopyMetadata(f)
    <3>1. pc[f] \in {"read", "copy"} /\ (UNCHANGED next \/ Finish(f))
      BY <2>2 DEF ReadMaster, CopyMetadata
    <3>2. Route(f, log[f][next[f]]) = "read"
      BY <1>a, <3>1 DEF Branch
    <3> QED BY <1>1, <1>a, <1>c, <1>e, <3>1, <3>2
  <2> QED BY <1>4, <2>1, <2>2 DEF FileStep
<1>5. CASE MasterStep
  <2>1. /\ UNCHANGED next \/ Finish(Master)
        /\ pc[Master] \in {"query", "fanout", "reconcile"}
    BY <1>5 DEF MasterStep, QueryFiles, FanOutTo, FanOutDone, ReconcileFile
  <2>2. Route(Master, log[Master][next[Master]]) = "query"
    BY <1>a, <2>1 DEF Branch
  <2> QED BY <1>1, <1>a, <1>c, <1>e, <2>1, <2>2
<1>6. ASSUME NEW i \in Items, Fail(i) PROVE Goal
  <2>1. next'[g] <= n \/ g \in lost'
    BY <1>6, <1>c, FailFacts DEF FailMoves
  <2> QED BY <1>b, <2>1
<1> QED BY <1>1, <1>2, <1>3, <1>4, <1>5, <1>6
    DEF Next, WriteMetadata, StoreEvent, vars, Goal

\* A handler that publishes and loses nothing has announced its item.
LEMMA PublishAnnounces ==
    ASSUME TypeInv, NEW i \in Items, i \notin lost', PublishJoined(i)
    PROVE  Announced(i)'
<1>1. /\ AnnounceIfAllowed(i) /\ emissionMode' = emissionMode
      /\ published \in [Items -> Nat]
  BY DEF PublishJoined, TypeInv, TypeOK
<1>2. ShouldPublishIndividualEvent => published'[i] = published[i] + 1
  BY <1>1 DEF AnnounceIfAllowed, PublishEvent
<1>3. ShouldPublishIndividualEvent' = ShouldPublishIndividualEvent
  BY <1>1 DEF ShouldPublishIndividualEvent
<1> QED BY <1>1, <1>2, <1>3 DEF Announced

\* A joined item's announcement is pending or made, through every step.
LEMMA AnnounceStep ==
    ASSUME TypeInv, PcInv, AnnounceInv, [Next]_vars PROVE AnnounceInv'
<1> SUFFICES ASSUME NEW i \in Items, i \notin lost'
             PROVE  /\ pc'[i] = "count" => Announced(i)'
                    /\ Both \subseteq item'[i] =>
                           PublishPending(i)' \/ (Announced(i)' /\ CountedIfTracked(i)')
  BY DEF AnnounceInv
<1>1. i \notin lost
  BY FailureCount
<1>2. ASSUME pc'[i] = "count" PROVE Announced(i)'
  BY <1>1, <1>2, LabelStep, PublishAnnounces, AnnouncedStays DEF LabelMoves, AnnounceInv
<1>3. ASSUME Both \subseteq item'[i], ~(Both \subseteq item[i]) PROVE PublishPending(i)'
  <2> DEFINE n == Len(log[i]) + 1
  <2>1. /\ n \in 1..Len(log'[i]) /\ log'[i][n] \in Record /\ next'[i] <= n
        /\ log'[i][n].old = item[i] /\ log'[i][n].new = item'[i]
    BY <1>3, NewRecord
  <2> HIDE DEF n
  <2>2. Route(i, log'[i][n]) = "publish"
    BY <1>3, <2>1, RouteJoins
  <2> QED BY <2>1, <2>2 DEF PublishPending
<1>4. ASSUME PublishPending(i)
      PROVE  PublishPending(i)' \/ (Announced(i)' /\ CountedIfTracked(i)')
  <2>1. CASE PublishJoined(i) /\ Finish(i)
    <3>1. pc'[i] # "count"
      BY <2>1 DEF Finish, Goto, TypeInv, TypeOK
    <3>2. i \notin Files \/ emissionMode' = "none"
      BY <2>1, <3>1 DEF PublishJoined, Goto, TypeInv, TypeOK
    <3> QED BY <2>1, <3>2, PublishAnnounces DEF CountedIfTracked
  <2>2. CASE i \in Files /\ CountJoined(i)
    <3>1. Announced(i)'
      BY <1>1, <2>2, AnnouncedStays DEF CountJoined, AnnounceInv
    <3>2. i \in counted'
      BY <2>2 DEF CountJoined, CountInMaster
    <3> QED BY <3>1, <3>2 DEF CountedIfTracked
  <2> QED BY <1>4, <2>1, <2>2, DueStep
<1>5. ASSUME Both \subseteq item[i]
      PROVE  PublishPending(i)' \/ (Announced(i)' /\ CountedIfTracked(i)')
  BY <1>1, <1>4, <1>5, AnnouncedStays DEF AnnounceInv
<1> QED BY <1>2, <1>3, <1>5

-----------------------------------------------------------------------------
(* The invariant and what follows from it.                                 *)

\* The initial states satisfy the inductive invariant.
LEMMA InitIInv ==
    Init => IInv
<1> SUFFICES ASSUME Init PROVE IInv
  OBVIOUS
<1> USE ItemsAssumption, ConstantsAssumption DEF Init
<1>1. TypeInv
  <2>1. item \in [Items -> SUBSET Attributes] /\ log \in [Items -> Seq(Record)]
    OBVIOUS
  <2>2. events \in [Items -> 0..MaxEvents] /\ published \in [Items -> Nat]
    OBVIOUS
  <2>3. next \in [Items -> Nat \ {0}] /\ attempt \in [Items -> 1..MaxDeliveries]
    OBVIOUS
  <2>4. pc \in [Items -> Labels] /\ emissionMode \in Modes /\ failures \in 0..MaxFailures
    BY DEF Labels, Modes
  <2>5. \A i \in Items : \A n \in DOMAIN log[i] : log[i][n] \in Record
    OBVIOUS
  <2> QED BY <2>1, <2>2, <2>3, <2>4, <2>5 DEF TypeInv, TypeOK
<1>2. \A i \in Items : Len(log[i]) = 0
  OBVIOUS
<1>3. LogInv /\ PcInv
  BY <1>2 DEF LogInv, PcInv
<1>4. FanOutInv /\ NoEventBeforeJoin
  BY DEF FanOutInv, NoEventBeforeJoin, Items
<1>8. OnceInv
  <2>1. Repeats = 0
    BY DEF Repeats
  <2>2. \A i \in Items : published[i] = 0
    OBVIOUS
  <2> QED BY <2>1, <2>2 DEF OnceInv
<1>5. FeedbackInv
  BY <1>2, FS_EmptySet DEF FeedbackInv, Items
<1>6. EventsInv /\ PendingInv
  BY DEF EventsInv, PendingInv, Items
<1>7. CopyInv /\ AnnounceInv
  BY DEF CopyInv, AnnounceInv, Both, Items
<1> QED BY <1>1, <1>3, <1>4, <1>5, <1>6, <1>7, <1>8 DEF IInv

\* The inductive invariant, of all behaviours.
LEMMA Inductive ==
    Spec => []IInv
<1>1. Init => IInv
  BY InitIInv
<1>2. IInv /\ [Next]_vars => IInv'
  BY TypeStep, LogStep, PcStep, FanOutStep, NoEventStep, FeedbackStep, OnceStep, EventsStep,
     PendingStep, CopyStep, AnnounceStep DEF IInv
<1> QED BY <1>1, <1>2, PTL DEF Spec

\* Type correctness.
THEOREM TypeCorrect ==
    Spec => []TypeOK
<1>1. IInv => TypeOK
  BY DEF IInv, TypeInv
<1> QED BY <1>1, Inductive, PTL

\* No individual event without both its fields, with any reads, failures and repetitions.
THEOREM JoinedBeforePublished ==
    Spec => []NoEventBeforeJoin
<1>1. IInv => NoEventBeforeJoin
  BY DEF IInv
<1> QED BY <1>1, Inductive, PTL

\* The stream records the Joiner causes are bounded: its loop prevention ends every loop.
THEOREM LoopsEnd ==
    Spec => []NoFeedback
<1>1. IInv => NoFeedback
  <2> SUFFICES ASSUME IInv PROVE NoFeedback
    OBVIOUS
  <2>1. \A i \in Items : events[i] \in Nat /\ Len(log[i]) \in Nat
    <3>1. log \in [Items -> Seq(Record)] /\ events \in [Items -> 0..MaxEvents]
      BY DEF IInv, TypeInv, TypeOK
    <3> QED BY <3>1, ConstantsAssumption
  <2>2. Cardinality(counted) \in Nat
    BY ItemsAssumption, FS_Subset, FS_CardinalityType DEF IInv, TypeInv, TypeOK
  <2>3. Master \in Items /\ Files \subseteq Items
    BY DEF Items
  <2>4. ASSUME NEW f \in Files PROVE Len(log[f]) <= events[f] + 1
    <3>1. Len(log[f]) <= events[f] + (IF "metadata" \in item[f] THEN 1 ELSE 0)
      BY DEF IInv, FeedbackInv
    <3> QED BY <2>1, <2>3, <3>1
  <2>5. Len(log[Master]) <= events[Master] + 1 + Cardinality(counted)
    <3>1. Len(log[Master]) <= events[Master] + Cardinality(counted)
                               + (IF "metadata" \in item[Master] THEN 1 ELSE 0)
      BY DEF IInv, FeedbackInv
    <3> QED BY <2>1, <2>2, <2>3, <3>1
  <2> QED BY <2>4, <2>5 DEF NoFeedback
<1> QED BY <1>1, Inductive, PTL

\* An individual event goes out once, with batch fields once more by the reconciliation, and
\* a failure repeats each of these once at most, though the batch of records it delivers
\* again holds records of several items.
THEOREM PublishedOnceOnly ==
    Spec => []PublishedOnce
<1>1. IInv => PublishedOnce
  <2> SUFFICES ASSUME IInv, NEW i \in Items
               PROVE  published[i] <= (1 + failures) * (IF emissionMode = "none" THEN 1 ELSE 2)
    BY DEF PublishedOnce
  <2>1. published[i] <= (IF Streamed(i) THEN 1 ELSE 0) + (IF Reconciled(i) THEN 1 ELSE 0)
                        + Repeats
    BY DEF IInv, OnceInv
  <2>2. published[i] \in Nat /\ failures \in Nat
    BY ConstantsAssumption DEF IInv, TypeInv, TypeOK
  <2>3. CASE emissionMode = "none"
    <3>1. ~Reconciled(i) /\ Repeats = failures
      BY <2>3 DEF Reconciled, Repeats
    <3>2. published[i] <= 1 + failures
      BY <2>1, <2>2, <3>1
    <3> QED BY <2>2, <2>3, <3>2
  <2>4. CASE emissionMode # "none"
    <3>1. Repeats = failures + failures
      BY <2>4 DEF Repeats
    <3>2. published[i] <= 2 + failures + failures
      BY <2>1, <2>2, <3>1
    <3>3. (1 + failures) * 2 = 2 + failures + failures
      BY <2>2
    <3> QED BY <2>4, <3>2, <3>3
  <2> QED BY <2>3, <2>4
<1> QED BY <1>1, Inductive, PTL

\* No file is left without its metadata, whatever fails and however often the Pipe delivers,
\* with reads that may lag: only a file on which a failure was final, or which a lagging
\* read missed though its metadata or its event was written, can stay without.
THEOREM PullAndPushMeet ==
    Spec => []NothingLeftUnjoined
<1>1. IInv => NothingLeftUnjoined
  <2> SUFFICES ASSUME IInv, NEW f \in Files \ (lost \union missed),
                      "metadata" \in item[Master],
                      "eventResult" \in item[f], Handled(Master), Handled(f),
                      "metadata" \notin item[f]
               PROVE  FALSE
    BY DEF NothingLeftUnjoined, Has
  <2>1. PullPending(f) \/ PushPending(f)
    BY DEF IInv, PendingInv
  <2>2. todo = {}
    BY DEF IInv, FanOutInv, Handled
  <2>3. \A i \in Items : next[i] \in Nat /\ Len(log[i]) \in Nat
    <3>1. log \in [Items -> Seq(Record)] /\ next \in [Items -> Nat \ {0}]
      BY DEF IInv, TypeInv, TypeOK
    <3> QED BY <3>1
  <2> QED BY <2>1, <2>2, <2>3 DEF PullPending, PushPending, Handled, Items
<1> QED BY <1>1, Inductive, PTL

\* What is joined is announced and counted when its stream is handled, also with lagging
\* reads, unless a failure was final.
THEOREM JoinedIsDealtWith ==
    Spec => []NothingLeftUnannounced
<1>1. IInv => NothingLeftUnannounced
  <2> SUFFICES ASSUME IInv, NEW i \in Items \ lost, HasBothFields(item[i]), Handled(i)
               PROVE  Announced(i) /\ CountedIfTracked(i)
    BY DEF NothingLeftUnannounced, Announced, CountedIfTracked
  <2>1. PublishPending(i) \/ (Announced(i) /\ CountedIfTracked(i))
    BY DEF IInv, AnnounceInv, HasBothFields, Both
  <2>2. next[i] \in Nat /\ Len(log[i]) \in Nat
    <3>1. log \in [Items -> Seq(Record)] /\ next \in [Items -> Nat \ {0}]
      BY DEF IInv, TypeInv, TypeOK
    <3> QED BY <3>1
  <2> QED BY <2>1, <2>2 DEF PublishPending, Handled
<1> QED BY <1>1, Inductive, PTL

-----------------------------------------------------------------------------
(* The abstract join.                                                      *)

LEMMA JoinInit == Init => Join!Init
BY DEF Init, Join!Init, With, Has

\* The abstract state as a function of the four things it is made of.
AbstractKept == UNCHANGED <<item, published, lost>>

LEMMA JoinStutters ==
    ASSUME AbstractKept
    PROVE  UNCHANGED Join!vars
BY DEF AbstractKept, Join!vars, With, Has

\* A write of one attribute to one item.
LEMMA WithStep ==
    ASSUME TypeInv, NEW i \in Items, NEW added \in SUBSET Attributes,
           item' = [item EXCEPT ![i] = @ \union added]
    PROVE  /\ "metadata" \in added => With("metadata")' = With("metadata") \union {i}
           /\ "metadata" \notin added => UNCHANGED With("metadata")
           /\ "eventResult" \in added => With("eventResult")' = With("eventResult") \union {i}
           /\ "eventResult" \notin added => UNCHANGED With("eventResult")
BY DEF With, Has, TypeInv, TypeOK

\* A failure that is final.
LEMMA LossAbandons ==
    ASSUME TypeInv, TypeInv', [Next]_vars, UNCHANGED <<item, published>>
    PROVE  Join!Next
<1>1. lost \subseteq lost' /\ lost' \subseteq Items
  BY FailureCount DEF TypeInv, TypeOK
<1> QED BY <1>1 DEF Join!Next, Join!Abandon, With, Has

\* The copy of the metadata, pulled or pushed.
LEMMA CopyRefines ==
    ASSUME TypeInv, NEW f \in Files, SetMetadata(f), UNCHANGED <<published, lost>>,
           "metadata" \in item[Master], "eventResult" \in item[f]
    PROVE  Join!Next \/ UNCHANGED Join!vars
<1>0. f \in Items /\ Master \in Items
  BY DEF Items
<1>1. CASE Has(item[f], "metadata")
  BY <1>1, JoinStutters DEF SetMetadata, AbstractKept
<1>2. CASE ~Has(item[f], "metadata")
  <2>1. item' = [item EXCEPT ![f] = @ \union {"metadata"}]
    BY <1>2 DEF SetMetadata, Write
  <2>2. {"metadata"} \in SUBSET Attributes
    BY DEF Attributes
  <2>3. With("metadata")' = With("metadata") \union {f} /\ UNCHANGED With("eventResult")
    BY <1>0, <2>1, <2>2, WithStep
  <2>4. Master \in With("metadata") /\ f \in With("eventResult") \ With("metadata")
    BY <1>0, <1>2 DEF With, Has
  <2>5. Join!CopyMetadata(f)
    BY <2>3, <2>4 DEF Join!CopyMetadata
  <2> QED BY <1>0, <2>5 DEF Join!Next
<1> QED BY <1>1, <1>2

\* An event that goes out, is not allowed to, or gets lost.
LEMMA AnnounceRefines ==
    ASSUME TypeInv, TypeInv', [Next]_vars, NEW i \in Items, AnnounceIfAllowed(i),
           UNCHANGED item, "eventResult" \in item[i], "metadata" \in item[i] \/ i \in lost
    PROVE  Join!Next \/ UNCHANGED Join!vars
<1> DEFINE announced == {j \in Items : published[j] > 0}
<1>1. published \in [Items -> Nat]
  BY DEF TypeInv, TypeOK
<1>2. CASE UNCHANGED published
  BY <1>2, LossAbandons
<1>3. CASE published' = [published EXCEPT ![i] = @ + 1] /\ UNCHANGED lost
  <2>1. {j \in Items : published'[j] > 0} = announced \union {i}
    BY <1>1, <1>3
  <2>2. UNCHANGED <<With("metadata"), With("eventResult"), lost>>
    BY <1>3 DEF With, Has
  <2>3. i \in With("eventResult") /\ i \in With("metadata") \union lost
    BY DEF With, Has
  <2>4. Join!Announce(i)
    BY <2>1, <2>2, <2>3 DEF Join!Announce
  <2> QED BY <2>4 DEF Join!Next
<1> QED BY <1>2, <1>3 DEF AnnounceIfAllowed, PublishEvent

LEMMA JoinNext ==
    IInv /\ [Next]_vars => [Join!Next]_(Join!vars)
<1> SUFFICES ASSUME IInv, [Next]_vars
             PROVE  Join!Next \/ UNCHANGED Join!vars
  OBVIOUS
<1>a. TypeInv /\ TypeInv' /\ Master \in Items /\ Files \subseteq Items
  BY TypeStep DEF IInv, Items
<1>b. \A i \in Items : pc[i] # "idle" =>
          /\ log[i][next[i]] \in Record
          /\ Route(i, log[i][next[i]]) = Branch(pc[i])
          /\ log[i][next[i]].new \subseteq item[i]
  <2> SUFFICES ASSUME NEW i \in Items, pc[i] # "idle"
               PROVE  /\ log[i][next[i]] \in Record
                      /\ Route(i, log[i][next[i]]) = Branch(pc[i])
                      /\ log[i][next[i]].new \subseteq item[i]
    OBVIOUS
  <2>1. log[i] \in Seq(Record) /\ next[i] \in Nat \ {0}
    BY <1>a DEF TypeInv, TypeOK
  <2>2. next[i] \in 1..Len(log[i]) /\ Route(i, log[i][next[i]]) = Branch(pc[i])
    BY <2>1 DEF IInv, PcInv
  <2> QED BY <2>1, <2>2 DEF IInv, LogInv
<1>1. CASE WriteMetadata
  <2> DEFINE added == {"metadata"} \union (IF emissionMode = "none" THEN {} ELSE {"fileStatuses"})
  <2>1. item' = [item EXCEPT ![Master] = @ \union added]
    BY <1>1, <1>a DEF WriteMetadata, Write
  <2>2. added \in SUBSET Attributes /\ "metadata" \in added /\ "eventResult" \notin added
    BY DEF Attributes
  <2>3. With("metadata")' = With("metadata") \union {Master} /\ UNCHANGED With("eventResult")
    BY <1>a, <2>1, <2>2, WithStep
  <2>4. Join!WriteMetadata
    BY <1>1, <1>a, <2>3 DEF WriteMetadata, Join!WriteMetadata, With, Has
  <2> QED BY <2>4 DEF Join!Next
<1>2. ASSUME NEW i \in Items, StoreEvent(i) PROVE Join!Next \/ UNCHANGED Join!vars
  <2>1. CASE UNCHANGED item
    BY <1>2, <2>1, JoinStutters DEF StoreEvent, AbstractKept
  <2>2. CASE item' = [item EXCEPT ![i] = @ \union {"eventResult"}]
    <3>1. {"eventResult"} \in SUBSET Attributes
      BY DEF Attributes
    <3>2. With("eventResult")' = With("eventResult") \union {i} /\ UNCHANGED With("metadata")
      BY <1>a, <2>2, <3>1, WithStep
    <3>3. Join!StoreEvent(i)
      BY <1>2, <3>2 DEF StoreEvent, Join!StoreEvent
    <3> QED BY <3>3 DEF Join!Next
  <2> QED BY <1>2, <1>a, <2>1, <2>2 DEF StoreEvent, Write
<1>3. ASSUME NEW i \in Items, PublishJoined(i) PROVE Join!Next \/ UNCHANGED Join!vars
  <2>1. Both \subseteq item[i]
    BY <1>3, <1>a, PublishedIsComplete DEF PublishJoined, IInv
  <2> QED BY <1>3, <1>a, <2>1, AnnounceRefines DEF PublishJoined, Both
<1>4. ASSUME NEW f \in Files, CopyMetadata(f) PROVE Join!Next \/ UNCHANGED Join!vars
  <2>1. pc[f] = "copy" /\ SetMetadata(f) /\ UNCHANGED <<published, lost>>
    BY <1>4 DEF CopyMetadata
  <2>2. "metadata" \in item[Master]
    BY <2>1 DEF IInv, CopyInv
  <2>3. "eventResult" \in item[f]
    BY <1>a, <1>b, <2>1, RouteJoins DEF Branch
  <2> QED BY <1>a, <2>1, <2>2, <2>3, CopyRefines
<1>5. ASSUME NEW f \in Files, FanOutTo(f) PROVE Join!Next \/ UNCHANGED Join!vars
  <2>1. CASE SetMetadata(f) /\ UNCHANGED lost
    <3>1. "eventResult" \in item[f]
      BY <1>5 DEF FanOutTo, IInv, FanOutInv
    <3>2. "metadata" \in item[Master]
      BY <1>5, <1>a, <1>b, RouteFacts DEF FanOutTo, Branch
    <3> QED BY <1>5, <1>a, <2>1, <3>1, <3>2, CopyRefines DEF FanOutTo
  <2>2. CASE UNCHANGED item
    BY <1>5, <1>a, <2>2, LossAbandons DEF FanOutTo
  <2> QED BY <1>5, <2>1, <2>2 DEF FanOutTo
<1>6. ASSUME NEW f \in Files, ReconcileFile(f) PROVE Join!Next \/ UNCHANGED Join!vars
  <2>1. "eventResult" \in item[f] /\ ("metadata" \in item[f] \/ f \in lost)
    BY <1>6 DEF ReconcileFile, IInv, CopyInv, FanOutInv, Both
  <2> QED BY <1>6, <1>a, <2>1, AnnounceRefines DEF ReconcileFile
<1>7. ASSUME NEW i \in Items, Fail(i) PROVE Join!Next \/ UNCHANGED Join!vars
  BY <1>7, <1>a, LossAbandons DEF Fail
<1>8. CASE AbstractKept
  BY <1>8, JoinStutters
<1> QED BY <1>1, <1>2, <1>3, <1>4, <1>5, <1>6, <1>7, <1>8
    DEF Next, FileStep, MasterStep, StartRecord, ReadMaster, CountJoined, QueryFiles,
        FanOutDone, vars, AbstractKept

\* Stream records, old images, stale reads and redeliveries implement the plain join:
\* metadata is copied only from a written master to an item with its event, and an
\* individual event follows both, or a failure that was final.
THEOREM DetailedJoinImplements ==
    Spec => ImplementsJoin
BY JoinInit, JoinNext, Inductive, PTL DEF Spec, ImplementsJoin, Join!Spec
=============================================================================
