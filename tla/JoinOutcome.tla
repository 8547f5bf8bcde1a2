---------------------------- MODULE JoinOutcome ----------------------------
(***************************************************************************)
(* What joining promises for the items of one operation, without stream    *)
(* records, copies under way or expiry: the metadata is written once, to   *)
(* the master's item; it gets to another item only when both are there,    *)
(* the metadata and the item's event; and an individual event is put on    *)
(* the bus only for an item that has both, or on which a failure is final. *)
(***************************************************************************)
CONSTANTS
    Items,          \* the items of the operation
    Master          \* the one that the helper writes

VARIABLES
    stored,         \* the items with their event
    described,      \* the items with the metadata
    announced,      \* the items whose individual event was put on the bus
    abandoned       \* the items on which a failure was final

vars == <<stored, described, announced, abandoned>>

Init == stored = {} /\ described = {} /\ announced = {} /\ abandoned = {}

WriteMetadata ==
    /\ Master \notin described
    /\ described' = described \union {Master}
    /\ UNCHANGED <<stored, announced, abandoned>>

StoreEvent(i) ==
    /\ stored' = stored \union {i}
    /\ UNCHANGED <<described, announced, abandoned>>

CopyMetadata(i) ==
    /\ Master \in described
    /\ i \in stored \ described
    /\ described' = described \union {i}
    /\ UNCHANGED <<stored, announced, abandoned>>

Announce(i) ==
    /\ i \in stored
    /\ i \in described \union abandoned
    /\ announced' = announced \union {i}
    /\ UNCHANGED <<stored, described, abandoned>>

Abandon ==
    /\ abandoned \subseteq abandoned'
    /\ abandoned' \subseteq Items
    /\ UNCHANGED <<stored, described, announced>>

Next ==
    \/ WriteMetadata
    \/ \E i \in Items : StoreEvent(i) \/ CopyMetadata(i) \/ Announce(i)
    \/ Abandon

Spec == Init /\ [][Next]_vars
=============================================================================
