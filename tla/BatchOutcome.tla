--------------------------- MODULE BatchOutcome ---------------------------
(***************************************************************************)
(* What the batch tracking of one multi-file transfer promises, without    *)
(* workers, retries or DynamoDB calls: files are counted once each, and    *)
(* the master record takes at most one of two final marks, "completed"     *)
(* only when every file is counted, "timedOut" only while one is missing.  *)
(***************************************************************************)
CONSTANT Files          \* the file-transfer-ids of the transfer

VARIABLES counted,      \* the files counted in the master record
          outcome       \* "open", "completed" or "timedOut"

vars == <<counted, outcome>>

Init ==
    /\ counted = {}
    /\ outcome = "open"

Count(f) ==
    /\ f \notin counted
    /\ counted' = counted \union {f}
    /\ UNCHANGED outcome

Complete ==
    /\ outcome = "open"
    /\ counted = Files
    /\ outcome' = "completed"
    /\ UNCHANGED counted

TimeOut ==
    /\ outcome = "open"
    /\ counted # {}
    /\ counted # Files
    /\ outcome' = "timedOut"
    /\ UNCHANGED counted

Next ==
    \/ \E f \in Files : Count(f)
    \/ Complete
    \/ TimeOut

Spec == Init /\ [][Next]_vars
=============================================================================
