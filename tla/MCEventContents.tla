-------------------------- MODULE MCEventContents --------------------------
(* Small instances of EventContents: see the .cfg file for the constants. *)
EXTENDS EventContents, TLC

\* Neither the files nor the paths have an order.
Interchangeable == Permutations(Files) \union Permutations(Paths)
=============================================================================
