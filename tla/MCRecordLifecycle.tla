------------------------- MODULE MCRecordLifecycle -------------------------
(* Small instances of RecordLifecycle: see the .cfg files for the constants. *)
EXTENDS RecordLifecycle, TLC

\* The files are interchangeable.
Interchangeable == Permutations(Files)
=============================================================================
