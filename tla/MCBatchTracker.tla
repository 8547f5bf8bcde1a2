-------------------------- MODULE MCBatchTracker --------------------------
(* Small instances of BatchTracker: see the .cfg files for the constants.   *)
EXTENDS BatchTracker, TLC

\* The files are interchangeable, and so are the timeout messages.  Used for the
\* safety runs only.
Interchangeable == Permutations(Files) \union Permutations(Timers)
=============================================================================
