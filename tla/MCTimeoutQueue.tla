-------------------------- MODULE MCTimeoutQueue --------------------------
(* A small instance of TimeoutQueue: see the .cfg file for the constants.   *)
EXTENDS TimeoutQueue
=============================================================================
