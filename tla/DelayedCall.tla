---------------------------- MODULE DelayedCall ----------------------------
(***************************************************************************)
(* What the timeout of one transfer promises, without messages, hops or    *)
(* visibility: a call that is asked for once comes at its target time or   *)
(* later, once per call that is under way; and time does not get past its  *)
(* deadline before a call has come or was lost.  A setback is any failure. *)
(* Each one moves the deadline by Penalty and has one more effect at most: *)
(* the call is asked for again, one more call is under way, or one is lost.*)
(***************************************************************************)
EXTENDS Naturals

CONSTANTS
    Target,         \* the time the call is asked for
    Grace,          \* how late a call may be by itself
    Penalty         \* and how much later for each setback

VARIABLES
    now,
    asked,          \* the request is known to be made
    due,            \* when the first call asked for is due, 0 before
    pending,        \* the number of calls under way
    called,         \* a call came
    lost,           \* a call was lost
    setbacks

vars == <<now, asked, due, pending, called, lost, setbacks>>

Init ==
    /\ now = 0 /\ due = 0 /\ pending = 0 /\ setbacks = 0
    /\ asked = FALSE /\ called = FALSE /\ lost = FALSE

\* A target in the past is due with the next tick.
Ask ==
    /\ ~asked
    /\ asked' = TRUE
    /\ pending' = pending + 1
    /\ due' = IF due # 0 THEN due ELSE IF Target > now + 1 THEN Target ELSE now + 1
    /\ UNCHANGED <<now, called, lost, setbacks>>

Call ==
    /\ pending > 0
    /\ now >= Target
    /\ pending' = pending - 1
    /\ called' = TRUE
    /\ UNCHANGED <<now, asked, due, lost, setbacks>>

Setback ==
    /\ setbacks' = setbacks + 1
    /\ \/ UNCHANGED <<asked, pending, lost>>
       \/ asked' = FALSE /\ UNCHANGED <<pending, lost>>
       \/ pending' = pending + 1 /\ UNCHANGED <<asked, lost>>
       \/ lost' = TRUE /\ UNCHANGED <<asked, pending>>
       \/ pending > 0 /\ pending' = pending - 1 /\ lost' = TRUE /\ UNCHANGED asked
    /\ UNCHANGED <<now, due, called>>

Expected == due # 0 /\ ~called /\ ~lost

Tick ==
    /\ Expected => now < due + Grace + setbacks * Penalty
    /\ now' = now + 1
    /\ UNCHANGED <<asked, due, pending, called, lost, setbacks>>

Next == Ask \/ Call \/ Setback \/ Tick

Spec == Init /\ [][Next]_vars
=============================================================================
