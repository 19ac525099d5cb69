------------------------------- MODULE Monitor ------------------------------
(***************************************************************************)
(* What src/newlib/mylib.c promises the threads that share one pthread     *)
(* mutex and one condition variable: one owner at a time, a waiter gives   *)
(* the mutex up and joins the queue in one step, and it cannot get the     *)
(* mutex back before it was signalled or timed out.  There is no trace of  *)
(* how the two objects are created.                                        *)
(***************************************************************************)
CONSTANT Threads

VARIABLES owners,   \* the threads that own the mutex: none or one
          waiters   \* the threads waiting on the condition variable

vars == <<owners, waiters>>

Init == owners = {} /\ waiters = {}

Acquire(t) ==
    /\ owners = {}
    /\ t \notin waiters
    /\ owners' = {t}
    /\ UNCHANGED waiters

Release(t) ==
    /\ owners = {t}
    /\ owners' = {}
    /\ UNCHANGED waiters

Wait(t) ==
    /\ owners = {t}
    /\ owners' = {}
    /\ waiters' = waiters \cup {t}

(* A signal or a timeout removes one waiter, a broadcast all of them. *)
Wake(S) ==
    /\ waiters' = waiters \ S
    /\ UNCHANGED owners

Next ==
    \/ \E t \in Threads : Acquire(t) \/ Release(t) \/ Wait(t) \/ Wake({t})
    \/ Wake(waiters)

Spec == Init /\ [][Next]_vars
=============================================================================
