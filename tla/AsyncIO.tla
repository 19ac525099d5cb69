------------------------------- MODULE AsyncIO ------------------------------
(***************************************************************************)
(* What the request functions of src/newlib/nvme.cc promise their callers, *)
(* with no rings, slots, flags or locks: a request is submitted once, its  *)
(* own data reaches its destination once, and only then does polling it    *)
(* report completion.  After that its buffer belongs to the caller again   *)
(* and is never written.                                                   *)
(***************************************************************************)
CONSTANTS Reqs, NoReq

VARIABLES phase,    \* per request: new, pending, done, returned
          data      \* what reached its destination; NoReq when nothing did yet

vars == <<phase, data>>

Init ==
    /\ phase = [r \in Reqs |-> "new"]
    /\ data = [r \in Reqs |-> NoReq]

(* nvme_read_req or nvme_write_req gives the request a slot. *)
Submit(r) ==
    /\ phase[r] = "new"
    /\ phase' = [phase EXCEPT ![r] = "pending"]
    /\ UNCHANGED data

(* The data arrives: in the caller's buffer, or on the medium. *)
Complete(r) ==
    /\ phase[r] = "pending"
    /\ phase' = [phase EXCEPT ![r] = "done"]
    /\ data' = [data EXCEPT ![r] = r]

(* nvme_check returns 1. *)
Return(r) ==
    /\ phase[r] = "done"
    /\ phase' = [phase EXCEPT ![r] = "returned"]
    /\ UNCHANGED data

Next == \E r \in Reqs : Submit(r) \/ Complete(r) \/ Return(r)

Spec == Init /\ [][Next]_vars
=============================================================================
