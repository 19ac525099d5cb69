----------------------------- MODULE RemoteCall -----------------------------
(***************************************************************************)
(* What a thread may expect of a system call that another thread makes for *)
(* it: every request is carried out once, after it was asked for, and      *)
(* answered after it was carried out.                                      *)
(***************************************************************************)
EXTENDS Naturals

CONSTANT Requests

VARIABLES asked, answered,  \* the requests made, and those that returned
          times             \* how often each was carried out

vars == <<asked, answered, times>>

Init == asked = {} /\ answered = {} /\ times = [r \in Requests |-> 0]

Ask(r) == r \notin asked /\ asked' = asked \cup {r} /\ UNCHANGED <<answered, times>>

CarryOut(r) ==
    /\ r \in asked \ answered /\ times[r] = 0
    /\ times' = [times EXCEPT ![r] = 1]
    /\ UNCHANGED <<asked, answered>>

Answer(r) ==
    /\ times[r] = 1
    /\ answered' = answered \cup {r}
    /\ UNCHANGED <<asked, times>>

Next == \E r \in Requests : Ask(r) \/ CarryOut(r) \/ Answer(r)

Spec == Init /\ [][Next]_vars
=============================================================================
