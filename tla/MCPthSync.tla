------------------------------ MODULE MCPthSync -----------------------------
(* Instances of PthSync for TLC: three ULTs, and one wrap more than    *)
(* the two objects need, so that an address can be freed and given out again. *)
EXTENDS PthSync

CONSTANTS t1, t2, t3, w1, w2, w3

MCThreads == {t1, t2, t3}
MCWraps == {w1, w2, w3}
=============================================================================
