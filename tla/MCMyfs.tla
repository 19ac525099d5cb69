------------------------------- MODULE MCMyfs -------------------------------
(* Bounds for Myfs: no name is a prefix of another, and there is an entry   *)
(* for each.  More blocks than the files can have, plus the empty slot.     *)
EXTENDS Myfs, TLC

(* The threads are alike, and so are the names. *)
Symmetry == Permutations(Threads) \cup Permutations(Names)

(* An orderly program that may die gets one call more than one that takes   *)
(* every liberty.                                                           *)
Everything == {"reopen", "busy_unlink", "crash", "torn", "sparse"}
OrderlyOrNot == [c \in {{"crash"}, Everything} |-> IF c = Everything THEN 5 ELSE 6]
UnlinksOpen == [c \in {{"busy_unlink"}} |-> 4]

EachItself == [n \in Names |-> {n}]
=============================================================================
