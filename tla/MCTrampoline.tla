---------------------------- MODULE MCTrampoline ---------------------------
(* Instances of Trampoline for TLC: the numbers x86-64 Linux gives to system *)
(* calls, and, of all the numbers the page has an entry for, those whose     *)
(* entry leaves the stack as the hook assumes.                               *)
EXTENDS Trampoline

MCLinuxCalls == (0..334) \cup (424..462)
MCGoodCalls == {n \in 0..511 : n % 3 = 1 => Patterned(n)}
=============================================================================
