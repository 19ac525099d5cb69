------------------------------- MODULE MCUlts -------------------------------
(* Instances of Ults for TLC: main and two more threads over two cores.  By *)
(* global_my_tid one of the two shares main's core.                         *)
EXTENDS Ults

CONSTANTS t1, t2

MCThreads == {main, t1, t2}
All(j) == [t \in MCThreads |-> j]
Do(j0, j1, j2) == [t \in MCThreads |-> IF t = main THEN j0 ELSE IF t = t1 THEN j1 ELSE j2]
MCPrograms ==
    {All("once"), All("key"),
     Do("wait", "wake", "once"), Do("once", "wait", "wake"),
     Do("nanosleep", "select", "once"), Do("key", "epoll", "select")}
=============================================================================
