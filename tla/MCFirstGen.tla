----------------------------- MODULE MCFirstGen -----------------------------
(* Instances of FirstGen for TLC: three workers over two streams, so that   *)
(* two of them share one, and one helper for each.                          *)
EXTENDS FirstGen

CONSTANTS t1, t2, t3

MCWorkers == {t1, t2, t3}
Do(a, b, c) == [t \in MCWorkers |-> IF t = t1 THEN a ELSE IF t = t2 THEN b ELSE c]
MCPrograms ==
    {Do("call", "call", t1), Do("lock", "lock", "lock"), Do("lock", "epoll", "write")}
=============================================================================
