------------------------------ MODULE MCIoPath ------------------------------
(* Instances of IoPath for TLC: one or two ULTs over a small file. *)
EXTENDS IoPath

CONSTANTS t1, t2

MCThreads1 == {t1}
MCThreads2 == {t1, t2}
(* The first thread makes two calls. *)
MCCalls == [t \in Threads |-> IF t = t1 THEN 2 ELSE 1]
=============================================================================
