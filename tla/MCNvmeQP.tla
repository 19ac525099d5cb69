------------------------------ MODULE MCNvmeQP ------------------------------
(* An instance of NvmeQP for TLC: two ULTs, t1 with one request and t2 with  *)
(* three, one of them a write, on a ring that goes round twice and that two  *)
(* of them fill.                                                             *)
EXTENDS NvmeQP

CONSTANTS t1, t2, r1, r2, r3, w1

MCThreads == {t1, t2}
MCReqs == {r1, r2, r3, w1}
MCWrites == {w1}
MCIssuer == [r \in Reqs |-> IF r = r1 THEN t1 ELSE t2]
=============================================================================
