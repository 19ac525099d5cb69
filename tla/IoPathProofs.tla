----------------------------- MODULE IoPathProofs -----------------------------
(***************************************************************************)
(* What holds of IoPath for every number of threads and calls, every size  *)
(* of a file and of a block and every degree.                              *)
(***************************************************************************)
EXTENDS IoPath, FiniteSetTheorems, TLAPS

-----------------------------------------------------------------------------
(* Division.                                                                *)

LEMMA DivMod ==
    ASSUME NEW a \in Nat, NEW N \in Nat \ {0}
    PROVE  a \div N \in Nat /\ a % N \in 0..(N - 1) /\ a = N * (a \div N) + (a % N)
OBVIOUS

(* Two ways to divide are one. *)
LEMMA Unique ==
    ASSUME NEW N \in Nat \ {0}, NEW q \in Nat, NEW r \in Nat, NEW r1 \in 0..(N - 1),
           NEW r2 \in 0..(N - 1), N * q + r1 = N * r + r2
    PROVE  q = r /\ r1 = r2
<1>1. ASSUME NEW x \in Nat, NEW y \in Nat, x < y PROVE N * x + N <= N * y
  <2>1. PICK d \in Nat : y = x + 1 + d
    <3>1. y = x + 1 + (y - x - 1) /\ y - x - 1 \in Nat
      BY <1>1
    <3> QED
      BY <3>1
  <2>2. N * y = N * x + N + N * d /\ N * d \in Nat
    BY <2>1
  <2> QED
    BY <2>2
<1>2. N * q \in Nat /\ N * r \in Nat
  OBVIOUS
<1>3. ~ (q < r)
  BY <1>1, <1>2
<1>4. ~ (r < q)
  BY <1>1, <1>2
<1> QED
  BY <1>2, <1>3, <1>4

(* Sectors that follow within a block are in that block. *)
LEMMA SameBlock ==
    ASSUME NEW a \in Nat, NEW N \in Nat \ {0}, NEW k \in Nat, (a % N) + k < N
    PROVE  (a + k) \div N = a \div N /\ (a + k) % N = (a % N) + k
<1>1. /\ a \div N \in Nat /\ a % N \in 0..(N - 1) /\ a = N * (a \div N) + (a % N)
  BY DivMod
<1>2. /\ (a + k) \div N \in Nat /\ (a + k) % N \in 0..(N - 1)
      /\ a + k = N * ((a + k) \div N) + ((a + k) % N)
  <2>1. a + k \in Nat
    OBVIOUS
  <2> QED
    BY <2>1, DivMod
<1>3. (a % N) + k \in 0..(N - 1) /\ N * (a \div N) \in Nat
  BY <1>1
<1>4. N * ((a + k) \div N) + ((a + k) % N) = N * (a \div N) + ((a % N) + k)
  BY <1>1, <1>2, <1>3
<1> QED
  BY <1>1, <1>2, <1>3, <1>4, Unique

(* Whole blocks. *)
LEMMA WholeBlocks ==
    ASSUME NEW a \in Nat, NEW b \in Nat, NEW N \in Nat \ {0}, a % N = 0, b % N = 0
    PROVE  (a + b) % N = 0 /\ (a < b => a + N <= b) /\ N % N = 0
<1>1. a \div N \in Nat /\ a = N * (a \div N) /\ b \div N \in Nat /\ b = N * (b \div N)
  BY DivMod
<1>2. ASSUME NEW c \in Nat PROVE (N * c) % N = 0
  <2>1. /\ (N * c) \div N \in Nat /\ (N * c) % N \in 0..(N - 1) /\ N * c \in Nat
        /\ N * c = N * ((N * c) \div N) + ((N * c) % N)
    <3>1. N * c \in Nat
      OBVIOUS
    <3> QED
      BY <3>1, DivMod
  <2>2. 0 \in 0..(N - 1) /\ N * c + 0 = N * c
    BY <2>1
  <2> QED
    BY <2>1, <2>2, Unique
<1>3. a + b = N * ((a \div N) + (b \div N)) /\ (a \div N) + (b \div N) \in Nat
  BY <1>1
<1>4. (a + b) % N = 0
  BY <1>2, <1>3
<1>5. N = N * 1
  OBVIOUS
<1>6. ASSUME a < b PROVE a + N <= b
  <2>1. a \div N < b \div N
    <3>1. ASSUME b \div N <= a \div N PROVE FALSE
      <4>1. PICK d \in Nat : a \div N = (b \div N) + d
        <5>1. a \div N = (b \div N) + ((a \div N) - (b \div N)) /\ (a \div N) - (b \div N) \in Nat
          BY <1>1, <3>1
        <5> QED
          BY <5>1
      <4>2. a = b + N * d /\ N * d \in Nat
        BY <1>1, <4>1
      <4> QED
        BY <1>6, <4>2
    <3> QED
      BY <1>1, <3>1
  <2>2. PICK d \in Nat : b \div N = (a \div N) + 1 + d
    <3>1. /\ b \div N = (a \div N) + 1 + ((b \div N) - (a \div N) - 1)
          /\ (b \div N) - (a \div N) - 1 \in Nat
      BY <1>1, <2>1
    <3> QED
      BY <3>1
  <2>3. b = a + N + N * d /\ N * d \in Nat
    BY <1>1, <2>2
  <2> QED
    BY <2>3
<1> QED
  BY <1>2, <1>4, <1>5, <1>6

-----------------------------------------------------------------------------
(* The inductive invariant.                                                 *)

(* How a call is cut: as one request, in sectors or in blocks. *)
CutInto(p, n, u, i) ==
    \/ u = n /\ (p % BLK) + n <= BLK /\ i \in {0, n}
    \/ u = 1
    \/ u = BLK /\ n % BLK = 0 /\ p % BLK = 0 /\ i % BLK = 0
CutInv == \A t \in Threads :
    /\ pos[t] + len[t] <= Sectors /\ j[t] <= len[t]
    /\ pc[t] = "issue" => j[t] < len[t]
    /\ CutInto(pos[t], len[t], unit[t], j[t])

(* A batch is of the call that is in progress. *)
BatchInv == \A t \in Threads :
    /\ \A q \in batch[t] : q.tid = t /\ q.call = calls[t] /\ q.kind = kind[t]
    /\ pc[t] = "idle" => batch[t] = {}

(* What the device still has to do: a request that nobody will poll is the    *)
(* last one of a write.                                                       *)
Unpolled(q) == q \notin batch[q.tid]
PendingInv == \A q \in pending :
    /\ q.call <= calls[q.tid] /\ q.at + q.n <= Sectors
    /\ q.call = calls[q.tid] => q.kind = kind[q.tid]
    /\ Unpolled(q) => q.kind = "write"
    /\ Unpolled(q) /\ q.call = calls[q.tid] => j[q.tid] >= len[q.tid]
    /\ \A r \in pending : q.tid = r.tid /\ q.call = r.call /\ Unpolled(q) /\ Unpolled(r) => q = r

(* The requests of a call that are out. *)
Out(t) == {q \in pending : q.tid = t /\ q.call = calls[t]}
DegreeInv == \A t \in Threads :
    /\ IsFiniteSet(batch[t] \cup Out(t))
    /\ pc[t] = "issue" => Cardinality(batch[t]) < Degree(t)
    /\ pc[t] = "poll" => Cardinality(batch[t] \cup Out(t)) <= Degree(t)

(* A sector's contents are of that sector, wherever they are, and a read's    *)
(* buffer has what was requested and is not out any more.                     *)
Right(d, s) == d = Blank \/ d.as = s
BufInv ==
    /\ medium = [s \in File |-> medium[s]] /\ \A s \in File : Right(medium[s], s)
    /\ buf = [t \in Threads |-> buf[t]]
    /\ \A t \in Threads :
          /\ DOMAIN buf[t] \subseteq File /\ \A s \in DOMAIN buf[t] : Right(buf[t][s], s)
          /\ kind[t] = "read" /\ pc[t] # "idle" => \A s \in File :
                s \in pos[t]..(pos[t] + j[t] - 1) <=>
                    s \in DOMAIN buf[t] \/ \E q \in Out(t) : s \in Covers(q)

IInv == /\ TypeOK /\ InOneBlock
        /\ CutInv /\ BatchInv /\ PendingInv /\ DegreeInv /\ BufInv
-----------------------------------------------------------------------------
(* How a call is cut.                                                       *)

(* blksz cuts a call into whole requests. *)
LEMMA CutStarts ==
    ASSUME NEW k \in {"read", "write"}, NEW p \in File, NEW n \in 1..Sectors, p + n <= Sectors
    PROVE  CutInto(p, n, blksz(k, p, n), 0) /\ blksz(k, p, n) \in 1..Sectors
<1> USE SizesAssumption
<1>1. CASE k = "read" /\ (p % BLK) + n <= BLK
  BY <1>1 DEF blksz, CutInto
<1>2. CASE ~ (k = "read" /\ (p % BLK) + n <= BLK) /\ (n % BLK # 0 \/ p % BLK # 0)
  BY <1>2 DEF blksz, CutInto
<1>3. CASE ~ (k = "read" /\ (p % BLK) + n <= BLK) /\ ~ (n % BLK # 0 \/ p % BLK # 0)
  <2>1. blksz(k, p, n) = BLK
    BY <1>3 DEF blksz
  <2>2. n % BLK = 0 /\ p % BLK = 0
    BY <1>3
  <2>3. 0 % BLK = 0
    <3>1. 0 \div BLK \in Nat /\ 0 % BLK \in 0..(BLK - 1) /\ 0 = BLK * (0 \div BLK) + (0 % BLK)
      BY DivMod
    <3>2. BLK * (0 \div BLK) \in Nat
      BY <3>1
    <3> QED
      BY <3>1, <3>2
  <2>4. 0 + BLK <= n
    <3>1. 0 \in Nat /\ n \in Nat /\ 0 < n
      OBVIOUS
    <3> QED
      BY <3>1, <2>2, <2>3, WholeBlocks
  <2> QED
    BY <2>1, <2>2, <2>3, <2>4 DEF CutInto
<1> QED
  BY <1>1, <1>2, <1>3

(* What a request adds to the part of a range that is issued. *)
LEMMA RangeGrows ==
    ASSUME NEW p \in Nat, NEW i \in Nat, NEW u \in Nat \ {0}, NEW s \in Nat
    PROVE  s \in p..(p + (i + u) - 1) <=> s \in p..(p + i - 1) \/ s \in (p + i)..(p + i + u - 1)
OBVIOUS

(* A request that is issued lies within the call and within a block, and the  *)
(* next one starts where it ends.                                             *)
LEMMA CutGoesOn ==
    ASSUME NEW p \in Nat, NEW n \in Nat, NEW u \in Nat \ {0}, NEW i \in Nat,
           i < n, CutInto(p, n, u, i)
    PROVE  /\ i + u <= n /\ CutInto(p, n, u, i + u)
           /\ (p + i) \div BLK = (p + i + u - 1) \div BLK
<1> USE SizesAssumption
<1>1. CASE u = n /\ (p % BLK) + n <= BLK /\ i \in {0, n}
  <2>1. i = 0
    BY <1>1
  <2>2. CutInto(p, n, u, i + u) /\ i + u <= n
    BY <1>1, <2>1 DEF CutInto
  <2>3. (p + (n - 1)) \div BLK = p \div BLK
    <3>1. n - 1 \in Nat /\ (p % BLK) + (n - 1) < BLK
      <4>1. p % BLK \in Nat
        BY DivMod
      <4> QED
        BY <1>1, <2>1, <4>1
    <3> QED
      BY <3>1, SameBlock
  <2>4. p + i + u - 1 = p + (n - 1) /\ p + i = p
    BY <1>1, <2>1
  <2> QED
    BY <2>2, <2>3, <2>4
<1>2. CASE u = 1
  <2>1. p + i + u - 1 = p + i /\ i + u <= n
    BY <1>2
  <2> QED
    BY <1>2, <2>1 DEF CutInto
<1>3. CASE u = BLK /\ n % BLK = 0 /\ p % BLK = 0 /\ i % BLK = 0
  <2>1. BLK % BLK = 0 /\ i + BLK <= n
    BY <1>3, WholeBlocks
  <2>2. (i + BLK) % BLK = 0
    <3>1. BLK \in Nat
      OBVIOUS
    <3> QED
      BY <3>1, <1>3, <2>1, WholeBlocks
  <2>3. (p + i) % BLK = 0
    BY <1>3, WholeBlocks
  <2>4. (p + i + (BLK - 1)) \div BLK = (p + i) \div BLK
    <3>1. p + i \in Nat /\ BLK - 1 \in Nat /\ ((p + i) % BLK) + (BLK - 1) < BLK
      BY <2>3
    <3> QED
      BY <3>1, SameBlock
  <2>5. p + i + u - 1 = p + i + (BLK - 1)
    BY <1>3
  <2> QED
    BY <1>3, <2>1, <2>2, <2>4, <2>5 DEF CutInto
<1> QED
  BY <1>1, <1>2, <1>3 DEF CutInto
-----------------------------------------------------------------------------
(* The initial state and a new call.                                        *)

LEMMA Base == Init => IInv
<1> SUFFICES ASSUME Init PROVE IInv
  OBVIOUS
<1> USE SizesAssumption
<1>1. TypeOK
  BY DEF Init, TypeOK, File
<1>2. InOneBlock /\ PendingInv
  BY DEF Init, InOneBlock, PendingInv
<1>3. CutInv
  BY DEF Init, CutInv, CutInto
<1>4. BatchInv
  BY DEF Init, BatchInv
<1>5. DegreeInv
  <2> SUFFICES ASSUME NEW t \in Threads PROVE IsFiniteSet(batch[t] \cup Out(t))
    BY DEF Init, DegreeInv
  <2>1. batch[t] \cup Out(t) = {}
    BY DEF Init, Out
  <2> QED
    BY <2>1, FS_EmptySet
<1>6. BufInv
  <2>1. medium = [s \in File |-> medium[s]] /\ \A s \in File : Right(medium[s], s)
    BY DEF Init, Right
  <2>2. buf = [t \in Threads |-> buf[t]] /\ \A t \in Threads : pc[t] = "idle" /\ DOMAIN buf[t] = {}
    BY DEF Init
  <2> QED
    BY <2>1, <2>2 DEF BufInv
<1> QED
  BY <1>1, <1>2, <1>3, <1>4, <1>5, <1>6 DEF IInv

(* Which requests are a call's depends on its own count only. *)
LEMMA OutStays ==
    ASSUME NEW t \in Threads, UNCHANGED pending, calls'[t] = calls[t]
    PROVE  Out(t)' = Out(t)
BY DEF Out

LEMMA CallStep ==
    ASSUME IInv, NEW t \in Threads, NEW k \in {"read", "write"}, NEW p \in File,
           NEW n \in 1..Sectors, Call(t, k, p, n)
    PROVE  IInv'
<1> USE SizesAssumption
<1> DEFINE l == IF k = "read" /\ p + n > Sectors THEN Sectors - p ELSE n
<1>1. TypeOK
  BY DEF IInv
<1>2. /\ pc[t] = "idle" /\ calls[t] < MaxCalls[t] /\ p + l <= Sectors
      /\ calls' = [calls EXCEPT ![t] = @ + 1] /\ kind' = [kind EXCEPT ![t] = k]
      /\ pos' = [pos EXCEPT ![t] = p] /\ len' = [len EXCEPT ![t] = l]
      /\ unit' = [unit EXCEPT ![t] = blksz(k, p, l)] /\ j' = [j EXCEPT ![t] = 0]
      /\ buf' = [buf EXCEPT ![t] = <<>>] /\ pc' = [pc EXCEPT ![t] = "issue"]
      /\ UNCHANGED <<medium, pending, batch, wrote>>
  BY DEF Call
<1>3. l \in 1..Sectors
  BY <1>2 DEF File
<1> HIDE DEF l
<1>4. CutInto(p, l, blksz(k, p, l), 0) /\ blksz(k, p, l) \in 1..Sectors
  BY <1>2, <1>3, CutStarts
<1>5. /\ calls[t] \in Nat /\ calls'[t] = calls[t] + 1 /\ kind'[t] = k /\ pos'[t] = p
      /\ len'[t] = l /\ unit'[t] = blksz(k, p, l) /\ j'[t] = 0 /\ pc'[t] = "issue"
      /\ buf'[t] = <<>>
  BY <1>1, <1>2 DEF TypeOK, IInv, BufInv
<1>6. ASSUME NEW u \in Threads, u # t
      PROVE  /\ calls'[u] = calls[u] /\ kind'[u] = kind[u] /\ pos'[u] = pos[u]
             /\ len'[u] = len[u] /\ unit'[u] = unit[u] /\ j'[u] = j[u] /\ pc'[u] = pc[u]
             /\ buf'[u] = buf[u] /\ Out(u)' = Out(u)
  <2>1. /\ calls'[u] = calls[u] /\ kind'[u] = kind[u] /\ pos'[u] = pos[u]
        /\ len'[u] = len[u] /\ unit'[u] = unit[u] /\ j'[u] = j[u] /\ pc'[u] = pc[u]
        /\ buf'[u] = buf[u]
    BY <1>1, <1>2, <1>6 DEF TypeOK, IInv, BufInv
  <2> QED
    BY <2>1, <1>2, OutStays
(* The requests that are out are all of earlier calls. *)
<1>7. batch[t] = {} /\ Out(t)' = {}
  <2>1. \A q \in pending : q.tid = t => q.call <= calls[t] /\ q.call \in Nat
    BY <1>1 DEF IInv, PendingInv, TypeOK, Requests
  <2> QED
    BY <1>2, <1>5, <2>1 DEF Out, IInv, BatchInv
<1>8. TypeOK'
  <2>1. 0 \in 0..Sectors /\ calls[t] + 1 \in Nat /\ l \in 0..Sectors
    BY <1>3, <1>5
  <2>2. /\ pc' \in [Threads -> {"idle", "issue", "poll"}] /\ kind' \in [Threads -> {"read", "write"}]
        /\ pos' \in [Threads -> File] /\ len' \in [Threads -> 0..Sectors]
        /\ unit' \in [Threads -> 1..Sectors] /\ j' \in [Threads -> 0..Sectors]
        /\ calls' \in [Threads -> Nat]
    BY <1>1, <1>2, <1>3, <1>4, <2>1 DEF TypeOK
  <2>3. \A u \in Threads : calls'[u] <= MaxCalls[u]
    <3>1. calls[t] + 1 <= MaxCalls[t]
      BY <1>2, <1>5
    <3> QED
      BY <1>1, <1>5, <1>6, <3>1 DEF TypeOK
  <2> QED
    BY <1>1, <1>2, <2>2, <2>3 DEF TypeOK
<1>9. InOneBlock'
  BY <1>2 DEF IInv, InOneBlock
<1>10. CutInv'
  <2> SUFFICES ASSUME NEW u \in Threads
               PROVE  /\ pos'[u] + len'[u] <= Sectors /\ j'[u] <= len'[u]
                      /\ pc'[u] = "issue" => j'[u] < len'[u]
                      /\ CutInto(pos'[u], len'[u], unit'[u], j'[u])
    BY DEF CutInv, CutInto
  <2>1. CASE u = t
    BY <1>2, <1>3, <1>4, <1>5, <2>1
  <2>2. CASE u # t
    BY <1>6, <2>2 DEF IInv, CutInv
  <2> QED
    BY <2>1, <2>2
<1>11. BatchInv'
  <2> SUFFICES ASSUME NEW u \in Threads
               PROVE  /\ \A q \in batch[u] : q.tid = u /\ q.call = calls'[u] /\ q.kind = kind'[u]
                      /\ pc'[u] = "idle" => batch[u] = {}
    BY <1>2 DEF BatchInv
  <2>1. CASE u = t
    BY <1>7, <2>1
  <2>2. CASE u # t
    BY <1>6, <2>2 DEF IInv, BatchInv
  <2> QED
    BY <2>1, <2>2
<1>12. PendingInv'
  <2>1. ASSUME NEW q \in pending
        PROVE  /\ q.call <= calls'[q.tid]
               /\ q.call = calls'[q.tid] => q.kind = kind'[q.tid]
               /\ Unpolled(q) /\ q.call = calls'[q.tid] => j'[q.tid] >= len'[q.tid]
    <3>1. q.tid \in Threads /\ q.call \in Nat /\ q.call <= calls[q.tid]
      BY <1>1 DEF TypeOK, Requests, IInv, PendingInv
    <3>2. CASE q.tid = t
      BY <1>5, <3>1, <3>2
    <3>3. CASE q.tid # t
      BY <1>6, <3>1, <3>3 DEF IInv, PendingInv
    <3> QED
      BY <3>2, <3>3
  <2> QED
    BY <1>2, <2>1 DEF IInv, PendingInv, Unpolled
<1>13. DegreeInv'
  <2> SUFFICES ASSUME NEW u \in Threads
               PROVE  /\ IsFiniteSet(batch[u] \cup Out(u)')
                      /\ pc'[u] = "issue" => Cardinality(batch[u]) < Degree(u)'
                      /\ pc'[u] = "poll" => Cardinality(batch[u] \cup Out(u)') <= Degree(u)'
    BY <1>2 DEF DegreeInv
  <2>1. CASE u = t
    <3>1. Degree(u)' \in Nat \ {0}
      BY DEF Degree
    <3>2. batch[u] \cup Out(u)' = {} /\ batch[u] = {}
      BY <1>7, <2>1
    <3>3. IsFiniteSet(batch[u] \cup Out(u)') /\ Cardinality(batch[u]) = 0
      BY <3>2, FS_EmptySet
    <3>4. pc'[u] = "issue"
      BY <1>5, <2>1
    <3> QED
      BY <3>1, <3>3, <3>4
  <2>2. CASE u # t
    BY <1>6, <2>2 DEF IInv, DegreeInv, Degree
  <2> QED
    BY <2>1, <2>2
<1>14. BufInv'
  <2>1. buf' = [u \in Threads |-> buf'[u]]
    BY <1>2 DEF IInv, BufInv
  <2>2. ASSUME NEW u \in Threads
        PROVE  /\ DOMAIN buf'[u] \subseteq File /\ \A s \in DOMAIN buf'[u] : Right(buf'[u][s], s)
               /\ kind'[u] = "read" /\ pc'[u] # "idle" => \A s \in File :
                     s \in pos'[u]..(pos'[u] + j'[u] - 1) <=>
                         s \in DOMAIN buf'[u] \/ \E q \in Out(u)' : s \in Covers(q)
    <3>1. CASE u = t
      <4>1. DOMAIN buf'[t] = {}
        BY <1>5
      <4>2. p \in Nat /\ p..(p + 0 - 1) = {}
        BY DEF File
      <4> QED
        BY <1>5, <1>7, <3>1, <4>1, <4>2
    <3>2. CASE u # t
      BY <1>6, <3>2 DEF IInv, BufInv
    <3> QED
      BY <3>1, <3>2
  <2> QED
    BY <1>2, <2>1, <2>2 DEF IInv, BufInv, Right, Covers
<1> QED
  BY <1>8, <1>9, <1>10, <1>11, <1>12, <1>13, <1>14 DEF IInv
-----------------------------------------------------------------------------
(* The issuing loop.                                                        *)

LEMMA IssueStep ==
    ASSUME IInv, NEW t \in Threads, Issue(t)
    PROVE  IInv'
<1> USE SizesAssumption
<1>1. TypeOK
  BY DEF IInv
<1> DEFINE q0 == request(t)
           last == j[t] + unit[t] >= len[t]
           rids == IF kind[t] = "write" /\ last THEN batch[t] ELSE batch[t] \cup {q0}
<1>2. /\ pc[t] = "issue" /\ pending' = pending \cup {q0}
      /\ j' = [j EXCEPT ![t] = @ + unit[t]] /\ batch' = [batch EXCEPT ![t] = rids]
      /\ pc' = [pc EXCEPT ![t] = IF last \/ Cardinality(rids) = Degree(t) THEN "poll" ELSE "issue"]
      /\ UNCHANGED <<medium, kind, pos, len, unit, calls, buf, wrote>>
  BY DEF Issue
<1>3. /\ q0.tid = t /\ q0.call = calls[t] /\ q0.kind = kind[t] /\ q0.at = pos[t] + j[t]
      /\ q0.n = unit[t] /\ q0 = [tid |-> t, call |-> calls[t], kind |-> kind[t],
                                 at |-> pos[t] + j[t], n |-> unit[t]]
  BY DEF request
<1>4. /\ pos[t] \in File /\ pos[t] \in Nat /\ len[t] \in 0..Sectors /\ unit[t] \in 1..Sectors
      /\ j[t] \in 0..Sectors /\ calls[t] \in Nat /\ kind[t] \in {"read", "write"}
  BY <1>1 DEF TypeOK, File
<1>5. /\ pos[t] + len[t] <= Sectors /\ j[t] < len[t]
      /\ CutInto(pos[t], len[t], unit[t], j[t])
  BY <1>2 DEF IInv, CutInv
<1>6. /\ j[t] + unit[t] <= len[t] /\ CutInto(pos[t], len[t], unit[t], j[t] + unit[t])
      /\ (pos[t] + j[t]) \div BLK = (pos[t] + j[t] + unit[t] - 1) \div BLK
  <2> DEFINE p == pos[t]  n == len[t]  u == unit[t]  i == j[t]
  <2>1. p \in Nat /\ n \in Nat /\ u \in Nat \ {0} /\ i \in Nat /\ i < n /\ CutInto(p, n, u, i)
    BY <1>4, <1>5
  <2> HIDE DEF p, n, u, i
  <2>2. i + u <= n /\ CutInto(p, n, u, i + u) /\ (p + i) \div BLK = (p + i + u - 1) \div BLK
    BY <2>1, CutGoesOn
  <2> QED
    BY <2>2 DEF p, n, u, i
<1>7. q0 \in Requests /\ q0.at + q0.n <= Sectors
  <2>1. pos[t] + j[t] \in File /\ pos[t] + j[t] + unit[t] <= Sectors
    <3>1. pos[t] + len[t] <= Sectors /\ j[t] + unit[t] <= len[t]
      BY <1>5, <1>6
    <3> QED
      BY <3>1, <1>4 DEF File
  <2> QED
    BY <1>3, <1>4, <2>1 DEF Requests
<1> HIDE DEF q0
<1>8. rids \in SUBSET Requests
  BY <1>1, <1>7 DEF TypeOK
<1>9. /\ j'[t] = j[t] + unit[t] /\ batch'[t] = rids
      /\ pc'[t] = IF last \/ Cardinality(rids) = Degree(t) THEN "poll" ELSE "issue"
  BY <1>1, <1>2 DEF TypeOK
<1>10. ASSUME NEW u \in Threads, u # t
       PROVE  j'[u] = j[u] /\ batch'[u] = batch[u] /\ pc'[u] = pc[u] /\ Out(u)' = Out(u)
  <2>1. j'[u] = j[u] /\ batch'[u] = batch[u] /\ pc'[u] = pc[u]
    BY <1>1, <1>2, <1>10 DEF TypeOK
  <2>2. Out(u)' = {q \in pending \cup {q0} : q.tid = u /\ q.call = calls[u]}
    BY <1>2 DEF Out
  <2> QED
    BY <2>1, <2>2, <1>3, <1>10 DEF Out
<1>11. Out(t)' = Out(t) \cup {q0}
  <2>1. Out(t)' = {q \in pending \cup {q0} : q.tid = t /\ q.call = calls[t]}
    BY <1>2 DEF Out
  <2> QED
    BY <2>1, <1>3 DEF Out
(* While a call issues, everything it has out is in its batch. *)
<1>12. Out(t) \subseteq batch[t]
  <2> SUFFICES ASSUME NEW q \in pending, q.tid = t, q.call = calls[t], q \notin batch[t]
               PROVE  FALSE
    BY DEF Out
  <2>1. j[t] >= len[t]
    BY DEF IInv, PendingInv, Unpolled
  <2> QED
    BY <1>4, <1>5, <2>1
<1> HIDE DEF rids, last
<1>13. TypeOK'
  <2>1. pending' \subseteq Requests
    BY <1>1, <1>2, <1>7 DEF TypeOK
  <2>2. j[t] + unit[t] \in 0..Sectors
    BY <1>4, <1>6
  <2>3. /\ pc' \in [Threads -> {"idle", "issue", "poll"}] /\ j' \in [Threads -> 0..Sectors]
        /\ batch' \in [Threads -> SUBSET Requests]
    BY <1>1, <1>2, <1>8, <2>2 DEF TypeOK
  <2> QED
    BY <1>1, <1>2, <2>1, <2>3 DEF TypeOK
<1>14. InOneBlock'
  <2>1. q0.at \div BLK = (q0.at + q0.n - 1) \div BLK
    BY <1>3, <1>6
  <2>2. \A q \in pending \cup {q0} : q.at \div BLK = (q.at + q.n - 1) \div BLK
    BY <2>1 DEF IInv, InOneBlock
  <2> QED
    BY <2>2, <1>2 DEF InOneBlock
<1>15. CutInv'
  <2> SUFFICES ASSUME NEW u \in Threads
               PROVE  /\ pos[u] + len[u] <= Sectors /\ j'[u] <= len[u]
                      /\ pc'[u] = "issue" => j'[u] < len[u]
                      /\ CutInto(pos[u], len[u], unit[u], j'[u])
    BY <1>2 DEF CutInv, CutInto
  <2>1. CASE u = t
    <3>1. pc'[t] = "issue" => j[t] + unit[t] < len[t]
      BY <1>4, <1>9 DEF last
    <3> QED
      BY <1>5, <1>6, <1>9, <2>1, <3>1
  <2>2. CASE u # t
    BY <1>10, <2>2 DEF IInv, CutInv
  <2> QED
    BY <2>1, <2>2
<1>16. BatchInv'
  <2> SUFFICES ASSUME NEW u \in Threads
               PROVE  /\ \A q \in batch'[u] : q.tid = u /\ q.call = calls[u] /\ q.kind = kind[u]
                      /\ pc'[u] = "idle" => batch'[u] = {}
    BY <1>2 DEF BatchInv
  <2>1. CASE u = t
    <3>1. \A q \in rids : q.tid = t /\ q.call = calls[t] /\ q.kind = kind[t]
      BY <1>3 DEF rids, IInv, BatchInv
    <3> QED
      BY <3>1, <1>9, <2>1
  <2>2. CASE u # t
    BY <1>10, <2>2 DEF IInv, BatchInv
  <2> QED
    BY <2>1, <2>2
<1>17. PendingInv'
  <2>1. batch[t] \subseteq rids /\ (q0 \notin rids => kind[t] = "write" /\ last)
    BY DEF rids
  (* What is not polled now was not polled before, and is not of this call. *)
  <2>2. ASSUME NEW q \in pending, q \notin batch'[q.tid]
        PROVE  /\ q \notin batch[q.tid]
               /\ ~ (q.tid = t /\ q.call = calls[t])
    <3>1. q.tid \in Threads
      BY <1>1 DEF TypeOK, Requests
    <3>2. q \notin batch[q.tid]
      <4>1. CASE q.tid = t
        BY <2>1, <2>2, <1>9, <4>1
      <4>2. CASE q.tid # t
        BY <2>2, <1>10, <3>1, <4>2
      <4> QED
        BY <4>1, <4>2
    <3>3. q.tid = t /\ q.call = calls[t] => q \in batch[t]
      BY <1>12 DEF Out
    <3> QED
      BY <3>2, <3>3
  <2>3. ASSUME NEW q \in pending \cup {q0}
        PROVE  /\ q.call <= calls[q.tid] /\ q.at + q.n <= Sectors
               /\ q.call = calls[q.tid] => q.kind = kind[q.tid]
               /\ q \notin batch'[q.tid] => q.kind = "write"
               /\ q \notin batch'[q.tid] /\ q.call = calls[q.tid] => j'[q.tid] >= len[q.tid]
    <3>1. CASE q = q0
      <4>1. q0 \notin batch'[t] => kind[t] = "write" /\ j'[t] >= len[t]
        BY <2>1, <1>9 DEF last
      <4> QED
        BY <1>3, <1>4, <1>7, <3>1, <4>1
    <3>2. CASE q \in pending
      <4>1. q.tid \in Threads
        BY <1>1, <3>2 DEF TypeOK, Requests
      <4>2. /\ q.call <= calls[q.tid] /\ q.at + q.n <= Sectors
            /\ q.call = calls[q.tid] => q.kind = kind[q.tid]
            /\ q \notin batch[q.tid] => q.kind = "write"
            /\ q \notin batch[q.tid] /\ q.call = calls[q.tid] => j[q.tid] >= len[q.tid]
        BY <3>2 DEF IInv, PendingInv, Unpolled
      <4>3. q \notin batch'[q.tid] => q \notin batch[q.tid] /\ ~ (q.tid = t /\ q.call = calls[t])
        BY <2>2, <3>2
      <4>4. CASE q.tid = t
        BY <4>2, <4>3, <4>4
      <4>5. CASE q.tid # t
        BY <4>1, <4>2, <4>3, <4>5, <1>10
      <4> QED
        BY <4>4, <4>5
    <3> QED
      BY <2>3, <3>1, <3>2
  <2>4. ASSUME NEW q \in pending \cup {q0}, NEW r \in pending \cup {q0}, q.tid = r.tid,
               q.call = r.call, q \notin batch'[q.tid], r \notin batch'[r.tid]
        PROVE  q = r
    <3>1. CASE q = q0 \/ r = q0
      <4>1. q.tid = t /\ q.call = calls[t] /\ r.tid = t /\ r.call = calls[t]
        BY <1>3, <2>4, <3>1
      <4> QED
        BY <2>2, <2>4, <4>1
    <3>2. CASE q \in pending /\ r \in pending
      <4>1. q \notin batch[q.tid] /\ r \notin batch[r.tid]
        BY <2>2, <2>4, <3>2
      <4> QED
        BY <2>4, <3>2, <4>1 DEF IInv, PendingInv, Unpolled
    <3> QED
      BY <2>4, <3>1, <3>2
  <2> QED
    BY <1>2, <2>3, <2>4 DEF PendingInv, Unpolled
<1>18. DegreeInv'
  <2> SUFFICES ASSUME NEW u \in Threads
               PROVE  /\ IsFiniteSet(batch'[u] \cup Out(u)')
                      /\ pc'[u] = "issue" => Cardinality(batch'[u]) < Degree(u)
                      /\ pc'[u] = "poll" => Cardinality(batch'[u] \cup Out(u)') <= Degree(u)
    BY <1>2 DEF DegreeInv, Degree
  <2>1. CASE u = t
    <3>1. IsFiniteSet(batch[t]) /\ Cardinality(batch[t]) < Degree(t)
      <4>1. batch[t] \cup Out(t) = batch[t]
        BY <1>12
      <4> QED
        BY <1>2, <4>1 DEF IInv, DegreeInv
    <3>2. batch'[t] \cup Out(t)' = batch[t] \cup {q0}
      BY <1>9, <1>11, <1>12 DEF rids
    <3>3. /\ IsFiniteSet(batch[t] \cup {q0}) /\ Cardinality(batch[t]) \in Nat
          /\ Cardinality(batch[t] \cup {q0}) \in Nat
          /\ Cardinality(batch[t] \cup {q0}) <= Cardinality(batch[t]) + 1
      <4>1. IsFiniteSet(batch[t] \cup {q0}) /\ Cardinality(batch[t] \cup {q0}) =
               IF q0 \in batch[t] THEN Cardinality(batch[t]) ELSE Cardinality(batch[t]) + 1
        BY <3>1, FS_AddElement
      <4>2. Cardinality(batch[t]) \in Nat
        BY <3>1, FS_CardinalityType
      <4> QED
        BY <4>1, <4>2
    <3>4. Degree(t) \in Nat
      BY DEF Degree
    <3>5. Cardinality(batch[t] \cup {q0}) <= Degree(t)
      BY <3>1, <3>3, <3>4
    <3>6. pc'[t] = "issue" => rids = batch[t] \cup {q0} /\ Cardinality(rids) # Degree(t)
      BY <1>9 DEF rids
    <3>7. pc'[t] = "issue" => Cardinality(batch'[t]) < Degree(t)
      <4> SUFFICES ASSUME pc'[t] = "issue" PROVE Cardinality(batch'[t]) < Degree(t)
        OBVIOUS
      <4>1. batch'[t] = batch[t] \cup {q0}
        BY <1>9, <3>6
      <4>2. Cardinality(batch[t] \cup {q0}) # Degree(t)
        BY <3>6
      <4> QED
        BY <3>3, <3>4, <3>5, <4>1, <4>2
    <3> QED
      BY <2>1, <3>2, <3>3, <3>5, <3>7
  <2>2. CASE u # t
    BY <1>10, <2>2 DEF IInv, DegreeInv
  <2> QED
    BY <2>1, <2>2
<1>19. BufInv'
  <2>1. ASSUME NEW u \in Threads
        PROVE  /\ DOMAIN buf[u] \subseteq File /\ \A s \in DOMAIN buf[u] : Right(buf[u][s], s)
               /\ kind[u] = "read" /\ pc'[u] # "idle" => \A s \in File :
                     s \in pos[u]..(pos[u] + j'[u] - 1) <=>
                         s \in DOMAIN buf[u] \/ \E q \in Out(u)' : s \in Covers(q)
    <3>1. CASE u = t
      <4>1. Covers(q0) = (pos[t] + j[t])..(pos[t] + j[t] + unit[t] - 1)
        BY <1>3 DEF Covers
      <4>2. ASSUME NEW s \in File
            PROVE  s \in pos[t]..(pos[t] + j'[t] - 1) <=>
                       s \in pos[t]..(pos[t] + j[t] - 1) \/ s \in Covers(q0)
        <5>1. /\ s \in Nat /\ pos[t] \in Nat /\ j[t] \in Nat /\ unit[t] \in Nat \ {0}
              /\ j'[t] = j[t] + unit[t]
          BY <1>4, <1>9 DEF File
        <5>2. pos[t] + j'[t] - 1 = pos[t] + (j[t] + unit[t]) - 1
          BY <5>1
        <5>3. s \in pos[t]..(pos[t] + (j[t] + unit[t]) - 1) <=>
                 s \in pos[t]..(pos[t] + j[t] - 1)
                 \/ s \in (pos[t] + j[t])..(pos[t] + j[t] + unit[t] - 1)
          BY <5>1, RangeGrows
        <5> QED
          BY <4>1, <5>2, <5>3
      <4>3. kind[t] = "read" => \A s \in File :
               s \in pos[t]..(pos[t] + j[t] - 1) <=>
                   s \in DOMAIN buf[t] \/ \E q \in Out(t) : s \in Covers(q)
        BY <1>2 DEF IInv, BufInv
      <4>4. kind[t] = "read" => \A s \in File :
               s \in pos[t]..(pos[t] + j'[t] - 1) <=>
                   s \in DOMAIN buf[t] \/ \E q \in Out(t)' : s \in Covers(q)
        BY <1>11, <4>2, <4>3
      <4> QED
        BY <3>1, <4>4 DEF IInv, BufInv
    <3>2. CASE u # t
      BY <1>10, <3>2 DEF IInv, BufInv
    <3> QED
      BY <3>1, <3>2
  <2> QED
    BY <1>2, <2>1 DEF IInv, BufInv, Right, Covers
<1> QED
  BY <1>13, <1>14, <1>15, <1>16, <1>17, <1>18, <1>19 DEF IInv
-----------------------------------------------------------------------------
(* Polling and completing.                                                  *)

(* A call that found its batch complete and has more to issue has nothing     *)
(* out; neither has a read that has no more to issue.                         *)
LEMMA BatchDone ==
    ASSUME IInv, NEW t \in Threads, batch[t] \cap pending = {}, j[t] < len[t] \/ kind[t] = "read"
    PROVE  Out(t) = {}
<1> SUFFICES ASSUME NEW q \in pending, q.tid = t, q.call = calls[t]
             PROVE  FALSE
  BY DEF Out
<1>1. q \notin batch[t]
  OBVIOUS
<1>2. q.kind = "write" /\ j[t] >= len[t] /\ q.kind = kind[t]
  BY <1>1 DEF IInv, PendingInv, Unpolled
<1>3. j[t] \in Nat /\ len[t] \in Nat
  <2>1. TypeOK
    BY DEF IInv
  <2> QED
    BY <2>1, SizesAssumption DEF TypeOK
<1> QED
  BY <1>2, <1>3

LEMMA PollStep ==
    ASSUME IInv, NEW t \in Threads, Poll(t)
    PROVE  IInv'
<1> USE SizesAssumption
<1>1. TypeOK
  BY DEF IInv
<1>2. /\ pc[t] = "poll" /\ batch[t] \cap pending = {} /\ batch' = [batch EXCEPT ![t] = {}]
      /\ UNCHANGED <<medium, pending, kind, pos, len, unit, j, calls, buf>>
      /\ pc' = [pc EXCEPT ![t] = IF j[t] < len[t] THEN "issue" ELSE "idle"]
  BY DEF Poll
<1>3. batch'[t] = {} /\ pc'[t] = IF j[t] < len[t] THEN "issue" ELSE "idle"
  BY <1>1, <1>2 DEF TypeOK
<1>4. ASSUME NEW u \in Threads, u # t PROVE batch'[u] = batch[u] /\ pc'[u] = pc[u]
  BY <1>1, <1>2, <1>4 DEF TypeOK
<1>5. ASSUME NEW u \in Threads PROVE Out(u)' = Out(u)
  BY <1>2, OutStays
<1>6. TypeOK'
  <2>1. pc' \in [Threads -> {"idle", "issue", "poll"}] /\ batch' \in [Threads -> SUBSET Requests]
    BY <1>1, <1>2 DEF TypeOK
  <2> QED
    BY <1>1, <1>2, <2>1 DEF TypeOK
<1>7. InOneBlock'
  BY <1>2 DEF IInv, InOneBlock
<1>8. CutInv'
  <2> SUFFICES ASSUME NEW u \in Threads, pc'[u] = "issue" PROVE j[u] < len[u]
    BY <1>2 DEF IInv, CutInv, CutInto
  <2> QED
    BY <1>3, <1>4 DEF IInv, CutInv
<1>9. BatchInv'
  <2> SUFFICES ASSUME NEW u \in Threads
               PROVE  /\ \A q \in batch'[u] : q.tid = u /\ q.call = calls[u] /\ q.kind = kind[u]
                      /\ pc'[u] = "idle" => batch'[u] = {}
    BY <1>2 DEF BatchInv
  <2>1. CASE u = t
    BY <1>3, <2>1
  <2>2. CASE u # t
    BY <1>4, <2>2 DEF IInv, BatchInv
  <2> QED
    BY <2>1, <2>2
<1>10. PendingInv'
  <2>1. ASSUME NEW q \in pending, q \notin batch'[q.tid] PROVE q \notin batch[q.tid]
    <3>1. q.tid \in Threads
      BY <1>1 DEF TypeOK, Requests
    <3> QED
      BY <1>2, <1>4, <2>1, <3>1
  <2> QED
    BY <1>2, <2>1 DEF IInv, PendingInv, Unpolled
<1>11. DegreeInv'
  <2> SUFFICES ASSUME NEW u \in Threads
               PROVE  /\ IsFiniteSet(batch'[u] \cup Out(u)')
                      /\ pc'[u] = "issue" => Cardinality(batch'[u]) < Degree(u)
                      /\ pc'[u] = "poll" => Cardinality(batch'[u] \cup Out(u)') <= Degree(u)
    BY <1>2 DEF DegreeInv, Degree
  <2>1. CASE u = t
    <3>1. IsFiniteSet(batch[t] \cup Out(t))
      BY DEF IInv, DegreeInv
    <3>2. IsFiniteSet(batch'[t] \cup Out(t)')
      BY <1>3, <1>5, <3>1, FS_Subset
    <3>3. Cardinality(batch'[t]) = 0 /\ Degree(t) \in Nat \ {0}
      BY <1>3, FS_EmptySet DEF Degree
    <3>4. pc'[t] # "poll"
      BY <1>3
    <3> QED
      BY <2>1, <3>2, <3>3, <3>4
  <2>2. CASE u # t
    BY <1>4, <1>5, <2>2 DEF IInv, DegreeInv
  <2> QED
    BY <2>1, <2>2
<1>12. BufInv'
  <2>1. ASSUME NEW u \in Threads, kind[u] = "read", pc'[u] # "idle", NEW s \in File
        PROVE  s \in pos[u]..(pos[u] + j[u] - 1) <=>
                   s \in DOMAIN buf[u] \/ \E q \in Out(u)' : s \in Covers(q)
    <3>1. pc[u] # "idle"
      BY <1>2, <1>4, <2>1
    <3> QED
      BY <1>5, <2>1, <3>1 DEF IInv, BufInv
  <2> QED
    BY <1>2, <2>1 DEF IInv, BufInv, Right, Covers
<1> QED
  BY <1>6, <1>7, <1>8, <1>9, <1>10, <1>11, <1>12 DEF IInv

LEMMA CompleteStep ==
    ASSUME IInv, NEW q0 \in pending, Complete(q0)
    PROVE  IInv'
<1> USE SizesAssumption
<1>1. TypeOK
  BY DEF IInv
<1>2. /\ pending' = pending \ {q0}
      /\ UNCHANGED <<pc, kind, pos, len, unit, j, batch, calls, wrote>>
  BY DEF Complete
<1>3. /\ q0 \in Requests /\ q0.tid \in Threads /\ q0.call \in Nat /\ q0.kind \in {"read", "write"}
      /\ q0.at \in File /\ q0.n \in 1..Sectors /\ q0.at + q0.n <= Sectors
  BY <1>1 DEF TypeOK, Requests, IInv, PendingInv
<1>4. ASSUME NEW u \in Threads PROVE Out(u)' = Out(u) \ {q0}
  <2>1. Out(u)' = {q \in pending \ {q0} : q.tid = u /\ q.call = calls[u]}
    BY <1>2 DEF Out
  <2> QED
    BY <2>1 DEF Out
<1>5. TypeOK'
  BY <1>1, <1>2 DEF TypeOK
<1>6. InOneBlock'
  BY <1>2 DEF IInv, InOneBlock
<1>7. CutInv' /\ BatchInv'
  BY <1>2 DEF IInv, CutInv, CutInto, BatchInv
<1>8. PendingInv'
  BY <1>2 DEF IInv, PendingInv, Unpolled
<1>9. DegreeInv'
  <2> SUFFICES ASSUME NEW u \in Threads
               PROVE  /\ IsFiniteSet(batch[u] \cup Out(u)')
                      /\ pc[u] = "issue" => Cardinality(batch[u]) < Degree(u)
                      /\ pc[u] = "poll" => Cardinality(batch[u] \cup Out(u)') <= Degree(u)
    BY <1>2 DEF DegreeInv, Degree
  <2> DEFINE S == batch[u] \cup Out(u)
             T == batch[u] \cup Out(u)'
  <2>1. IsFiniteSet(S) /\ T \subseteq S
    BY <1>4 DEF IInv, DegreeInv
  <2>2. pc[u] = "poll" => Cardinality(S) <= Degree(u)
    BY DEF IInv, DegreeInv
  <2>3. pc[u] = "issue" => Cardinality(batch[u]) < Degree(u)
    BY DEF IInv, DegreeInv
  <2> HIDE DEF S, T
  <2>4. IsFiniteSet(T) /\ Cardinality(T) <= Cardinality(S)
    BY <2>1, FS_Subset
  <2>5. Cardinality(T) \in Nat /\ Cardinality(S) \in Nat
    BY <2>1, <2>4, FS_CardinalityType
  <2>6. Degree(u) \in Nat
    BY DEF Degree
  <2>7. pc[u] = "poll" => Cardinality(T) <= Degree(u)
    BY <2>2, <2>4, <2>5, <2>6
  <2> QED
    BY <2>3, <2>4, <2>7 DEF T
<1>10. BufInv'
  <2>1. CASE q0.kind = "write"
    <3>1. /\ medium' = [s \in File |-> IF s \in Covers(q0) THEN Datum(q0.tid, q0.call, s)
                                                          ELSE medium[s]]
          /\ buf' = buf
      BY <2>1 DEF Complete
    <3>2. medium' = [s \in File |-> medium'[s]] /\ \A s \in File : Right(medium'[s], s)
      <4>1. \A s \in File : Right(Datum(q0.tid, q0.call, s), s) /\ Right(medium[s], s)
        BY DEF Right, Datum, IInv, BufInv
      <4> QED
        BY <3>1, <4>1
    (* The write is none of a reading call's requests. *)
    <3>3. ASSUME NEW u \in Threads, kind[u] = "read" PROVE Out(u)' = Out(u)
      <4>1. q0 \notin Out(u)
        BY <2>1, <3>3 DEF Out, IInv, PendingInv
      <4> QED
        BY <1>4, <4>1
    <3>4. ASSUME NEW u \in Threads, kind[u] = "read", pc[u] # "idle", NEW s \in File
          PROVE  s \in pos[u]..(pos[u] + j[u] - 1) <=>
                     s \in DOMAIN buf[u] \/ \E q \in Out(u)' : s \in Covers(q)
      BY <3>3, <3>4 DEF IInv, BufInv
    <3> QED
      BY <1>2, <3>1, <3>2, <3>4 DEF IInv, BufInv, Right, Covers
  <2>2. CASE q0.kind = "read"
    <3> DEFINE t == q0.tid
    <3>1. /\ buf' = [buf EXCEPT ![t] =
               [s \in DOMAIN @ \cup Covers(q0) |->
                  IF s \notin Covers(q0) THEN @[s]
                  ELSE IF s \in File THEN medium[s] ELSE Blank]]
          /\ medium' = medium
      BY <2>2 DEF Complete
    <3>2. Covers(q0) \subseteq File
      BY <1>3 DEF Covers, File
    <3>3. buf'[t] = [s \in DOMAIN buf[t] \cup Covers(q0) |->
                        IF s \notin Covers(q0) THEN buf[t][s]
                        ELSE IF s \in File THEN medium[s] ELSE Blank]
      BY <1>3, <3>1 DEF IInv, BufInv
    <3>4. \A u \in Threads : u # t => buf'[u] = buf[u]
      BY <3>1 DEF IInv, BufInv
    <3>5. buf' = [u \in Threads |-> buf'[u]]
      BY <3>1 DEF IInv, BufInv
    <3>6. DOMAIN buf'[t] = DOMAIN buf[t] \cup Covers(q0)
      BY <3>3
    <3>7. DOMAIN buf[t] \subseteq File /\ \A s \in DOMAIN buf[t] : Right(buf[t][s], s)
      BY <1>3 DEF IInv, BufInv
    <3>8. \A s \in DOMAIN buf'[t] : Right(buf'[t][s], s)
      <4> SUFFICES ASSUME NEW s \in DOMAIN buf[t] \cup Covers(q0)
                   PROVE  Right(buf'[t][s], s)
        BY <3>6
      <4>1. CASE s \in Covers(q0)
        <5>1. buf'[t][s] = medium[s] /\ s \in File
          BY <3>2, <3>3, <4>1
        <5> QED
          BY <5>1 DEF IInv, BufInv
      <4>2. CASE s \notin Covers(q0)
        <5>1. buf'[t][s] = buf[t][s] /\ s \in DOMAIN buf[t]
          BY <3>3, <4>2
        <5> QED
          BY <3>7, <5>1
      <4> QED
        BY <4>1, <4>2
    (* A read is polled for, so it is of the call in progress. *)
    <3>9. q0 \in Out(t) /\ \A u \in Threads : u # t => q0 \notin Out(u)
      <4>1. q0 \in batch[t]
        BY <2>2 DEF IInv, PendingInv, Unpolled
      <4> QED
        BY <1>3, <4>1 DEF Out, IInv, BatchInv
    <3>10. ASSUME NEW u \in Threads, kind[u] = "read", pc[u] # "idle", NEW s \in File
           PROVE  s \in pos[u]..(pos[u] + j[u] - 1) <=>
                      s \in DOMAIN buf'[u] \/ \E q \in Out(u)' : s \in Covers(q)
      <4>1. s \in pos[u]..(pos[u] + j[u] - 1) <=>
                s \in DOMAIN buf[u] \/ \E q \in Out(u) : s \in Covers(q)
        BY <3>10 DEF IInv, BufInv
      <4>2. CASE u = t
        BY <1>4, <3>6, <3>9, <4>1, <4>2
      <4>3. CASE u # t
        <5>1. Out(u)' = Out(u)
          BY <1>4, <3>9, <4>3
        <5> QED
          BY <3>4, <4>1, <4>3, <5>1
      <4> QED
        BY <4>2, <4>3
    <3>11. \A u \in Threads : /\ DOMAIN buf'[u] \subseteq File
                              /\ \A s \in DOMAIN buf'[u] : Right(buf'[u][s], s)
      <4> SUFFICES ASSUME NEW u \in Threads
                   PROVE  /\ DOMAIN buf'[u] \subseteq File
                          /\ \A s \in DOMAIN buf'[u] : Right(buf'[u][s], s)
        OBVIOUS
      <4>1. CASE u = t
        BY <3>2, <3>6, <3>7, <3>8, <4>1
      <4>2. CASE u # t
        BY <3>4, <4>2 DEF IInv, BufInv
      <4> QED
        BY <4>1, <4>2
    <3> HIDE DEF t
    <3> QED
      BY <1>2, <3>1, <3>5, <3>10, <3>11 DEF IInv, BufInv, Right, Covers
  <2> QED
    BY <1>3, <2>1, <2>2
<1> QED
  BY <1>5, <1>6, <1>7, <1>8, <1>9, <1>10 DEF IInv
-----------------------------------------------------------------------------
(* The theorems.                                                            *)

(* What a turn of a loop and a completion say holds of every reachable state: *)
(* the number out, the block of each request and what the buffers have agree. *)
THEOREM Invariance == Spec => []IInv
<1>1. ASSUME IInv, [Next]_vars PROVE IInv'
  <2>1. CASE Next
    <3>1. ASSUME NEW t \in Threads, NEW k \in {"read", "write"}, NEW p \in File,
                 NEW n \in 1..Sectors, Call(t, k, p, n)
          PROVE  IInv'
      BY <1>1, <3>1, CallStep
    <3>2. ASSUME NEW t \in Threads, Issue(t) PROVE IInv'
      BY <1>1, <3>2, IssueStep
    <3>3. ASSUME NEW t \in Threads, Poll(t) PROVE IInv'
      BY <1>1, <3>3, PollStep
    <3>4. ASSUME NEW q \in pending, Complete(q) PROVE IInv'
      BY <1>1, <3>4, CompleteStep
    <3> QED
      BY <2>1, <3>1, <3>2, <3>3, <3>4 DEF Next
  <2>2. CASE UNCHANGED vars
    <3>1. UNCHANGED <<medium, pending, pc, kind, pos, len, unit, j, batch, calls, buf, wrote>>
      BY <2>2 DEF vars
    <3>2. TypeOK' /\ InOneBlock'
      BY <1>1, <3>1 DEF IInv, TypeOK, InOneBlock
    <3>3. CutInv' /\ BatchInv' /\ PendingInv'
      BY <1>1, <3>1 DEF IInv, CutInv, CutInto, BatchInv, PendingInv, Unpolled
    <3>4. \A t \in Threads : Out(t)' = Out(t)
      BY <3>1 DEF Out
    <3>5. DegreeInv'
      BY <1>1, <3>1, <3>4 DEF IInv, DegreeInv, Degree
    <3>6. BufInv'
      BY <1>1, <3>1, <3>4 DEF IInv, BufInv, Right, Covers
    <3> QED
      BY <3>2, <3>3, <3>5, <3>6 DEF IInv
  <2> QED
    BY <1>1, <2>1, <2>2
<1> QED
  BY Base, <1>1, PTL DEF Spec

(* A call has no more requests out than its degree, and a call that is over   *)
(* has left at most one, the last of a write.                                 *)
LEMMA Safe == ASSUME IInv PROVE Inv /\ NoLateCopy
<1> USE SizesAssumption
<1>1. TypeOK
  BY DEF IInv
<1>2. ASSUME NEW q \in pending PROVE q.tid \in Threads
  BY <1>1 DEF TypeOK, Requests
(* What is polled for is of the call in progress. *)
<1>3. ASSUME NEW q \in pending, ~ Unpolled(q)
      PROVE  q.call = calls[q.tid] /\ pc[q.tid] # "idle"
  BY <1>2, <1>3 DEF Unpolled, IInv, BatchInv
<1>4. NoLateCopy
  BY <1>3 DEF NoLateCopy, IInv, PendingInv
<1>5. OnlyTheLast
  <2> SUFFICES ASSUME NEW q \in pending, NEW r \in pending, q.tid = r.tid, q.call = r.call,
                      pc[q.tid] = "idle" \/ q.call < calls[q.tid]
               PROVE  q = r
    BY DEF OnlyTheLast
  <2>1. Unpolled(q) /\ Unpolled(r)
    <3>1. calls[q.tid] \in Nat
      BY <1>1, <1>2 DEF TypeOK
    <3> QED
      BY <1>3, <3>1
  <2> QED
    BY <2>1 DEF IInv, PendingInv
<1>6. WithinDegree
  <2> SUFFICES ASSUME NEW t \in Threads, pc[t] # "idle"
               PROVE  Cardinality(Out(t)) <= Degree(t)
    BY DEF WithinDegree, Out
  <2>1. IsFiniteSet(batch[t] \cup Out(t)) /\ Degree(t) \in Nat
    BY DEF IInv, DegreeInv, Degree
  <2> DEFINE S == batch[t] \cup Out(t)
  <2>2. IsFiniteSet(Out(t)) /\ Cardinality(Out(t)) <= Cardinality(S)
    BY <2>1, FS_Subset
  <2>3. Cardinality(Out(t)) \in Nat /\ Cardinality(S) \in Nat
    BY <2>1, <2>2, FS_CardinalityType
  <2>4. CASE pc[t] = "poll"
    <3>1. Cardinality(S) <= Degree(t)
      BY <2>4 DEF IInv, DegreeInv
    <3> HIDE DEF S
    <3> QED
      BY <2>1, <2>2, <2>3, <3>1
  <2>5. CASE pc[t] = "issue"
    (* While a call issues, everything it has out is in its batch. *)
    <3>1. Out(t) \subseteq batch[t]
      <4> SUFFICES ASSUME NEW q \in pending, q.tid = t, q.call = calls[t], Unpolled(q)
                   PROVE  FALSE
        BY DEF Out, Unpolled
      <4>1. j[t] >= len[t] /\ j[t] < len[t]
        BY <2>5 DEF IInv, PendingInv, CutInv
      <4>2. j[t] \in Nat /\ len[t] \in Nat
        BY <1>1 DEF TypeOK
      <4> QED
        BY <4>1, <4>2
    <3>2. S = batch[t]
      BY <3>1
    <3>3. Cardinality(S) < Degree(t)
      BY <2>5, <3>2 DEF IInv, DegreeInv
    <3> HIDE DEF S
    <3> QED
      BY <2>1, <2>2, <2>3, <3>3
  <2> QED
    BY <1>1, <2>4, <2>5 DEF TypeOK
<1> QED
  BY <1>1, <1>4, <1>5, <1>6 DEF Inv

(* At every moment a call has at most READ_DEG or WRITE_DEG requests out, and *)
(* a call that is over left at most its last one.                             *)
THEOREM InvHolds == Spec => []Inv
BY Invariance, Safe, PTL

(* No read that returned, and none of an earlier call, is still to be copied  *)
(* into a buffer.                                                             *)
THEOREM NoLateCopyHolds == Spec => []NoLateCopy
BY Invariance, Safe, PTL

(* No request crosses the end of a block, however the call was cut.           *)
THEOREM InOneBlockHolds == Spec => []InOneBlock
<1>1. IInv => InOneBlock
  BY DEF IInv
<1> QED
  BY Invariance, <1>1, PTL

(* A read that returns has all it asked for, each sector from its place.      *)
LEMMA Filled ==
    ASSUME IInv, [Next]_vars, NEW t \in Threads, Returns(t), kind[t] = "read"
    PROVE  DOMAIN buf[t] = Span(t) /\ \A s \in Span(t) : buf[t][s] = Blank \/ buf[t][s].as = s
<1> USE SizesAssumption
<1>1. TypeOK
  BY DEF IInv
<1>2. pc[t] = "poll" /\ pc'[t] = "idle"
  BY DEF Returns
(* Only the poll of a thread makes it return. *)
<1>3. Poll(t)
  <2>1. ASSUME NEW u \in Threads, Poll(u) PROVE Poll(t)
    <3>1. CASE u # t
      BY <1>1, <1>2, <2>1, <3>1 DEF Poll, TypeOK
    <3> QED
      BY <2>1, <3>1
  <2>2. ASSUME NEW u \in Threads, NEW k \in {"read", "write"}, NEW p \in File,
               NEW n \in 1..Sectors, Call(u, k, p, n)
        PROVE  FALSE
    <3>1. pc[u] = "idle" /\ pc' = [pc EXCEPT ![u] = "issue"]
      BY <2>2 DEF Call
    <3> QED
      BY <1>1, <1>2, <3>1 DEF TypeOK
  <2>3. ASSUME NEW u \in Threads, Issue(u) PROVE FALSE
    <3>1. PICK c \in {"poll", "issue"} : pc[u] = "issue" /\ pc' = [pc EXCEPT ![u] = c]
      BY <2>3 DEF Issue
    <3> QED
      BY <1>1, <1>2, <3>1 DEF TypeOK
  <2>4. ASSUME NEW q \in pending, Complete(q) PROVE FALSE
    BY <1>2, <2>4 DEF Complete
  <2>5. Next
    BY <1>2 DEF vars
  <2> QED
    BY <2>1, <2>2, <2>3, <2>4, <2>5 DEF Next
<1>4. batch[t] \cap pending = {} /\ ~ (j[t] < len[t])
  BY <1>1, <1>2, <1>3 DEF Poll, TypeOK
<1>5. Out(t) = {}
  BY <1>4, BatchDone
<1>6. /\ pos[t] \in Nat /\ j[t] \in Nat /\ len[t] \in Nat /\ j[t] = len[t]
      /\ pos[t] + len[t] <= Sectors
  <2>1. j[t] <= len[t] /\ pos[t] + len[t] <= Sectors
    BY DEF IInv, CutInv
  <2>2. pos[t] \in Nat /\ j[t] \in Nat /\ len[t] \in Nat
    BY <1>1 DEF TypeOK, File
  <2> QED
    BY <1>4, <2>1, <2>2
<1>7. \A s \in File : s \in pos[t]..(pos[t] + j[t] - 1) <=> s \in DOMAIN buf[t]
  BY <1>2, <1>5 DEF IInv, BufInv
<1>8. DOMAIN buf[t] = Span(t)
  <2>1. Span(t) \subseteq File /\ Span(t) = pos[t]..(pos[t] + j[t] - 1)
    BY <1>6 DEF Span, File
  <2>2. DOMAIN buf[t] \subseteq File
    BY DEF IInv, BufInv
  <2> QED
    BY <1>7, <2>1, <2>2
<1>9. \A s \in DOMAIN buf[t] : buf[t][s] = Blank \/ buf[t][s].as = s
  BY DEF IInv, BufInv, Right
<1> QED
  BY <1>8, <1>9

(* A read that returns has filled its buffer, whatever the order in which the *)
(* device worked.                                                             *)
THEOREM ReadFilledHolds == Spec => ReadFilled
<1>1. ASSUME IInv, [Next]_vars
      PROVE  [\A t \in Threads : Returns(t) /\ kind[t] = "read" =>
                /\ DOMAIN buf[t] = Span(t)
                /\ \A s \in Span(t) : buf[t][s] = Blank \/ buf[t][s].as = s]_vars
  BY <1>1, Filled
<1> QED
  BY Invariance, <1>1, PTL DEF Spec, ReadFilled

=============================================================================
