----------------------------- MODULE UltsProofs ------------------------------
(***************************************************************************)
(* What holds of Ults for every set of threads, every number of cores and  *)
(* keys, every program and every clock: a live thread is in one place, the *)
(* routine of pthread_once runs once, a key's slot is its thread's from    *)
(* the creation to the deletion, and no timed call gives up too early.     *)
(***************************************************************************)
EXTENDS Ults, FiniteSetTheorems, SequenceTheorems, NaturalsInduction, WellFoundedInduction, TLAPS

-----------------------------------------------------------------------------
(* The inductive invariant.                                                 *)

OnceAt == {"once", "init", "spin"}
KeyAt == {"key", "find", "fill", "use", "free", "clear"}
OtherAt == {"create", "absent", "start", "end", "done", "wait", "wake", "late"} \cup Timed
Labels == OnceAt \cup KeyAt \cup OtherAt

(* A live thread is on its core or once in the core's pool. *)
Live(t) == t = main \/ pc[t] \notin {"absent", "done"}
SchedType ==
    /\ core \in [Threads -> Cores] /\ global_my_tid \in Nat
    /\ running \in [Cores -> Threads \cup {NoThread}]
    /\ pool \in [Cores -> Seq(Threads)]
RunInv == \A c \in Cores : \A t \in Threads :
    running[c] = t => core[t] = c /\ Live(t)
Queued(c, i) ==
    /\ core[pool[c][i]] = c /\ running[c] # pool[c][i]
    /\ pool[c][i] = main \/ pc[pool[c][i]] \notin {"absent", "done"}
    /\ \A k \in 1..Len(pool[c]) : pool[c][k] = pool[c][i] => k = i
PoolInv == \A c \in Cores : \A i \in 1..Len(pool[c]) : Queued(c, i)
LiveInv == \A t \in Threads : Live(t) =>
    On(t) \/ \E i \in 1..Len(pool[core[t]]) : pool[core[t]][i] = t
SchedInv == SchedType /\ RunInv /\ PoolInv /\ LiveInv

(* One thread entered the routine, and is in it until it is over. *)
OnceInv ==
    /\ \/ once_control = 0 /\ entered = {}
       \/ once_control \in {1, 2} /\ \E t \in Threads : entered = {t}
    /\ \A t \in Threads :
          /\ pc[t] = "init" => once_control = 1 /\ entered = {t}
          /\ pc[t] \in OnceAt => job[t] = "once"
          /\ pc[t] \in KeyAt \cup {"wait", "wake", "late"} \cup Timed => job[t] # "once"
          /\ job[t] = "once" /\ pc[t] \in {"end", "done"} => once_control = 2

(* A slot is empty or holds the key of the one thread that uses it; a slot    *)
(* that was found stays empty until it is filled, by whoever has the mutex.   *)
Using == {"use", "free", "clear"}
key(t) == [by |-> t]
KeyInv ==
    /\ i_key \in [Threads -> Slots] /\ abt_keys \in [Slots -> {NoKey} \cup {key(t) : t \in Threads}]
    /\ abt_key_mutex \in Threads \cup {NoThread}
    /\ \A t \in Threads : pc[t] \in {"find", "fill"} <=> abt_key_mutex = t
    /\ \A t \in Threads : pc[t] = "fill" => abt_keys[i_key[t]] = NoKey
    /\ \A t \in Threads : pc[t] \in Using => abt_keys[i_key[t]] = key(t)
    /\ \A k \in Slots : abt_keys[k] # NoKey =>
          \E t \in Threads : pc[t] \in Using /\ i_key[t] = k
    /\ alive \subseteq {key(t) : t \in Threads}
    /\ \A t \in Threads : key(t) \in alive <=> pc[t] \in {"use", "free"}
    /\ made \in [Threads -> {NoKey} \cup {key(t) : t \in Threads}]
    /\ \A t \in Threads : made[t] = NoKey \/ made[t] = key(t)
    /\ \A t \in Threads : pc[t] \in Using => made[t] = key(t)

ClockInv ==
    /\ phase \in 0..(TICK - 1) /\ elapsed \in [Threads -> 0..Horizon]
    /\ start \in [Threads -> 0..(TICK - 1)]
    /\ NotEarly

IInv == /\ pc \in [Threads -> Labels] /\ job \in [Threads -> Jobs]
        /\ SchedInv /\ OnceInv /\ KeyInv /\ ClockInv

-----------------------------------------------------------------------------
(* Threads, cores and pools.                                                *)

(* A step that leaves the cores and pools alone and lets no thread begin or  *)
(* end.                                                                     *)
SameLive == \A t \in Threads : Live(t)' <=> Live(t)

LEMMA SchedSame ==
    ASSUME SchedInv, UNCHANGED sched, SameLive
    PROVE  SchedInv'
<1> USE DEF SchedInv, sched
<1>1. SchedType'
  BY DEF SchedType
<1>2. RunInv'
  BY DEF RunInv, SameLive
<1>3. PoolInv'
  BY DEF PoolInv, SchedType, SameLive, Queued, Live
<1>4. LiveInv'
  BY DEF LiveInv, SameLive, On
<1> QED
  BY <1>1, <1>2, <1>3, <1>4

(* A thread that gives up its core goes to the end of its pool. *)
LEMMA SchedGiveUp ==
    ASSUME SchedInv, NEW t \in Threads, On(t), giveUp(t), SameLive
    PROVE  SchedInv'
<1> DEFINE c == core[t]
           n == Len(pool[c])
<1>1. /\ c \in Cores /\ running[c] = t /\ Live(t) /\ n \in Nat /\ t # NoThread
      /\ pool[c] \in Seq(Threads)
  BY ThreadsAssumption DEF SchedInv, SchedType, RunInv, On
<1>2. /\ pool' = [pool EXCEPT ![c] = Append(pool[c], t)]
      /\ running' = [running EXCEPT ![c] = NoThread] /\ UNCHANGED <<core, global_my_tid>>
  BY DEF giveUp
<1> HIDE DEF c
<1>3. /\ Append(pool[c], t) \in Seq(Threads) /\ Len(Append(pool[c], t)) = n + 1
      /\ Append(pool[c], t)[n + 1] = t /\ \A i \in 1..n : Append(pool[c], t)[i] = pool[c][i]
  BY <1>1, AppendProperties
<1>4. /\ pool'[c] = Append(pool[c], t) /\ running'[c] = NoThread
      /\ \A d \in Cores \ {c} : pool'[d] = pool[d] /\ running'[d] = running[d]
  BY <1>1, <1>2 DEF SchedInv, SchedType
<1>5. SchedType'
  BY <1>1, <1>2, <1>3 DEF SchedInv, SchedType
<1>6. RunInv'
  BY <1>2, <1>4, ThreadsAssumption DEF SchedInv, RunInv, SameLive, SchedType
<1>7. PoolInv'
  <2> SUFFICES ASSUME NEW d \in Cores, NEW i \in 1..Len(pool'[d])
               PROVE  Queued(d, i)'
    BY DEF PoolInv
  <2>1. CASE d # c
    <3>1. pool'[d] = pool[d] /\ running'[d] = running[d] /\ pool[d][i] \in Threads
      BY <1>4, <2>1 DEF SchedInv, SchedType
    <3>2. PICK u \in Threads : u = pool[d][i]
      BY <3>1
    <3>3. Queued(d, i) /\ Live(u)
      BY <3>1, <3>2 DEF SchedInv, PoolInv, Queued, Live
    <3>4. Live(u)'
      BY <3>3 DEF SameLive
    <3> QED
      BY <1>2, <3>1, <3>2, <3>3, <3>4 DEF Queued, Live
  <2>2. CASE d = c
    <3>1. \A k \in 1..(n + 1) : pool'[c][k] = IF k = n + 1 THEN t ELSE pool[c][k]
      BY <1>1, <1>3, <1>4
    <3>2. \A k \in 1..n : pool[c][k] # t /\ core[pool[c][k]] = c /\ Live(pool[c][k])
                          /\ pool[c][k] \in Threads
      BY <1>1 DEF SchedInv, PoolInv, Queued, Live
    <3>3. \A k, m \in 1..n : pool[c][k] = pool[c][m] => k = m
      BY <1>1 DEF SchedInv, PoolInv, Queued, Live
    <3>4. Len(pool'[d]) = n + 1 /\ i \in 1..(n + 1)
      BY <1>3, <1>4, <2>2
    <3>5. core[t] = c
      BY DEF c
    <3>6. pool'[d][i] \in Threads /\ core[pool'[d][i]] = d /\ Live(pool'[d][i])
      BY <1>1, <2>2, <3>1, <3>2, <3>4, <3>5
    <3>7. PICK u \in Threads : u = pool'[d][i]
      BY <3>6
    <3>8. Live(u)'
      BY <3>6, <3>7 DEF SameLive
    <3>9. \A k \in 1..(n + 1) : pool'[c][k] = pool'[c][i] => k = i
      BY <1>1, <3>1, <3>2, <3>3, <3>4
    <3> QED
      BY <1>2, <1>4, <2>2, <3>4, <3>6, <3>7, <3>8, <3>9, ThreadsAssumption DEF Queued, Live
  <2> QED
    BY <2>1, <2>2
<1>8. LiveInv'
  <2> SUFFICES ASSUME NEW u \in Threads, Live(u)'
               PROVE  running'[core'[u]] = u \/ \E i \in 1..Len(pool'[core'[u]]) : pool'[core'[u]][i] = u
    BY DEF LiveInv, On
  <2>1. Live(u) /\ core'[u] = core[u] /\ core[u] \in Cores
    BY <1>2 DEF SameLive, SchedInv, SchedType
  <2>2. running[core[u]] = u \/ \E i \in 1..Len(pool[core[u]]) : pool[core[u]][i] = u
    BY <2>1 DEF SchedInv, LiveInv, On
  <2>3. CASE core[u] # c
    BY <1>4, <2>1, <2>2, <2>3
  <2>4. CASE core[u] = c
    <3>1. CASE u = t
      <4>1. n + 1 \in 1..Len(pool'[c]) /\ pool'[c][n + 1] = u
        BY <1>1, <1>3, <1>4, <3>1
      <4> QED
        BY <2>1, <2>4, <4>1
    <3>2. CASE u # t
      <4>1. PICK i \in 1..n : pool[c][i] = u
        BY <1>1, <2>2, <2>4, <3>2
      <4>2. i \in 1..Len(pool'[c]) /\ pool'[c][i] = u
        BY <1>1, <1>3, <1>4, <4>1
      <4> QED
        BY <2>1, <2>4, <4>2
    <3> QED
      BY <3>1, <3>2
  <2> QED
    BY <2>3, <2>4
<1> QED
  BY <1>5, <1>6, <1>7, <1>8 DEF SchedInv
(* A free core takes the first of its pool. *)
LEMMA SchedDispatch ==
    ASSUME SchedInv, NEW c \in Cores, Dispatch(c)
    PROVE  SchedInv'
<1> DEFINE q == pool[c]
           t == Head(q)
           n == Len(q)
<1>1. q \in Seq(Threads) /\ n \in Nat /\ q # <<>>
  BY DEF SchedInv, SchedType, Dispatch
<1>2. /\ n \in Nat \ {0} /\ t = q[1] /\ t \in Threads
      /\ Tail(q) \in Seq(Threads) /\ Len(Tail(q)) = n - 1
      /\ \A i \in 1..(n - 1) : Tail(q)[i] = q[i + 1]
  BY <1>1, HeadTailProperties, EmptySeq
<1>3. /\ pool' = [pool EXCEPT ![c] = Tail(q)] /\ running' = [running EXCEPT ![c] = t]
      /\ UNCHANGED <<core, global_my_tid, pc>> /\ running[c] = NoThread
  BY DEF Dispatch
<1> HIDE DEF t
<1>4. /\ pool'[c] = Tail(q) /\ running'[c] = t
      /\ \A d \in Cores \ {c} : pool'[d] = pool[d] /\ running'[d] = running[d]
  BY <1>3 DEF SchedInv, SchedType
<1>5. \A i \in 1..n : Queued(c, i) /\ q[i] \in Threads
  BY <1>1 DEF SchedInv, PoolInv
<1>6. SchedType'
  BY <1>2, <1>3 DEF SchedInv, SchedType
<1>7. RunInv'
  <2>1. core[t] = c /\ Live(t)
    BY <1>2, <1>5 DEF Queued, Live
  <2> QED
    BY <1>2, <1>3, <1>4, <2>1 DEF SchedInv, RunInv, Live
<1>8. PoolInv'
  <2> SUFFICES ASSUME NEW d \in Cores, NEW i \in 1..Len(pool'[d])
               PROVE  Queued(d, i)'
    BY DEF PoolInv
  <2>1. CASE d # c
    BY <1>3, <1>4, <2>1 DEF SchedInv, PoolInv, Queued
  <2>2. CASE d = c
    <3>1. /\ i \in 1..(n - 1) /\ Len(pool'[d]) = n - 1
          /\ \A k \in 1..(n - 1) : pool'[d][k] = q[k + 1]
      BY <1>2, <1>4, <2>2
    <3>2. 1 \in 1..n /\ i + 1 \in 1..n /\ i + 1 # 1 /\ \A k \in 1..(n - 1) : k + 1 \in 1..n
      BY <1>2, <3>1
    <3>3. q[i + 1] # t
      BY <1>2, <1>5, <3>2 DEF Queued
    <3>4. \A k \in 1..(n - 1) : q[k + 1] = q[i + 1] => k = i
      BY <1>2, <1>5, <3>1, <3>2 DEF Queued
    <3>5. Queued(c, i + 1)
      BY <1>5, <3>2
    <3> QED
      BY <1>3, <1>4, <2>2, <3>1, <3>3, <3>4, <3>5 DEF Queued
  <2> QED
    BY <2>1, <2>2
<1>9. LiveInv'
  <2> SUFFICES ASSUME NEW u \in Threads, Live(u)'
               PROVE  running'[core'[u]] = u \/ \E i \in 1..Len(pool'[core'[u]]) : pool'[core'[u]][i] = u
    BY DEF LiveInv, On
  <2>1. Live(u) /\ core'[u] = core[u] /\ core[u] \in Cores
    BY <1>3 DEF SchedInv, SchedType, Live
  <2>2. running[core[u]] = u \/ \E i \in 1..Len(pool[core[u]]) : pool[core[u]][i] = u
    BY <2>1 DEF SchedInv, LiveInv, On
  <2>3. CASE core[u] # c
    BY <1>4, <2>1, <2>2, <2>3
  <2>4. CASE core[u] = c
    <3>1. PICK i \in 1..n : q[i] = u
      BY <1>3, <2>2, <2>4, ThreadsAssumption
    <3>2. CASE i = 1
      BY <1>2, <1>4, <2>1, <2>4, <3>1, <3>2
    <3>3. CASE i # 1
      <4>1. i - 1 \in 1..(n - 1) /\ (i - 1) + 1 = i
        BY <1>2, <3>3
      <4>2. i - 1 \in 1..Len(pool'[c]) /\ pool'[c][i - 1] = u
        BY <1>2, <1>4, <3>1, <4>1
      <4> QED
        BY <2>1, <2>4, <4>2
    <3> QED
      BY <3>2, <3>3
  <2> QED
    BY <2>3, <2>4
<1> QED
  BY <1>6, <1>7, <1>8, <1>9 DEF SchedInv

(* A new thread goes to the end of its core's pool; it was nowhere. *)
LEMMA SchedCreate ==
    ASSUME SchedInv, pc \in [Threads -> Labels], NEW u \in Others, Create(u)
    PROVE  SchedInv'
<1> DEFINE c == home(global_my_tid)
           q == pool[c]
           n == Len(q)
<1>1. c \in Cores
  BY CoresAssumption DEF SchedInv, SchedType, home, Cores
<1>2. /\ u \in Threads /\ u # main /\ pc[u] = "absent" /\ u # NoThread
      /\ core' = [core EXCEPT ![u] = c] /\ pool' = [pool EXCEPT ![c] = Append(q, u)]
      /\ global_my_tid' = global_my_tid + 1 /\ pc' = [pc EXCEPT ![u] = "start"]
      /\ UNCHANGED running
  BY ThreadsAssumption DEF Create, Others
<1> HIDE DEF c
<1>3. /\ q \in Seq(Threads) /\ n \in Nat /\ Append(q, u) \in Seq(Threads)
      /\ Len(Append(q, u)) = n + 1
      /\ Append(q, u)[n + 1] = u /\ \A i \in 1..n : Append(q, u)[i] = q[i]
  BY <1>1, <1>2, AppendProperties DEF SchedInv, SchedType
<1>4. /\ pool'[c] = Append(q, u) /\ \A d \in Cores \ {c} : pool'[d] = pool[d]
      /\ core'[u] = c /\ \A t \in Threads \ {u} : core'[t] = core[t]
      /\ Live(u)' /\ ~Live(u) /\ \A t \in Threads \ {u} : Live(t)' <=> Live(t)
  BY <1>1, <1>2 DEF SchedInv, SchedType, Live
<1>5. \A d \in Cores : running[d] # u /\ \A i \in 1..Len(pool[d]) : pool[d][i] # u
  BY <1>2, <1>4 DEF SchedInv, RunInv, PoolInv, Queued, Live
<1>6. SchedType'
  BY <1>1, <1>2, <1>3 DEF SchedInv, SchedType
<1>7. RunInv'
  BY <1>2, <1>4, <1>5 DEF SchedInv, RunInv
<1>8. PoolInv'
  <2> SUFFICES ASSUME NEW d \in Cores, NEW i \in 1..Len(pool'[d])
               PROVE  Queued(d, i)'
    BY DEF PoolInv
  <2>1. CASE d # c
    <3>1. pool'[d] = pool[d]
      BY <1>4, <2>1
    <3>2. Queued(d, i) /\ pool[d][i] # u
      BY <1>5, <3>1 DEF SchedInv, PoolInv
    <3>3. pool[d] \in Seq(Threads) /\ i \in 1..Len(pool[d])
      BY <3>1 DEF SchedInv, SchedType
    <3>4. pool[d][i] \in Threads
      BY <3>3
    <3> QED
      BY <1>2, <1>4, <3>1, <3>2, <3>4 DEF Queued
  <2>2. CASE d = c
    <3>1. \A k \in 1..(n + 1) : pool'[c][k] = IF k = n + 1 THEN u ELSE q[k]
      BY <1>3, <1>4
    <3>2. \A k \in 1..n : q[k] # u /\ q[k] \in Threads /\ Queued(c, k)
      BY <1>1, <1>3, <1>5 DEF SchedInv, PoolInv
    <3>3. Len(pool'[c]) = n + 1 /\ i \in 1..(n + 1)
      BY <1>3, <1>4, <2>2
    <3>4. CASE i = n + 1
      BY <1>2, <1>3, <1>4, <1>5, <2>2, <3>1, <3>2, <3>3, <3>4 DEF Queued
    <3>5. CASE i # n + 1
      <4>1. i \in 1..n /\ pool'[c][i] = q[i] /\ q[i] # u /\ q[i] \in Threads /\ Queued(c, i)
        BY <1>3, <3>1, <3>2, <3>3, <3>5
      <4>2. \A k \in 1..(n + 1) : pool'[c][k] = pool'[c][i] => k = i
        BY <1>3, <3>1, <4>1 DEF Queued
      <4> QED
        BY <1>2, <1>4, <2>2, <3>3, <4>1, <4>2 DEF Queued
    <3> QED
      BY <3>4, <3>5
  <2> QED
    BY <2>1, <2>2
<1>9. LiveInv'
  <2> SUFFICES ASSUME NEW t \in Threads, Live(t)'
               PROVE  running'[core'[t]] = t \/ \E i \in 1..Len(pool'[core'[t]]) : pool'[core'[t]][i] = t
    BY DEF LiveInv, On
  <2>1. CASE t = u
    <3>1. n + 1 \in 1..Len(pool'[c]) /\ pool'[c][n + 1] = t
      BY <1>3, <1>4, <2>1
    <3> QED
      BY <1>4, <2>1, <3>1
  <2>2. CASE t # u
    <3>1. Live(t) /\ core'[t] = core[t] /\ core[t] \in Cores
      BY <1>4, <2>2 DEF SchedInv, SchedType
    <3>2. running[core[t]] = t \/ \E i \in 1..Len(pool[core[t]]) : pool[core[t]][i] = t
      BY <3>1 DEF SchedInv, LiveInv, On
    <3>3. CASE core[t] # c
      BY <1>2, <1>4, <3>1, <3>2, <3>3
    <3>4. CASE core[t] = c
      <4>1. \A i \in 1..n : i \in 1..Len(pool'[c]) /\ pool'[c][i] = q[i]
        BY <1>3, <1>4
      <4> QED
        BY <1>2, <3>1, <3>2, <3>4, <4>1
    <3> QED
      BY <3>3, <3>4
  <2> QED
    BY <2>1, <2>2
<1> QED
  BY <1>6, <1>7, <1>8, <1>9 DEF SchedInv

(* A thread that exits leaves its core, and was nowhere else. *)
LEMMA SchedExit ==
    ASSUME SchedInv, pc \in [Threads -> Labels], NEW t \in Threads, Exit(t)
    PROVE  SchedInv'
<1> DEFINE c == core[t]
<1>1. /\ c \in Cores /\ running[c] = t /\ t # main /\ pc[t] = "end" /\ pc' = [pc EXCEPT ![t] = "done"]
      /\ running' = [running EXCEPT ![c] = NoThread] /\ UNCHANGED <<pool, core, global_my_tid>>
  BY DEF Exit, goto, On, SchedInv, SchedType
<1> HIDE DEF c
<1>2. /\ running'[c] = NoThread /\ \A d \in Cores \ {c} : running'[d] = running[d]
      /\ \A u \in Threads \ {t} : Live(u)' <=> Live(u)
      /\ ~Live(t)' /\ core[t] = c
  BY <1>1 DEF SchedInv, SchedType, Live, c
<1>3. ASSUME NEW d \in Cores, NEW i \in 1..Len(pool[d])
      PROVE  pool[d][i] # t /\ pool[d][i] \in Threads
  <2>1. core[pool[d][i]] = d /\ running[d] # pool[d][i]
    BY DEF SchedInv, PoolInv, Queued
  <2>2. pool[d] \in Seq(Threads)
    BY DEF SchedInv, SchedType
  <2> QED
    BY <1>1, <1>2, <2>1, <2>2
<1>4. SchedType'
  BY <1>1 DEF SchedInv, SchedType
<1>5. RunInv'
  BY <1>1, <1>2, ThreadsAssumption DEF SchedInv, RunInv
<1>6. PoolInv'
  <2> SUFFICES ASSUME NEW d \in Cores, NEW i \in 1..Len(pool[d])
               PROVE  Queued(d, i)'
    BY <1>1 DEF PoolInv
  <2>1. Queued(d, i) /\ pool[d][i] # t /\ pool[d][i] \in Threads
    BY <1>3 DEF SchedInv, PoolInv
  <2> QED
    BY <1>1, <1>2, <2>1, ThreadsAssumption DEF Queued
<1>7. LiveInv'
  <2> SUFFICES ASSUME NEW u \in Threads, Live(u)'
               PROVE  On(u)' \/ \E i \in 1..Len(pool[core[u]]) : pool[core[u]][i] = u
    BY <1>1 DEF LiveInv
  <2>1. u # t /\ Live(u)
    BY <1>2
  <2>2. On(u) \/ \E i \in 1..Len(pool[core[u]]) : pool[core[u]][i] = u
    BY <2>1 DEF SchedInv, LiveInv
  <2>3. core[u] \in Cores /\ (core[u] = c => running[c] # u)
    BY <1>1, <2>1 DEF SchedInv, SchedType
  <2> QED
    BY <1>1, <1>2, <2>2, <2>3 DEF On
<1> QED
  BY <1>4, <1>5, <1>6, <1>7 DEF SchedInv
-----------------------------------------------------------------------------
(* What a thread's step does to its place in the program and on its core.   *)

(* A step of a thread that goes on from one place to another, with its core  *)
(* or at the end of the pool.                                               *)
Moves(t, from, l) ==
    /\ On(t) /\ pc[t] = from /\ pc' = [pc EXCEPT ![t] = l]
    /\ UNCHANGED sched \/ giveUp(t)

LEMMA StepMoves ==
    ASSUME NEW t, NEW from, NEW l, step(t, from, l) \/ yield(t, from, l)
    PROVE  Moves(t, from, l)
BY DEF step, yield, goto, Moves

LEMMA SchedMoves ==
    ASSUME SchedInv, pc \in [Threads -> Labels], NEW t \in Threads, NEW from, NEW l,
           Moves(t, from, l), t = main \/ {from, l} \cap {"absent", "done"} = {}
    PROVE  SchedInv'
<1>1. SameLive
  BY DEF SameLive, Live, Moves
<1>2. CASE UNCHANGED sched
  BY <1>1, <1>2, SchedSame
<1>3. CASE giveUp(t)
  BY <1>1, <1>3, SchedGiveUp DEF Moves
<1> QED
  BY <1>2, <1>3 DEF Moves

(* The places a thread's calls go between, but for its exit. *)
Between(from, l) ==
    \/ from = "start" /\ l \in Jobs
    \/ from = "once" /\ l \in {"init", "spin"}
    \/ from = "key" /\ l \in {"key", "find"}
    \/ from = "find" /\ l \in {"fill", "end"}
    \/ from = "fill" /\ l = "use"
    \/ from = "use" /\ l = "free"
    \/ from = "free" /\ l = "clear"
    \/ from = "wait" /\ l \in {"wait", "end"}
    \/ from \in {"init", "spin", "clear", "wake", "late"} /\ l = "end"
    \/ from \in Timed /\ l \in {from, "late", "end"}

LEMMA BetweenLabels ==
    ASSUME NEW from, NEW l, Between(from, l)
    PROVE  /\ from \in Labels /\ l \in Labels
           /\ {from, l} \cap {"absent", "done"} = {}
BY DEF Between, Labels, OnceAt, KeyAt, OtherAt, Timed, Jobs

(* Every step of a thread but its exit is one of them. *)
LEMMA StepBetween ==
    ASSUME NEW t \in Threads, pc \in [Threads -> Labels], job \in [Threads -> Jobs],
           Step(t), ~Exit(t)
    PROVE  \E from, l \in Labels : Between(from, l) /\ Moves(t, from, l)
<1> DEFINE Goal == \E from, l \in Labels : Between(from, l) /\ Moves(t, from, l)
<1>1. ASSUME NEW from, NEW l, Between(from, l), step(t, from, l) \/ yield(t, from, l)
      PROVE  Goal
  BY <1>1, StepMoves, BetweenLabels
<1> SUFFICES Goal
  OBVIOUS
<1> HIDE DEF Goal
<1>2. /\ Between("start", job[t])
      /\ Between("once", "init") /\ Between("init", "end")
      /\ Between("once", "spin") /\ Between("spin", "end")
      /\ Between("key", "key") /\ Between("key", "find") /\ Between("find", "fill")
      /\ Between("find", "end")
      /\ Between("fill", "use") /\ Between("use", "free") /\ Between("free", "clear")
      /\ Between("clear", "end") /\ Between("wait", "wait") /\ Between("wait", "end")
      /\ Between("wake", "end") /\ Between("late", "end")
  BY DEF Between
<1>3. CASE Start(t)
  BY <1>1, <1>2, <1>3 DEF Start
<1>4. CASE OnceCas(t) \/ OnceEnd(t) \/ OnceSpin(t) \/ OnceOver(t)
  BY <1>1, <1>2, <1>4 DEF OnceCas, onceCas, OnceEnd, OnceSpin, OnceOver
<1>5. CASE KeyLock(t) \/ KeyFind(t) \/ KeyNone(t) \/ KeyFill(t)
  BY <1>1, <1>2, <1>5 DEF KeyLock, lockKeys, KeyFind, KeyNone, KeyFill
<1>6. CASE KeyUse(t) \/ KeyDelete(t) \/ KeyDeleted(t)
  BY <1>1, <1>2, <1>6 DEF KeyUse, KeyDelete, KeyDeleted
<1>7. CASE Futex(t) \/ Wake(t) \/ Late(t)
  BY <1>1, <1>2, <1>7 DEF Futex, Wake, Late
<1>8. CASE TimeOut(t) \/ Found(t) \/ PollAgain(t)
  <2>1. pc[t] \in Timed
    BY <1>8 DEF TimeOut, Found, Answer, PollAgain, Timed
  <2>2. Between(pc[t], pc[t]) /\ Between(pc[t], "late") /\ Between(pc[t], "end")
    BY <2>1 DEF Between
  <2> QED
    BY <1>1, <1>8, <2>2 DEF TimeOut, Found, Answer, PollAgain
<1> QED
  BY <1>3, <1>4, <1>5, <1>6, <1>7, <1>8 DEF Step

LEMMA MainMoves ==
    ASSUME AllCreated \/ Join
    PROVE  \E from \in {"create", "end"} : \E l \in {"start", "end", "done"} :
               Moves(main, from, l)
<1>1. CASE AllCreated
  BY <1>1, StepMoves DEF AllCreated
<1>2. CASE Join
  BY <1>2, StepMoves DEF Join
<1> QED
  BY <1>1, <1>2

(* A live thread stays in one place. *)
LEMMA SchedStep ==
    ASSUME SchedInv, pc \in [Threads -> Labels], job \in [Threads -> Jobs], [Next]_vars
    PROVE  SchedInv' /\ pc' \in [Threads -> Labels] /\ job' \in [Threads -> Jobs]
<1>1. {"create", "start", "end", "done", "absent"} \subseteq Labels
  BY DEF Labels, OtherAt
<1>2. job' = job
  BY DEF Next, vars, build
<1>3. CASE UNCHANGED vars
  BY <1>2, <1>3, SchedSame DEF vars, SameLive, Live
<1>4. ASSUME NEW u \in Others, Create(u)
      PROVE  SchedInv' /\ pc' \in [Threads -> Labels]
  BY <1>1, <1>4, SchedCreate DEF Create
<1>5. CASE AllCreated \/ Join
  <2>1. PICK from \in {"create", "end"} : \E l \in {"start", "end", "done"} :
            Moves(main, from, l)
    BY <1>5, MainMoves
  <2>2. SchedInv'
    BY <2>1, SchedMoves, ThreadsAssumption
  <2> QED
    BY <1>1, <1>2, <2>1, <2>2 DEF Moves
<1>6. ASSUME NEW t \in Threads, Step(t)
      PROVE  SchedInv' /\ pc' \in [Threads -> Labels]
  <2>1. CASE Exit(t)
    BY <1>1, <2>1, SchedExit DEF Exit, goto
  <2>2. CASE ~Exit(t)
    <3>1. PICK from, l \in Labels : Between(from, l) /\ Moves(t, from, l)
      BY <1>6, <2>2, StepBetween
    <3>2. SchedInv'
      BY <3>1, SchedMoves, BetweenLabels
    <3> QED
      BY <3>1, <3>2, BetweenLabels DEF Moves
  <2> QED
    BY <2>1, <2>2
<1>7. ASSUME NEW t \in Threads, Preempt(t)
      PROVE  SchedInv' /\ pc' \in [Threads -> Labels]
  BY <1>7, SchedGiveUp DEF Preempt, SameLive, Live
<1>8. ASSUME NEW c \in Cores, Dispatch(c)
      PROVE  SchedInv' /\ pc' \in [Threads -> Labels]
  BY <1>8, SchedDispatch DEF Dispatch
<1>9. CASE Tick \/ Ready
  <2>1. UNCHANGED sched /\ UNCHANGED pc
    BY <1>9 DEF Tick, Ready
  <2> QED
    BY <1>2, <2>1, SchedSame DEF SameLive, Live
<1> QED
  BY <1>2, <1>3, <1>4, <1>5, <1>6, <1>7, <1>8, <1>9 DEF Next, Main
-----------------------------------------------------------------------------
(* pthread_once.                                                            *)

(* A move that neither enters nor leaves the routine. *)
LEMMA OnceMoves ==
    ASSUME OnceInv, pc \in [Threads -> Labels], job \in [Threads -> Jobs],
           job' = job, UNCHANGED onceVars,
           NEW t \in Threads, NEW from, NEW l, Between(from, l), Moves(t, from, l),
           from # "init", l # "init", from = "spin" => once_control = 2,
           from = "start" => l = job[t]
    PROVE  OnceInv'
<1>1. UNCHANGED <<once_control, entered>> /\ pc' = [pc EXCEPT ![t] = l] /\ pc[t] = from
  BY DEF onceVars, Moves
<1>2. /\ l \in OnceAt => job[t] = "once"
      /\ l \in KeyAt \cup {"wait", "wake", "late"} \cup Timed => job[t] # "once"
      /\ job[t] = "once" /\ l \in {"end", "done"} => once_control = 2
  <2>1. CASE from = "start"
    <3>1. l = job[t] /\ l \in Jobs
      BY <2>1
    <3> QED
      BY <2>1, <3>1 DEF OnceAt, KeyAt, Timed, Jobs
  <2>2. CASE from # "start"
    <3>1. /\ from \in OnceAt => job[t] = "once"
          /\ from \in KeyAt \cup {"wait", "wake", "late"} \cup Timed => job[t] # "once"
      BY <1>1 DEF OnceInv
    <3> QED
      BY <2>2, <3>1 DEF Between, OnceAt, KeyAt, Timed
  <2> QED
    BY <2>1, <2>2
<1> QED
  BY <1>1, <1>2 DEF OnceInv

LEMMA OnceCasStep ==
    ASSUME OnceInv, pc \in [Threads -> Labels], job' = job,
           NEW t \in Threads, OnceCas(t)
    PROVE  OnceInv'
<1>1. /\ once_control = 0 /\ once_control' = 1 /\ entered' = entered \cup {t}
      /\ pc[t] = "once" /\ pc' = [pc EXCEPT ![t] = "init"]
  BY StepMoves DEF OnceCas, onceCas, Moves
<1>2. entered' = {t} /\ job[t] = "once"
  BY <1>1 DEF OnceInv, OnceAt
<1>3. \A u \in Threads : pc[u] # "init" /\ (job[u] = "once" => pc[u] \notin {"end", "done"})
  BY <1>1 DEF OnceInv
<1> QED
  BY <1>1, <1>2, <1>3 DEF OnceInv, OnceAt, KeyAt, Timed

LEMMA OnceEndStep ==
    ASSUME OnceInv, pc \in [Threads -> Labels], job' = job,
           NEW t \in Threads, OnceEnd(t)
    PROVE  OnceInv'
<1>1. /\ once_control' = 2 /\ entered' = entered
      /\ pc[t] = "init" /\ pc' = [pc EXCEPT ![t] = "end"]
  BY StepMoves DEF OnceEnd, Moves
<1>2. entered = {t} /\ \A u \in Threads \ {t} : pc[u] # "init"
  BY <1>1 DEF OnceInv
<1> QED
  BY <1>1, <1>2 DEF OnceInv, OnceAt, KeyAt, Timed

(* init_routine runs once. *)
LEMMA OnceStep ==
    ASSUME OnceInv, pc \in [Threads -> Labels], job \in [Threads -> Jobs], [Next]_vars
    PROVE  OnceInv'
<1>1. job' = job
  BY DEF Next, vars, build
<1>2. ASSUME UNCHANGED pc, UNCHANGED onceVars
      PROVE  OnceInv'
  BY <1>1, <1>2 DEF OnceInv, onceVars
<1>3. ASSUME NEW u \in Others, Create(u)
      PROVE  OnceInv'
  <2>1. UNCHANGED <<once_control, entered>> /\ pc' = [pc EXCEPT ![u] = "start"]
    BY <1>3 DEF Create, onceVars
  <2> QED
    BY <1>1, <2>1 DEF OnceInv, OnceAt, KeyAt, Timed
<1>4. CASE AllCreated \/ Join
  <2>1. PICK from \in {"create", "end"} : \E l \in {"start", "end", "done"} :
            Moves(main, from, l)
    BY <1>4, MainMoves
  <2>2. PICK l \in {"start", "end", "done"} : Moves(main, from, l)
    BY <2>1
  <2>3. UNCHANGED <<once_control, entered>> /\ pc[main] = from /\ pc' = [pc EXCEPT ![main] = l]
    BY <1>4, <2>2 DEF AllCreated, Join, onceVars, Moves
  <2>4. from = "create" => l = "start"
    BY <1>4, <2>3, ThreadsAssumption DEF AllCreated, Join, step, yield, goto
  <2> QED
    BY <1>1, <2>1, <2>3, <2>4, ThreadsAssumption DEF OnceInv, OnceAt, KeyAt, Timed
<1>5. ASSUME NEW t \in Threads, Step(t)
      PROVE  OnceInv'
  <2>1. CASE Exit(t)
    <3>1. UNCHANGED <<once_control, entered>> /\ pc[t] = "end" /\ pc' = [pc EXCEPT ![t] = "done"]
      BY <2>1 DEF Exit, onceVars, goto
    <3> QED
      BY <1>1, <3>1 DEF OnceInv, OnceAt, KeyAt, Timed
  <2>2. CASE OnceCas(t)
    BY <1>1, <2>2, OnceCasStep
  <2>3. CASE OnceEnd(t)
    BY <1>1, <2>3, OnceEndStep
  <2>4. CASE ~(Exit(t) \/ OnceCas(t) \/ OnceEnd(t))
    <3>1. PICK from, l \in Labels : Between(from, l) /\ Moves(t, from, l)
      BY <1>5, <2>4, StepBetween
    <3>2. UNCHANGED onceVars
      BY <1>5, <2>4 DEF Step, Start, OnceSpin, OnceOver, KeyLock, lockKeys, KeyFind, KeyNone, KeyFill,
         KeyUse, KeyDelete, KeyDeleted, Futex, Wake, TimeOut, Found, Answer, PollAgain, Late
    <3>3. pc[t] = from /\ pc' = [pc EXCEPT ![t] = l]
      BY <3>1 DEF Moves
    <3>4. /\ from # "init" /\ l # "init" /\ (from = "spin" => once_control = 2)
          /\ from = "start" => l = job[t]
      <4>1. CASE Start(t) \/ OnceSpin(t) \/ OnceOver(t)
        BY <3>3, <4>1 DEF Start, OnceSpin, OnceOver, step, goto, Jobs
      <4>2. CASE KeyLock(t) \/ KeyFind(t) \/ KeyNone(t) \/ KeyFill(t) \/ KeyUse(t) \/ KeyDelete(t) \/ KeyDeleted(t)
        BY <3>3, <4>2 DEF KeyLock, lockKeys, KeyFind, KeyNone, KeyFill, KeyUse, KeyDelete, KeyDeleted,
           step, yield, goto
      <4>3. CASE Futex(t) \/ Wake(t) \/ Late(t)
        BY <3>3, <4>3 DEF Futex, Wake, Late, step, yield, goto
      <4>4. CASE TimeOut(t) \/ Found(t) \/ PollAgain(t)
        BY <3>3, <4>4 DEF TimeOut, Found, Answer, PollAgain, Timed, step, yield, goto
      <4> QED
        BY <1>5, <2>4, <4>1, <4>2, <4>3, <4>4 DEF Step
    <3> QED
      BY <1>1, <3>1, <3>2, <3>4, OnceMoves
  <2> QED
    BY <2>1, <2>2, <2>3, <2>4
<1>6. ASSUME NEW t \in Threads, Preempt(t)
      PROVE  OnceInv'
  BY <1>2, <1>6 DEF Preempt
<1>7. ASSUME NEW c \in Cores, Dispatch(c)
      PROVE  OnceInv'
  BY <1>2, <1>7 DEF Dispatch
<1>8. CASE Tick \/ Ready
  BY <1>2, <1>8 DEF Tick, Ready
<1>9. CASE UNCHANGED vars
  BY <1>2, <1>9 DEF vars
<1> QED
  BY <1>3, <1>4, <1>5, <1>6, <1>7, <1>8, <1>9 DEF Next, Main
-----------------------------------------------------------------------------
(* The keys.                                                                *)

LEMMA Keys ==
    /\ \A t \in Threads : key(t) # NoKey
    /\ \A t, u \in Threads : key(t) = key(u) => t = u
<1>1. \A t, u : [by |-> t] = [by |-> u] => t = u
  <2> SUFFICES ASSUME NEW t, NEW u, [by |-> t] = [by |-> u] PROVE t = u
    OBVIOUS
  <2>1. [by |-> t].by = [by |-> u].by
    OBVIOUS
  <2> QED
    BY <2>1
<1> QED
  BY <1>1, ThreadsAssumption DEF key, NoKey

(* The loop over the slots finds the first free one. *)
LEMMA FirstSlot ==
    ASSUME NEW S \in SUBSET Slots, S # {}
    PROVE  \E k \in S : \A j \in 0..(k - 1) : j \notin S
<1> DEFINE R == OpToRel(<, Nat)
<1>1. S \subseteq Nat
  BY KeysAssumption DEF Slots
<1>2. PICK k \in S : \A j \in S : ~(<<j, k>> \in R)
  BY <1>1, NatLessThanWellFounded, WFMin
<1>3. ASSUME NEW j \in S PROVE k <= j
  <2>1. <<j, k>> \notin R
    BY <1>2
  <2> QED
    BY <1>1, <2>1, SMT DEF OpToRel
<1> QED
  BY <1>1, <1>3

LEMMA KeyFindGets ==
    ASSUME KeyInv, pc \in [Threads -> Labels], NEW t \in Threads, KeyFind(t)
    PROVE  \E k \in Slots : abt_keys[k] = NoKey /\ i_key' = [i_key EXCEPT ![t] = k]
<1> DEFINE Free == {k \in Slots : abt_keys[k] = NoKey}
<1>1. Free \in SUBSET Slots /\ Free # {}
  BY DEF KeyFind
<1>2. PICK m \in Free : \A j \in 0..(m - 1) : j \notin Free
  BY <1>1, FirstSlot
<1>3. \A j \in 0..(m - 1) : j \in Slots
  BY KeysAssumption DEF Slots
<1>4. m \in Slots /\ abt_keys[m] = NoKey /\ \A j \in 0..(m - 1) : abt_keys[j] # NoKey
  BY <1>2, <1>3
<1> DEFINE P(n) == abt_keys[n] = NoKey /\ \A j \in 0..(n - 1) : abt_keys[j] # NoKey
           q == CHOOSE n \in Slots : P(n)
<1>5. q \in Slots /\ P(q)
  BY <1>4
<1>6. i_key' = [i_key EXCEPT ![t] = q]
  BY DEF KeyFind
<1> QED
  BY <1>5, <1>6
(* A step outside the calls of the keys, or the use of one. *)
LEMMA KeyMoves ==
    ASSUME KeyInv, pc \in [Threads -> Labels], UNCHANGED keyVars,
           NEW t \in Threads, NEW from, NEW l, pc[t] = from, pc' = [pc EXCEPT ![t] = l],
           \/ {from, l} \cap ({"find", "fill"} \cup Using) = {}
           \/ from = "use" /\ l = "free"
    PROVE  KeyInv'
<1>1. /\ UNCHANGED <<abt_keys, alive, abt_key_mutex, i_key, made>>
      /\ \A u \in Threads : /\ pc'[u] \in {"find", "fill"} <=> pc[u] \in {"find", "fill"}
                            /\ pc'[u] = "fill" <=> pc[u] = "fill"
                            /\ pc'[u] \in Using <=> pc[u] \in Using
                            /\ pc'[u] \in {"use", "free"} <=> pc[u] \in {"use", "free"}
  BY DEF keyVars, Using
<1> QED
  BY <1>1 DEF KeyInv

LEMMA KeyLockStep ==
    ASSUME KeyInv, pc \in [Threads -> Labels], NEW t \in Threads, KeyLock(t)
    PROVE  KeyInv'
<1>1. /\ UNCHANGED <<abt_keys, alive, i_key, made>> /\ pc[t] = "key"
      /\ \/ /\ abt_key_mutex = NoThread /\ abt_key_mutex' = t
            /\ pc' = [pc EXCEPT ![t] = "find"]
         \/ UNCHANGED <<abt_key_mutex, pc>>
  BY DEF KeyLock, lockKeys, step, yield, goto
<1>2. CASE UNCHANGED <<abt_key_mutex, pc>>
  BY <1>1, <1>2 DEF KeyInv
<1>3. CASE /\ abt_key_mutex = NoThread /\ abt_key_mutex' = t
           /\ pc' = [pc EXCEPT ![t] = "find"]
  <2>1. \A u \in Threads : pc[u] \notin {"find", "fill"}
    BY <1>3, ThreadsAssumption DEF KeyInv
  <2>2. \A u \in Threads : pc'[u] \in {"find", "fill"} <=> abt_key_mutex' = u
    BY <1>3, <2>1
  <2>3. \A u \in Threads : /\ pc'[u] # "fill"
                           /\ pc'[u] \in Using <=> pc[u] \in Using
                           /\ pc'[u] \in {"use", "free"} <=> pc[u] \in {"use", "free"}
    BY <1>1, <1>3, <2>1 DEF Using
  <2> QED
    BY <1>1, <1>3, <2>2, <2>3 DEF KeyInv
<1> QED
  BY <1>1, <1>2, <1>3

LEMMA KeyFindStep ==
    ASSUME KeyInv, pc \in [Threads -> Labels], NEW t \in Threads, KeyFind(t)
    PROVE  KeyInv'
<1>1. PICK k \in Slots : abt_keys[k] = NoKey /\ i_key' = [i_key EXCEPT ![t] = k]
  BY KeyFindGets
<1>2. /\ UNCHANGED <<abt_keys, alive, abt_key_mutex, made>> /\ pc[t] = "find"
      /\ pc' = [pc EXCEPT ![t] = "fill"]
  BY DEF KeyFind, step, goto
<1>3. i_key' \in [Threads -> Slots] /\ i_key'[t] = k /\ \A u \in Threads \ {t} : i_key'[u] = i_key[u]
  BY <1>1 DEF KeyInv
<1>4. \A u \in Threads : /\ pc'[u] \in {"find", "fill"} <=> pc[u] \in {"find", "fill"}
                         /\ pc'[u] \in Using <=> pc[u] \in Using
                         /\ pc'[u] \in {"use", "free"} <=> pc[u] \in {"use", "free"}
                         /\ pc'[u] \in Using => u # t
                         /\ u # t => pc'[u] = pc[u]
  BY <1>2 DEF Using
<1>5. \A u \in Threads : pc'[u] = "fill" => abt_keys'[i_key'[u]] = NoKey
  BY <1>1, <1>2, <1>3, <1>4 DEF KeyInv
<1>6. \A u \in Threads : pc'[u] \in Using => abt_keys'[i_key'[u]] = key(u)
  BY <1>2, <1>3, <1>4 DEF KeyInv
<1>7. \A m \in Slots : abt_keys'[m] # NoKey =>
          \E u \in Threads : pc'[u] \in Using /\ i_key'[u] = m
  BY <1>2, <1>3, <1>4 DEF KeyInv
<1>8. \A u \in Threads : /\ pc'[u] \in {"find", "fill"} <=> abt_key_mutex' = u
                         /\ key(u) \in alive' <=> pc'[u] \in {"use", "free"}
  BY <1>2, <1>4 DEF KeyInv
<1>9. /\ abt_keys' \in [Slots -> {NoKey} \cup {key(u) : u \in Threads}]
      /\ made' \in [Threads -> {NoKey} \cup {key(u) : u \in Threads}]
      /\ abt_key_mutex' \in Threads \cup {NoThread} /\ alive' \subseteq {key(u) : u \in Threads}
  BY <1>2 DEF KeyInv
<1>10. \A u \in Threads : /\ made'[u] = NoKey \/ made'[u] = key(u)
                          /\ pc'[u] \in Using => made'[u] = key(u)
  BY <1>2, <1>4 DEF KeyInv
<1> QED
  BY <1>3, <1>5, <1>6, <1>7, <1>8, <1>9, <1>10 DEF KeyInv

(* Without a free slot the mutex is given back. *)
LEMMA KeyNoneStep ==
    ASSUME KeyInv, pc \in [Threads -> Labels], NEW t \in Threads, KeyNone(t)
    PROVE  KeyInv'
<1>1. /\ UNCHANGED <<abt_keys, alive, i_key, made>> /\ pc[t] = "find"
      /\ pc' = [pc EXCEPT ![t] = "end"] /\ abt_key_mutex' = NoThread
  BY DEF KeyNone, step, goto
<1>2. abt_key_mutex = t /\ \A u \in Threads \ {t} : pc[u] \notin {"find", "fill"}
  BY <1>1 DEF KeyInv
<1>3. \A u \in Threads : pc'[u] \in {"find", "fill"} <=> abt_key_mutex' = u
  BY <1>1, <1>2, ThreadsAssumption
<1>4. \A u \in Threads : /\ pc'[u] # "fill"
                         /\ pc'[u] \in Using <=> pc[u] \in Using
                         /\ pc'[u] \in {"use", "free"} <=> pc[u] \in {"use", "free"}
  BY <1>1, <1>2 DEF Using
<1> QED
  BY <1>1, <1>3, <1>4 DEF KeyInv

LEMMA KeyFillStep ==
    ASSUME KeyInv, pc \in [Threads -> Labels], NEW t \in Threads, KeyFill(t)
    PROVE  KeyInv'
<1> DEFINE s == i_key[t]
<1>1. /\ UNCHANGED i_key /\ pc[t] = "fill" /\ pc' = [pc EXCEPT ![t] = "use"]
      /\ abt_keys' = [abt_keys EXCEPT ![s] = key(t)] /\ alive' = alive \cup {key(t)}
      /\ made' = [made EXCEPT ![t] = key(t)] /\ abt_key_mutex' = NoThread
  BY DEF KeyFill, step, goto, key
<1>2. s \in Slots /\ abt_keys[s] = NoKey /\ abt_key_mutex = t
  BY <1>1 DEF KeyInv
<1>3. /\ abt_keys' \in [Slots -> {NoKey} \cup {key(u) : u \in Threads}]
      /\ abt_keys'[s] = key(t) /\ \A m \in Slots \ {s} : abt_keys'[m] = abt_keys[m]
      /\ made' \in [Threads -> {NoKey} \cup {key(u) : u \in Threads}]
      /\ made'[t] = key(t) /\ \A u \in Threads \ {t} : made'[u] = made[u]
  BY <1>1, <1>2 DEF KeyInv
<1>4. \A u \in Threads \ {t} : pc'[u] = pc[u] /\ pc[u] \notin {"find", "fill"}
  BY <1>1, <1>2 DEF KeyInv
<1>5. pc'[t] = "use" /\ pc'[t] \in Using /\ pc[t] \notin Using /\ pc'[t] \notin {"find", "fill"}
  BY <1>1 DEF Using
<1>6. \A u \in Threads : pc'[u] \notin {"find", "fill"} /\ abt_key_mutex' # u
  BY <1>1, <1>4, <1>5, ThreadsAssumption
<1>7. \A u \in Threads \ {t} : pc[u] \in Using => i_key[u] # s
  BY <1>2, Keys DEF KeyInv
<1>8. \A u \in Threads : pc'[u] \in Using => abt_keys'[i_key'[u]] = key(u) /\ made'[u] = key(u)
  BY <1>1, <1>3, <1>4, <1>5, <1>7 DEF KeyInv
<1>9. \A m \in Slots : abt_keys'[m] # NoKey =>
          \E u \in Threads : pc'[u] \in Using /\ i_key'[u] = m
  BY <1>1, <1>2, <1>3, <1>4, <1>5 DEF KeyInv
<1>10. \A u \in Threads : key(u) \in alive' <=> pc'[u] \in {"use", "free"}
  BY <1>1, <1>4, <1>5, Keys DEF KeyInv
<1>11. alive' \subseteq {key(u) : u \in Threads}
  BY <1>1 DEF KeyInv
<1>12. \A u \in Threads : made'[u] = NoKey \/ made'[u] = key(u)
  BY <1>3 DEF KeyInv
<1>13. i_key' \in [Threads -> Slots] /\ abt_key_mutex' \in Threads \cup {NoThread}
  BY <1>1 DEF KeyInv
<1> QED
  BY <1>3, <1>6, <1>8, <1>9, <1>10, <1>11, <1>12, <1>13 DEF KeyInv

LEMMA KeyDeleteStep ==
    ASSUME KeyInv, pc \in [Threads -> Labels], NEW t \in Threads, KeyDelete(t)
    PROVE  KeyInv'
<1>1. /\ UNCHANGED <<abt_keys, abt_key_mutex, i_key, made>> /\ pc[t] = "free"
      /\ pc' = [pc EXCEPT ![t] = "clear"] /\ alive' = alive \ {abt_keys[i_key[t]]}
  BY DEF KeyDelete, step, goto
<1>2. abt_keys[i_key[t]] = key(t)
  BY <1>1 DEF KeyInv, Using
<1>3. \A u \in Threads : /\ pc'[u] \in {"find", "fill"} <=> pc[u] \in {"find", "fill"}
                         /\ pc'[u] = "fill" <=> pc[u] = "fill"
                         /\ pc'[u] \in Using <=> pc[u] \in Using
  BY <1>1 DEF Using
<1>4. \A u \in Threads : key(u) \in alive' <=> pc'[u] \in {"use", "free"}
  BY <1>1, <1>2, Keys DEF KeyInv
<1>5. alive' \subseteq {key(u) : u \in Threads}
  BY <1>1 DEF KeyInv
<1> QED
  BY <1>1, <1>3, <1>4, <1>5 DEF KeyInv

LEMMA KeyDeletedStep ==
    ASSUME KeyInv, pc \in [Threads -> Labels], NEW t \in Threads, KeyDeleted(t)
    PROVE  KeyInv'
<1> DEFINE s == i_key[t]
<1>1. /\ UNCHANGED <<alive, abt_key_mutex, i_key, made>> /\ pc[t] = "clear"
      /\ pc' = [pc EXCEPT ![t] = "end"] /\ abt_keys' = [abt_keys EXCEPT ![s] = NoKey]
  BY DEF KeyDeleted, step, goto
<1>2. s \in Slots /\ abt_keys[s] = key(t)
  BY <1>1 DEF KeyInv, Using
<1>3. /\ abt_keys' \in [Slots -> {NoKey} \cup {key(u) : u \in Threads}]
      /\ abt_keys'[s] = NoKey /\ \A m \in Slots \ {s} : abt_keys'[m] = abt_keys[m]
  BY <1>1, <1>2 DEF KeyInv
<1>4. \A u \in Threads : /\ pc'[u] \in {"find", "fill"} <=> pc[u] \in {"find", "fill"}
                         /\ pc'[u] = "fill" <=> pc[u] = "fill"
                         /\ pc'[u] \in Using <=> pc[u] \in Using /\ u # t
                         /\ pc'[u] \in {"use", "free"} <=> pc[u] \in {"use", "free"}
  BY <1>1 DEF Using
<1>5. \A u \in Threads \ {t} : pc[u] \in Using => i_key[u] # s
  BY <1>2, Keys DEF KeyInv
<1>6. \A u \in Threads : pc'[u] = "fill" => abt_keys'[i_key'[u]] = NoKey
  BY <1>1, <1>3, <1>4 DEF KeyInv
<1>7. \A u \in Threads : pc'[u] \in Using => abt_keys'[i_key'[u]] = key(u)
  BY <1>1, <1>3, <1>4, <1>5 DEF KeyInv
<1>8. \A m \in Slots : abt_keys'[m] # NoKey =>
          \E u \in Threads : pc'[u] \in Using /\ i_key'[u] = m
  <2> SUFFICES ASSUME NEW m \in Slots, abt_keys'[m] # NoKey
               PROVE  \E u \in Threads : pc'[u] \in Using /\ i_key'[u] = m
    OBVIOUS
  <2>1. m # s /\ abt_keys[m] # NoKey
    BY <1>3
  <2>2. PICK u \in Threads : pc[u] \in Using /\ i_key[u] = m
    BY <2>1 DEF KeyInv
  <2> QED
    BY <1>1, <1>4, <2>1, <2>2
<1> QED
  BY <1>1, <1>3, <1>4, <1>6, <1>7, <1>8 DEF KeyInv

(* A key's slot is its thread's until the key is deleted. *)
LEMMA KeyStep ==
    ASSUME KeyInv, pc \in [Threads -> Labels], job \in [Threads -> Jobs], [Next]_vars
    PROVE  KeyInv'
<1>1. ASSUME UNCHANGED pc, UNCHANGED keyVars
      PROVE  KeyInv'
  BY <1>1 DEF KeyInv, keyVars
<1>2. ASSUME NEW u \in Others, Create(u)
      PROVE  KeyInv'
  <2>1. u \in Threads /\ pc[u] = "absent" /\ pc' = [pc EXCEPT ![u] = "start"] /\ UNCHANGED keyVars
    BY <1>2 DEF Create, Others
  <2> QED
    BY <2>1, KeyMoves DEF Using
<1>3. CASE AllCreated \/ Join
  <2>1. PICK from \in {"create", "end"} : \E l \in {"start", "end", "done"} :
            Moves(main, from, l)
    BY <1>3, MainMoves
  <2>2. PICK l \in {"start", "end", "done"} : Moves(main, from, l)
    BY <2>1
  <2>3. UNCHANGED keyVars /\ pc[main] = from /\ pc' = [pc EXCEPT ![main] = l]
    BY <1>3, <2>2 DEF AllCreated, Join, Moves
  <2>4. {from, l} \cap ({"find", "fill"} \cup Using) = {}
    BY <2>1, <2>2 DEF Using
  <2>5. main \in Threads
    BY ThreadsAssumption
  <2> QED
    BY <2>3, <2>4, <2>5, KeyMoves
<1>4. ASSUME NEW t \in Threads, Step(t)
      PROVE  KeyInv'
  <2>1. CASE Exit(t)
    <3>1. UNCHANGED keyVars /\ pc[t] = "end" /\ pc' = [pc EXCEPT ![t] = "done"]
      BY <2>1 DEF Exit, goto
    <3> QED
      BY <3>1, KeyMoves DEF Using
  <2>2. CASE Start(t) \/ OnceCas(t) \/ OnceEnd(t) \/ OnceSpin(t) \/ OnceOver(t) \/ KeyUse(t)
             \/ Futex(t) \/ Wake(t) \/ TimeOut(t) \/ Found(t) \/ PollAgain(t) \/ Late(t)
    <3>1. UNCHANGED keyVars
      BY <2>2 DEF Start, OnceCas, onceCas, OnceEnd, OnceSpin, OnceOver, KeyUse, Futex, Wake,
         TimeOut, Found, Answer, PollAgain, Late
    <3>2. pc[t] \notin {"key", "find", "fill", "free", "clear"} /\ ~Exit(t)
      <4>1. CASE Start(t) \/ OnceCas(t) \/ OnceEnd(t) \/ OnceSpin(t) \/ OnceOver(t) \/ KeyUse(t)
        BY <4>1 DEF Start, OnceCas, onceCas, OnceEnd, OnceSpin, OnceOver, KeyUse, step, yield, Exit
      <4>2. CASE Futex(t) \/ Wake(t) \/ Late(t)
        BY <4>2 DEF Futex, Wake, Late, step, yield, Exit
      <4>3. CASE TimeOut(t) \/ Found(t) \/ PollAgain(t)
        BY <4>3 DEF TimeOut, Found, Answer, PollAgain, Timed, Exit
      <4> QED
        BY <2>2, <4>1, <4>2, <4>3
    <3>3. PICK from, l \in Labels : Between(from, l) /\ Moves(t, from, l)
      BY <1>4, <3>2, StepBetween
    <3>4. pc[t] = from /\ pc' = [pc EXCEPT ![t] = l]
      BY <3>3 DEF Moves
    <3>5. \/ {from, l} \cap ({"find", "fill"} \cup Using) = {}
          \/ from = "use" /\ l = "free"
      BY <3>2, <3>3, <3>4 DEF Between, Jobs, Timed, Using
    <3> QED
      BY <3>1, <3>4, <3>5, KeyMoves
  <2>3. CASE KeyLock(t) \/ KeyFind(t) \/ KeyNone(t) \/ KeyFill(t) \/ KeyDelete(t) \/ KeyDeleted(t)
    BY <2>3, KeyLockStep, KeyFindStep, KeyNoneStep, KeyFillStep, KeyDeleteStep, KeyDeletedStep
  <2> QED
    BY <1>4, <2>1, <2>2, <2>3 DEF Step
<1>5. ASSUME NEW t \in Threads, Preempt(t)
      PROVE  KeyInv'
  BY <1>1, <1>5 DEF Preempt
<1>6. ASSUME NEW c \in Cores, Dispatch(c)
      PROVE  KeyInv'
  BY <1>1, <1>6 DEF Dispatch
<1>7. CASE Tick \/ Ready
  BY <1>1, <1>7 DEF Tick, Ready
<1>8. CASE UNCHANGED vars
  BY <1>1, <1>8 DEF vars
<1> QED
  BY <1>2, <1>3, <1>4, <1>5, <1>6, <1>7, <1>8 DEF Next, Main
-----------------------------------------------------------------------------
(* The coarse clocks.                                                       *)

LEMMA Clocks ==
    /\ TICK \in Nat \ {0} /\ D \in Nat /\ Horizon \in Nat
    /\ 0 \in 0..Horizon /\ 0 \in 0..(TICK - 1)
BY CoresAssumption DEF Horizon

(* A step that lets no time pass and no thread time out. *)
LEMMA ClockMoves ==
    ASSUME ClockInv, pc \in [Threads -> Labels], UNCHANGED <<phase, elapsed, start>>,
           \A t \in Threads : pc'[t] = "late" => pc[t] = "late"
    PROVE  ClockInv'
BY DEF ClockInv, NotEarly

LEMMA TickStep ==
    ASSUME ClockInv, pc \in [Threads -> Labels], Tick
    PROVE  ClockInv'
<1>1. /\ phase' = (phase + 1) % TICK /\ UNCHANGED <<pc, start>>
      /\ elapsed' = [t \in Threads |-> IF pc[t] \in Timed /\ elapsed[t] < Horizon
                                         THEN elapsed[t] + 1 ELSE elapsed[t]]
  BY DEF Tick
<1>2. phase' \in 0..(TICK - 1)
  <2>1. phase + 1 \in Nat /\ TICK \in Nat \ {0}
    BY Clocks DEF ClockInv
  <2> QED
    BY <1>1, <2>1
<1>3. elapsed' \in [Threads -> 0..Horizon]
  <2> SUFFICES ASSUME NEW t \in Threads PROVE elapsed'[t] \in 0..Horizon
    BY <1>1
  <2>1. elapsed[t] \in 0..Horizon
    BY DEF ClockInv
  <2> QED
    BY <1>1, <2>1, Clocks
<1>4. NotEarly'
  <2> SUFFICES ASSUME NEW t \in Threads, pc'[t] = "late" PROVE elapsed'[t] + TICK > D
    BY DEF NotEarly
  <2>1. elapsed'[t] = elapsed[t]
    BY <1>1 DEF Timed
  <2> QED
    BY <1>1, <2>1 DEF ClockInv, NotEarly
<1> QED
  BY <1>1, <1>2, <1>3, <1>4 DEF ClockInv

(* The two readings of a coarse clock differ from the time by less than its *)
(* step.                                                                    *)
LEMMA TimeOutStep ==
    ASSUME ClockInv, pc \in [Threads -> Labels], NEW t \in Threads, TimeOut(t)
    PROVE  ClockInv'
<1>1. /\ Expired(t) /\ UNCHANGED <<phase, elapsed, start>>
      /\ pc' = [pc EXCEPT ![t] = "late"]
  BY DEF TimeOut, step, goto, clock
<1>2. elapsed[t] \in 0..Horizon /\ start[t] \in 0..(TICK - 1) /\ phase \in 0..(TICK - 1)
  BY DEF ClockInv
<1>3. elapsed[t] + TICK > D
  BY <1>1, <1>2, Clocks DEF Expired
<1> QED
  BY <1>1, <1>3 DEF ClockInv, NotEarly

LEMMA ResetStep ==
    ASSUME ClockInv, pc \in [Threads -> Labels], NEW t \in Threads, Found(t) \/ Late(t)
    PROVE  ClockInv'
<1>1. /\ elapsed' = [elapsed EXCEPT ![t] = 0] /\ start' = [start EXCEPT ![t] = 0]
      /\ UNCHANGED phase /\ pc' = [pc EXCEPT ![t] = "end"]
  BY DEF Found, Answer, Late, step, goto
<1> QED
  BY <1>1, Clocks DEF ClockInv, NotEarly

LEMMA StartStep ==
    ASSUME ClockInv, pc \in [Threads -> Labels], job \in [Threads -> Jobs],
           NEW t \in Threads, Start(t)
    PROVE  ClockInv'
<1>1. PICK p \in {0, phase} : start' = [start EXCEPT ![t] = p]
  BY DEF Start
<1>2. UNCHANGED <<phase, elapsed>> /\ pc' = [pc EXCEPT ![t] = job[t]] /\ job[t] # "late"
  BY DEF Start, step, goto, Jobs
<1>3. p \in 0..(TICK - 1)
  BY Clocks DEF ClockInv
<1> QED
  BY <1>1, <1>2, <1>3 DEF ClockInv, NotEarly

(* No timed call gives up too early. *)
LEMMA ClockStep ==
    ASSUME ClockInv, pc \in [Threads -> Labels], job \in [Threads -> Jobs], [Next]_vars
    PROVE  ClockInv'
<1>1. CASE UNCHANGED vars
  BY <1>1, ClockMoves DEF vars, clock
<1>2. ASSUME NEW u \in Others, Create(u)
      PROVE  ClockInv'
  BY <1>2, ClockMoves DEF Create, clock
<1>3. CASE AllCreated \/ Join
  <2>1. PICK from \in {"create", "end"} : \E l \in {"start", "end", "done"} :
            Moves(main, from, l)
    BY <1>3, MainMoves
  <2>2. UNCHANGED <<phase, elapsed, start>> /\ \A t \in Threads : pc'[t] = "late" => pc[t] = "late"
    BY <1>3, <2>1 DEF AllCreated, Join, clock, Moves
  <2> QED
    BY <2>2, ClockMoves
<1>4. ASSUME NEW t \in Threads, Step(t)
      PROVE  ClockInv'
  <2>1. CASE Exit(t)
    BY <2>1, ClockMoves DEF Exit, goto, clock
  <2>2. CASE Start(t) \/ TimeOut(t) \/ Found(t) \/ Late(t)
    BY <2>2, StartStep, TimeOutStep, ResetStep
  <2>3. CASE OnceCas(t) \/ OnceEnd(t) \/ OnceSpin(t) \/ OnceOver(t)
    BY <2>3, ClockMoves DEF OnceCas, onceCas, OnceEnd, OnceSpin, OnceOver, step, yield, goto, clock
  <2>4. CASE KeyLock(t) \/ KeyFind(t) \/ KeyNone(t) \/ KeyFill(t) \/ KeyUse(t) \/ KeyDelete(t) \/ KeyDeleted(t)
    BY <2>4, ClockMoves DEF KeyLock, lockKeys, KeyFind, KeyNone, KeyFill, KeyUse, KeyDelete, KeyDeleted,
       step, yield, goto, clock
  <2>5. CASE Futex(t) \/ Wake(t) \/ PollAgain(t)
    BY <2>5, ClockMoves DEF Futex, Wake, PollAgain, Timed, step, yield, goto, clock
  <2> QED
    BY <1>4, <2>1, <2>2, <2>3, <2>4, <2>5 DEF Step
<1>5. ASSUME NEW t \in Threads, Preempt(t)
      PROVE  ClockInv'
  BY <1>5, ClockMoves DEF Preempt, clock
<1>6. ASSUME NEW c \in Cores, Dispatch(c)
      PROVE  ClockInv'
  BY <1>6, ClockMoves DEF Dispatch, clock
<1>7. CASE Ready
  BY <1>7, ClockMoves DEF Ready, clock
<1> QED
  BY <1>1, <1>2, <1>3, <1>4, <1>5, <1>6, <1>7, TickStep DEF Next, Main
-----------------------------------------------------------------------------
(* The theorems.                                                            *)

LEMMA InitInv == Init => IInv
<1> SUFFICES ASSUME Init PROVE IInv
  OBVIOUS
<1>1. 0 \in Cores /\ 0 \in Slots
  <2>1. Cardinality(Threads) # 0 /\ Cardinality(Threads) \in Nat
    BY ThreadsAssumption, FS_EmptySet, FS_CardinalityType
  <2> QED
    BY <2>1, CoresAssumption, KeysAssumption DEF Cores, Slots
<1>2. main \in Threads /\ NoThread \notin Threads
  BY ThreadsAssumption
<1>3. pc \in [Threads -> Labels] /\ \A t \in Threads : pc[t] \in {"create", "absent"}
  BY DEF Init, Labels, OtherAt
<1>4. job \in [Threads -> Jobs]
  BY ThreadsAssumption DEF Init
<1>5. SchedInv
  <2>1. pool \in [Cores -> Seq(Threads)] /\ \A c \in Cores : Len(pool[c]) = 0
    BY DEF Init
  <2>2. SchedType
    BY <1>1, <1>2, <2>1 DEF Init, SchedType
  <2>3. RunInv
    BY <1>1, <1>2 DEF Init, RunInv, Live
  <2>4. PoolInv
    BY <2>1 DEF PoolInv
  <2>5. LiveInv
    BY <1>1, <1>2 DEF Init, LiveInv, Live, On
  <2> QED
    BY <2>2, <2>3, <2>4, <2>5 DEF SchedInv
<1>6. OnceInv
  BY <1>3 DEF Init, OnceInv, OnceAt, KeyAt, Timed
<1>7. KeyInv
  BY <1>1, <1>2, <1>3 DEF Init, KeyInv, key, Using
<1>8. ClockInv
  BY <1>3, Clocks DEF Init, ClockInv, NotEarly
<1> QED
  BY <1>3, <1>4, <1>5, <1>6, <1>7, <1>8 DEF IInv

(* The invariant with what makes it inductive: where a thread is, who has  *)
(* entered the routine, whose a slot is and what the clocks show.          *)
THEOREM Invariance == Spec => []IInv
<1>1. IInv /\ [Next]_vars => IInv'
  BY SchedStep, OnceStep, KeyStep, ClockStep DEF IInv
<1> QED
  BY <1>1, InitInv, PTL DEF Spec

(* A pool is no longer than there are threads. *)
LEMMA PoolBound ==
    ASSUME SchedInv, NEW c \in Cores
    PROVE  Len(pool[c]) \in Nat /\ Len(pool[c]) <= Cardinality(Threads)
<1>1. pool[c] \in Seq(Threads)
  BY DEF SchedInv, SchedType
<1>2. PICK n \in Nat : n = Len(pool[c])
  BY <1>1
<1>3. pool[c] \in [1..n -> Threads]
  BY <1>1, <1>2
<1>4. \A i, k \in 1..n : pool[c][k] = pool[c][i] => k = i
  BY <1>2 DEF SchedInv, PoolInv, Queued
<1>5. pool[c] \in Injection(1..n, Threads)
  BY <1>3, <1>4 DEF Injection, IsInjective
<1>6. IsFiniteSet(1..n) /\ Cardinality(1..n) = n
  <2>1. 1 \in Int /\ n \in Int
    OBVIOUS
  <2>2. IsFiniteSet(1..n) /\ Cardinality(1..n) = IF 1 > n THEN 0 ELSE n - 1 + 1
    BY <2>1, FS_Interval
  <2> QED
    BY <2>2
<1>7. Cardinality(1..n) <= Cardinality(Threads)
  BY <1>5, <1>6, ThreadsAssumption, FS_Injection
<1> QED
  BY <1>2, <1>6, <1>7

LEMMA OnePlace ==
    ASSUME SchedInv, NEW t \in Threads
    PROVE  Count(t) = IF pc[t] \in {"absent", "done"} /\ t # main THEN 0 ELSE 1
<1> DEFINE A == {c \in Cores : running[c] = t}
           B == {p \in Cores \X (1..Cardinality(Threads)) :
                     p[2] <= Len(pool[p[1]]) /\ pool[p[1]][p[2]] = t}
<1>1. Count(t) = Cardinality(A) + Cardinality(B)
  BY DEF Count
<1>2. Cardinality({}) = 0 /\ \A x : Cardinality({x}) = 1
  BY FS_EmptySet, FS_Singleton
<1>3. \A c \in Cores : running[c] = t => core[t] = c /\ Live(t)
  BY DEF SchedInv, RunInv
<1>4. \A c \in Cores : \A i \in 1..Len(pool[c]) : pool[c][i] = t =>
          core[t] = c /\ Live(t) /\ running[c] # t
  BY DEF SchedInv, PoolInv, Queued, Live
<1>5. \A p \in B : /\ p = <<p[1], p[2]>> /\ p[1] \in Cores
                   /\ p[2] \in 1..Len(pool[p[1]]) /\ pool[p[1]][p[2]] = t
  <2> SUFFICES ASSUME NEW p \in B
               PROVE  /\ p = <<p[1], p[2]>> /\ p[1] \in Cores
                      /\ p[2] \in 1..Len(pool[p[1]]) /\ pool[p[1]][p[2]] = t
    OBVIOUS
  <2>1. /\ p \in Cores \X (1..Cardinality(Threads))
        /\ p[2] <= Len(pool[p[1]]) /\ pool[p[1]][p[2]] = t
    OBVIOUS
  <2>2. p = <<p[1], p[2]>> /\ p[1] \in Cores /\ p[2] \in 1..Cardinality(Threads)
    BY <2>1
  <2>3. Cardinality(Threads) \in Nat /\ Len(pool[p[1]]) \in Nat
    BY <2>2, PoolBound, FS_CardinalityType, ThreadsAssumption
  <2> QED
    BY <2>1, <2>2, <2>3
<1>6. /\ \A c : c \in A <=> c \in Cores /\ running[c] = t
      /\ \A c \in Cores, i \in 1..Cardinality(Threads) :
            i <= Len(pool[c]) /\ pool[c][i] = t => <<c, i>> \in B
  OBVIOUS
<1> HIDE DEF A, B
<1>7. CASE ~Live(t)
  <2>1. A = {} /\ B = {}
    BY <1>3, <1>4, <1>5, <1>6, <1>7
  <2> QED
    BY <1>1, <1>2, <1>7, <2>1 DEF Live
<1>8. CASE Live(t) /\ On(t)
  <2>1. core[t] \in Cores /\ running[core[t]] = t
    BY <1>8 DEF On, SchedInv, SchedType
  <2>2. A = {core[t]}
    BY <1>3, <1>6, <2>1
  <2>3. B = {}
    BY <1>4, <1>5, <2>1
  <2>4. Cardinality(A) = 1 /\ Cardinality(B) = 0
    BY <1>2, <2>2, <2>3, Zenon
  <2> QED
    BY <1>1, <1>8, <2>4 DEF Live
<1>9. CASE Live(t) /\ ~On(t)
  <2>1. core[t] \in Cores /\ running[core[t]] # t
    BY <1>9 DEF On, SchedInv, SchedType
  <2>2. PICK i \in 1..Len(pool[core[t]]) : pool[core[t]][i] = t
    BY <1>9 DEF SchedInv, LiveInv
  <2>3. A = {}
    BY <1>3, <1>6, <2>1
  <2>4. i \in 1..Cardinality(Threads) /\ i <= Len(pool[core[t]])
    <3>1. Cardinality(Threads) \in Nat
      BY FS_CardinalityType, ThreadsAssumption
    <3> QED
      BY <2>1, <2>2, <3>1, PoolBound
  <2>5. <<core[t], i>> \in B
    BY <1>6, <2>1, <2>2, <2>4
  <2>6. ASSUME NEW p \in B PROVE p = <<core[t], i>>
    <3>1. p[1] = core[t]
      BY <1>4, <1>5
    <3>2. p[2] = i
      BY <1>5, <2>1, <2>2, <3>1 DEF SchedInv, PoolInv, Queued
    <3> QED
      BY <1>5, <3>1, <3>2
  <2>7. B = {<<core[t], i>>}
    BY <2>5, <2>6
  <2>8. Cardinality(A) = 0 /\ Cardinality(B) = 1
    BY <1>2, <2>3, <2>7, Zenon
  <2> QED
    BY <1>1, <1>9, <2>8 DEF Live
<1> QED
  BY <1>7, <1>8, <1>9

LEMMA OnceOf == OnceInv => OnceExact
<1> SUFFICES ASSUME OnceInv PROVE OnceExact
  OBVIOUS
<1>1. Cardinality({}) = 0 /\ \A x : Cardinality({x}) = 1
  BY FS_EmptySet, FS_Singleton
<1>2. Cardinality(entered) <= 1
  <2>1. CASE entered = {}
    BY <1>1, <2>1
  <2>2. ASSUME NEW t \in Threads, entered = {t} PROVE Cardinality(entered) <= 1
    <3>1. Cardinality(entered) = 1
      BY <1>1, <2>2, Zenon
    <3> QED
      BY <3>1
  <2> QED
    BY <2>1, <2>2 DEF OnceInv
<1> QED
  BY <1>2 DEF OnceInv, OnceExact

LEMMA FreedOf == KeyInv => KeysFreed
<1> SUFFICES ASSUME KeyInv, NEW t \in Threads, pc[t] \in {"end", "done"}
             PROVE  made[t] \notin alive
  BY DEF KeysFreed
<1>1. key(t) \notin alive
  BY DEF KeyInv
<1>2. NoKey \notin alive
  BY Keys DEF KeyInv
<1> QED
  BY <1>1, <1>2 DEF KeyInv

(* A live thread is in one place, on a core or in a pool; init_routine runs *)
(* once, and pthread_once returns to nobody before it has returned; a       *)
(* deleted key is freed (mylib.c, pthread_create, pthread_once,             *)
(* pthread_key_delete).                                                     *)
THEOREM InvHolds == Spec => []Inv
<1>1. IInv => Inv
  <2> SUFFICES ASSUME IInv PROVE Inv
    OBVIOUS
  <2>1. TypeOK
    BY OnePlace DEF IInv, SchedInv, SchedType, OnceInv, KeyInv, ClockInv, TypeOK
  <2> QED
    BY <2>1, OnceOf, FreedOf DEF IInv, Inv
<1> QED
  BY <1>1, Invariance, PTL

(* From pthread_key_create to pthread_key_delete a key's slot leads to the  *)
(* key that was made for it, which is not freed, although the deletion does *)
(* not take abt_key_mutex (mylib.c, pthread_key_delete).                    *)
THEOREM KeysSoundHolds == Spec => []KeysSound
<1>1. IInv => KeysSound
  BY DEF IInv, KeyInv, KeysSound, Using
<1> QED
  BY <1>1, Invariance, PTL

(* A call with a timeout does not give up more than a step of the coarse    *)
(* clock before its time (hook.c, clock_nanosleep, pselect6, epoll_pwait2). *)
THEOREM NotEarlyHolds == Spec => []NotEarly
<1>1. IInv => NotEarly
  BY DEF IInv, ClockInv
<1> QED
  BY <1>1, Invariance, PTL
=============================================================================
