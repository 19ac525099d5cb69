--------------------------- MODULE FirstGenProofs ---------------------------
(***************************************************************************)
(* What holds of FirstGen for every set of workers, every program and any  *)
(* number of streams and helpers: threads have records of their own also   *)
(* when records are used again, a call through a helper is carried out     *)
(* once and gets its own answer, and an initialised mutex excludes.        *)
(***************************************************************************)
EXTENDS FirstGen, FiniteSetTheorems, SequenceTheorems, TLAPS

-----------------------------------------------------------------------------
(* The inductive invariant.                                                 *)

Places == {"absent", "run", "join", "signal", "poll", "inside", "over"}
PcInv ==
    /\ pc \in [Threads -> Places] /\ pc[main] \in {"run", "join"}
    /\ job \in Programs /\ initialised \in BOOLEAN

(* A thread runs on its own stream. *)
SchedInv ==
    /\ running \in [Streams -> Threads \cup {NoThread}]
    /\ \A s \in Streams, t \in Threads : running[s] = t => pc[t] # "absent" /\ stream(t) = s

(* Each thread is joined by one thread, and once it is over. *)
JoinInv ==
    /\ joined \subseteq {u \in Workers : pc[u] = "over"}
    /\ joining \in [Threads -> Workers \cup {NoThread}]
    /\ \A t \in Threads : pc[t] = "join" =>
          /\ joining[t] \in Workers \ joined /\ pc[joining[t]] # "absent"
          /\ IF t = main THEN \A v \in Workers : job[v] # joining[t] ELSE job[t] = joining[t]

(* A record is in the pool or of the one thread in its entry of the map. *)
InPool(k) == \E i \in 1..Len(myth_pool) : myth_pool[i] = k
RecType ==
    /\ myth \in [Workers -> Tids] /\ th_map \in [Tids -> Workers \cup {NoThread}]
    /\ n_abt_thread \in 0..Cardinality(Workers)
    /\ myth_pool \in Seq(0..(n_abt_thread - 1))
PoolOnce == \A i, k \in 1..Len(myth_pool) : myth_pool[i] = myth_pool[k] => i = k
OwnTid == \A t \in Workers : Alive(t) =>
    myth[t] < n_abt_thread /\ th_map[myth[t]] = t /\ ~InPool(myth[t])
NoneLost == \A k \in 0..(n_abt_thread - 1) : InPool(k) \/
    \E t \in Workers : Alive(t) /\ myth[t] = k
RecInv == RecType /\ PoolOnce /\ OwnTid /\ NoneLost

(* The ids of the threads that were created are counted from 1. *)
Created == {t \in Workers : pc[t] # "absent"}
IdInv ==
    /\ abt_id \in [Workers -> Nat] /\ created = Cardinality(Created)
    /\ \A t \in Workers : IF t \in Created THEN abt_id[t] \in 1..created ELSE abt_id[t] = 0
    /\ \A t, u \in Created : abt_id[t] = abt_id[u] => t = u

(* Where a call is between a thread and its helper. *)
now(t) == <<t, made[t]>>
Idle(h) == helpers[h].at = 0 /\ ~helpers[h].ready
Handoff(t) ==
    LET s == helper(t) IN
    /\ pc[t] \notin {"signal", "poll"} =>
          /\ Idle(abt_id[t])
          /\ made[t] > 0 => got[t] = now(t) /\ times[now(t)] = 1
    /\ pc[t] = "signal" =>
          made[t] > 0 /\ Idle(abt_id[t]) /\ ~s.done /\ s.arg = now(t) /\ times[now(t)] = 0
    /\ pc[t] = "poll" =>
          /\ made[t] > 0 /\ s.arg = now(t)
          /\ s.ready => s.at = 0 /\ ~s.done
          /\ s.done => s.at = 0
          /\ IF s.at = 2 \/ s.done THEN s.ret = now(t) /\ times[now(t)] = 1
                                   ELSE (s.at = 0 => s.ready) /\ times[now(t)] = 0

Slots == [done : BOOLEAN, ready : BOOLEAN, arg : Requests \cup {NoRequest},
          ret : Requests \cup {NoRequest}, at : 0..2]
CallInv ==
    /\ helpers \in [Ids -> Slots] /\ made \in [Workers -> 0..MaxCalls]
    /\ got \in [Workers -> Requests \cup {NoRequest}] /\ times \in [Requests -> Nat]
    /\ \A t \in Workers : /\ pc[t] = "absent" => made[t] = 0
                          /\ made[t] > 0 => job[t] = "call"
                          /\ pc[t] \in {"join", "inside"} => job[t] # "call"
                          /\ pc[t] # "absent" => Handoff(t)
    /\ \A r \in Requests : r[2] > made[r[1]] => times[r] = 0
    /\ \A h \in Ids : (\A t \in Created : abt_id[t] # h) => Idle(h)

(* The mutex of the map and who is inside. *)
LockInv ==
    /\ mutex \in Workers \cup {NoThread, Unknown} /\ inside \subseteq Workers
    /\ \A t \in Workers : pc[t] = "inside" <=> t \in inside
    /\ initialised => /\ mutex # Unknown
                      /\ inside = IF mutex = NoThread THEN {} ELSE {mutex}

IInv == PcInv /\ SchedInv /\ JoinInv /\ RecInv /\ IdInv /\ CallInv /\ LockInv
-----------------------------------------------------------------------------
(* Steps of one thread.                                                     *)

Moves(t, from, l) == pc[t] = from /\ pc' = [pc EXCEPT ![t] = l]

(* The places between which a thread that is there goes on without joining, *)
(* and what it is that brings it there.                                     *)
Between(t, from, l) ==
    \/ from = "run" /\ l = "signal" /\ Ask(t)
    \/ from = "signal" /\ l = "poll" /\ Signal(t)
    \/ from = "poll" /\ l \in {"run", "poll"} /\ Poll(t)
    \/ from = "run" /\ l = "over" /\ (CallsMade(t) \/ Direct(t))
    \/ from = "run" /\ l \in {"run", "inside"} /\ (Lock(t) \/ LockUnknown(t))
    \/ from = "inside" /\ l = "over" /\ Unlock(t)

LEMMA StepMoves ==
    ASSUME NEW t \in Workers, Step(t), ~\E u \in Workers : CallJoin(t, u)
    PROVE  \E from, l \in Places : Moves(t, from, l) /\ Between(t, from, l)
<1> DEFINE Goal == \E from, l \in Places : Moves(t, from, l) /\ Between(t, from, l)
<1> SUFFICES Goal
  OBVIOUS
<1>1. ASSUME NEW from \in Places, NEW l \in Places, Moves(t, from, l), Between(t, from, l)
      PROVE  Goal
  BY <1>1
<1> HIDE DEF Goal
<1>2. {"run", "signal", "poll", "inside", "over"} \subseteq Places
  BY DEF Places
<1>3. CASE Ask(t)
  BY <1>1, <1>2, <1>3 DEF Ask, goto, Moves, Between
<1>4. CASE Signal(t)
  BY <1>1, <1>2, <1>4 DEF Signal, goto, Moves, Between
<1>5. CASE Poll(t)
  BY <1>1, <1>2, <1>5 DEF Poll, goto, leave, Moves, Between
<1>6. CASE CallsMade(t)
  BY <1>1, <1>2, <1>6 DEF CallsMade, leave, Moves, Between
<1>7. CASE Direct(t)
  BY <1>1, <1>2, <1>7 DEF Direct, leave, Moves, Between
<1>8. CASE Lock(t)
  BY <1>1, <1>2, <1>8 DEF Lock, leave, Moves, Between
<1>9. CASE LockUnknown(t)
  BY <1>1, <1>2, <1>9 DEF LockUnknown, leave, Moves, Between
<1>10. CASE Unlock(t)
  BY <1>1, <1>2, <1>10 DEF Unlock, leave, Moves, Between
<1> QED
  BY <1>3, <1>4, <1>5, <1>6, <1>7, <1>8, <1>9, <1>10 DEF Step

(* Such a thread was there, is there after it, and had not ended. *)
LEMMA BetweenPlaces ==
    ASSUME NEW t, NEW from, NEW l, Between(t, from, l)
    PROVE  /\ from \notin {"absent", "join", "over"} /\ l \notin {"absent", "join"}
           /\ UNCHANGED <<myth, abt_id, th_map, n_abt_thread, myth_pool, created, joined, joining>>
BY DEF Between, Ask, Signal, Poll, CallsMade, Direct, Lock, LockUnknown, Unlock, records, joins

(* Everything but one thread's place is as it was. *)
LEMMA CallJoinIs ==
    ASSUME NEW t \in Threads, NEW u \in Workers, CallJoin(t, u)
    PROVE  /\ Moves(t, "run", "join") /\ MayJoin(t, u) /\ pc[u] # "absent" /\ u \notin joined
           /\ joining' = [joining EXCEPT ![t] = u]
           /\ UNCHANGED <<running, myth, abt_id, th_map, n_abt_thread, myth_pool, created, joined>>
           /\ UNCHANGED <<helpers, made, got, times, mutex, inside>>
BY DEF CallJoin, goto, Moves, records, calls, locks

(* What a join finds, and what it leaves behind. *)
LEMMA my_joinIs ==
    ASSUME PcInv, JoinInv, RecInv, NEW t \in Threads, my_join(t)
    PROVE  \E u \in Workers, l \in {"run", "over"} :
               /\ u = joining[t] /\ u \notin joined /\ u # t /\ Alive(u) /\ pc[u] = "over"
               /\ Moves(t, "join", l) /\ (t = main <=> l = "run")
               /\ joined' = joined \cup {u} /\ myth_pool' = Append(myth_pool, myth[u])
               /\ joining' = [joining EXCEPT ![t] = NoThread]
               /\ UNCHANGED <<myth, abt_id, th_map, n_abt_thread, created>>
               /\ UNCHANGED <<helpers, made, got, times, mutex, inside>>
<1>1. PICK u \in Workers : u = joining[t] /\ u \notin joined /\ pc[u] # "absent"
  BY DEF my_join, JoinInv
<1>2. Alive(u)
  BY <1>1 DEF Alive
<1>3. pc[u] = "over" /\ pc[t] = "join"
  BY <1>1, <1>2 DEF my_join, RecInv, RecType, PoolOnce, OwnTid, NoneLost
<1>4. \E l \in {"run", "over"} : Moves(t, "join", l) /\ (t = main <=> l = "run")
  BY DEF my_join, goto, leave, Moves
<1> QED
  BY <1>1, <1>2, <1>3, <1>4 DEF my_join, calls, locks

(* What a creation does, but for the record. *)
LEMMA CreateIs ==
    ASSUME NEW u \in Workers, Create(u)
    PROVE  /\ Moves(u, "absent", "run") /\ created' = created + 1
           /\ abt_id' = [abt_id EXCEPT ![u] = created + 1]
           /\ \E k : myth' = [myth EXCEPT ![u] = k]
           /\ UNCHANGED <<running, joined, joining, helpers, made, got, times, mutex, inside>>
BY DEF Create, goto, Moves, joins, calls, locks
-----------------------------------------------------------------------------
(* Where the threads are.                                                   *)

LEMMA MainPlace ==
    ASSUME PcInv, NEW u \in Workers
    PROVE  u \in Threads /\ u # main /\ main \in Threads
BY ThreadsAssumption DEF Threads

LEMMA PcStep ==
    ASSUME PcInv, JoinInv, RecInv, [Next]_vars
    PROVE  PcInv'
<1>1. UNCHANGED <<job, initialised>>
  BY DEF Next, vars, program
<1>2. {"run", "join", "over"} \subseteq Places
  BY DEF Places
<1>3. ASSUME NEW u \in Workers, Create(u)
      PROVE  PcInv'
  BY <1>1, <1>2, <1>3, CreateIs, MainPlace DEF PcInv, Moves
<1>4. ASSUME NEW t \in Threads, NEW u \in Workers, CallJoin(t, u)
      PROVE  PcInv'
  <2>1. pc' = [pc EXCEPT ![t] = "join"]
    BY <1>4, CallJoinIs DEF Moves
  <2> QED
    BY <1>1, <1>2, <2>1 DEF PcInv
<1>5. ASSUME NEW t \in Threads, my_join(t)
      PROVE  PcInv'
  <2>1. PICK l \in {"run", "over"} : Moves(t, "join", l) /\ (t = main <=> l = "run")
    BY <1>5, my_joinIs
  <2> QED
    BY <1>1, <1>2, <2>1 DEF PcInv, Moves
<1>6. ASSUME NEW t \in Workers, Step(t), ~\E u \in Workers : CallJoin(t, u)
      PROVE  PcInv'
  <2>1. PICK from, l \in Places : Moves(t, from, l)
    BY <1>6, StepMoves
  <2> QED
    BY <1>1, <2>1, MainPlace DEF PcInv, Moves
<1>7. ASSUME UNCHANGED pc
      PROVE  PcInv'
  BY <1>1, <1>7 DEF PcInv
<1>8. ASSUME NEW t \in Threads, Dispatch(t)
      PROVE  PcInv'
  BY <1>7, <1>8 DEF Dispatch
<1>9. ASSUME NEW h \in Ids, Helper(h)
      PROVE  PcInv'
  BY <1>7, <1>9 DEF Helper, sched
<1>10. CASE UNCHANGED vars
  BY <1>7, <1>10 DEF vars, sched
<1>11. \A t \in Workers : t \in Threads
  BY DEF Threads
<1> QED
  BY <1>3, <1>4, <1>5, <1>6, <1>8, <1>9, <1>10, <1>11, ThreadsAssumption DEF Next, Main, Threads, Step

-----------------------------------------------------------------------------
(* The streams.                                                             *)

LEMMA SchedMoves ==
    ASSUME SchedInv, PcInv, NEW t \in Threads, NEW from, NEW l, Moves(t, from, l),
           l # "absent", UNCHANGED myth,
           \/ UNCHANGED running
           \/ running' = [running EXCEPT ![stream(t)] = NoThread]
    PROVE  SchedInv'
<1>1. \A u \in Threads : stream(u)' = stream(u)
  BY DEF stream
<1>2. \A u \in Threads : pc[u] # "absent" => pc'[u] # "absent"
  BY DEF PcInv, Moves
<1>3. \A s \in Streams : running'[s] \in {running[s], NoThread}
  BY DEF SchedInv
<1>4. running' \in [Streams -> Threads \cup {NoThread}]
  BY DEF SchedInv
<1> QED
  BY <1>1, <1>2, <1>3, <1>4, ThreadsAssumption DEF SchedInv

LEMMA StepRuns ==
    ASSUME NEW t, NEW from, NEW l, Between(t, from, l)
    PROVE  \/ UNCHANGED running
           \/ running' = [running EXCEPT ![stream(t)] = NoThread]
BY DEF Between, Ask, Signal, Poll, CallsMade, Direct, Lock, LockUnknown, Unlock, goto, leave

LEMMA SchedStep ==
    ASSUME SchedInv, PcInv, JoinInv, RecInv, [Next]_vars
    PROVE  SchedInv'
<1>1. ASSUME NEW u \in Workers, Create(u)
      PROVE  SchedInv'
  <2>1. PICK k : myth' = [myth EXCEPT ![u] = k]
    BY <1>1, CreateIs
  <2>2. Moves(u, "absent", "run") /\ UNCHANGED running
    BY <1>1, CreateIs
  <2>3. u \in Threads
    BY MainPlace
  <2>4. \A s \in Streams, t \in Threads : running[s] = t => t # u /\ pc'[t] # "absent"
    BY <2>2, <2>3 DEF SchedInv, PcInv, Moves
  <2>5. \A t \in Threads \ {u} : stream(t)' = stream(t)
    <3>1. \A t \in Workers \ {u} : myth'[t] = myth[t]
      BY <2>1 DEF RecInv, RecType, PoolOnce, OwnTid, NoneLost
    <3> QED
      BY <3>1 DEF stream, Threads
  <2> QED
    BY <2>2, <2>4, <2>5 DEF SchedInv
<1>2. ASSUME NEW t \in Threads, NEW u \in Workers, CallJoin(t, u)
      PROVE  SchedInv'
  BY <1>2, CallJoinIs, SchedMoves
<1>3. ASSUME NEW t \in Threads, my_join(t)
      PROVE  SchedInv'
  <2>1. PICK l \in {"run", "over"} : Moves(t, "join", l) /\ UNCHANGED myth
    BY <1>3, my_joinIs
  <2>2. UNCHANGED running \/ running' = [running EXCEPT ![stream(t)] = NoThread]
    BY <1>3 DEF my_join, goto, leave
  <2> QED
    BY <2>1, <2>2, SchedMoves
<1>4. ASSUME NEW t \in Workers, Step(t), ~\E u \in Workers : CallJoin(t, u)
      PROVE  SchedInv'
  <2>1. PICK from, l \in Places : Moves(t, from, l) /\ Between(t, from, l)
    BY <1>4, StepMoves
  <2>2. t \in Threads
    BY MainPlace
  <2> QED
    BY <2>1, <2>2, SchedMoves, StepRuns, BetweenPlaces
<1>5. ASSUME UNCHANGED <<pc, running, myth>>
      PROVE  SchedInv'
  BY <1>5 DEF SchedInv, stream
<1>6. ASSUME NEW t \in Threads, Dispatch(t)
      PROVE  SchedInv'
  <2>1. /\ pc[t] # "absent" /\ running' = [running EXCEPT ![stream(t)] = t]
        /\ UNCHANGED <<pc, myth>>
    BY <1>6 DEF Dispatch, records
  <2>2. \A u \in Threads : stream(u)' = stream(u)
    BY <2>1 DEF stream
  <2>3. \A s \in Streams : running'[s] = IF s = stream(t) THEN t ELSE running[s]
    BY <2>1 DEF SchedInv
  <2>4. running' \in [Streams -> Threads \cup {NoThread}]
    BY <2>1 DEF SchedInv
  <2> QED
    BY <2>1, <2>2, <2>3, <2>4 DEF SchedInv
<1>7. ASSUME NEW h \in Ids, Helper(h)
      PROVE  SchedInv'
  BY <1>5, <1>7 DEF Helper, sched, records
<1>8. CASE UNCHANGED vars
  BY <1>5, <1>8 DEF vars, sched, records
<1>9. Workers \subseteq Threads /\ main \in Threads
  BY DEF Threads
<1> QED
  BY <1>1, <1>2, <1>3, <1>4, <1>6, <1>7, <1>8, <1>9 DEF Next, Main

-----------------------------------------------------------------------------
(* Joins.                                                                   *)

LEMMA JoinMoves ==
    ASSUME JoinInv, PcInv, NEW t \in Threads, NEW from, NEW l, Moves(t, from, l),
           from # "over", l \notin {"absent", "join"}, UNCHANGED <<joined, joining, job>>
    PROVE  JoinInv'
<1>1. \A u \in Threads : /\ pc[u] # "absent" => pc'[u] # "absent"
                         /\ pc'[u] = "join" => pc[u] = "join"
                         /\ pc[u] = "over" => pc'[u] = "over"
  BY DEF PcInv, Moves
<1>2. \A u \in Workers : u \in Threads
  BY MainPlace
<1> QED
  BY <1>1, <1>2 DEF JoinInv

(* Nobody joins a thread that somebody joins. *)
LEMMA OneJoins ==
    ASSUME JoinInv, PcInv, NEW t \in Threads, NEW v \in Threads,
           pc[t] = "join", pc[v] = "join", joining[t] = joining[v]
    PROVE  t = v
BY JoinsAssumption DEF JoinInv, PcInv, Threads

LEMMA JoinStep ==
    ASSUME JoinInv, PcInv, RecInv, [Next]_vars
    PROVE  JoinInv'
<1>1. UNCHANGED job
  BY DEF Next, vars, program
<1>2. Workers \subseteq Threads /\ main \in Threads
  BY DEF Threads
<1>3. ASSUME NEW u \in Workers, Create(u)
      PROVE  JoinInv'
  BY <1>1, <1>2, <1>3, CreateIs, JoinMoves
<1>4. ASSUME NEW t \in Threads, NEW u \in Workers, CallJoin(t, u)
      PROVE  JoinInv'
  <2>1. /\ pc[t] = "run" /\ pc' = [pc EXCEPT ![t] = "join"] /\ MayJoin(t, u)
        /\ pc[u] # "absent" /\ u \notin joined
        /\ joining' = [joining EXCEPT ![t] = u] /\ UNCHANGED joined
    BY <1>4, CallJoinIs DEF Moves
  <2>2. joined' \subseteq {v \in Workers : pc'[v] = "over"}
    BY <2>1, <1>2 DEF JoinInv, PcInv
  <2>3. joining' \in [Threads -> Workers \cup {NoThread}]
    BY <2>1 DEF JoinInv
  <2>4. ASSUME NEW v \in Threads, pc'[v] = "join"
        PROVE  /\ joining'[v] \in Workers \ joined' /\ pc'[joining'[v]] # "absent"
               /\ IF v = main THEN \A w \in Workers : job'[w] # joining'[v] ELSE job'[v] = joining'[v]
    <3>1. CASE v = t
      BY <1>1, <1>2, <2>1, <3>1 DEF MayJoin, JoinInv, PcInv
    <3>2. CASE v # t
      BY <1>1, <1>2, <2>1, <2>4, <3>2 DEF JoinInv, PcInv
    <3> QED
      BY <3>1, <3>2
  <2> QED
    BY <2>2, <2>3, <2>4 DEF JoinInv
<1>5. ASSUME NEW t \in Threads, my_join(t)
      PROVE  JoinInv'
  <2>1. PICK u \in Workers, l \in {"run", "over"} :
            /\ u = joining[t] /\ u # t /\ pc[u] = "over" /\ Moves(t, "join", l)
            /\ joined' = joined \cup {u} /\ joining' = [joining EXCEPT ![t] = NoThread]
    BY <1>5, my_joinIs
  <2>2. pc[t] = "join" /\ pc' = [pc EXCEPT ![t] = l]
    BY <2>1 DEF Moves
  <2>3. joined' \subseteq {v \in Workers : pc'[v] = "over"}
    BY <1>2, <2>1, <2>2 DEF JoinInv, PcInv
  <2>4. joining' \in [Threads -> Workers \cup {NoThread}]
    BY <2>1 DEF JoinInv
  <2>5. ASSUME NEW v \in Threads, pc'[v] = "join"
        PROVE  /\ joining'[v] \in Workers \ joined' /\ pc'[joining'[v]] # "absent"
               /\ IF v = main THEN \A w \in Workers : job'[w] # joining'[v] ELSE job'[v] = joining'[v]
    <3>1. v # t /\ pc[v] = "join" /\ joining'[v] = joining[v]
      BY <2>1, <2>2, <2>5 DEF PcInv, JoinInv
    <3>2. joining[v] # u
      BY <2>1, <2>2, <3>1, OneJoins
    <3>3. joining[v] \in Threads /\ pc[joining[v]] # "absent"
      BY <1>2, <3>1 DEF JoinInv
    <3>4. pc'[joining[v]] # "absent"
      BY <2>2, <3>3 DEF PcInv
    <3> QED
      BY <1>1, <2>1, <3>1, <3>2, <3>4 DEF JoinInv
  <2> QED
    BY <2>3, <2>4, <2>5 DEF JoinInv
<1>6. ASSUME NEW t \in Workers, Step(t), ~\E u \in Workers : CallJoin(t, u)
      PROVE  JoinInv'
  <2>1. PICK from, l \in Places : Moves(t, from, l) /\ Between(t, from, l)
    BY <1>6, StepMoves
  <2> QED
    BY <1>1, <1>2, <2>1, JoinMoves, BetweenPlaces
<1>7. ASSUME UNCHANGED pc, UNCHANGED joins
      PROVE  JoinInv'
  BY <1>1, <1>7 DEF JoinInv, joins
<1>8. ASSUME NEW t \in Threads, Dispatch(t)
      PROVE  JoinInv'
  BY <1>7, <1>8 DEF Dispatch
<1>9. ASSUME NEW h \in Ids, Helper(h)
      PROVE  JoinInv'
  BY <1>7, <1>9 DEF Helper, sched
<1>10. CASE UNCHANGED vars
  BY <1>7, <1>10 DEF vars, sched
<1> QED
  BY <1>2, <1>3, <1>4, <1>5, <1>6, <1>8, <1>9, <1>10 DEF Next, Main
-----------------------------------------------------------------------------
(* The records.                                                             *)

(* A step that leaves the records alone and after which the same threads are *)
(* alive.                                                                   *)
LEMMA RecSame ==
    ASSUME RecInv, UNCHANGED <<myth, th_map, n_abt_thread, myth_pool>>,
           \A t \in Workers : Alive(t)' <=> Alive(t)
    PROVE  RecInv'
BY DEF RecInv, RecType, PoolOnce, OwnTid, NoneLost, InPool

LEMMA RecMoves ==
    ASSUME RecInv, PcInv, JoinInv, NEW t \in Threads, NEW from, NEW l, Moves(t, from, l),
           from \notin {"absent", "over"}, l # "absent",
           UNCHANGED <<myth, th_map, n_abt_thread, myth_pool, joined>>
    PROVE  RecInv'
<1>1. \A u \in Workers : Alive(u)' <=> Alive(u)
  BY MainPlace DEF Alive, PcInv, JoinInv, Moves
<1> QED
  BY <1>1, RecSame

(* A record that comes back to the pool is in it once, and nobody's. *)
LEMMA RecJoin ==
    ASSUME RecInv, PcInv, JoinInv, NEW t \in Threads, my_join(t)
    PROVE  RecInv'
<1>1. PICK u \in Workers, l \in {"run", "over"} :
          /\ u \notin joined /\ u # t /\ Alive(u) /\ pc[u] = "over" /\ Moves(t, "join", l)
          /\ joined' = joined \cup {u} /\ myth_pool' = Append(myth_pool, myth[u])
          /\ UNCHANGED <<myth, th_map, n_abt_thread>>
  BY my_joinIs
<1> DEFINE n == Len(myth_pool)
           k == myth[u]
<1>2. /\ k \in 0..(n_abt_thread - 1) /\ ~InPool(k) /\ th_map[k] = u
      /\ myth_pool \in Seq(0..(n_abt_thread - 1))
  BY <1>1 DEF RecInv, RecType, PoolOnce, OwnTid, NoneLost, Tids
<1>3. /\ n \in Nat /\ myth_pool' \in Seq(0..(n_abt_thread - 1)) /\ Len(myth_pool') = n + 1
      /\ myth_pool'[n + 1] = k /\ \A i \in 1..n : myth_pool'[i] = myth_pool[i]
  BY <1>1, <1>2, AppendProperties
<1>4. ~Alive(u)' /\ \A v \in Workers \ {u} : Alive(v)' <=> Alive(v)
  BY <1>1, MainPlace DEF Alive, PcInv, JoinInv, Moves
<1>5. \A i \in 1..n : myth_pool[i] # k
  BY <1>2 DEF InPool
<1>6. PoolOnce'
  <2>1. \A i, j \in 1..n : myth_pool[i] = myth_pool[j] => i = j
    BY DEF RecInv, PoolOnce
  <2>2. \A i \in 1..(n + 1) : i = n + 1 \/ i \in 1..n
    BY <1>3
  <2>3. \A i, j \in 1..(n + 1) : myth_pool'[i] = myth_pool'[j] => i = j
    BY <1>3, <1>5, <2>1, <2>2
  <2> QED
    BY <1>3, <2>3 DEF PoolOnce
<1>7. \A m : InPool(m)' <=> InPool(m) \/ m = k
  BY <1>3 DEF InPool
<1>8. ASSUME NEW v \in Workers, Alive(v)'
      PROVE  myth[v] < n_abt_thread /\ th_map[myth[v]] = v /\ ~InPool(myth[v])'
  <2>1. v # u /\ Alive(v)
    BY <1>4, <1>8
  <2>2. myth[v] < n_abt_thread /\ th_map[myth[v]] = v /\ ~InPool(myth[v])
    BY <2>1 DEF RecInv, RecType, PoolOnce, OwnTid, NoneLost
  <2>3. myth[v] # k
    BY <1>2, <2>1, <2>2
  <2>4. PICK m : m = myth[v]
    OBVIOUS
  <2> QED
    BY <1>1, <1>7, <2>2, <2>3, <2>4 DEF InPool
<1>9. ASSUME NEW m \in 0..(n_abt_thread - 1)
      PROVE  InPool(m)' \/ \E v \in Workers : Alive(v)' /\ myth[v] = m
  BY <1>4, <1>7 DEF RecInv, RecType, PoolOnce, OwnTid, NoneLost
<1>10. RecType'
  BY <1>1, <1>3 DEF RecInv, RecType
<1>11. OwnTid'
  BY <1>1, <1>8 DEF OwnTid
<1>12. NoneLost'
  BY <1>1, <1>9 DEF NoneLost
<1> QED
  BY <1>6, <1>10, <1>11, <1>12 DEF RecInv

(* While somebody is absent a record with a new tid fits into the map. *)
LEMMA RoomForRecord ==
    ASSUME RecInv, NEW u \in Workers, ~Alive(u), Len(myth_pool) = 0
    PROVE  n_abt_thread \in Tids /\ n_abt_thread + 1 \in 0..Cardinality(Workers)
<1> DEFINE W == {t \in Workers : Alive(t)}
           f == [t \in W |-> myth[t]]
           n == n_abt_thread
<1>1. IsFiniteSet(Workers) /\ Cardinality(Workers) \in Nat
  BY ThreadsAssumption, FS_CardinalityType
<1>2. n \in Nat /\ \A k \in 0..(n - 1) : \E t \in W : f[t] = k
  BY <1>1 DEF RecInv, RecType, PoolOnce, OwnTid, NoneLost, InPool
<1>3. \A t \in W : f[t] \in 0..(n - 1)
  BY <1>1 DEF RecInv, RecType, PoolOnce, OwnTid, NoneLost, Tids
<1>4. f \in Surjection(W, 0..(n - 1))
  BY <1>2, <1>3 DEF Surjection
<1>5. W \in SUBSET (Workers \ {u})
  OBVIOUS
<1>6. /\ IsFiniteSet(Workers \ {u})
      /\ Cardinality(Workers \ {u}) = Cardinality(Workers) - 1
  BY <1>1, FS_RemoveElement
<1> HIDE DEF W, f
<1>7. IsFiniteSet(W) /\ Cardinality(W) <= Cardinality(Workers) - 1 /\ Cardinality(W) \in Nat
  BY <1>5, <1>6, FS_Subset, FS_CardinalityType
<1>8. Cardinality(0..(n - 1)) <= Cardinality(W)
  BY <1>4, <1>7, FS_Surjection
<1>9. Cardinality(0..(n - 1)) = n
  <2>1. 0 \in Int /\ n - 1 \in Int
    BY <1>2
  <2>2. Cardinality(0..(n - 1)) = IF 0 > n - 1 THEN 0 ELSE (n - 1) - 0 + 1
    BY <2>1, FS_Interval
  <2> QED
    BY <1>2, <2>2
<1> QED
  BY <1>1, <1>2, <1>7, <1>8, <1>9 DEF Tids

(* A record that is used again has nobody else; a new one was nobody's. *)
LEMMA RecordOf ==
    ASSUME RecInv, PcInv, JoinInv, NEW u \in Workers, Create(u)
    PROVE  \E k \in Tids :
               /\ myth' = [myth EXCEPT ![u] = k] /\ th_map' = [th_map EXCEPT ![k] = u]
               /\ \A v \in Workers : Alive(v) => myth[v] # k
               /\ n_abt_thread' \in 0..Cardinality(Workers)
               /\ n_abt_thread <= n_abt_thread' /\ k < n_abt_thread'
               /\ \A m \in 0..(n_abt_thread' - 1) : m # k => m < n_abt_thread
               /\ myth_pool' \in Seq(0..(n_abt_thread' - 1))
               /\ \A i, j \in 1..Len(myth_pool') : myth_pool'[i] = myth_pool'[j] => i = j
               /\ \A m : InPool(m)' <=> InPool(m) /\ m # k
<1> DEFINE n == Len(myth_pool)
           q == myth_pool
<1>1. /\ q \in Seq(0..(n_abt_thread - 1)) /\ n \in Nat
      /\ n_abt_thread \in 0..Cardinality(Workers) /\ n_abt_thread \in Nat
      /\ Cardinality(Workers) \in Nat
  BY ThreadsAssumption, FS_CardinalityType DEF RecInv, RecType, PoolOnce, OwnTid, NoneLost
<1>2. pc[u] = "absent" /\ ~Alive(u)
  BY DEF Create, Alive
<1>3. CASE q = <<>>
  <2>1. /\ myth_pool' = <<>> /\ n_abt_thread' = n_abt_thread + 1
        /\ myth' = [myth EXCEPT ![u] = n_abt_thread]
        /\ th_map' = [th_map EXCEPT ![n_abt_thread] = u]
    BY <1>3 DEF Create
  <2>2. n_abt_thread \in Tids /\ n_abt_thread + 1 \in 0..Cardinality(Workers)
    BY <1>2, <1>3, RoomForRecord
  <2>3. \A m : ~InPool(m) /\ ~InPool(m)'
    BY <1>3, <2>1 DEF InPool
  <2>4. \A v \in Workers : Alive(v) => myth[v] # n_abt_thread
    BY <1>1 DEF RecInv, RecType, PoolOnce, OwnTid, NoneLost, Tids
  <2>5. /\ \A m \in 0..(n_abt_thread' - 1) : m # n_abt_thread => m < n_abt_thread
        /\ n_abt_thread <= n_abt_thread' /\ n_abt_thread < n_abt_thread'
        /\ n_abt_thread' \in 0..Cardinality(Workers)
    BY <1>1, <2>1, <2>2
  <2>6. /\ myth_pool' \in Seq(0..(n_abt_thread' - 1))
        /\ \A i, j \in 1..Len(myth_pool') : myth_pool'[i] = myth_pool'[j] => i = j
    BY <2>1
  <2>7. \A m : InPool(m)' <=> InPool(m) /\ m # n_abt_thread
    BY <2>3
  <2>8. PICK k : k = n_abt_thread
    OBVIOUS
  <2>9. myth' = [myth EXCEPT ![u] = k] /\ th_map' = [th_map EXCEPT ![k] = u]
    BY <2>1, <2>8
  <2> QED
    BY <2>2, <2>4, <2>5, <2>6, <2>7, <2>8, <2>9
<1>4. CASE q # <<>>
  <2> DEFINE k == q[n]
  <2>1. /\ n \in 1..n /\ k \in 0..(n_abt_thread - 1) /\ k \in Tids
    BY <1>1, <1>4, EmptySeq DEF Tids
  <2>2. /\ myth_pool' = SubSeq(q, 1, n - 1) /\ n_abt_thread' = n_abt_thread
        /\ myth' = [myth EXCEPT ![u] = k] /\ th_map' = [th_map EXCEPT ![k] = u]
    BY <1>4 DEF Create
  <2>3. /\ myth_pool' \in Seq(0..(n_abt_thread - 1)) /\ Len(myth_pool') = n - 1
        /\ \A i \in 1..(n - 1) : myth_pool'[i] = q[i]
    <3>1. \A i \in 1..(n - 1) : q[i] \in 0..(n_abt_thread - 1)
      BY <1>1
    <3>2. PICK m \in Nat : m = n - 1
      BY <2>1
    <3>3. /\ 1 \in Int /\ m \in Int /\ m - 1 + 1 = m
          /\ (IF 1 <= m THEN m - 1 + 1 ELSE 0) = m
          /\ \A i \in 1..m : 1 + i - 1 = i
      OBVIOUS
    <3>4. /\ SubSeq(q, 1, m) \in Seq(0..(n_abt_thread - 1)) /\ Len(SubSeq(q, 1, m)) = m
          /\ \A i \in 1..m : SubSeq(q, 1, m)[i] = q[i]
      <4> HIDE DEF n, q
      <4>1. \A i \in 1..m : q[i] \in 0..(n_abt_thread - 1)
        BY <3>1, <3>2
      <4>2. /\ SubSeq(q, 1, m) \in Seq(0..(n_abt_thread - 1))
            /\ Len(SubSeq(q, 1, m)) = IF 1 <= m THEN m - 1 + 1 ELSE 0
            /\ \A i \in 1..(m - 1 + 1) : SubSeq(q, 1, m)[i] = q[1 + i - 1]
        BY <3>3, <4>1, SubSeqProperties
      <4> QED
        BY <3>3, <4>2
    <3> QED
      BY <2>2, <3>2, <3>4
  <2>4. InPool(k)
    BY <2>1 DEF InPool
  <2>5. \A v \in Workers : Alive(v) => myth[v] # k
    BY <2>4 DEF RecInv, RecType, PoolOnce, OwnTid, NoneLost
  <2>6. \A i, j \in 1..n : q[i] = q[j] => i = j
    BY DEF RecInv, RecType, PoolOnce, OwnTid, NoneLost
  <2>7. \A m : InPool(m)' <=> InPool(m) /\ m # k
    <3> SUFFICES ASSUME NEW m PROVE InPool(m)' <=> InPool(m) /\ m # k
      OBVIOUS
    <3>1. ASSUME NEW i \in 1..(n - 1), q[i] = m PROVE InPool(m) /\ m # k
      BY <1>1, <2>1, <2>6, <3>1 DEF InPool
    <3>2. ASSUME NEW i \in 1..n, q[i] = m, m # k PROVE i \in 1..(n - 1)
      BY <1>1, <3>2
    <3> QED
      BY <2>3, <3>1, <3>2 DEF InPool
  <2>8. \A i, j \in 1..Len(myth_pool') : myth_pool'[i] = myth_pool'[j] => i = j
    <3>1. 1..Len(myth_pool') = 1..(n - 1) /\ \A i \in 1..(n - 1) : i \in 1..n
      BY <1>1, <2>3
    <3> QED
      BY <2>3, <2>6, <3>1
  <2>9. /\ n_abt_thread' \in 0..Cardinality(Workers) /\ n_abt_thread <= n_abt_thread'
        /\ k < n_abt_thread' /\ \A m \in 0..(n_abt_thread' - 1) : m < n_abt_thread
        /\ myth_pool' \in Seq(0..(n_abt_thread' - 1))
    BY <1>1, <2>1, <2>2, <2>3
  <2> HIDE DEF k
  <2> QED
    BY <2>1, <2>2, <2>5, <2>7, <2>8, <2>9
<1> QED
  BY <1>3, <1>4

LEMMA RecCreate ==
    ASSUME RecInv, PcInv, JoinInv, NEW u \in Workers, Create(u)
    PROVE  RecInv'
<1>1. PICK k \in Tids :
          /\ myth' = [myth EXCEPT ![u] = k] /\ th_map' = [th_map EXCEPT ![k] = u]
          /\ \A v \in Workers : Alive(v) => myth[v] # k
          /\ n_abt_thread' \in 0..Cardinality(Workers)
          /\ n_abt_thread <= n_abt_thread' /\ k < n_abt_thread'
          /\ \A m \in 0..(n_abt_thread' - 1) : m # k => m < n_abt_thread
          /\ myth_pool' \in Seq(0..(n_abt_thread' - 1))
          /\ \A i, j \in 1..Len(myth_pool') : myth_pool'[i] = myth_pool'[j] => i = j
          /\ \A m : InPool(m)' <=> InPool(m) /\ m # k
  BY RecordOf
<1>2. /\ \A v \in Workers \ {u} : Alive(v)' <=> Alive(v)
      /\ Alive(u)' /\ ~Alive(u)
  BY CreateIs, MainPlace DEF Alive, PcInv, JoinInv, Moves
<1>3. /\ myth'[u] = k /\ \A v \in Workers \ {u} : myth'[v] = myth[v]
      /\ th_map'[k] = u /\ \A m \in Tids \ {k} : th_map'[m] = th_map[m]
      /\ myth' \in [Workers -> Tids] /\ th_map' \in [Tids -> Workers \cup {NoThread}]
  BY <1>1 DEF RecInv, RecType, PoolOnce, OwnTid, NoneLost
<1>4. ASSUME NEW v \in Workers, Alive(v)'
      PROVE  myth'[v] < n_abt_thread' /\ th_map'[myth'[v]] = v /\ ~InPool(myth[v])'
  <2>1. PICK m \in Tids : m = myth'[v]
    BY <1>3
  <2>2. ~InPool(m)'
    <3>1. CASE v = u
      BY <1>1, <1>3, <2>1, <3>1
    <3>2. CASE v # u
      BY <1>1, <1>2, <1>3, <1>4, <2>1, <3>2 DEF RecInv, RecType, PoolOnce, OwnTid, NoneLost
    <3> QED
      BY <3>1, <3>2
  <2>3. m < n_abt_thread' /\ th_map'[m] = v
    <3>1. CASE v = u
      BY <1>1, <1>3, <2>1, <3>1
    <3>2. CASE v # u
      <4>1. Alive(v) /\ m = myth[v] /\ m # k
        BY <1>1, <1>2, <1>3, <1>4, <2>1, <3>2
      <4>2. m < n_abt_thread /\ th_map[m] = v /\ m \in Nat /\ n_abt_thread \in Nat /\ n_abt_thread' \in Nat
        BY <1>1, <2>1, <4>1 DEF RecInv, RecType, PoolOnce, OwnTid, NoneLost, Tids
      <4> QED
        BY <1>1, <1>3, <2>1, <4>1, <4>2
    <3> QED
      BY <3>1, <3>2
  <2> QED
    BY <2>1, <2>2, <2>3 DEF InPool
<1>5. ASSUME NEW m \in 0..(n_abt_thread' - 1)
      PROVE  InPool(m)' \/ \E v \in Workers : Alive(v)' /\ myth'[v] = m
  <2>1. CASE m = k
    BY <1>2, <1>3, <2>1
  <2>2. CASE m # k
    <3>1. m \in Nat /\ n_abt_thread \in Nat /\ m < n_abt_thread
      <4>1. Cardinality(Workers) \in Nat
        BY ThreadsAssumption, FS_CardinalityType
      <4>2. n_abt_thread \in Nat /\ n_abt_thread' \in Nat
        BY <1>1, <4>1 DEF RecInv, RecType
      <4>3. m < n_abt_thread
        BY <1>1, <2>2
      <4> QED
        BY <4>2, <4>3
    <3>3. m \in 0..(n_abt_thread - 1)
      BY <3>1
    <3>2. InPool(m) \/ \E v \in Workers : Alive(v) /\ myth[v] = m
      BY <3>3 DEF RecInv, NoneLost
    <3> QED
      BY <1>1, <1>2, <1>3, <2>2, <3>2
  <2> QED
    BY <2>1, <2>2
<1>6. RecType' /\ PoolOnce'
  BY <1>1, <1>3 DEF RecType, PoolOnce
<1>7. OwnTid'
  BY <1>4 DEF OwnTid
<1>8. NoneLost'
  BY <1>5 DEF NoneLost
<1> QED
  BY <1>6, <1>7, <1>8 DEF RecInv

LEMMA RecStep ==
    ASSUME RecInv, PcInv, JoinInv, [Next]_vars
    PROVE  RecInv'
<1>1. ASSUME NEW t \in Threads, NEW u \in Workers, CallJoin(t, u)
      PROVE  RecInv'
  BY <1>1, CallJoinIs, RecMoves
<1>2. ASSUME NEW t \in Workers, Step(t), ~\E u \in Workers : CallJoin(t, u)
      PROVE  RecInv'
  <2>1. PICK from, l \in Places : Moves(t, from, l) /\ Between(t, from, l)
    BY <1>2, StepMoves
  <2>2. t \in Threads
    BY MainPlace
  <2> QED
    BY <2>1, <2>2, RecMoves, BetweenPlaces
<1>3. ASSUME UNCHANGED pc, UNCHANGED records, UNCHANGED joined
      PROVE  RecInv'
  BY <1>3, RecSame DEF records, Alive
<1>4. ASSUME NEW t \in Threads, Dispatch(t)
      PROVE  RecInv'
  BY <1>3, <1>4 DEF Dispatch, joins
<1>5. ASSUME NEW h \in Ids, Helper(h)
      PROVE  RecInv'
  BY <1>3, <1>5 DEF Helper, sched, joins
<1>6. CASE UNCHANGED vars
  BY <1>3, <1>6 DEF vars, sched, joins
<1>7. Workers \subseteq Threads /\ main \in Threads
  BY DEF Threads
<1> QED
  BY <1>1, <1>2, <1>4, <1>5, <1>6, <1>7, RecJoin, RecCreate DEF Next, Main
-----------------------------------------------------------------------------
(* The ids.                                                                 *)

LEMMA IdBounds ==
    ASSUME IdInv
    PROVE  /\ created \in 0..Cardinality(Workers) /\ Cardinality(Workers) \in Nat
           /\ \A t \in Workers : abt_id[t] \in Ids
<1>1. IsFiniteSet(Workers) /\ Cardinality(Workers) \in Nat
  BY ThreadsAssumption, FS_CardinalityType
<1>2. Created \in SUBSET Workers
  BY DEF Created
<1>3. /\ created = Cardinality(Created)
      /\ \A t \in Workers : abt_id[t] = 0 \/ abt_id[t] \in 1..created
  BY DEF IdInv
<1> HIDE DEF Created
<1>4. Cardinality(Created) <= Cardinality(Workers) /\ Cardinality(Created) \in Nat
  BY <1>1, <1>2, FS_Subset, FS_CardinalityType
<1> QED
  BY <1>1, <1>3, <1>4, HelpersAssumption DEF Ids

(* While somebody is absent there is a helper for the next id. *)
LEMMA NextId ==
    ASSUME IdInv, NEW u \in Workers, pc[u] = "absent"
    PROVE  created + 1 \in Ids
<1>1. IsFiniteSet(Workers) /\ Cardinality(Workers) \in Nat
  BY ThreadsAssumption, FS_CardinalityType
<1>2. Created \in SUBSET (Workers \ {u})
  BY DEF Created
<1>3. /\ IsFiniteSet(Workers \ {u})
      /\ Cardinality(Workers \ {u}) = Cardinality(Workers) - 1
  BY <1>1, FS_RemoveElement
<1>4. created = Cardinality(Created)
  BY DEF IdInv
<1> HIDE DEF Created
<1>5. Cardinality(Created) <= Cardinality(Workers) - 1 /\ Cardinality(Created) \in Nat
  BY <1>2, <1>3, FS_Subset, FS_CardinalityType
<1> QED
  BY <1>1, <1>4, <1>5, HelpersAssumption DEF Ids

(* A step after which the same threads are there with the same ids. *)
LEMMA IdSame ==
    ASSUME IdInv, UNCHANGED <<abt_id, created>>,
           \A t \in Workers : pc'[t] = "absent" <=> pc[t] = "absent"
    PROVE  IdInv'
<1>1. Created' = Created
  BY DEF Created
<1> HIDE DEF Created
<1> QED
  BY <1>1 DEF IdInv

LEMMA IdMoves ==
    ASSUME IdInv, PcInv, NEW t \in Threads, NEW from, NEW l, Moves(t, from, l),
           from # "absent", l # "absent", UNCHANGED <<abt_id, created>>
    PROVE  IdInv'
<1>1. \A u \in Workers : pc'[u] = "absent" <=> pc[u] = "absent"
  BY MainPlace DEF PcInv, Moves
<1> QED
  BY <1>1, IdSame

LEMMA IdCreate ==
    ASSUME IdInv, PcInv, NEW u \in Workers, Create(u)
    PROVE  /\ IdInv' /\ Created' = Created \cup {u} /\ u \notin Created
           /\ abt_id'[u] = created + 1 /\ created + 1 \in Ids
           /\ \A t \in Workers \ {u} : abt_id'[t] = abt_id[t]
<1>1. /\ pc[u] = "absent" /\ pc' = [pc EXCEPT ![u] = "run"] /\ created' = created + 1
      /\ abt_id' = [abt_id EXCEPT ![u] = created + 1]
  BY CreateIs DEF Moves
<1>2. Created' = Created \cup {u} /\ u \notin Created
  BY <1>1, MainPlace DEF Created, PcInv
<1>3. IsFiniteSet(Created) /\ Created \subseteq Workers
  BY ThreadsAssumption, FS_Subset DEF Created
<1>4. created = Cardinality(Created) /\ created \in Nat
  BY IdBounds DEF IdInv
<1>5. abt_id'[u] = created + 1 /\ \A t \in Workers \ {u} : abt_id'[t] = abt_id[t]
  BY <1>1 DEF IdInv
<1>6. created + 1 \in Ids
  BY <1>1, NextId
<1> HIDE DEF Created
<1>7. created' = Cardinality(Created')
  <2>1. Cardinality(Created \cup {u}) = Cardinality(Created) + 1
    BY <1>2, <1>3, FS_AddElement
  <2> QED
    BY <1>1, <1>2, <1>4, <2>1
<1>8. abt_id' \in [Workers -> Nat]
  BY <1>1, <1>4 DEF IdInv
<1>9. \A t \in Workers : IF t \in Created' THEN abt_id'[t] \in 1..created' ELSE abt_id'[t] = 0
  BY <1>1, <1>2, <1>4, <1>5 DEF IdInv
<1>10. \A t \in Created : abt_id[t] # created + 1
  BY <1>3, <1>4 DEF IdInv
<1>11. \A t, v \in Created' : abt_id'[t] = abt_id'[v] => t = v
  BY <1>2, <1>3, <1>5, <1>10 DEF IdInv
<1>12. IdInv'
  BY <1>7, <1>8, <1>9, <1>11 DEF IdInv
<1> QED
  BY <1>2, <1>5, <1>6, <1>12

LEMMA IdStep ==
    ASSUME IdInv, PcInv, JoinInv, RecInv, [Next]_vars
    PROVE  IdInv'
<1>1. ASSUME NEW t \in Threads, NEW u \in Workers, CallJoin(t, u)
      PROVE  IdInv'
  <2>1. Moves(t, "run", "join") /\ UNCHANGED <<abt_id, created>>
    BY <1>1, CallJoinIs
  <2> QED
    BY <2>1, IdMoves
<1>2. ASSUME NEW t \in Threads, my_join(t)
      PROVE  IdInv'
  <2>1. PICK l \in {"run", "over"} : Moves(t, "join", l) /\ UNCHANGED <<abt_id, created>>
    BY <1>2, my_joinIs
  <2> QED
    BY <2>1, IdMoves
<1>3. ASSUME NEW t \in Workers, Step(t), ~\E u \in Workers : CallJoin(t, u)
      PROVE  IdInv'
  <2>1. PICK from, l \in Places : Moves(t, from, l) /\ Between(t, from, l)
    BY <1>3, StepMoves
  <2>2. t \in Threads
    BY MainPlace
  <2> QED
    BY <2>1, <2>2, IdMoves, BetweenPlaces
<1>4. ASSUME UNCHANGED pc, UNCHANGED records
      PROVE  IdInv'
  BY <1>4, IdSame DEF records
<1>5. ASSUME NEW t \in Threads, Dispatch(t)
      PROVE  IdInv'
  BY <1>4, <1>5 DEF Dispatch
<1>6. ASSUME NEW h \in Ids, Helper(h)
      PROVE  IdInv'
  BY <1>4, <1>6 DEF Helper, sched
<1>7. CASE UNCHANGED vars
  BY <1>4, <1>7 DEF vars, sched
<1>8. Workers \subseteq Threads /\ main \in Threads
  BY DEF Threads
<1> QED
  BY <1>1, <1>2, <1>3, <1>5, <1>6, <1>7, <1>8, IdCreate DEF Next, Main
-----------------------------------------------------------------------------
(* The mutex.                                                               *)

LEMMA LockMoves ==
    ASSUME LockInv, PcInv, NEW t \in Threads, NEW from, NEW l, Moves(t, from, l),
           from # "inside", l # "inside", UNCHANGED <<mutex, inside, initialised>>
    PROVE  LockInv'
<1>1. \A u \in Workers : pc'[u] = "inside" <=> pc[u] = "inside"
  BY MainPlace DEF PcInv, Moves
<1> QED
  BY <1>1 DEF LockInv

(* The mutex is taken, or found taken; or it is given back. *)
LEMMA LockTaken ==
    ASSUME LockInv, PcInv, NEW t \in Workers, Lock(t) \/ LockUnknown(t) \/ Unlock(t),
           UNCHANGED initialised
    PROVE  LockInv'
<1>1. t \in Threads /\ t # NoThread /\ t # Unknown
  BY ThreadsAssumption, NamesAssumption DEF Threads
<1>2. CASE Lock(t) /\ mutex # NoThread
  BY <1>1, <1>2, LockMoves DEF Lock, leave, locks, Moves
<1>3. CASE Lock(t) /\ mutex = NoThread
  <2>1. mutex' = t /\ inside' = inside \cup {t} /\ pc' = [pc EXCEPT ![t] = "inside"]
    BY <1>3 DEF Lock, leave
  <2>2. \A u \in Workers : pc'[u] = "inside" <=> u \in inside'
    BY <2>1, MainPlace DEF PcInv, LockInv
  <2> QED
    BY <1>1, <1>3, <2>1, <2>2 DEF LockInv
<1>4. CASE LockUnknown(t)
  <2>1. /\ mutex = Unknown /\ mutex' = NoThread /\ inside' = inside \cup {t}
        /\ pc' = [pc EXCEPT ![t] = "inside"]
    BY <1>4 DEF LockUnknown, leave
  <2>2. \A u \in Workers : pc'[u] = "inside" <=> u \in inside'
    BY <2>1, MainPlace DEF PcInv, LockInv
  <2> QED
    BY <2>1, <2>2 DEF LockInv
<1>5. CASE Unlock(t)
  <2>1. /\ pc[t] = "inside" /\ mutex' = NoThread /\ inside' = inside \ {t}
        /\ pc' = [pc EXCEPT ![t] = "over"]
    BY <1>5 DEF Unlock, leave
  <2>2. \A u \in Workers : pc'[u] = "inside" <=> u \in inside'
    BY <2>1, MainPlace DEF PcInv, LockInv
  <2>3. NoThread # Unknown
    BY NamesAssumption
  <2>4. initialised => inside' = {}
    BY <2>1 DEF LockInv
  <2> QED
    BY <2>1, <2>2, <2>3, <2>4 DEF LockInv
<1> QED
  BY <1>2, <1>3, <1>4, <1>5

LEMMA LockStep ==
    ASSUME LockInv, PcInv, JoinInv, RecInv, [Next]_vars
    PROVE  LockInv'
<1>1. UNCHANGED initialised
  BY DEF Next, vars, program
<1>2. ASSUME NEW u \in Workers, Create(u)
      PROVE  LockInv'
  <2>1. Moves(u, "absent", "run") /\ UNCHANGED <<mutex, inside>> /\ u \in Threads
    BY <1>2, CreateIs, MainPlace
  <2> QED
    BY <1>1, <2>1, LockMoves
<1>3. ASSUME NEW t \in Threads, NEW u \in Workers, CallJoin(t, u)
      PROVE  LockInv'
  <2>1. Moves(t, "run", "join") /\ UNCHANGED <<mutex, inside>>
    BY <1>3, CallJoinIs
  <2> QED
    BY <1>1, <2>1, LockMoves
<1>4. ASSUME NEW t \in Threads, my_join(t)
      PROVE  LockInv'
  <2>1. PICK l \in {"run", "over"} : Moves(t, "join", l) /\ UNCHANGED <<mutex, inside>>
    BY <1>4, my_joinIs
  <2> QED
    BY <1>1, <2>1, LockMoves
<1>5. ASSUME NEW t \in Workers, Step(t), ~\E u \in Workers : CallJoin(t, u)
      PROVE  LockInv'
  <2>1. PICK from, l \in Places : Moves(t, from, l) /\ Between(t, from, l)
    BY <1>5, StepMoves
  <2>2. CASE Lock(t) \/ LockUnknown(t) \/ Unlock(t)
    BY <1>1, <2>2, LockTaken
  <2>3. CASE ~(Lock(t) \/ LockUnknown(t) \/ Unlock(t))
    <3>1. from # "inside" /\ l # "inside"
      BY <2>1, <2>3 DEF Between
    <3>2. UNCHANGED <<mutex, inside>> /\ t \in Threads
      BY <2>1, <2>3, MainPlace DEF Between, Ask, Signal, Poll, CallsMade, Direct, locks
    <3> QED
      BY <1>1, <2>1, <3>1, <3>2, LockMoves
  <2> QED
    BY <2>2, <2>3
<1>6. ASSUME UNCHANGED pc, UNCHANGED locks
      PROVE  LockInv'
  BY <1>1, <1>6 DEF LockInv, locks
<1>7. ASSUME NEW t \in Threads, Dispatch(t)
      PROVE  LockInv'
  BY <1>6, <1>7 DEF Dispatch
<1>8. ASSUME NEW h \in Ids, Helper(h)
      PROVE  LockInv'
  BY <1>6, <1>8 DEF Helper, sched
<1>9. CASE UNCHANGED vars
  BY <1>6, <1>9 DEF vars, sched
<1>10. Workers \subseteq Threads /\ main \in Threads
  BY DEF Threads
<1> QED
  BY <1>2, <1>3, <1>4, <1>5, <1>7, <1>8, <1>9, <1>10 DEF Next, Main
-----------------------------------------------------------------------------
(* The calls.                                                               *)

LEMMA RequestOf ==
    ASSUME CallInv, NEW t \in Workers
    PROVE  /\ made[t] \in 0..MaxCalls /\ MaxCalls \in Nat /\ NoRequest \notin Requests
           /\ \A i \in 1..MaxCalls : <<t, i>> \in Requests
           /\ made[t] > 0 => now(t) \in Requests
BY CoresAssumption, ThreadsAssumption DEF CallInv, Requests, NoRequest, now, Threads

(* A step of one thread or of its helper disturbs no other thread's call. *)
LEMMA OneCall ==
    ASSUME CallInv, IdInv, NEW t \in Workers,
           pc[t] # "absent", pc'[t] # "absent", \A u \in Workers \ {t} : pc'[u] = pc[u],
           UNCHANGED <<abt_id, job>>,
           NEW s \in Slots, helpers' = [helpers EXCEPT ![abt_id[t]] = s],
           NEW m \in 0..MaxCalls, made' = [made EXCEPT ![t] = m],
           NEW g \in Requests \cup {NoRequest}, got' = [got EXCEPT ![t] = g],
           times' \in [Requests -> Nat],
           \A r \in Requests : r[1] # t => times'[r] = times[r],
           \A r \in Requests : r[1] = t /\ r[2] > m => times'[r] = 0,
           m > 0 => job[t] = "call",
           pc'[t] \in {"join", "inside"} => job[t] # "call",
           Handoff(t)'
    PROVE  CallInv'
<1>1. /\ helpers' \in [Ids -> Slots] /\ made' \in [Workers -> 0..MaxCalls]
      /\ got' \in [Workers -> Requests \cup {NoRequest}]
  BY DEF CallInv
<1>2. \A u \in Workers : made'[u] = IF u = t THEN m ELSE made[u]
  BY DEF CallInv
<1>3. \A u \in Workers \ {t} : got'[u] = got[u]
  BY DEF CallInv
<1>4. Created' = Created /\ t \in Created
  BY DEF Created
<1>5. \A h \in Ids : h # abt_id[t] => helpers'[h] = helpers[h]
  BY DEF CallInv
<1>6. \A u \in Created \ {t} : u \in Workers /\ abt_id[u] \in Ids /\ abt_id[u] # abt_id[t]
  BY <1>4, IdBounds DEF IdInv, Created
<1>7. ASSUME NEW u \in Workers
      PROVE  /\ pc'[u] = "absent" => made'[u] = 0
             /\ made'[u] > 0 => job'[u] = "call"
             /\ pc'[u] \in {"join", "inside"} => job'[u] # "call"
             /\ pc'[u] # "absent" => Handoff(u)'
  <2>1. CASE u = t
    BY <1>2, <2>1
  <2>2. CASE u # t
    <3>1. made'[u] = made[u] /\ pc'[u] = pc[u] /\ got'[u] = got[u] /\ job'[u] = job[u]
      BY <1>2, <1>3, <2>2
    <3>2. ASSUME pc[u] # "absent"
          PROVE  Handoff(u)'
      <4>1. helpers'[abt_id'[u]] = helpers[abt_id[u]]
        BY <1>5, <1>6, <2>2, <3>2 DEF Created
      <4>2. Handoff(u)
        BY <3>2 DEF CallInv
      <4>3. made[u] > 0 => times'[<<u, made[u]>>] = times[<<u, made[u]>>]
        BY <2>2, RequestOf DEF now
      <4> QED
        BY <3>1, <4>1, <4>2, <4>3 DEF Handoff, helper, Idle, now
    <3> QED
      BY <3>1, <3>2 DEF CallInv
  <2> QED
    BY <2>1, <2>2
<1>8. ASSUME NEW r \in Requests, r[2] > made'[r[1]]
      PROVE  times'[r] = 0
  <2>1. r[1] \in Workers
    BY DEF Requests
  <2>2. r[1] # t => made'[r[1]] = made[r[1]]
    BY <1>2, <2>1
  <2>3. r[1] = t => made'[r[1]] = m
    BY <1>2, <2>1
  <2> QED
    BY <1>8, <2>2, <2>3 DEF CallInv
<1>9. ASSUME NEW h \in Ids, \A u \in Created' : abt_id'[u] # h
      PROVE  Idle(h)'
  <2>1. h # abt_id[t] /\ Idle(h)
    BY <1>4, <1>9 DEF CallInv
  <2> QED
    BY <1>5, <2>1 DEF Idle
<1> QED
  BY <1>1, <1>7, <1>8, <1>9 DEF CallInv

(* A call stands where it stood when its thread, its helper and the kernel's *)
(* count are as they were, or the thread went on without making a call.     *)
LEMMA HandoffSame ==
    ASSUME NEW u, Handoff(u),
           helpers'[abt_id'[u]] = helpers[abt_id[u]], made'[u] = made[u], got'[u] = got[u],
           UNCHANGED times,
           pc'[u] = pc[u] \/ {pc[u], pc'[u]} \cap {"signal", "poll"} = {}
    PROVE  Handoff(u)'
<1>1. helper(u)' = helper(u) /\ now(u)' = now(u) /\ (Idle(abt_id[u])' <=> Idle(abt_id[u]))
  BY DEF helper, now, Idle
<1>2. CASE pc'[u] = pc[u]
  BY <1>1, <1>2 DEF Handoff
<1>3. CASE {pc[u], pc'[u]} \cap {"signal", "poll"} = {}
  <2>1. pc[u] \notin {"signal", "poll"} /\ pc'[u] \notin {"signal", "poll"}
    BY <1>3
  <2> QED
    BY <1>1, <2>1 DEF Handoff
<1> QED
  BY <1>2, <1>3

(* A thread that goes on to where it makes no call. *)
LEMMA CallMoves ==
    ASSUME CallInv, PcInv, IdInv, NEW t \in Workers, NEW from, NEW l, Moves(t, from, l),
           {from, l} \cap {"absent", "signal", "poll"} = {},
           l \in {"join", "inside"} => job[t] # "call",
           UNCHANGED <<helpers, made, got, times, abt_id, job>>
    PROVE  CallInv'
<1>1. /\ pc[t] = from /\ pc'[t] = l /\ \A u \in Workers \ {t} : pc'[u] = pc[u]
  BY MainPlace DEF Moves, PcInv
<1>2. \A u \in Workers : pc'[u] = "absent" <=> pc[u] = "absent"
  BY <1>1
<1>3. Created' = Created
  BY <1>2 DEF Created
<1>4. ASSUME NEW u \in Workers, pc'[u] # "absent"
      PROVE  Handoff(u)'
  <2>1. Handoff(u)
    BY <1>2, <1>4 DEF CallInv
  <2>2. pc'[u] = pc[u] \/ {pc[u], pc'[u]} \cap {"signal", "poll"} = {}
    BY <1>1
  <2> QED
    BY <2>1, <2>2, HandoffSame
<1>5. \A u \in Workers : pc'[u] \in {"join", "inside"} => job'[u] # "call"
  BY <1>1 DEF CallInv
<1> HIDE DEF Created, Handoff
<1> QED
  BY <1>2, <1>3, <1>4, <1>5 DEF CallInv, Idle

(* Nobody that makes calls takes a step of its own. *)
LEMMA CallSame ==
    ASSUME CallInv, \A u \in Workers : pc'[u] = pc[u],
           UNCHANGED <<helpers, made, got, times, abt_id, job>>
    PROVE  CallInv'
<1>1. Created' = Created
  BY DEF Created
<1>2. ASSUME NEW u \in Workers, pc'[u] # "absent"
      PROVE  Handoff(u)'
  <2>1. Handoff(u)
    BY <1>2 DEF CallInv
  <2> QED
    BY <2>1, HandoffSame
<1> HIDE DEF Created, Handoff
<1> QED
  BY <1>1, <1>2 DEF CallInv, Idle

(* The helper of a new thread is idle. *)
LEMMA CallCreate ==
    ASSUME CallInv, PcInv, IdInv, NEW u \in Workers, Create(u), UNCHANGED job
    PROVE  CallInv'
<1>1. /\ pc[u] = "absent" /\ pc'[u] = "run" /\ \A t \in Workers \ {u} : pc'[t] = pc[t]
      /\ UNCHANGED <<helpers, made, got, times>>
  BY CreateIs, MainPlace DEF Moves, PcInv
<1>2. /\ Created' = Created \cup {u} /\ u \notin Created /\ Created \subseteq Workers
      /\ abt_id'[u] = created + 1 /\ created + 1 \in Ids
      /\ \A t \in Workers \ {u} : abt_id'[t] = abt_id[t]
  BY IdCreate DEF Created
<1>3. made[u] = 0
  BY <1>1 DEF CallInv
<1>4. Idle(created + 1)
  <2>1. \A t \in Created : abt_id[t] # created + 1
    BY <1>2, IdBounds DEF IdInv
  <2> QED
    BY <1>2, <2>1 DEF CallInv
<1>5. Handoff(u)'
  BY <1>1, <1>2, <1>3, <1>4 DEF Handoff, Idle
<1>6. ASSUME NEW t \in Workers \ {u}, pc'[t] # "absent"
      PROVE  Handoff(t)'
  <2>1. Handoff(t)
    BY <1>1, <1>6 DEF CallInv
  <2>2. helpers'[abt_id'[t]] = helpers[abt_id[t]] /\ pc'[t] = pc[t]
    BY <1>1, <1>2
  <2> QED
    BY <1>1, <2>1, <2>2, HandoffSame
<1>7. \A t \in Workers : pc'[t] # "absent" => Handoff(t)'
  BY <1>5, <1>6
<1>8. \A t \in Workers : /\ pc'[t] = "absent" => pc[t] = "absent"
                         /\ pc'[t] \in {"join", "inside"} => pc[t] \in {"join", "inside"}
  BY <1>1
<1>9. ASSUME NEW h \in Ids, \A t \in Created' : abt_id'[t] # h
      PROVE  Idle(h)'
  <2>1. \A t \in Created : abt_id[t] # h
    BY <1>2, <1>9
  <2> QED
    BY <1>1, <2>1 DEF CallInv, Idle
<1> HIDE DEF Created, Handoff
<1> QED
  BY <1>1, <1>7, <1>8, <1>9 DEF CallInv

(* What a thread that is there knows of its call. *)
LEMMA CallOf ==
    ASSUME CallInv, IdInv, NEW t \in Workers, pc[t] # "absent"
    PROVE  /\ Handoff(t) /\ abt_id[t] \in Ids /\ helper(t) \in Slots
           /\ helper(t).done \in BOOLEAN /\ helper(t).ready \in BOOLEAN /\ helper(t).at \in 0..2
           /\ helper(t).arg \in Requests \cup {NoRequest} /\ helper(t).ret \in Requests \cup {NoRequest}
           /\ got[t] \in Requests \cup {NoRequest} /\ times \in [Requests -> Nat]
           /\ got = [got EXCEPT ![t] = got[t]] /\ made = [made EXCEPT ![t] = made[t]]
           /\ helpers = [helpers EXCEPT ![abt_id[t]] = helper(t)]
<1>1. Handoff(t) /\ abt_id[t] \in Ids
  BY IdBounds DEF CallInv
<1>2. helper(t) \in Slots
  BY <1>1 DEF CallInv, helper
<1> QED
  BY <1>1, <1>2 DEF CallInv, helper, Slots

LEMMA CallAsk ==
    ASSUME CallInv, PcInv, IdInv, NEW t \in Workers, Ask(t), UNCHANGED job
    PROVE  CallInv'
<1> DEFINE m == made[t] + 1
           s == [helper(t) EXCEPT !.done = FALSE, !.arg = <<t, m>>]
<1>1. /\ pc[t] = "run" /\ pc'[t] = "signal" /\ \A u \in Workers \ {t} : pc'[u] = pc[u]
      /\ UNCHANGED <<abt_id, times, got>> /\ job[t] = "call" /\ made[t] < MaxCalls
      /\ helpers' = [helpers EXCEPT ![abt_id[t]] = s]
      /\ made' = [made EXCEPT ![t] = m]
  BY MainPlace DEF Ask, goto, PcInv, put, writes, RequestOrder, records, CallInv
<1>2. m \in 1..MaxCalls /\ m \in 0..MaxCalls /\ <<t, m>> \in Requests
  BY <1>1, RequestOf
<1>3. /\ s \in Slots /\ s.done = FALSE /\ s.arg = <<t, m>>
      /\ s.at = helper(t).at /\ s.ready = helper(t).ready
  BY <1>1, <1>2, CallOf DEF Slots
<1>4. times[<<t, m>>] = 0
  BY <1>2, RequestOf DEF CallInv
<1>5. helper(t)' = s /\ made'[t] = m
  BY <1>1, CallOf DEF helper, CallInv
<1>6. Idle(abt_id[t])
  BY <1>1, CallOf DEF Handoff
<1> HIDE DEF s, m
<1>7. helpers'[abt_id[t]] = s
  BY <1>1, <1>5 DEF helper
<1>8. Idle(abt_id[t])'
  BY <1>1, <1>3, <1>6, <1>7 DEF Idle, helper
<1>9. Handoff(t)'
  BY <1>1, <1>2, <1>3, <1>4, <1>5, <1>8 DEF Handoff, now
<1>10. /\ times' \in [Requests -> Nat] /\ \A r \in Requests : times'[r] = times[r]
       /\ \A r \in Requests : r[1] = t /\ r[2] > m => times'[r] = 0
  <2>1. \A r \in Requests : r[2] \in Nat
    BY CoresAssumption DEF Requests
  <2>2. \A r \in Requests : r[1] = t /\ r[2] > m => r[2] > made[r[1]]
    BY <2>1, <1>2, RequestOf DEF m
  <2> QED
    BY <1>1, <2>2 DEF CallInv
<1>11. got' = [got EXCEPT ![t] = got[t]] /\ got[t] \in Requests \cup {NoRequest}
  BY <1>1, CallOf
<1> HIDE DEF Handoff
<1> QED
  BY <1>1, <1>2, <1>3, <1>9, <1>10, <1>11, OneCall

LEMMA CallSignal ==
    ASSUME CallInv, PcInv, IdInv, NEW t \in Workers, Signal(t), UNCHANGED job
    PROVE  CallInv'
<1> DEFINE m == made[t]
           s == [helper(t) EXCEPT !.ready = TRUE]
<1>1. /\ pc[t] = "signal" /\ pc'[t] = "poll" /\ \A u \in Workers \ {t} : pc'[u] = pc[u]
      /\ UNCHANGED <<abt_id, times, got, made>>
      /\ helpers' = [helpers EXCEPT ![abt_id[t]] = s]
  BY MainPlace DEF Signal, goto, PcInv, put, writes, RequestOrder, records
<1>2. /\ m > 0 /\ Idle(abt_id[t]) /\ ~helper(t).done /\ helper(t).arg = now(t)
      /\ times[now(t)] = 0
  BY <1>1, CallOf DEF Handoff
<1>3. /\ s \in Slots /\ s.done = helper(t).done /\ s.arg = helper(t).arg
      /\ s.at = helper(t).at /\ s.ready = TRUE
  BY <1>1, CallOf DEF Slots
<1>4. helper(t)' = s
  BY <1>1, CallOf DEF helper, CallInv
<1>5. s.at = 0
  BY <1>2, <1>3 DEF Idle, helper
<1> HIDE DEF s
<1>6. Handoff(t)'
  BY <1>1, <1>2, <1>3, <1>4, <1>5 DEF Handoff, now
<1>7. /\ times' \in [Requests -> Nat] /\ \A r \in Requests : times'[r] = times[r]
      /\ \A r \in Requests : r[1] = t /\ r[2] > m => times'[r] = 0
      /\ m > 0 => job[t] = "call"
  BY <1>1 DEF CallInv
<1>8. /\ got' = [got EXCEPT ![t] = got[t]] /\ got[t] \in Requests \cup {NoRequest}
      /\ made' = [made EXCEPT ![t] = m] /\ m \in 0..MaxCalls
  BY <1>1, CallOf, RequestOf
<1> HIDE DEF Handoff, m
<1> QED
  BY <1>1, <1>3, <1>6, <1>7, <1>8, OneCall

LEMMA CallPoll ==
    ASSUME CallInv, PcInv, IdInv, NEW t \in Workers, Poll(t), UNCHANGED job
    PROVE  CallInv'
<1>1. CASE ~helper(t).done
  <2>1. pc[t] = "poll" /\ pc' = [pc EXCEPT ![t] = "poll"]
    BY <1>1 DEF Poll, leave
  <2> QED
    BY <1>1, <2>1, CallSame DEF Poll, records, PcInv
<1>2. CASE helper(t).done
  <2> DEFINE g == helper(t).ret
             m == made[t]
  <2>1. /\ pc[t] = "poll" /\ pc'[t] = "run" /\ \A u \in Workers \ {t} : pc'[u] = pc[u]
        /\ UNCHANGED <<abt_id, times, helpers, made>> /\ got' = [got EXCEPT ![t] = g]
    BY <1>2, MainPlace DEF Poll, goto, PcInv, records
  <2>2. /\ g = now(t) /\ times[now(t)] = 1 /\ helper(t).at = 0 /\ ~helper(t).ready /\ m > 0
    BY <1>2, <2>1, CallOf DEF Handoff
  <2>3. got'[t] = g
    BY <2>1 DEF CallInv
  <2>4. Handoff(t)'
    BY <2>1, <2>2, <2>3 DEF Handoff, now, Idle, helper
  <2>5. /\ times' \in [Requests -> Nat] /\ \A r \in Requests : times'[r] = times[r]
        /\ \A r \in Requests : r[1] = t /\ r[2] > m => times'[r] = 0
        /\ m > 0 => job[t] = "call"
    BY <2>1 DEF CallInv
  <2>6. /\ helpers' = [helpers EXCEPT ![abt_id[t]] = helper(t)] /\ helper(t) \in Slots
        /\ made' = [made EXCEPT ![t] = m] /\ m \in 0..MaxCalls
        /\ g \in Requests \cup {NoRequest}
    BY <2>1, CallOf, RequestOf
  <2> HIDE DEF Handoff, m, g
  <2> QED
    BY <2>1, <2>4, <2>5, <2>6, OneCall
<1> QED
  BY <1>1, <1>2

(* A helper works for the one thread that waits for it; it makes the call   *)
(* in the second of its steps.                                              *)
Carries(t) ==
    /\ helper(t).at = 1
    /\ helpers' = [helpers EXCEPT ![abt_id[t]] = [[helper(t) EXCEPT !.ret = now(t)] EXCEPT !.at = 2]]
    /\ times' = [times EXCEPT ![now(t)] = 1]
TakesOrEnds(t) ==
    /\ UNCHANGED times
    /\ \/ /\ helper(t).at = 0 /\ helper(t).ready
          /\ helpers' = [helpers EXCEPT ![abt_id[t]] = [[helper(t) EXCEPT !.ready = FALSE] EXCEPT !.at = 1]]
       \/ /\ helper(t).at = 2
          /\ helpers' = [helpers EXCEPT ![abt_id[t]] = [[helper(t) EXCEPT !.done = TRUE] EXCEPT !.at = 0]]

LEMMA HelperIs ==
    ASSUME CallInv, IdInv, NEW h \in Ids, Helper(h)
    PROVE  /\ UNCHANGED <<pc, running, abt_id, made, got>>
           /\ \E t \in Workers : pc[t] = "poll" /\ (Carries(t) \/ TakesOrEnds(t))
<1>1. UNCHANGED <<pc, running, abt_id, made, got>> /\ ~Idle(h)
  BY DEF Helper, sched, records, Idle
<1>2. PICK t \in Workers : pc[t] # "absent" /\ abt_id[t] = h
  BY <1>1 DEF CallInv, Created
<1>3. pc[t] = "poll"
  BY <1>1, <1>2, CallOf DEF Handoff
<1>4. helpers[h] = helper(t)
  BY <1>2 DEF helper
<1>5. CASE helper(t).at = 0
  <2>1. TakesOrEnds(t)
    BY <1>2, <1>4, <1>5 DEF Helper, serve, ServeOrder, TakesOrEnds
  <2> QED
    BY <1>1, <1>3, <2>1
<1>6. CASE helper(t).at = 1
  <2>1. ~helper(t).done /\ helper(t).arg = now(t) /\ made[t] > 0 /\ times[now(t)] = 0
    BY <1>3, <1>6, CallOf DEF Handoff
  <2>2. now(t) # NoRequest
    BY <2>1, RequestOf
  <2>3. /\ helpers' = [helpers EXCEPT ![h] = [[helper(t) EXCEPT !.ret = now(t)] EXCEPT !.at = 2]]
        /\ times' = [times EXCEPT ![now(t)] = times[now(t)] + 1]
    BY <1>4, <1>6, <2>1, <2>2 DEF Helper, serve, ServeOrder
  <2>4. Carries(t)
    BY <1>2, <1>6, <2>1, <2>3 DEF Carries
  <2> QED
    BY <1>1, <1>3, <2>4
<1>7. CASE helper(t).at = 2
  <2>1. TakesOrEnds(t)
    BY <1>2, <1>4, <1>7 DEF Helper, serve, ServeOrder, TakesOrEnds
  <2> QED
    BY <1>1, <1>3, <2>1
<1> QED
  BY <1>2, <1>5, <1>6, <1>7, CallOf

LEMMA SlotsAre ==
    ASSUME NEW x \in Slots
    PROVE  LET taken == [[x EXCEPT !.ready = FALSE] EXCEPT !.at = 1]
               ended == [[x EXCEPT !.done = TRUE] EXCEPT !.at = 0]
           IN  /\ taken \in Slots /\ taken.arg = x.arg /\ taken.ready = FALSE
               /\ taken.done = x.done /\ taken.ret = x.ret /\ taken.at = 1
               /\ ended \in Slots /\ ended.arg = x.arg /\ ended.ready = x.ready
               /\ ended.done = TRUE /\ ended.ret = x.ret /\ ended.at = 0
<1> DEFINE taken == [[x EXCEPT !.ready = FALSE] EXCEPT !.at = 1]
           ended == [[x EXCEPT !.done = TRUE] EXCEPT !.at = 0]
<1>1. \A y \in Slots, i \in 0..2 : [y EXCEPT !.at = i] \in Slots
  BY DEF Slots
<1>2. taken \in Slots
  <2>1. PICK y \in Slots : y = [x EXCEPT !.ready = FALSE]
    BY DEF Slots
  <2>2. 1 \in 0..2 /\ taken = [y EXCEPT !.at = 1]
    BY <2>1
  <2> HIDE DEF taken
  <2> QED
    BY <1>1, <2>2
<1>3. ended \in Slots
  <2>1. PICK y \in Slots : y = [x EXCEPT !.done = TRUE]
    BY DEF Slots
  <2>2. 0 \in 0..2 /\ ended = [y EXCEPT !.at = 0]
    BY <2>1
  <2> HIDE DEF ended
  <2> QED
    BY <1>1, <2>2
<1>4. /\ taken.arg = x.arg /\ taken.ready = FALSE /\ taken.done = x.done
      /\ taken.ret = x.ret /\ taken.at = 1
  BY DEF Slots
<1>5. /\ ended.arg = x.arg /\ ended.ready = x.ready /\ ended.done = TRUE
      /\ ended.ret = x.ret /\ ended.at = 0
  BY DEF Slots
<1> QED
  BY <1>2, <1>3, <1>4, <1>5

LEMMA CallHelper ==
    ASSUME CallInv, PcInv, IdInv, NEW h \in Ids, Helper(h), UNCHANGED job
    PROVE  CallInv'
<1>1. PICK t \in Workers : pc[t] = "poll" /\ (Carries(t) \/ TakesOrEnds(t))
  BY HelperIs
<1>2. UNCHANGED <<pc, abt_id, made, got>>
  BY HelperIs
<1> DEFINE m == made[t]
<1>3. /\ m > 0 /\ m \in 0..MaxCalls /\ now(t) \in Requests /\ now(t) # NoRequest
      /\ now(t)[1] = t /\ now(t)[2] = m
  <2>1. m > 0
    BY <1>1, CallOf DEF Handoff
  <2> QED
    BY <2>1, RequestOf DEF now
<1>4. /\ got' = [got EXCEPT ![t] = got[t]] /\ got[t] \in Requests \cup {NoRequest}
      /\ made' = [made EXCEPT ![t] = m] /\ (m > 0 => job[t] = "call")
      /\ pc[t] # "absent" /\ pc'[t] # "absent" /\ pc'[t] \notin {"join", "inside"}
      /\ \A u \in Workers \ {t} : pc'[u] = pc[u]
  BY <1>1, <1>2, CallOf, RequestOf DEF CallInv
<1>5. ASSUME NEW s \in Slots, helpers' = [helpers EXCEPT ![abt_id[t]] = s],
             times' \in [Requests -> Nat],
             \A r \in Requests : r[1] # t => times'[r] = times[r],
             \A r \in Requests : r[1] = t /\ r[2] > m => times'[r] = 0,
             s.arg = now(t), s.ready => s.at = 0 /\ ~s.done, s.done => s.at = 0,
             IF s.at = 2 \/ s.done THEN s.ret = now(t) /\ times'[now(t)] = 1
                                   ELSE (s.at = 0 => s.ready) /\ times'[now(t)] = 0
      PROVE  CallInv'
  <2>1. helper(t)' = s
    BY <1>1, <1>2, <1>5, CallOf DEF helper, CallInv
  <2>2. now(t)' = now(t) /\ made'[t] > 0
    BY <1>2, <1>3 DEF now
  <2>3. pc'[t] = "poll"
    BY <1>1, <1>2
  <2>4. times'[now(t)'] = times'[now(t)]
    BY <2>2
  <2>5. Handoff(t)'
    BY <1>5, <2>1, <2>2, <2>3, <2>4 DEF Handoff
  <2>6. /\ helpers' = [helpers EXCEPT ![abt_id[t]] = s]
        /\ times' \in [Requests -> Nat]
        /\ \A r \in Requests : r[1] # t => times'[r] = times[r]
        /\ \A r \in Requests : r[1] = t /\ r[2] > m => times'[r] = 0
    BY <1>5
  <2>7. m \in 0..MaxCalls
    BY <1>3
  <2> HIDE DEF Handoff, m
  <2> QED
    BY <1>2, <1>4, <2>5, <2>6, <2>7, OneCall
<1>6. /\ helper(t) \in Slots /\ times \in [Requests -> Nat] /\ helper(t).arg = now(t)
      /\ \A r \in Requests : r[1] = t /\ r[2] > m => times[r] = 0
      /\ (helper(t).ready => helper(t).at = 0 /\ ~helper(t).done)
      /\ (helper(t).done => helper(t).at = 0)
      /\ IF helper(t).at = 2 \/ helper(t).done
         THEN helper(t).ret = now(t) /\ times[now(t)] = 1
         ELSE (helper(t).at = 0 => helper(t).ready) /\ times[now(t)] = 0
  BY <1>1, CallOf DEF Handoff, CallInv
<1>7. CASE Carries(t)
  <2> DEFINE s == [[helper(t) EXCEPT !.ret = now(t)] EXCEPT !.at = 2]
  <2>1. /\ s \in Slots /\ s.arg = helper(t).arg /\ s.ready = helper(t).ready
        /\ s.done = helper(t).done /\ s.ret = now(t) /\ s.at = 2
    <3>1. PICK x \in Slots, r \in Requests : x = helper(t) /\ r = now(t)
      BY <1>3, <1>6
    <3>2. s = [[x EXCEPT !.ret = r] EXCEPT !.at = 2]
      BY <3>1
    <3> HIDE DEF s
    <3>3. \A y \in Slots, i \in 0..2 : [y EXCEPT !.at = i] \in Slots
      BY DEF Slots
    <3>4. PICK y \in Slots : y = [x EXCEPT !.ret = r]
      BY DEF Slots
    <3>5. 2 \in 0..2 /\ s = [y EXCEPT !.at = 2]
      BY <3>2, <3>4
    <3>6. s \in Slots
      BY <3>3, <3>5
    <3>7. /\ s.arg = x.arg /\ s.ready = x.ready /\ s.done = x.done /\ s.ret = r /\ s.at = 2
      BY <3>2 DEF Slots
    <3> QED
      BY <3>1, <3>6, <3>7
  <2>2. helper(t).at = 1 /\ helpers' = [helpers EXCEPT ![abt_id[t]] = s]
    BY <1>7 DEF Carries
  <2>3. /\ times' \in [Requests -> Nat] /\ times'[now(t)] = 1
        /\ \A r \in Requests : r # now(t) => times'[r] = times[r]
    BY <1>3, <1>6, <1>7 DEF Carries
  <2>4. /\ \A r \in Requests : r[1] # t => times'[r] = times[r]
        /\ \A r \in Requests : r[1] = t /\ r[2] > m => times'[r] = 0
    BY <1>3, <1>6, <2>3
  <2> HIDE DEF s
  <2> QED
    BY <1>5, <1>6, <2>1, <2>2, <2>3, <2>4
<1>8. CASE TakesOrEnds(t) /\ helper(t).at = 0
  <2> DEFINE s == [[helper(t) EXCEPT !.ready = FALSE] EXCEPT !.at = 1]
  <2>1. /\ s \in Slots /\ s.arg = helper(t).arg /\ s.ready = FALSE
        /\ s.done = helper(t).done /\ s.ret = helper(t).ret /\ s.at = 1
    BY <1>3, <1>6, SlotsAre
  <2>2. /\ helper(t).at = 0 /\ helper(t).ready /\ UNCHANGED times
        /\ helpers' = [helpers EXCEPT ![abt_id[t]] = s]
    BY <1>8 DEF TakesOrEnds
  <2>3. ~helper(t).done /\ times[now(t)] = 0
    BY <1>6, <2>2
  <2>4. ~s.ready /\ ~s.done /\ s.at = 1 /\ s.arg = now(t) /\ s \in Slots
    BY <1>6, <2>1, <2>3
  <2>5. s.at # 2 /\ s.at # 0 /\ times'[now(t)] = 0 /\ times' = times
    BY <2>2, <2>3, <2>4
  <2> HIDE DEF s, m
  <2>6. /\ times' \in [Requests -> Nat]
        /\ \A r \in Requests : r[1] # t => times'[r] = times[r]
        /\ \A r \in Requests : r[1] = t /\ r[2] > m => times'[r] = 0
    BY <1>6, <2>5
  <2>7. /\ helpers' = [helpers EXCEPT ![abt_id[t]] = s]
        /\ s.ready => s.at = 0 /\ ~s.done
        /\ s.done => s.at = 0
        /\ IF s.at = 2 \/ s.done THEN s.ret = now(t) /\ times'[now(t)] = 1
                                 ELSE (s.at = 0 => s.ready) /\ times'[now(t)] = 0
    BY <2>2, <2>4, <2>5
  <2> QED
    BY <1>5, <2>4, <2>6, <2>7
<1>9. CASE TakesOrEnds(t) /\ helper(t).at # 0
  <2> DEFINE s == [[helper(t) EXCEPT !.done = TRUE] EXCEPT !.at = 0]
  <2>1. /\ s \in Slots /\ s.arg = helper(t).arg /\ s.ready = helper(t).ready
        /\ s.done = TRUE /\ s.ret = helper(t).ret /\ s.at = 0
    BY <1>3, <1>6, SlotsAre
  <2>2. /\ helper(t).at = 2 /\ UNCHANGED times
        /\ helpers' = [helpers EXCEPT ![abt_id[t]] = s]
    BY <1>9 DEF TakesOrEnds
  <2>3. ~helper(t).ready /\ helper(t).ret = now(t) /\ times[now(t)] = 1
    BY <1>6, <2>2
  <2>4. ~s.ready /\ s.done /\ s.at = 0 /\ s.ret = now(t) /\ s.arg = now(t) /\ s \in Slots
    BY <1>6, <2>1, <2>3
  <2> HIDE DEF s, m
  <2> QED
    BY <1>5, <1>6, <2>2, <2>3, <2>4
<1> QED
  BY <1>1, <1>7, <1>8, <1>9

LEMMA CallStep ==
    ASSUME CallInv, IdInv, PcInv, JoinInv, RecInv, [Next]_vars
    PROVE  CallInv'
<1>1. UNCHANGED job
  BY DEF Next, vars, program
<1>2. ASSUME NEW t \in Threads, NEW u \in Workers, CallJoin(t, u)
      PROVE  CallInv'
  <2>1. /\ Moves(t, "run", "join") /\ MayJoin(t, u)
        /\ UNCHANGED <<helpers, made, got, times, abt_id>>
    BY <1>2, CallJoinIs
  <2>2. CASE t = main
    BY <1>1, <2>1, <2>2, CallSame, MainPlace DEF Moves, PcInv
  <2>3. CASE t # main
    <3>1. t \in Workers /\ job[t] # "call"
      BY <2>1, <2>3, NamesAssumption DEF Threads, MayJoin, OwnJobs
    <3> QED
      BY <1>1, <2>1, <3>1, CallMoves
  <2> QED
    BY <2>2, <2>3
<1>3. ASSUME NEW t \in Threads, my_join(t)
      PROVE  CallInv'
  <2>1. PICK l \in {"run", "over"} :
            Moves(t, "join", l) /\ UNCHANGED <<helpers, made, got, times, abt_id>>
    BY <1>3, my_joinIs
  <2>2. CASE t = main
    BY <1>1, <2>1, <2>2, CallSame, MainPlace DEF Moves, PcInv
  <2>3. CASE t # main
    <3>1. t \in Workers
      BY <2>3 DEF Threads
    <3> QED
      BY <1>1, <2>1, <3>1, CallMoves
  <2> QED
    BY <2>2, <2>3
<1>4. ASSUME NEW t \in Workers, Step(t), ~\E u \in Workers : CallJoin(t, u)
      PROVE  CallInv'
  <2>1. ASSUME CallsMade(t) \/ Direct(t) \/ Lock(t) \/ LockUnknown(t) \/ Unlock(t)
        PROVE  CallInv'
    <3>1. PICK from, l \in Places : Moves(t, from, l) /\ Between(t, from, l)
      BY <1>4, StepMoves
    <3>2. UNCHANGED <<helpers, made, got, times, abt_id>>
      BY <2>1 DEF CallsMade, Direct, Lock, LockUnknown, Unlock, records, calls
    <3>3. pc[t] \in {"run", "inside"} /\ \E k \in {"run", "inside", "over"} : pc' = [pc EXCEPT ![t] = k]
      BY <2>1 DEF CallsMade, Direct, Lock, LockUnknown, Unlock, leave
    <3>4. from \in {"run", "inside"} /\ l \in {"run", "inside", "over"}
      BY <3>1, <3>3, MainPlace DEF Moves, PcInv
    <3>5. l = "inside" => job[t] # "call"
      BY <2>1, <3>1, MainPlace DEF CallsMade, Direct, Lock, LockUnknown, Unlock, leave, Moves, PcInv
    <3> QED
      BY <1>1, <3>1, <3>2, <3>4, <3>5, CallMoves
  <2> QED
    BY <1>1, <1>4, <2>1, CallAsk, CallSignal, CallPoll DEF Step
<1>5. ASSUME UNCHANGED pc, UNCHANGED records, UNCHANGED calls
      PROVE  CallInv'
  BY <1>1, <1>5, CallSame DEF records, calls
<1>6. ASSUME NEW t \in Threads, Dispatch(t)
      PROVE  CallInv'
  BY <1>5, <1>6 DEF Dispatch
<1>7. ASSUME NEW h \in Ids, Helper(h)
      PROVE  CallInv'
  BY <1>1, <1>7, CallHelper
<1>8. CASE UNCHANGED vars
  BY <1>5, <1>8 DEF vars, sched
<1>9. Workers \subseteq Threads /\ main \in Threads
  BY DEF Threads
<1>10. ASSUME NEW u \in Workers, Create(u)
       PROVE  CallInv'
  BY <1>1, <1>10, CallCreate
<1> QED
  BY <1>2, <1>3, <1>4, <1>6, <1>7, <1>8, <1>9, <1>10 DEF Next, Main
-----------------------------------------------------------------------------
(* The invariant holds.                                                     *)

LEMMA InitInv == ASSUME Init PROVE IInv
<1>1. /\ IsFiniteSet(Workers) /\ Cardinality(Workers) \in Nat
      /\ \A u \in Workers : Cardinality(Workers) # 0
  BY ThreadsAssumption, FS_CardinalityType, FS_EmptySet
<1>2. /\ \A t \in Workers : t \in Threads /\ t # main /\ pc[t] = "absent"
      /\ pc[main] = "run" /\ main \in Threads
  BY ThreadsAssumption DEF Init, Threads
<1>3. PcInv
  BY <1>2 DEF Init, PcInv, Places
<1>4. SchedInv
  BY <1>2, ThreadsAssumption DEF Init, SchedInv, Streams, stream, Threads
<1>5. JoinInv
  BY <1>2 DEF Init, JoinInv
<1>6. RecInv
  <2>1. myth \in [Workers -> Tids]
    BY <1>1 DEF Init, Tids
  <2>2. n_abt_thread = 0 /\ myth_pool = <<>> /\ th_map \in [Tids -> Workers \cup {NoThread}]
    BY DEF Init
  <2>3. RecType
    BY <1>1, <2>1, <2>2 DEF RecType
  <2>4. PoolOnce
    BY <2>2 DEF PoolOnce
  <2>5. OwnTid /\ NoneLost
    BY <1>2, <2>2 DEF OwnTid, NoneLost, Alive
  <2> QED
    BY <2>3, <2>4, <2>5 DEF RecInv
<1>7. IdInv
  <2>1. Created = {}
    BY <1>2 DEF Created
  <2>2. created = Cardinality(Created)
    BY <2>1, FS_EmptySet DEF Init
  <2> HIDE DEF Created
  <2> QED
    BY <2>1, <2>2 DEF Init, IdInv
<1>8. CallInv
  <2>1. helpers \in [Ids -> Slots] /\ \A h \in Ids : Idle(h)
    BY DEF Init, Slots, Idle
  <2>2. /\ made \in [Workers -> 0..MaxCalls] /\ got \in [Workers -> Requests \cup {NoRequest}]
        /\ times \in [Requests -> Nat] /\ \A t \in Workers : made[t] = 0
        /\ \A r \in Requests : times[r] = 0
    BY CoresAssumption DEF Init
  <2> QED
    BY <1>2, <2>1, <2>2 DEF CallInv
<1>9. LockInv
  BY <1>2, NamesAssumption DEF Init, LockInv
<1> QED
  BY <1>3, <1>4, <1>5, <1>6, <1>7, <1>8, <1>9 DEF IInv

LEMMA NextInv == ASSUME IInv, [Next]_vars PROVE IInv'
BY PcStep, SchedStep, JoinStep, RecStep, IdStep, CallStep, LockStep DEF IInv

(* Pthreads of the first generation keep their streams, their records, their *)
(* ids and helpers, and the states of their calls apart.                    *)
THEOREM Invariance == Spec => []IInv
<1>1. Init => IInv
  BY InitInv
<1>2. IInv /\ [Next]_vars => IInv'
  BY NextInv
<1> QED
  BY <1>1, <1>2, PTL DEF Spec

LEMMA IInvInv == ASSUME IInv PROVE Inv
<1>1. TypeOK
  <2>1. \A s \in Streams : running[s] # NoThread => stream(running[s]) = s
    BY DEF IInv, SchedInv
  <2>2. myth \in [Workers -> Tids] /\ n_abt_thread \in 0..Cardinality(Workers)
    BY DEF IInv, RecInv, RecType
  <2>3. \A t \in Workers : abt_id[t] \in Ids
    BY IdBounds DEF IInv
  <2>4. /\ made \in [Workers -> 0..MaxCalls] /\ got \in [Workers -> Requests \cup {NoRequest}]
        /\ mutex \in Workers \cup {NoThread, Unknown} /\ inside \subseteq Workers
    BY DEF IInv, CallInv, LockInv
  <2> QED
    BY <2>1, <2>2, <2>3, <2>4 DEF TypeOK
<1>2. OwnRecord
  BY DEF IInv, RecInv, OwnTid, OwnRecord
<1>3. OwnAnswer
  BY DEF IInv, CallInv, Handoff, OwnAnswer, now
<1>4. Exclusive
  <2>1. ASSUME initialised
        PROVE  Cardinality(inside) <= 1
    <3>1. PICK m : m = mutex
      OBVIOUS
    <3>2. inside = {} \/ inside = {m}
      BY <2>1, <3>1 DEF IInv, LockInv
    <3>3. Cardinality({}) = 0 /\ Cardinality({m}) = 1
      BY FS_EmptySet, FS_Singleton
    <3> QED
      BY <3>2, <3>3
  <2> QED
    BY <2>1 DEF Exclusive
<1> QED
  BY <1>1, <1>2, <1>3, <1>4 DEF Inv

(* Threads that run or are not joined have records of their own, a call      *)
(* returns the answer to its own request, and a mutex that was initialised   *)
(* excludes.                                                                *)
THEOREM InvHolds == Spec => []Inv
<1>1. IInv => Inv
  BY IInvInv
<1> QED
  BY <1>1, Invariance, PTL
-----------------------------------------------------------------------------
(* Calls through the helpers are remote calls.                              *)

asked == {r \in Requests : r[2] <= made[r[1]]}
answered == {r \in Requests : r[2] < made[r[1]] \/ (r[2] = made[r[1]] /\ pc[r[1]] \in {"run", "over"})}
AbsNext == Abstract!Next \/ UNCHANGED <<asked, answered, times>>

LEMMA RequestIs ==
    ASSUME NEW r \in Requests
    PROVE  r[1] \in Workers /\ r[2] \in Nat /\ r[2] >= 1 /\ r = <<r[1], r[2]>>
BY CoresAssumption DEF Requests

(* A step in which nobody asks and nobody that has asked gets its answer. *)
LEMMA Stutters ==
    ASSUME CallInv, UNCHANGED <<made, times>>,
           \A t \in Workers : made[t] > 0 =>
               (pc'[t] \in {"run", "over"} <=> pc[t] \in {"run", "over"})
    PROVE  AbsNext
<1>1. asked' = asked
  BY DEF asked
<1>2. \A r \in Requests : made[r[1]] \in Nat
  BY RequestIs, RequestOf
<1>3. answered' = answered
  BY <1>2, RequestIs DEF answered
<1> QED
  BY <1>1, <1>3 DEF AbsNext

LEMMA AsksOne ==
    ASSUME CallInv, PcInv, NEW t \in Workers, Ask(t)
    PROVE  AbsNext
<1> DEFINE n == made[t]
           q == <<t, n + 1>>
<1>1. /\ pc[t] = "run" /\ pc' = [pc EXCEPT ![t] = "signal"] /\ n < MaxCalls
      /\ made' = [made EXCEPT ![t] = n + 1] /\ UNCHANGED times
  BY DEF Ask, goto
<1>2. n \in Nat /\ q \in Requests /\ q[1] = t /\ q[2] = n + 1
  BY <1>1, RequestOf
<1>3. /\ made'[t] = n + 1 /\ pc'[t] = "signal"
      /\ \A u \in Workers \ {t} : made'[u] = made[u] /\ pc'[u] = pc[u]
  BY <1>1, MainPlace DEF CallInv, PcInv
<1>4. \A r \in Requests : r[1] = t /\ r # q => r[2] # n + 1
  BY RequestIs
<1>5. \A r \in Requests : made[r[1]] \in Nat
  BY RequestIs, RequestOf
<1>6. q \notin asked
  BY <1>2 DEF asked
<1> HIDE DEF n, q
<1>7. ASSUME NEW r \in Requests
      PROVE  /\ r[2] <= made'[r[1]] <=> r[2] <= made[r[1]] \/ r = q
             /\ (r[2] < made'[r[1]] \/ (r[2] = made'[r[1]] /\ pc'[r[1]] \in {"run", "over"}))
                <=> (r[2] < made[r[1]] \/ (r[2] = made[r[1]] /\ pc[r[1]] \in {"run", "over"}))
  <2>1. r[1] \in Workers /\ r[2] \in Nat
    BY RequestIs
  <2>2. CASE r[1] # t
    BY <1>2, <1>3, <2>1, <2>2
  <2>3. CASE r[1] = t
    <3>1. made[r[1]] = n
      BY <2>3 DEF n
    <3>2. r = q <=> r[2] = n + 1
      BY <1>2, <1>4, <2>3
    <3> QED
      BY <1>1, <1>2, <1>3, <2>1, <2>3, <3>1, <3>2
  <2> QED
    BY <2>2, <2>3
<1>8. asked' = asked \cup {q}
  BY <1>2, <1>7 DEF asked
<1>9. answered' = answered
  BY <1>7 DEF answered
<1>10. PICK r \in Requests : r = q
  BY <1>2
<1>11. Abstract!Ask(r)
  BY <1>1, <1>6, <1>8, <1>9, <1>10 DEF Abstract!Ask, asked, answered
<1> QED
  BY <1>11 DEF AbsNext, Abstract!Next

LEMMA AnswersOne ==
    ASSUME CallInv, IdInv, PcInv, NEW t \in Workers, Poll(t)
    PROVE  AbsNext
<1>1. CASE ~helper(t).done
  <2>1. pc[t] = "poll" /\ pc' = [pc EXCEPT ![t] = "poll"] /\ UNCHANGED <<made, times>>
    BY <1>1 DEF Poll, leave
  <2> QED
    BY <2>1, MainPlace, Stutters DEF PcInv
<1>2. CASE helper(t).done
  <2> DEFINE q == now(t)
  <2>1. pc[t] = "poll" /\ pc' = [pc EXCEPT ![t] = "run"] /\ UNCHANGED <<made, times>>
    BY <1>2 DEF Poll, goto
  <2>2. made[t] > 0 /\ times[q] = 1
    BY <1>2, <2>1, CallOf DEF Handoff
  <2>3. q \in Requests /\ q[1] = t /\ q[2] = made[t]
    BY <2>2, RequestOf DEF now
  <2>4. \A r \in Requests : r[1] = t /\ r # q => r[2] # made[t]
    BY RequestIs DEF now
  <2>5. \A r \in Requests : made[r[1]] \in Nat
    BY RequestIs, RequestOf
  <2>6. pc'[t] = "run" /\ \A u \in Workers \ {t} : pc'[u] = pc[u]
    BY <2>1, MainPlace DEF PcInv
  <2> HIDE DEF q
  <2>7. ASSUME NEW r \in Requests
        PROVE  (r[2] < made'[r[1]] \/ (r[2] = made'[r[1]] /\ pc'[r[1]] \in {"run", "over"}))
               <=> (r[2] < made[r[1]] \/ (r[2] = made[r[1]] /\ pc[r[1]] \in {"run", "over"}))
                   \/ r = q
    BY <2>1, <2>3, <2>4, <2>6, RequestIs
  <2>8. answered' = answered \cup {q}
    BY <2>3, <2>7 DEF answered
  <2>9. asked' = asked
    BY <2>1 DEF asked
  <2>10. PICK r \in Requests : r = q
    BY <2>3
  <2>11. Abstract!Answer(r)
    BY <2>1, <2>2, <2>8, <2>9, <2>10 DEF Abstract!Answer, asked, answered
  <2> QED
    BY <2>11 DEF AbsNext, Abstract!Next
<1> QED
  BY <1>1, <1>2

LEMMA CarriesOne ==
    ASSUME CallInv, IdInv, PcInv, NEW h \in Ids, Helper(h)
    PROVE  AbsNext
<1>1. PICK t \in Workers : pc[t] = "poll" /\ (Carries(t) \/ TakesOrEnds(t))
  BY HelperIs
<1>2. UNCHANGED <<pc, made>>
  BY HelperIs
<1>3. CASE TakesOrEnds(t)
  BY <1>2, <1>3, Stutters DEF TakesOrEnds
<1>4. CASE Carries(t)
  <2> DEFINE q == now(t)
  <2>1. made[t] > 0 /\ times[q] = 0 /\ times' = [times EXCEPT ![q] = 1]
    BY <1>1, <1>4, CallOf DEF Handoff, Carries
  <2>2. q \in Requests /\ q[1] = t /\ q[2] = made[t] /\ made[t] \in Nat
    BY <2>1, RequestOf DEF now
  <2> HIDE DEF q
  <2>3. q \in asked \ answered
    BY <1>1, <2>2 DEF asked, answered
  <2>4. asked' = asked /\ answered' = answered
    BY <1>2 DEF asked, answered
  <2>5. PICK r \in Requests : r = q
    BY <2>2
  <2>6. Abstract!CarryOut(r)
    BY <2>1, <2>3, <2>4, <2>5 DEF Abstract!CarryOut, asked, answered
  <2> QED
    BY <2>6 DEF AbsNext, Abstract!Next
<1> QED
  BY <1>1, <1>3, <1>4

LEMMA RefinementStep ==
    ASSUME IInv, [Next]_vars
    PROVE  AbsNext
<1>1. CallInv /\ IdInv /\ PcInv /\ JoinInv /\ RecInv
  BY DEF IInv
<1>2. ASSUME NEW t \in Threads, NEW from, NEW l, Moves(t, from, l), UNCHANGED <<made, times>>,
             \/ t = main
             \/ made[t] = 0
             \/ from \in {"run", "over"} <=> l \in {"run", "over"}
      PROVE  AbsNext
  <2>1. \A u \in Workers : u # t => pc'[u] = pc[u]
    BY <1>1, <1>2, MainPlace DEF Moves, PcInv
  <2>2. ASSUME NEW u \in Workers, made[u] > 0, u = t
        PROVE  pc'[u] \in {"run", "over"} <=> pc[u] \in {"run", "over"}
    BY <1>1, <1>2, <2>2, MainPlace DEF Moves, PcInv
  <2> QED
    BY <1>1, <1>2, <2>1, <2>2, Stutters
<1>3. \A t \in Workers : job[t] # "call" => made[t] = 0
  BY <1>1, RequestOf DEF CallInv
<1>4. ASSUME NEW u \in Workers, Create(u)
      PROVE  AbsNext
  <2>1. Moves(u, "absent", "run") /\ UNCHANGED <<made, times>> /\ u \in Threads
    BY <1>4, CreateIs, MainPlace, <1>1
  <2>2. made[u] = 0
    BY <1>1, <2>1 DEF CallInv, Moves
  <2> QED
    BY <1>2, <2>1, <2>2
<1>5. ASSUME NEW t \in Threads, NEW u \in Workers, CallJoin(t, u)
      PROVE  AbsNext
  <2>1. Moves(t, "run", "join") /\ MayJoin(t, u) /\ UNCHANGED <<made, times>>
    BY <1>5, CallJoinIs
  <2>2. t # main => made[t] = 0
    BY <1>3, <2>1, NamesAssumption DEF MayJoin, OwnJobs, Threads
  <2> QED
    BY <1>2, <2>1, <2>2
<1>6. ASSUME NEW t \in Threads, my_join(t)
      PROVE  AbsNext
  <2>1. PICK l \in {"run", "over"} : Moves(t, "join", l) /\ UNCHANGED <<made, times>>
    BY <1>1, <1>6, my_joinIs
  <2>2. t # main => made[t] = 0
    BY <1>1, <1>3, <2>1 DEF CallInv, Moves, Threads
  <2> QED
    BY <1>2, <2>1, <2>2
<1>7. ASSUME NEW t \in Workers, Step(t), ~\E u \in Workers : CallJoin(t, u)
      PROVE  AbsNext
  <2>1. t \in Threads
    BY <1>1, MainPlace
  <2>2. CASE Signal(t)
    BY <1>2, <2>1, <2>2 DEF Signal, goto, Moves
  <2>3. CASE CallsMade(t) \/ Direct(t)
    BY <1>2, <2>1, <2>3 DEF CallsMade, Direct, leave, Moves, calls
  <2>4. CASE Lock(t) \/ LockUnknown(t)
    <3>1. made[t] = 0 /\ UNCHANGED <<made, times>> /\ \E l : Moves(t, "run", l)
      BY <1>3, <2>4 DEF Lock, LockUnknown, leave, Moves, calls
    <3> QED
      BY <1>2, <2>1, <3>1
  <2>5. CASE Unlock(t)
    <3>1. UNCHANGED <<made, times>> /\ Moves(t, "inside", "over")
      BY <2>5 DEF Unlock, leave, Moves, calls
    <3>2. made[t] = 0
      BY <1>1, <1>3, <3>1 DEF CallInv, Moves
    <3> QED
      BY <1>2, <2>1, <3>1, <3>2
  <2> QED
    BY <1>1, <1>7, <2>2, <2>3, <2>4, <2>5, AsksOne, AnswersOne DEF Step
<1>8. ASSUME UNCHANGED pc, UNCHANGED calls
      PROVE  AbsNext
  BY <1>1, <1>8, Stutters DEF calls
<1>9. ASSUME NEW t \in Threads, Dispatch(t)
      PROVE  AbsNext
  BY <1>8, <1>9 DEF Dispatch
<1>10. ASSUME NEW h \in Ids, Helper(h)
       PROVE  AbsNext
  BY <1>1, <1>10, CarriesOne
<1>11. CASE UNCHANGED vars
  BY <1>8, <1>11 DEF vars, sched
<1>12. Workers \subseteq Threads /\ main \in Threads
  BY DEF Threads
<1> QED
  BY <1>4, <1>5, <1>6, <1>7, <1>9, <1>10, <1>11, <1>12 DEF Next, Main

LEMMA RefinementInit == ASSUME Init PROVE Abstract!Init
<1>1. \A r \in Requests : made[r[1]] = 0 /\ r[2] >= 1 /\ r[2] \in Nat
  BY RequestIs DEF Init
<1> QED
  BY <1>1 DEF Init, Abstract!Init

(* The hand-off to the helpers carries out every call exactly once, after   *)
(* it was asked for, and answers it after that.                             *)
THEOREM Refinement == Spec => ImplementsRemoteCall
<1>1. Init => Abstract!Init
  BY RefinementInit
<1>2. IInv /\ [Next]_vars => [Abstract!Next]_(Abstract!vars)
  BY RefinementStep DEF AbsNext, Abstract!vars, asked, answered
<1> QED
  BY <1>1, <1>2, Invariance, PTL DEF Spec, ImplementsRemoteCall, Abstract!Spec
=============================================================================
