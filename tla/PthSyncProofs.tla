---------------------------- MODULE PthSyncProofs ---------------------------
(***************************************************************************)
(* Proofs about PthSync, for any number of threads and wraps: the inductive *)
(* invariant, the safety properties that follow from it, and that the      *)
(* lazily created mutex and condition variable implement Monitor.          *)
(***************************************************************************)
EXTENDS PthSync, TLAPS

-----------------------------------------------------------------------------
(* One lemma per action: it preserves each part of the invariant.           *)

(* A step that leaves word and heap alone preserves WordInv if it neither     *)
(* starts or ends a creation nor ends the life of an object.                  *)
LEMMA WordFrame ==
    ASSUME WordInv, UNCHANGED <<word, heap>>,
           \A u \in Threads, o \in Objs : Initing(u, o)' <=> Initing(u, o),
           \A o \in Objs : Kept(o)' <=> Kept(o)
    PROVE  WordInv'
BY DEF WordInv

(* A call begins: pthread_mutex_lock and so on. *)
LEMMA CallIInv ==
    ASSUME IInv, NEW t \in Threads, NEW a \in Ops, Call(t, a)
    PROVE  IInv'
<1>1. TypeOK'
  BY DEF IInv, Call, StartGet, goto, TypeOK, Words, Objs
<1>2. RulesInv'
  BY DEF IInv, Call, StartGet, goto, TypeOK, RulesInv, CallInv, Destroying, Creating,
         Calling, Uses, MutexOps, CondOps, Waits, Destroy, Create, Objs
<1>3. CallInv'
  BY DEF IInv, Call, StartGet, goto, TypeOK, CallInv, Using, Getting, Uses, MutexOps,
         CondOps, Waits, Destroy, Create, Objs
<1>4. WordInv'
  <2>1. UNCHANGED <<word, heap>>
    BY DEF Call, StartGet, goto
  <2>2. \A u \in Threads, p \in Objs : Initing(u, p)' <=> Initing(u, p)
    BY DEF IInv, Call, StartGet, goto, TypeOK, CallInv, Initing, Using, Getting, Objs,
           Words, MutexOps, CondOps, Waits, Destroy, Create, Ops, Uses
  <2>3. \A p \in Objs : Kept(p)' <=> Kept(p)
    BY DEF IInv, Call, StartGet, goto, TypeOK, Kept, Destroying, Uses, MutexOps,
           CondOps, Waits, Destroy, Create, Objs
  <2> QED
    BY <2>1, <2>2, <2>3, WordFrame DEF IInv
<1>5. HandleInv'
  BY DEF IInv, Call, StartGet, goto, TypeOK, HandleInv, CallInv, Got, Using, Getting,
         Uses, MutexOps, CondOps, Waits, Destroy, Create, Objs
<1>6. HolderInv'
  BY DEF IInv, Call, StartGet, goto, TypeOK, HolderInv, HandleInv, CallInv, Got, Using,
         Kept, Destroying, Uses, MutexOps, CondOps, Waits, Destroy, Create, Objs
<1>7. QueueInv'
  BY DEF IInv, Call, StartGet, goto, TypeOK, QueueInv
<1> QED
  BY <1>1, <1>2, <1>3, <1>4, <1>5, <1>6, <1>7 DEF IInv

(* pthread_mutex_destroy and pthread_cond_destroy begin. *)
LEMMA CallDestroyIInv ==
    ASSUME IInv, NEW t \in Threads, NEW o \in Objs, CallDestroy(t, o)
    PROVE  IInv'
<1>1. TypeOK'
  BY DEF IInv, CallDestroy, StartGet, goto, TypeOK, Using, Objs, Words, MutexOps,
         CondOps, Waits, Destroy, Create, Ops, Uses
<1>2. RulesInv'
  BY DEF IInv, CallDestroy, StartGet, goto, TypeOK, RulesInv, CallInv, Destroying,
         Creating, Calling, Uses, MutexOps, CondOps, Waits, Destroy, Create, Objs
<1>3. CallInv'
  BY DEF IInv, CallDestroy, StartGet, goto, TypeOK, CallInv, Using, Getting, Uses,
         MutexOps, CondOps, Waits, Destroy, Create, Objs
<1>4. WordInv'
  <2>1. UNCHANGED <<word, heap>>
    BY DEF CallDestroy, StartGet, goto
  <2>2. \A u \in Threads, p \in Objs : Initing(u, p)' <=> Initing(u, p)
    BY DEF IInv, CallDestroy, StartGet, goto, TypeOK, Initing
  <2>3. \A p \in Objs : Kept(p)' <=> Kept(p)
    BY DEF IInv, CallDestroy, StartGet, goto, TypeOK, Kept, Destroying, Destroy,
           Create, Objs
  <2> QED
    BY <2>1, <2>2, <2>3, WordFrame DEF IInv
<1>5. HandleInv'
  BY DEF IInv, CallDestroy, StartGet, goto, TypeOK, HandleInv, CallInv, Got, Using,
         Getting, Uses, MutexOps, CondOps, Waits, Destroy, Create, Objs
<1>6. HolderInv'
  BY DEF IInv, CallDestroy, StartGet, goto, TypeOK, HolderInv, HandleInv, CallInv, Got,
         Using, Kept, Destroying, Destroy, Create, Objs
<1>7. QueueInv'
  BY DEF IInv, CallDestroy, StartGet, goto, TypeOK, QueueInv
<1> QED
  BY <1>1, <1>2, <1>3, <1>4, <1>5, <1>6, <1>7 DEF IInv

(* pthread_mutex_init and pthread_cond_init begin. *)
LEMMA CallInitIInv ==
    ASSUME IInv, NEW t \in Threads, NEW o \in Objs, CallInit(t, o)
    PROVE  IInv'
<1>1. TypeOK'
  BY DEF IInv, CallInit, goto, TypeOK, Using, Objs, Words, MutexOps, CondOps, Waits,
         Destroy, Create, Ops, Uses
<1>2. RulesInv'
  BY DEF IInv, CallInit, goto, TypeOK, RulesInv, CallInv, Destroying, Creating,
         Calling, Uses, MutexOps, CondOps, Waits, Destroy, Create, Objs
<1>3. CallInv'
  BY DEF IInv, CallInit, goto, TypeOK, CallInv, Using, Getting, Uses, MutexOps,
         CondOps, Waits, Destroy, Create, Objs
<1>4. WordInv'
  <2>1. UNCHANGED <<word, heap>>
    BY DEF CallInit, goto
  <2>2. \A u \in Threads, p \in Objs : Initing(u, p)' <=> Initing(u, p)
    BY DEF IInv, CallInit, goto, TypeOK, Initing
  <2>3. \A p \in Objs : Kept(p)' <=> Kept(p)
    BY DEF IInv, CallInit, goto, TypeOK, Kept, Destroying, Destroy, Create, Objs
  <2> QED
    BY <2>1, <2>2, <2>3, WordFrame DEF IInv
<1>5. HandleInv'
  BY DEF IInv, CallInit, goto, TypeOK, HandleInv, CallInv, Got, Using, Getting, Uses,
         MutexOps, CondOps, Waits, Destroy, Create, Objs
<1>6. HolderInv'
  BY DEF IInv, CallInit, goto, TypeOK, HolderInv, HandleInv, CallInv, Got, Using, Kept,
         Destroying, Destroy, Create, Objs
<1>7. QueueInv'
  BY DEF IInv, CallInit, goto, TypeOK, QueueInv
<1> QED
  BY <1>1, <1>2, <1>3, <1>4, <1>5, <1>6, <1>7 DEF IInv

(* get_abt_mutex tests the word. *)
LEMMA TestIInv ==
    ASSUME IInv, NEW t \in Threads, Test(t)
    PROVE  IInv'
<1>1. TypeOK'
  BY DEF IInv, Test, goto, TypeOK
<1>2. RulesInv'
  BY DEF IInv, Test, goto, TypeOK, RulesInv, Destroying, Creating, Calling
<1>3. CallInv'
  BY DEF IInv, Test, goto, TypeOK, CallInv, Using, Getting
<1>4. WordInv'
  <2>1. UNCHANGED <<word, heap>>
    BY DEF Test, goto
  <2>2. \A u \in Threads, p \in Objs : Initing(u, p)' <=> Initing(u, p)
    BY DEF IInv, Test, goto, TypeOK, Initing
  <2>3. \A p \in Objs : Kept(p)' <=> Kept(p)
    BY DEF IInv, Test, goto, TypeOK, Kept, Destroying
  <2> QED
    BY <2>1, <2>2, <2>3, WordFrame DEF IInv
<1>5. HandleInv'
  BY DEF IInv, Test, goto, TypeOK, HandleInv, CallInv, Got, Using, Getting
<1>6. HolderInv'
  BY DEF IInv, Test, goto, TypeOK, HolderInv, Kept, Destroying
<1>7. QueueInv'
  BY DEF IInv, Test, goto, TypeOK, QueueInv
<1> QED
  BY <1>1, <1>2, <1>3, <1>4, <1>5, <1>6, <1>7 DEF IInv

(* The compare-and-swap from 0 to 0xffffffff. *)
LEMMA CasIInv ==
    ASSUME IInv, NEW t \in Threads, Cas(t)
    PROVE  IInv'
<1>1. TypeOK'
  <2>1. word' \in [Objs -> Words]
    BY DEF IInv, Cas, TypeOK, Words
  <2>2. pc' \in [Threads -> Using \cup {"idle", "test", "cas", "init", "spin"}]
    BY DEF IInv, Cas, goto, TypeOK
  <2> QED
    BY <2>1, <2>2 DEF IInv, Cas, TypeOK
<1>2. RulesInv'
  BY DEF IInv, Cas, goto, TypeOK, RulesInv, CallInv, Destroying, Creating, Calling,
         Using, Getting, Objs, Words, MutexOps, CondOps, Waits, Destroy, Create, Ops, Uses
<1>3. CallInv'
  BY DEF IInv, Cas, goto, TypeOK, CallInv, Using, Getting
<1>4. WordInv'
  <2>1. CASE word[obj[t]] # Zero
    <3>1. UNCHANGED <<word, heap>>
      BY <2>1 DEF Cas
    <3>2. \A u \in Threads, p \in Objs : Initing(u, p)' <=> Initing(u, p)
      BY <2>1 DEF IInv, Cas, goto, TypeOK, Initing, Using
    <3>3. \A p \in Objs : Kept(p)' <=> Kept(p)
      BY <2>1 DEF IInv, Cas, goto, TypeOK, Kept, Destroying, Using
    <3> QED
      BY <3>1, <3>2, <3>3, WordFrame DEF IInv
  <2>2. CASE word[obj[t]] = Zero
    <3>0. PICK o \in Objs : o = obj[t]
      BY DEF IInv, TypeOK
    <3>1. /\ o \in Objs /\ pc[t] = "cas" /\ op[t] # Create[o]
          /\ word' = [word EXCEPT ![o] = Busy]
          /\ pc' = [pc EXCEPT ![t] = "init"]
          /\ UNCHANGED <<heap, op, obj, alive>>
      BY <2>2, <3>0 DEF Cas, goto, IInv, TypeOK, CallInv
    <3>2. \A u \in Threads, p \in Objs : Initing(u, p)' <=> Initing(u, p) \/ (u = t /\ p = o)
      BY <3>0, <3>1 DEF IInv, TypeOK, Initing
    <3>3. \A p \in Objs : Kept(p)' <=> Kept(p)
      BY <3>1 DEF IInv, TypeOK, Kept, Destroying
    <3>4. \A u \in Threads : ~Initing(u, o)
      BY <2>2, <3>0, <3>1, WordsAssumption DEF IInv, WordInv
    <3>5. Kept(o)
      BY <2>2, <3>0, <3>1, WordsAssumption DEF IInv, WordInv
    <3>6. ASSUME NEW p \in Objs, p # o
          PROVE  word'[p] = word[p] /\ \A u \in Threads : Initing(u, p)' <=> Initing(u, p)
      BY <3>1, <3>2, <3>6 DEF IInv, TypeOK
    <3>7. word'[o] = Busy
      BY <3>1 DEF IInv, TypeOK
    <3>8. ASSUME NEW p \in Objs
          PROVE  /\ word'[p] = Busy <=> \E u \in Threads : Initing(u, p)'
                 /\ \A u, v \in Threads : Initing(u, p)' /\ Initing(v, p)' => u = v
                 /\ \A w \in Wraps : heap'[w] = p <=> Kept(p)' /\ word'[p] = w
                 /\ Kept(p)' \/ word'[p] \in Wraps
      <4>1. CASE p = o
        BY <2>2, <3>0, <3>1, <3>2, <3>3, <3>4, <3>5, <3>7, <4>1, WordsAssumption DEF IInv, WordInv
      <4>2. CASE p # o
        BY <3>1, <3>3, <3>6, <4>2 DEF IInv, WordInv
      <4> QED
        BY <4>1, <4>2
    <3> QED
      BY <3>8 DEF WordInv
  <2> QED
    BY <2>1, <2>2
<1>5. HandleInv'
  <2>1. \A p \in Objs : word[p] # Zero => word'[p] = word[p]
    BY DEF IInv, Cas, TypeOK
  <2>2. \A u \in Threads, p \in Objs : Got(u, p)' <=> Got(u, p)
    BY DEF IInv, Cas, goto, TypeOK, Got, Using, Getting
  <2>3. \A u \in Threads : pc'[u] = "spin" => pc[u] = "spin" \/ word[obj[u]] # Zero
    BY DEF IInv, Cas, goto, TypeOK
  <2>4. UNCHANGED <<obj, handle>>
    BY DEF Cas
  <2>5. \A u \in Threads : obj[u] \in Objs
    BY DEF IInv, TypeOK
  <2> QED
    BY <2>1, <2>2, <2>3, <2>4, <2>5, WordsAssumption DEF IInv, HandleInv
<1>6. HolderInv'
  BY NoThreadAssumption, WordsAssumption
     DEF IInv, Cas, goto, TypeOK, HolderInv, HandleInv, CallInv, Got, Using, Kept,
         Destroying, Destroy, Create, Objs
<1>7. QueueInv'
  BY DEF IInv, Cas, goto, TypeOK, QueueInv
<1> QED
  BY <1>1, <1>2, <1>3, <1>4, <1>5, <1>6, <1>7 DEF IInv

(* The wrap is created and its address stored in the word. *)
LEMMA NewIInv ==
    ASSUME IInv, NEW t \in Threads, New(t)
    PROVE  IInv'
<1>1. PICK w \in Wraps :
        /\ heap[w] = "free"
        /\ heap' = [heap EXCEPT ![w] = obj[t]]
        /\ holder' = [holder EXCEPT ![w] = NoThread]
        /\ queue' = [queue EXCEPT ![w] = {}]
        /\ word' = [word EXCEPT ![obj[t]] = w]
  BY DEF New
<1>2. pc[t] = "init" /\ UNCHANGED held
  BY DEF New
<1>3. CASE op[t] = Create[obj[t]]
  <2>0. /\ alive' = [alive EXCEPT ![obj[t]] = TRUE]
        /\ pc' = [pc EXCEPT ![t] = "idle"]
        /\ op' = [op EXCEPT ![t] = "none"]
        /\ obj' = [obj EXCEPT ![t] = "mutex"]
        /\ handle' = [handle EXCEPT ![t] = [p \in Objs |-> Zero]]
    BY <1>3 DEF New, Return, goto
  <2>1. TypeOK'
    BY <1>1, <1>2, <1>3, <2>0, NoThreadAssumption, WordsAssumption
       DEF IInv, TypeOK, Using, Objs, Words, MutexOps, CondOps, Waits, Destroy, Create,
           Ops, Uses
  <2>2. RulesInv'
    BY <1>1, <1>2, <1>3, <2>0, NoThreadAssumption, WordsAssumption
       DEF IInv, TypeOK, RulesInv, CallInv, Destroying, Creating, Calling, Using,
           Getting, Objs, Words, MutexOps, CondOps, Waits, Destroy, Create, Ops, Uses
  <2>3. CallInv'
    BY <1>1, <1>2, <1>3, <2>0, NoThreadAssumption, WordsAssumption
       DEF IInv, TypeOK, CallInv, HolderInv, Using, Getting, Objs, Words, MutexOps,
           CondOps, Waits, Destroy, Create, Ops, Uses
  <2>4. WordInv'
    <3>0. PICK o \in Objs : o = obj[t]
      BY DEF IInv, TypeOK
    <3>1. o \in Objs /\ "free" \notin Objs /\ w # Busy
      BY WordsAssumption DEF Objs
    <3>2. \A u \in Threads, p \in Objs : Initing(u, p)' <=> Initing(u, p) /\ u # t
      BY <1>1, <1>2, <1>3, <2>0 DEF IInv, TypeOK, Initing
    <3>3. \A u \in Threads, p \in Objs : Destroying(u, p)' <=> Destroying(u, p)
      BY <1>1, <1>2, <1>3, <2>0 DEF IInv, TypeOK, Destroying, Destroy, Create, Objs
    <3>4. \A p \in Objs : p # o => (Kept(p)' <=> Kept(p)) /\ ~Initing(t, p) /\ word'[p] = word[p]
      BY <1>1, <2>0, <3>0, <3>1, <3>3 DEF IInv, TypeOK, Kept, Initing
    <3>5. Kept(o)' /\ word'[o] = w
      BY <1>1, <2>0, <3>0 DEF IInv, TypeOK, Kept
    <3>6. \A u \in Threads : Initing(u, o) => u = t
      <4>1. Creating(t, o) /\ ~alive[o] /\ \A u \in Threads : ~Destroying(u, o)
        BY <1>2, <1>3, <3>0 DEF IInv, RulesInv, Creating, Destroying, Destroy, Create, Objs
      <4>2. ~Kept(o)
        BY <4>1 DEF Kept
      <4> QED
        BY <3>1, <4>2, WordsAssumption DEF IInv, WordInv
    <3>7. \A v \in Wraps : heap[v] # o
      <4>1. Creating(t, o) /\ ~alive[o] /\ \A u \in Threads : ~Destroying(u, o)
        BY <1>2, <1>3, <3>0 DEF IInv, RulesInv, Creating, Destroying, Destroy, Create, Objs
      <4> QED
        BY <3>1, <4>1 DEF IInv, WordInv, Kept
    <3>8. \A v \in Wraps : heap'[v] = IF v = w THEN o ELSE heap[v]
      BY <1>1, <3>0 DEF IInv, TypeOK
    <3>9. ASSUME NEW p \in Objs
          PROVE  /\ word'[p] = Busy <=> \E u \in Threads : Initing(u, p)'
                 /\ \A u, v \in Threads : Initing(u, p)' /\ Initing(v, p)' => u = v
                 /\ \A v \in Wraps : heap'[v] = p <=> Kept(p)' /\ word'[p] = v
                 /\ Kept(p)' \/ word'[p] \in Wraps
      <4>1. CASE p = o
        BY <3>1, <3>2, <3>5, <3>6, <3>7, <3>8, <4>1
      <4>2. CASE p # o
        <5>1. \A u \in Threads : Initing(u, p)' <=> Initing(u, p)
          BY <3>2, <3>4, <4>2
        <5>2. \A v \in Wraps : heap'[v] = p <=> heap[v] = p
          BY <1>1, <3>1, <3>8, <4>2
        <5> QED
          BY <3>4, <4>2, <5>1, <5>2 DEF IInv, WordInv
      <4> QED
        BY <4>1, <4>2
    <3> QED
      BY <3>9 DEF WordInv
  <2>5. HandleInv'
    BY <1>1, <1>2, <1>3, <2>0, NoThreadAssumption, WordsAssumption
       DEF IInv, TypeOK, HandleInv, WordInv, RulesInv, CallInv, Initing, Kept,
           Destroying, Creating, Calling, Got, Using, Getting, Objs, Words, MutexOps,
           CondOps, Waits, Destroy, Create, Ops, Uses
  <2>6. HolderInv'
    BY <1>1, <1>2, <1>3, <2>0, NoThreadAssumption, WordsAssumption
       DEF IInv, TypeOK, HolderInv, HandleInv, WordInv, RulesInv, CallInv, Initing,
           Kept, Destroying, Creating, Calling, Got, Using, Getting, Objs, Words, MutexOps,
           CondOps, Waits, Destroy, Create, Ops, Uses
  <2>7. QueueInv'
    BY <1>1, <1>2, <1>3, <2>0 DEF IInv, TypeOK, QueueInv
  <2> QED
    BY <2>1, <2>2, <2>3, <2>4, <2>5, <2>6, <2>7 DEF IInv
<1>4. CASE op[t] # Create[obj[t]]
  <2>0. /\ pc' = [pc EXCEPT ![t] = "spin"]
        /\ UNCHANGED <<alive, op, obj, handle>>
    BY <1>4 DEF New, goto
  <2>1. TypeOK'
    BY <1>1, <1>2, <1>4, <2>0, NoThreadAssumption, WordsAssumption
       DEF IInv, TypeOK, Using, Objs, Words, MutexOps, CondOps, Waits, Destroy, Create,
           Ops, Uses
  <2>2. RulesInv'
    BY <1>1, <1>2, <1>4, <2>0, NoThreadAssumption, WordsAssumption
       DEF IInv, TypeOK, RulesInv, CallInv, Destroying, Creating, Calling, Using,
           Getting, Objs, Words, MutexOps, CondOps, Waits, Destroy, Create, Ops, Uses
  <2>3. CallInv'
    BY <1>1, <1>2, <1>4, <2>0, NoThreadAssumption, WordsAssumption
       DEF IInv, TypeOK, CallInv, HolderInv, Using, Getting, Objs, Words, MutexOps,
           CondOps, Waits, Destroy, Create, Ops, Uses
  <2>4. WordInv'
    <3>0. PICK o \in Objs : o = obj[t]
      BY DEF IInv, TypeOK
    <3>1. o \in Objs /\ "free" \notin Objs /\ w # Busy
      BY WordsAssumption DEF Objs
    <3>2. \A u \in Threads, p \in Objs : Initing(u, p)' <=> Initing(u, p) /\ u # t
      BY <1>1, <1>2, <1>4, <2>0 DEF IInv, TypeOK, Initing
    <3>3. \A u \in Threads, p \in Objs : Destroying(u, p)' <=> Destroying(u, p)
      BY <1>1, <1>2, <1>4, <2>0 DEF IInv, TypeOK, Destroying, Destroy, Create, Objs
    <3>4. \A p \in Objs : p # o => (Kept(p)' <=> Kept(p)) /\ ~Initing(t, p) /\ word'[p] = word[p]
      BY <1>1, <2>0, <3>0, <3>1, <3>3 DEF IInv, TypeOK, Kept, Initing
    <3>5. Kept(o)' /\ word'[o] = w
      <4>1. Initing(t, o)
        BY <1>2, <1>4, <3>0 DEF Initing
      <4>2. Kept(o)
        BY <3>1, <4>1, WordsAssumption DEF IInv, WordInv
      <4> QED
        BY <1>1, <2>0, <3>0, <3>3, <4>2 DEF IInv, TypeOK, Kept
    <3>6. \A u \in Threads : Initing(u, o) => u = t
      <4>1. Initing(t, o)
        BY <1>2, <1>4, <3>0 DEF Initing
      <4> QED
        BY <3>1, <4>1 DEF IInv, WordInv
    <3>7. \A v \in Wraps : heap[v] # o
      <4>1. Initing(t, o)
        BY <1>2, <1>4, <3>0 DEF Initing
      <4> QED
        BY <3>1, <4>1, WordsAssumption DEF IInv, WordInv
    <3>8. \A v \in Wraps : heap'[v] = IF v = w THEN o ELSE heap[v]
      BY <1>1, <3>0 DEF IInv, TypeOK
    <3>9. ASSUME NEW p \in Objs
          PROVE  /\ word'[p] = Busy <=> \E u \in Threads : Initing(u, p)'
                 /\ \A u, v \in Threads : Initing(u, p)' /\ Initing(v, p)' => u = v
                 /\ \A v \in Wraps : heap'[v] = p <=> Kept(p)' /\ word'[p] = v
                 /\ Kept(p)' \/ word'[p] \in Wraps
      <4>1. CASE p = o
        BY <3>1, <3>2, <3>5, <3>6, <3>7, <3>8, <4>1
      <4>2. CASE p # o
        <5>1. \A u \in Threads : Initing(u, p)' <=> Initing(u, p)
          BY <3>2, <3>4, <4>2
        <5>2. \A v \in Wraps : heap'[v] = p <=> heap[v] = p
          BY <1>1, <3>1, <3>8, <4>2
        <5> QED
          BY <3>4, <4>2, <5>1, <5>2 DEF IInv, WordInv
      <4> QED
        BY <4>1, <4>2
    <3> QED
      BY <3>9 DEF WordInv
  <2>5. HandleInv'
    BY <1>1, <1>2, <1>4, <2>0, NoThreadAssumption, WordsAssumption
       DEF IInv, TypeOK, HandleInv, WordInv, RulesInv, CallInv, Initing, Kept,
           Destroying, Creating, Calling, Got, Using, Getting, Objs, Words, MutexOps,
           CondOps, Waits, Destroy, Create, Ops, Uses
  <2>6. HolderInv'
    BY <1>1, <1>2, <1>4, <2>0, NoThreadAssumption, WordsAssumption
       DEF IInv, TypeOK, HolderInv, HandleInv, WordInv, RulesInv, CallInv, Initing,
           Kept, Destroying, Creating, Calling, Got, Using, Getting, Objs, Words, MutexOps,
           CondOps, Waits, Destroy, Create, Ops, Uses
  <2>7. QueueInv'
    BY <1>1, <1>2, <1>4, <2>0 DEF IInv, TypeOK, QueueInv
  <2> QED
    BY <2>1, <2>2, <2>3, <2>4, <2>5, <2>6, <2>7 DEF IInv
<1> QED
  BY <1>3, <1>4

(* The wait for the word to leave 0xffffffff ends. *)
LEMMA SpinIInv ==
    ASSUME IInv, NEW t \in Threads, Spin(t)
    PROVE  IInv'
<1>1. TypeOK'
  BY DEF IInv, Spin, StartGet, goto, TypeOK, Using, Objs, Words, MutexOps, CondOps,
         Waits, Destroy, Create, Ops, Uses
<1>2. RulesInv'
  BY DEF IInv, Spin, StartGet, goto, TypeOK, RulesInv, CallInv, Destroying, Creating,
         Calling, Destroy, Create, Objs
<1>3. CallInv'
  BY DEF IInv, Spin, StartGet, goto, TypeOK, CallInv, Using, Getting, Uses, MutexOps,
         CondOps, Waits
<1>4. WordInv'
  <2>1. UNCHANGED <<word, heap>>
    BY DEF Spin, StartGet, goto
  <2>2. \A u \in Threads, p \in Objs : Initing(u, p)' <=> Initing(u, p)
    BY DEF IInv, Spin, StartGet, goto, TypeOK, Initing
  <2>3. \A p \in Objs : Kept(p)' <=> Kept(p)
    BY DEF IInv, Spin, StartGet, goto, TypeOK, Kept, Destroying
  <2> QED
    BY <2>1, <2>2, <2>3, WordFrame DEF IInv
<1>5. HandleInv'
  <2>1. CASE obj[t] = "cond" /\ op[t] \in Waits
    <3>1. /\ handle' = [handle EXCEPT ![t] = [handle[t] EXCEPT !["cond"] = word["cond"]]]
          /\ obj' = [obj EXCEPT ![t] = "mutex"]
          /\ pc' = [pc EXCEPT ![t] = "test"]
          /\ UNCHANGED <<word, op>>
          /\ pc[t] = "spin" /\ word["cond"] # Busy
      BY <2>1 DEF Spin, StartGet, goto
    <3> QED
      BY <2>1, <3>1, WordsAssumption
         DEF IInv, TypeOK, HandleInv, CallInv, Got, Using, Getting, WordInv, Kept,
             Initing, Objs, Words, MutexOps, CondOps, Waits, Destroy, Create, Ops, Uses
  <2>2. CASE ~(obj[t] = "cond" /\ op[t] \in Waits)
    <3>1. /\ handle' = [handle EXCEPT ![t] = [handle[t] EXCEPT ![obj[t]] = word[obj[t]]]]
          /\ pc' = [pc EXCEPT ![t] = "do"]
          /\ UNCHANGED <<word, op, obj>>
          /\ pc[t] = "spin" /\ word[obj[t]] # Busy
      BY <2>2 DEF Spin, goto
    <3> QED
      BY <2>2, <3>1, WordsAssumption
         DEF IInv, TypeOK, HandleInv, CallInv, Got, Using, Getting, WordInv, Kept,
             Initing, Objs, Words, MutexOps, CondOps, Waits, Destroy, Create, Ops, Uses
  <2> QED
    BY <2>1, <2>2
<1>6. HolderInv'
  BY DEF IInv, Spin, StartGet, goto, TypeOK, HolderInv, Kept, Destroying
<1>7. QueueInv'
  BY DEF IInv, Spin, StartGet, goto, TypeOK, QueueInv
<1> QED
  BY <1>1, <1>2, <1>3, <1>4, <1>5, <1>6, <1>7 DEF IInv

(* ABT_mutex_lock, ABT_mutex_trylock. *)
LEMMA LockIInv ==
    ASSUME IInv, NEW t \in Threads, Lock(t)
    PROVE  IInv'
<1>1. TypeOK'
  BY DEF IInv, Lock, TakeMutex, Return, goto, mutexOf, TypeOK, Using, Objs, Words,
         MutexOps, CondOps, Waits, Destroy, Create, Ops, Uses
<1>2. RulesInv'
  BY DEF IInv, Lock, TakeMutex, Return, goto, mutexOf, TypeOK, RulesInv, Destroying,
         Creating, Calling
<1>3. CallInv'
  BY DEF IInv, Lock, TakeMutex, Return, goto, mutexOf, TypeOK, CallInv, Using, Getting
<1>4. WordInv'
  <2>1. UNCHANGED <<word, heap>>
    BY DEF Lock, TakeMutex, Return, goto, mutexOf
  <2>2. \A u \in Threads, p \in Objs : Initing(u, p)' <=> Initing(u, p)
    BY DEF IInv, Lock, TakeMutex, Return, goto, mutexOf, TypeOK, Initing
  <2>3. \A p \in Objs : Kept(p)' <=> Kept(p)
    <3>1. UNCHANGED alive /\ \A u \in Threads, p \in Objs : Destroying(u, p)' <=> Destroying(u, p)
      BY DEF IInv, Lock, TakeMutex, Return, goto, mutexOf, TypeOK, CallInv, Destroying,
             Destroy, Objs
    <3> QED
      BY <3>1 DEF Kept
  <2> QED
    BY <2>1, <2>2, <2>3, WordFrame DEF IInv
<1>5. HandleInv'
  BY DEF IInv, Lock, TakeMutex, Return, goto, mutexOf, TypeOK, HandleInv, CallInv, Got,
         Using, Getting
<1>6. HolderInv'
  BY NoThreadAssumption, WordsAssumption
     DEF IInv, Lock, TakeMutex, Return, goto, mutexOf, TypeOK, HolderInv, HandleInv,
         CallInv, RulesInv, Got, Using, Kept, Destroying, Creating, Calling, Uses,
         MutexOps, CondOps, Waits, Destroy, Create, Objs
<1>7. QueueInv'
  BY DEF IInv, Lock, TakeMutex, Return, goto, mutexOf, TypeOK, QueueInv
<1> QED
  BY <1>1, <1>2, <1>3, <1>4, <1>5, <1>6, <1>7 DEF IInv

(* ABT_mutex_trylock finds the mutex taken. *)
LEMMA TrylockBusyIInv ==
    ASSUME IInv, NEW t \in Threads, TrylockBusy(t)
    PROVE  IInv'
<1>1. TypeOK'
  BY DEF IInv, TrylockBusy, Return, goto, TypeOK, Using, Objs, Words, MutexOps,
         CondOps, Waits, Destroy, Create, Ops, Uses
<1>2. RulesInv'
  BY DEF IInv, TrylockBusy, Return, goto, TypeOK, RulesInv, Destroying, Creating,
         Calling
<1>3. CallInv'
  BY DEF IInv, TrylockBusy, Return, goto, TypeOK, CallInv, Using, Getting
<1>4. WordInv'
  <2>1. UNCHANGED <<word, heap>>
    BY DEF TrylockBusy, Return, goto
  <2>2. \A u \in Threads, p \in Objs : Initing(u, p)' <=> Initing(u, p)
    BY DEF IInv, TrylockBusy, Return, goto, TypeOK, Initing
  <2>3. \A p \in Objs : Kept(p)' <=> Kept(p)
    BY DEF IInv, TrylockBusy, Return, goto, TypeOK, Kept, Destroying, Destroy, Create,
           Objs
  <2> QED
    BY <2>1, <2>2, <2>3, WordFrame DEF IInv
<1>5. HandleInv'
  BY DEF IInv, TrylockBusy, Return, goto, TypeOK, HandleInv, CallInv, Got, Using,
         Getting
<1>6. HolderInv'
  BY DEF IInv, TrylockBusy, Return, goto, TypeOK, HolderInv, Kept, Destroying
<1>7. QueueInv'
  BY DEF IInv, TrylockBusy, Return, goto, TypeOK, QueueInv
<1> QED
  BY <1>1, <1>2, <1>3, <1>4, <1>5, <1>6, <1>7 DEF IInv

(* ABT_mutex_unlock. *)
LEMMA UnlockIInv ==
    ASSUME IInv, NEW t \in Threads, Unlock(t)
    PROVE  IInv'
<1>1. TypeOK'
  BY DEF IInv, Unlock, Return, goto, mutexOf, TypeOK, Using, Objs, Words, MutexOps,
         CondOps, Waits, Destroy, Create, Ops, Uses
<1>2. RulesInv'
  BY DEF IInv, Unlock, Return, goto, mutexOf, TypeOK, RulesInv, Destroying, Creating,
         Calling
<1>3. CallInv'
  BY DEF IInv, Unlock, Return, goto, mutexOf, TypeOK, CallInv, Using, Getting
<1>4. WordInv'
  <2>1. UNCHANGED <<word, heap>>
    BY DEF Unlock, Return, goto, mutexOf
  <2>2. \A u \in Threads, p \in Objs : Initing(u, p)' <=> Initing(u, p)
    BY DEF IInv, Unlock, Return, goto, mutexOf, TypeOK, Initing
  <2>3. \A p \in Objs : Kept(p)' <=> Kept(p)
    <3>1. UNCHANGED alive /\ \A u \in Threads, p \in Objs : Destroying(u, p)' <=> Destroying(u, p)
      BY DEF IInv, Unlock, Return, goto, mutexOf, TypeOK, CallInv, Destroying, Destroy,
             Objs
    <3> QED
      BY <3>1 DEF Kept
  <2> QED
    BY <2>1, <2>2, <2>3, WordFrame DEF IInv
<1>5. HandleInv'
  BY DEF IInv, Unlock, Return, goto, mutexOf, TypeOK, HandleInv, CallInv, Got, Using,
         Getting
<1>6. HolderInv'
  BY DEF IInv, Unlock, Return, goto, mutexOf, TypeOK, HolderInv, HandleInv, CallInv,
         Got, Using, Kept, Destroying, Uses, MutexOps, CondOps, Waits, Destroy, Create,
         Objs
<1>7. QueueInv'
  BY DEF IInv, Unlock, Return, goto, mutexOf, TypeOK, QueueInv
<1> QED
  BY <1>1, <1>2, <1>3, <1>4, <1>5, <1>6, <1>7 DEF IInv

(* ABT_cond_wait releases the mutex and enqueues. *)
LEMMA WaitIInv ==
    ASSUME IInv, NEW t \in Threads, Wait(t)
    PROVE  IInv'
<1>1. TypeOK'
  BY DEF IInv, Wait, goto, mutexOf, condOf, TypeOK, Using, Objs, Words, MutexOps,
         CondOps, Waits, Destroy, Create, Ops, Uses
<1>2. RulesInv'
  BY DEF IInv, Wait, goto, mutexOf, condOf, TypeOK, RulesInv, Destroying, Creating,
         Calling
<1>3. CallInv'
  BY DEF IInv, Wait, goto, mutexOf, condOf, TypeOK, CallInv, Using, Getting
<1>4. WordInv'
  <2>1. UNCHANGED <<word, heap>>
    BY DEF Wait, goto, mutexOf, condOf
  <2>2. \A u \in Threads, p \in Objs : Initing(u, p)' <=> Initing(u, p)
    BY DEF IInv, Wait, goto, mutexOf, condOf, TypeOK, Initing
  <2>3. \A p \in Objs : Kept(p)' <=> Kept(p)
    BY DEF IInv, Wait, goto, mutexOf, condOf, TypeOK, Kept, Destroying
  <2> QED
    BY <2>1, <2>2, <2>3, WordFrame DEF IInv
<1>5. HandleInv'
  BY DEF IInv, Wait, goto, mutexOf, condOf, TypeOK, HandleInv, Got, Using
<1>6. HolderInv'
  BY DEF IInv, Wait, goto, mutexOf, condOf, TypeOK, HolderInv, HandleInv, CallInv, Got,
         Using, Kept, Destroying, Uses, MutexOps, CondOps, Waits, Destroy, Create, Objs
<1>7. QueueInv'
  BY DEF IInv, Wait, goto, mutexOf, condOf, TypeOK, QueueInv
<1> QED
  BY <1>1, <1>2, <1>3, <1>4, <1>5, <1>6, <1>7 DEF IInv

(* A timed wait runs out. *)
LEMMA TimedOutIInv ==
    ASSUME IInv, NEW t \in Threads, TimedOut(t)
    PROVE  IInv'
<1>1. TypeOK'
  BY DEF IInv, TimedOut, goto, condOf, TypeOK, Using, Objs, Words, MutexOps, CondOps,
         Waits, Destroy, Create, Ops, Uses
<1>2. RulesInv'
  BY DEF IInv, TimedOut, goto, condOf, TypeOK, RulesInv, Destroying, Creating, Calling
<1>3. CallInv'
  BY DEF IInv, TimedOut, goto, condOf, TypeOK, CallInv, Using, Getting
<1>4. WordInv'
  <2>1. UNCHANGED <<word, heap>>
    BY DEF TimedOut, goto, condOf
  <2>2. \A u \in Threads, p \in Objs : Initing(u, p)' <=> Initing(u, p)
    BY DEF IInv, TimedOut, goto, condOf, TypeOK, Initing
  <2>3. \A p \in Objs : Kept(p)' <=> Kept(p)
    BY DEF IInv, TimedOut, goto, condOf, TypeOK, Kept, Destroying
  <2> QED
    BY <2>1, <2>2, <2>3, WordFrame DEF IInv
<1>5. HandleInv'
  BY DEF IInv, TimedOut, goto, condOf, TypeOK, HandleInv, Got, Using
<1>6. HolderInv'
  BY DEF IInv, TimedOut, goto, condOf, TypeOK, HolderInv, Kept, Destroying
<1>7. QueueInv'
  BY DEF IInv, TimedOut, goto, condOf, TypeOK, QueueInv
<1> QED
  BY <1>1, <1>2, <1>3, <1>4, <1>5, <1>6, <1>7 DEF IInv

(* A waiter finds itself signalled. *)
LEMMA WokenIInv ==
    ASSUME IInv, NEW t \in Threads, Woken(t)
    PROVE  IInv'
<1>1. TypeOK'
  BY DEF IInv, Woken, goto, condOf, TypeOK, Using
<1>2. RulesInv'
  BY DEF IInv, Woken, goto, condOf, TypeOK, RulesInv, Destroying, Creating, Calling
<1>3. CallInv'
  BY DEF IInv, Woken, goto, condOf, TypeOK, CallInv, Using, Getting
<1>4. WordInv'
  <2>1. UNCHANGED <<word, heap>>
    BY DEF Woken, goto, condOf
  <2>2. \A u \in Threads, p \in Objs : Initing(u, p)' <=> Initing(u, p)
    BY DEF IInv, Woken, goto, condOf, TypeOK, Initing
  <2>3. \A p \in Objs : Kept(p)' <=> Kept(p)
    BY DEF IInv, Woken, goto, condOf, TypeOK, Kept, Destroying
  <2> QED
    BY <2>1, <2>2, <2>3, WordFrame DEF IInv
<1>5. HandleInv'
  BY DEF IInv, Woken, goto, condOf, TypeOK, HandleInv, Got, Using
<1>6. HolderInv'
  BY DEF IInv, Woken, goto, condOf, TypeOK, HolderInv, Kept, Destroying
<1>7. QueueInv'
  BY DEF IInv, Woken, goto, condOf, TypeOK, QueueInv
<1> QED
  BY <1>1, <1>2, <1>3, <1>4, <1>5, <1>6, <1>7 DEF IInv

(* A waiter takes the mutex again. *)
LEMMA RelockIInv ==
    ASSUME IInv, NEW t \in Threads, Relock(t)
    PROVE  IInv'
<1>1. TypeOK'
  BY DEF IInv, Relock, TakeMutex, Return, goto, mutexOf, TypeOK, Using, Objs, Words,
         MutexOps, CondOps, Waits, Destroy, Create, Ops, Uses
<1>2. RulesInv'
  BY DEF IInv, Relock, TakeMutex, Return, goto, mutexOf, TypeOK, RulesInv, Destroying,
         Creating, Calling
<1>3. CallInv'
  BY DEF IInv, Relock, TakeMutex, Return, goto, mutexOf, TypeOK, CallInv, Using, Getting
<1>4. WordInv'
  <2>1. UNCHANGED <<word, heap>>
    BY DEF Relock, TakeMutex, Return, goto, mutexOf
  <2>2. \A u \in Threads, p \in Objs : Initing(u, p)' <=> Initing(u, p)
    BY DEF IInv, Relock, TakeMutex, Return, goto, mutexOf, TypeOK, Initing
  <2>3. \A p \in Objs : Kept(p)' <=> Kept(p)
    <3>1. UNCHANGED alive /\ \A u \in Threads, p \in Objs : Destroying(u, p)' <=> Destroying(u, p)
      BY DEF IInv, Relock, TakeMutex, Return, goto, mutexOf, TypeOK, CallInv,
             Destroying, Destroy, Objs, Waits
    <3> QED
      BY <3>1 DEF Kept
  <2> QED
    BY <2>1, <2>2, <2>3, WordFrame DEF IInv
<1>5. HandleInv'
  BY DEF IInv, Relock, TakeMutex, Return, goto, mutexOf, TypeOK, HandleInv, CallInv,
         Got, Using, Getting
<1>6. HolderInv'
  BY NoThreadAssumption, WordsAssumption
     DEF IInv, Relock, TakeMutex, Return, goto, mutexOf, TypeOK, HolderInv, HandleInv,
         CallInv, RulesInv, Got, Using, Kept, Destroying, Creating, Calling, Uses,
         MutexOps, CondOps, Waits, Destroy, Create, Objs
<1>7. QueueInv'
  BY DEF IInv, Relock, TakeMutex, Return, goto, mutexOf, TypeOK, QueueInv
<1> QED
  BY <1>1, <1>2, <1>3, <1>4, <1>5, <1>6, <1>7 DEF IInv

(* ABT_cond_signal. *)
LEMMA SignalIInv ==
    ASSUME IInv, NEW t \in Threads, Signal(t)
    PROVE  IInv'
<1>1. TypeOK'
  BY DEF IInv, Signal, Return, goto, condOf, TypeOK, Using, Objs, Words, MutexOps,
         CondOps, Waits, Destroy, Create, Ops, Uses
<1>2. RulesInv'
  BY DEF IInv, Signal, Return, goto, condOf, TypeOK, RulesInv, Destroying, Creating,
         Calling
<1>3. CallInv'
  BY DEF IInv, Signal, Return, goto, condOf, TypeOK, CallInv, Using, Getting
<1>4. WordInv'
  <2>1. UNCHANGED <<word, heap>>
    BY DEF Signal, Return, goto, condOf
  <2>2. \A u \in Threads, p \in Objs : Initing(u, p)' <=> Initing(u, p)
    BY DEF IInv, Signal, Return, goto, condOf, TypeOK, Initing
  <2>3. \A p \in Objs : Kept(p)' <=> Kept(p)
    BY DEF IInv, Signal, Return, goto, condOf, TypeOK, Kept, Destroying, Destroy,
           Create, Objs
  <2> QED
    BY <2>1, <2>2, <2>3, WordFrame DEF IInv
<1>5. HandleInv'
  BY DEF IInv, Signal, Return, goto, condOf, TypeOK, HandleInv, CallInv, Got, Using,
         Getting
<1>6. HolderInv'
  BY DEF IInv, Signal, Return, goto, condOf, TypeOK, HolderInv, Kept, Destroying
<1>7. QueueInv'
  BY DEF IInv, Signal, Return, goto, condOf, TypeOK, QueueInv
<1> QED
  BY <1>1, <1>2, <1>3, <1>4, <1>5, <1>6, <1>7 DEF IInv

(* ABT_cond_broadcast. *)
LEMMA BroadcastIInv ==
    ASSUME IInv, NEW t \in Threads, Broadcast(t)
    PROVE  IInv'
<1>1. TypeOK'
  BY DEF IInv, Broadcast, Return, goto, condOf, TypeOK, Using, Objs, Words, MutexOps,
         CondOps, Waits, Destroy, Create, Ops, Uses
<1>2. RulesInv'
  BY DEF IInv, Broadcast, Return, goto, condOf, TypeOK, RulesInv, Destroying, Creating,
         Calling
<1>3. CallInv'
  BY DEF IInv, Broadcast, Return, goto, condOf, TypeOK, CallInv, Using, Getting
<1>4. WordInv'
  <2>1. UNCHANGED <<word, heap>>
    BY DEF Broadcast, Return, goto, condOf
  <2>2. \A u \in Threads, p \in Objs : Initing(u, p)' <=> Initing(u, p)
    BY DEF IInv, Broadcast, Return, goto, condOf, TypeOK, Initing
  <2>3. \A p \in Objs : Kept(p)' <=> Kept(p)
    BY NoThreadAssumption, WordsAssumption
       DEF IInv, Broadcast, Return, goto, condOf, TypeOK, Kept, Destroying, Destroy,
           Create, Objs
  <2> QED
    BY <2>1, <2>2, <2>3, WordFrame DEF IInv
<1>5. HandleInv'
  BY DEF IInv, Broadcast, Return, goto, condOf, TypeOK, HandleInv, CallInv, Got, Using,
         Getting
<1>6. HolderInv'
  BY DEF IInv, Broadcast, Return, goto, condOf, TypeOK, HolderInv, Kept, Destroying
<1>7. QueueInv'
  BY DEF IInv, Broadcast, Return, goto, condOf, TypeOK, QueueInv
<1> QED
  BY <1>1, <1>2, <1>3, <1>4, <1>5, <1>6, <1>7 DEF IInv

(* The object and its wrap are freed. *)
LEMMA FreeIInv ==
    ASSUME IInv, NEW t \in Threads, Free(t)
    PROVE  IInv'
<1>1. TypeOK'
  BY DEF IInv, Free, Return, goto, TypeOK, Using, Objs, Words, MutexOps, CondOps,
         Waits, Destroy, Create, Ops, Uses
<1>2. RulesInv'
  BY DEF IInv, Free, Return, goto, TypeOK, RulesInv, Destroying, Creating, Calling
<1>3. CallInv'
  BY DEF IInv, Free, Return, goto, TypeOK, CallInv, Using, Getting
<1>4. WordInv'
  <2>0. PICK o \in Objs : o = obj[t]
    BY DEF IInv, TypeOK
  <2>1. /\ o \in Objs /\ pc[t] = "do" /\ op[t] = Destroy[o] /\ word[o] \in Wraps /\ handle[t][o] = word[o]
    BY <2>0 DEF Free, IInv, TypeOK, HandleInv, Got, Using
  <2>2. /\ heap' = [heap EXCEPT ![word[o]] = "free"]
        /\ pc' = [pc EXCEPT ![t] = "idle"]
        /\ op' = [op EXCEPT ![t] = "none"]
        /\ obj' = [obj EXCEPT ![t] = "mutex"]
        /\ UNCHANGED <<word, alive>>
    BY <2>0, <2>1 DEF Free, Return, goto
  <2>3. \A u \in Threads, p \in Objs : Initing(u, p)' <=> Initing(u, p)
    BY <2>1, <2>2 DEF IInv, TypeOK, Initing
  <2>4. \A u \in Threads, p \in Objs : Destroying(u, p)' <=> Destroying(u, p) /\ u # t
    BY <2>1, <2>2 DEF IInv, TypeOK, Destroying
  <2>5. \A p \in Objs : Destroying(t, p) <=> p = o
    BY <2>1 DEF Destroying, Destroy, Objs
  <2>6. \A p \in Objs : p # o => (Kept(p)' <=> Kept(p))
    BY <2>2, <2>4, <2>5 DEF Kept
  <2>7. ~Kept(o)' /\ Kept(o)
    <3>1. Destroying(t, o)
      BY <2>1, <2>5
    <3>2. ~alive[o] /\ \A u \in Threads : Destroying(u, o) => u = t
      BY <2>1, <3>1 DEF IInv, RulesInv
    <3> QED
      BY <2>1, <2>2, <2>4, <3>1, <3>2 DEF Kept
  <2>8. ASSUME NEW p \in Objs
        PROVE  /\ word'[p] = Busy <=> \E u \in Threads : Initing(u, p)'
               /\ \A u, v \in Threads : Initing(u, p)' /\ Initing(v, p)' => u = v
               /\ \A w \in Wraps : heap'[w] = p <=> Kept(p)' /\ word'[p] = w
               /\ Kept(p)' \/ word'[p] \in Wraps
    <3>1. "free" \notin Objs
      BY DEF Objs
    <3>2. \A w \in Wraps : heap'[w] = IF w = word[o] THEN "free" ELSE heap[w]
      BY <2>1, <2>2 DEF IInv, TypeOK
    <3>3. heap[word[o]] = o
      BY <2>1, <2>7 DEF IInv, WordInv
    <3>4. CASE p = o
      <4>1. /\ word[o] = Busy <=> \E u \in Threads : Initing(u, o)
            /\ \A u, v \in Threads : Initing(u, o) /\ Initing(v, o) => u = v
            /\ \A w \in Wraps : heap[w] = o <=> Kept(o) /\ word[o] = w
        BY <2>1 DEF IInv, WordInv
      <4> QED
        BY <2>1, <2>2, <2>3, <2>7, <3>1, <3>2, <3>4, <4>1
    <3>5. CASE p # o
      BY <2>1, <2>2, <2>3, <2>6, <3>1, <3>2, <3>3, <3>5 DEF IInv, WordInv
    <3> QED
      BY <3>4, <3>5
  <2> QED
    BY <2>8 DEF WordInv
<1>5. HandleInv'
  BY DEF IInv, Free, Return, goto, TypeOK, HandleInv, CallInv, Got, Using, Getting
<1>6. HolderInv'
  BY DEF IInv, Free, Return, goto, TypeOK, HolderInv, Kept, Destroying
<1>7. QueueInv'
  BY DEF IInv, Free, Return, goto, TypeOK, QueueInv
<1> QED
  BY <1>1, <1>2, <1>3, <1>4, <1>5, <1>6, <1>7 DEF IInv

-----------------------------------------------------------------------------
(* The invariant.                                                           *)

(* Two statically initialised objects nobody has used yet. *)
LEMMA InitIInv == Init => IInv
<1> SUFFICES ASSUME Init PROVE IInv
  OBVIOUS
<1>1. TypeOK
  BY DEF Init, TypeOK, Objs, Words, Ops, MutexOps
<1>2. RulesInv /\ CallInv /\ HandleInv /\ QueueInv
  BY DEF Init, RulesInv, CallInv, HandleInv, QueueInv, Calling, Destroying, Creating, Got,
         Using, Getting, Objs
<1>3. WordInv /\ HolderInv
  BY WordsAssumption DEF Init, WordInv, HolderInv, Initing, Kept, Objs
<1> QED
  BY <1>1, <1>2, <1>3 DEF IInv

(* A thread's step is one of the actions. *)
LEMMA NextIInv == ASSUME IInv, [Next]_vars PROVE IInv'
<1>1. CASE UNCHANGED vars
  BY <1>1 DEF vars, IInv, TypeOK, RulesInv, CallInv, WordInv, HandleInv, HolderInv, QueueInv,
              Calling, Destroying, Creating, Initing, Kept, Got
<1>2. ASSUME NEW t \in Threads, Enter(t) PROVE IInv'
  BY <1>2, CallIInv, CallDestroyIInv, CallInitIInv DEF Enter
<1>3. ASSUME NEW t \in Threads, Get(t) PROVE IInv'
  BY <1>3, TestIInv, CasIInv, NewIInv, SpinIInv DEF Get
<1>4. ASSUME NEW t \in Threads, Do(t) PROVE IInv'
  BY <1>4, LockIInv, TrylockBusyIInv, UnlockIInv, WaitIInv, TimedOutIInv, WokenIInv,
     RelockIInv, SignalIInv, BroadcastIInv, FreeIInv DEF Do
<1> QED
  BY <1>1, <1>2, <1>3, <1>4 DEF Next

(* The inductive invariant holds of every run, for any number of threads. *)
THEOREM Invariance == Spec => []IInv
BY InitIInv, NextIInv, PTL DEF Spec

(* Every variable keeps its type. *)
THEOREM TypeCorrect == Spec => []TypeOK
<1>1. IInv => TypeOK
  BY DEF IInv
<1> QED
  BY <1>1, Invariance, PTL

-----------------------------------------------------------------------------
(* The safety properties.                                                   *)

(* Both owners are the one holder Argobots records for the one wrap. *)
LEMMA OneOwner == IInv => MutualExclusion
BY DEF IInv, HolderInv, MutualExclusion, TypeOK

(* However the creation was raced for, the mutex has one owner. *)
THEOREM MutexIsExclusive == Spec => []MutualExclusion
BY OneOwner, Invariance, PTL

(* A call that is past its getters uses the wrap its object keeps. *)
LEMMA GotLive == IInv => HandlesLive
<1> SUFFICES ASSUME IInv, NEW t \in Threads, pc[t] \in Using, NEW o \in Uses(op[t])
             PROVE  handle[t][o] = word[o] /\ word[o] \in Wraps /\ heap[word[o]] = o
  BY DEF HandlesLive
<1>1. o \in Objs
  BY DEF Uses, Objs
<1>2. word[o] \in Wraps /\ handle[t][o] = word[o]
  BY <1>1 DEF IInv, HandleInv, Got
<1>3. Kept(o)
  BY <1>1 DEF IInv, RulesInv, Calling, Kept, Using
<1> QED
  BY <1>1, <1>2, <1>3 DEF IInv, WordInv

(* No call dereferences a freed wrap, a second wrap or the sentinel. *)
THEOREM HandlesAreLive == Spec => []HandlesLive
BY GotLive, Invariance, PTL

(* A race to create never leaves a second wrap allocated. *)
THEOREM NothingLeaks == Spec => []NoLeak
<1>1. IInv => NoLeak
  BY DEF IInv, WordInv, NoLeak
<1> QED
  BY <1>1, Invariance, PTL

-----------------------------------------------------------------------------
(* The refinement of Monitor.                                               *)

(* All sleepers are in the queue of the one condition variable there is. *)
LEMMA Asleep ==
    ASSUME IInv
    PROVE  /\ \A t \in Threads : pc[t] \in Using /\ "cond" \in Uses(op[t]) =>
                 condOf(t) = word["cond"] /\ word["cond"] \in Wraps
           /\ \A t \in Threads : pc[t] = "queued" =>
                 condOf(t) = word["cond"] /\ word["cond"] \in Wraps
           /\ \A t \in Threads : pc[t] \in Using /\ "cond" \in Uses(op[t]) =>
                 heap[word["cond"]] = "cond"
<1>1. \A t \in Threads : pc[t] \in Using /\ "cond" \in Uses(op[t]) =>
         condOf(t) = word["cond"] /\ word["cond"] \in Wraps /\ heap[word["cond"]] = "cond"
  BY GotLive DEF HandlesLive, condOf
<1>2. \A t \in Threads : pc[t] = "queued" => pc[t] \in Using /\ "cond" \in Uses(op[t])
  BY DEF IInv, CallInv, Using, Uses, CondOps, Waits
<1> QED
  BY <1>1, <1>2

(* Steps outside the condition variable leave the sleepers asleep. *)
LEMMA SleepOn ==
    ASSUME IInv, NEW t \in Threads, UNCHANGED queue,
           pc[t] # "queued", pc'[t] # "queued",
           \A u \in Threads \ {t} : pc'[u] = pc[u] /\ handle'[u] = handle[u]
    PROVE  waiting' = waiting
BY DEF waiting, condOf

(* A new wrap is not the one anybody sleeps in. *)
LEMMA NewWaiting ==
    ASSUME IInv, NEW t \in Threads, New(t)
    PROVE  waiting' = waiting
<1>1. PICK w \in Wraps : heap[w] = "free" /\ queue' = [queue EXCEPT ![w] = {}]
  BY DEF New
<1>2. /\ pc[t] # "queued" /\ pc'[t] # "queued"
      /\ \A u \in Threads \ {t} : pc'[u] = pc[u] /\ handle'[u] = handle[u]
  BY DEF IInv, TypeOK, New, Return, goto
<1>3. ASSUME NEW u \in Threads, pc[u] = "queued" PROVE condOf(u) \in Wraps /\ condOf(u) # w
  <2>1. pc[u] \in Using /\ "cond" \in Uses(op[u])
    BY <1>3 DEF IInv, CallInv, Using, Uses, CondOps, Waits
  <2> QED
    BY <1>1, <1>3, <2>1, Asleep
<1>4. \A u \in Threads : pc[u] = "queued" => queue'[condOf(u)] = queue[condOf(u)]
  BY <1>1, <1>3 DEF IInv, TypeOK
<1> QED
  BY <1>2, <1>4 DEF waiting, condOf

(* ABT_cond_wait puts the caller to sleep and wakes nobody. *)
LEMMA WaitWaiting ==
    ASSUME IInv, NEW t \in Threads, Wait(t)
    PROVE  waiting' = waiting \cup {t}
<1>1. /\ pc[t] = "do" /\ op[t] \in Waits
      /\ queue' = [queue EXCEPT ![condOf(t)] = queue[condOf(t)] \cup {t}]
      /\ pc' = [pc EXCEPT ![t] = "queued"] /\ UNCHANGED handle
  BY DEF Wait, goto
<1>2. condOf(t) = word["cond"] /\ word["cond"] \in Wraps
  BY <1>1, Asleep DEF Using, Uses, CondOps, Waits
<1>3. queue'[word["cond"]] = queue[word["cond"]] \cup {t}
  BY <1>1, <1>2 DEF IInv, TypeOK
<1>4. \A u \in Threads : pc'[u] = "queued" <=> pc[u] = "queued" \/ u = t
  BY <1>1 DEF IInv, TypeOK
<1>5. \A u \in Threads : pc'[u] = "queued" => condOf(u)' = word["cond"]
  BY <1>1, <1>2, <1>4, Asleep DEF condOf
<1>6. waiting' = {u \in Threads : pc'[u] = "queued" /\ u \in queue'[word["cond"]]}
  BY <1>5 DEF waiting
<1>7. waiting = {u \in Threads : pc[u] = "queued" /\ u \in queue[word["cond"]]}
  BY Asleep DEF waiting
<1> QED
  BY <1>3, <1>4, <1>6, <1>7

(* Removing threads from the queue wakes exactly these. *)
LEMMA Wakes ==
    ASSUME IInv, NEW t \in Threads, pc[t] \in Using, "cond" \in Uses(op[t]),
           NEW S \in SUBSET Threads,
           queue' = [queue EXCEPT ![condOf(t)] = queue[condOf(t)] \ S],
           \A u \in Threads : pc[u] = "queued" /\ u \notin S => pc'[u] = "queued",
           \A u \in Threads : pc'[u] = "queued" => pc[u] = "queued" /\ handle'[u] = handle[u]
    PROVE  waiting' = waiting \ S
<1>1. condOf(t) = word["cond"] /\ word["cond"] \in Wraps
  BY Asleep
<1>2. queue'[word["cond"]] = queue[word["cond"]] \ S
  BY <1>1 DEF IInv, TypeOK
<1>3. \A u \in Threads : pc'[u] = "queued" => condOf(u)' = word["cond"]
  BY <1>1, Asleep DEF condOf
<1> QED
  BY <1>2, <1>3, Asleep DEF waiting

(* pthread_cond_signal takes one sleeper out of those waiting, if there is one. *)
LEMMA SignalWaiting ==
    ASSUME IInv, NEW t \in Threads, Signal(t)
    PROVE  \/ waiting = {} /\ waiting' = {}
           \/ \E u \in waiting : waiting' = waiting \ {u}
<1>1. /\ pc[t] = "do" /\ op[t] = "signal"
      /\ pc' = [pc EXCEPT ![t] = "idle"]
      /\ \A u \in Threads \ {t} : handle'[u] = handle[u]
  BY DEF Signal, Return, goto, IInv, TypeOK
<1>2. pc[t] \in Using /\ "cond" \in Uses(op[t])
  BY <1>1 DEF Using, Uses, CondOps, MutexOps
<1>3. condOf(t) = word["cond"] /\ word["cond"] \in Wraps /\ heap[word["cond"]] = "cond"
  BY <1>2, Asleep
<1>4. waiting = queue[word["cond"]]
  <2>1. \A u \in queue[word["cond"]] : u \in Threads
    BY <1>3 DEF IInv, TypeOK
  <2> QED
    BY <1>3, <2>1, Asleep DEF IInv, QueueInv, waiting, condOf
<1>5. CASE queue[condOf(t)] = {}
  <2>1. waiting' = waiting
    BY <1>1, <1>5, SleepOn DEF Signal, IInv, TypeOK
  <2> QED
    BY <1>3, <1>4, <1>5, <2>1
<1>6. CASE queue[condOf(t)] # {}
  <2>1. PICK u \in queue[condOf(t)] :
           queue' = [queue EXCEPT ![condOf(t)] = queue[condOf(t)] \ {u}]
    BY <1>6 DEF Signal
  <2>2. u \in Threads
    BY <1>3, <2>1 DEF IInv, TypeOK
  <2>3. waiting' = waiting \ {u}
    <3>1. \A v \in Threads : pc'[v] = "queued" <=> pc[v] = "queued"
      BY <1>1 DEF IInv, TypeOK
    <3>2. \A v \in Threads : pc'[v] = "queued" => handle'[v] = handle[v]
      BY <1>1 DEF IInv, TypeOK
    <3>3. {u} \in SUBSET Threads
      BY <2>2
    <3> QED
      BY <1>2, <2>1, <3>1, <3>2, <3>3, Wakes
  <2> QED
    BY <1>3, <1>4, <2>1, <2>3
<1> QED
  BY <1>5, <1>6

(* pthread_cond_broadcast leaves nobody waiting. *)
LEMMA BroadcastWaiting ==
    ASSUME IInv, NEW t \in Threads, Broadcast(t)
    PROVE  waiting' = {}
<1>1. /\ pc[t] = "do" /\ op[t] = "broadcast"
      /\ pc' = [pc EXCEPT ![t] = "idle"]
      /\ queue' = [queue EXCEPT ![condOf(t)] = {}]
      /\ \A u \in Threads \ {t} : handle'[u] = handle[u]
  BY DEF Broadcast, Return, goto, IInv, TypeOK
<1>2. pc[t] \in Using /\ "cond" \in Uses(op[t])
  BY <1>1 DEF Using, Uses, CondOps, MutexOps
<1>3. condOf(t) = word["cond"] /\ word["cond"] \in Wraps
  BY <1>2, Asleep
<1>4. \A u \in Threads : pc'[u] = "queued" => condOf(u)' = word["cond"]
  BY <1>1, Asleep DEF IInv, TypeOK, condOf
<1> QED
  BY <1>1, <1>3, <1>4 DEF IInv, TypeOK, waiting

(* What each action is to the monitor. *)
LEMMA RefinementStep ==
    ASSUME IInv, [Next]_vars
    PROVE  [Abstract!Next]_(Abstract!vars)
<1>1. ASSUME NEW t \in Threads, Enter(t) PROVE UNCHANGED Abstract!vars
  <2>1. /\ UNCHANGED <<held, queue>>
        /\ pc[t] = "idle" /\ pc'[t] # "queued"
        /\ \A u \in Threads \ {t} : pc'[u] = pc[u] /\ handle'[u] = handle[u]
    BY <1>1 DEF Enter, Call, CallDestroy, CallInit, StartGet, goto, IInv, TypeOK
  <2> QED
    BY <2>1, SleepOn DEF Abstract!vars
<1>2. ASSUME NEW t \in Threads, Get(t) PROVE UNCHANGED Abstract!vars
  <2>1. CASE New(t)
    BY <2>1, NewWaiting DEF New, Abstract!vars
  <2>2. CASE Test(t) \/ Cas(t) \/ Spin(t)
    <3>1. /\ UNCHANGED <<held, queue>>
          /\ pc[t] # "queued" /\ pc'[t] # "queued"
          /\ \A u \in Threads \ {t} : pc'[u] = pc[u] /\ handle'[u] = handle[u]
      BY <2>2 DEF Test, Cas, Spin, StartGet, goto, IInv, TypeOK
    <3> QED
      BY <3>1, SleepOn DEF Abstract!vars
  <2> QED
    BY <1>2, <2>1, <2>2 DEF Get
<1>3. ASSUME NEW t \in Threads, Lock(t) \/ Relock(t) PROVE Abstract!Next
  <2>1. /\ held' = held \cup {t} /\ UNCHANGED queue
        /\ pc[t] \in {"do", "relock"} /\ pc'[t] # "queued"
        /\ holder[mutexOf(t)] = NoThread
        /\ \A u \in Threads \ {t} : pc'[u] = pc[u] /\ handle'[u] = handle[u]
    BY <1>3 DEF Lock, Relock, TakeMutex, Return, goto, IInv, TypeOK
  <2>2. "mutex" \in Uses(op[t])
    BY <1>3 DEF Lock, Relock, IInv, CallInv, Uses, MutexOps, Waits
  <2>3. mutexOf(t) = word["mutex"]
    BY <2>1, <2>2, GotLive DEF HandlesLive, Using, mutexOf
  <2>4. held = {}
    BY <2>1, <2>3, NoThreadAssumption DEF IInv, HolderInv, TypeOK
  <2>5. waiting' = waiting
    BY <2>1, SleepOn
  <2>6. t \notin waiting
    BY <2>1 DEF waiting
  <2> QED
    BY <2>1, <2>4, <2>5, <2>6 DEF Abstract!Next, Abstract!Acquire
<1>4. ASSUME NEW t \in Threads, TrylockBusy(t) \/ Free(t) PROVE UNCHANGED Abstract!vars
  <2>1. /\ UNCHANGED <<held, queue>>
        /\ pc[t] # "queued" /\ pc'[t] # "queued"
        /\ \A u \in Threads \ {t} : pc'[u] = pc[u] /\ handle'[u] = handle[u]
    BY <1>4 DEF TrylockBusy, Free, Return, goto, IInv, TypeOK
  <2> QED
    BY <2>1, SleepOn DEF Abstract!vars
<1>5. ASSUME NEW t \in Threads, Unlock(t) PROVE Abstract!Next
  <2>1. /\ held' = held \ {t} /\ UNCHANGED queue
        /\ pc[t] = "do" /\ op[t] = "unlock" /\ pc'[t] # "queued"
        /\ \A u \in Threads \ {t} : pc'[u] = pc[u] /\ handle'[u] = handle[u]
    BY <1>5 DEF Unlock, Return, goto, IInv, TypeOK
  <2>2. held = {t}
    BY <2>1, OneOwner DEF IInv, CallInv, MutualExclusion
  <2>3. waiting' = waiting
    BY <2>1, SleepOn
  <2> QED
    BY <2>1, <2>2, <2>3 DEF Abstract!Next, Abstract!Release
<1>6. ASSUME NEW t \in Threads, Wait(t) PROVE Abstract!Next
  <2>1. held' = held \ {t} /\ pc[t] = "do" /\ op[t] \in Waits
    BY <1>6 DEF Wait
  <2>2. held = {t}
    BY <2>1, OneOwner DEF IInv, CallInv, MutualExclusion
  <2>3. waiting' = waiting \cup {t}
    BY <1>6, WaitWaiting
  <2> QED
    BY <2>1, <2>2, <2>3 DEF Abstract!Next, Abstract!Wait
<1>7. ASSUME NEW t \in Threads, TimedOut(t) PROVE Abstract!Next
  <2>1. /\ pc[t] = "queued" /\ op[t] = "timedwait"
        /\ queue' = [queue EXCEPT ![condOf(t)] = queue[condOf(t)] \ {t}]
        /\ pc' = [pc EXCEPT ![t] = "relock"] /\ UNCHANGED <<handle, held>>
    BY <1>7 DEF TimedOut, goto
  <2>2. pc[t] \in Using /\ "cond" \in Uses(op[t]) /\ {t} \in SUBSET Threads
    BY <2>1 DEF Using, Uses, CondOps, MutexOps
  <2>3. \A u \in Threads : pc'[u] = "queued" <=> pc[u] = "queued" /\ u \notin {t}
    BY <2>1 DEF IInv, TypeOK
  <2>4. waiting' = waiting \ {t}
    BY <2>1, <2>2, <2>3, Wakes
  <2> QED
    BY <2>1, <2>4 DEF Abstract!Next, Abstract!Wake
<1>8. ASSUME NEW t \in Threads, Woken(t) PROVE UNCHANGED Abstract!vars
  BY <1>8 DEF Woken, goto, IInv, TypeOK, waiting, condOf, Abstract!vars
<1>9. ASSUME NEW t \in Threads, Signal(t) PROVE [Abstract!Next]_(Abstract!vars)
  <2>1. UNCHANGED held
    BY <1>9 DEF Signal
  <2>2. CASE waiting = {} /\ waiting' = {}
    BY <2>1, <2>2 DEF Abstract!vars
  <2>3. ASSUME NEW u \in waiting, waiting' = waiting \ {u} PROVE Abstract!Next
    <3>1. u \in Threads
      BY DEF waiting
    <3> QED
      BY <2>1, <2>3, <3>1 DEF Abstract!Next, Abstract!Wake
  <2> QED
    BY <1>9, <2>2, <2>3, SignalWaiting
<1>10. ASSUME NEW t \in Threads, Broadcast(t) PROVE Abstract!Next
  <2>1. UNCHANGED held /\ waiting' = waiting \ waiting
    BY <1>10, BroadcastWaiting DEF Broadcast
  <2> QED
    BY <2>1 DEF Abstract!Next, Abstract!Wake
<1>11. CASE UNCHANGED vars
  BY <1>11 DEF vars, waiting, condOf, Abstract!vars
<1> QED
  BY <1>1, <1>2, <1>3, <1>4, <1>5, <1>6, <1>7, <1>8, <1>9, <1>10, <1>11 DEF Next, Do

(* The lazily created mutex and condition variable are one mutex and one      *)
(* condition variable to every thread that uses them.                         *)
THEOREM Refinement == Spec => ImplementsMonitor
<1>1. Init => Abstract!Init
  BY DEF Init, Abstract!Init, waiting
<1> QED
  BY <1>1, RefinementStep, Invariance, PTL DEF Spec, ImplementsMonitor, Abstract!Spec

(* A thread that ends a signal or a broadcast has just done that. *)
LEMMA WakeupStep ==
    ASSUME IInv, [Next]_vars, NEW t \in Threads, pc[t] = "do", pc'[t] = "idle"
    PROVE  /\ op[t] = "broadcast" => waiting' = {}
           /\ op[t] = "signal" /\ waiting # {} => \E u \in waiting : waiting' = waiting \ {u}
<1>1. CASE UNCHANGED vars
  BY <1>1 DEF vars
<1>2. ASSUME NEW u \in Threads, Enter(u) \/ Get(u) PROVE FALSE
  <2>1. pc[u] \notin Using /\ \A v \in Threads \ {u} : pc'[v] = pc[v]
    BY <1>2 DEF Enter, Get, Call, CallDestroy, CallInit, Test, Cas, New, Spin, StartGet,
                Return, goto, IInv, TypeOK, Using
  <2> QED
    BY <2>1 DEF Using
<1>3. ASSUME NEW u \in Threads, Do(u), op[t] \in {"signal", "broadcast"}
      PROVE  Signal(t) \/ Broadcast(t)
  <2>1. \A v \in Threads \ {u} : pc'[v] = pc[v]
    BY <1>3 DEF Do, Lock, TrylockBusy, Unlock, Wait, TimedOut, Woken, Relock, Signal,
                Broadcast, Free, TakeMutex, Return, goto, IInv, TypeOK
  <2>2. u = t
    BY <2>1
  <2> QED
    BY <1>3, <2>2 DEF Do, Lock, TrylockBusy, Unlock, Wait, TimedOut, Woken, Relock,
                      Free, Waits, Destroy, Objs, IInv, TypeOK
<1>4. ASSUME Signal(t) PROVE op[t] = "signal"
  BY <1>4 DEF Signal
<1>5. ASSUME Broadcast(t) PROVE op[t] = "broadcast"
  BY <1>5 DEF Broadcast
<1> QED
  BY <1>1, <1>2, <1>3, <1>4, <1>5, SignalWaiting, BroadcastWaiting DEF Next

(* No wakeup is lost to a second copy of the condition variable. *)
THEOREM WakeupsAreNotLost == Spec => WakeupsReach
<1>1. ASSUME IInv, [Next]_vars
      PROVE  [\A t \in Threads : pc[t] = "do" /\ pc'[t] = "idle" =>
                /\ op[t] = "broadcast" => waiting' = {}
                /\ op[t] = "signal" /\ waiting # {} =>
                     \E u \in waiting : waiting' = waiting \ {u}]_vars
  BY <1>1, WakeupStep
<1> QED
  BY <1>1, Invariance, PTL DEF Spec, WakeupsReach
=============================================================================
