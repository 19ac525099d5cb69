------------------------------ MODULE PthSync -------------------------------
(***************************************************************************)
(* The pthread mutex and condition variable of src/newlib/mylib.c: one     *)
(* word each in the application's memory, which holds 0 (statically        *)
(* initialised), 0xffffffff (being created) or the address of a malloc'd   *)
(* wrap around the Argobots object.  get_abt_mutex and get_abt_cond create *)
(* the wrap at the first call, in whichever thread gets there first.       *)
(*                                                                         *)
(* The Argobots objects are external: a mutex has a holder, a condition    *)
(* variable a set of waiters, and ABT_cond_wait releases and enqueues in   *)
(* one step.  The callers follow POSIX: no relocking, unlock and wait only *)
(* by the owner, destroy only when nobody is using the object, no use      *)
(* between destroy and init.  Recursive mutexes are left out.              *)
(***************************************************************************)
EXTENDS Integers, FiniteSets

CONSTANTS Threads, Wraps, NoThread, Zero, Busy

ASSUME NoThreadAssumption == NoThread \notin Threads
ASSUME WordsAssumption == Zero \notin Wraps /\ Busy \notin Wraps /\ Zero # Busy

Objs == {"mutex", "cond"}
Words == Wraps \cup {Zero, Busy}

MutexOps == {"lock", "trylock", "unlock", "wait", "timedwait"}
CondOps == {"signal", "broadcast", "wait", "timedwait"}
Waits == {"wait", "timedwait"}
Destroy == [mutex |-> "destroy_mutex", cond |-> "destroy_cond"]
Create == [mutex |-> "init_mutex", cond |-> "init_cond"]
Ops == {"none"} \cup MutexOps \cup CondOps \cup {Destroy[o] : o \in Objs} \cup {Create[o] : o \in Objs}

VARIABLES
    word,       \* the first word of the pthread_mutex_t and the pthread_cond_t
    heap,       \* what each wrap is allocated as, or "free"
    holder,     \* Argobots: the thread that holds the mutex in a wrap
    queue,      \* Argobots: the threads waiting on the condition in a wrap
    pc, op, obj, \* per thread: next step, the call, the object it is getting
    handle,     \* per thread: the wraps get_abt_mutex and get_abt_cond returned
    held,       \* the threads whose lock call returned and that did not unlock
    alive       \* per object: initialised and not destroyed, as the callers see it

vars == <<word, heap, holder, queue, pc, op, obj, handle, held, alive>>

Init ==
    /\ word = [o \in Objs |-> Zero]
    /\ heap = [w \in Wraps |-> "free"]
    /\ holder = [w \in Wraps |-> NoThread]
    /\ queue = [w \in Wraps |-> {}]
    /\ pc = [t \in Threads |-> "idle"]
    /\ op = [t \in Threads |-> "none"]
    /\ obj = [t \in Threads |-> "mutex"]
    /\ handle = [t \in Threads |-> [o \in Objs |-> Zero]]
    /\ held = {}
    /\ alive = [o \in Objs |-> TRUE]

goto(t, l) == pc' = [pc EXCEPT ![t] = l]

(* The call returns and its locals are gone. *)
Return(t) ==
    /\ goto(t, "idle")
    /\ op' = [op EXCEPT ![t] = "none"]
    /\ obj' = [obj EXCEPT ![t] = "mutex"]
    /\ handle' = [handle EXCEPT ![t] = [o \in Objs |-> Zero]]

-----------------------------------------------------------------------------
(* The calls.                                                               *)

Uses(a) == (IF a \in MutexOps THEN {"mutex"} ELSE {}) \cup (IF a \in CondOps THEN {"cond"} ELSE {})

(* get_abt_mutex tests the word first, get_abt_cond starts with the CAS. *)
StartGet(t, o) ==
    /\ obj' = [obj EXCEPT ![t] = o]
    /\ goto(t, IF o = "mutex" THEN "test" ELSE "cas")

Call(t, a) ==
    /\ pc[t] = "idle"
    /\ a \in MutexOps \cup CondOps
    /\ \A o \in Uses(a) : alive[o]
    /\ a \in {"lock", "trylock"} => t \notin held
    /\ a \in {"unlock"} \cup Waits => t \in held
    /\ op' = [op EXCEPT ![t] = a]
    /\ StartGet(t, IF a \in CondOps THEN "cond" ELSE "mutex")
    /\ UNCHANGED <<word, heap, holder, queue, handle, held, alive>>

CallDestroy(t, o) ==
    /\ pc[t] = "idle"
    /\ alive[o]
    /\ \A u \in Threads : pc[u] # "idle" => o \notin Uses(op[u])
    /\ o = "mutex" => held = {}
    /\ alive' = [alive EXCEPT ![o] = FALSE]
    /\ op' = [op EXCEPT ![t] = Destroy[o]]
    /\ StartGet(t, o)
    /\ UNCHANGED <<word, heap, holder, queue, handle, held>>

CallInit(t, o) ==
    /\ pc[t] = "idle"
    /\ ~alive[o]
    /\ \A u \in Threads : pc[u] # "idle" => op[u] \notin {Destroy[o], Create[o]}
    /\ op' = [op EXCEPT ![t] = Create[o]]
    /\ obj' = [obj EXCEPT ![t] = o]
    /\ goto(t, "init")
    /\ UNCHANGED <<word, heap, holder, queue, handle, held, alive>>

-----------------------------------------------------------------------------
(* get_abt_mutex, get_abt_cond, and pthread_mutex_init, pthread_cond_init.  *)

Test(t) ==
    /\ pc[t] = "test"
    /\ goto(t, IF word[obj[t]] = Zero THEN "cas" ELSE "spin")
    /\ UNCHANGED <<word, heap, holder, queue, op, obj, handle, held, alive>>

(* Mutant of Cas: the comparison is lost, every thread believes it won. *)
CasBlind(t) ==
    /\ pc[t] = "cas"
    /\ word' = [word EXCEPT ![obj[t]] = Busy]
    /\ goto(t, "init")
    /\ UNCHANGED <<heap, holder, queue, op, obj, handle, held, alive>>

Cas(t) ==
    /\ pc[t] = "cas"
    /\ IF word[obj[t]] = Zero
       THEN word' = [word EXCEPT ![obj[t]] = Busy] /\ goto(t, "init")
       ELSE UNCHANGED word /\ goto(t, "spin")
    /\ UNCHANGED <<heap, holder, queue, op, obj, handle, held, alive>>

(* Mutant of New: the lazy path creates the wrap and does not publish it. *)
NewUnpublished(t) ==
    LET o == obj[t]
    IN  /\ pc[t] = "init"
        /\ \E w \in Wraps :
              /\ heap[w] = "free"
              /\ heap' = [heap EXCEPT ![w] = o]
              /\ holder' = [holder EXCEPT ![w] = NoThread]
              /\ queue' = [queue EXCEPT ![w] = {}]
              /\ word' = IF op[t] = Create[o] THEN [word EXCEPT ![o] = w] ELSE word
        /\ IF op[t] = Create[o]
           THEN alive' = [alive EXCEPT ![o] = TRUE] /\ Return(t)
           ELSE goto(t, "spin") /\ UNCHANGED <<alive, op, obj, handle>>
        /\ UNCHANGED held

(* malloc returns a free wrap, perhaps one that was in use before; storing   *)
(* its address in the word is what ends the other threads' wait.             *)
New(t) ==
    LET o == obj[t]
    IN  /\ pc[t] = "init"
        /\ \E w \in Wraps :
              /\ heap[w] = "free"
              /\ heap' = [heap EXCEPT ![w] = o]
              /\ holder' = [holder EXCEPT ![w] = NoThread]
              /\ queue' = [queue EXCEPT ![w] = {}]
              /\ word' = [word EXCEPT ![o] = w]
        /\ IF op[t] = Create[o]
           THEN alive' = [alive EXCEPT ![o] = TRUE] /\ Return(t)
           ELSE goto(t, "spin") /\ UNCHANGED <<alive, op, obj, handle>>
        /\ UNCHANGED held

(* Mutant of Spin: the word is read once, before the wait. *)
SpinStale(t) ==
    LET o == obj[t]
    IN  /\ pc[t] = "spin"
        /\ handle' = [handle EXCEPT ![t][o] = word[o]]
        /\ IF o = "cond" /\ op[t] \in Waits
           THEN StartGet(t, "mutex")
           ELSE goto(t, "do") /\ UNCHANGED obj
        /\ UNCHANGED <<word, heap, holder, queue, op, held, alive>>

(* While the word is 0xffffffff the thread yields. *)
Spin(t) ==
    LET o == obj[t]
    IN  /\ pc[t] = "spin"
        /\ word[o] # Busy
        /\ handle' = [handle EXCEPT ![t][o] = word[o]]
        /\ IF o = "cond" /\ op[t] \in Waits
           THEN StartGet(t, "mutex")
           ELSE goto(t, "do") /\ UNCHANGED obj
        /\ UNCHANGED <<word, heap, holder, queue, op, held, alive>>

-----------------------------------------------------------------------------
(* The Argobots call on the object in the wrap.                             *)

mutexOf(t) == handle[t]["mutex"]
condOf(t) == handle[t]["cond"]

TakeMutex(t) ==
    /\ holder[mutexOf(t)] = NoThread
    /\ holder' = [holder EXCEPT ![mutexOf(t)] = t]
    /\ held' = held \cup {t}
    /\ Return(t)
    /\ UNCHANGED <<word, heap, queue, alive>>

Lock(t) ==
    /\ pc[t] = "do"
    /\ op[t] \in {"lock", "trylock"}
    /\ TakeMutex(t)

TrylockBusy(t) ==
    /\ pc[t] = "do"
    /\ op[t] = "trylock"
    /\ holder[mutexOf(t)] # NoThread
    /\ Return(t)
    /\ UNCHANGED <<word, heap, holder, queue, held, alive>>

Unlock(t) ==
    /\ pc[t] = "do"
    /\ op[t] = "unlock"
    /\ holder' = [holder EXCEPT ![mutexOf(t)] = NoThread]
    /\ held' = held \ {t}
    /\ Return(t)
    /\ UNCHANGED <<word, heap, queue, alive>>

Wait(t) ==
    /\ pc[t] = "do"
    /\ op[t] \in Waits
    /\ holder' = [holder EXCEPT ![mutexOf(t)] = NoThread]
    /\ queue' = [queue EXCEPT ![condOf(t)] = @ \cup {t}]
    /\ held' = held \ {t}
    /\ goto(t, "queued")
    /\ UNCHANGED <<word, heap, op, obj, handle, alive>>

TimedOut(t) ==
    /\ pc[t] = "queued"
    /\ op[t] = "timedwait"
    /\ t \in queue[condOf(t)]
    /\ queue' = [queue EXCEPT ![condOf(t)] = @ \ {t}]
    /\ goto(t, "relock")
    /\ UNCHANGED <<word, heap, holder, op, obj, handle, held, alive>>

Woken(t) ==
    /\ pc[t] = "queued"
    /\ t \notin queue[condOf(t)]
    /\ goto(t, "relock")
    /\ UNCHANGED <<word, heap, holder, queue, op, obj, handle, held, alive>>

Relock(t) ==
    /\ pc[t] = "relock"
    /\ TakeMutex(t)

Signal(t) ==
    LET q == queue[condOf(t)]
    IN  /\ pc[t] = "do"
        /\ op[t] = "signal"
        /\ IF q = {} THEN UNCHANGED queue
           ELSE \E u \in q : queue' = [queue EXCEPT ![condOf(t)] = q \ {u}]
        /\ Return(t)
        /\ UNCHANGED <<word, heap, holder, held, alive>>

Broadcast(t) ==
    /\ pc[t] = "do"
    /\ op[t] = "broadcast"
    /\ queue' = [queue EXCEPT ![condOf(t)] = {}]
    /\ Return(t)
    /\ UNCHANGED <<word, heap, holder, held, alive>>

(* The wrap is freed; the word keeps its address. *)
Free(t) ==
    LET o == obj[t]
    IN  /\ pc[t] = "do"
        /\ op[t] = Destroy[o]
        /\ heap' = [heap EXCEPT ![handle[t][o]] = "free"]
        /\ Return(t)
        /\ UNCHANGED <<word, holder, queue, held, alive>>

-----------------------------------------------------------------------------

Enter(t) ==
    \/ \E a \in Ops : Call(t, a)
    \/ \E o \in Objs : CallDestroy(t, o) \/ CallInit(t, o)

Get(t) == Test(t) \/ Cas(t) \/ New(t) \/ Spin(t)

Do(t) ==
    \/ Lock(t) \/ TrylockBusy(t) \/ Unlock(t)
    \/ Wait(t) \/ TimedOut(t) \/ Woken(t) \/ Relock(t)
    \/ Signal(t) \/ Broadcast(t) \/ Free(t)

Next == \E t \in Threads : Enter(t) \/ Get(t) \/ Do(t)

Spec == Init /\ [][Next]_vars

(* A thread inside the getters is scheduled again: they only ever yield. *)
Fairness == \A t \in Threads : WF_vars(Get(t))

FairSpec == Spec /\ Fairness

-----------------------------------------------------------------------------
(* Properties.                                                              *)

Using == {"do", "queued", "relock"}

(* Every variable keeps its type. *)
TypeOK ==
    /\ word \in [Objs -> Words]
    /\ heap \in [Wraps -> Objs \cup {"free"}]
    /\ holder \in [Wraps -> Threads \cup {NoThread}]
    /\ queue \in [Wraps -> SUBSET Threads]
    /\ pc \in [Threads -> Using \cup {"idle", "test", "cas", "init", "spin"}]
    /\ op \in [Threads -> Ops]
    /\ obj \in [Threads -> Objs]
    /\ handle \in [Threads -> [Objs -> Words]]
    /\ held \subseteq Threads
    /\ alive \in [Objs -> BOOLEAN]

(* Two threads never both own the mutex, however the first calls on a         *)
(* statically initialised mutex raced to create it.                           *)
MutualExclusion == \A t, u \in held : t = u

(* What a call dereferences is allocated, of the right kind, and the object   *)
(* every other call uses: never a freed wrap, a second wrap or the sentinel.  *)
HandlesLive ==
    \A t \in Threads : pc[t] \in Using =>
        \A o \in Uses(op[t]) : handle[t][o] = word[o] /\ word[o] \in Wraps /\ heap[word[o]] = o

(* A race to create does not leak: an object has at most one wrap, and none   *)
(* is left allocated once it was destroyed.                                   *)
NoLeak ==
    \A o \in Objs : \A v, w \in Wraps :
        /\ heap[v] = o /\ heap[w] = o => v = w
        /\ heap[w] = o => word[o] = w

(* A thread that lost the race is not left spinning on the sentinel. *)
GetterExits == \A t \in Threads : (pc[t] = "spin") ~> (pc[t] \in Using)

(* The threads that sleep in pthread_cond_wait and nobody woke yet. *)
waiting == {t \in Threads : pc[t] = "queued" /\ t \in queue[condOf(t)]}

(* No wakeup is lost to a second copy of the condition variable: a broadcast  *)
(* wakes every sleeper there is, a signal wakes one if there is one.          *)
WakeupsReach ==
    [][\A t \in Threads : pc[t] = "do" /\ pc'[t] = "idle" =>
          /\ op[t] = "broadcast" => waiting' = {}
          /\ op[t] = "signal" /\ waiting # {} => \E u \in waiting : waiting' = waiting \ {u}]_vars

Abstract == INSTANCE Monitor WITH owners <- held, waiters <- waiting

(* The lazily created pair behaves as one mutex and one condition variable.   *)
ImplementsMonitor == Abstract!Spec

-----------------------------------------------------------------------------
(* The inductive invariant.                                                 *)

Getting == {"test", "cas", "init", "spin"}
Destroying(t, o) == pc[t] # "idle" /\ op[t] = Destroy[o]
Creating(t, o) == pc[t] # "idle" /\ op[t] = Create[o]
Calling(t, o) == pc[t] # "idle" /\ o \in Uses(op[t])

(* The callers' rules: nobody uses an object that is being destroyed or       *)
(* created explicitly, and one thread does that at a time.                    *)
RulesInv ==
    \A o \in Objs :
        /\ \A t \in Threads : Calling(t, o) => alive[o]
        /\ \A t \in Threads : Destroying(t, o) \/ Creating(t, o) =>
              /\ ~alive[o]
              /\ \A u \in Threads : Destroying(u, o) \/ Creating(u, o) => t = u

(* Where a thread is in its call. *)
CallInv ==
    \A t \in Threads :
        /\ pc[t] = "idle" <=> op[t] = "none"
        /\ pc[t] \in Getting => obj[t] \in Uses(op[t]) \/ op[t] \in {Destroy[obj[t]], Create[obj[t]]}
        /\ pc[t] \in Using => op[t] \notin {Create[o] : o \in Objs}
        /\ pc[t] \in {"test", "cas", "spin"} => op[t] \notin {Create[o] : o \in Objs}
        /\ pc[t] = "do" /\ op[t] \notin MutexOps \cup CondOps => op[t] = Destroy[obj[t]]
        /\ pc[t] = "queued" => op[t] \in Waits
        /\ pc[t] = "relock" => op[t] \in Waits
        /\ pc[t] # "idle" /\ op[t] \in {"unlock"} \cup Waits /\ pc[t] \notin {"queued", "relock"} =>
              t \in held
        /\ pc[t] # "idle" /\ op[t] \in {"lock", "trylock"} => t \notin held
        /\ pc[t] \in {"queued", "relock"} => t \notin held

(* The sentinel is in the word exactly while one thread creates the wrap, and *)
(* a wrap is allocated exactly while the object that names it is kept: from   *)
(* its creation to the end of its destruction, when the word is left dangling.*)
Initing(t, o) == pc[t] = "init" /\ obj[t] = o /\ op[t] # Create[o]
Kept(o) == alive[o] \/ \E t \in Threads : Destroying(t, o)
WordInv ==
    \A o \in Objs :
        /\ word[o] = Busy <=> \E t \in Threads : Initing(t, o)
        /\ \A t, u \in Threads : Initing(t, o) /\ Initing(u, o) => t = u
        /\ \A w \in Wraps : heap[w] = o <=> Kept(o) /\ word[o] = w
        /\ Kept(o) \/ word[o] \in Wraps

(* A thread past the getter of an object has the wrap in the word; one about  *)
(* to leave it has seen that the word is set, and words are never cleared.    *)
Got(t, o) ==
    /\ o \in Uses(op[t]) \/ op[t] = Destroy[o]
    /\ pc[t] \in Using \/ (pc[t] \in Getting /\ o = "cond" /\ obj[t] = "mutex")
HandleInv ==
    \A t \in Threads, o \in Objs :
        /\ Got(t, o) => word[o] \in Wraps /\ handle[t][o] = word[o]
        /\ pc[t] = "spin" => word[obj[t]] # Zero

(* The holder Argobots knows is the owner the callers know. *)
HolderInv ==
    /\ \A t \in held : word["mutex"] \in Wraps /\ holder[word["mutex"]] = t
    /\ Kept("mutex") /\ word["mutex"] \in Wraps /\ holder[word["mutex"]] # NoThread =>
          holder[word["mutex"]] \in held
    /\ held # {} => alive["mutex"]

(* Who is in the queue of the condition variable is asleep in a wait on it. *)
QueueInv ==
    \A w \in Wraps : heap[w] = "cond" =>
        \A t \in queue[w] : pc[t] = "queued" /\ handle[t]["cond"] = w

IInv ==
    /\ TypeOK /\ RulesInv /\ CallInv /\ WordInv /\ HandleInv /\ HolderInv /\ QueueInv
=============================================================================
