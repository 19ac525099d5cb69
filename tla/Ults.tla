-------------------------------- MODULE Ults --------------------------------
(***************************************************************************)
(* User-level threads over the cores' pools, and the calls in which they   *)
(* wait for each other or for time: pthread_create, pthread_join, the keys *)
(* and pthread_once (src/newlib/mylib.c), and the system calls that        *)
(* hook_function turns into polling (src/newlib/hook.c): futex,            *)
(* clock_nanosleep, pselect6 and epoll_pwait2.                             *)
(*                                                                         *)
(* A program is main, which creates the other threads, does its own job    *)
(* and joins them; each thread's job is one use of these calls.  A thread  *)
(* runs while it has its core; a step is what it does between two points   *)
(* at which another core can see a difference.  Built with USE_PREEMPT a   *)
(* timer takes the core away at any point, otherwise only yields do.       *)
(***************************************************************************)
EXTENDS Integers, Sequences, FiniteSets

CONSTANTS Threads, main,
          N_CORE, N_KEY,
          Programs,     \* what the threads do: functions from Threads to Jobs
          TICK,         \* the step of the coarse clocks
          D,            \* how long the timed calls wait
          NoThread

Jobs == {"once", "key", "wait", "wake", "nanosleep", "select", "epoll"}
Cores == 0..(N_CORE - 1)
Slots == 0..(N_KEY - 1)

ASSUME CoresAssumption == N_CORE \in Nat \ {0} /\ TICK \in Nat \ {0} /\ D \in Nat
ASSUME KeysAssumption == N_KEY \in Nat \ {0}
ASSUME ThreadsAssumption == /\ main \in Threads /\ NoThread \notin Threads
                            /\ IsFiniteSet(Threads)
                            /\ Programs \subseteq [Threads -> Jobs]

VARIABLES
    USE_PREEMPT,        \* how the library was built
    init_yields,        \* whether the init_routine of pthread_once yields
    job,
    pool, running, core, global_my_tid,
    pc,
    once_control, entered,      \* entered: threads that called init_routine
    abt_keys, alive, abt_key_mutex,     \* alive: keys made and not freed
    i_key, made,        \* per thread: the slot it got and the key it made
    word,               \* what futex waits on: TRUE when it has changed
    ready,              \* a descriptor of select and epoll is ready
    phase,              \* time since the coarse clocks last stepped
    elapsed, start      \* per thread: since its call; the phase at that time

sched == <<pool, running, core, global_my_tid>>
onceVars == <<once_control, entered>>
keyVars == <<abt_keys, alive, abt_key_mutex, i_key, made>>
events == <<word, ready>>
clock == <<phase, elapsed, start>>
build == <<USE_PREEMPT, init_yields, job>>
vars == <<build, sched, pc, onceVars, keyVars, events, clock>>

NoKey == [by |-> NoThread]      \* an empty slot

Init ==
    /\ USE_PREEMPT \in BOOLEAN /\ init_yields \in BOOLEAN
    /\ job \in Programs
    /\ pool = [c \in Cores |-> <<>>]
    /\ running = [c \in Cores |-> IF c = 0 THEN main ELSE NoThread]
    /\ core = [t \in Threads |-> 0]
    /\ global_my_tid = 0
    /\ pc = [t \in Threads |-> IF t = main THEN "create" ELSE "absent"]
    /\ once_control = 0 /\ entered = {}
    /\ abt_keys = [k \in Slots |-> NoKey]
    /\ alive = {}
    /\ abt_key_mutex = NoThread
    /\ i_key = [t \in Threads |-> 0]
    /\ made = [t \in Threads |-> NoKey]
    /\ word = FALSE /\ ready = FALSE
    /\ phase = 0
    /\ elapsed = [t \in Threads |-> 0]
    /\ start = [t \in Threads |-> 0]

-----------------------------------------------------------------------------
(* Argobots: a core runs the first of its pool; a thread that yields, waits *)
(* for a mutex or is preempted goes to the end.                             *)
On(t) == running[core[t]] = t

Dispatch(c) ==
    /\ running[c] = NoThread /\ pool[c] # <<>>
    /\ running' = [running EXCEPT ![c] = Head(pool[c])]
    /\ pool' = [pool EXCEPT ![c] = Tail(@)]
    /\ UNCHANGED <<core, global_my_tid, pc, onceVars, keyVars, events, clock>>

giveUp(t) ==
    /\ pool' = [pool EXCEPT ![core[t]] = Append(@, t)]
    /\ running' = [running EXCEPT ![core[t]] = NoThread]
    /\ UNCHANGED <<core, global_my_tid>>

(* With nobody else in the pool the thread would go on. *)
Preempt(t) ==
    /\ USE_PREEMPT
    /\ On(t) /\ pool[core[t]] # <<>>
    /\ giveUp(t)
    /\ UNCHANGED <<pc, onceVars, keyVars, events, clock>>

goto(t, l) == On(t) /\ pc' = [pc EXCEPT ![t] = l]
step(t, from, l) == pc[t] = from /\ goto(t, l) /\ UNCHANGED sched
yield(t, from, l) == pc[t] = from /\ goto(t, l) /\ giveUp(t)

-----------------------------------------------------------------------------
(* pthread_create, start and exit of a thread, pthread_join.                *)

home(tid) == tid % N_CORE

Create(u) ==
    /\ On(main) /\ pc[main] = "create" /\ pc[u] = "absent"
    /\ LET c == home(global_my_tid) IN
           /\ core' = [core EXCEPT ![u] = c]
           /\ pool' = [pool EXCEPT ![c] = Append(@, u)]
    /\ global_my_tid' = global_my_tid + 1
    /\ pc' = [pc EXCEPT ![u] = "start"]
    /\ UNCHANGED <<running, onceVars, keyVars, events, clock>>

AllCreated ==
    /\ \A u \in Threads : pc[u] # "absent"
    /\ step(main, "create", "start")
    /\ UNCHANGED <<onceVars, keyVars, events, clock>>

Timed == {"nanosleep", "select", "epoll"}

(* A call with a timeout reads the clock when it starts.  Every pselect6 and *)
(* epoll_pwait2 here has one: pselect6 reads it before it looks whether     *)
(* there is one.                                                            *)
Start(t) ==
    /\ step(t, "start", job[t])
    /\ start' = [start EXCEPT ![t] = IF job[t] \in Timed THEN phase ELSE 0]
    /\ UNCHANGED <<onceVars, keyVars, events, phase, elapsed>>

Exit(t) ==
    /\ t # main /\ pc[t] = "end" /\ goto(t, "done")
    /\ running' = [running EXCEPT ![core[t]] = NoThread]
    /\ UNCHANGED <<pool, core, global_my_tid, onceVars, keyVars, events, clock>>

Others == Threads \ {main}

Join ==
    /\ IF \A u \in Others : pc[u] = "done" THEN step(main, "end", "done")
                                           ELSE yield(main, "end", "end")
    /\ UNCHANGED <<onceVars, keyVars, events, clock>>

-----------------------------------------------------------------------------
(* pthread_once.                                                            *)
onceCas(t, first) ==
    /\ first
    /\ once_control' = 1 /\ entered' = entered \cup {t}
    /\ IF init_yields THEN yield(t, "once", "init") ELSE step(t, "once", "init")
    /\ UNCHANGED <<keyVars, events, clock>>

(* Mutant of OnceCas: whoever finds the routine not over runs it. *)
OnceTest(t) == onceCas(t, once_control # 2)

OnceCas(t) == onceCas(t, once_control = 0)

OnceEnd(t) ==
    /\ step(t, "init", "end")
    /\ once_control' = 2
    /\ UNCHANGED <<entered, keyVars, events, clock>>

(* The others look at the variable all the time, and keep the core. *)
OnceSpin(t) ==
    /\ once_control # 0
    /\ step(t, "once", "spin")
    /\ UNCHANGED <<onceVars, keyVars, events, clock>>

OnceOver(t) ==
    /\ once_control = 2
    /\ step(t, "spin", "end")
    /\ UNCHANGED <<onceVars, keyVars, events, clock>>

-----------------------------------------------------------------------------
(* pthread_key_create, then a use of the key, then pthread_key_delete.      *)
lockKeys(t, free) ==
    /\ IF free THEN step(t, "key", "find") /\ abt_key_mutex' = t
               ELSE yield(t, "key", "key") /\ UNCHANGED abt_key_mutex
    /\ UNCHANGED <<onceVars, abt_keys, alive, i_key, made, events, clock>>

(* Mutant of KeyLock: there is no mutex. *)
KeyNoLock(t) == lockKeys(t, TRUE)

KeyLock(t) == lockKeys(t, abt_key_mutex = NoThread)

(* The slot is chosen by looking at it, and filled later. *)
KeyFind(t) ==
    /\ \E k \in Slots : abt_keys[k] = NoKey
    /\ step(t, "find", "fill")
    /\ i_key' = [i_key EXCEPT ![t] = CHOOSE k \in Slots :
                     abt_keys[k] = NoKey /\ \A j \in 0..(k - 1) : abt_keys[j] # NoKey]
    /\ UNCHANGED <<onceVars, abt_keys, alive, abt_key_mutex, made, events, clock>>

(* No slot is free: EAGAIN, and the thread goes without a key. *)
KeyNone(t) ==
    /\ \A k \in Slots : abt_keys[k] # NoKey
    /\ step(t, "find", "end")
    /\ abt_key_mutex' = NoThread
    /\ UNCHANGED <<onceVars, abt_keys, alive, i_key, made, events, clock>>

KeyFill(t) ==
    /\ step(t, "fill", "use")
    /\ abt_keys' = [abt_keys EXCEPT ![i_key[t]] = [by |-> t]]
    /\ alive' = alive \cup {[by |-> t]}
    /\ made' = [made EXCEPT ![t] = [by |-> t]]
    /\ abt_key_mutex' = NoThread
    /\ UNCHANGED <<onceVars, i_key, events, clock>>

(* pthread_setspecific and pthread_getspecific find the key by the slot. *)
KeyUse(t) ==
    /\ step(t, "use", "free")
    /\ UNCHANGED <<onceVars, keyVars, events, clock>>

KeyDelete(t) ==
    /\ step(t, "free", "clear")
    /\ alive' = alive \ {abt_keys[i_key[t]]}
    /\ UNCHANGED <<onceVars, abt_keys, abt_key_mutex, i_key, made, events, clock>>

KeyDeleted(t) ==
    /\ step(t, "clear", "end")
    /\ abt_keys' = [abt_keys EXCEPT ![i_key[t]] = NoKey]
    /\ UNCHANGED <<onceVars, alive, abt_key_mutex, i_key, made, events, clock>>

-----------------------------------------------------------------------------
(* The polling system calls.                                                *)

(* Mutant of Futex: it looks again without a yield. *)
FutexSpin(t) ==
    /\ word
    /\ step(t, "wait", "end")
    /\ UNCHANGED <<onceVars, keyVars, events, clock>>

(* FUTEX_WAIT on a word that has its old value, until it has another. *)
Futex(t) ==
    /\ IF word THEN step(t, "wait", "end") ELSE yield(t, "wait", "wait")
    /\ UNCHANGED <<onceVars, keyVars, events, clock>>

(* Another thread changes the word; its FUTEX_WAKE is the kernel's. *)
Wake(t) ==
    /\ step(t, "wake", "end")
    /\ word' = TRUE
    /\ UNCHANGED <<onceVars, keyVars, ready, clock>>

(* Mutant of Expired: the time to wait is not added to the alarm. *)
ExpiredAtOnce(t) == elapsed[t] + start[t] - phase > 0

(* The difference of two readings of the coarse clock exceeds D. *)
Expired(t) == elapsed[t] + start[t] - phase > D

TimeOut(t) ==
    /\ pc[t] \in Timed /\ Expired(t)
    /\ step(t, pc[t], "late")
    /\ UNCHANGED <<onceVars, keyVars, events, clock>>

(* The kernel's answer, a ready descriptor or an error, ends pselect6, which *)
(* looks at the clock first.  epoll_pwait2 looks at it last, and asks again *)
(* after an error.                                                          *)
Answer(t) == \E error \in BOOLEAN :
    \/ pc[t] = "select" /\ (ready \/ error) /\ ~Expired(t)
    \/ pc[t] = "epoll" /\ ready /\ ~error

Found(t) ==
    /\ Answer(t)
    /\ step(t, pc[t], "end")
    /\ elapsed' = [elapsed EXCEPT ![t] = 0]
    /\ start' = [start EXCEPT ![t] = 0]
    /\ UNCHANGED <<onceVars, keyVars, events, phase>>

(* Nothing ready, or for epoll_pwait2 an error. *)
PollAgain(t) ==
    /\ pc[t] \in Timed /\ ~Expired(t)
    /\ pc[t] = "select" => ~ready
    /\ yield(t, pc[t], pc[t])
    /\ UNCHANGED <<onceVars, keyVars, events, clock>>

Late(t) ==
    /\ step(t, "late", "end")
    /\ elapsed' = [elapsed EXCEPT ![t] = 0]
    /\ start' = [start EXCEPT ![t] = 0]
    /\ UNCHANGED <<onceVars, keyVars, events, phase>>

-----------------------------------------------------------------------------
(* Time passes, and a descriptor becomes ready, when somebody looks.  The   *)
(* clocks only go forward: CLOCK_REALTIME_COARSE, which clock_nanosleep     *)
(* reads, is not set while a call waits.                                    *)

(* Bound: no thread counts further than makes a difference. *)
Horizon == D + 2 * TICK

Tick ==
    /\ \E t \in Threads : pc[t] \in Timed
    /\ phase' = (phase + 1) % TICK
    /\ elapsed' = [t \in Threads |-> IF pc[t] \in Timed /\ elapsed[t] < Horizon
                                       THEN elapsed[t] + 1 ELSE elapsed[t]]
    /\ UNCHANGED <<sched, pc, onceVars, keyVars, events, start>>

Ready ==
    /\ \E t \in Threads : pc[t] \in {"select", "epoll"}
    /\ ready' = TRUE
    /\ UNCHANGED <<sched, pc, onceVars, keyVars, word, clock>>

-----------------------------------------------------------------------------
Step(t) ==
    \/ Start(t) \/ Exit(t)
    \/ OnceCas(t) \/ OnceEnd(t) \/ OnceSpin(t) \/ OnceOver(t)
    \/ KeyLock(t) \/ KeyFind(t) \/ KeyNone(t) \/ KeyFill(t) \/ KeyUse(t)
    \/ KeyDelete(t) \/ KeyDeleted(t)
    \/ Futex(t) \/ Wake(t) \/ TimeOut(t) \/ Found(t) \/ PollAgain(t) \/ Late(t)

Main == (\E u \in Others : Create(u)) \/ AllCreated \/ Join

Next ==
    /\ \/ Main \/ \E t \in Threads : Step(t) \/ Preempt(t)
       \/ \E c \in Cores : Dispatch(c)
       \/ Tick \/ Ready
    /\ UNCHANGED build

Spec == Init /\ [][Next]_vars

(* A core always runs some thread it has, the timer fires again and again   *)
(* but leaves a thread time for a step, and time passes.                    *)
Fairness ==
    /\ \A c \in Cores : WF_vars(Dispatch(c) /\ UNCHANGED build)
    /\ \A t \in Threads : /\ SF_vars(Step(t) /\ UNCHANGED build)
                          /\ WF_vars(Preempt(t) /\ UNCHANGED build)
    /\ SF_vars(Main /\ UNCHANGED build)
    /\ WF_vars(Tick /\ UNCHANGED build)

FairSpec == Spec /\ Fairness

-----------------------------------------------------------------------------
(* In how many places of cores and pools a thread is. *)
Count(t) == Cardinality({c \in Cores : running[c] = t})
          + Cardinality({p \in Cores \X (1..Cardinality(Threads)) :
                            p[2] <= Len(pool[p[1]]) /\ pool[p[1]][p[2]] = t})

(* Type invariant; a live thread is in one place. *)
TypeOK ==
    /\ core \in [Threads -> Cores] /\ global_my_tid \in Nat
    /\ running \in [Cores -> Threads \cup {NoThread}]
    /\ \A t \in Threads : Count(t) = IF pc[t] \in {"absent", "done"} /\ t # main THEN 0 ELSE 1
    /\ once_control \in 0..2 /\ i_key \in [Threads -> Slots]
    /\ abt_key_mutex \in Threads \cup {NoThread}
    /\ phase \in 0..(TICK - 1) /\ elapsed \in [Threads -> 0..Horizon]

(* init_routine is called once, and pthread_once returns to nobody before  *)
(* the routine has returned (mylib.c, pthread_once).                       *)
OnceExact ==
    /\ Cardinality(entered) <= 1
    /\ \A t \in Threads : job[t] = "once" /\ pc[t] \in {"end", "done"} => once_control = 2

(* From pthread_key_create to pthread_key_delete a key's slot leads to the *)
(* key that was made for it, and that has not been freed, although keys    *)
(* are deleted without the mutex (mylib.c, pthread_key_delete).            *)
KeysSound == \A t \in Threads : pc[t] \in {"use", "free"} =>
    abt_keys[i_key[t]] = made[t] /\ made[t] \in alive

(* All keys deleted leave nothing behind. *)
KeysFreed == \A t \in Threads : job[t] = "key" /\ pc[t] \in {"end", "done"} =>
    made[t] \notin alive

(* A call with a timeout does not give up more than a step of the coarse   *)
(* clock before its time (hook.c, the polling loops), if the clock it reads *)
(* is not set meanwhile.                                                   *)
NotEarly == \A t \in Threads : pc[t] = "late" => elapsed[t] + TICK > D

(* The program ends: every job is done and every thread joined, if the     *)
(* library preempts or the routine given to pthread_once does not yield.   *)
(* Otherwise a thread that waits in pthread_once keeps the core the        *)
(* routine needs.                                                          *)
Terminates == USE_PREEMPT \/ ~init_yields => <>(pc[main] = "done")

(* The type invariant; init_routine runs once, and no key is left behind.   *)
Inv == TypeOK /\ OnceExact /\ KeysFreed
=============================================================================
