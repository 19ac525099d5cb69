------------------------------ MODULE FirstGen ------------------------------
(***************************************************************************)
(* The first generation of the library (src/pthread.c and src/hook.c):     *)
(* threads that share the streams of Argobots without preemption, whose    *)
(* system calls are made by helper threads (hook_function, req_helper,     *)
(* do_helper), whose records are kept for reuse (pthread_create, my_join)  *)
(* and whose mutexes are found in a map (pthread_mutex_lock).              *)
(*                                                                         *)
(* main is on a stream of its own; it creates and joins the workers.  A    *)
(* worker has one job: system calls through its helper, a critical         *)
(* section, waiting in or causing an epoll event, or joining another       *)
(* worker.  A thread keeps its stream until it yields, and a call that     *)
(* blocks in the kernel, a join included, blocks the whole stream.         *)
(***************************************************************************)
EXTENDS Integers, Sequences, FiniteSets

CONSTANTS Workers, main,
          MAX_CORE, N_HELPER,
          Programs,     \* what the workers do: functions from Workers to Jobs
          MaxCalls,     \* bound: system calls of a worker
          NoThread

OwnJobs == {"call", "lock", "epoll", "write"}
Jobs == OwnJobs \cup Workers    \* a worker: the one to join
Threads == Workers \cup {main}
Streams == 0..MAX_CORE      \* the last is main's
Tids == 0..(Cardinality(Workers) - 1)
Ids == 0..(N_HELPER - 1)
Requests == Workers \X (1..MaxCalls)
NoRequest == <<NoThread, 0>>
Unknown == "unknown"        \* the map has no entry for the mutex

ASSUME CoresAssumption == MAX_CORE \in Nat \ {0} /\ MaxCalls \in Nat
ASSUME HelpersAssumption == N_HELPER \in Nat /\ N_HELPER > Cardinality(Workers)
ASSUME ThreadsAssumption == /\ main \notin Workers /\ NoThread \notin Threads
                            /\ IsFiniteSet(Workers) /\ Programs \subseteq [Workers -> Jobs]
ASSUME NamesAssumption == /\ Unknown \notin Workers \cup {NoThread}
                          /\ OwnJobs \cap Workers = {}
(* The application joins no thread twice, which POSIX leaves undefined. *)
ASSUME JoinsAssumption == \A p \in Programs : \A t, u \in Workers :
    p[t] \in Workers /\ p[t] = p[u] => t = u

VARIABLES
    job,
    initialised,            \* main calls pthread_mutex_init at the start
    running, pc,
    myth, abt_id,           \* per worker: its record's tid, its Argobots id
    th_map,                 \* the worker in the record with each tid
    n_abt_thread, myth_pool,
    created, joined, joining,
    helpers, made, got,     \* per worker: calls made, the last answer it got
    times,                  \* how often the kernel was asked for each request
    mutex, inside,          \* the ABT_mutex of the map; who believes to own it
    event

program == <<job, initialised>>
sched == <<running, pc>>
records == <<myth, abt_id, th_map, n_abt_thread, myth_pool, created>>
joins == <<joined, joining>>
calls == <<helpers, made, got, times>>
locks == <<mutex, inside>>
vars == <<program, sched, records, joins, calls, locks, event>>

Init ==
    /\ job \in Programs
    /\ initialised \in BOOLEAN /\ (initialised \/ \E t \in Workers : job[t] = "lock")
    /\ running = [s \in Streams |-> IF s = MAX_CORE THEN main ELSE NoThread]
    /\ pc = [t \in Threads |-> IF t = main THEN "run" ELSE "absent"]
    /\ myth = [t \in Workers |-> 0] /\ abt_id = [t \in Workers |-> 0]
    /\ th_map = [k \in Tids |-> NoThread]
    /\ n_abt_thread = 0 /\ myth_pool = <<>> /\ created = 0
    /\ joined = {} /\ joining = [t \in Threads |-> NoThread]
    /\ helpers = [h \in Ids |-> [done |-> FALSE, ready |-> FALSE, arg |-> NoRequest,
                                 ret |-> NoRequest, at |-> 0]]
    /\ made = [t \in Workers |-> 0] /\ got = [t \in Workers |-> NoRequest]
    /\ times = [r \in Requests |-> 0]
    /\ mutex = (IF initialised THEN NoThread ELSE Unknown) /\ inside = {}
    /\ event = FALSE

-----------------------------------------------------------------------------
(* Argobots.  A pool is first in, first out; here any thread of it may be   *)
(* the next, and every one gets its turn.                                   *)
stream(t) == IF t = main THEN MAX_CORE ELSE myth[t] % MAX_CORE

Runs(t) == pc[t] # "absent" /\ running[stream(t)] = t

Dispatch(t) ==
    /\ pc[t] \notin {"absent", "over"} /\ running[stream(t)] = NoThread
    /\ running' = [running EXCEPT ![stream(t)] = t]
    /\ UNCHANGED <<pc, records, joins, calls, locks, event>>

leave(t, l) ==
    /\ pc' = [pc EXCEPT ![t] = l]
    /\ running' = [running EXCEPT ![stream(t)] = NoThread]

goto(t, l) == pc' = [pc EXCEPT ![t] = l] /\ UNCHANGED running

-----------------------------------------------------------------------------
(* pthread_create and pthread_join.                                         *)

(* Bound: nobody is created while a worker joins, which pushes on myth_pool *)
(* from another stream with no lock.                                        *)
NoJoinMeanwhile == \A t \in Workers : joining[t] = NoThread

Create(u) ==
    /\ Runs(main) /\ pc[main] = "run" /\ pc[u] = "absent" /\ NoJoinMeanwhile
    /\ LET reused == myth_pool # <<>>
           n == Len(myth_pool)
           tid == IF reused THEN myth_pool[n] ELSE n_abt_thread
       IN  /\ myth_pool' = IF reused THEN SubSeq(myth_pool, 1, n - 1) ELSE <<>>
           /\ n_abt_thread' = IF reused THEN n_abt_thread ELSE n_abt_thread + 1
           /\ myth' = [myth EXCEPT ![u] = tid]
           /\ th_map' = [th_map EXCEPT ![tid] = u]
    /\ created' = created + 1
    /\ abt_id' = [abt_id EXCEPT ![u] = created + 1]
    /\ goto(u, "run")
    /\ UNCHANGED <<joins, calls, locks, event>>

Waits(t) == job[t] = "epoll" \/ job[t] \in Workers

(* A worker joins as its job.  Main joins whom no worker does, and who      *)
(* waits for others only when these are there.                              *)
MayJoin(t, u) ==
    IF t = main THEN /\ \A v \in Workers : job[v] # u
                     /\ Waits(u) => \A v \in Workers : pc[v] # "absent"
                ELSE job[t] = u

CallJoin(t, u) ==
    /\ Runs(t) /\ pc[t] = "run"
    /\ MayJoin(t, u) /\ pc[u] # "absent" /\ u \notin joined
    /\ joining' = [joining EXCEPT ![t] = u]
    /\ goto(t, "join")
    /\ UNCHANGED <<records, joined, calls, locks, event>>

(* my_join runs in a thread of libpthread, and the caller waits for it.     *)
my_join(t) ==
    /\ pc[t] = "join" /\ pc[th_map[myth[joining[t]]]] = "over"
    /\ joined' = joined \cup {joining[t]}
    /\ myth_pool' = Append(myth_pool, myth[joining[t]])
    /\ joining' = [joining EXCEPT ![t] = NoThread]
    /\ IF t = main THEN goto(t, "run") ELSE leave(t, "over")
    /\ UNCHANGED <<myth, abt_id, th_map, n_abt_thread, created, calls, locks, event>>

-----------------------------------------------------------------------------
(* hook_function: a call that goes to the helper of the Argobots id.        *)
helper(t) == helpers[abt_id[t]]

put(t, fields) == helpers' = [helpers EXCEPT ![abt_id[t]] = fields]

writes(t, what, r) ==
    CASE what = "arg" -> [helper(t) EXCEPT !.done = FALSE, !.arg = r]
      [] what = "ready" -> [helper(t) EXCEPT !.ready = TRUE]

(* Mutant of RequestOrder: the helper is woken before the arguments are set. *)
RequestOrderSwapped == <<"ready", "arg">>

RequestOrder == <<"arg", "ready">>

Ask(t) ==
    /\ Runs(t) /\ pc[t] = "run" /\ job[t] = "call" /\ made[t] < MaxCalls
    /\ put(t, writes(t, RequestOrder[1], <<t, made[t] + 1>>))
    /\ made' = [made EXCEPT ![t] = @ + 1]
    /\ goto(t, "signal")
    /\ UNCHANGED <<records, joins, got, times, locks, event>>

Signal(t) ==
    /\ Runs(t) /\ pc[t] = "signal"
    /\ put(t, writes(t, RequestOrder[2], <<t, made[t]>>))
    /\ goto(t, "poll")
    /\ UNCHANGED <<records, joins, made, got, times, locks, event>>

(* The thread looks at done, and yields as long as it is not set. *)
Poll(t) ==
    /\ Runs(t) /\ pc[t] = "poll"
    /\ IF helper(t).done
       THEN got' = [got EXCEPT ![t] = helper(t).ret] /\ goto(t, "run")
       ELSE leave(t, "poll") /\ UNCHANGED got
    /\ UNCHANGED <<records, joins, helpers, made, times, locks, event>>

(* do_helper: what it does once it sees ready, the first of it under the    *)
(* mutex.                                                                   *)
(* Mutant of ServeOrder: done is set before the call is made. *)
ServeOrderEarly == <<"take", "done", "call">>
(* Mutant of ServeOrder: ready is cleared when the call is done. *)
ServeOrderLate == <<"call", "done", "take">>

ServeOrder == <<"take", "call", "done">>

serve(h, what, next) ==
    LET s == helpers[h]
        now == CASE what = "take" -> [s EXCEPT !.ready = FALSE]
                 [] what = "call" -> [s EXCEPT !.ret = s.arg]
                 [] what = "done" -> [s EXCEPT !.done = TRUE]
    IN  /\ helpers' = [helpers EXCEPT ![h] = [now EXCEPT !.at = next]]
        /\ times' = IF what = "call" /\ s.arg # NoRequest
                    THEN [times EXCEPT ![s.arg] = @ + 1] ELSE times

Helper(h) ==
    /\ \/ helpers[h].at = 0 /\ helpers[h].ready /\ serve(h, ServeOrder[1], 1)
       \/ helpers[h].at = 1 /\ serve(h, ServeOrder[2], 2)
       \/ helpers[h].at = 2 /\ serve(h, ServeOrder[3], 0)
    /\ UNCHANGED <<sched, records, joins, made, got, locks, event>>

CallsMade(t) ==
    /\ Runs(t) /\ pc[t] = "run" /\ job[t] = "call" /\ made[t] = MaxCalls
    /\ leave(t, "over")
    /\ UNCHANGED <<records, joins, calls, locks, event>>

(* Calls that are made where they are: epoll_wait blocks, write does not.   *)
(* epoll_wait calls debug_print without the test that the other calls make: *)
(* this is the library with LIBMY set, without it the call goes to NULL.    *)
Direct(t) ==
    /\ Runs(t) /\ pc[t] = "run"
    /\ \/ job[t] = "epoll" /\ event /\ UNCHANGED event
       \/ job[t] = "write" /\ event' = TRUE
    /\ leave(t, "over")
    /\ UNCHANGED <<records, joins, calls, locks>>

-----------------------------------------------------------------------------
(* pthread_mutex_lock, a sched_yield inside, pthread_mutex_unlock.          *)
Lock(t) ==
    /\ Runs(t) /\ pc[t] = "run" /\ job[t] = "lock" /\ mutex # Unknown
    /\ IF mutex = NoThread
               THEN mutex' = t /\ inside' = inside \cup {t} /\ leave(t, "inside")
               ELSE UNCHANGED locks /\ leave(t, "run")
    /\ UNCHANGED <<records, joins, calls, event>>

(* A mutex that is not in the map is put there, and is not locked.  Bound:  *)
(* two first calls do not overlap, as the map is searched with no lock.     *)
LockUnknown(t) ==
    /\ Runs(t) /\ pc[t] = "run" /\ job[t] = "lock" /\ mutex = Unknown
    /\ mutex' = NoThread /\ inside' = inside \cup {t}
    /\ leave(t, "inside")
    /\ UNCHANGED <<records, joins, calls, event>>

Unlock(t) ==
    /\ Runs(t) /\ pc[t] = "inside"
    /\ mutex' = NoThread /\ inside' = inside \ {t}
    /\ leave(t, "over")
    /\ UNCHANGED <<records, joins, calls, event>>

-----------------------------------------------------------------------------
Step(t) ==
    \/ Ask(t) \/ Signal(t) \/ Poll(t) \/ CallsMade(t) \/ Direct(t)
    \/ Lock(t) \/ LockUnknown(t) \/ Unlock(t)
    \/ \E u \in Workers : CallJoin(t, u)

Main == \E u \in Workers : Create(u) \/ CallJoin(main, u)

Next ==
    /\ \/ Main \/ \E t \in Workers : Step(t)
       \/ \E t \in Threads : Dispatch(t) \/ my_join(t)
       \/ \E h \in Ids : Helper(h)
    /\ UNCHANGED program

Spec == Init /\ [][Next]_vars

(* The kernel runs every stream and helper, and a stream all its threads.   *)
Fairness ==
    /\ WF_vars(Main /\ UNCHANGED program)
    /\ \A t \in Workers : /\ WF_vars(Step(t) /\ UNCHANGED program)
                          /\ SF_vars(Lock(t) /\ mutex' = t /\ UNCHANGED program)
    /\ \A t \in Threads : /\ SF_vars(Dispatch(t) /\ UNCHANGED program)
                          /\ WF_vars(my_join(t) /\ UNCHANGED program)
    /\ \A h \in Ids : WF_vars(Helper(h) /\ UNCHANGED program)

FairSpec == Spec /\ Fairness

-----------------------------------------------------------------------------
Alive(t) == pc[t] # "absent" /\ (pc[t] = "over" => t \notin joined)

(* Type invariant; what runs on a stream belongs to it.                     *)
TypeOK ==
    /\ \A s \in Streams : running[s] # NoThread => stream(running[s]) = s
    /\ myth \in [Workers -> Tids] /\ n_abt_thread \in 0..Cardinality(Workers)
    /\ \A t \in Workers : abt_id[t] \in Ids
    /\ made \in [Workers -> 0..MaxCalls] /\ got \in [Workers -> Requests \cup {NoRequest}]
    /\ mutex \in Workers \cup {NoThread, Unknown} /\ inside \subseteq Workers

(* A call through a helper returns the answer to the request that was made, *)
(* not to the one before it (hook.c, req_helper and do_helper).             *)
OwnAnswer == \A t \in Workers : made[t] > 0 /\ pc[t] \in {"run", "over"} => got[t] = <<t, made[t]>>

(* Threads that run or are not joined have records of their own, also when the     *)
(* records of joined threads are used again (pthread.c, my_join).           *)
OwnRecord == \A t, u \in Workers :
    /\ Alive(t) => th_map[myth[t]] = t
    /\ Alive(t) /\ Alive(u) /\ myth[t] = myth[u] => t = u

(* A mutex that pthread_mutex_init has put in the map excludes: one that    *)
(* the first lock finds unknown does not (pthread.c, pthread_mutex_lock).   *)
Exclusive == initialised => Cardinality(inside) <= 1

Abstract == INSTANCE RemoteCall WITH
    asked <- {r \in Requests : r[2] <= made[r[1]]},
    answered <- {r \in Requests : r[2] < made[r[1]]
                                  \/ (r[2] = made[r[1]] /\ pc[r[1]] \in {"run", "over"})}

(* The hand-off to the helpers carries out every call exactly once.         *)
ImplementsRemoteCall == Abstract!Spec

(* The program ends, unless a thread that waits in the kernel shares its    *)
(* stream: epoll_wait and pthread_join stop all threads of the stream, also *)
(* the one they wait for.                                                   *)
Apart == \A t, u \in Workers : Waits(t) /\ Alive(t) /\ Alive(u) /\ t # u => stream(t) # stream(u)
Finishes == []Apart => <>(joined = Workers)

(* The type invariant; threads share neither records, answers nor a locked  *)
(* mutex.                                                                   *)
Inv == TypeOK /\ OwnRecord /\ OwnAnswer /\ Exclusive
=============================================================================
