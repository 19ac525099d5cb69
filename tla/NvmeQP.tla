------------------------------- MODULE NvmeQP -------------------------------
(***************************************************************************)
(* One NVMe I/O queue pair of src/newlib/nvme.cc (class QP) shared by the  *)
(* user-level threads of a core, the request functions that drive it       *)
(* (nvme_read_req, nvme_write_req, nvme_check) and the controller on the   *)
(* other side of the two rings.                                            *)
(*                                                                         *)
(* A request is a model value.  Its payload is named after it: the data    *)
(* that request r must move is "r", so that a page, a buffer or the medium *)
(* holding something else is visible.  The controller is external: it is   *)
(* modelled from the protocol the code relies on (doorbells, phase bit).   *)
(*                                                                         *)
(* The model is of the USE_PREEMPT=1 build, where lock() is an Argobots    *)
(* mutex and a thread may be descheduled between any two steps.  Without   *)
(* USE_PREEMPT the same sections run unlocked but without a switch, which  *)
(* is a subset of these behaviours.                                        *)
(***************************************************************************)
EXTENDS Integers, FiniteSets

CONSTANTS Threads,      \* the ULTs that share the queue pair
          Reqs,         \* the requests they will issue
          Writes,       \* those made by nvme_write_req; the others are reads
          Issuer,       \* the thread that issues each request
          QD,           \* entries in the rings (n_sqe = n_cqe)
          NoReq,        \* a NULL rbuf, an empty page, an idle command slot
          NoThread      \* the mutex is free

ASSUME QDAssumption == QD \in Nat /\ QD >= 2
ASSUME WritesAssumption == Writes \subseteq Reqs
ASSUME IssuerAssumption == Issuer \in [Reqs -> Threads]
ASSUME NoReqAssumption == NoReq \notin Reqs
ASSUME NoThreadAssumption == NoThread \notin Threads

Slots == 0..(QD - 1)
Contents == Reqs \cup {NoReq}

VARIABLES
    lock,               \* QP::mutex: its owner
    pc, cur,            \* per thread: next step, request being worked on
    sq_tail,            \* QP::sq_tail
    cq_head, cq_phase,  \* QP::cq_head, QP::cq_phase
    done_flag,          \* QP::done_flag: 2 never used, 0 in use, 1 completed
    rbuf,               \* QP::rbuf: the request whose buffer a slot fills
    cid,                \* the slot the caller was told to poll (its rid)
    status,             \* per request: new, taken (has a slot), issued, returned
    data,               \* what reached r's buffer (read) or r's blocks (write)
    sqe, buf4k, cqe,    \* the rings and the bounce pages, shared by DMA
    sq_db, cq_db,       \* the two doorbell registers
    ctl_head,           \* controller: next submission entry to fetch
    exec,               \* controller: the command being executed per slot
    ctl_tail, ctl_phase \* controller: next completion entry, its phase bit

hostVars == <<lock, pc, cur, sq_tail, cq_head, cq_phase, done_flag, rbuf, cid, status>>
ctlVars == <<ctl_head, exec, ctl_tail, ctl_phase>>
vars == <<hostVars, data, sqe, buf4k, cqe, sq_db, cq_db, ctlVars>>

(* Both ends of both rings advance and wrap the same way. *)
Succ(i) == IF i + 1 = QD THEN 0 ELSE i + 1

Init ==
    /\ lock = NoThread
    /\ pc = [t \in Threads |-> "idle"]
    /\ cur = [t \in Threads |-> NoReq]
    /\ sq_tail = 0
    /\ cq_head = 0
    /\ cq_phase = 1
    /\ done_flag = [c \in Slots |-> 2]
    /\ rbuf = [c \in Slots |-> NoReq]
    /\ cid = [r \in Reqs |-> 0]
    /\ status = [r \in Reqs |-> "new"]
    /\ data = [r \in Reqs |-> NoReq]
    /\ sqe = [c \in Slots |-> NoReq]
    /\ buf4k = [c \in Slots |-> NoReq]
    /\ cqe = [i \in Slots |-> [P |-> 0, CID |-> 0]]
    /\ sq_db = 0
    /\ cq_db = 0
    /\ ctl_head = 0
    /\ exec = [c \in Slots |-> NoReq]
    /\ ctl_tail = 0
    /\ ctl_phase = 1

goto(t, l) == pc' = [pc EXCEPT ![t] = l]

-----------------------------------------------------------------------------
(* The callers: read_impl and write_impl issue batches and poll requests    *)
(* they issued; a request may also be left unpolled.  Nothing bounds what is *)
(* outstanding: READ_DEG requests of each ULT of the core, and write_impl    *)
(* leaves its last ones behind.                                             *)

CallReq(t, r) ==
    /\ pc[t] = "idle"
    /\ Issuer[r] = t
    /\ status[r] = "new"
    /\ cur' = [cur EXCEPT ![t] = r]
    /\ goto(t, "lock")
    /\ UNCHANGED <<lock, sq_tail, cq_head, cq_phase, done_flag, rbuf, cid, status,
                   data, sqe, buf4k, cqe, sq_db, cq_db, ctlVars>>

CallCheck(t, r) ==
    /\ pc[t] = "idle"
    /\ Issuer[r] = t
    /\ status[r] = "issued"
    /\ cur' = [cur EXCEPT ![t] = r]
    /\ goto(t, "done1")
    /\ UNCHANGED <<lock, sq_tail, cq_head, cq_phase, done_flag, rbuf, cid, status,
                   data, sqe, buf4k, cqe, sq_db, cq_db, ctlVars>>

(* Mutant of Lock: lock() compiled away although threads are preempted. *)
LockNoop(t) ==
    /\ pc[t] = "lock"
    /\ lock' = t
    /\ goto(t, IF status[cur[t]] = "new" THEN "new_sqe" ELSE "if_cqe")
    /\ UNCHANGED <<cur, sq_tail, cq_head, cq_phase, done_flag, rbuf, cid, status,
                   data, sqe, buf4k, cqe, sq_db, cq_db, ctlVars>>

Lock(t) ==
    /\ pc[t] = "lock"
    /\ lock = NoThread
    /\ lock' = t
    /\ goto(t, IF status[cur[t]] = "new" THEN "new_sqe" ELSE "if_cqe")
    /\ UNCHANGED <<cur, sq_tail, cq_head, cq_phase, done_flag, rbuf, cid, status,
                   data, sqe, buf4k, cqe, sq_db, cq_db, ctlVars>>

-----------------------------------------------------------------------------
(* nvme_read_req / nvme_write_req under the lock.                           *)

(* Mutant of NewSqeFull: the loop waits for the flag without calling check_cq. *)
NewSqeFullNoPoll(t) ==
    /\ pc[t] = "new_sqe"
    /\ done_flag[sq_tail] = 0
    /\ UNCHANGED vars

(* The tail slot is still in use: spin on check_cq. *)
NewSqeFull(t) ==
    /\ pc[t] = "new_sqe"
    /\ done_flag[sq_tail] = 0
    /\ goto(t, "if_cqe")
    /\ UNCHANGED <<lock, cur, sq_tail, cq_head, cq_phase, done_flag, rbuf, cid, status,
                   data, sqe, buf4k, cqe, sq_db, cq_db, ctlVars>>

(* Mutant of NewSqe: the flag of the slot is not reset. *)
NewSqeNoReset(t) ==
    /\ pc[t] = "new_sqe"
    /\ done_flag[sq_tail] # 0
    /\ cid' = [cid EXCEPT ![cur[t]] = sq_tail]
    /\ status' = [status EXCEPT ![cur[t]] = "taken"]
    /\ sq_tail' = Succ(sq_tail)
    /\ goto(t, "fill")
    /\ UNCHANGED <<lock, cur, cq_head, cq_phase, done_flag, rbuf,
                   data, sqe, buf4k, cqe, sq_db, cq_db, ctlVars>>

(* Mutant of NewSqe: the tail slot is taken although its command is not done. *)
NewSqeNoWait(t) ==
    /\ pc[t] = "new_sqe"
    /\ done_flag' = [done_flag EXCEPT ![sq_tail] = 0]
    /\ cid' = [cid EXCEPT ![cur[t]] = sq_tail]
    /\ status' = [status EXCEPT ![cur[t]] = "taken"]
    /\ sq_tail' = Succ(sq_tail)
    /\ goto(t, "fill")
    /\ UNCHANGED <<lock, cur, cq_head, cq_phase, rbuf,
                   data, sqe, buf4k, cqe, sq_db, cq_db, ctlVars>>

(* A slot whose command completed is taken, polled or not. *)
NewSqe(t) ==
    /\ pc[t] = "new_sqe"
    /\ done_flag[sq_tail] # 0
    /\ done_flag' = [done_flag EXCEPT ![sq_tail] = 0]
    /\ cid' = [cid EXCEPT ![cur[t]] = sq_tail]
    /\ status' = [status EXCEPT ![cur[t]] = "taken"]
    /\ sq_tail' = Succ(sq_tail)
    /\ goto(t, "fill")
    /\ UNCHANGED <<lock, cur, cq_head, cq_phase, rbuf,
                   data, sqe, buf4k, cqe, sq_db, cq_db, ctlVars>>

(* A write's data is copied to the bounce page, a read's buffer is noted. *)
Fill(t) ==
    LET r == cur[t]
        c == cid[r]
    IN  /\ pc[t] = "fill"
        /\ sqe' = [sqe EXCEPT ![c] = r]
        /\ rbuf' = [rbuf EXCEPT ![c] = IF r \in Writes THEN NoReq ELSE r]
        /\ buf4k' = [buf4k EXCEPT ![c] = IF r \in Writes THEN r ELSE @]
        /\ goto(t, "doorbell")
        /\ UNCHANGED <<lock, cur, sq_tail, cq_head, cq_phase, done_flag, cid, status,
                       data, cqe, sq_db, cq_db, ctlVars>>

(* Mutant of Doorbell: the entry's own index is written, not the one after it. *)
DoorbellOffByOne(t) ==
    /\ pc[t] = "doorbell"
    /\ sq_db' = cid[cur[t]]
    /\ goto(t, "unlock")
    /\ UNCHANGED <<lock, cur, sq_tail, cq_head, cq_phase, done_flag, rbuf, cid, status,
                   data, sqe, buf4k, cqe, cq_db, ctlVars>>

Doorbell(t) ==
    /\ pc[t] = "doorbell"
    /\ sq_db' = sq_tail
    /\ goto(t, "unlock")
    /\ UNCHANGED <<lock, cur, sq_tail, cq_head, cq_phase, done_flag, rbuf, cid, status,
                   data, sqe, buf4k, cqe, cq_db, ctlVars>>

-----------------------------------------------------------------------------
(* check_cq, called by new_sqe and by nvme_check, always under the lock.    *)

NewEntry == cqe[cq_head].P = cq_phase

CqReturn(t) == goto(t, IF status[cur[t]] = "new" THEN "new_sqe" ELSE "unlock")

CqNothing(t) ==
    /\ pc[t] = "if_cqe"
    /\ ~NewEntry
    /\ CqReturn(t)
    /\ UNCHANGED <<lock, cur, sq_tail, cq_head, cq_phase, done_flag, rbuf, cid, status,
                   data, sqe, buf4k, cqe, sq_db, cq_db, ctlVars>>

(* Mutant of CqCopy: the page of the completion entry's index, not of its CID. *)
CqCopyByIndex(t) ==
    LET c == cqe[cq_head].CID
    IN  /\ pc[t] \in {"if_cqe", "do_cqe"}
        /\ NewEntry
        /\ data' = [r \in Reqs |-> IF r = rbuf[c] THEN buf4k[cq_head] ELSE data[r]]
        /\ goto(t, "mark")
        /\ UNCHANGED <<lock, cur, sq_tail, cq_head, cq_phase, done_flag, rbuf, cid,
                       status, sqe, buf4k, cqe, sq_db, cq_db, ctlVars>>

(* The memcpy from the bounce page to the caller's buffer, if there is one. *)
CqCopy(t) ==
    LET c == cqe[cq_head].CID
    IN  /\ pc[t] \in {"if_cqe", "do_cqe"}
        /\ NewEntry
        /\ data' = [r \in Reqs |-> IF r = rbuf[c] THEN buf4k[c] ELSE data[r]]
        /\ goto(t, "mark")
        /\ UNCHANGED <<lock, cur, sq_tail, cq_head, cq_phase, done_flag, rbuf, cid,
                       status, sqe, buf4k, cqe, sq_db, cq_db, ctlVars>>

CqMark(t) ==
    /\ pc[t] = "mark"
    /\ done_flag' = [done_flag EXCEPT ![cqe[cq_head].CID] = 1]
    /\ cq_head' = Succ(cq_head)
    /\ cq_phase' = IF cq_head + 1 = QD THEN 1 - cq_phase ELSE cq_phase
    /\ goto(t, "do_cqe")
    /\ UNCHANGED <<lock, cur, sq_tail, rbuf, cid, status,
                   data, sqe, buf4k, cqe, sq_db, cq_db, ctlVars>>

(* The completion doorbell is rung once, when the loop has drained the ring. *)
CqDrained(t) ==
    /\ pc[t] = "do_cqe"
    /\ ~NewEntry
    /\ cq_db' = cq_head
    /\ CqReturn(t)
    /\ UNCHANGED <<lock, cur, sq_tail, cq_head, cq_phase, done_flag, rbuf, cid, status,
                   data, sqe, buf4k, cqe, sq_db, ctlVars>>

-----------------------------------------------------------------------------

(* The end of a request function hands the rid to its caller. *)
UnlockReq(t) ==
    /\ pc[t] = "unlock"
    /\ status[cur[t]] = "taken"
    /\ lock' = NoThread
    /\ status' = [status EXCEPT ![cur[t]] = "issued"]
    /\ cur' = [cur EXCEPT ![t] = NoReq]
    /\ goto(t, "idle")
    /\ UNCHANGED <<sq_tail, cq_head, cq_phase, done_flag, rbuf, cid,
                   data, sqe, buf4k, cqe, sq_db, cq_db, ctlVars>>

UnlockCheck(t) ==
    /\ pc[t] = "unlock"
    /\ status[cur[t]] # "taken"
    /\ lock' = NoThread
    /\ goto(t, "done2")
    /\ UNCHANGED <<cur, sq_tail, cq_head, cq_phase, done_flag, rbuf, cid, status,
                   data, sqe, buf4k, cqe, sq_db, cq_db, ctlVars>>

(* nvme_check tests the flag without the lock, before and after check_cq. *)
Done(t) ==
    /\ pc[t] \in {"done1", "done2"}
    /\ done_flag[cid[cur[t]]] = 1
    /\ status' = [status EXCEPT ![cur[t]] = "returned"]
    /\ cur' = [cur EXCEPT ![t] = NoReq]
    /\ goto(t, "idle")
    /\ UNCHANGED <<lock, sq_tail, cq_head, cq_phase, done_flag, rbuf, cid,
                   data, sqe, buf4k, cqe, sq_db, cq_db, ctlVars>>

(* After the second test the caller yields and calls nvme_check again. *)
NotDone(t) ==
    /\ pc[t] \in {"done1", "done2"}
    /\ done_flag[cid[cur[t]]] # 1
    /\ goto(t, IF pc[t] = "done1" THEN "lock" ELSE "done1")
    /\ UNCHANGED <<lock, cur, sq_tail, cq_head, cq_phase, done_flag, rbuf, cid, status,
                   data, sqe, buf4k, cqe, sq_db, cq_db, ctlVars>>

-----------------------------------------------------------------------------
(* The controller.  It fetches entries up to the tail doorbell (an equal    *)
(* head and tail is an empty ring), runs commands in any order, moves the   *)
(* data before posting the completion, and never posts into a full ring.    *)

CtlFetch ==
    /\ ctl_head # sq_db
    /\ exec' = [exec EXCEPT ![ctl_head] = sqe[ctl_head]]
    /\ ctl_head' = Succ(ctl_head)
    /\ UNCHANGED <<hostVars, data, sqe, buf4k, cqe, sq_db, cq_db, ctl_tail, ctl_phase>>

CtlComplete(c) ==
    /\ exec[c] # NoReq
    /\ Succ(ctl_tail) # cq_db
    /\ IF exec[c] \in Writes
       THEN /\ data' = [data EXCEPT ![exec[c]] = buf4k[c]]
            /\ UNCHANGED buf4k
       ELSE /\ buf4k' = [buf4k EXCEPT ![c] = exec[c]]
            /\ UNCHANGED data
    /\ cqe' = [cqe EXCEPT ![ctl_tail] = [P |-> ctl_phase, CID |-> c]]
    /\ exec' = [exec EXCEPT ![c] = NoReq]
    /\ ctl_tail' = Succ(ctl_tail)
    /\ ctl_phase' = IF ctl_tail + 1 = QD THEN 1 - ctl_phase ELSE ctl_phase
    /\ UNCHANGED <<hostVars, sqe, sq_db, cq_db, ctl_head>>

-----------------------------------------------------------------------------

(* The steps of a call that is under way. *)
Step(t) ==
    \/ Lock(t) \/ NewSqeFull(t) \/ NewSqe(t) \/ Fill(t) \/ Doorbell(t)
    \/ CqNothing(t) \/ CqCopy(t) \/ CqMark(t) \/ CqDrained(t)
    \/ UnlockReq(t) \/ UnlockCheck(t) \/ Done(t) \/ NotDone(t)

Next ==
    \/ \E t \in Threads : Step(t) \/ (\E r \in Reqs : CallReq(t, r) \/ CallCheck(t, r))
    \/ CtlFetch
    \/ \E c \in Slots : CtlComplete(c)

Spec == Init /\ [][Next]_vars

(* The scheduler runs every ready ULT (the preemption timer, or the yield in *)
(* the polling loop, sees to it), the Argobots mutex is handed on to its     *)
(* waiters, and the controller keeps executing.  Nobody has to start a call. *)
Fairness ==
    /\ \A t \in Threads : WF_vars(Step(t)) /\ SF_vars(Lock(t))
    /\ WF_vars(CtlFetch)
    /\ \A c \in Slots : SF_vars(CtlComplete(c))

FairSpec == Spec /\ Fairness

-----------------------------------------------------------------------------
(* Who holds a slot.                                                        *)

InRing(i, head, tail) ==
    IF head <= tail THEN head <= i /\ i < tail ELSE head <= i \/ i < tail

(* Submission entries the controller has been told of and has not fetched. *)
Queued(c) == InRing(c, ctl_head, sq_db)
Executing(c) == exec[c] # NoReq
(* Completion entries the controller posted and check_cq has not consumed. *)
Posted(i) ==
    IF cq_phase = ctl_phase THEN cq_head <= i /\ i < ctl_tail
                            ELSE cq_head <= i \/ i < ctl_tail
Filling == {"fill", "doorbell"}
Critical == {"new_sqe", "if_cqe", "do_cqe", "mark", "unlock"} \cup Filling

-----------------------------------------------------------------------------
(* Properties.                                                              *)

(* Every variable keeps its type. *)
TypeOK ==
    /\ lock \in Threads \cup {NoThread}
    /\ pc \in [Threads -> Critical \cup {"idle", "lock", "done1", "done2"}]
    /\ cur \in [Threads -> Contents]
    /\ sq_tail \in Slots /\ cq_head \in Slots /\ cq_phase \in {0, 1}
    /\ done_flag \in [Slots -> {0, 1, 2}]
    /\ rbuf \in [Slots -> Contents]
    /\ cid \in [Reqs -> Slots]
    /\ status \in [Reqs -> {"new", "taken", "issued", "returned"}]
    /\ data \in [Reqs -> Contents]
    /\ sqe \in [Slots -> Contents] /\ buf4k \in [Slots -> Contents]
    /\ cqe \in [Slots -> [P : {0, 1}, CID : Slots]]
    /\ sq_db \in Slots /\ cq_db \in Slots
    /\ ctl_head \in Slots /\ ctl_tail \in Slots /\ ctl_phase \in {0, 1}
    /\ exec \in [Slots -> Contents]

(* nvme_check(rid) returns 1 only after the request's own data arrived, even *)
(* though new_sqe may have given the polled slot to another request since.   *)
CompletionSound == \A r \in Reqs : status[r] = "returned" => data[r] = r

(* No caller's buffer and no block ever receives another request's data. *)
NoCrossTalk == \A r \in Reqs : data[r] \in {r, NoReq}

(* A command the controller or check_cq will still act on belongs to a       *)
(* request that has not returned: no copy into a buffer its owner reclaimed. *)
InUse(c) == Queued(c) \/ Executing(c) \/ (\E i \in Slots : Posted(i) /\ cqe[i].CID = c)
LiveDestination ==
    \A c \in Slots : InUse(c) =>
        /\ sqe[c] \in Reqs
        /\ cid[sqe[c]] = c
        /\ status[sqe[c]] \in {"taken", "issued"}

(* The phase test of check_cq sees exactly the entries the controller posted, *)
(* and each of them completes a different slot that is still marked in use:   *)
(* no completion is consumed twice and none is skipped by a lap of the ring.  *)
CompletionsMatch ==
    /\ NewEntry <=> Posted(cq_head)
    /\ \A i \in Slots : Posted(i) =>
          /\ done_flag[cqe[i].CID] = 0
          /\ ~Queued(cqe[i].CID)
          /\ ~Executing(cqe[i].CID)
          /\ \A j \in Slots : Posted(j) /\ cqe[j].CID = cqe[i].CID => i = j

(* The host never touches the entry, the page of a write or the buffer note   *)
(* of a slot from the doorbell to the completion.                             *)
DMAStable ==
    [][\A c \in Slots : Queued(c) \/ Executing(c) =>
          /\ UNCHANGED <<sqe[c], rbuf[c]>>
          /\ sqe[c] \in Writes => UNCHANGED buf4k[c]]_vars

(* A slot marked in use is on its way: being filled, queued, executing or     *)
(* posted.                                                                    *)
OnItsWay(c) == InUse(c) \/ \E t \in Threads : pc[t] \in Filling /\ cid[cur[t]] = c

(* The doorbell of the QD-th outstanding request names the entry the          *)
(* controller would fetch next: the full ring is read as an empty one.        *)
RingDead == \A c \in Slots : done_flag[c] = 0 /\ ~OnItsWay(c)

(* No slot is ever lost by itself: nothing but the doorbell that fills the    *)
(* ring takes a slot in use off its way, and that one loses them all.         *)
NothingLost == RingDead \/ \A c \in Slots : done_flag[c] = 0 => OnItsWay(c)

(* A ring that was filled before the controller looked stays as it is: no     *)
(* thread and no completion leads out of it (new_sqe and check_cq).           *)
DeadForever == [][RingDead => RingDead']_vars

(* A call ends, nvme_read_req and nvme_write_req by handing out a slot and    *)
(* the polling of a request by its completion, in a live ring (new_sqe,       *)
(* nvme_check).  In a dead one new_sqe keeps the lock and its loop.           *)
CallsEnd == \A t \in Threads : cur[t] # NoReq ~> cur[t] = NoReq \/ RingDead

-----------------------------------------------------------------------------
(* The abstract specification this one implements.                          *)

phaseOf ==
    [r \in Reqs |-> IF status[r] \in {"new", "returned"} THEN status[r]
                    ELSE IF data[r] = r THEN "done" ELSE "pending"]

Abstract == INSTANCE AsyncIO WITH phase <- phaseOf

(* Seen through its requests, the queue pair is the asynchronous I/O of       *)
(* AsyncIO: one submission, one delivery of the right data, then one return.  *)
ImplementsAsyncIO == Abstract!Spec

-----------------------------------------------------------------------------
(* The inductive invariant.                                                 *)

LockInv == \A t \in Threads : pc[t] \in Critical <=> lock = t

(* Where a thread is says what it works on, and on behalf of which call. *)
CallAt(t) ==
    /\ pc[t] = "idle" <=> cur[t] = NoReq
    /\ cur[t] # NoReq => Issuer[cur[t]] = t
    /\ pc[t] \in {"lock", "if_cqe", "do_cqe", "mark"} => status[cur[t]] \in {"new", "issued"}
    /\ pc[t] = "new_sqe" => status[cur[t]] = "new"
    /\ pc[t] \in Filling => status[cur[t]] = "taken"
    /\ pc[t] = "unlock" => status[cur[t]] \in {"taken", "issued"}
    /\ pc[t] \in {"done1", "done2"} => status[cur[t]] = "issued"
CallInv ==
    /\ \A t \in Threads : CallAt(t)
    /\ \A r \in Reqs : status[r] = "taken" =>
          cur[Issuer[r]] = r /\ pc[Issuer[r]] \in Filling \cup {"unlock"}

(* The tail doorbell lags behind sq_tail only while a slot is filled. *)
TailInv ==
    /\ \A t \in Threads : pc[t] \in Filling =>
          sq_tail = Succ(sq_db) /\ cid[cur[t]] = sq_db /\ done_flag[sq_db] = 0
    /\ (\A t \in Threads : pc[t] \notin Filling) => sq_tail = sq_db

(* The head doorbell, cq_head and the controller's tail, in ring order, and   *)
(* the phase bits of the entries before and after the controller's tail.      *)
RingInv ==
    /\ IF cq_phase = ctl_phase
       THEN cq_head <= ctl_tail /\ (cq_db <= cq_head \/ ctl_tail < cq_db)
       ELSE ctl_tail < cq_db /\ cq_db <= cq_head
    /\ \A i \in Slots :
          cqe[i].P = IF i < ctl_tail THEN ctl_phase ELSE 1 - ctl_phase

(* A slot is in at most one place. *)
PlaceInv ==
    /\ \A c \in Slots :
          /\ Queued(c) => done_flag[c] = 0 /\ ~Executing(c)
          /\ Executing(c) => done_flag[c] = 0 /\ exec[c] = sqe[c]
    /\ \A i \in Slots : Posted(i) =>
          /\ done_flag[cqe[i].CID] = 0
          /\ ~Queued(cqe[i].CID)
          /\ ~Executing(cqe[i].CID)
          /\ \A t \in Threads : pc[t] \in Filling => cqe[i].CID # sq_db
          /\ \A j \in Slots : Posted(j) /\ cqe[j].CID = cqe[i].CID => i = j
    /\ \A t \in Threads : pc[t] \in Filling => ~Executing(sq_db)

(* A filled slot carries the request it was given to, and its page or its     *)
(* buffer holds what the next step needs.                                     *)
Carries(c) ==
    /\ sqe[c] \in Reqs
    /\ cid[sqe[c]] = c
    /\ status[sqe[c]] \in {"taken", "issued"}
    /\ rbuf[c] = IF sqe[c] \in Writes THEN NoReq ELSE sqe[c]
Loaded(c) ==
    /\ Carries(c)
    /\ data[sqe[c]] = NoReq
    /\ sqe[c] \in Writes => buf4k[c] = sqe[c]
Moved(c) ==
    /\ Carries(c)
    /\ IF sqe[c] \in Writes THEN data[sqe[c]] = sqe[c] ELSE buf4k[c] = sqe[c]

SlotInv ==
    /\ \A c \in Slots : Queued(c) \/ Executing(c) => Loaded(c)
    /\ \A i \in Slots : Posted(i) => Moved(cqe[i].CID)
    /\ \A t \in Threads :
          /\ pc[t] = "doorbell" => Loaded(sq_db) /\ sqe[sq_db] = cur[t]
          /\ pc[t] = "mark" => /\ NewEntry
                               /\ LET c == cqe[cq_head].CID IN data[sqe[c]] = sqe[c]

(* A request without its data still owns the slot it was given. *)
ReqInv ==
    \A r \in Reqs :
        /\ data[r] \in {r, NoReq}
        /\ status[r] = "new" => data[r] = NoReq
        /\ status[r] = "returned" => data[r] = r
        /\ status[r] \in {"taken", "issued"} /\ data[r] # r =>
              /\ done_flag[cid[r]] = 0
              /\ sqe[cid[r]] = r \/ (pc[Issuer[r]] = "fill" /\ cur[Issuer[r]] = r)
        /\ \A t \in Threads : pc[t] = "fill" /\ r # cur[t] /\ cid[r] = sq_db =>
              status[r] = "new" \/ data[r] = r
FillInv == \A t \in Threads : pc[t] = "fill" => data[cur[t]] = NoReq

IInv ==
    /\ TypeOK /\ LockInv /\ CallInv /\ TailInv /\ RingInv
    /\ PlaceInv /\ SlotInv /\ ReqInv /\ FillInv
=============================================================================
