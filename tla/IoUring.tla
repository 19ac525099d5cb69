------------------------------ MODULE IoUring -------------------------------
(***************************************************************************)
(* The io_uring backend of src/newlib/hook.c, as one core's ULTs use it:   *)
(* a request takes the next submission entry, is submitted with others     *)
(* once TH1 are pending or one of them has yielded TH2 + 1 times, and is   *)
(* waited for through the flag of its entry, by whichever thread happens   *)
(* to look at the completion queue.                                        *)
(*                                                                         *)
(* This is the build with USE_PREEMPT=0, where threads switch only where   *)
(* they yield: a step is what runs between two yields, or less.  Nothing   *)
(* else makes the steps of Prepare one, there is no lock.  A transfer that *)
(* moves no byte or fails (cqe->res <= 0) is a completion with ok = FALSE. *)
(* The completion queue is drawn as long as it gets; the kernel's is of    *)
(* 2 QD entries, and the failed ones in front of it stay.                  *)
(***************************************************************************)
EXTENDS Integers, Sequences, FiniteSets, SequencesExt

CONSTANTS Threads,
          QD,           \* IO_URING_QD, the entries of a ring
          TH1, TH2      \* IO_URING_TH1, IO_URING_TH2

(* A batch is smaller than the ring, so io_uring_get_sqe finds an entry. *)
ASSUME RingAssumption == QD \in Nat \ {0} /\ TH1 \in Nat /\ TH2 \in Nat /\ TH1 < QD

VARIABLES
    sq,             \* the entries that are prepared and not submitted
    inflight,       \* the entries the kernel works on
    cq,             \* the completion queue
    issued,         \* requests so far; modulo QD, the next entry
    done_flag, pending_req, submit_cnt,
    at,             \* per thread: out of the backend, spin, wait
    mine,           \* per thread: its request, an entry
    sub_cnt, spins, \* per thread: locals of __io_uring_bottom
    failed,         \* history: the requests that completed with res <= 0
    alone           \* history, per thread: nothing of the entry's earlier
                    \* requests was left when it got the entry

ring == <<sq, inflight, cq, issued, done_flag, pending_req, submit_cnt>>
ringVars == <<ring, at, mine, sub_cnt, spins, failed, alone>>

(* An entry has an index, which is also its user_data, and is filled anew   *)
(* for each request.                                                        *)
Entry(nr) == [slot |-> nr % QD, nr |-> nr]

RingInit ==
    /\ sq = <<>> /\ inflight = {} /\ cq = <<>>
    /\ issued = 0
    /\ done_flag = [s \in 0..(QD - 1) |-> 0]
    /\ pending_req = 0 /\ submit_cnt = 0
    /\ at = [t \in Threads |-> "out"]
    /\ mine = [t \in Threads |-> Entry(0)]
    /\ sub_cnt = [t \in Threads |-> 0]
    /\ spins = [t \in Threads |-> 0]
    /\ failed = {}
    /\ alone = [t \in Threads |-> TRUE]

(* No earlier request with the entry is prepared, at work or in the queue. *)
Fresh(e) == \A d \in inflight \cup ToSet(sq) \cup ToSet(cq) : d.slot # e.slot

enter(entries, pending) ==
    /\ inflight' = inflight \cup ToSet(entries)
    /\ sq' = <<>>
    /\ pending_req' = pending
    /\ submit_cnt' = (submit_cnt + 1) % 65536

(* Mutant of submit: the count of pending requests goes on. *)
submitUncounted(entries) == enter(entries, pending_req)

(* io_uring_submit hands all prepared entries to the kernel. *)
submit(entries) == enter(entries, 0)

(* io_uring_get_sqe and the filling of the entry, up to the first yield. *)
prepare(t, clear, full) ==
    /\ at[t] = "out"
    /\ LET e == Entry(issued) IN
           /\ mine' = [mine EXCEPT ![t] = e]
           /\ alone' = [alone EXCEPT ![t] = Fresh(e)]
           /\ done_flag' = [done_flag EXCEPT ![e.slot] = IF clear THEN 0 ELSE @]
           /\ IF full THEN /\ submit(Append(sq, e))
                           /\ at' = [at EXCEPT ![t] = "wait"]
                           /\ UNCHANGED <<sub_cnt, spins>>
                      ELSE /\ sq' = Append(sq, e)
                           /\ pending_req' = pending_req + 1
                           /\ sub_cnt' = [sub_cnt EXCEPT ![t] = submit_cnt]
                           /\ spins' = [spins EXCEPT ![t] = 1]
                           /\ at' = [at EXCEPT ![t] = "spin"]
                           /\ UNCHANGED <<inflight, submit_cnt>>
    /\ issued' = issued + 1
    /\ UNCHANGED <<cq, failed>>

(* Mutant of Prepare: the entry's flag is left as its last user left it. *)
PrepareDirty(t) == prepare(t, FALSE, pending_req >= TH1)

Prepare(t) == prepare(t, TRUE, pending_req >= TH1)

leaveSpin(t) ==
    /\ at' = [at EXCEPT ![t] = "wait"]
    /\ sub_cnt' = [sub_cnt EXCEPT ![t] = 0]
    /\ spins' = [spins EXCEPT ![t] = 0]

(* Mutant of Spin: only a full batch is submitted. *)
SpinOnly(t) ==
    /\ at[t] = "spin"
    /\ sub_cnt[t] # submit_cnt
    /\ leaveSpin(t)
    /\ UNCHANGED <<ring, mine, failed, alone>>

(* Back from a yield: someone has submitted, or it is time to, or yield. *)
Spin(t) ==
    /\ at[t] = "spin"
    /\ \/ /\ sub_cnt[t] # submit_cnt
          /\ leaveSpin(t)
          /\ UNCHANGED ring
       \/ /\ sub_cnt[t] = submit_cnt /\ spins[t] > TH2
          /\ submit(sq)
          /\ leaveSpin(t)
          /\ UNCHANGED <<cq, issued, done_flag>>
       \/ /\ sub_cnt[t] = submit_cnt /\ spins[t] <= TH2
          /\ spins' = [spins EXCEPT ![t] = @ + 1]
          /\ UNCHANGED <<ring, at, sub_cnt>>
    /\ UNCHANGED <<mine, failed, alone>>

Good(c) == c.ok
Goods == Len(SelectSeq(cq, Good))

(* __io_uring_check looks at all completions and takes as many off the      *)
(* queue as were good; then the thread looks at its own flag.               *)
Check(t) ==
    /\ at[t] = "wait"
    /\ done_flag' = [s \in DOMAIN done_flag |->
                        IF \E c \in ToSet(cq) : c.ok /\ c.slot = s THEN 1
                        ELSE done_flag[s]]
    /\ cq' = SubSeq(cq, Goods + 1, Len(cq))
    /\ IF done_flag'[mine[t].slot] = 1
         THEN /\ at' = [at EXCEPT ![t] = "out"]
              /\ mine' = [mine EXCEPT ![t] = Entry(0)]
              /\ alone' = [alone EXCEPT ![t] = TRUE]
         ELSE UNCHANGED <<at, mine, alone>>
    /\ UNCHANGED <<sq, inflight, issued, pending_req, submit_cnt, sub_cnt,
                   spins, failed>>

(* The kernel: a request completes, in any order. *)
Complete(e, ok) ==
    /\ e \in inflight
    /\ inflight' = inflight \ {e}
    /\ cq' = Append(cq, [slot |-> e.slot, nr |-> e.nr, ok |-> ok])
    /\ failed' = IF ok THEN failed ELSE failed \cup {e.nr}
    /\ UNCHANGED <<sq, issued, done_flag, pending_req, submit_cnt, at, mine,
                   sub_cnt, spins, alone>>

RingStep(t) == Spin(t) \/ Check(t)
Kernel == \E e \in inflight, ok \in BOOLEAN : Complete(e, ok)

-----------------------------------------------------------------------------
Outstanding(e) == e \in inflight \cup ToSet(sq)

(* Between two yields the count of pending requests is the number of        *)
(* entries the next io_uring_submit will hand over.                         *)
PendingExact == pending_req = Len(sq) /\ Len(sq) <= TH1

(* io_uring_get_sqe hands the entries out in turn and does not know who      *)
(* still waits: QD requests later a thread's entry is somebody else's.       *)
Lapped(t) == issued > mine[t].nr + QD
Undisturbed(t) == alone[t] /\ ~Lapped(t)

OwnDone(t) == ~Outstanding(mine[t]) /\ mine[t].nr \notin failed
Leaves(t) == at[t] = "wait" /\ at'[t] = "out"

(* While a thread is alone with its entry it leaves the backend when its own *)
(* request has completed, with success, and not before: the flag, which any  *)
(* thread may set from a queue that is not always emptied, is never taken    *)
(* for an earlier request's (hook.c, __io_uring_check and the loop after it).*)
OwnCompletion == [][\A t \in Threads : Leaves(t) /\ Undisturbed(t) => OwnDone(t)]_ringVars

(* Every request completes and lets its thread go, unless it failed or its   *)
(* entry was given out again: those that fail or move no byte do not take    *)
(* others with them.                                                         *)
RequestsReturn == \A t \in Threads :
    at[t] # "out" ~> at[t] = "out" \/ mine[t].nr \in failed \/ Lapped(t)
=============================================================================
