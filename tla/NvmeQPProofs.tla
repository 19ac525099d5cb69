---------------------------- MODULE NvmeQPProofs ----------------------------
(***************************************************************************)
(* Proofs about the queue pair of NvmeQP, for every set of threads and     *)
(* requests and every ring size of at least two entries.                   *)
(***************************************************************************)
EXTENDS NvmeQP, TLAPS

USE QDAssumption DEF Slots, Contents

(* A ring index stays in the ring. *)
LEMMA SuccType == \A i \in Slots : Succ(i) \in Slots
  BY DEF Succ

-----------------------------------------------------------------------------
(* Type correctness.                                                        *)

(* A freshly constructed queue pair has the types (QP::QP). *)
LEMMA InitTypeOK == Init => TypeOK
  BY DEF Init, TypeOK, Critical, Filling

(* No step of a call, no new call and no step of the controller breaks a type.  *)
LEMMA StepTypeOK ==
  ASSUME TypeOK, NEW t \in Threads, Step(t)
  PROVE  TypeOK'
<1> USE SuccType DEF TypeOK, Critical, Filling, goto, ctlVars
<1>1. CASE Lock(t)
  BY <1>1 DEF Lock
<1>2. CASE NewSqeFull(t)
  BY <1>2 DEF NewSqeFull
<1>3. CASE NewSqe(t)
  BY <1>3 DEF NewSqe
<1>4. CASE Fill(t)
  BY <1>4, NoReqAssumption DEF Fill
<1>5. CASE Doorbell(t)
  BY <1>5 DEF Doorbell
<1>6. CASE CqNothing(t)
  BY <1>6 DEF CqNothing, CqReturn
<1>7. CASE CqCopy(t)
  BY <1>7 DEF CqCopy
<1>8. CASE CqMark(t)
  <2>1. cqe[cq_head].CID \in Slots
    OBVIOUS
  <2>2. cq_head' \in Slots /\ cq_phase' \in {0, 1}
    BY <1>8 DEF CqMark
  <2>3. done_flag' \in [Slots -> {0, 1, 2}]
    BY <1>8, <2>1 DEF CqMark
  <2> QED
    BY <1>8, <2>2, <2>3 DEF CqMark
<1>9. CASE CqDrained(t)
  BY <1>9 DEF CqDrained, CqReturn
<1>10. CASE UnlockReq(t)
  BY <1>10 DEF UnlockReq
<1>11. CASE UnlockCheck(t)
  BY <1>11 DEF UnlockCheck
<1>12. CASE Done(t)
  BY <1>12 DEF Done
<1>13. CASE NotDone(t)
  BY <1>13 DEF NotDone
<1> QED
  BY <1>1, <1>2, <1>3, <1>4, <1>5, <1>6, <1>7, <1>8, <1>9, <1>10, <1>11,
     <1>12, <1>13 DEF Step

(* The start of a request function or of nvme_check keeps the types. *)
LEMMA CallTypeOK ==
  ASSUME TypeOK, NEW t \in Threads, NEW r \in Reqs, CallReq(t, r) \/ CallCheck(t, r)
  PROVE  TypeOK'
<1>1. pc' \in [Threads -> Critical \cup {"idle", "lock", "done1", "done2"}]
  BY DEF TypeOK, goto, CallReq, CallCheck
<1>2. cur' \in [Threads -> Contents]
  BY DEF TypeOK, CallReq, CallCheck, Contents
<1> QED
  BY <1>1, <1>2 DEF TypeOK, ctlVars, CallReq, CallCheck

(* The controller fetching an entry keeps the types. *)
LEMMA FetchTypeOK ==
  ASSUME TypeOK, CtlFetch
  PROVE  TypeOK'
<1>1. ctl_head' \in Slots
  BY SuccType DEF TypeOK, CtlFetch
<1>2. exec' \in [Slots -> Contents]
  BY DEF TypeOK, CtlFetch
<1> QED
  BY <1>1, <1>2 DEF TypeOK, CtlFetch, hostVars

(* The controller posting a completion keeps the types. *)
LEMMA CompleteTypeOK ==
  ASSUME TypeOK, NEW c \in Slots, CtlComplete(c)
  PROVE  TypeOK'
<1> USE DEF TypeOK
<1>1. ctl_tail' \in Slots /\ ctl_phase' \in {0, 1}
  BY SuccType DEF CtlComplete
<1>2. data' \in [Reqs -> Contents] /\ buf4k' \in [Slots -> Contents]
  BY DEF CtlComplete
<1>3. cqe' \in [Slots -> [P : {0, 1}, CID : Slots]]
  <2>1. [P |-> ctl_phase, CID |-> c] \in [P : {0, 1}, CID : Slots]
    OBVIOUS
  <2> QED
    BY <2>1 DEF CtlComplete
<1>4. exec' \in [Slots -> Contents]
  BY DEF CtlComplete
<1> QED
  BY <1>1, <1>2, <1>3, <1>4 DEF CtlComplete, hostVars

(* Every variable of the queue pair keeps its type. *)
THEOREM TypeCorrect == Spec => []TypeOK
<1>1. TypeOK /\ [Next]_vars => TypeOK'
  <2> SUFFICES ASSUME TypeOK, [Next]_vars PROVE TypeOK'
    OBVIOUS
  <2>1. CASE Next
    BY <2>1, StepTypeOK, CallTypeOK, FetchTypeOK, CompleteTypeOK DEF Next
  <2>2. CASE UNCHANGED vars
    BY <2>2 DEF vars, hostVars, ctlVars, TypeOK
  <2> QED
    BY <2>1, <2>2
<1> QED
  BY InitTypeOK, <1>1, PTL DEF Spec

-----------------------------------------------------------------------------
(* Ring intervals.                                                          *)

(* Advancing the tail adds at most the old tail entry: when it catches up    *)
(* with the head the interval is read as empty.                              *)
LEMMA RingPush ==
  ASSUME NEW h \in Slots, NEW k \in Slots, NEW c \in Slots, InRing(c, h, Succ(k))
  PROVE  InRing(c, h, k) \/ c = k
  BY DEF InRing, Succ

(* Advancing the head of an interval that is not empty removes the head entry. *)
LEMMA RingPop ==
  ASSUME NEW h \in Slots, NEW k \in Slots, h # k
  PROVE  /\ InRing(h, h, k)
         /\ \A c \in Slots : InRing(c, Succ(h), k) => InRing(c, h, k) /\ c # h
  BY DEF InRing, Succ

(* The phase bit of the entry at cq_head tells whether it was posted. *)
LEMMA NewEntryPosted ==
  ASSUME TypeOK, RingInv
  PROVE  NewEntry <=> Posted(cq_head)
<1>1. cqe[cq_head].P = IF cq_head < ctl_tail THEN ctl_phase ELSE 1 - ctl_phase
  BY DEF TypeOK, RingInv
<1> QED
  BY <1>1 DEF TypeOK, RingInv, NewEntry, Posted

-----------------------------------------------------------------------------
(* Steps that only move a thread between two places that own nothing.       *)

slotVars == <<sq_tail, cq_head, cq_phase, done_flag, rbuf, cid, data, sqe, buf4k, cqe,
              sq_db, cq_db, ctl_head, exec, ctl_tail, ctl_phase>>

(* Thread t is not between new_sqe and the doorbell or between copy and mark. *)
Plain(l) == l \notin Filling \cup {"mark"}

MovesOnly(t) ==
    /\ UNCHANGED slotVars
    /\ \A u \in Threads \ {t} : pc'[u] = pc[u] /\ cur'[u] = cur[u]
    /\ Plain(pc[t]) /\ Plain(pc'[t])

(* The rings, and the places that own a slot, are as before. *)
LEMMA RingInvStable ==
  ASSUME RingInv, UNCHANGED slotVars
  PROVE  RingInv'
  BY DEF RingInv, slotVars

(* Requests and slots keep what is known of them while only a thread moves. *)
LEMMA PlainStable ==
  ASSUME TypeOK, NEW t \in Threads, MovesOnly(t), TailInv, PlaceInv, FillInv
  PROVE  TailInv' /\ PlaceInv' /\ FillInv'
<1> USE DEF MovesOnly, Plain
<1>1. \A u \in Threads :
      /\ pc[u] \in Filling <=> pc'[u] \in Filling
      /\ pc[u] = "fill" <=> pc'[u] = "fill"
      /\ pc[u] \in Filling => cur'[u] = cur[u]
  BY DEF TypeOK, Filling
<1>2. TailInv'
  BY <1>1 DEF TailInv, slotVars
<1>3. PlaceInv'
  BY <1>1 DEF PlaceInv, slotVars, Queued, Executing, Posted
<1>4. FillInv'
  BY <1>1 DEF FillInv, slotVars, Filling
<1> QED
  BY <1>2, <1>3, <1>4

(* Moving a thread between plain places disturbs no slot and no request; nor    *)
(* does handing a rid to the caller.                                            *)
LEMMA QuietStep ==
  ASSUME IInv, NEW t \in Threads, MovesOnly(t),
         \A r \in Reqs : \/ status'[r] = status[r]
                         \/ status[r] = "taken" /\ status'[r] = "issued"
  PROVE  TailInv' /\ RingInv' /\ PlaceInv' /\ SlotInv' /\ ReqInv' /\ FillInv'
<1> USE DEF IInv
<1>1. TailInv' /\ PlaceInv' /\ FillInv' /\ RingInv'
  BY PlainStable, RingInvStable DEF MovesOnly
<1>2. \A u \in Threads :
      /\ pc[u] = "fill" <=> pc'[u] = "fill"
      /\ pc[u] = "doorbell" <=> pc'[u] = "doorbell"
      /\ pc[u] = "mark" <=> pc'[u] = "mark"
      /\ pc[u] \in Filling => cur'[u] = cur[u]
  BY DEF TypeOK, Filling, MovesOnly, Plain
<1>3. SlotInv'
  BY <1>2 DEF SlotInv, MovesOnly, slotVars, Queued, Executing, Posted, NewEntry, Loaded, Moved,
            Carries, Filling
<1>4. ReqInv'
  <2> SUFFICES ASSUME NEW r \in Reqs PROVE ReqInv!(r)'
    BY DEF ReqInv
  <2> QED
    BY <1>2, IssuerAssumption DEF ReqInv, MovesOnly, slotVars, Filling
<1> QED
  BY <1>1, <1>3, <1>4

(* A step of t that changes no status keeps CallInv if it keeps CallAt(t) and  *)
(* does not drop a request that was just given a slot.                         *)
LEMMA CallStable ==
  ASSUME TypeOK, CallInv, NEW t \in Threads,
         status' = status,
         \A u \in Threads \ {t} : pc'[u] = pc[u] /\ cur'[u] = cur[u],
         CallAt(t)',
         \/ pc[t] \notin Filling \cup {"unlock"}
         \/ pc'[t] \in Filling \cup {"unlock"} /\ cur'[t] = cur[t]
         \/ status[cur[t]] # "taken"
  PROVE  CallInv'
<1>1. \A u \in Threads : CallAt(u)'
  BY DEF CallInv, CallAt
<1>2. ASSUME NEW r \in Reqs, status'[r] = "taken"
      PROVE  cur'[Issuer[r]] = r /\ pc'[Issuer[r]] \in Filling \cup {"unlock"}
  BY <1>2, IssuerAssumption DEF CallInv, TypeOK
<1> QED
  BY <1>1, <1>2 DEF CallInv

(* Starting a call, taking the mutex, the tests that find nothing.              *)
LEMMA PlainSteps ==
  ASSUME IInv, NEW t \in Threads, NEW r \in Reqs,
         \/ CallReq(t, r) \/ CallCheck(t, r) \/ Lock(t) \/ NewSqeFull(t)
         \/ CqNothing(t) \/ UnlockCheck(t) \/ NotDone(t)
  PROVE  IInv'
<1> USE DEF IInv
<1>1. TypeOK'
  BY StepTypeOK, CallTypeOK DEF Step
<1>2. MovesOnly(t) /\ status' = status
  BY DEF TypeOK, MovesOnly, Plain, Filling, Critical, slotVars, ctlVars, goto, CqReturn,
         CallReq, CallCheck, Lock, NewSqeFull, CqNothing, UnlockCheck, NotDone
<1>3. LockInv'
  <2> USE NoThreadAssumption DEF TypeOK, LockInv, Critical, Filling, goto
  <2>1. CASE CallReq(t, r) \/ CallCheck(t, r)
    <3>1. /\ lock' = lock /\ pc[t] = "idle"
          /\ \E l \in {"lock", "done1"} : pc' = [pc EXCEPT ![t] = l]
      BY <2>1 DEF CallReq, CallCheck
    <3> QED
      BY <3>1
  <2>2. CASE Lock(t)
    BY <2>2 DEF Lock
  <2>3. CASE NewSqeFull(t) \/ CqNothing(t)
    <3>1. /\ lock' = lock /\ pc[t] \in {"new_sqe", "if_cqe"}
          /\ \E l \in {"if_cqe", "new_sqe", "unlock"} : pc' = [pc EXCEPT ![t] = l]
      BY <2>3 DEF NewSqeFull, CqNothing, CqReturn
    <3> QED
      BY <3>1
  <2>4. CASE UnlockCheck(t)
    BY <2>4 DEF UnlockCheck
  <2>5. CASE NotDone(t)
    BY <2>5 DEF NotDone
  <2> QED
    BY <2>1, <2>2, <2>3, <2>4, <2>5
<1>4. CallInv'
  <2> USE NoReqAssumption, IssuerAssumption DEF TypeOK, CallAt, Filling, goto
  <2> CallAt(t)
    BY DEF CallInv
  <2>1. CASE CallReq(t, r) \/ CallCheck(t, r)
    <3>1. CallAt(t)'
      BY <2>1 DEF CallReq, CallCheck
    <3> QED
      BY <2>1, <3>1, CallStable DEF CallReq, CallCheck
  <2>2. CASE Lock(t)
    <3>1. CallAt(t)'
      BY <2>2 DEF Lock
    <3> QED
      BY <2>2, <3>1, CallStable DEF Lock
  <2>3. CASE NewSqeFull(t)
    BY <2>3, CallStable DEF NewSqeFull
  <2>4. CASE CqNothing(t)
    BY <2>4, CallStable DEF CqNothing, CqReturn
  <2>5. CASE UnlockCheck(t)
    BY <2>5, CallStable DEF UnlockCheck
  <2>6. CASE NotDone(t)
    BY <2>6, CallStable DEF NotDone
  <2> QED
    BY <2>1, <2>2, <2>3, <2>4, <2>5, <2>6
<1> QED
  BY <1>1, <1>2, <1>3, <1>4, QuietStep

(* The end of a request function.                                              *)
LEMMA UnlockReqStep ==
  ASSUME IInv, NEW t \in Threads, UnlockReq(t)
  PROVE  IInv'
<1> USE DEF IInv
<1>1. TypeOK'
  BY StepTypeOK DEF Step
<1>2. MovesOnly(t)
  BY DEF TypeOK, MovesOnly, Plain, Filling, slotVars, ctlVars, goto, UnlockReq
<1>3. cur[t] \in Reqs /\ Issuer[cur[t]] = t
  BY DEF CallInv, CallAt, TypeOK, UnlockReq
<1>4. \A r \in Reqs : \/ status'[r] = status[r] /\ r # cur[t]
                      \/ status[r] = "taken" /\ status'[r] = "issued"
  BY DEF UnlockReq, TypeOK
<1>5. LockInv'
  BY NoThreadAssumption DEF TypeOK, LockInv, Critical, Filling, goto, UnlockReq
<1>6. CallInv'
  <2>1. \A u \in Threads : CallAt(u)'
    BY <1>3, NoReqAssumption DEF UnlockReq, goto, TypeOK, CallInv, CallAt, Filling
  <2>2. ASSUME NEW r \in Reqs, status'[r] = "taken"
        PROVE  cur'[Issuer[r]] = r /\ pc'[Issuer[r]] \in Filling \cup {"unlock"}
    BY <2>2, <1>3, <1>4, IssuerAssumption DEF UnlockReq, goto, TypeOK, CallInv
  <2> QED
    BY <2>1, <2>2 DEF CallInv
<1> QED
  BY <1>1, <1>2, <1>4, <1>5, <1>6, QuietStep

(* The flag of the polled slot is only raised when the request's data is there, *)
(* whoever holds the slot now; and no slot in use belongs to the request.       *)
LEMMA DoneStep ==
  ASSUME IInv, NEW t \in Threads, Done(t)
  PROVE  IInv'
<1> USE DEF IInv
<1>1. TypeOK'
  BY StepTypeOK DEF Step
<1>2. MovesOnly(t)
  BY DEF TypeOK, MovesOnly, Plain, Filling, slotVars, ctlVars, goto, Done
<1>3. /\ cur[t] \in Reqs /\ Issuer[cur[t]] = t
      /\ status[cur[t]] = "issued"
      /\ done_flag[cid[cur[t]]] = 1
  BY DEF CallInv, CallAt, TypeOK, Done
<1>4. data[cur[t]] = cur[t]
  BY <1>3 DEF ReqInv
<1>5. \A r \in Reqs : status'[r] = IF r = cur[t] THEN "returned" ELSE status[r]
  BY DEF Done, TypeOK
<1>6. LockInv'
  BY NoThreadAssumption DEF TypeOK, LockInv, Critical, Filling, goto, Done
<1>7. CallInv'
  <2>1. \A u \in Threads : CallAt(u)'
    BY <1>3, <1>5, NoReqAssumption DEF Done, goto, TypeOK, CallInv, CallAt, Filling
  <2>2. ASSUME NEW r \in Reqs, status'[r] = "taken"
        PROVE  cur'[Issuer[r]] = r /\ pc'[Issuer[r]] \in Filling \cup {"unlock"}
    BY <2>2, <1>3, <1>5, IssuerAssumption DEF Done, goto, TypeOK, CallInv, Filling
  <2> QED
    BY <2>1, <2>2 DEF CallInv
<1>8. TailInv' /\ PlaceInv' /\ FillInv' /\ RingInv'
  BY <1>2, PlainStable, RingInvStable DEF MovesOnly
<1>9. \A u \in Threads :
        /\ pc[u] = "fill" <=> pc'[u] = "fill"
        /\ pc[u] = "doorbell" <=> pc'[u] = "doorbell"
        /\ pc[u] = "mark" <=> pc'[u] = "mark"
        /\ pc[u] \in Filling => cur'[u] = cur[u]
  BY <1>2 DEF TypeOK, Filling, MovesOnly, Plain
<1>10. \A c \in Slots : /\ Loaded(c) /\ done_flag[c] = 0 => Loaded(c)'
                        /\ Moved(c) /\ done_flag[c] = 0 => Moved(c)'
  BY <1>2, <1>3, <1>5 DEF MovesOnly, slotVars, Loaded, Moved, Carries
<1>11. SlotInv'
  <2>1. ASSUME NEW c \in Slots, Queued(c)' \/ Executing(c)' PROVE Loaded(c)'
    <3>1. Queued(c) \/ Executing(c)
      BY <1>2, <2>1 DEF MovesOnly, slotVars, Queued, Executing
    <3> QED
      BY <3>1, <1>10 DEF SlotInv, PlaceInv
  <2>2. ASSUME NEW i \in Slots, Posted(i)' PROVE Moved(cqe[i].CID)'
    <3>1. Posted(i) /\ cqe' = cqe /\ cqe[i].CID \in Slots
      BY <1>2, <2>2 DEF MovesOnly, slotVars, Posted, TypeOK
    <3> QED
      BY <3>1, <1>10 DEF SlotInv, PlaceInv
  <2>3. ASSUME NEW u \in Threads, pc'[u] = "doorbell"
        PROVE  Loaded(sq_db)' /\ sqe'[sq_db'] = cur'[u]
    BY <2>3, <1>2, <1>9, <1>10 DEF SlotInv, TailInv, TypeOK, Filling, MovesOnly, slotVars
  <2>4. ASSUME NEW u \in Threads, pc'[u] = "mark"
        PROVE  NewEntry' /\ LET c == cqe'[cq_head'].CID IN data'[sqe'[c]] = sqe'[c]
    BY <2>4, <1>2, <1>9 DEF SlotInv, MovesOnly, slotVars, NewEntry
  <2> QED
    BY <2>1, <2>2, <2>3, <2>4 DEF SlotInv
<1>12. ReqInv'
  <2> SUFFICES ASSUME NEW r \in Reqs PROVE ReqInv!(r)'
    BY DEF ReqInv
  <2> QED
    BY <1>2, <1>4, <1>5, <1>9, IssuerAssumption DEF ReqInv, MovesOnly, slotVars, Filling
<1> QED
  BY <1>1, <1>6, <1>7, <1>8, <1>11, <1>12

-----------------------------------------------------------------------------
(* Steps of the thread that holds the mutex.                                *)

(* The holder of the mutex is the only thread in a critical section.            *)
LEMMA Alone ==
  ASSUME LockInv, NEW t \in Threads, pc[t] \in Critical
  PROVE  \A u \in Threads \ {t} : pc[u] \notin Critical
  BY DEF LockInv

(* The slot new_sqe takes is nowhere: its flag is not 0. *)
LEMMA NewSqeStep ==
  ASSUME IInv, NEW t \in Threads, NewSqe(t)
  PROVE  IInv'
<1> DEFINE r0 == cur[t]
           k == sq_tail
<1> USE DEF IInv
<1>1. TypeOK'
  BY StepTypeOK DEF Step
<1>2. /\ pc[t] = "new_sqe" /\ pc' = [pc EXCEPT ![t] = "fill"]
      /\ k \in Slots /\ done_flag[k] # 0 /\ done_flag' = [done_flag EXCEPT ![k] = 0]
      /\ cid' = [cid EXCEPT ![r0] = k] /\ status' = [status EXCEPT ![r0] = "taken"]
      /\ sq_tail' = Succ(k)
      /\ UNCHANGED <<lock, cur, cq_head, cq_phase, rbuf, data, sqe, buf4k, cqe, sq_db,
                     cq_db, ctl_head, exec, ctl_tail, ctl_phase>>
  BY DEF NewSqe, goto, ctlVars, TypeOK
<1>3. r0 \in Reqs /\ Issuer[r0] = t /\ status[r0] = "new"
  BY <1>2 DEF CallInv, CallAt, TypeOK
<1>4. \A u \in Threads \ {t} : pc[u] \notin Critical
  BY <1>2, Alone DEF Critical
<1>5. (\A u \in Threads : pc[u] \notin Filling) /\ k = sq_db
  BY <1>2, <1>4 DEF Critical, Filling, TailInv
<1>6. \A u \in Threads : /\ pc'[u] \in Filling <=> u = t
                         /\ pc'[u] = "fill" <=> u = t
                         /\ pc'[u] # "mark" /\ pc'[u] # "doorbell"
  BY <1>2, <1>4 DEF Critical, Filling, TypeOK
<1>7. data[r0] = NoReq
  BY <1>3 DEF ReqInv
<1>8. LockInv'
  BY <1>2 DEF TypeOK, LockInv, Critical, Filling
<1>9. CallInv'
  <2>1. \A u \in Threads : CallAt(u)'
    BY <1>2, <1>3, NoReqAssumption DEF TypeOK, CallInv, CallAt, Filling
  <2>2. ASSUME NEW r \in Reqs, status'[r] = "taken"
        PROVE  cur'[Issuer[r]] = r /\ pc'[Issuer[r]] \in Filling \cup {"unlock"}
    BY <2>2, <1>2, <1>3, IssuerAssumption DEF TypeOK, CallInv, Filling
  <2> QED
    BY <2>1, <2>2 DEF CallInv
<1>10. TailInv'
  BY <1>2, <1>3, <1>5, <1>6 DEF TailInv, TypeOK
<1>11. RingInv'
  BY <1>2 DEF RingInv
<1>12. PlaceInv'
  BY <1>2, <1>5, <1>6 DEF PlaceInv, Queued, Executing, Posted, TypeOK
<1>13. \A c \in Slots : /\ Loaded(c) => Loaded(c)'
                        /\ Moved(c) => Moved(c)'
  BY <1>2, <1>3 DEF Loaded, Moved, Carries, TypeOK
<1>14. SlotInv'
  BY <1>2, <1>6, <1>13 DEF SlotInv, Queued, Executing, Posted, TypeOK
<1>15. ReqInv'
  <2> SUFFICES ASSUME NEW r \in Reqs PROVE ReqInv!(r)'
    BY DEF ReqInv
  <2>1. ReqInv!(r)
    BY DEF ReqInv
  <2>2. CASE r = r0
    BY <2>2, <1>2, <1>3, <1>6, <1>7 DEF TypeOK
  <2>3. CASE r # r0
    BY <2>1, <2>3, <1>2, <1>5, <1>6, IssuerAssumption DEF TypeOK, Filling
  <2> QED
    BY <2>2, <2>3
<1>16. FillInv'
  BY <1>2, <1>6, <1>7 DEF FillInv
<1> QED
  BY <1>1, <1>8, <1>9, <1>10, <1>11, <1>12, <1>14, <1>15, <1>16

(* The slot being filled is not in use, so that the slots in use are untouched; *)
(* every other request that was ever told to poll it has its data.              *)
LEMMA FillStep ==
  ASSUME IInv, NEW t \in Threads, Fill(t)
  PROVE  IInv'
<1> DEFINE r0 == cur[t]
           k == sq_db
<1> USE DEF IInv
<1>1. TypeOK'
  BY StepTypeOK DEF Step
<1>2. /\ pc[t] = "fill" /\ cid[r0] = k /\ k \in Slots
      /\ sq_tail = Succ(k) /\ done_flag[k] = 0
  BY DEF Fill, TailInv, TypeOK, Filling
<1>3. /\ pc' = [pc EXCEPT ![t] = "doorbell"]
      /\ sqe' = [sqe EXCEPT ![k] = r0]
      /\ rbuf' = [rbuf EXCEPT ![k] = IF r0 \in Writes THEN NoReq ELSE r0]
      /\ buf4k' = [buf4k EXCEPT ![k] = IF r0 \in Writes THEN r0 ELSE buf4k[k]]
      /\ UNCHANGED <<lock, cur, sq_tail, cq_head, cq_phase, done_flag, cid, status, data,
                     cqe, sq_db, cq_db, ctl_head, exec, ctl_tail, ctl_phase>>
  BY <1>2 DEF Fill, goto, ctlVars
<1>4. r0 \in Reqs /\ Issuer[r0] = t /\ status[r0] = "taken" /\ data[r0] = NoReq
  BY <1>2, NoReqAssumption DEF CallInv, CallAt, TypeOK, Filling, FillInv
<1>5. \A u \in Threads \ {t} : pc[u] \notin Critical
  BY <1>2, Alone DEF Critical, Filling
<1>6. \A u \in Threads : /\ pc[u] \in Filling <=> u = t
                         /\ pc'[u] \in Filling <=> u = t
                         /\ pc'[u] = "doorbell" <=> u = t
                         /\ pc'[u] # "mark" /\ pc'[u] # "fill"
  BY <1>2, <1>3, <1>5 DEF Critical, Filling, TypeOK
<1>7. LockInv'
  BY <1>2, <1>3 DEF TypeOK, LockInv, Critical, Filling
<1>8. CallInv'
  <2>1. \A u \in Threads : CallAt(u)'
    BY <1>2, <1>3, <1>4 DEF TypeOK, CallInv, CallAt, Filling
  <2>2. ASSUME NEW r \in Reqs, status'[r] = "taken"
        PROVE  cur'[Issuer[r]] = r /\ pc'[Issuer[r]] \in Filling \cup {"unlock"}
    BY <2>2, <1>2, <1>3, <1>4, IssuerAssumption DEF TypeOK, CallInv, Filling
  <2> QED
    BY <2>1, <2>2 DEF CallInv
<1>9. TailInv' /\ RingInv'
  BY <1>2, <1>3, <1>6 DEF TailInv, RingInv
<1>10. ~Executing(k) /\ ~Queued(k)
  BY <1>2 DEF PlaceInv, Filling, Queued, InRing, TypeOK
<1>11. \A i \in Slots : Posted(i) => cqe[i].CID \in Slots \ {k}
  BY <1>2, <1>6 DEF PlaceInv, TypeOK, Filling
<1>12. PlaceInv'
  BY <1>3, <1>6, <1>10 DEF PlaceInv, Queued, Executing, Posted, TypeOK
<1>13. \A c \in Slots \ {k} : /\ Loaded(c) => Loaded(c)'
                              /\ Moved(c) => Moved(c)'
  BY <1>3 DEF Loaded, Moved, Carries, TypeOK
<1>14. SlotInv'
  <2>1. ASSUME NEW c \in Slots, Queued(c)' \/ Executing(c)' PROVE Loaded(c)'
    BY <2>1, <1>3, <1>10, <1>13 DEF SlotInv, Queued, Executing
  <2>2. ASSUME NEW i \in Slots, Posted(i)' PROVE Moved(cqe[i].CID)'
    BY <2>2, <1>3, <1>11, <1>13 DEF SlotInv, Posted
  <2>3. Loaded(k)' /\ sqe'[k] = r0
    BY <1>2, <1>3, <1>4, NoReqAssumption DEF Loaded, Carries, TypeOK
  <2> QED
    BY <2>1, <2>2, <2>3, <1>3, <1>6 DEF SlotInv
<1>15. ReqInv'
  <2> SUFFICES ASSUME NEW r \in Reqs PROVE ReqInv!(r)'
    BY DEF ReqInv
  <2>1. ReqInv!(r)
    BY DEF ReqInv
  <2> QED
    BY <2>1, <1>2, <1>3, <1>4, <1>6, IssuerAssumption DEF TypeOK
<1>16. FillInv'
  BY <1>6 DEF FillInv
<1> QED
  BY <1>1, <1>7, <1>8, <1>9, <1>12, <1>14, <1>15, <1>16

(* The slot joins the queue, unless the ring becomes full and reads as empty.   *)
LEMMA DoorbellStep ==
  ASSUME IInv, NEW t \in Threads, Doorbell(t)
  PROVE  IInv'
<1> DEFINE r0 == cur[t]
           k == sq_db
<1> USE DEF IInv
<1>1. TypeOK'
  BY StepTypeOK DEF Step
<1>2. /\ pc[t] = "doorbell" /\ cid[r0] = k /\ k \in Slots
      /\ sq_tail = Succ(k) /\ done_flag[k] = 0 /\ ~Executing(k)
      /\ Loaded(k) /\ sqe[k] = r0
  BY DEF Doorbell, TailInv, TypeOK, Filling, PlaceInv, SlotInv
<1>3. /\ pc' = [pc EXCEPT ![t] = "unlock"]
      /\ sq_db' = Succ(k)
      /\ UNCHANGED <<lock, cur, sq_tail, cq_head, cq_phase, done_flag, rbuf, cid, status,
                     data, sqe, buf4k, cqe, cq_db, ctl_head, exec, ctl_tail, ctl_phase>>
  BY <1>2 DEF Doorbell, goto, ctlVars
<1>4. r0 \in Reqs /\ Issuer[r0] = t /\ status[r0] = "taken"
  BY <1>2, NoReqAssumption DEF CallInv, CallAt, TypeOK, Filling
<1>5. \A u \in Threads \ {t} : pc[u] \notin Critical
  BY <1>2, Alone DEF Critical, Filling
<1>6. \A u \in Threads : /\ pc[u] \in Filling <=> u = t
                         /\ pc'[u] \notin Filling
                         /\ pc'[u] # "mark"
                         /\ pc[u] # "fill" /\ pc'[u] # "fill" /\ pc'[u] # "doorbell"
  BY <1>2, <1>3, <1>5 DEF Critical, Filling, TypeOK
<1>7. LockInv'
  BY <1>2, <1>3 DEF TypeOK, LockInv, Critical, Filling
<1>8. CallInv'
  <2>1. \A u \in Threads : CallAt(u)'
    BY <1>2, <1>3, <1>4 DEF TypeOK, CallInv, CallAt, Filling
  <2>2. ASSUME NEW r \in Reqs, status'[r] = "taken"
        PROVE  cur'[Issuer[r]] = r /\ pc'[Issuer[r]] \in Filling \cup {"unlock"}
    BY <2>2, <1>2, <1>3, <1>4, IssuerAssumption DEF TypeOK, CallInv, Filling
  <2> QED
    BY <2>1, <2>2 DEF CallInv
<1>9. TailInv' /\ RingInv' /\ FillInv'
  BY <1>2, <1>3, <1>6 DEF TailInv, RingInv, FillInv
<1>10. \A c \in Slots : Queued(c)' => Queued(c) \/ c = k
  BY <1>2, <1>3, RingPush DEF Queued, TypeOK
<1>11. PlaceInv'
  <2>1. ASSUME NEW c \in Slots
        PROVE  /\ Queued(c)' => done_flag'[c] = 0 /\ ~Executing(c)'
               /\ Executing(c)' => done_flag'[c] = 0 /\ exec'[c] = sqe'[c]
    BY <1>2, <1>3, <1>10 DEF PlaceInv, Executing
  <2>2. ASSUME NEW i \in Slots, Posted(i)'
        PROVE  /\ done_flag'[cqe'[i].CID] = 0
               /\ ~Queued(cqe[i].CID)'
               /\ ~Executing(cqe[i].CID)'
               /\ \A j \in Slots : Posted(j)' /\ cqe'[j].CID = cqe'[i].CID => i = j
    BY <2>2, <1>2, <1>3, <1>6, <1>10 DEF PlaceInv, Executing, Posted, TypeOK
  <2> QED
    BY <2>1, <2>2, <1>6 DEF PlaceInv
<1>12. \A c \in Slots : /\ Loaded(c) => Loaded(c)'
                        /\ Moved(c) => Moved(c)'
  BY <1>3 DEF Loaded, Moved, Carries
<1>13. SlotInv'
  BY <1>2, <1>3, <1>6, <1>10, <1>12 DEF SlotInv, Executing, Posted, TypeOK
<1>14. ReqInv'
  <2> SUFFICES ASSUME NEW r \in Reqs PROVE ReqInv!(r)'
    BY DEF ReqInv
  <2>1. ReqInv!(r)
    BY DEF ReqInv
  <2> QED
    BY <2>1, <1>3, <1>6, IssuerAssumption DEF TypeOK
<1> QED
  BY <1>1, <1>7, <1>8, <1>9, <1>11, <1>13, <1>14

-----------------------------------------------------------------------------
(* Consuming completions.                                                   *)

(* The memcpy delivers the request's own data, or nothing if it is a write.     *)
LEMMA CqCopyStep ==
  ASSUME IInv, NEW t \in Threads, CqCopy(t)
  PROVE  IInv'
<1> DEFINE c == cqe[cq_head].CID
           s == sqe[c]
<1> USE DEF IInv
<1>1. TypeOK'
  BY StepTypeOK DEF Step
<1>2. /\ pc[t] \in {"if_cqe", "do_cqe"} /\ pc' = [pc EXCEPT ![t] = "mark"]
      /\ data' = [r \in Reqs |-> IF r = rbuf[c] THEN buf4k[c] ELSE data[r]]
      /\ UNCHANGED <<lock, cur, sq_tail, cq_head, cq_phase, done_flag, rbuf, cid, status, sqe,
                     buf4k, cqe, sq_db, cq_db, ctl_head, exec, ctl_tail, ctl_phase>>
  BY DEF CqCopy, goto, ctlVars
<1>3. NewEntry /\ Posted(cq_head) /\ cq_head \in Slots /\ c \in Slots
  BY NewEntryPosted DEF CqCopy, TypeOK
<1>4. Moved(c) /\ done_flag[c] = 0 /\ ~Queued(c) /\ ~Executing(c)
  BY <1>3 DEF SlotInv, PlaceInv
<1>5. s \in Reqs /\ cid[s] = c /\ status[s] \in {"taken", "issued"}
  BY <1>4 DEF Moved, Carries
<1>6. data'[s] = s /\ \A r \in Reqs : r # s => data'[r] = data[r]
  BY <1>2, <1>4, <1>5, NoReqAssumption DEF Moved, Carries
<1>7. \A u \in Threads \ {t} : pc[u] \notin Critical
  BY <1>2, Alone DEF Critical
<1>8. \A u \in Threads : /\ pc[u] \notin Filling /\ pc'[u] \notin Filling
                         /\ pc[u] # "fill" /\ pc'[u] # "fill" /\ pc'[u] # "doorbell"
                         /\ pc'[u] = "mark" <=> u = t
  BY <1>2, <1>7 DEF Critical, Filling, TypeOK
<1>9. LockInv'
  BY <1>2 DEF TypeOK, LockInv, Critical, Filling
<1>10. CallInv'
  <2>1. CallAt(t)'
    BY <1>2, NoReqAssumption DEF TypeOK, CallInv, CallAt, Filling
  <2> QED
    BY <2>1, <1>2, CallStable DEF Filling, TypeOK
<1>11. TailInv' /\ RingInv' /\ FillInv'
  BY <1>2, <1>8 DEF TailInv, RingInv, FillInv
<1>12. PlaceInv'
  BY <1>2, <1>8 DEF PlaceInv, Queued, Executing, Posted
<1>13. \A d \in Slots : /\ Loaded(d) /\ d # c => Loaded(d)'
                        /\ Moved(d) => Moved(d)'
  BY <1>2, <1>5, <1>6 DEF Loaded, Moved, Carries
<1>14. SlotInv'
  <2>1. ASSUME NEW d \in Slots, Queued(d)' \/ Executing(d)' PROVE Loaded(d)'
    BY <2>1, <1>2, <1>4, <1>13 DEF SlotInv, Queued, Executing
  <2>2. ASSUME NEW i \in Slots, Posted(i)' PROVE Moved(cqe[i].CID)'
    BY <2>2, <1>2, <1>13 DEF SlotInv, Posted, TypeOK
  <2>3. NewEntry' /\ cqe'[cq_head'].CID = c /\ sqe'[c] = s
    BY <1>2, <1>3 DEF NewEntry
  <2> QED
    BY <2>1, <2>2, <2>3, <1>6, <1>8 DEF SlotInv
<1>15. ReqInv'
  <2> SUFFICES ASSUME NEW r \in Reqs PROVE ReqInv!(r)'
    BY DEF ReqInv
  <2>1. ReqInv!(r)
    BY DEF ReqInv
  <2>2. CASE r = s
    BY <2>2, <1>2, <1>5, <1>6, <1>8
  <2>3. CASE r # s
    BY <2>1, <2>3, <1>2, <1>6, <1>8, IssuerAssumption
  <2> QED
    BY <2>2, <2>3
<1> QED
  BY <1>1, <1>9, <1>10, <1>11, <1>12, <1>14, <1>15

(* Consuming the entry at cq_head, and posting one at the controller's tail.    *)
LEMMA PostedPop ==
  ASSUME TypeOK, RingInv, NewEntry,
         cq_head' = Succ(cq_head),
         cq_phase' = IF cq_head + 1 = QD THEN 1 - cq_phase ELSE cq_phase,
         UNCHANGED <<cqe, cq_db, ctl_tail, ctl_phase>>
  PROVE  /\ RingInv'
         /\ \A i \in Slots : Posted(i)' => Posted(i) /\ i # cq_head
<1>1. Posted(cq_head)
  BY NewEntryPosted
<1>2. RingInv!1'
  BY <1>1 DEF TypeOK, RingInv, Posted, Succ
<1>3. RingInv!2'
  BY DEF RingInv
<1>4. \A i \in Slots : Posted(i)' => Posted(i) /\ i # cq_head
  BY <1>1 DEF TypeOK, RingInv, Posted, Succ
<1> QED
  BY <1>2, <1>3, <1>4 DEF RingInv

(* Posting an entry in a ring that is not full adds exactly that entry. *)
LEMMA PostedPush ==
  ASSUME TypeOK, RingInv, Succ(ctl_tail) # cq_db, NEW c \in Slots,
         cqe' = [cqe EXCEPT ![ctl_tail] = [P |-> ctl_phase, CID |-> c]],
         ctl_tail' = Succ(ctl_tail),
         ctl_phase' = IF ctl_tail + 1 = QD THEN 1 - ctl_phase ELSE ctl_phase,
         UNCHANGED <<cq_head, cq_phase, cq_db>>
  PROVE  /\ RingInv'
         /\ ~Posted(ctl_tail)
         /\ \A i \in Slots : Posted(i)' => Posted(i) \/ i = ctl_tail
<1>1. RingInv!1'
  BY DEF TypeOK, RingInv, Succ
<1>2. RingInv!2'
  <2> SUFFICES ASSUME NEW i \in Slots
               PROVE  cqe'[i].P = IF i < ctl_tail' THEN ctl_phase' ELSE 1 - ctl_phase'
    OBVIOUS
  <2>1. cqe'[i].P = IF i = ctl_tail THEN ctl_phase ELSE cqe[i].P
    BY DEF TypeOK
  <2>2. cqe[i].P = IF i < ctl_tail THEN ctl_phase ELSE 1 - ctl_phase
    BY DEF RingInv
  <2> QED
    BY <2>1, <2>2 DEF TypeOK, Succ
<1>3. ~Posted(ctl_tail)
  BY DEF TypeOK, RingInv, Posted
<1>4. \A i \in Slots : Posted(i)' => Posted(i) \/ i = ctl_tail
  BY DEF TypeOK, RingInv, Posted, Succ
<1> QED
  BY <1>1, <1>2, <1>3, <1>4 DEF RingInv

(* The slot is freed after its data was delivered, never before.                *)
LEMMA CqMarkStep ==
  ASSUME IInv, NEW t \in Threads, CqMark(t)
  PROVE  IInv'
<1> DEFINE c == cqe[cq_head].CID
           s == sqe[c]
<1> USE DEF IInv
<1>1. TypeOK'
  BY StepTypeOK DEF Step
<1>2. /\ pc[t] = "mark" /\ pc' = [pc EXCEPT ![t] = "do_cqe"]
      /\ done_flag' = [done_flag EXCEPT ![c] = 1]
      /\ cq_head' = Succ(cq_head)
      /\ cq_phase' = IF cq_head + 1 = QD THEN 1 - cq_phase ELSE cq_phase
      /\ UNCHANGED <<lock, cur, sq_tail, rbuf, cid, status, data, sqe, buf4k, cqe, sq_db,
                     cq_db, ctl_head, exec, ctl_tail, ctl_phase>>
  BY DEF CqMark, goto, ctlVars
<1>3. /\ NewEntry /\ Posted(cq_head) /\ cq_head \in Slots /\ c \in Slots
      /\ data[s] = s
  BY <1>2, NewEntryPosted DEF TypeOK, SlotInv
<1>4. Moved(c) /\ done_flag[c] = 0 /\ ~Queued(c) /\ ~Executing(c)
  BY <1>3 DEF SlotInv, PlaceInv
<1>5. RingInv' /\ \A i \in Slots : Posted(i)' => Posted(i) /\ i # cq_head
  BY <1>2, <1>3, PostedPop
<1>6. \A i \in Slots : Posted(i)' => Posted(i) /\ cqe[i].CID \in Slots \ {c}
  BY <1>3, <1>5 DEF PlaceInv, TypeOK
<1>7. \A u \in Threads \ {t} : pc[u] \notin Critical
  BY <1>2, Alone DEF Critical
<1>8. \A u \in Threads : /\ pc[u] \notin Filling /\ pc'[u] \notin Filling
                         /\ pc[u] # "fill" /\ pc'[u] # "fill" /\ pc'[u] # "doorbell"
                         /\ pc'[u] # "mark"
  BY <1>2, <1>7 DEF Critical, Filling, TypeOK
<1>9. LockInv'
  BY <1>2 DEF TypeOK, LockInv, Critical, Filling
<1>10. CallInv'
  <2>1. CallAt(t)'
    BY <1>2, NoReqAssumption DEF TypeOK, CallInv, CallAt, Filling
  <2> QED
    BY <2>1, <1>2, CallStable DEF Filling, TypeOK
<1>11. TailInv' /\ FillInv'
  BY <1>2, <1>8 DEF TailInv, FillInv
<1>12. PlaceInv'
  <2>1. ASSUME NEW d \in Slots
        PROVE  /\ Queued(d)' => done_flag'[d] = 0 /\ ~Executing(d)'
               /\ Executing(d)' => done_flag'[d] = 0 /\ exec'[d] = sqe'[d]
    BY <1>2, <1>4 DEF PlaceInv, Queued, Executing, TypeOK
  <2>2. ASSUME NEW i \in Slots, Posted(i)'
        PROVE  /\ done_flag'[cqe'[i].CID] = 0
               /\ ~Queued(cqe[i].CID)'
               /\ ~Executing(cqe[i].CID)'
               /\ \A j \in Slots : Posted(j)' /\ cqe'[j].CID = cqe'[i].CID => i = j
    BY <2>2, <1>2, <1>6 DEF PlaceInv, Queued, Executing, TypeOK
  <2> QED
    BY <2>1, <2>2, <1>8 DEF PlaceInv
<1>13. SlotInv'
  <2>1. \A d \in Slots : /\ Loaded(d) => Loaded(d)'
                         /\ Moved(d) => Moved(d)'
    BY <1>2 DEF Loaded, Moved, Carries
  <2>2. ASSUME NEW d \in Slots, Queued(d)' \/ Executing(d)' PROVE Loaded(d)'
    BY <2>1, <2>2, <1>2 DEF SlotInv, Queued, Executing
  <2>3. ASSUME NEW i \in Slots, Posted(i)' PROVE Moved(cqe[i].CID)'
    BY <2>1, <2>3, <1>2, <1>6 DEF SlotInv
  <2> QED
    BY <2>2, <2>3, <1>8 DEF SlotInv
<1>14. ReqInv'
  <2> SUFFICES ASSUME NEW r \in Reqs PROVE ReqInv!(r)'
    BY DEF ReqInv
  <2>1. ReqInv!(r)
    BY DEF ReqInv
  <2>2. cid[r] # c \/ data[r] = r \/ status[r] \notin {"taken", "issued"}
    BY <2>1, <1>3, <1>8, IssuerAssumption
  <2> QED
    BY <2>1, <2>2, <1>2, <1>8, IssuerAssumption DEF TypeOK
<1> QED
  BY <1>1, <1>5, <1>9, <1>10, <1>11, <1>12, <1>13, <1>14

(* The completion doorbell frees the entries the controller may reuse.          *)
LEMMA CqDrainedStep ==
  ASSUME IInv, NEW t \in Threads, CqDrained(t)
  PROVE  IInv'
<1> USE DEF IInv
<1>1. TypeOK'
  BY StepTypeOK DEF Step
<1>2. /\ pc[t] = "do_cqe" /\ ~NewEntry
      /\ pc' = [pc EXCEPT ![t] = IF status[cur[t]] = "new" THEN "new_sqe" ELSE "unlock"]
      /\ cq_db' = cq_head
      /\ UNCHANGED <<lock, cur, sq_tail, cq_head, cq_phase, done_flag, rbuf, cid, status,
                     data, sqe, buf4k, cqe, sq_db, ctl_head, exec, ctl_tail, ctl_phase>>
  BY DEF CqDrained, CqReturn, goto, ctlVars
<1>3. \A u \in Threads \ {t} : pc[u] \notin Critical
  BY <1>2, Alone DEF Critical
<1>4. \A u \in Threads : /\ pc[u] \notin Filling /\ pc'[u] \notin Filling
                         /\ pc[u] # "fill" /\ pc'[u] # "fill" /\ pc'[u] # "doorbell"
                         /\ pc'[u] # "mark"
  BY <1>2, <1>3 DEF Critical, Filling, TypeOK
<1>5. LockInv'
  BY <1>2 DEF TypeOK, LockInv, Critical, Filling
<1>6. CallInv'
  <2>1. CallAt(t)'
    BY <1>2, NoReqAssumption DEF TypeOK, CallInv, CallAt, Filling
  <2> QED
    BY <2>1, <1>2, CallStable DEF Filling, TypeOK
<1>7. RingInv'
  BY <1>2, NewEntryPosted DEF TypeOK, RingInv, Posted
<1>8. TailInv' /\ FillInv'
  BY <1>2, <1>4 DEF TailInv, FillInv
<1>9. PlaceInv'
  BY <1>2, <1>4 DEF PlaceInv, Queued, Executing, Posted
<1>10. SlotInv'
  BY <1>2, <1>4 DEF SlotInv, Queued, Executing, Posted, Loaded, Moved, Carries
<1>11. ReqInv'
  <2> SUFFICES ASSUME NEW r \in Reqs PROVE ReqInv!(r)'
    BY DEF ReqInv
  <2>1. ReqInv!(r)
    BY DEF ReqInv
  <2> QED
    BY <2>1, <1>2, <1>4, IssuerAssumption
<1> QED
  BY <1>1, <1>5, <1>6, <1>7, <1>8, <1>9, <1>10, <1>11

-----------------------------------------------------------------------------
(* Steps of the controller.                                                 *)

(* The entry the controller fetches is the one the host filled.                 *)
LEMMA FetchStep == IInv /\ CtlFetch => IInv'
<1> SUFFICES ASSUME IInv, CtlFetch PROVE IInv'
  OBVIOUS
<1> DEFINE h == ctl_head
<1> USE DEF IInv
<1>1. TypeOK'
  BY FetchTypeOK
<1>2. /\ h # sq_db /\ h \in Slots /\ sq_db \in Slots
      /\ exec' = [exec EXCEPT ![h] = sqe[h]] /\ ctl_head' = Succ(h)
      /\ UNCHANGED <<lock, pc, cur, sq_tail, cq_head, cq_phase, done_flag, rbuf, cid, status,
                     data, sqe, buf4k, cqe, sq_db, cq_db, ctl_tail, ctl_phase>>
  BY DEF CtlFetch, hostVars, TypeOK
<1>3. /\ Queued(h)
      /\ \A c \in Slots : Queued(c)' => Queued(c) /\ c # h
  BY <1>2, RingPop DEF Queued
<1>4. \A c \in Slots : Executing(c)' => Executing(c) \/ c = h
  BY <1>2 DEF Executing, TypeOK
<1>5. LockInv' /\ CallInv' /\ TailInv' /\ RingInv' /\ FillInv'
  BY <1>2 DEF LockInv, CallInv, CallAt, TailInv, RingInv, FillInv
<1>6. PlaceInv'
  <2>1. ASSUME NEW c \in Slots
        PROVE  /\ Queued(c)' => done_flag'[c] = 0 /\ ~Executing(c)'
               /\ Executing(c)' => done_flag'[c] = 0 /\ exec'[c] = sqe'[c]
    BY <1>2, <1>3, <1>4 DEF PlaceInv, TypeOK, Executing
  <2>2. ASSUME NEW i \in Slots, Posted(i)'
        PROVE  /\ done_flag'[cqe'[i].CID] = 0
               /\ ~Queued(cqe[i].CID)'
               /\ ~Executing(cqe[i].CID)'
               /\ \A u \in Threads : pc'[u] \in Filling => cqe'[i].CID # sq_db'
               /\ \A j \in Slots : Posted(j)' /\ cqe'[j].CID = cqe'[i].CID => i = j
    BY <2>2, <1>2, <1>3, <1>4 DEF PlaceInv, TypeOK, Posted
  <2>3. ASSUME NEW u \in Threads, pc'[u] \in Filling PROVE ~Executing(sq_db)'
    BY <2>3, <1>2, <1>4 DEF PlaceInv
  <2> QED
    BY <2>1, <2>2, <2>3 DEF PlaceInv
<1>7. SlotInv'
  BY <1>2, <1>3, <1>4 DEF SlotInv, Posted, Loaded, Moved, Carries, NewEntry
<1>8. ReqInv'
  BY <1>2 DEF ReqInv
<1> QED
  BY <1>1, <1>5, <1>6, <1>7, <1>8

(* The data moves, and the completion is posted where nothing is unread.        *)
LEMMA CompleteStep ==
  ASSUME IInv, NEW c \in Slots, CtlComplete(c)
  PROVE  IInv'
<1> DEFINE s == sqe[c]
           k == ctl_tail
<1> USE DEF IInv
<1>1. TypeOK'
  BY CompleteTypeOK
<1>2. /\ Executing(c) /\ exec[c] = s /\ Loaded(c) /\ done_flag[c] = 0 /\ ~Queued(c)
  BY DEF CtlComplete, Executing, PlaceInv, SlotInv
<1>3. s \in Reqs /\ cid[s] = c /\ status[s] \in {"taken", "issued"} /\ data[s] = NoReq
  BY <1>2 DEF Loaded, Carries
<1>4. /\ k \in Slots /\ Succ(k) # cq_db
      /\ data' = IF s \in Writes THEN [data EXCEPT ![s] = s] ELSE data
      /\ buf4k' = IF s \in Writes THEN buf4k ELSE [buf4k EXCEPT ![c] = s]
      /\ cqe' = [cqe EXCEPT ![k] = [P |-> ctl_phase, CID |-> c]]
      /\ exec' = [exec EXCEPT ![c] = NoReq]
      /\ ctl_tail' = Succ(k)
      /\ ctl_phase' = IF k + 1 = QD THEN 1 - ctl_phase ELSE ctl_phase
      /\ UNCHANGED <<lock, pc, cur, sq_tail, cq_head, cq_phase, done_flag, rbuf, cid, status,
                     sqe, sq_db, cq_db, ctl_head>>
  BY <1>2 DEF CtlComplete, Loaded, hostVars, TypeOK
<1>5. /\ RingInv'
      /\ ~Posted(k)
      /\ \A i \in Slots : Posted(i)' => Posted(i) \/ i = k
  BY <1>4, PostedPush
<1>6. cqe'[k].CID = c /\ \A i \in Slots \ {k} : cqe'[i] = cqe[i]
  BY <1>4 DEF TypeOK
<1>7. \A i \in Slots : Posted(i) => cqe[i].CID \in Slots \ {c}
  BY <1>2 DEF PlaceInv, TypeOK
<1>8. LockInv' /\ CallInv' /\ TailInv'
  BY <1>4 DEF LockInv, CallInv, CallAt, TailInv
<1>9. \A d \in Slots : Executing(d)' => Executing(d) /\ d # c
  BY <1>4 DEF Executing, TypeOK
<1>10. PlaceInv'
  <2>1. ASSUME NEW d \in Slots
        PROVE  /\ Queued(d)' => done_flag'[d] = 0 /\ ~Executing(d)'
               /\ Executing(d)' => done_flag'[d] = 0 /\ exec'[d] = sqe'[d]
    BY <1>4, <1>9 DEF PlaceInv, TypeOK, Queued
  <2>2. ASSUME NEW i \in Slots, Posted(i)'
        PROVE  /\ done_flag'[cqe'[i].CID] = 0
               /\ ~Queued(cqe[i].CID)'
               /\ ~Executing(cqe[i].CID)'
               /\ \A u \in Threads : pc'[u] \in Filling => cqe'[i].CID # sq_db'
               /\ \A j \in Slots : Posted(j)' /\ cqe'[j].CID = cqe'[i].CID => i = j
    <3>1. CASE i = k
      BY <3>1, <2>2, <1>2, <1>4, <1>5, <1>6, <1>7, <1>9 DEF PlaceInv, Queued
    <3>2. CASE i # k
      <4>1. Posted(i) /\ cqe'[i] = cqe[i] /\ cqe[i].CID \in Slots \ {c}
        BY <3>2, <2>2, <1>5, <1>6, <1>7
      <4>2. /\ done_flag'[cqe'[i].CID] = 0
            /\ ~Queued(cqe[i].CID)'
            /\ ~Executing(cqe[i].CID)'
            /\ \A u \in Threads : pc'[u] \in Filling => cqe'[i].CID # sq_db'
        BY <4>1, <1>4, <1>9 DEF PlaceInv, Queued
      <4>3. ASSUME NEW j \in Slots, Posted(j)', cqe'[j].CID = cqe'[i].CID PROVE i = j
        BY <4>1, <4>3, <1>5, <1>6 DEF PlaceInv
      <4> QED
        BY <4>2, <4>3
    <3> QED
      BY <3>1, <3>2
  <2>3. ASSUME NEW u \in Threads, pc'[u] \in Filling PROVE ~Executing(sq_db)'
    BY <2>3, <1>4, <1>9 DEF PlaceInv, TypeOK
  <2> QED
    BY <2>1, <2>2, <2>3 DEF PlaceInv
<1>11. Moved(c)'
  BY <1>2, <1>3, <1>4 DEF Loaded, Moved, Carries, TypeOK
<1>12. \A d \in Slots : /\ Loaded(d) /\ d # c => Loaded(d)'
                        /\ Moved(d) /\ d # c => Moved(d)'
  BY <1>3, <1>4 DEF Loaded, Moved, Carries, TypeOK
<1>13. \A r \in Reqs : /\ r # s => data'[r] = data[r]
                       /\ data'[s] \in {s, NoReq}
  BY <1>3, <1>4 DEF TypeOK
<1>14. SlotInv'
  <2>1. ASSUME NEW d \in Slots, Queued(d)' \/ Executing(d)' PROVE Loaded(d)'
    BY <2>1, <1>2, <1>4, <1>9, <1>12 DEF SlotInv, Queued
  <2>2. ASSUME NEW i \in Slots, Posted(i)' PROVE Moved(cqe[i].CID)'
    BY <2>2, <1>5, <1>6, <1>7, <1>11, <1>12 DEF SlotInv
  <2>3. ASSUME NEW u \in Threads, pc'[u] = "doorbell"
        PROVE  Loaded(sq_db)' /\ sqe'[sq_db'] = cur'[u]
    BY <2>3, <1>2, <1>4, <1>12 DEF SlotInv, PlaceInv, Filling, TypeOK
  <2>4. ASSUME NEW u \in Threads, pc'[u] = "mark"
        PROVE  NewEntry' /\ LET d == cqe'[cq_head'].CID IN data'[sqe'[d]] = sqe'[d]
    <3>1. NewEntry /\ Posted(cq_head) /\ cq_head \in Slots
      BY <2>4, <1>4, NewEntryPosted DEF SlotInv, TypeOK
    <3>2. cqe'[cq_head] = cqe[cq_head] /\ cqe[cq_head].CID \in Slots \ {c}
      BY <3>1, <1>5, <1>6, <1>7
    <3>3. Moved(cqe[cq_head].CID) /\ data[sqe[cqe[cq_head].CID]] = sqe[cqe[cq_head].CID]
      BY <3>1, <2>4, <1>4 DEF SlotInv
    <3>4. sqe[cqe[cq_head].CID] \in Reqs /\ sqe[cqe[cq_head].CID] # s
      BY <3>2, <3>3, <1>3 DEF Moved, Carries
    <3> QED
      BY <3>1, <3>2, <3>3, <3>4, <1>4, <1>13 DEF NewEntry
  <2> QED
    BY <2>1, <2>2, <2>3, <2>4 DEF SlotInv
<1>15. ReqInv'
  <2> SUFFICES ASSUME NEW r \in Reqs PROVE ReqInv!(r)'
    BY DEF ReqInv
  <2>1. ReqInv!(r)
    BY DEF ReqInv
  <2>2. CASE r = s
    BY <2>1, <2>2, <1>3, <1>4, <1>13, NoReqAssumption
  <2>3. CASE r # s
    BY <2>1, <2>3, <1>4, <1>13
  <2> QED
    BY <2>2, <2>3
<1>16. FillInv'
  <2> SUFFICES ASSUME NEW u \in Threads, pc'[u] = "fill" PROVE data'[cur'[u]] = NoReq
    BY DEF FillInv
  <2>1. cur[u] \in Reqs
    BY <1>4 DEF CallInv, CallAt, TypeOK
  <2>2. cur[u] # s
    BY <1>2, <1>3, <1>4 DEF PlaceInv, TailInv, Filling
  <2> QED
    BY <2>1, <2>2, <1>4, <1>13 DEF FillInv
<1> QED
  BY <1>1, <1>5, <1>8, <1>10, <1>14, <1>15, <1>16

-----------------------------------------------------------------------------
(* The invariant, and what it gives.                                        *)

(* A freshly constructed queue pair.                                            *)
LEMMA InitIInv == Init => IInv
<1> SUFFICES ASSUME Init PROVE IInv
  OBVIOUS
<1>1. TypeOK
  BY InitTypeOK
<1>2. LockInv /\ CallInv /\ TailInv /\ RingInv
  BY NoThreadAssumption, NoReqAssumption
     DEF Init, LockInv, CallInv, CallAt, TailInv, RingInv, Critical, Filling
<1>3. PlaceInv /\ SlotInv
  BY DEF Init, PlaceInv, SlotInv, Queued, Executing, Posted, InRing, Filling
<1>4. ReqInv /\ FillInv
  BY DEF Init, ReqInv, FillInv
<1> QED
  BY <1>1, <1>2, <1>3, <1>4 DEF IInv

(* Every step of Next keeps the inductive invariant.                            *)
LEMMA NextIInv == IInv /\ [Next]_vars => IInv'
<1> SUFFICES ASSUME IInv, [Next]_vars PROVE IInv'
  OBVIOUS
<1>1. ASSUME NEW t \in Threads, Step(t) PROVE IInv'
  <2>1. CASE Lock(t) \/ NewSqeFull(t) \/ CqNothing(t) \/ UnlockCheck(t) \/ NotDone(t)
    <3>1. pc[t] # "idle"
      BY <2>1 DEF Lock, NewSqeFull, CqNothing, UnlockCheck, NotDone
    <3>2. cur[t] \in Reqs
      BY <3>1 DEF IInv, TypeOK, CallInv, CallAt
    <3> QED
      BY <2>1, <3>2, PlainSteps
  <2> QED
    BY <1>1, <2>1, NewSqeStep, FillStep, DoorbellStep, CqCopyStep, CqMarkStep,
       CqDrainedStep, UnlockReqStep, DoneStep DEF Step
<1>2. ASSUME NEW t \in Threads, NEW r \in Reqs, CallReq(t, r) \/ CallCheck(t, r) PROVE IInv'
  BY <1>2, PlainSteps
<1>3. CASE CtlFetch
  BY <1>3, FetchStep
<1>4. ASSUME NEW c \in Slots, CtlComplete(c) PROVE IInv'
  BY <1>4, CompleteStep
<1>5. CASE UNCHANGED vars
  <2>1. /\ lock' = lock /\ pc' = pc /\ cur' = cur /\ cid' = cid /\ status' = status
        /\ sq_tail' = sq_tail /\ sq_db' = sq_db /\ ctl_head' = ctl_head
        /\ cq_head' = cq_head /\ cq_db' = cq_db /\ ctl_tail' = ctl_tail
        /\ cq_phase' = cq_phase /\ ctl_phase' = ctl_phase
        /\ done_flag' = done_flag /\ rbuf' = rbuf /\ data' = data
        /\ sqe' = sqe /\ buf4k' = buf4k /\ exec' = exec /\ cqe' = cqe
    BY <1>5 DEF vars, hostVars, ctlVars
  <2>2. TypeOK'
    BY <2>1 DEF IInv, TypeOK
  <2>3. LockInv' /\ CallInv' /\ TailInv'
    BY <2>1 DEF IInv, LockInv, CallInv, CallAt, TailInv
  <2>4. RingInv'
    BY <2>1 DEF IInv, RingInv, NewEntry
  <2>5. PlaceInv'
    BY <2>1 DEF IInv, PlaceInv, Queued, Executing, Posted, NewEntry
  <2>6. SlotInv'
    BY <2>1 DEF IInv, SlotInv, Queued, Executing, Posted, Loaded, Moved, Carries, NewEntry
  <2>7. ReqInv' /\ FillInv'
    BY <2>1 DEF IInv, ReqInv, FillInv
  <2> QED
    BY <2>2, <2>3, <2>4, <2>5, <2>6, <2>7 DEF IInv
<1> QED
  BY <1>1, <1>2, <1>3, <1>4, <1>5 DEF Next

(* The inductive invariant holds in every reachable state. *)
THEOREM Invariance == Spec => []IInv
  BY InitIInv, NextIInv, PTL DEF Spec

(* A request that was reported complete has its own data: nvme_check is sound   *)
(* although the slot it polls may have been taken by another request meanwhile. *)
THEOREM CompletionSoundness == Spec => []CompletionSound
<1>1. IInv => CompletionSound
  BY DEF IInv, ReqInv, CompletionSound
<1> QED
  BY <1>1, Invariance, PTL

(* No buffer and no block ever receives another request's data. *)
THEOREM NoCrossTalkEver == Spec => []NoCrossTalk
<1>1. IInv => NoCrossTalk
  BY DEF IInv, ReqInv, NoCrossTalk
<1> QED
  BY <1>1, Invariance, PTL

(* Nothing still under way in the rings belongs to a request that returned.     *)
THEOREM LiveDestinations == Spec => []LiveDestination
<1>1. IInv => LiveDestination
  BY DEF IInv, SlotInv, Loaded, Moved, Carries, LiveDestination, InUse
<1> QED
  BY <1>1, Invariance, PTL

(* check_cq consumes each completion the controller posted once, and no other.  *)
THEOREM CompletionsMatched == Spec => []CompletionsMatch
<1>1. IInv => CompletionsMatch
  BY NewEntryPosted DEF IInv, PlaceInv, CompletionsMatch
<1> QED
  BY <1>1, Invariance, PTL

(* The host leaves a slot alone from its doorbell to its completion.            *)
THEOREM DMAStability == Spec => DMAStable
<1> DEFINE Untouched(c) == /\ sqe'[c] = sqe[c] /\ rbuf'[c] = rbuf[c]
                           /\ sqe[c] \in Writes => buf4k'[c] = buf4k[c]
<1>1. ASSUME IInv, [Next]_vars, NEW c \in Slots, Queued(c) \/ Executing(c)
      PROVE  Untouched(c)
  <2> USE DEF IInv
  <2>1. done_flag[c] = 0 /\ Loaded(c)
    BY <1>1 DEF PlaceInv, SlotInv
  <2>2. ASSUME NEW t \in Threads, Fill(t) PROVE Untouched(c)
    <3>1. cid[cur[t]] = sq_db /\ ~Executing(sq_db) /\ ~Queued(sq_db)
      BY <2>2, <1>1 DEF Fill, Filling, TailInv, PlaceInv, Queued, InRing, TypeOK
    <3>2. cid[cur[t]] # c
      BY <3>1, <1>1
    <3> QED
      BY <2>2, <3>2, <1>1 DEF Fill, TypeOK
  <2>3. ASSUME NEW t \in Threads, Step(t), ~Fill(t) PROVE Untouched(c)
    BY <2>3 DEF Step, Lock, NewSqeFull, NewSqe, Doorbell, CqNothing, CqCopy, CqMark,
                CqDrained, UnlockReq, UnlockCheck, Done, NotDone
  <2>4. ASSUME NEW t \in Threads, NEW r \in Reqs, CallReq(t, r) \/ CallCheck(t, r)
        PROVE  Untouched(c)
    BY <2>4 DEF CallReq, CallCheck
  <2>5. CASE CtlFetch
    BY <2>5 DEF CtlFetch, hostVars
  <2>6. ASSUME NEW d \in Slots, CtlComplete(d) PROVE Untouched(c)
    <3>1. exec[d] = sqe[d]
      BY <1>1, <2>6 DEF CtlComplete, Executing, PlaceInv
    <3> QED
      BY <3>1, <2>6, <1>1 DEF CtlComplete, hostVars, TypeOK
  <2>7. CASE UNCHANGED vars
    BY <2>7 DEF vars, hostVars
  <2> QED
    BY <1>1, <2>2, <2>3, <2>4, <2>5, <2>6, <2>7 DEF Next
<1>2. IInv /\ [Next]_vars =>
        [\A c \in Slots : Queued(c) \/ Executing(c) =>
            /\ UNCHANGED <<sqe[c], rbuf[c]>>
            /\ sqe[c] \in Writes => UNCHANGED buf4k[c]]_vars
  BY <1>1
<1> QED
  BY <1>2, Invariance, PTL DEF Spec, DMAStable

-----------------------------------------------------------------------------
(* The queue pair implements asynchronous I/O.                              *)

(* Each step is the abstract step its effect on the requests calls for:         *)
(*   new_sqe is Submit; the step that moves the data is Complete (the memcpy of *)
(*   check_cq for a read, the controller for a write); a successful nvme_check  *)
(*   is Return; every other step stutters.                                      *)
LEMMA RefinementStep ==
  ASSUME IInv, [Next]_vars
  PROVE  [Abstract!Next]_(Abstract!vars)
<1> USE DEF IInv
<1>1. ASSUME NEW t \in Threads, NewSqe(t) PROVE Abstract!Next
  <2> DEFINE r == cur[t]
  <2>1. r \in Reqs /\ status[r] = "new" /\ data[r] = NoReq
    BY <1>1 DEF NewSqe, CallInv, CallAt, TypeOK, ReqInv
  <2>2. status' = [status EXCEPT ![r] = "taken"] /\ data' = data
    BY <1>1 DEF NewSqe
  <2>3. phaseOf[r] = "new"
    BY <2>1 DEF phaseOf
  <2>4. phaseOf' = [phaseOf EXCEPT ![r] = "pending"]
    BY <2>1, <2>2, NoReqAssumption DEF phaseOf, TypeOK
  <2> QED
    BY <2>1, <2>2, <2>3, <2>4 DEF Abstract!Next, Abstract!Submit
<1>2. ASSUME NEW t \in Threads, Done(t) PROVE Abstract!Next
  <2> DEFINE r == cur[t]
  <2>1. /\ r \in Reqs /\ status[r] = "issued" /\ done_flag[cid[r]] = 1
    BY <1>2 DEF Done, CallInv, CallAt, TypeOK
  <2>2. data[r] = r
    BY <2>1 DEF ReqInv
  <2>3. status' = [status EXCEPT ![r] = "returned"] /\ data' = data
    BY <1>2 DEF Done
  <2>4. phaseOf[r] = "done"
    BY <2>1, <2>2 DEF phaseOf
  <2>5. phaseOf' = [phaseOf EXCEPT ![r] = "returned"]
    BY <2>1, <2>3 DEF phaseOf, TypeOK
  <2> QED
    BY <2>1, <2>3, <2>4, <2>5 DEF Abstract!Next, Abstract!Return
<1>3. ASSUME NEW s \in Reqs, status[s] \in {"taken", "issued"}, data[s] = NoReq,
             status' = status, data' = [data EXCEPT ![s] = s]
      PROVE  Abstract!Next
  <2>1. phaseOf[s] = "pending"
    BY <1>3, NoReqAssumption DEF phaseOf
  <2>2. phaseOf' = [phaseOf EXCEPT ![s] = "done"]
    BY <1>3 DEF phaseOf, TypeOK
  <2> QED
    BY <1>3, <2>1, <2>2 DEF Abstract!Next, Abstract!Complete
<1>4. ASSUME data' = data,
             \A r \in Reqs : \/ status'[r] = status[r]
                             \/ status[r] = "taken" /\ status'[r] = "issued"
      PROVE  UNCHANGED Abstract!vars
  BY <1>4 DEF phaseOf, Abstract!vars
<1>5. ASSUME NEW t \in Threads, CqCopy(t) PROVE [Abstract!Next]_(Abstract!vars)
  <2> DEFINE c == cqe[cq_head].CID
             s == sqe[c]
  <2>1. Moved(c)
    BY <1>5, NewEntryPosted DEF CqCopy, SlotInv, TypeOK
  <2>2. s \in Reqs /\ status[s] \in {"taken", "issued"} /\ status' = status
    BY <1>5, <2>1 DEF Moved, Carries, CqCopy
  <2>3. data' = [data EXCEPT ![s] = s]
    <3>1. data' = [r \in Reqs |-> IF r = rbuf[c] THEN buf4k[c] ELSE data[r]]
      BY <1>5 DEF CqCopy
    <3>2. data \in [Reqs -> Contents]
      BY DEF TypeOK
    <3>3. IF s \in Writes THEN rbuf[c] = NoReq /\ data[s] = s ELSE rbuf[c] = s /\ buf4k[c] = s
      BY <2>1 DEF Moved, Carries
    <3>4. \A r \in Reqs : data'[r] = IF r = s THEN s ELSE data[r]
      BY <3>1, <3>3, <2>2, NoReqAssumption
    <3> QED
      BY <3>1, <3>2, <3>4
  <2>4. CASE data[s] = NoReq
    BY <1>3, <2>2, <2>3, <2>4
  <2>5. CASE data[s] = s
    <3>1. data' = data
      BY <2>3, <2>5 DEF TypeOK
    <3> QED
      BY <3>1, <1>4, <2>2
  <2> QED
    BY <2>2, <2>4, <2>5 DEF ReqInv
<1>6. ASSUME NEW c \in Slots, CtlComplete(c) PROVE [Abstract!Next]_(Abstract!vars)
  <2>1. exec[c] = sqe[c] /\ Loaded(c) /\ status' = status
    BY <1>6 DEF CtlComplete, Executing, PlaceInv, SlotInv, hostVars
  <2>2. CASE sqe[c] \in Writes
    <3>1. data' = [data EXCEPT ![sqe[c]] = sqe[c]]
      BY <1>6, <2>1, <2>2 DEF CtlComplete, Loaded
    <3> QED
      BY <3>1, <1>3, <2>1 DEF Loaded, Carries
  <2>3. CASE sqe[c] \notin Writes
    <3>1. data' = data
      BY <1>6, <2>1, <2>3 DEF CtlComplete
    <3> QED
      BY <3>1, <1>4, <2>1
  <2> QED
    BY <2>2, <2>3
<1>7. ASSUME NEW t \in Threads, Step(t), ~NewSqe(t), ~Done(t), ~CqCopy(t)
      PROVE  UNCHANGED Abstract!vars
  <2>1. data' = data
    BY <1>7 DEF Step, Lock, NewSqeFull, Fill, Doorbell, CqNothing, CqMark, CqDrained,
                UnlockReq, UnlockCheck, NotDone
  <2>2. CASE UnlockReq(t)
    BY <2>1, <2>2, <1>4 DEF UnlockReq, TypeOK
  <2>3. CASE ~UnlockReq(t)
    <3>1. status' = status
      BY <1>7, <2>3 DEF Step, Lock, NewSqeFull, Fill, Doorbell, CqNothing, CqMark,
                        CqDrained, UnlockCheck, NotDone
    <3> QED
      BY <2>1, <3>1, <1>4
  <2> QED
    BY <2>2, <2>3
<1>8. ASSUME NEW t \in Threads, NEW r \in Reqs, CallReq(t, r) \/ CallCheck(t, r)
      PROVE  UNCHANGED Abstract!vars
  BY <1>4, <1>8 DEF CallReq, CallCheck
<1>9. CASE CtlFetch
  BY <1>4, <1>9 DEF CtlFetch, hostVars
<1>10. CASE UNCHANGED vars
  BY <1>4, <1>10 DEF vars, hostVars
<1> QED
  BY <1>1, <1>2, <1>5, <1>6, <1>7, <1>8, <1>9, <1>10 DEF Next

(* Every behaviour of the queue pair is one of AsyncIO: submitted once, the     *)
(* right data delivered once, returned only afterwards.                         *)
THEOREM Refinement == Spec => ImplementsAsyncIO
<1>1. Init => Abstract!Init
  BY DEF Init, Abstract!Init, phaseOf
<1> QED
  BY <1>1, RefinementStep, Invariance, PTL DEF Spec, ImplementsAsyncIO, Abstract!Spec

-----------------------------------------------------------------------------
(* Slots are lost all at once or not at all.                                *)

(* Every slot in use is on its way. *)
Tracked == \A c \in Slots : done_flag[c] = 0 => OnItsWay(c)

(* Where a slot in use is does not depend on what the threads do outside      *)
(* new_sqe, the doorbell and check_cq.                                        *)
LEMMA LostSame ==
  ASSUME Tracked,
         UNCHANGED <<done_flag, cid, cqe, sq_db, ctl_head, exec, ctl_tail, ctl_phase, cq_head,
                     cq_phase>>,
         \A u \in Threads : pc[u] \in Filling => pc'[u] \in Filling /\ cur'[u] = cur[u]
  PROVE  Tracked'
<1>1. \A c \in Slots : InUse(c) => InUse(c)'
  BY DEF InUse, Queued, Executing, Posted
<1> QED
  BY <1>1 DEF Tracked, OnItsWay

LEMMA NewSqeFollows ==
  ASSUME IInv, Tracked, NEW t \in Threads, NewSqe(t)
  PROVE  Tracked'
<1> USE DEF IInv
<1>1. /\ pc[t] = "new_sqe" /\ pc' = [pc EXCEPT ![t] = "fill"] /\ cur' = cur
      /\ done_flag' = [done_flag EXCEPT ![sq_tail] = 0]
      /\ cid' = [cid EXCEPT ![cur[t]] = sq_tail]
      /\ UNCHANGED <<cqe, sq_db, ctl_head, exec, ctl_tail, ctl_phase, cq_head, cq_phase>>
  BY DEF NewSqe, goto, ctlVars
<1>2. \A u \in Threads : pc[u] \notin Filling
  BY <1>1, Alone DEF Critical, Filling
<1>3. pc'[t] \in Filling /\ cid'[cur'[t]] = sq_tail
  BY <1>1 DEF TypeOK, CallInv, CallAt, Filling
<1>4. \A c \in Slots : InUse(c) => InUse(c)'
  BY <1>1 DEF InUse, Queued, Executing, Posted
<1>5. \A c \in Slots : done_flag'[c] = 0 => done_flag[c] = 0 \/ c = sq_tail
  BY <1>1 DEF TypeOK
<1> QED
  BY <1>2, <1>3, <1>4, <1>5 DEF Tracked, OnItsWay

(* The doorbell hands the filled slot to the controller, unless the tail      *)
(* meets the head: then every slot carried a request, and the controller      *)
(* sees an empty ring.                                                        *)
LEMMA DoorbellFollows ==
  ASSUME IInv, Tracked, NEW t \in Threads, Doorbell(t)
  PROVE  Tracked' \/ RingDead'
<1> USE DEF IInv
<1>1. /\ pc[t] = "doorbell" /\ pc' = [pc EXCEPT ![t] = "unlock"] /\ cur' = cur
      /\ sq_db' = sq_tail /\ sq_db \in Slots /\ ctl_head \in Slots
      /\ UNCHANGED <<done_flag, cid, cqe, ctl_head, exec, ctl_tail, ctl_phase, cq_head,
                     cq_phase>>
  BY DEF Doorbell, goto, ctlVars, TypeOK
<1>2. sq_tail = Succ(sq_db) /\ cid[cur[t]] = sq_db /\ done_flag[sq_db] = 0
  BY <1>1 DEF TailInv, Filling
<1>3. \A u \in Threads \ {t} : pc[u] \notin Filling
  BY <1>1, Alone DEF Critical, Filling
<1>4. CASE ctl_head # Succ(sq_db)
  <2>1. \A c \in Slots : Queued(c) \/ c = sq_db => Queued(c)'
    BY <1>1, <1>2, <1>4 DEF Queued, InRing, Succ
  <2>2. \A c \in Slots : InUse(c) \/ c = sq_db => InUse(c)'
    BY <1>1, <2>1 DEF InUse, Executing, Posted
  <2> QED
    BY <1>1, <1>2, <1>3, <2>2 DEF Tracked, OnItsWay
<1>5. CASE ctl_head = Succ(sq_db)
  <2>1. \A c \in Slots : Queued(c) \/ c = sq_db
    BY <1>1, <1>5 DEF Queued, InRing, Succ
  <2>2. \A c \in Slots : done_flag'[c] = 0 /\ ~Executing(c)'
    BY <1>1, <1>2, <2>1 DEF PlaceInv, Executing, Filling
  <2>3. \A i \in Slots : ~Posted(i)
    <3> SUFFICES ASSUME NEW i \in Slots, Posted(i) PROVE FALSE
      OBVIOUS
    <3>1. ~Queued(cqe[i].CID) /\ cqe[i].CID # sq_db /\ cqe[i].CID \in Slots
      BY <1>1 DEF PlaceInv, Filling, TypeOK
    <3> QED
      BY <2>1, <3>1
  <2>4. \A i \in Slots : ~Posted(i)'
    BY <1>1, <2>3 DEF Posted
  <2>5. \A c \in Slots : ~Queued(c)'
    BY <1>1, <1>2, <1>5 DEF Queued, InRing
  <2>6. \A u \in Threads : pc'[u] \notin Filling
    BY <1>1, <1>3 DEF Filling, TypeOK
  <2> QED
    BY <2>2, <2>4, <2>5, <2>6 DEF RingDead, OnItsWay, InUse
<1> QED
  BY <1>4, <1>5

(* What check_cq takes from the ring is marked, and nothing else.             *)
LEMMA CqMarkFollows ==
  ASSUME IInv, Tracked, NEW t \in Threads, CqMark(t)
  PROVE  Tracked'
<1> USE DEF IInv
<1>1. /\ pc[t] = "mark" /\ pc' = [pc EXCEPT ![t] = "do_cqe"]
      /\ done_flag' = [done_flag EXCEPT ![cqe[cq_head].CID] = 1]
      /\ cq_head' = Succ(cq_head)
      /\ cq_phase' = IF cq_head + 1 = QD THEN 1 - cq_phase ELSE cq_phase
      /\ UNCHANGED <<cur, cid, cqe, sq_db, ctl_head, exec, ctl_tail, ctl_phase, cq_db>>
  BY DEF CqMark, goto, ctlVars
<1>2. NewEntry /\ Posted(cq_head) /\ cq_head \in Slots
  BY <1>1, NewEntryPosted DEF TypeOK, SlotInv
<1>3. \A i \in Slots \ {cq_head} : Posted(i) => Posted(i)'
  BY <1>1, <1>2 DEF TypeOK, RingInv, Posted, Succ
<1>4. \A c \in Slots \ {cqe[cq_head].CID} : InUse(c) => InUse(c)'
  BY <1>1, <1>3 DEF InUse, Queued, Executing
<1>5. \A c \in Slots : done_flag'[c] = 0 => done_flag[c] = 0 /\ c # cqe[cq_head].CID
  BY <1>1 DEF TypeOK
<1>6. \A u \in Threads : pc[u] \in Filling => pc'[u] \in Filling
  BY <1>1 DEF Filling, TypeOK
<1> QED
  BY <1>1, <1>4, <1>5, <1>6 DEF Tracked, OnItsWay

(* The controller passes a slot on from the submission ring to a command and  *)
(* from a command to the completion ring.                                     *)
LEMMA FetchFollows ==
  ASSUME IInv, Tracked, CtlFetch
  PROVE  Tracked'
<1> USE DEF IInv
<1>1. /\ ctl_head # sq_db /\ ctl_head \in Slots /\ sq_db \in Slots
      /\ exec' = [exec EXCEPT ![ctl_head] = sqe[ctl_head]] /\ ctl_head' = Succ(ctl_head)
      /\ UNCHANGED <<pc, cur, cq_head, cq_phase, done_flag, cid, cqe, sq_db, ctl_tail, ctl_phase>>
  BY DEF CtlFetch, hostVars, TypeOK
<1>2. Queued(ctl_head) /\ sqe[ctl_head] \in Reqs
  BY <1>1, RingPop DEF Queued, SlotInv, Loaded, Carries
<1>3. \A c \in Slots \ {ctl_head} : Queued(c) => Queued(c)'
  BY <1>1 DEF Queued, InRing, Succ
<1>4. \A c \in Slots : Executing(c) \/ c = ctl_head => Executing(c)'
  BY <1>1, <1>2, NoReqAssumption DEF Executing, TypeOK
<1>5. \A c \in Slots : InUse(c) => InUse(c)'
  BY <1>1, <1>3, <1>4 DEF InUse, Posted
<1> QED
  BY <1>1, <1>5 DEF Tracked, OnItsWay

LEMMA CompleteFollows ==
  ASSUME IInv, Tracked, NEW c \in Slots, CtlComplete(c)
  PROVE  Tracked'
<1> USE DEF IInv
<1>1. /\ Succ(ctl_tail) # cq_db /\ ctl_tail \in Slots
      /\ cqe' = [cqe EXCEPT ![ctl_tail] = [P |-> ctl_phase, CID |-> c]]
      /\ exec' = [exec EXCEPT ![c] = NoReq] /\ ctl_tail' = Succ(ctl_tail)
      /\ ctl_phase' = IF ctl_tail + 1 = QD THEN 1 - ctl_phase ELSE ctl_phase
      /\ UNCHANGED <<pc, cur, cq_head, cq_phase, done_flag, cid, sq_db, cq_db, ctl_head>>
  BY DEF CtlComplete, hostVars, TypeOK
<1>2. ~Posted(ctl_tail)
  BY <1>1, PostedPush
<1>3. \A i \in Slots : Posted(i) \/ i = ctl_tail => Posted(i)'
  BY <1>1 DEF TypeOK, RingInv, Posted, Succ
<1>4. cqe'[ctl_tail].CID = c /\ \A i \in Slots : Posted(i) => cqe'[i] = cqe[i]
  BY <1>1, <1>2 DEF TypeOK
<1>5. \A d \in Slots : d # c /\ Executing(d) => Executing(d)'
  BY <1>1 DEF Executing, TypeOK
<1>6. \A d \in Slots : InUse(d) => InUse(d)'
  <2> TAKE d \in Slots
  <2>1. CASE Queued(d)
    BY <1>1, <2>1 DEF InUse, Queued
  <2>2. CASE Executing(d)
    BY <1>1, <1>3, <1>4, <1>5, <2>2 DEF InUse
  <2>3. CASE \E i \in Slots : Posted(i) /\ cqe[i].CID = d
    BY <1>3, <1>4, <2>3 DEF InUse
  <2> QED
    BY <2>1, <2>2, <2>3 DEF InUse
<1> QED
  BY <1>1, <1>6 DEF Tracked, OnItsWay

LEMMA TrackedStep ==
  ASSUME IInv, Tracked, [Next]_vars
  PROVE  Tracked' \/ RingDead'
<1> USE DEF IInv
<1>1. ASSUME NEW t \in Threads, NEW r \in Reqs, CallReq(t, r) \/ CallCheck(t, r)
      PROVE  Tracked'
  <2>1. /\ pc[t] = "idle"
        /\ \E l \in {"lock", "done1"} : pc' = [pc EXCEPT ![t] = l]
        /\ cur' = [cur EXCEPT ![t] = r]
        /\ UNCHANGED <<done_flag, cid, cqe, sq_db, ctl_head, exec, ctl_tail, ctl_phase, cq_head,
                       cq_phase>>
    BY <1>1 DEF CallReq, CallCheck, goto, ctlVars
  <2>2. \A u \in Threads : pc[u] \in Filling => pc'[u] \in Filling /\ cur'[u] = cur[u]
    BY <2>1 DEF TypeOK, Filling
  <2> QED
    BY <2>1, <2>2, LostSame
<1>2. ASSUME NEW t \in Threads,
             \/ Lock(t) \/ NewSqeFull(t) \/ Fill(t) \/ CqNothing(t) \/ CqCopy(t) \/ CqDrained(t)
             \/ UnlockReq(t) \/ UnlockCheck(t) \/ Done(t) \/ NotDone(t)
      PROVE  Tracked'
  <2>1. /\ (pc[t] = "fill" /\ cur' = cur) \/ pc[t] \notin Filling
        /\ \E l : pc' = [pc EXCEPT ![t] = l] /\ (pc[t] = "fill" => l = "doorbell")
        /\ \A u \in Threads \ {t} : cur'[u] = cur[u]
        /\ UNCHANGED <<done_flag, cid, cqe, sq_db, ctl_head, exec, ctl_tail, ctl_phase, cq_head,
                       cq_phase>>
    BY <1>2 DEF Lock, NewSqeFull, Fill, CqNothing, CqReturn, CqCopy, CqDrained, UnlockReq,
                UnlockCheck, Done, NotDone, goto, ctlVars, Filling, TypeOK
  <2>2. \A u \in Threads : pc[u] \in Filling => pc'[u] \in Filling /\ cur'[u] = cur[u]
    BY <2>1 DEF TypeOK, Filling
  <2> QED
    BY <2>1, <2>2, LostSame
<1>3. CASE UNCHANGED vars
  BY <1>3, LostSame DEF vars, hostVars, ctlVars
<1>4. ASSUME NEW t \in Threads, Step(t)
      PROVE  Tracked' \/ RingDead'
  BY <1>2, <1>4, NewSqeFollows, DoorbellFollows, CqMarkFollows DEF Step
<1> QED
  BY <1>1, <1>3, <1>4, FetchFollows, CompleteFollows DEF Next

(* A dead ring stays so: no slot is free to be taken, nothing is fetched,     *)
(* executed or posted.                                                        *)
LEMMA DeadStep ==
  ASSUME IInv, RingDead, [Next]_vars
  PROVE  RingDead'
<1> USE DEF IInv
<1>1. /\ \A c \in Slots : done_flag[c] = 0 /\ ~Queued(c) /\ ~Executing(c)
      /\ \A i \in Slots : ~Posted(i)
      /\ \A u \in Threads : pc[u] \notin Filling
  <2>1. \A c \in Slots : done_flag[c] = 0 /\ ~Queued(c) /\ ~Executing(c)
    BY DEF RingDead, OnItsWay, InUse
  <2>2. \A i \in Slots : Posted(i) => cqe[i].CID \in Slots
    BY DEF TypeOK
  <2>3. \A i \in Slots : ~Posted(i)
    BY <2>2 DEF RingDead, OnItsWay, InUse
  <2>4. \A u \in Threads : pc[u] \in Filling => cid[cur[u]] = sq_db /\ sq_db \in Slots
    BY DEF TailInv, TypeOK
  <2>5. \A u \in Threads : pc[u] \notin Filling
    BY <2>4 DEF RingDead, OnItsWay
  <2> QED
    BY <2>1, <2>3, <2>5
<1>2. ASSUME UNCHANGED <<done_flag, cqe, sq_db, ctl_head, exec, ctl_tail, ctl_phase, cq_head,
                         cq_phase>>,
             \A u \in Threads : pc'[u] \notin Filling
      PROVE  RingDead'
  BY <1>1, <1>2 DEF RingDead, OnItsWay, InUse, Queued, Executing, Posted
<1>3. CASE UNCHANGED vars
  BY <1>1, <1>2, <1>3 DEF vars, hostVars, ctlVars
<1>4. ASSUME NEW t \in Threads, NEW r \in Reqs, CallReq(t, r) \/ CallCheck(t, r)
      PROVE  RingDead'
  <2>1. /\ \E l \in {"lock", "done1"} : pc' = [pc EXCEPT ![t] = l]
        /\ UNCHANGED <<done_flag, cqe, sq_db, ctl_head, exec, ctl_tail, ctl_phase, cq_head,
                       cq_phase>>
    BY <1>4 DEF CallReq, CallCheck, goto, ctlVars
  <2>2. \A u \in Threads : pc'[u] \notin Filling
    BY <1>1, <2>1 DEF TypeOK, Filling
  <2> QED
    BY <1>2, <2>1, <2>2
<1>5. ASSUME NEW t \in Threads,
             NewSqe(t) \/ Fill(t) \/ Doorbell(t) \/ CqMark(t) \/ CqCopy(t)
      PROVE  FALSE
  <2>1. sq_tail \in Slots /\ cq_head \in Slots
    BY DEF TypeOK
  <2>2. ~NewEntry
    BY <1>1, <2>1, NewEntryPosted DEF NewEntry
  <2>3. pc[t] = "mark" => NewEntry
    BY DEF SlotInv
  <2> QED
    BY <1>1, <1>5, <2>1, <2>2, <2>3 DEF NewSqe, Fill, Doorbell, CqMark, CqCopy, Filling
<1>6. ASSUME NEW t \in Threads,
             \/ Lock(t) \/ NewSqeFull(t) \/ CqNothing(t) \/ CqDrained(t)
             \/ UnlockReq(t) \/ UnlockCheck(t) \/ Done(t) \/ NotDone(t)
      PROVE  RingDead'
  <2>1. /\ \E l : pc' = [pc EXCEPT ![t] = l] /\ l \notin Filling
        /\ UNCHANGED <<done_flag, cqe, sq_db, ctl_head, exec, ctl_tail, ctl_phase, cq_head,
                       cq_phase>>
    BY <1>6 DEF Lock, NewSqeFull, CqNothing, CqReturn, CqDrained, UnlockReq,
                UnlockCheck, Done, NotDone, goto, ctlVars, Filling
  <2>2. \A u \in Threads : pc'[u] \notin Filling
    BY <1>1, <2>1 DEF TypeOK
  <2> QED
    BY <1>2, <2>1, <2>2
<1>7. ASSUME NEW t \in Threads, Step(t)
      PROVE  RingDead'
  BY <1>5, <1>6, <1>7 DEF Step
<1>8. CASE CtlFetch
  <2>1. ctl_head # sq_db /\ ctl_head \in Slots /\ sq_db \in Slots
    BY <1>8 DEF CtlFetch, TypeOK
  <2> QED
    BY <1>1, <2>1, RingPop DEF Queued
<1>9. ASSUME NEW c \in Slots, CtlComplete(c)
      PROVE  RingDead'
  BY <1>1, <1>9 DEF CtlComplete, Executing
<1> QED
  BY <1>3, <1>4, <1>7, <1>8, <1>9 DEF Next

(* A slot in use is on its way, so its completion comes (new_sqe, check_cq),    *)
(* until the doorbell that fills the ring loses every slot at once; nothing     *)
(* else ever loses one, whatever the threads leave outstanding.                 *)
THEOREM NothingLostHolds == Spec => []NothingLost
<1> DEFINE J == IInv /\ (Tracked \/ RingDead)
<1>1. Init => J
  <2>1. Init => Tracked
    BY DEF Init, Tracked
  <2> QED
    BY <2>1, InitIInv
<1>2. J /\ [Next]_vars => J'
  BY NextIInv, TrackedStep, DeadStep
<1>3. J => NothingLost
  BY DEF NothingLost, Tracked
<1> QED
  BY <1>1, <1>2, <1>3, PTL DEF Spec

(* A ring that was filled before the controller looked is never used again:     *)
(* new_sqe waits for a completion that nothing will bring (new_sqe, check_cq).  *)
THEOREM DeadForeverHolds == Spec => DeadForever
<1>1. IInv /\ [Next]_vars => [RingDead => RingDead']_vars
  BY DeadStep
<1> QED
  BY Invariance, <1>1, PTL DEF Spec, DeadForever

=============================================================================
