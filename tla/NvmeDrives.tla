----------------------------- MODULE NvmeDrives -----------------------------
(***************************************************************************)
(* The drives under src/newlib/nvme.cc: nvme_init brings up the            *)
(* controllers of the DRIVE_IDS list one after the other, with an admin    *)
(* queue and one pair of I/O queues per core, and nvme_read_req and        *)
(* nvme_write_req then spread the blocks over them and name each request   *)
(* by a number that nvme_check takes apart again.                          *)
(*                                                                         *)
(* A controller is external: its register file (cc, csts), the queues it   *)
(* was told about, and a reader of the admin ring that posts completions   *)
(* with a phase bit.  It answers a command it cannot execute with an error *)
(* status, which the code does not look at.  How the I/O rings are used    *)
(* is the subject of NvmeQP.                                               *)
(***************************************************************************)
EXTENDS Integers, Sequences, FiniteSets

CONSTANTS ND, N_CORE,
          QD, AQD,          \* entries of an I/O ring, of the admin ring
          RAID_FACTOR,      \* sectors in a stripe
          N_SECTORS,        \* how much of the volume is used
          Lists,            \* the values of DRIVE_IDS: sequences of Conditions
          MaxQueues,        \* the queue pairs each controller offers
          None

(* A drive is fine, bound to a kernel driver, not accessible, slow to        *)
(* leave the ready state, or fails when it is enabled.                       *)
Conditions == {"good", "kernel", "closed", "slow", "fatal"}

ASSUME SizesAssumption == /\ {ND, N_CORE, QD, RAID_FACTOR} \subseteq Nat \ {0}
                          /\ AQD \in Nat \ {0, 1} /\ MaxQueues \in Nat
ASSUME SectorsAssumption == N_SECTORS \in Nat /\ None \notin Nat
ASSUME ListsAssumption == Lists \subseteq Seq(Conditions)

Disks == 0..(ND - 1)
Cores == 0..(N_CORE - 1)
Queues == 1..N_CORE
Cids == 0..(QD - 1)
Sectors == 0..(N_SECTORS - 1)

VARIABLES
    DRIVE_IDS, i, j,        \* the list, the place in it, the drive's number
    at,                     \* where __nvme_init is
    qps,                    \* the QP objects: pairs of a drive and a queue
    todo,                   \* the admin commands still to be made
    sq_tail, cq_head, cq_phase, done_flag, cid,     \* the admin QP
    sqe, cqe, db,           \* its rings and its doorbell
    condition, cc, csts, aq, cqs, sqs,  \* per drive: state of the controller
    ctl,                    \* its place in the admin rings and its phase
    media, written,         \* what is on the drives; what was written
    rid, where              \* the last request: its number and its slot

listVars == <<DRIVE_IDS, i, j>>
admin == <<todo, sq_tail, cq_head, cq_phase, done_flag, cid, sqe, db>>
regs == <<cc, csts, aq>>
ctlVars == <<condition, cqs, sqs, ctl, cqe>>
requests == <<media, written, rid, where>>
driveVars == <<listVars, at, qps, admin, regs, ctlVars, requests>>

(* new QP(0): rings that are zero, and all slots free. *)
NewAdminQP ==
    /\ sq_tail' = 0 /\ cq_head' = 0 /\ cq_phase' = 1
    /\ done_flag' = [c \in 0..(AQD - 1) |-> 2]
    /\ sqe' = [c \in 0..(AQD - 1) |-> None]
    /\ cqe' = [c \in 0..(AQD - 1) |-> [P |-> 0, CID |-> 0]]

DrivesInit ==
    /\ DRIVE_IDS \in Lists /\ i = 1 /\ j = 0
    /\ at = "next"
    /\ qps = {} /\ todo = <<>>
    /\ sq_tail = 0 /\ cq_head = 0 /\ cq_phase = 1 /\ cid = 0
    /\ done_flag = [c \in 0..(AQD - 1) |-> 2]
    /\ sqe = [c \in 0..(AQD - 1) |-> None]
    /\ cqe = [c \in 0..(AQD - 1) |-> [P |-> 0, CID |-> 0]]
    /\ db = 0
    /\ condition = [d \in Disks |-> "good"]
    /\ cc = [d \in Disks |-> 1]
    /\ csts \in [Disks -> {0, 1}] /\ \A d \in Disks : csts[d] = csts[0]
    /\ aq = [d \in Disks |-> FALSE]
    /\ cqs = [d \in Disks |-> {}] /\ sqs = [d \in Disks |-> {}]
    /\ ctl = [head |-> 0, tail |-> 0, phase |-> 1]
    /\ media = [b \in Disks \X Sectors |-> None] /\ written = {}
    /\ rid = 0 /\ where = <<0, 1, 0>>

goto(l) == at' = l

-----------------------------------------------------------------------------
(* nvme_init and __nvme_init.                                               *)

More == at = "next" /\ i <= Len(DRIVE_IDS) /\ j < ND

(* A drive that is not under uio_pci_generic ends the program. *)
NotUio ==
    /\ More /\ DRIVE_IDS[i] = "kernel"
    /\ goto("exit")
    /\ UNCHANGED <<listVars, qps, admin, regs, ctlVars, requests>>

(* A drive whose registers cannot be mapped counts, and has no queues. *)
Unmapped ==
    /\ More /\ DRIVE_IDS[i] = "closed"
    /\ i' = i + 1 /\ j' = j + 1
    /\ UNCHANGED <<DRIVE_IDS, at, qps, admin, regs, ctlVars, requests>>

Disable ==
    /\ More /\ DRIVE_IDS[i] \notin {"kernel", "closed"}
    /\ condition' = [condition EXCEPT ![j] = DRIVE_IDS[i]]
    /\ cc' = [cc EXCEPT ![j] = 0]
    /\ goto("disabled")
    /\ UNCHANGED <<listVars, qps, admin, csts, aq, cqs, sqs, ctl, cqe, requests>>

DrivesDone ==
    /\ at = "next" /\ (i > Len(DRIVE_IDS) \/ j = ND)
    /\ goto("up")
    /\ UNCHANGED <<listVars, qps, admin, regs, ctlVars, requests>>

(* usleep gives the controller a fixed time to leave the ready state. *)
Disabled ==
    /\ at = "disabled"
    /\ csts[j] = 0 \/ condition[j] = "slow"
    /\ goto(IF csts[j] = 0 THEN "admin" ELSE "assert")
    /\ UNCHANGED <<listVars, qps, admin, regs, ctlVars, requests>>

AdminQueue ==
    /\ at = "admin"
    /\ NewAdminQP /\ db' = 0
    /\ ctl' = [head |-> 0, tail |-> 0, phase |-> 1]
    /\ qps' = qps \cup {<<j, 0>>}
    /\ aq' = [aq EXCEPT ![j] = TRUE]
    /\ goto("enable")
    /\ UNCHANGED <<listVars, todo, cid, cc, csts, condition, cqs, sqs, requests>>

(* Mutant of Creates: the submission queue is made first. *)
CreatesSwapped(q) == <<[opc |-> "sq", qid |-> q], [opc |-> "cq", qid |-> q]>>

(* create_qp makes the completion queue first. *)
Creates(q) == <<[opc |-> "cq", qid |-> q], [opc |-> "sq", qid |-> q]>>

(* Identify, then the queues of every core. *)
Commands == <<[opc |-> "identify", qid |-> 0]>>
            \o [n \in 1..(2 * N_CORE) |-> Creates((n + 1) \div 2)[2 - (n % 2)]]

Enable ==
    /\ at = "enable"
    /\ cc' = [cc EXCEPT ![j] = 1]
    /\ todo' = Commands
    /\ goto("enabled")
    /\ UNCHANGED <<listVars, qps, sq_tail, cq_head, cq_phase, done_flag, cid, sqe, db,
                   csts, aq, ctlVars, requests>>

(* The status is read until it is exactly 1. *)
Enabled ==
    /\ at = "enabled" /\ csts[j] = 1
    /\ goto("command")
    /\ UNCHANGED <<listVars, qps, admin, regs, ctlVars, requests>>

-----------------------------------------------------------------------------
(* create_qp and the identify command: new_sqe, then req_and_wait.          *)

succ(n) == (n + 1) % AQD

submit(tail) ==
    /\ at = "command" /\ todo # <<>> /\ done_flag[sq_tail] # 0
    /\ qps' = qps \cup {<<j, Head(todo).qid>>}
    /\ sqe' = [sqe EXCEPT ![sq_tail] = Head(todo)]
    /\ done_flag' = [done_flag EXCEPT ![sq_tail] = 0]
    /\ cid' = sq_tail
    /\ sq_tail' = succ(sq_tail) /\ db' = tail
    /\ todo' = Tail(todo)
    /\ goto("wait")
    /\ UNCHANGED <<listVars, cq_head, cq_phase, regs, ctlVars, requests>>

(* Mutant of Submit: the doorbell gets the old tail. *)
SubmitOldTail == submit(sq_tail)

Submit == submit(succ(sq_tail))

(* check_cq, of a completion that is there.  It also looks at rbuf[CID],    *)
(* which nothing has set for an admin queue, and copies into what it finds: *)
(* memory that new QP left zero is taken here.                              *)
Complete ==
    /\ at = "wait" /\ cqe[cq_head].P = cq_phase
    /\ done_flag' = [done_flag EXCEPT ![cqe[cq_head].CID] = 1]
    /\ cq_head' = succ(cq_head)
    /\ cq_phase' = IF succ(cq_head) = 0 THEN 1 - cq_phase ELSE cq_phase
    /\ UNCHANGED <<listVars, at, qps, todo, sq_tail, cid, sqe, db, regs, ctlVars, requests>>

Waited ==
    /\ at = "wait" /\ cqe[cq_head].P # cq_phase /\ done_flag[cid] = 1
    /\ goto("command")
    /\ UNCHANGED <<listVars, qps, admin, regs, ctlVars, requests>>

DriveUp ==
    /\ at = "command" /\ todo = <<>>
    /\ i' = i + 1 /\ j' = j + 1
    /\ goto("next")
    /\ UNCHANGED <<DRIVE_IDS, qps, admin, regs, ctlVars, requests>>

-----------------------------------------------------------------------------
(* The controller of the drive that is being brought up.                    *)
Current == at \notin {"next", "exit", "up", "assert", "fault"}

(* Disabling drops the queues. *)
CtlStop ==
    /\ Current /\ cc[j] = 0 /\ csts[j] # 0
    /\ csts' = [csts EXCEPT ![j] = 0]
    /\ UNCHANGED <<listVars, at, qps, admin, cc, aq, ctlVars, requests>>

CtlStart ==
    /\ Current /\ cc[j] = 1 /\ csts[j] = 0
    /\ csts' = [csts EXCEPT ![j] = IF condition[j] = "fatal" THEN 2 ELSE 1]
    /\ UNCHANGED <<listVars, at, qps, admin, cc, aq, ctlVars, requests>>

(* It needs a completion queue before the submission queue that uses it. *)
possible(c) ==
    CASE c.opc = "identify" -> TRUE
      [] c.opc = "cq" -> c.qid <= MaxQueues
      [] c.opc = "sq" -> c.qid \in cqs[j]

CtlExec ==
    /\ Current /\ csts[j] = 1 /\ aq[j] /\ ctl.head # db
    /\ LET c == sqe[ctl.head] IN
        /\ cqs' = IF c.opc = "cq" /\ possible(c) THEN [cqs EXCEPT ![j] = @ \cup {c.qid}] ELSE cqs
        /\ sqs' = IF c.opc = "sq" /\ possible(c) THEN [sqs EXCEPT ![j] = @ \cup {c.qid}] ELSE sqs
    /\ cqe' = [cqe EXCEPT ![ctl.tail] = [P |-> ctl.phase, CID |-> ctl.head]]
    /\ ctl' = [head |-> succ(ctl.head), tail |-> succ(ctl.tail),
               phase |-> IF succ(ctl.tail) = 0 THEN 1 - ctl.phase ELSE ctl.phase]
    /\ UNCHANGED <<listVars, at, qps, admin, regs, condition, requests>>

-----------------------------------------------------------------------------
(* Where nvme_read_req and nvme_write_req send a block, and the number they *)
(* return.                                                                  *)
did(lba) == (lba \div RAID_FACTOR) % ND

(* Mutant of CDW10: the sector inside the stripe is dropped. *)
CDW10OfStripe(lba) == ((lba \div RAID_FACTOR) \div ND) * RAID_FACTOR

CDW10(lba) == ((lba \div RAID_FACTOR) \div ND) * RAID_FACTOR + (lba % RAID_FACTOR)

(* Mutant of ridOf: the cores of a drive are not counted. *)
ridOfDrive(d, core, c) == d * QD + core * QD + c

ridOf(d, core, c) == d * QD * N_CORE + core * QD + c

decode(r) == <<(r \div QD) \div N_CORE, ((r \div QD) % N_CORE) + 1, r % QD>>

(* The callers write num_blk sectors that are in one stripe (IoPath).  The  *)
(* drive moves consecutive sectors; the slot may be any that is free.       *)
Write(core, lba, num_blk, c) ==
    /\ at = "up" /\ <<did(lba), core + 1>> \in qps
    /\ (lba % RAID_FACTOR) + num_blk <= RAID_FACTOR
    /\ media' = [b \in DOMAIN media |->
                    IF b[1] = did(lba) /\ b[2] - CDW10(lba) \in 0..(num_blk - 1)
                    THEN lba + b[2] - CDW10(lba) ELSE media[b]]
    /\ written' = written \cup (lba..(lba + num_blk - 1))
    /\ where' = <<did(lba), core + 1, c>>
    /\ rid' = ridOf(did(lba), core, c)
    /\ UNCHANGED <<listVars, at, qps, admin, regs, ctlVars>>

(* Nobody asks whether the drive has queues: without, the request is made   *)
(* through NULL.                                                            *)
NullQP(core, lba) ==
    /\ at = "up" /\ <<did(lba), core + 1>> \notin qps
    /\ goto("fault")
    /\ UNCHANGED <<listVars, qps, admin, regs, ctlVars, requests>>

-----------------------------------------------------------------------------
BringUp ==
    \/ NotUio \/ Unmapped \/ Disable \/ DrivesDone \/ Disabled \/ AdminQueue
    \/ Enable \/ Enabled \/ Submit \/ Complete \/ Waited \/ DriveUp

Controller == CtlStop \/ CtlStart \/ CtlExec

Request == \E core \in Cores, lba \in Sectors :
    \/ \E n \in 1..RAID_FACTOR, c \in Cids :
          lba + n - 1 \in Sectors /\ Write(core, lba, n, c)
    \/ NullQP(core, lba)

-----------------------------------------------------------------------------
DrivesTypeOK ==
    /\ DRIVE_IDS \in Lists /\ i \in 1..(Len(DRIVE_IDS) + 1) /\ j \in 0..ND
    /\ qps \subseteq Disks \X (0..N_CORE)
    /\ sq_tail \in 0..(AQD - 1) /\ cq_head \in 0..(AQD - 1) /\ cid \in 0..(AQD - 1)
    /\ done_flag \in [0..(AQD - 1) -> 0..2]
    /\ cqs \in [Disks -> SUBSET Queues] /\ sqs \in [Disks -> SUBSET Queues]
    /\ media \in [Disks \X Sectors -> Sectors \cup {None}]

(* req_and_wait returns when its own command was executed, however often    *)
(* the admin ring has been round (nvme.cc, req_and_wait and check_cq).      *)
CommandsDone == at = "command" => ctl.head = sq_tail

(* The program goes on with all queues of all drives known to both sides,   *)
(* and no request is made through NULL, if every drive of the list is good, *)
(* they are as many as ND, and the controllers have a queue for every core: *)
(* none of this is looked at (nvme.cc, nvme_init, create_qp, nvme_read_req).*)
Fits == Len(DRIVE_IDS) >= ND /\ MaxQueues >= N_CORE /\ \A n \in 1..ND : DRIVE_IDS[n] = "good"
QueuesReady == Fits =>
    /\ at # "fault"
    /\ at = "up" => \A d \in Disks : \A q \in Queues :
                       <<d, q>> \in qps /\ q \in cqs[d] \cap sqs[d]

(* What was written stays where it will be read, whatever else is written:  *)
(* blocks do not share a place on the drives (nvme.cc, CDW10).              *)
SectorsApart == \A lba \in written : media[<<did(lba), CDW10(lba)>>] = lba

(* nvme_check looks at the slot the request is in.                          *)
ChecksOwn == decode(rid) = where
=============================================================================
