------------------------------- MODULE IoPath -------------------------------
(***************************************************************************)
(* pread64 and pwrite64 on a hooked file (read_impl and write_impl of      *)
(* src/newlib/hook.c): a call is cut into requests that are issued in      *)
(* batches of READ_DEG or WRITE_DEG and polled with nvme_check.            *)
(*                                                                         *)
(* The unit is the 512-byte sector; the callers pass whole sectors, as     *)
(* O_DIRECT asks for.  The requests behave as AsyncIO says, which NvmeQP   *)
(* is shown to implement: they complete in any order, a write's data is    *)
(* the caller's at the time of the call, and the file's sectors are        *)
(* distinct places on the medium (src/newlib/myfs.c).                      *)
(***************************************************************************)
EXTENDS Integers, FiniteSets

CONSTANTS Threads,
          Sectors,      \* the size of the file
          BLK,          \* sectors per 4 KB block (BLKSZ)
          READ_DEG, WRITE_DEG,
          MaxCalls      \* bound: calls of each thread

ASSUME SizesAssumption == /\ Sectors \in Nat \ {0} /\ BLK \in Nat \ {0}
                          /\ READ_DEG \in Nat \ {0} /\ WRITE_DEG \in Nat \ {0}
                          /\ MaxCalls \in [Threads -> Nat]

File == 0..(Sectors - 1)

(* A sector's contents: who wrote it, in which call, and as which sector. *)
Blank == [by |-> {}, call |-> 0, as |-> 0]
Datum(t, c, s) == [by |-> {t}, call |-> c, as |-> s]

VARIABLES
    medium,     \* the contents of the file's sectors
    pending,    \* the requests the device has not completed
    pc,         \* per thread: idle, issue or poll
    kind, pos, len, unit, j,    \* per thread: arguments, blksz and j of the call
    batch,      \* per thread: rid[0..rq_k-1], the requests it will poll
    calls,      \* per thread: calls so far
    buf,        \* per thread: what reached its read buffer, per sector of the file
    wrote       \* per thread: what its returned writes stored, per sector

vars == <<medium, pending, pc, kind, pos, len, unit, j, batch, calls, buf, wrote>>

Init ==
    /\ medium = [s \in File |-> Blank]
    /\ pending = {}
    /\ pc = [t \in Threads |-> "idle"]
    /\ kind = [t \in Threads |-> "read"]
    /\ pos = [t \in Threads |-> 0]
    /\ len = [t \in Threads |-> 0]
    /\ unit = [t \in Threads |-> 1]
    /\ j = [t \in Threads |-> 0]
    /\ batch = [t \in Threads |-> {}]
    /\ calls = [t \in Threads |-> 0]
    /\ buf = [t \in Threads |-> <<>>]
    /\ wrote = [t \in Threads |-> [s \in File |-> Blank]]

Span(t) == pos[t]..(pos[t] + len[t] - 1)

-----------------------------------------------------------------------------

(* Mutant of blksz: only the length is tested for whole blocks. *)
blkszLenOnly(k, p, n) ==
    IF k = "read" /\ n <= BLK THEN n
    ELSE IF n % BLK # 0 THEN 1 ELSE BLK

(* blksz: single sectors unless the call is made of whole blocks; a read     *)
(* inside one block is a single request.                                     *)
blksz(k, p, n) ==
    IF k = "read" /\ (p % BLK) + n <= BLK THEN n
    ELSE IF n % BLK # 0 \/ p % BLK # 0 THEN 1 ELSE BLK

(* A read is cut at the end of the file. *)
Call(t, k, p, n) ==
    LET l == IF k = "read" /\ p + n > Sectors THEN Sectors - p ELSE n
    IN  /\ pc[t] = "idle"
        /\ calls[t] < MaxCalls[t]
        /\ p + l <= Sectors
        /\ calls' = [calls EXCEPT ![t] = @ + 1]
        /\ kind' = [kind EXCEPT ![t] = k]
        /\ pos' = [pos EXCEPT ![t] = p]
        /\ len' = [len EXCEPT ![t] = l]
        /\ unit' = [unit EXCEPT ![t] = blksz(k, p, l)]
        /\ j' = [j EXCEPT ![t] = 0]
        /\ buf' = [buf EXCEPT ![t] = <<>>]
        /\ pc' = [pc EXCEPT ![t] = "issue"]
        /\ UNCHANGED <<medium, pending, batch, wrote>>

(* The request at offset j: nvme_read_req or nvme_write_req of blksz bytes. *)
request(t) ==
    [tid |-> t, call |-> calls[t], kind |-> kind[t], at |-> pos[t] + j[t], n |-> unit[t]]

(* Mutant of Issue: a full batch goes on issuing instead of polling. *)
IssueUnbounded(t) ==
    /\ pc[t] = "issue"
    /\ pending' = pending \cup {request(t)}
    /\ j' = [j EXCEPT ![t] = @ + unit[t]]
    /\ batch' = [batch EXCEPT ![t] = IF kind[t] = "write" /\ j[t] + unit[t] >= len[t]
                                     THEN @ ELSE @ \cup {request(t)}]
    /\ pc' = [pc EXCEPT ![t] = IF j[t] + unit[t] >= len[t] THEN "poll" ELSE "issue"]
    /\ UNCHANGED <<medium, kind, pos, len, unit, calls, buf, wrote>>

(* Mutant of Issue: the read loop leaves the batch as the write loop does. *)
IssueBreaksEarly(t) ==
    /\ pc[t] = "issue"
    /\ pending' = pending \cup {request(t)}
    /\ j' = [j EXCEPT ![t] = @ + unit[t]]
    /\ batch' = [batch EXCEPT ![t] = IF j[t] + unit[t] >= len[t]
                                     THEN @ ELSE @ \cup {request(t)}]
    /\ pc' = [pc EXCEPT ![t] =
                IF j[t] + unit[t] >= len[t] \/ Cardinality(batch'[t]) = READ_DEG
                THEN "poll" ELSE "issue"]
    /\ UNCHANGED <<medium, kind, pos, len, unit, calls, buf, wrote>>

Degree(t) == IF kind[t] = "read" THEN READ_DEG ELSE WRITE_DEG

(* One turn of the issuing loop.  The write loop breaks out after its last    *)
(* request without counting it in rq_k: that request will not be polled.      *)
Issue(t) ==
    LET last == j[t] + unit[t] >= len[t]
        rids == IF kind[t] = "write" /\ last THEN batch[t] ELSE batch[t] \cup {request(t)}
    IN  /\ pc[t] = "issue"
        /\ pending' = pending \cup {request(t)}
        /\ j' = [j EXCEPT ![t] = @ + unit[t]]
        /\ batch' = [batch EXCEPT ![t] = rids]
        /\ pc' = [pc EXCEPT ![t] = IF last \/ Cardinality(rids) = Degree(t)
                                   THEN "poll" ELSE "issue"]
        /\ UNCHANGED <<medium, kind, pos, len, unit, calls, buf, wrote>>

(* Mutant of Poll: the last request of the batch is not polled. *)
PollEarly(t) ==
    /\ pc[t] = "poll"
    /\ Cardinality(batch[t] \cap pending) <= 1
    /\ batch' = [batch EXCEPT ![t] = {}]
    /\ pc' = [pc EXCEPT ![t] = IF j[t] < len[t] THEN "issue" ELSE "idle"]
    /\ UNCHANGED <<medium, pending, kind, pos, len, unit, j, calls, buf, wrote>>

(* Mutant of Poll: the next batch is not started when there is more to do. *)
PollForgetsIssue(t) ==
    /\ pc[t] = "poll"
    /\ batch[t] \cap pending = {}
    /\ batch' = [batch EXCEPT ![t] = {}]
    /\ j[t] >= len[t]
    /\ pc' = [pc EXCEPT ![t] = "idle"]
    /\ UNCHANGED <<medium, pending, kind, pos, len, unit, j, calls, buf, wrote>>

(* The batch is polled until each of its requests completed; then the next   *)
(* batch is issued, or the call returns.                                     *)
Poll(t) ==
    /\ pc[t] = "poll"
    /\ batch[t] \cap pending = {}
    /\ batch' = [batch EXCEPT ![t] = {}]
    /\ IF j[t] < len[t]
       THEN pc' = [pc EXCEPT ![t] = "issue"] /\ UNCHANGED wrote
       ELSE /\ pc' = [pc EXCEPT ![t] = "idle"]
            /\ wrote' = [wrote EXCEPT ![t] =
                 [s \in File |-> IF kind[t] = "write" /\ s \in Span(t)
                                 THEN Datum(t, calls[t], s) ELSE @[s]]]
    /\ UNCHANGED <<medium, pending, kind, pos, len, unit, j, calls, buf>>

-----------------------------------------------------------------------------

Covers(q) == q.at..(q.at + q.n - 1)

(* The device stores a write's sectors, or fills in a read's part of its      *)
(* caller's buffer (a copy past the end of that buffer shows as a sector      *)
(* outside the call's range).                                                 *)
Complete(q) ==
    /\ pending' = pending \ {q}
    /\ IF q.kind = "write"
       THEN /\ medium' = [s \in File |-> IF s \in Covers(q) THEN Datum(q.tid, q.call, s)
                                                            ELSE medium[s]]
            /\ UNCHANGED buf
       ELSE /\ buf' = [buf EXCEPT ![q.tid] =
                 [s \in DOMAIN @ \cup Covers(q) |->
                    IF s \notin Covers(q) THEN @[s]
                    ELSE IF s \in File THEN medium[s] ELSE Blank]]
            /\ UNCHANGED medium
    /\ UNCHANGED <<pc, kind, pos, len, unit, j, batch, calls, wrote>>

-----------------------------------------------------------------------------

Next ==
    \/ \E t \in Threads :
          \/ \E k \in {"read", "write"}, p \in File, n \in 1..Sectors : Call(t, k, p, n)
          \/ Issue(t)
          \/ Poll(t)
    \/ \E q \in pending : Complete(q)

Spec == Init /\ [][Next]_vars

(* A ULT that polls yields and is scheduled again, and the device completes  *)
(* every request: the guarantee NvmeQP is checked for.                       *)
Fairness ==
    /\ \A t \in Threads : WF_vars(Issue(t) \/ Poll(t))
    /\ \A t \in Threads : \A c \in 1..MaxCalls[t], s \in File :
          WF_vars(\E q \in pending : q.tid = t /\ q.call = c /\ q.at = s /\ Complete(q))

FairSpec == Spec /\ Fairness

-----------------------------------------------------------------------------
(* Properties.                                                              *)

Requests ==
    [tid : Threads, call : Nat, kind : {"read", "write"}, at : File, n : 1..Sectors]

(* Every variable keeps its type. *)
TypeOK ==
    /\ pending \subseteq Requests
    /\ pc \in [Threads -> {"idle", "issue", "poll"}]
    /\ kind \in [Threads -> {"read", "write"}]
    /\ pos \in [Threads -> File]
    /\ len \in [Threads -> 0..Sectors]
    /\ unit \in [Threads -> 1..Sectors]
    /\ j \in [Threads -> 0..Sectors]
    /\ batch \in [Threads -> SUBSET Requests]
    /\ calls \in [Threads -> Nat] /\ \A t \in Threads : calls[t] <= MaxCalls[t]

(* No request crosses a block: its bounce page is one block long, and a file  *)
(* is contiguous on one disk only within a block (RAID_FACTOR, myfs_get_lba). *)
InOneBlock == \A q \in pending : q.at \div BLK = (q.at + q.n - 1) \div BLK

(* A read's buffer is written only during the call: no request is left behind *)
(* that would copy into it after read_impl returned.                          *)
NoLateCopy ==
    \A q \in pending : q.kind = "read" => pc[q.tid] # "idle" /\ q.call = calls[q.tid]

(* A write that returned leaves at most its last request behind.              *)
OnlyTheLast ==
    \A q, r \in pending :
        /\ q.tid = r.tid /\ q.call = r.call
        /\ pc[q.tid] = "idle" \/ q.call < calls[q.tid]
        => q = r

(* A call never has more requests outstanding than its degree, which is the   *)
(* length of its array rid.  That says nothing of the ring: N_ULT_PER_CORE    *)
(* calls of READ_DEG requests each are far more than QD.                      *)
WithinDegree ==
    \A t \in Threads : pc[t] # "idle" =>
        Cardinality({q \in pending : q.tid = t /\ q.call = calls[t]}) <= Degree(t)

Returns(t) == pc[t] = "poll" /\ pc'[t] = "idle"

(* A read that returns has filled its buffer: every sector, from the place in *)
(* the file that was asked for, whatever order the device worked in.          *)
ReadFilled ==
    [][\A t \in Threads : Returns(t) /\ kind[t] = "read" =>
          /\ DOMAIN buf[t] = Span(t)
          /\ \A s \in Span(t) : buf[t][s] = Blank \/ buf[t][s].as = s]_vars

(* Every call returns. *)
CallReturns == \A t \in Threads : (pc[t] # "idle") ~> (pc[t] = "idle")

(* What a thread wrote it reads back, unless another thread wrote it too.     *)
(* readetest.c writes every sector with pwrite64, announces "write done",     *)
(* and prints what pread64 returns beside what was written.                   *)
ReadBack ==
    [][\A t \in Threads : Returns(t) /\ kind[t] = "read" =>
          \A s \in Span(t) : buf[t][s].by \subseteq {t} => buf[t][s] = wrote[t][s]]_vars

(* The type invariant; a call has no more requests out than the sizing of   *)
(* the rings foresees, and only the last request of a write outlives it.    *)
Inv == TypeOK /\ WithinDegree /\ OnlyTheLast
=============================================================================
