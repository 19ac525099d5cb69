----------------------------- MODULE MyfsProofs -----------------------------
(***************************************************************************)
(* What holds of Myfs for every number of threads, names, files and        *)
(* blocks.                                                                 *)
(***************************************************************************)
EXTENDS Myfs, FiniteSetTheorems, WellFoundedInduction, TLAPS

-----------------------------------------------------------------------------
(* Sets of entries.                                                         *)

(* The lowest of some entries is one of them. *)
LEMMA LowestIn ==
    ASSUME NEW S \in SUBSET Files, S # {}
    PROVE  Lowest(S) \in S
<1> DEFINE R == OpToRel(<, Nat)
<1>1. S \subseteq Nat
  BY DEF Files
<1>2. PICK f \in S : \A g \in S : ~(<<g, f>> \in R)
  BY <1>1, NatLessThanWellFounded, WFMin
<1>3. ASSUME NEW g \in S PROVE f <= g
  <2>1. <<g, f>> \notin R
    BY <1>2
  <2> QED
    BY <1>1, <2>1, SMT DEF OpToRel
<1> QED
  BY <1>3 DEF Lowest

-----------------------------------------------------------------------------
(* The inductive invariant, for every conduct.                              *)

(* Who is inside myfs_mutex, and who inside the mutex of a file. *)
Held == {"create", "mark", "busy", "loop", "push", "clear"}
MutexInv ==
    /\ \A t \in Threads : pc[t] \in Held <=> mutex = t
    /\ \A t \in Threads, f \in Files : pc[t] \in Alloc /\ file[t] = f <=> fmutex[f] = t

(* What the locals of a call are good for. *)
ArgInv ==
    /\ conduct \in DOMAIN MaxCalls
    /\ \A t \in Threads :
          /\ pc[t] \in Open => want[t] \in Names
          /\ pc[t] \in Held \ {"create"} => todo[t] # {}
          /\ pc[t] \in Io \cup {"push", "clear"} => idx[t] \in Indices
          /\ pc[t] \in {"pop", "store"} => block[file[t]][idx[t]] = Inactive

(* The entry that is being filled is the last one of the window, and the      *)
(* entries taken and not read yet are outside of it, each with one thread.    *)
RingInv ==
    /\ Reserved \cap Window = {}
    /\ \A t \in Threads : pc[t] = "push" => Succ(old[t]) = wp /\ old[t] \notin Reserved
    /\ \A t, u \in Threads : pc[t] = "store" /\ pc[u] = "store" /\ old[t] = old[u] => t = u

IInv == TypeOK /\ MutexInv /\ ArgInv /\ RingInv /\ NamesDistinct /\ OneOwner

-----------------------------------------------------------------------------
(* The inductive invariant of an orderly program.                           *)

Busy == {"busy", "loop", "push", "clear"}
Freeing == {"loop", "push", "clear"}
Counted == Io \ {"ref", "add", "last"}

(* What a thread's call is about: nobody opens a file that is open, unlinked *)
(* or opened by someone else, and transfers are on open files.              *)
CallOf(t) ==
    /\ pc[t] \in Open \cup Unlink =>
          want[t] \in Names /\ \A f \in Named(want[t]) : opens[f] = 0
    /\ pc[t] \in Io => opens[file[t]] > 0 /\ pc[t] # "last"
    /\ pc[t] = "create" => name[file[t]] = want[t] /\ n_block[file[t]] = 0
    /\ pc[t] \in Held \ {"create"} => todo[t] \subseteq Named(want[t])
    /\ pc[t] \in Busy => file[t] \in todo[t]
CallInv ==
    /\ \A t \in Threads : CallOf(t)
    /\ \A t, u \in {v \in Threads : pc[v] \in Open \cup Unlink} : want[t] = want[u] => t = u

(* A file's descriptor and its flag go together. *)
FlagInv == \A f \in Files :
    \/ opens[f] = 1 /\ flags[f] = {"opened"} /\ name[f] \in Names
    \/ opens[f] = 0 /\ "opened" \notin flags[f]

(* How far a call has come in the list of its file. *)
Mapped(f) == {j \in Indices : block[f][j] # Inactive}
ListOf(t) ==
    /\ pc[t] = "busy" => idx[t] = 0
    /\ pc[t] \in Freeing => /\ Mapped(file[t]) = idx[t]..(n_block[file[t]] - 1)
                            /\ idx[t] <= n_block[file[t]]
    /\ pc[t] \in {"push", "clear"} => idx[t] < n_block[file[t]]
    /\ pc[t] \in {"ref", "add"} /\ kind[t] = "write" => idx[t] <= n_block[file[t]]
    /\ pc[t] = "alloc" => idx[t] <= n_block[file[t]]
    /\ pc[t] \in Alloc => idx[t] = n_block[file[t]]
    /\ pc[t] \in {"lba", "io"} => idx[t] < n_block[file[t]]
    /\ pc[t] = "io" => at[t] = block[file[t]][idx[t]]
ListInv ==
    /\ \A f \in Files : name[f] = NoName => n_block[f] = 0
    /\ \A t \in Threads : ListOf(t)

(* What is in the ring are blocks, and an entry being filled is within. *)
FreeInv ==
    /\ \A i \in Filled \cup Reserved : free[i] \in Blocks
    /\ \A t \in Threads : pc[t] = "push" => old[t] \in Window

Tidy == CallInv /\ FlagInv /\ ListInv /\ FreeInv /\ RefExact /\ Dense /\ NothingLost
OrderlyInv == Orderly => Tidy

-----------------------------------------------------------------------------
(* Types.                                                                   *)

LEMMA SuccIn == ASSUME NEW i \in Slots PROVE Succ(i) \in Slots
BY SizesAssumption DEF Slots, Succ

(* The entry an open or an unlink works on. *)
LEMMA EntriesIn ==
    /\ \A S \in SUBSET Files : S # {} => Lowest(S) \in Files
    /\ \A n : Matches(n) \in SUBSET Files /\ Named(n) \in SUBSET Files
BY LowestIn DEF Matches, Named

(* A jump goes to a label of the code. *)
LEMMA GotoType ==
    ASSUME TypeOK, NEW t \in Threads,
           NEW l \in {"idle", "create", "mark", "busy", "loop", "push", "clear",
                      "open", "scan", "ref", "add", "size", "alloc", "pop", "store",
                      "count", "lba", "io", "deref", "last"},
           goto(t, l)
    PROVE  pc' \in [Threads -> {"idle"} \cup Open \cup Unlink \cup Io]
<1>1. l \in {"idle"} \cup Open \cup Unlink \cup Io
  BY DEF Open, Unlink, Io, Alloc
<1> QED
  BY <1>1 DEF TypeOK, goto

(* The next entry of an unlink, or its end. *)
LEMMA NextEntryType ==
    ASSUME TypeOK, NEW t \in Threads, NEW rest \in SUBSET Files, nextEntry(t, rest)
    PROVE  /\ pc' \in [Threads -> {"idle"} \cup Open \cup Unlink \cup Io]
           /\ todo' \in [Threads -> SUBSET Files]
           /\ mutex' \in Threads \cup {NoThread}
<1>1. todo' \in [Threads -> SUBSET Files]
  BY DEF TypeOK, nextEntry
<1>2. CASE rest = {}
  BY <1>1, <1>2, GotoType DEF nextEntry
<1>3. CASE rest # {}
  BY <1>1, <1>3, GotoType DEF nextEntry
<1> QED
  BY <1>2, <1>3

(* A count of transfers has 16 bits. *)
LEMMA RefType ==
    /\ 0 \in 0..(RefMod - 1)
    /\ \A n \in 0..(RefMod - 1) : /\ (IF n + 1 = RefMod THEN 0 ELSE n + 1) \in 0..(RefMod - 1)
                                /\ (IF n = 0 THEN RefMod - 1 ELSE n - 1) \in 0..(RefMod - 1)
<1>1. RefMod \in Nat \ {0}
  BY DEF RefMod
<1> QED
  BY <1>1

(* Every step of a caller's code keeps the types. *)
LEMMA StepType ==
    ASSUME IInv, NEW t \in Threads, Step(t), UNCHANGED conduct
    PROVE  TypeOK'
<1> USE DEF superblock, locks, args
<1>0. TypeOK /\ ArgInv
  BY DEF IInv
<1>1. CASE OpenFound(t)
  <2>1. Lowest(Matches(want[t])) \in Files
    BY <1>1, EntriesIn DEF OpenFound
  <2>2. flags' \in [Files -> SUBSET {"opened", "unlinked"}] /\ opens' \in [Files -> Nat]
    BY <1>0, <1>1, <2>1 DEF OpenFound, TypeOK
  <2> QED
    BY <1>0, <1>1, <2>2, GotoType DEF OpenFound, TypeOK
<1>2. CASE OpenNew(t)
  <2>1. Lowest(Named(NoName)) \in Files /\ want[t] \in Names
    BY <1>0, <1>2, EntriesIn DEF OpenNew, ArgInv, Open
  <2>2. name' \in [Files -> Names \cup {NoName}] /\ file' \in [Threads -> Files]
    BY <1>0, <1>2, <2>1 DEF OpenNew, TypeOK
  <2> QED
    BY <1>0, <1>2, <2>2, GotoType DEF OpenNew, TypeOK
<1>3. CASE OpenCreate(t)
  <2>1. /\ n_block' \in [Files -> Nat]
        /\ flags' \in [Files -> SUBSET {"opened", "unlinked"}] /\ opens' \in [Files -> Nat]
    BY <1>0, <1>3 DEF OpenCreate, TypeOK
  <2> QED
    BY <1>0, <1>3, <2>1, GotoType DEF OpenCreate, TypeOK
<1>4. CASE UnlinkScan(t)
  <2>1. (IF want[t] = NoName THEN {file[t]} ELSE Matches(want[t])) \in SUBSET Files
    BY <1>0, EntriesIn DEF TypeOK
  <2> QED
    BY <1>0, <1>4, <2>1, NextEntryType DEF UnlinkScan, TypeOK
<1>5. CASE UnlinkMark(t)
  <2>1. Lowest(todo[t]) \in Files
    BY <1>0, <1>5, EntriesIn DEF UnlinkMark, ArgInv, Held, TypeOK
  <2>2. /\ flags' \in [Files -> SUBSET {"opened", "unlinked"}]
        /\ file' \in [Threads -> Files] /\ idx' \in [Threads -> Nat]
    BY <1>0, <1>5, <2>1 DEF UnlinkMark, TypeOK
  <2> QED
    BY <1>0, <1>5, <2>2, GotoType DEF UnlinkMark, TypeOK
<1>6. CASE UnlinkDefer(t)
  <2>1. todo[t] \ {file[t]} \in SUBSET Files
    BY <1>0 DEF TypeOK
  <2> QED
    BY <1>0, <1>6, <2>1, NextEntryType DEF UnlinkDefer, TypeOK
<1>7. CASE UnlinkNow(t)
  BY <1>0, <1>7, GotoType DEF UnlinkNow, TypeOK
<1>8. CASE UnlinkTake(t)
  <2>1. old' \in [Threads -> Slots] /\ wp' \in Slots
    BY <1>0, <1>8, SuccIn DEF UnlinkTake, TypeOK
  <2> QED
    BY <1>0, <1>8, <2>1, GotoType DEF UnlinkTake, TypeOK
<1>9. CASE UnlinkPush(t)
  <2>1. block[file[t]][idx[t]] \in Blocks \cup {Inactive}
    BY <1>0, <1>9 DEF UnlinkPush, ArgInv, TypeOK
  <2>2. free' \in [Slots -> Blocks \cup {Inactive}]
    BY <1>0, <1>9, <2>1 DEF UnlinkPush, TypeOK
  <2> QED
    BY <1>0, <1>9, <2>2, GotoType DEF UnlinkPush, TypeOK
<1>10. CASE UnlinkClear(t)
  <2>1. /\ block' \in [Files -> [Indices -> Blocks \cup {Inactive}]]
        /\ idx' \in [Threads -> Nat]
    <3>1. [block[file[t]] EXCEPT ![idx[t]] = Inactive] \in [Indices -> Blocks \cup {Inactive}]
      BY <1>0 DEF TypeOK
    <3> QED
      BY <1>0, <1>10, <3>1 DEF UnlinkClear, TypeOK
  <2> QED
    BY <1>0, <1>10, <2>1, GotoType DEF UnlinkClear, TypeOK
<1>11. CASE UnlinkForget(t)
  <2>1. todo[t] \ {file[t]} \in SUBSET Files
    BY <1>0 DEF TypeOK
  <2>2. name' \in [Files -> Names \cup {NoName}] /\ n_block' \in [Files -> Nat]
    BY <1>0, <1>11 DEF UnlinkForget, TypeOK
  <2>3. ref' \in [Files -> 0..(RefMod - 1)]
    BY <1>0, <1>11, RefType DEF UnlinkForget, TypeOK
  <2>4. flags' \in [Files -> SUBSET {"opened", "unlinked"}]
    BY <1>0, <1>11 DEF UnlinkForget, TypeOK
  <2> QED
    BY <1>0, <1>11, <2>1, <2>2, <2>3, <2>4, NextEntryType DEF UnlinkForget, TypeOK
<1>12. CASE Ref(t)
  BY <1>0, <1>12, GotoType DEF Ref, afterRef, TypeOK
<1>13. CASE RefAdd(t)
  <2>1. ref' \in [Files -> 0..(RefMod - 1)]
    BY <1>0, <1>13, RefType DEF RefAdd, TypeOK
  <2> QED
    BY <1>0, <1>13, <2>1, GotoType DEF RefAdd, afterRef, TypeOK
<1>14. CASE Size(t)
  BY <1>0, <1>14, GotoType DEF Size, TypeOK
<1>15. CASE AllocTest(t)
  <2>1. fmutex' \in [Files -> Threads \cup {NoThread}] /\ (goto(t, "pop") \/ goto(t, "lba"))
    <3>1. CASE block[file[t]][idx[t]] = Inactive
      <4>1. fmutex' = [fmutex EXCEPT ![file[t]] = t] /\ goto(t, "pop")
        BY <1>15, <3>1 DEF AllocTest
      <4> QED
        BY <1>0, <4>1 DEF TypeOK
    <3>2. CASE block[file[t]][idx[t]] # Inactive
      BY <1>0, <1>15, <3>2 DEF AllocTest, TypeOK
    <3> QED
      BY <3>1, <3>2
  <2> QED
    BY <1>0, <1>15, <2>1, GotoType DEF AllocTest, TypeOK
<1>16. CASE Pop(t)
  <2>1. old' \in [Threads -> Slots] /\ rp' \in Slots
    BY <1>0, <1>16, SuccIn DEF Pop, TypeOK
  <2> QED
    BY <1>0, <1>16, <2>1, GotoType DEF Pop, TypeOK
<1>17. CASE Store(t)
  <2>1. free[old[t]] \in Blocks \cup {Inactive}
    BY <1>0 DEF TypeOK
  <2>2. block' \in [Files -> [Indices -> Blocks \cup {Inactive}]]
    BY <1>0, <1>17, <2>1 DEF Store, TypeOK
  <2> QED
    BY <1>0, <1>17, <2>2, GotoType DEF Store, TypeOK
<1>18. CASE Count(t)
  <2>1. n_block' \in [Files -> Nat] /\ fmutex' \in [Files -> Threads \cup {NoThread}]
    BY <1>0, <1>18 DEF Count, TypeOK
  <2> QED
    BY <1>0, <1>18, <2>1, GotoType DEF Count, TypeOK
<1>19. CASE Lba(t)
  <2>1. block[file[t]][idx[t]] \in Blocks \cup {Inactive}
    BY <1>0, <1>19 DEF Lba, ArgInv, Io, TypeOK
  <2> QED
    BY <1>0, <1>19, <2>1, GotoType DEF Lba, TypeOK
<1>20. CASE Deref(t)
  <2>1. ref' \in [Files -> 0..(RefMod - 1)]
    BY <1>0, <1>20, RefType DEF Deref, TypeOK
  <2> QED
    BY <1>0, <1>20, <2>1, GotoType DEF Deref, TypeOK
<1>21. CASE DerefLast(t)
  BY <1>0, <1>21, GotoType DEF DerefLast, TypeOK
<1> QED
  BY <1>1, <1>2, <1>3, <1>4, <1>5, <1>6, <1>7, <1>8, <1>9, <1>10, <1>11, <1>12, <1>13,
     <1>14, <1>15, <1>16, <1>17, <1>18, <1>19, <1>20, <1>21 DEF Step

(* So does the start of a call, a close, and the death of the process. *)
LEMMA CallerType ==
    ASSUME IInv, UNCHANGED conduct, (\E t \in Threads : Caller(t)) \/ Crash
    PROVE  TypeOK'
<1> USE DEF superblock, locks, args
<1>0. TypeOK /\ ArgInv
  BY DEF IInv
<1>1. ASSUME NEW t \in Threads, Caller(t) PROVE TypeOK'
  <2>1. ASSUME NEW l \in {"open", "scan", "ref", "idle"}, begin(t, l)
        PROVE  /\ pc' \in [Threads -> {"idle"} \cup Open \cup Unlink \cup Io]
               /\ calls' \in 0..MaxCalls[conduct]'
    <3>1. calls \in Nat /\ calls < MaxCalls[conduct] /\ MaxCalls[conduct] \in Nat
      BY <1>0, <2>1, SizesAssumption DEF begin, TypeOK, ArgInv
    <3>2. calls' \in 0..MaxCalls[conduct]'
      BY <2>1, <3>1 DEF begin
    <3> QED
      BY <1>0, <2>1, <3>2, GotoType DEF begin
  <2>2. ASSUME NEW n \in Names, CallOpen(t, n) \/ CallUnlink(t, n) PROVE TypeOK'
    <3>1. want' \in [Threads -> Names \cup {NoName}]
      BY <1>0, <2>2 DEF CallOpen, CallUnlink, TypeOK
    <3> QED
      BY <1>0, <2>1, <2>2, <3>1 DEF CallOpen, CallUnlink, TypeOK
  <2>3. ASSUME NEW k \in {"read", "write"}, NEW f \in Files, NEW i \in Indices, CallIo(t, k, f, i)
        PROVE  TypeOK'
    <3>1. /\ kind' \in [Threads -> {"read", "write"}]
          /\ file' \in [Threads -> Files] /\ idx' \in [Threads -> Nat]
      BY <1>0, <2>3 DEF CallIo, TypeOK, Indices
    <3> QED
      BY <1>0, <2>1, <2>3, <3>1 DEF CallIo, TypeOK
  <2>4. ASSUME NEW f \in Files, Close(t, f) PROVE TypeOK'
    <3>1. flags' \in [Files -> SUBSET {"opened", "unlinked"}] /\ opens' \in [Files -> Nat]
      BY <1>0, <2>4 DEF Close, TypeOK
    <3> QED
      BY <1>0, <2>1, <2>4, <3>1 DEF Close, TypeOK
  <2> QED
    BY <1>1, <2>2, <2>3, <2>4 DEF Caller
<1>2. CASE Crash
  <2>1. /\ flags' \in [Files -> SUBSET {"opened", "unlinked"}]
        /\ ref' \in [Files -> 0..(RefMod - 1)] /\ opens' \in [Files -> Nat]
        /\ fmutex' \in [Files -> Threads \cup {NoThread}]
        /\ pc' \in [Threads -> {"idle"} \cup Open \cup Unlink \cup Io]
    BY <1>2, RefType DEF Crash
  <2>2. calls' \in 0..MaxCalls[conduct]'
    BY <1>0, <1>2, SizesAssumption DEF Crash, TypeOK, ArgInv
  <2> QED
    BY <1>0, <1>2, <2>1, <2>2 DEF Crash, TypeOK
<1> QED
  BY <1>1, <1>2

(* Every variable keeps its type. *)
LEMMA TypeStep == IInv /\ [Next]_vars => TypeOK'
<1> SUFFICES ASSUME IInv, [Next]_vars PROVE TypeOK'
  OBVIOUS
<1>1. CASE UNCHANGED vars
  BY <1>1 DEF IInv, vars, superblock, locks, args, TypeOK
<1>2. CASE Next
  BY <1>2, StepType, CallerType DEF Next
<1> QED
  BY <1>1, <1>2

-----------------------------------------------------------------------------
(* Mutual exclusion.                                                        *)

(* A jump, seen from the thread that makes it. *)
LEMMA GotoPc ==
    ASSUME TypeOK, NEW t \in Threads, NEW l
    PROVE  /\ goto(t, l) => pc'[t] = l
           /\ begin(t, l) => pc[t] = "idle" /\ pc'[t] = l
           /\ \A rest : nextEntry(t, rest) =>
                 /\ rest = {} => pc'[t] = "idle" /\ mutex' = NoThread
                 /\ rest # {} => pc'[t] = "mark" /\ mutex' = t
BY DEF TypeOK, goto, begin, nextEntry

(* Where each step starts and ends. *)
LEMMA Labels ==
    ASSUME TypeOK, NEW t \in Threads
    PROVE  /\ OpenFound(t) => pc[t] = "open" /\ pc'[t] = "idle"
           /\ OpenNew(t) => pc[t] = "open" /\ pc'[t] = "create"
           /\ OpenCreate(t) => pc[t] = "create" /\ pc'[t] = "idle"
           /\ UnlinkScan(t) => pc[t] = "scan" /\ pc'[t] \in {"idle", "mark"}
           /\ UnlinkMark(t) => pc[t] = "mark" /\ pc'[t] = "busy"
           /\ UnlinkDefer(t) => pc[t] = "busy" /\ pc'[t] \in {"idle", "mark"}
           /\ UnlinkNow(t) => pc[t] = "busy" /\ pc'[t] = "loop"
           /\ UnlinkTake(t) => pc[t] = "loop" /\ pc'[t] = "push"
           /\ UnlinkPush(t) => pc[t] = "push" /\ pc'[t] = "clear"
           /\ UnlinkClear(t) => pc[t] = "clear" /\ pc'[t] = "loop"
           /\ UnlinkForget(t) => pc[t] = "loop" /\ pc'[t] \in {"idle", "mark"}
           /\ Ref(t) => pc[t] = "ref" /\ pc'[t] \in {"add", "size", "alloc"}
           /\ RefAdd(t) => pc[t] = "add" /\ pc'[t] = afterRef(t)
           /\ Size(t) => pc[t] = "size" /\ pc'[t] \in {"lba", "deref"}
           /\ AllocTest(t) => pc[t] = "alloc" /\ pc'[t] \in {"pop", "lba"}
           /\ Pop(t) => pc[t] = "pop" /\ pc'[t] = "store"
           /\ Store(t) => pc[t] = "store" /\ pc'[t] = "count"
           /\ Count(t) => pc[t] = "count" /\ pc'[t] = "lba"
           /\ Lba(t) => pc[t] = "lba" /\ pc'[t] = "io"
           /\ Deref(t) => pc[t] \in {"io", "deref"} /\ pc'[t] \in {"last", "idle"}
           /\ DerefLast(t) => pc[t] = "last" /\ pc'[t] \in {"scan", "idle"}
           /\ Caller(t) => pc[t] = "idle" /\ pc'[t] \in {"open", "scan", "ref", "idle"}
<1>1. /\ OpenFound(t) => pc[t] = "open" /\ pc'[t] = "idle"
      /\ OpenNew(t) => pc[t] = "open" /\ pc'[t] = "create"
      /\ OpenCreate(t) => pc[t] = "create" /\ pc'[t] = "idle"
      /\ UnlinkScan(t) => pc[t] = "scan" /\ pc'[t] \in {"idle", "mark"}
      /\ UnlinkMark(t) => pc[t] = "mark" /\ pc'[t] = "busy"
      /\ UnlinkDefer(t) => pc[t] = "busy" /\ pc'[t] \in {"idle", "mark"}
      /\ UnlinkNow(t) => pc[t] = "busy" /\ pc'[t] = "loop"
  BY GotoPc DEF OpenFound, OpenNew, OpenCreate, UnlinkScan, UnlinkMark, UnlinkDefer, UnlinkNow
<1>2. /\ UnlinkTake(t) => pc[t] = "loop" /\ pc'[t] = "push"
      /\ UnlinkPush(t) => pc[t] = "push" /\ pc'[t] = "clear"
      /\ UnlinkClear(t) => pc[t] = "clear" /\ pc'[t] = "loop"
      /\ UnlinkForget(t) => pc[t] = "loop" /\ pc'[t] \in {"idle", "mark"}
      /\ Ref(t) => pc[t] = "ref" /\ pc'[t] \in {"add", "size", "alloc"}
      /\ RefAdd(t) => pc[t] = "add" /\ pc'[t] = afterRef(t)
      /\ Size(t) => pc[t] = "size" /\ pc'[t] \in {"lba", "deref"}
  BY GotoPc DEF UnlinkTake, UnlinkPush, UnlinkClear, UnlinkForget, Ref, RefAdd, Size, afterRef
<1>3. /\ AllocTest(t) => pc[t] = "alloc" /\ pc'[t] \in {"pop", "lba"}
      /\ Pop(t) => pc[t] = "pop" /\ pc'[t] = "store"
      /\ Store(t) => pc[t] = "store" /\ pc'[t] = "count"
      /\ Count(t) => pc[t] = "count" /\ pc'[t] = "lba"
      /\ Lba(t) => pc[t] = "lba" /\ pc'[t] = "io"
      /\ Deref(t) => pc[t] \in {"io", "deref"} /\ pc'[t] \in {"last", "idle"}
      /\ DerefLast(t) => pc[t] = "last" /\ pc'[t] \in {"scan", "idle"}
  BY GotoPc DEF AllocTest, Pop, Store, Count, Lba, Deref, DerefLast
<1>4. Caller(t) => pc[t] = "idle" /\ pc'[t] \in {"open", "scan", "ref", "idle"}
  BY GotoPc DEF Caller, CallOpen, CallUnlink, CallIo, Close
<1> QED
  BY <1>1, <1>2, <1>3, <1>4

(* Locals of other threads stay as they are. *)
Stays(u) ==
    /\ pc'[u] = pc[u] /\ want'[u] = want[u] /\ kind'[u] = kind[u] /\ file'[u] = file[u]
    /\ idx'[u] = idx[u] /\ todo'[u] = todo[u] /\ old'[u] = old[u] /\ at'[u] = at[u]

LEMMA OthersStay ==
    ASSUME TypeOK, NEW t \in Threads, Step(t) \/ Caller(t),
           NEW u \in Threads \ {t}
    PROVE  Stays(u)
<1> USE DEF TypeOK, Stays, goto, superblock, locks, args
<1>1. CASE Caller(t)
  BY <1>1 DEF Caller, begin, CallOpen, CallUnlink, CallIo, Close
<1>2. CASE OpenFound(t) \/ OpenNew(t) \/ OpenCreate(t)
  BY <1>2 DEF OpenFound, OpenNew, OpenCreate
<1>3. ASSUME NEW rest, nextEntry(t, rest) PROVE pc'[u] = pc[u] /\ todo'[u] = todo[u]
  BY <1>3 DEF nextEntry
<1>4. CASE UnlinkScan(t) \/ UnlinkDefer(t) \/ UnlinkForget(t)
  BY <1>3, <1>4 DEF UnlinkScan, UnlinkDefer, UnlinkForget
<1>5. CASE UnlinkMark(t) \/ UnlinkNow(t) \/ UnlinkTake(t) \/ UnlinkPush(t) \/ UnlinkClear(t)
  BY <1>5 DEF UnlinkMark, UnlinkNow, UnlinkTake, UnlinkPush, UnlinkClear
<1>6. CASE Ref(t) \/ RefAdd(t) \/ Size(t) \/ AllocTest(t)
  BY <1>6 DEF Ref, RefAdd, Size, AllocTest
<1>7. CASE Pop(t) \/ Store(t) \/ Count(t)
  BY <1>7 DEF Pop, Store, Count
<1>8. CASE Lba(t) \/ Deref(t) \/ DerefLast(t)
  BY <1>8 DEF Lba, Deref, DerefLast
<1> QED
  BY <1>1, <1>2, <1>4, <1>5, <1>6, <1>7, <1>8 DEF Step

(* A thread that takes a mutex found it free, one that gives it back had it. *)
LEMMA MutexMove ==
    ASSUME TypeOK, MutexInv, NEW t \in Threads,
           \A u \in Threads \ {t} : pc'[u] = pc[u] /\ file'[u] = file[u],
           \/ mutex' = mutex /\ (pc[t] \in Held <=> pc'[t] \in Held)
           \/ mutex = NoThread /\ mutex' = t /\ pc'[t] \in Held
           \/ pc[t] \in Held /\ mutex' = t /\ pc'[t] \in Held
           \/ pc[t] \in Held /\ mutex' = NoThread /\ pc'[t] \notin Held,
           \/ fmutex' = fmutex /\ pc[t] \notin Alloc /\ pc'[t] \notin Alloc
           \/ fmutex' = fmutex /\ pc[t] \in Alloc /\ pc'[t] \in Alloc /\ file'[t] = file[t]
           \/ /\ fmutex[file[t]] = NoThread /\ fmutex' = [fmutex EXCEPT ![file[t]] = t]
              /\ pc[t] \notin Alloc /\ pc'[t] \in Alloc /\ file'[t] = file[t]
           \/ /\ fmutex' = [fmutex EXCEPT ![file[t]] = NoThread]
              /\ pc[t] \in Alloc /\ pc'[t] \notin Alloc
    PROVE  MutexInv'
<1>1. \A u \in Threads : pc'[u] \in Held <=> mutex' = u
  BY NoThreadAssumption DEF MutexInv
<1>2. \A u \in Threads, f \in Files : pc'[u] \in Alloc /\ file'[u] = f <=> fmutex'[f] = u
  BY NoThreadAssumption DEF MutexInv, TypeOK
<1> QED
  BY <1>1, <1>2 DEF MutexInv

(* The two mutexes exclude. *)
LEMMA MutexStep == IInv /\ [Next]_vars => MutexInv'
<1> SUFFICES ASSUME IInv, [Next]_vars PROVE MutexInv'
  OBVIOUS
<1>0. TypeOK /\ MutexInv
  BY DEF IInv
<1>1. ASSUME NEW t \in Threads, Step(t) \/ Caller(t) PROVE MutexInv'
  <2> USE DEF Held, Alloc, locks, args
  <2>0. \A u \in Threads \ {t} : pc'[u] = pc[u] /\ file'[u] = file[u]
    BY <1>0, <1>1, OthersStay DEF Stays
  <2>1. CASE Caller(t)
    <3>1. mutex' = mutex /\ fmutex' = fmutex
      BY <2>1 DEF Caller, CallOpen, CallUnlink, CallIo, Close
    <3> QED
      BY <1>0, <2>0, <2>1, <3>1, Labels, MutexMove
  <2>2. CASE OpenFound(t)
    BY <1>0, <2>0, <2>2, Labels, MutexMove DEF OpenFound
  <2>3. CASE OpenNew(t)
    BY <1>0, <2>0, <2>3, Labels, MutexMove DEF OpenNew
  <2>4. CASE OpenCreate(t)
    BY <1>0, <2>0, <2>4, Labels, MutexMove DEF OpenCreate
  <2>5. CASE UnlinkScan(t)
    <3>1. PICK rest : nextEntry(t, rest)
      BY <2>5 DEF UnlinkScan
    <3> QED
      BY <1>0, <2>0, <2>5, <3>1, GotoPc, Labels, MutexMove DEF UnlinkScan
  <2>6. CASE UnlinkDefer(t)
    <3>1. PICK rest : nextEntry(t, rest)
      BY <2>6 DEF UnlinkDefer
    <3> QED
      BY <1>0, <2>0, <2>6, <3>1, GotoPc, Labels, MutexMove DEF UnlinkDefer
  <2>7. CASE UnlinkForget(t)
    <3>1. PICK rest : nextEntry(t, rest)
      BY <2>7 DEF UnlinkForget
    <3> QED
      BY <1>0, <2>0, <2>7, <3>1, GotoPc, Labels, MutexMove DEF UnlinkForget
  <2>8. CASE UnlinkMark(t) \/ UnlinkNow(t) \/ UnlinkTake(t) \/ UnlinkPush(t) \/ UnlinkClear(t)
    <3>1. mutex' = mutex /\ fmutex' = fmutex
      BY <2>8 DEF UnlinkMark, UnlinkNow, UnlinkTake, UnlinkPush, UnlinkClear
    <3> QED
      BY <1>0, <2>0, <2>8, <3>1, Labels, MutexMove
  <2>9. CASE Ref(t) \/ RefAdd(t) \/ Size(t) \/ Lba(t) \/ Deref(t) \/ DerefLast(t)
    <3>1. mutex' = mutex /\ fmutex' = fmutex
      BY <2>9 DEF Ref, RefAdd, Size, Lba, Deref, DerefLast
    <3> QED
      BY <1>0, <2>0, <2>9, <3>1, Labels, MutexMove DEF afterRef
  <2>10. CASE AllocTest(t)
    BY <1>0, <2>0, <2>10, Labels, GotoPc, MutexMove DEF AllocTest
  <2>11. CASE Pop(t) \/ Store(t)
    <3>1. mutex' = mutex /\ fmutex' = fmutex /\ file' = file
      BY <2>11 DEF Pop, Store
    <3> QED
      BY <1>0, <2>0, <2>11, <3>1, Labels, MutexMove
  <2>12. CASE Count(t)
    BY <1>0, <2>0, <2>12, Labels, MutexMove DEF Count
  <2> QED
    BY <1>1, <2>1, <2>2, <2>3, <2>4, <2>5, <2>6, <2>7, <2>8, <2>9, <2>10, <2>11, <2>12 DEF Step
<1>2. CASE Crash
  BY <1>2, NoThreadAssumption DEF Crash, MutexInv, Held, Alloc, args
<1>3. CASE UNCHANGED vars
  BY <1>0, <1>3 DEF vars, locks, args, MutexInv
<1> QED
  BY <1>1, <1>2, <1>3 DEF Next

(* Which steps write which part of the superblock. *)
LEMMA Writers ==
    ASSUME NEW t \in Threads, Step(t) \/ Caller(t)
    PROVE  /\ block' = block \/ Store(t) \/ UnlinkClear(t)
           /\ free' = free \/ UnlinkPush(t)
           /\ rp' = rp \/ Pop(t)
           /\ wp' = wp \/ UnlinkTake(t)
           /\ name' = name \/ OpenNew(t) \/ UnlinkForget(t)
           /\ n_block' = n_block \/ OpenCreate(t) \/ UnlinkForget(t) \/ Count(t)
<1> USE DEF superblock
<1>1. CASE Caller(t)
  BY <1>1 DEF Caller, CallOpen, CallUnlink, CallIo, Close
<1>2. CASE OpenFound(t) \/ OpenNew(t) \/ OpenCreate(t) \/ UnlinkScan(t) \/ UnlinkMark(t)
           \/ UnlinkDefer(t) \/ UnlinkNow(t)
  BY <1>2 DEF OpenFound, OpenNew, OpenCreate, UnlinkScan, UnlinkMark, UnlinkDefer, UnlinkNow
<1>3. CASE UnlinkTake(t) \/ UnlinkPush(t) \/ UnlinkClear(t) \/ UnlinkForget(t) \/ Ref(t)
           \/ RefAdd(t) \/ Size(t)
  BY <1>3 DEF UnlinkTake, UnlinkPush, UnlinkClear, UnlinkForget, Ref, RefAdd, Size
<1>4. CASE AllocTest(t) \/ Pop(t) \/ Store(t) \/ Count(t) \/ Lba(t) \/ Deref(t) \/ DerefLast(t)
  BY <1>4 DEF AllocTest, Pop, Store, Count, Lba, Deref, DerefLast
<1> QED
  BY <1>1, <1>2, <1>3, <1>4 DEF Step

-----------------------------------------------------------------------------
(* The arguments and locals of a call.                                      *)

ArgOf(t) ==
    /\ pc[t] \in Open => want[t] \in Names
    /\ pc[t] \in Held \ {"create"} => todo[t] # {}
    /\ pc[t] \in Io \cup {"push", "clear"} => idx[t] \in Indices
    /\ pc[t] \in {"pop", "store"} => block[file[t]][idx[t]] = Inactive

(* A thread keeps its own locals in order. *)
LEMMA OwnArgs ==
    ASSUME IInv, NEW t \in Threads, Step(t) \/ Caller(t)
    PROVE  ArgOf(t)'
<1> USE DEF superblock, locks, args, Held, Open, Io, Alloc
<1>0. TypeOK /\ ArgOf(t)
  BY DEF IInv, ArgInv, ArgOf
<1>1. CASE Caller(t)
  <2>1. ASSUME NEW n \in Names, CallOpen(t, n) \/ CallUnlink(t, n) PROVE ArgOf(t)'
    BY <1>0, <2>1, GotoPc DEF CallOpen, CallUnlink, ArgOf, TypeOK
  <2>2. ASSUME NEW k \in {"read", "write"}, NEW f \in Files, NEW i \in Indices, CallIo(t, k, f, i)
        PROVE  ArgOf(t)'
    BY <1>0, <2>2, GotoPc DEF CallIo, ArgOf, TypeOK
  <2>3. ASSUME NEW f \in Files, Close(t, f) PROVE ArgOf(t)'
    BY <1>0, <2>3, GotoPc DEF Close, ArgOf
  <2> QED
    BY <1>1, <2>1, <2>2, <2>3 DEF Caller
<1>2. CASE OpenFound(t) \/ OpenNew(t) \/ OpenCreate(t)
  <2>1. want' = want
    BY <1>2 DEF OpenFound, OpenNew, OpenCreate
  <2> QED
    BY <1>0, <1>2, <2>1, Labels DEF ArgOf
<1>3. CASE UnlinkScan(t) \/ UnlinkDefer(t) \/ UnlinkForget(t)
  <2>1. PICK rest : nextEntry(t, rest)
    BY <1>3 DEF UnlinkScan, UnlinkDefer, UnlinkForget
  <2>2. todo'[t] = rest
    BY <1>0, <2>1 DEF nextEntry, TypeOK
  <2>3. pc'[t] \in {"idle", "mark"}
    BY <1>0, <1>3, Labels
  <2> QED
    BY <1>0, <2>1, <2>2, <2>3, GotoPc DEF ArgOf
<1>4. CASE UnlinkMark(t) \/ UnlinkNow(t) \/ UnlinkPush(t) \/ UnlinkClear(t)
  <2>1. todo' = todo /\ (UnlinkPush(t) => idx' = idx)
    BY <1>4 DEF UnlinkMark, UnlinkNow, UnlinkPush, UnlinkClear
  <2> QED
    BY <1>0, <1>4, <2>1, Labels DEF ArgOf
<1>5. CASE UnlinkTake(t)
  <2>1. idx[t] \in Indices /\ UNCHANGED <<idx, todo>>
    BY <1>0, <1>5, SizesAssumption DEF UnlinkTake, InList, Indices, TypeOK
  <2> QED
    BY <1>0, <1>5, <2>1, Labels DEF ArgOf
<1>6. CASE Ref(t) \/ RefAdd(t) \/ Size(t) \/ Count(t) \/ Lba(t)
  <2>1. idx' = idx
    BY <1>6 DEF Ref, RefAdd, Size, Count, Lba
  <2> QED
    BY <1>0, <1>6, <2>1, Labels DEF ArgOf, afterRef
<1>7. CASE AllocTest(t)
  <2>1. UNCHANGED <<idx, file, block>> /\ (pc'[t] = "pop" => block[file[t]][idx[t]] = Inactive)
    BY <1>0, <1>7, GotoPc DEF AllocTest
  <2> QED
    BY <1>0, <1>7, <2>1, Labels DEF ArgOf
<1>8. CASE Pop(t)
  <2>1. UNCHANGED <<idx, file, block>>
    BY <1>8 DEF Pop
  <2> QED
    BY <1>0, <1>8, <2>1, Labels DEF ArgOf
<1>9. CASE Store(t)
  <2>1. UNCHANGED idx
    BY <1>9 DEF Store
  <2> QED
    BY <1>0, <1>9, <2>1, Labels DEF ArgOf
<1>10. CASE Deref(t) \/ DerefLast(t)
  <2>1. UNCHANGED idx
    BY <1>10 DEF Deref, DerefLast
  <2> QED
    BY <1>0, <1>10, <2>1, Labels DEF ArgOf
<1> QED
  BY <1>1, <1>2, <1>3, <1>4, <1>5, <1>6, <1>7, <1>8, <1>9, <1>10 DEF Step

(* The place somebody is allocating stays empty: nobody else stores in it. *)
LEMMA OtherArgs ==
    ASSUME IInv, NEW t \in Threads, Step(t) \/ Caller(t), NEW u \in Threads \ {t}
    PROVE  ArgOf(u)'
<1>0. TypeOK /\ MutexInv /\ ArgOf(t) /\ ArgOf(u) /\ Stays(u)
  BY OthersStay DEF IInv, ArgInv, ArgOf
<1>1. ASSUME pc[u] \in {"pop", "store"}
      PROVE  block'[file[u]][idx[u]] = Inactive
  <2>0. block[file[u]][idx[u]] = Inactive /\ idx[u] \in Indices /\ idx[t] \in Nat
    BY <1>0, <1>1 DEF ArgOf, Io, Alloc, TypeOK
  <2>1. CASE block' = block
    BY <1>0, <2>0, <2>1
  <2>2. CASE UnlinkClear(t)
    BY <1>0, <2>0, <2>2 DEF UnlinkClear, TypeOK
  <2>3. CASE Store(t)
    <3>1. file[t] # file[u]
      BY <1>0, <1>1, <2>3 DEF Store, MutexInv, Alloc, TypeOK
    <3> QED
      BY <1>0, <2>0, <2>3, <3>1 DEF Store, TypeOK
  <2> QED
    BY <2>1, <2>2, <2>3, Writers
<1> QED
  BY <1>0, <1>1 DEF ArgOf, Stays

LEMMA ArgStep == IInv /\ [Next]_vars => ArgInv'
<1> SUFFICES ASSUME IInv, [Next]_vars PROVE ArgInv'
  OBVIOUS
<1>0. ArgInv /\ conduct' = conduct
  BY DEF IInv, Next, vars
<1>1. ASSUME NEW t \in Threads, Step(t) \/ Caller(t) PROVE \A u \in Threads : ArgOf(u)'
  BY <1>1, OwnArgs, OtherArgs
<1>2. ASSUME Crash PROVE \A u \in Threads : ArgOf(u)'
  BY <1>2 DEF Crash, ArgOf, Held, Open, Io, Alloc
<1>3. ASSUME UNCHANGED vars PROVE \A u \in Threads : ArgOf(u)'
  BY <1>0, <1>3 DEF vars, superblock, args, ArgInv, ArgOf
<1>4. \A u \in Threads : ArgOf(u)'
  BY <1>1, <1>2, <1>3 DEF Next
<1> QED
  BY <1>0, <1>4 DEF ArgInv, ArgOf

-----------------------------------------------------------------------------
(* The ring.                                                                *)

(* What is reserved, and by whom, before and after a step. *)
LEMMA ReservedBy ==
    /\ \A i : i \in Reserved <=> \E u \in Threads : pc[u] = "store" /\ old[u] = i
    /\ \A i : i \in Reserved' <=> \E u \in Threads : pc'[u] = "store" /\ old'[u] = i
BY DEF Reserved

(* The entries from r up to w, on the ring. *)
Interval(r, w) == IF r <= w THEN r..(w - 1) ELSE (r..(NumBlocks - 1)) \cup (0..(w - 1))

LEMMA IntervalIs ==
    ASSUME NEW r \in Slots, NEW w \in Slots
    PROVE  /\ Interval(r, w) \subseteq Slots
           /\ \A i \in Slots : i \in Interval(r, w) <=> IF r <= w THEN r <= i /\ i < w
                                                                  ELSE r <= i \/ i < w
BY SizesAssumption DEF Interval, Slots

(* It grows at its end, unless it wraps around to an empty one, and shrinks *)
(* at its start.                                                            *)
LEMMA IntervalMoves ==
    ASSUME NEW r \in Slots, NEW w \in Slots
    PROVE  /\ Interval(r, Succ(w)) \subseteq Interval(r, w) \cup {w}
           /\ Succ(w) # r => Interval(r, Succ(w)) = Interval(r, w) \cup {w}
           /\ r # w => r \in Interval(r, w) /\ Interval(Succ(r), w) = Interval(r, w) \ {r}
<1>1. Succ(r) \in Slots /\ Succ(w) \in Slots /\ NumBlocks \in Nat /\ NumBlocks >= 2
  BY SuccIn, SizesAssumption
<1>2. ASSUME NEW i \in Slots
      PROVE  /\ i \in Interval(r, Succ(w)) => i \in Interval(r, w) \/ i = w
             /\ Succ(w) # r => (i \in Interval(r, Succ(w)) <=> i \in Interval(r, w) \/ i = w)
  BY <1>1, IntervalIs DEF Succ, Slots
<1>3. ASSUME NEW i \in Slots, r # w
      PROVE  i \in Interval(Succ(r), w) <=> i \in Interval(r, w) /\ i # r
  BY <1>1, <1>3, IntervalIs DEF Succ, Slots
<1>4. r # w => r \in Interval(r, w)
  BY IntervalIs DEF Slots
<1> QED
  BY <1>1, <1>2, <1>3, <1>4, IntervalIs

LEMMA WindowMoves ==
    ASSUME TypeOK
    PROVE  /\ wp' = wp /\ rp' = rp => Window' = Window
           /\ wp' = Succ(wp) /\ rp' = rp => Window' \subseteq Window \cup {wp}
           /\ wp' = Succ(wp) /\ rp' = rp /\ Succ(wp) # rp => Window' = Window \cup {wp}
           /\ rp' = Succ(rp) /\ wp' = wp /\ rp # wp => rp \in Window /\ Window' = Window \ {rp}
<1>1. Window = Interval(rp, wp) /\ Window' = Interval(rp', wp')
  BY DEF Window, Interval
<1> QED
  BY <1>1, IntervalMoves DEF TypeOK

(* Where blocks are does not change when nobody writes the superblock and   *)
(* nobody is in the middle of moving a block.                               *)
Movers == {"push", "clear", "store"}
Still ==
    /\ block' = block /\ free' = free /\ rp' = rp /\ wp' = wp
    /\ \A u \in Threads : pc[u] \in Movers \/ pc'[u] \in Movers =>
          pc'[u] = pc[u] /\ file'[u] = file[u] /\ idx'[u] = idx[u] /\ old'[u] = old[u]
SamePlaces == \A p \in Places, b \in Blocks : Holds(p, b)' <=> Holds(p, b)

LEMMA StillSame ==
    ASSUME Still
    PROVE  Reserved' = Reserved /\ Filled' = Filled /\ Window' = Window /\ SamePlaces
<1>1. Window' = Window
  BY DEF Still, Window
<1>2. Reserved' = Reserved
  BY ReservedBy DEF Still, Movers
<1>3. \A i : Empty(i)' <=> Empty(i)
  BY DEF Still, Movers, Empty
<1>4. \A f, j : Leaving(f, j)' <=> Leaving(f, j)
  BY DEF Still, Movers, Leaving
<1> QED
  BY <1>1, <1>2, <1>3, <1>4 DEF Filled, SamePlaces, Holds, Still

(* Which steps are of this kind. *)
LEMMA StillSteps ==
    ASSUME IInv, NEW t \in Threads, Step(t) \/ Caller(t)
    PROVE  Still \/ UnlinkTake(t) \/ UnlinkPush(t) \/ UnlinkClear(t) \/ Pop(t) \/ Store(t)
<1> SUFFICES ASSUME ~(UnlinkTake(t) \/ UnlinkPush(t) \/ UnlinkClear(t) \/ Pop(t) \/ Store(t))
             PROVE  Still
  OBVIOUS
<1>1. TypeOK
  BY DEF IInv
<1>2. pc[t] \notin Movers /\ pc'[t] \notin Movers
  BY <1>1, Labels DEF Step, Movers, afterRef
<1>3. \A u \in Threads \ {t} :
         pc'[u] = pc[u] /\ file'[u] = file[u] /\ idx'[u] = idx[u] /\ old'[u] = old[u]
  BY <1>1, OthersStay DEF Stays
<1> QED
  BY <1>2, <1>3, Writers DEF Still

LEMMA RingStep == IInv /\ [Next]_vars => RingInv'
<1> SUFFICES ASSUME IInv, [Next]_vars PROVE RingInv'
  OBVIOUS
<1>0. TypeOK /\ TypeOK' /\ MutexInv /\ RingInv
  BY TypeStep DEF IInv
<1>1. CASE Still
  BY <1>0, <1>1, StillSame DEF RingInv, Still, Movers
<1>2. ASSUME NEW t \in Threads, Step(t) \/ Caller(t) PROVE RingInv'
  <2>0. \A u \in Threads \ {t} : pc'[u] = pc[u] /\ old'[u] = old[u]
    BY <1>0, <1>2, OthersStay DEF Stays
  <2>1. CASE UnlinkTake(t)
    <3>1. /\ pc[t] = "loop" /\ pc'[t] = "push" /\ old'[t] = wp /\ wp' = Succ(wp) /\ rp' = rp
          /\ wp \notin Reserved
      <4>1. wp \notin Reserved
        BY <2>1, ReservedBy DEF UnlinkTake, NoLap
      <4> QED
        BY <1>0, <2>1, <4>1, Labels DEF UnlinkTake, TypeOK
    <3>2. Reserved' = Reserved
      BY <2>0, <3>1, ReservedBy
    <3>3. \A u \in Threads : pc'[u] = "push" => u = t
      BY <1>0, <2>0, <3>1 DEF MutexInv, Held
    <3>4. Reserved' \cap Window' = {}
      BY <1>0, <3>1, <3>2, WindowMoves DEF RingInv
    <3> QED
      BY <1>0, <2>0, <3>1, <3>2, <3>3, <3>4 DEF RingInv
  <2>2. CASE UnlinkPush(t) \/ UnlinkClear(t)
    <3>1. pc[t] \in {"push", "clear"} /\ pc'[t] \in {"clear", "loop"} /\ wp' = wp /\ rp' = rp
      BY <1>0, <2>2, Labels DEF UnlinkPush, UnlinkClear
    <3>2. Reserved' = Reserved /\ Window' = Window
      BY <1>0, <2>0, <3>1, ReservedBy, WindowMoves
    <3> QED
      BY <1>0, <2>0, <3>1, <3>2 DEF RingInv
  <2>3. CASE Pop(t)
    <3>1. /\ pc[t] = "pop" /\ pc'[t] = "store" /\ old'[t] = rp /\ wp' = wp /\ rp' = Succ(rp)
          /\ rp # wp /\ Succ(rp) # wp
      BY <1>0, <2>3, Labels DEF Pop, Room, TypeOK
    <3>2. Reserved' = Reserved \cup {rp}
      BY <2>0, <3>1, ReservedBy
    <3>3. rp \in Window /\ Window' = Window \ {rp}
      BY <1>0, <3>1, WindowMoves
    <3>4. rp \notin Reserved
      BY <1>0, <3>3 DEF RingInv
    <3>5. \A u, v \in Threads : pc'[u] = "store" /\ pc'[v] = "store" /\ old'[u] = old'[v] => u = v
      BY <1>0, <2>0, <3>1, <3>4, ReservedBy DEF RingInv
    <3>6. \A u \in Threads : pc'[u] = "push" => Succ(old'[u]) = wp' /\ old'[u] \notin Reserved'
      BY <1>0, <2>0, <3>1, <3>2 DEF RingInv
    <3> QED
      BY <1>0, <3>2, <3>3, <3>5, <3>6 DEF RingInv
  <2>4. CASE Store(t)
    <3>1. pc[t] = "store" /\ pc'[t] = "count" /\ wp' = wp /\ rp' = rp
      BY <1>0, <2>4, Labels DEF Store
    <3>2. Reserved' \subseteq Reserved /\ Window' = Window
      BY <1>0, <2>0, <3>1, ReservedBy, WindowMoves
    <3> QED
      BY <1>0, <2>0, <3>1, <3>2 DEF RingInv
  <2> QED
    BY <1>1, <1>2, <2>1, <2>2, <2>3, <2>4, StillSteps
<1>3. CASE Crash
  <2>1. \A u \in Threads : pc'[u] = "idle"
    BY <1>3 DEF Crash
  <2> QED
    BY <2>1, ReservedBy DEF RingInv
<1>4. CASE UNCHANGED vars
  BY <1>1, <1>4 DEF vars, superblock, args, Still
<1> QED
  BY <1>2, <1>3, <1>4 DEF Next

-----------------------------------------------------------------------------
(* Names.                                                                   *)

(* A new entry's name is one that was not found. *)
LEMMA NamesStep == IInv /\ [Next]_vars => NamesDistinct'
<1> SUFFICES ASSUME IInv, [Next]_vars PROVE NamesDistinct'
  OBVIOUS
<1>0. TypeOK /\ ArgInv /\ NamesDistinct
  BY DEF IInv
<1>1. CASE name' = name
  BY <1>0, <1>1 DEF NamesDistinct
<1>2. ASSUME NEW t \in Threads, OpenNew(t) PROVE NamesDistinct'
  <2>1. want[t] \in Names
    BY <1>0, <1>2 DEF OpenNew, ArgInv, Open
  <2>2. \A f \in Files : name[f] # want[t]
    BY <1>2, <2>1, NamesAssumption DEF OpenNew, Matches
  <2>3. PICK e \in Files : name' = [name EXCEPT ![e] = want[t]]
    BY <1>2, EntriesIn DEF OpenNew
  <2> QED
    BY <1>0, <2>2, <2>3 DEF NamesDistinct, TypeOK
<1>3. ASSUME NEW t \in Threads, UnlinkForget(t) PROVE NamesDistinct'
  <2>1. name' = [name EXCEPT ![file[t]] = NoName]
    BY <1>3 DEF UnlinkForget
  <2> QED
    BY <1>0, <2>1 DEF NamesDistinct, TypeOK
<1>4. ASSUME Crash \/ UNCHANGED vars PROVE name' = name
  BY <1>4 DEF Crash, vars, superblock
<1> QED
  BY <1>1, <1>2, <1>3, <1>4, Writers DEF Next

-----------------------------------------------------------------------------
(* One owner per block.                                                     *)

(* Nothing is put anywhere. *)
LEMMA Shrinks ==
    ASSUME OneOwner, free' = free, Filled' \cup Reserved' \subseteq Filled \cup Reserved,
           SamePlaces
    PROVE  OneOwner'
<1>1. \A p \in Places, b \in Blocks : Holds(p, b)' <=> Holds(p, b)
  BY DEF SamePlaces
<1>2. \A i \in Filled' \cup Reserved' : i \in Filled \cup Reserved /\ free'[i] = free[i]
  OBVIOUS
<1>3. ASSUME NEW b \in Blocks
      PROVE /\ \A p, q \in Places : Holds(p, b)' /\ Holds(q, b)' => p = q
            /\ \A i, j \in Filled' \cup Reserved' : free'[i] = b /\ free'[j] = b => i = j
            /\ (\E p \in Places : Holds(p, b)') => \A i \in Filled' \cup Reserved' : free'[i] # b
  BY <1>1, <1>2 DEF OneOwner
<1> QED
  BY <1>3 DEF OneOwner

(* A step that has nobody stop showing a block leaves the places alone. *)
LEMMA PlacesStay ==
    ASSUME block' = block, \A u \in Threads : pc'[u] = "clear" <=> pc[u] = "clear",
           \A u \in Threads : pc[u] = "clear" => file'[u] = file[u] /\ idx'[u] = idx[u]
    PROVE  SamePlaces
<1>1. \A f, j : Leaving(f, j)' <=> Leaving(f, j)
  BY DEF Leaving
<1> QED
  BY <1>1 DEF SamePlaces, Holds

(* Advancing wp makes an entry part of the window that is not filled yet,   *)
(* and advancing rp passes a filled one on to the thread that reads it.     *)
LEMMA TakePopOwner ==
    ASSUME IInv, NEW t \in Threads, UnlinkTake(t) \/ Pop(t)
    PROVE  OneOwner' /\ SamePlaces
<1>0. TypeOK /\ MutexInv /\ RingInv /\ OneOwner
  BY DEF IInv
<1>1. /\ \A u \in Threads \ {t} :
            pc'[u] = pc[u] /\ file'[u] = file[u] /\ idx'[u] = idx[u] /\ old'[u] = old[u]
      /\ pc'[t] # "clear" /\ pc[t] # "clear"
  BY <1>0, OthersStay, Labels DEF Step, Stays
<1>2. SamePlaces
  <2>1. block' = block
    BY DEF UnlinkTake, Pop
  <2> QED
    BY <1>1, <2>1, PlacesStay
<1>3. Filled' \cup Reserved' \subseteq Filled \cup Reserved
  <2>1. CASE UnlinkTake(t)
    <3>1. /\ pc[t] = "loop" /\ pc'[t] = "push" /\ old'[t] = wp /\ wp' = Succ(wp) /\ rp' = rp
      BY <1>0, <2>1, Labels DEF UnlinkTake, TypeOK
    <3>2. Reserved' = Reserved
      BY <1>1, <3>1, ReservedBy
    <3>3. Window' \subseteq Window \cup {wp}
      BY <1>0, <3>1, WindowMoves
    <3>4. \A i : i = wp \/ Empty(i) => Empty(i)'
      BY <1>1, <3>1 DEF Empty
    <3> QED
      BY <3>2, <3>3, <3>4 DEF Filled
  <2>2. CASE Pop(t)
    <3>1. /\ pc[t] = "pop" /\ pc'[t] = "store" /\ old'[t] = rp /\ wp' = wp /\ rp' = Succ(rp)
          /\ rp # wp /\ Succ(rp) # wp
      BY <1>0, <2>2, Labels DEF Pop, Room, TypeOK
    <3>2. Reserved' = Reserved \cup {rp}
      BY <1>1, <3>1, ReservedBy
    <3>3. rp \in Window /\ Window' = Window \ {rp}
      BY <1>0, <3>1, WindowMoves
    <3>4. ~Empty(rp)
      <4>1. \A u \in Threads : pc[u] = "push" => Succ(old[u]) = wp
        BY <1>0 DEF RingInv
      <4> QED
        BY <3>1, <4>1 DEF Empty
    <3>5. \A i : Empty(i)' <=> Empty(i)
      BY <1>1, <3>1 DEF Empty
    <3> QED
      BY <3>2, <3>3, <3>4, <3>5 DEF Filled
  <2> QED
    BY <2>1, <2>2
<1>4. free' = free
  BY DEF UnlinkTake, Pop
<1> QED
  BY <1>0, <1>2, <1>3, <1>4, Shrinks

(* Clearing the list takes away what did not count any more. *)
LEMMA ClearOwner ==
    ASSUME IInv, NEW t \in Threads, UnlinkClear(t)
    PROVE  OneOwner' /\ SamePlaces /\ free' = free /\ Filled' = Filled /\ Reserved' = Reserved
<1>0. TypeOK /\ MutexInv /\ ArgInv /\ OneOwner
  BY DEF IInv
<1>1. /\ \A u \in Threads \ {t} :
            pc'[u] = pc[u] /\ file'[u] = file[u] /\ idx'[u] = idx[u] /\ old'[u] = old[u]
      /\ pc[t] = "clear" /\ pc'[t] = "loop"
      /\ \A u \in Threads : pc[u] = "clear" => u = t
  <2>1. \A u \in Threads \ {t} :
           pc'[u] = pc[u] /\ file'[u] = file[u] /\ idx'[u] = idx[u] /\ old'[u] = old[u]
    BY <1>0, OthersStay DEF Step, Stays
  <2>2. pc[t] = "clear" /\ pc'[t] = "loop"
    BY <1>0, Labels
  <2> QED
    BY <1>0, <2>1, <2>2 DEF MutexInv, Held
<1>2. \A f, j : Leaving(f, j) <=> f = file[t] /\ j = idx[t]
  BY <1>1 DEF Leaving
<1>3. \A f, j : ~Leaving(f, j)'
  BY <1>1 DEF Leaving
<1>4. SamePlaces
  <2>1. file[t] \in Files /\ idx[t] \in Indices
    BY <1>0, <1>1 DEF ArgInv, TypeOK
  <2>2. ASSUME NEW f \in Files, NEW j \in Indices, NEW b \in Blocks
        PROVE  block'[f][j] = b <=> block[f][j] = b /\ ~(f = file[t] /\ j = idx[t])
    <3>1. b # Inactive
      BY SizesAssumption DEF Blocks, Inactive
    <3>2. block' = [block EXCEPT ![file[t]] = [block[file[t]] EXCEPT ![idx[t]] = Inactive]]
      BY DEF UnlinkClear
    <3>3. CASE f = file[t]
      BY <1>0, <2>1, <3>1, <3>2, <3>3 DEF TypeOK
    <3>4. CASE f # file[t]
      BY <1>0, <2>1, <3>2, <3>4 DEF TypeOK
    <3> QED
      BY <3>3, <3>4
  <2> QED
    BY <1>2, <1>3, <2>2 DEF SamePlaces, Holds, Places
<1>5. free' = free /\ Filled' = Filled /\ Reserved' = Reserved
  <2>1. free' = free /\ rp' = rp /\ wp' = wp
    BY DEF UnlinkClear
  <2>2. Window' = Window
    BY <1>0, <2>1, WindowMoves
  <2>3. \A i : Empty(i)' <=> Empty(i)
    BY <1>1 DEF Empty
  <2>4. Reserved' = Reserved
    BY <1>1, ReservedBy
  <2> QED
    BY <2>1, <2>2, <2>3, <2>4 DEF Filled
<1> QED
  BY <1>0, <1>4, <1>5, Shrinks

(* What UnlinkPush does: the block at the thread's place stops being the    *)
(* file's, and is in the ring.                                              *)
LEMMA PushEffect ==
    ASSUME IInv, NEW t \in Threads, UnlinkPush(t)
    PROVE  /\ Reserved' = Reserved /\ Filled' \subseteq Filled \cup {old[t]}
           /\ Filled \subseteq Filled' /\ (old[t] \in Window => old[t] \in Filled')
           /\ old[t] \notin Filled \cup Reserved
           /\ free' = [free EXCEPT ![old[t]] = block[file[t]][idx[t]]]
           /\ \A p \in Places, b \in Blocks :
                 Holds(p, b)' <=> Holds(p, b) /\ p # <<file[t], idx[t]>>
           /\ <<file[t], idx[t]>> \in Places /\ ~Leaving(file[t], idx[t])
<1>0. TypeOK /\ MutexInv /\ ArgInv /\ RingInv
  BY DEF IInv
<1>1. /\ \A u \in Threads \ {t} :
            pc'[u] = pc[u] /\ file'[u] = file[u] /\ idx'[u] = idx[u] /\ old'[u] = old[u]
      /\ pc[t] = "push" /\ pc'[t] = "clear"
      /\ \A u \in Threads : pc[u] \in {"push", "clear"} => u = t
  <2>1. \A u \in Threads \ {t} :
           pc'[u] = pc[u] /\ file'[u] = file[u] /\ idx'[u] = idx[u] /\ old'[u] = old[u]
    BY <1>0, OthersStay DEF Step, Stays
  <2>2. pc[t] = "push" /\ pc'[t] = "clear"
    BY <1>0, Labels
  <2> QED
    BY <1>0, <2>1, <2>2 DEF MutexInv, Held
<1>2. /\ free' = [free EXCEPT ![old[t]] = block[file[t]][idx[t]]]
      /\ block' = block /\ rp' = rp /\ wp' = wp /\ file' = file /\ idx' = idx /\ old' = old
  BY DEF UnlinkPush, args
<1>3. \A f, j : ~Leaving(f, j)
  BY <1>1 DEF Leaving
<1>4. \A f, j : Leaving(f, j)' <=> f = file[t] /\ j = idx[t]
  BY <1>1, <1>2 DEF Leaving
<1>5. \A i : Empty(i) <=> i = old[t]
  BY <1>1 DEF Empty
<1>6. \A i : ~Empty(i)'
  BY <1>1 DEF Empty
<1>7. Window' = Window
  BY <1>0, <1>2, WindowMoves
<1>8. Reserved' = Reserved
  BY <1>1, ReservedBy
<1>9. old[t] \notin Reserved
  BY <1>0, <1>1 DEF RingInv
<1>10. file[t] \in Files /\ idx[t] \in Indices
  BY <1>0, <1>1 DEF ArgInv, TypeOK
<1>11. \A p \in Places, b \in Blocks :
          Holds(p, b)' <=> Holds(p, b) /\ p # <<file[t], idx[t]>>
  BY <1>2, <1>3, <1>4 DEF Holds, Places
<1> QED
  BY <1>2, <1>3, <1>5, <1>6, <1>7, <1>8, <1>9, <1>10, <1>11 DEF Filled, Places

(* What Store does: the entry the thread has taken goes to its place.       *)
LEMMA StoreEffect ==
    ASSUME IInv, NEW t \in Threads, Store(t)
    PROVE  /\ Filled' = Filled /\ Reserved' = Reserved \ {old[t]} /\ free' = free
           /\ old[t] \in Reserved /\ old[t] \notin Filled
           /\ \A p \in Places, b \in Blocks : Holds(p, b)' <=>
                 \/ Holds(p, b)
                 \/ p = <<file[t], idx[t]>> /\ b = free[old[t]] /\ ~Leaving(file[t], idx[t])
           /\ \A b \in Blocks : ~Holds(<<file[t], idx[t]>>, b)
           /\ <<file[t], idx[t]>> \in Places
<1>0. TypeOK /\ MutexInv /\ ArgInv /\ RingInv
  BY DEF IInv
<1>1. /\ \A u \in Threads \ {t} :
            pc'[u] = pc[u] /\ file'[u] = file[u] /\ idx'[u] = idx[u] /\ old'[u] = old[u]
      /\ pc[t] = "store" /\ pc'[t] = "count"
  BY <1>0, OthersStay, Labels DEF Step, Stays
<1>2. /\ block' = [block EXCEPT ![file[t]] = [block[file[t]] EXCEPT ![idx[t]] = free[old[t]]]]
      /\ free' = free /\ rp' = rp /\ wp' = wp /\ file' = file /\ idx' = idx /\ old' = old
  BY DEF Store, args
<1>3. file[t] \in Files /\ idx[t] \in Indices /\ block[file[t]][idx[t]] = Inactive
  BY <1>0, <1>1 DEF ArgInv, TypeOK, Io, Alloc
<1>4. \A f, j : Leaving(f, j)' <=> Leaving(f, j)
  BY <1>1, <1>2 DEF Leaving
<1>5. Filled' = Filled
  <2>1. Window' = Window
    BY <1>0, <1>2, WindowMoves
  <2>2. \A i : Empty(i)' <=> Empty(i)
    BY <1>1 DEF Empty
  <2> QED
    BY <2>1, <2>2 DEF Filled
<1>6. old[t] \in Reserved /\ old[t] \notin Filled
  BY <1>0, <1>1, ReservedBy DEF RingInv, Filled
<1>7. Reserved' = Reserved \ {old[t]}
  BY <1>0, <1>1, ReservedBy DEF RingInv
<1>8. \A b \in Blocks : b # Inactive
  BY SizesAssumption DEF Blocks, Inactive
<1>9. block'[file[t]][idx[t]] = free[old[t]]
  BY <1>0, <1>2, <1>3 DEF TypeOK
<1>10. ASSUME NEW f \in Files, NEW j \in Indices, <<f, j>> # <<file[t], idx[t]>>
       PROVE  block'[f][j] = block[f][j]
  BY <1>0, <1>2, <1>3, <1>10 DEF TypeOK
<1>11. \A b \in Blocks : ~Holds(<<file[t], idx[t]>>, b)
  BY <1>3, <1>8 DEF Holds
<1>12. ASSUME NEW f \in Files, NEW j \in Indices, NEW b \in Blocks
       PROVE  Holds(<<f, j>>, b)' <=>
                 \/ Holds(<<f, j>>, b)
                 \/ /\ <<f, j>> = <<file[t], idx[t]>> /\ b = free[old[t]]
                    /\ ~Leaving(file[t], idx[t])
  <2>1. CASE <<f, j>> # <<file[t], idx[t]>>
    BY <1>4, <1>10, <2>1 DEF Holds
  <2>2. CASE f = file[t] /\ j = idx[t]
    BY <1>4, <1>9, <1>11, <2>2 DEF Holds
  <2> QED
    BY <2>1, <2>2
<1> QED
  BY <1>2, <1>3, <1>5, <1>6, <1>7, <1>11, <1>12 DEF Places

(* The window and what is reserved are entries of the ring.                 *)
LEMMA EntriesOfRing == ASSUME TypeOK PROVE Filled \cup Reserved \subseteq Slots
<1>1. Window = Interval(rp, wp)
  BY DEF Window, Interval
<1> QED
  BY <1>1, IntervalIs DEF Filled, Reserved, TypeOK

(* A block that leaves a file for the ring, or the ring for a file, is in   *)
(* no other place.                                                          *)
LEMMA PushOwner ==
    ASSUME IInv, NEW t \in Threads, UnlinkPush(t)
    PROVE  OneOwner'
<1> DEFINE P == <<file[t], idx[t]>>
           In == Filled \cup Reserved
<1>0. OneOwner /\ free \in [Slots -> Blocks \cup {Inactive}] /\ old[t] \in Slots
  BY DEF IInv, TypeOK
<1>1. /\ Filled' \cup Reserved' \subseteq In \cup {old[t]} /\ old[t] \notin In
      /\ free' = [free EXCEPT ![old[t]] = block[file[t]][idx[t]]]
      /\ \A p \in Places, b \in Blocks : Holds(p, b)' <=> Holds(p, b) /\ p # P
      /\ P \in Places
  BY PushEffect
<1>2. \A b \in Blocks : block[file[t]][idx[t]] = b <=> Holds(P, b)
  BY PushEffect DEF Holds
<1>3. \A i \in Filled' \cup Reserved' :
         \/ i \in In /\ i # old[t] /\ free'[i] = free[i]
         \/ i = old[t] /\ free'[i] = block[file[t]][idx[t]]
  <2>1. \A i \in Filled' \cup Reserved' : i \in Slots
    BY <1>0, <1>1, EntriesOfRing DEF IInv
  <2> QED
    BY <1>0, <1>1, <2>1
<1> HIDE DEF P, In
<1>4. ASSUME NEW b \in Blocks
      PROVE /\ \A p, q \in Places : Holds(p, b)' /\ Holds(q, b)' => p = q
            /\ \A i, j \in Filled' \cup Reserved' : free'[i] = b /\ free'[j] = b => i = j
            /\ (\E p \in Places : Holds(p, b)') => \A i \in Filled' \cup Reserved' : free'[i] # b
  <2>1. \A p, q \in Places : Holds(p, b) /\ Holds(q, b) => p = q
    BY <1>0 DEF OneOwner
  <2>2. \A i, j \in In : free[i] = b /\ free[j] = b => i = j
    BY <1>0 DEF OneOwner, In
  <2>3. (\E p \in Places : Holds(p, b)) => \A i \in In : free[i] # b
    BY <1>0 DEF OneOwner, In
  <2>4. \A i, j \in Filled' \cup Reserved' : free'[i] = b /\ free'[j] = b => i = j
    BY <1>1, <1>2, <1>3, <2>2, <2>3
  <2>5. ASSUME NEW p \in Places, Holds(p, b)', NEW i \in Filled' \cup Reserved', free'[i] = b
        PROVE  FALSE
    BY <1>1, <1>2, <1>3, <2>1, <2>3, <2>5
  <2> QED
    BY <1>1, <2>1, <2>4, <2>5
<1> QED
  BY <1>4 DEF OneOwner

LEMMA StoreOwner ==
    ASSUME IInv, NEW t \in Threads, Store(t)
    PROVE  OneOwner'
<1> DEFINE In == Filled \cup Reserved
<1>0. OneOwner
  BY DEF IInv
<1>1. PICK P \in Places : P = <<file[t], idx[t]>>
  BY StoreEffect
<1>a. /\ Filled' \cup Reserved' = In \ {old[t]} /\ old[t] \in In /\ free' = free
      /\ \A p \in Places, b \in Blocks :
            Holds(p, b)' => Holds(p, b) \/ (p = P /\ b = free[old[t]])
  BY <1>1, StoreEffect
<1> HIDE DEF In
<1>2. ASSUME NEW b \in Blocks
      PROVE /\ \A p, q \in Places : Holds(p, b)' /\ Holds(q, b)' => p = q
            /\ \A i, j \in Filled' \cup Reserved' : free'[i] = b /\ free'[j] = b => i = j
            /\ (\E p \in Places : Holds(p, b)') => \A i \in Filled' \cup Reserved' : free'[i] # b
  <2>1. \A p, q \in Places : Holds(p, b) /\ Holds(q, b) => p = q
    BY <1>0 DEF OneOwner
  <2>2. \A i, j \in In : free[i] = b /\ free[j] = b => i = j
    BY <1>0 DEF OneOwner, In
  <2>3. (\E p \in Places : Holds(p, b)) => \A i \in In : free[i] # b
    BY <1>0 DEF OneOwner, In
  <2>4. \A p, q \in Places : Holds(p, b)' /\ Holds(q, b)' => p = q
    BY <1>a, <2>1, <2>3
  <2>5. (\E p \in Places : Holds(p, b)') => \A i \in Filled' \cup Reserved' : free'[i] # b
    BY <1>a, <2>2, <2>3
  <2> QED
    BY <1>a, <2>2, <2>4, <2>5
<1> QED
  BY <1>2 DEF OneOwner

(* Only those two steps move blocks. *)
LEMMA OwnerStep ==
    IInv /\ [Next]_vars =>
        OneOwner' /\ (SamePlaces \/ \E t \in Threads : UnlinkPush(t) \/ Store(t))
<1> SUFFICES ASSUME IInv, [Next]_vars
             PROVE  OneOwner' /\ (SamePlaces \/ \E t \in Threads : UnlinkPush(t) \/ Store(t))
  OBVIOUS
<1>0. OneOwner
  BY DEF IInv
<1>1. ASSUME Still PROVE OneOwner' /\ SamePlaces
  BY <1>0, <1>1, StillSame, Shrinks DEF Still
<1>2. ASSUME NEW t \in Threads, Step(t) \/ Caller(t)
      PROVE  OneOwner' /\ (SamePlaces \/ UnlinkPush(t) \/ Store(t))
  BY <1>1, <1>2, StillSteps, TakePopOwner, ClearOwner, PushOwner, StoreOwner
<1>3. ASSUME Crash PROVE OneOwner' /\ SamePlaces
  <2>1. /\ \A u \in Threads : pc'[u] = "idle" /\ pc[u] \notin {"push", "clear"}
        /\ free' = free /\ block' = block /\ rp' = rp /\ wp' = wp
    BY <1>3 DEF Crash, superblock, Unlink
  <2>2. Window' = Window
    BY <2>1 DEF Window
  <2>3. Reserved' = {} /\ Filled' = Filled
    BY <2>1, <2>2, ReservedBy DEF Filled, Empty
  <2>4. SamePlaces
    BY <2>1, PlacesStay
  <2> QED
    BY <1>0, <2>1, <2>3, <2>4, Shrinks
<1>4. CASE UNCHANGED vars
  BY <1>1, <1>4 DEF vars, superblock, args, Still
<1> QED
  BY <1>2, <1>3, <1>4 DEF Next

-----------------------------------------------------------------------------
(* The initial states.                                                      *)

LEMMA InitType == Init => TypeOK
<1> SUFFICES ASSUME Init PROVE TypeOK
  OBVIOUS
<1>0. NumBlocks \in Nat /\ NumBlocks >= 2 /\ MaxFiles \in Nat \ {0} /\ MaxBlocks \in Nat \ {0}
  BY SizesAssumption
<1>1. rp \in Slots /\ wp \in Slots
  BY <1>0, SizesAssumption DEF Init, Slots
<1>2. free \in [Slots -> Blocks \cup {Inactive}]
  <2>1. \A i \in Slots : (IF i = wp THEN 0 ELSE IF i < rp THEN i - rp + NumBlocks ELSE i - rp)
                            \in Blocks
    BY <1>0, <1>1, SizesAssumption DEF Init, Slots, Blocks
  <2>2. free = [i \in Slots |-> IF i = wp THEN 0 ELSE
                                  IF i < rp THEN i - rp + NumBlocks ELSE i - rp]
    BY DEF Init
  <2> QED
    BY <2>1, <2>2
<1>3. calls \in 0..MaxCalls[conduct]
  BY SizesAssumption DEF Init
<1>4. ref \in [Files -> 0..(RefMod - 1)]
  BY RefType DEF Init
<1>5. /\ name \in [Files -> Names \cup {NoName}] /\ n_block \in [Files -> Nat]
      /\ block \in [Files -> [Indices -> Blocks \cup {Inactive}]]
      /\ flags \in [Files -> SUBSET {"opened", "unlinked"}]
      /\ mutex \in Threads \cup {NoThread} /\ fmutex \in [Files -> Threads \cup {NoThread}]
      /\ opens \in [Files -> Nat]
  BY DEF Init
<1>6. /\ pc \in [Threads -> {"idle"} \cup Open \cup Unlink \cup Io]
      /\ want \in [Threads -> Names \cup {NoName}] /\ kind \in [Threads -> {"read", "write"}]
      /\ file \in [Threads -> Files] /\ idx \in [Threads -> Nat]
      /\ todo \in [Threads -> SUBSET Files] /\ old \in [Threads -> Slots]
      /\ at \in [Threads -> Blocks \cup {Inactive}]
  BY <1>0 DEF Init, Files, Slots
<1> QED
  BY <1>1, <1>2, <1>3, <1>4, <1>5, <1>6 DEF TypeOK

(* The ring starts with every block in it, once. *)
LEMMA InitRing ==
    ASSUME Init
    PROVE  /\ Window = Slots \ {wp}
           /\ \A i, j \in Slots \ {wp} : free[i] = free[j] => i = j
           /\ \A b \in Blocks : \E i \in Slots \ {wp} : free[i] = b
<1>0. NumBlocks \in Nat /\ NumBlocks >= 2 /\ rp \in Slots /\ wp \in Slots
  BY SizesAssumption, InitType DEF TypeOK
<1>1. wp = IF rp = 0 THEN NumBlocks - 1 ELSE rp - 1
  BY DEF Init
<1>2. \A i \in Slots \ {wp} : free[i] = IF i < rp THEN i - rp + NumBlocks ELSE i - rp
  BY DEF Init
<1>3. Window = Slots \ {wp}
  <2>1. Window = Interval(rp, wp)
    BY DEF Window, Interval
  <2> QED
    BY <1>0, <1>1, <2>1, IntervalIs DEF Slots
<1>4. \A i, j \in Slots \ {wp} : free[i] = free[j] => i = j
  BY <1>0, <1>2 DEF Slots
<1>5. ASSUME NEW b \in Blocks PROVE \E i \in Slots \ {wp} : free[i] = b
  <2>1. CASE b + rp < NumBlocks
    <3>1. b + rp \in Slots \ {wp}
      BY <1>0, <1>1, <2>1 DEF Slots, Blocks
    <3>2. free[b + rp] = b
      BY <1>0, <1>2, <3>1 DEF Slots, Blocks
    <3> QED
      BY <3>1, <3>2
  <2>2. CASE b + rp >= NumBlocks
    <3>1. b + rp - NumBlocks \in Slots \ {wp} /\ b + rp - NumBlocks < rp
      BY <1>0, <1>1, <2>2 DEF Slots, Blocks
    <3>2. free[b + rp - NumBlocks] = b
      BY <1>0, <1>2, <3>1 DEF Slots, Blocks
    <3> QED
      BY <3>1, <3>2
  <2> QED
    BY <1>0, <2>1, <2>2 DEF Slots, Blocks
<1> QED
  BY <1>3, <1>4, <1>5

LEMMA InitIInv == Init => IInv
<1> SUFFICES ASSUME Init PROVE IInv
  OBVIOUS
<1>0. /\ \A t \in Threads : pc[t] = "idle"
      /\ \A f \in Files : name[f] = NoName /\ fmutex[f] = NoThread
      /\ \A f \in Files, j \in Indices : block[f][j] = Inactive
      /\ mutex = NoThread /\ conduct \in DOMAIN MaxCalls
  BY DEF Init
<1>1. MutexInv
  BY <1>0, NoThreadAssumption DEF MutexInv, Held, Alloc
<1>2. ArgInv
  BY <1>0 DEF ArgInv, Open, Held, Io, Alloc
<1>3. RingInv
  BY <1>0, ReservedBy DEF RingInv
<1>4. NamesDistinct
  BY <1>0 DEF NamesDistinct
<1>5. OneOwner
  <2>1. \A b \in Blocks : b # Inactive
    BY SizesAssumption DEF Blocks, Inactive
  <2>2. \A p \in Places, b \in Blocks : ~Holds(p, b)
    BY <1>0, <2>1 DEF Holds, Places
  <2>3. Filled \cup Reserved \subseteq Slots \ {wp}
    BY <1>0, ReservedBy, InitRing DEF Filled
  <2> QED
    BY <2>2, <2>3, InitRing DEF OneOwner
<1> QED
  BY <1>1, <1>2, <1>3, <1>4, <1>5, InitType DEF IInv

-----------------------------------------------------------------------------
(* The invariant is one of the specification.                               *)
THEOREM Invariance == Spec => []IInv
<1>1. Init => IInv
  BY InitIInv
<1>2. IInv /\ [Next]_vars => IInv'
  BY TypeStep, MutexStep, ArgStep, RingStep, NamesStep, OwnerStep DEF IInv
<1> QED
  BY <1>1, <1>2, PTL DEF Spec

(* Whatever the program does, crashes between advancing a ring and writing *)
(* the list included: no block is in two files, twice in one, or in a file  *)
(* and free (myfs.c, the two compare-and-swap loops).                       *)
THEOREM OneOwnerHolds == Spec => []OneOwner
<1>1. IInv => OneOwner
  BY DEF IInv
<1> QED
  BY <1>1, Invariance, PTL

(* Whatever the program does: no two entries of the superblock have a name  *)
(* in common (myfs_open, which searches and creates inside of one mutex).   *)
THEOREM NamesDistinctHolds == Spec => []NamesDistinct
<1>1. IInv => NamesDistinct
  BY DEF IInv
<1> QED
  BY <1>1, Invariance, PTL

-----------------------------------------------------------------------------
(* The refinement.                                                          *)

(* The owner of a block is the place that holds it. *)
LEMMA OwnerIs ==
    ASSUME NEW b \in Blocks
    PROVE  /\ OneOwner => \A p \in Places : Holds(p, b) => owner[b] = p
           /\ (\A p \in Places : ~Holds(p, b)) => owner[b] = Free
           /\ OneOwner' => \A p \in Places : Holds(p, b)' => owner'[b] = p
           /\ (\A p \in Places : ~Holds(p, b)') => owner'[b] = Free
<1>1. ASSUME OneOwner, NEW p \in Places, Holds(p, b) PROVE owner[b] = p
  <2>1. \A q \in Places : Holds(q, b) => q = p
    BY <1>1 DEF OneOwner
  <2>2. (CHOOSE q \in Places : Holds(q, b)) = p
    BY <1>1, <2>1
  <2> QED
    BY <1>1, <2>2 DEF owner
<1>2. ASSUME OneOwner', NEW p \in Places, Holds(p, b)' PROVE owner'[b] = p
  <2>1. \A q \in Places : Holds(q, b)' => q = p
    BY <1>2 DEF OneOwner
  <2>2. (CHOOSE q \in Places : Holds(q, b)') = p
    BY <1>2, <2>1
  <2> QED
    BY <1>2, <2>2 DEF owner
<1> QED
  BY <1>1, <1>2 DEF owner

(* The owner of every block at once, before and after a step. *)
LEMMA OwnerDomain ==
    /\ owner = [b \in Blocks |-> owner[b]] /\ owner' = [b \in Blocks |-> owner'[b]]
    /\ \A b \in Blocks : owner[b] = Free \/ \E p \in Places : Holds(p, b) /\ owner[b] = p
BY DEF owner

LEMMA SameOwner == ASSUME OneOwner, OneOwner', SamePlaces PROVE owner' = owner
<1>1. ASSUME NEW b \in Blocks PROVE owner'[b] = owner[b]
  BY OwnerIs DEF SamePlaces
<1> QED
  BY <1>1, OwnerDomain

(* A block that unlink has put into the ring is free. *)
LEMMA PushReleases ==
    ASSUME IInv, OneOwner', NEW t \in Threads, UnlinkPush(t)
    PROVE  [Abstract!Next]_owner
<1>0. OneOwner
  BY DEF IInv
<1>a. PICK c : c = block[file[t]][idx[t]]
  OBVIOUS
<1>b. PICK P \in Places : P = <<file[t], idx[t]>>
  BY PushEffect
<1>1. /\ \A p \in Places, b \in Blocks : Holds(p, b)' <=> Holds(p, b) /\ p # P
      /\ \A b \in Blocks : b = c <=> Holds(P, b)
  BY <1>a, <1>b, PushEffect DEF Holds
<1>2. ASSUME NEW b \in Blocks, b # c PROVE owner'[b] = owner[b]
  <2>1. \A p \in Places : Holds(p, b)' <=> Holds(p, b)
    BY <1>1, <1>2
  <2> QED
    BY <1>0, <2>1, OwnerIs
<1>3. ASSUME c \in Blocks PROVE owner'[c] = Free
  <2>1. \A p \in Places : ~Holds(p, c)'
    BY <1>0, <1>1, <1>3 DEF OneOwner
  <2> QED
    BY <1>3, <2>1, OwnerIs
<1>4. CASE c \in Blocks
  <2>1. owner' = [owner EXCEPT ![c] = Free]
    BY <1>2, <1>3, <1>4, OwnerDomain
  <2> QED
    BY <1>4, <2>1 DEF Abstract!Next, Abstract!Release
<1>5. CASE c \notin Blocks
  BY <1>2, <1>5, OwnerDomain
<1> QED
  BY <1>4, <1>5

(* A block that is stored was free, and its place had none. *)
LEMMA StoreTakes ==
    ASSUME IInv, OneOwner', NEW t \in Threads, Store(t)
    PROVE  [Abstract!Next]_owner
<1>0. OneOwner
  BY DEF IInv
<1>a. PICK c : c = free[old[t]]
  OBVIOUS
<1>b. PICK P \in Places : P = <<file[t], idx[t]>>
  BY StoreEffect
<1>1. /\ \A p \in Places, b \in Blocks : Holds(p, b)' => Holds(p, b) \/ (p = P /\ b = c)
      /\ \A p \in Places, b \in Blocks : Holds(p, b) => Holds(p, b)'
      /\ old[t] \in Reserved
  BY <1>a, <1>b, StoreEffect
<1>2. ASSUME c \in Blocks PROVE \A p \in Places : ~Holds(p, c)
  BY <1>0, <1>a, <1>1, <1>2 DEF OneOwner
<1>3. ASSUME NEW b \in Blocks, b # c PROVE owner'[b] = owner[b]
  <2>1. \A p \in Places : Holds(p, b)' <=> Holds(p, b)
    BY <1>1, <1>3
  <2> QED
    BY <1>0, <2>1, OwnerIs
<1>4. CASE c \in Blocks /\ Holds(P, c)'
  <2>1. owner[c] = Free /\ owner'[c] = P
    BY <1>1, <1>2, <1>4, OwnerIs
  <2>2. ASSUME NEW b \in Blocks PROVE owner[b] # P
    <3>1. ~Holds(P, b)
      BY <1>b, StoreEffect
    <3> QED
      BY <3>1, OwnerDomain, FreeAssumption DEF Places
  <2>3. owner' = [owner EXCEPT ![c] = P]
    BY <1>3, <1>4, <2>1, OwnerDomain
  <2> QED
    BY <1>1, <1>4, <2>1, <2>2, <2>3 DEF Abstract!Next, Abstract!Take
<1>5. CASE c \in Blocks /\ ~Holds(P, c)'
  <2>1. \A p \in Places : ~Holds(p, c)'
    BY <1>1, <1>2, <1>5
  <2>2. owner'[c] = Free /\ owner[c] = Free
    BY <1>2, <1>5, <2>1, OwnerIs
  <2> QED
    BY <1>3, <2>2, OwnerDomain
<1>6. CASE c \notin Blocks
  BY <1>3, <1>6, OwnerDomain
<1> QED
  BY <1>4, <1>5, <1>6

(* What the program sees of myfs.c's blocks is a store in which every block *)
(* is free or one place's, and changes hands only by way of being free:     *)
(* advancing the rings, clearing the list and dying do not show.            *)
THEOREM Refinement == Spec => ImplementsBlockStore
<1>1. Init => Abstract!Init
  <2> SUFFICES ASSUME Init PROVE Abstract!Init
    OBVIOUS
  <2>1. \A p \in Places, b \in Blocks : ~Holds(p, b)
    BY SizesAssumption DEF Init, Holds, Places, Blocks, Inactive
  <2> QED
    BY <2>1, OwnerIs, OwnerDomain DEF Abstract!Init
<1>2. IInv /\ IInv' /\ [Next]_vars => [Abstract!Next]_owner
  <2> SUFFICES ASSUME IInv, IInv', [Next]_vars PROVE [Abstract!Next]_owner
    OBVIOUS
  <2>1. OneOwner /\ OneOwner'
    BY DEF IInv
  <2>2. CASE SamePlaces
    BY <2>1, <2>2, SameOwner
  <2> QED
    BY <2>1, <2>2, OwnerStep, PushReleases, StoreTakes
<1> QED
  BY <1>1, <1>2, Invariance, PTL DEF Spec, ImplementsBlockStore, Abstract!Spec

-----------------------------------------------------------------------------
(* An orderly program.                                                      *)

(* The hypotheses: no name is a prefix of another (of a program that uses   *)
(* such names nothing is promised, the comparison confuses its files), and  *)
(* there are fewer threads than a reference count can count.                *)
NoPrefixes == \A n \in Names : Extensions[n] = {n}
FewThreads == IsFiniteSet(Threads) /\ Cardinality(Threads) < RefMod

(* Who is where. *)
LEMMA Apart ==
    ASSUME IInv, Tidy, NEW t \in Threads, NEW u \in Threads
    PROVE  /\ pc[u] \in {"create"} \cup Busy =>
                 file[u] \in Named(want[u]) /\ opens[file[u]] = 0 /\ want[u] \in Names
           /\ pc[t] \in Io /\ pc[u] \in {"create"} \cup Busy => file[t] # file[u]
           /\ pc[t] \in Held /\ pc[u] \in Held => t = u
           /\ pc[t] \in Alloc /\ pc[u] \in Alloc /\ file[t] = file[u] => t = u
<1>0. TypeOK /\ MutexInv /\ CallOf(t) /\ CallOf(u)
  BY DEF IInv, Tidy, CallInv
<1>1. ASSUME pc[u] \in {"create"} \cup Busy
      PROVE  file[u] \in Named(want[u]) /\ opens[file[u]] = 0 /\ want[u] \in Names
  <2>1. file[u] \in Named(want[u])
    BY <1>0, <1>1 DEF CallOf, Named, Busy, Held, TypeOK
  <2> QED
    BY <1>0, <1>1, <2>1 DEF CallOf, Busy, Open, Unlink
<1>2. pc[t] \in Io => opens[file[t]] > 0
  BY <1>0 DEF CallOf
<1>3. pc[t] \in Held /\ pc[u] \in Held => t = u
  BY <1>0 DEF MutexInv
<1>4. pc[t] \in Alloc /\ pc[u] \in Alloc /\ file[t] = file[u] => t = u
  BY <1>0 DEF MutexInv, TypeOK
<1> QED
  BY <1>1, <1>2, <1>3, <1>4

(* Which steps write the state of the files. *)
LEMMA StateWriters ==
    ASSUME NEW t \in Threads, Step(t) \/ Caller(t)
    PROVE  /\ \/ opens' = opens \/ OpenFound(t) \/ OpenCreate(t)
              \/ \E f \in Files : Close(t, f)
           /\ \/ flags' = flags \/ OpenFound(t) \/ OpenCreate(t) \/ UnlinkMark(t)
              \/ UnlinkForget(t) \/ \E f \in Files : Close(t, f)
           /\ ref' = ref \/ UnlinkForget(t) \/ RefAdd(t) \/ Deref(t)
<1>1. CASE Caller(t)
  BY <1>1 DEF Caller, CallOpen, CallUnlink, CallIo, Close
<1>2. CASE OpenFound(t) \/ OpenNew(t) \/ OpenCreate(t) \/ UnlinkScan(t) \/ UnlinkMark(t)
           \/ UnlinkDefer(t) \/ UnlinkNow(t)
  BY <1>2 DEF OpenFound, OpenNew, OpenCreate, UnlinkScan, UnlinkMark, UnlinkDefer, UnlinkNow
<1>3. CASE UnlinkTake(t) \/ UnlinkPush(t) \/ UnlinkClear(t) \/ UnlinkForget(t) \/ Ref(t)
           \/ RefAdd(t) \/ Size(t)
  BY <1>3 DEF UnlinkTake, UnlinkPush, UnlinkClear, UnlinkForget, Ref, RefAdd, Size
<1>4. CASE AllocTest(t) \/ Pop(t) \/ Store(t) \/ Count(t) \/ Lba(t) \/ Deref(t) \/ DerefLast(t)
  BY <1>4 DEF AllocTest, Pop, Store, Count, Lba, Deref, DerefLast
<1> QED
  BY <1>1, <1>2, <1>3, <1>4 DEF Step

(* With no prefixes a search finds the file of that name. *)
LEMMA MatchesNamed ==
    ASSUME NoPrefixes, NEW n \in Names
    PROVE  Matches(n) = Named(n)
BY DEF NoPrefixes, Matches, Named

(* What opens, creates and closes a file, and what forgets it. *)
LEMMA OpenEffect ==
    ASSUME NoPrefixes, IInv, Orderly, Tidy, NEW t \in Threads
    PROVE  /\ OpenFound(t) => \E f \in Named(want[t]) :
                 /\ opens' = [opens EXCEPT ![f] = @ + 1]
                 /\ flags' = [flags EXCEPT ![f] = {"opened"}]
           /\ OpenNew(t) => \E f \in Named(NoName) :
                 /\ name' = [name EXCEPT ![f] = want[t]] /\ file'[t] = f
           /\ UnlinkScan(t) => nextEntry(t, Named(want[t]))
           /\ pc[t] \in Open \cup Unlink => want[t] \in Names
<1>0. TypeOK /\ CallOf(t)
  BY DEF IInv, Tidy, CallInv
<1>1. pc[t] \in Open \cup Unlink => want[t] \in Names
  BY <1>0 DEF CallOf
<1>2. OpenFound(t) => \E f \in Named(want[t]) :
         /\ opens' = [opens EXCEPT ![f] = @ + 1] /\ flags' = [flags EXCEPT ![f] = {"opened"}]
  BY <1>1, LowestIn, MatchesNamed, EntriesIn DEF OpenFound, Open
<1>3. ASSUME OpenNew(t)
      PROVE  \E f \in Named(NoName) : name' = [name EXCEPT ![f] = want[t]] /\ file'[t] = f
  <2>1. Lowest(Named(NoName)) \in Named(NoName)
    BY <1>3, LowestIn, EntriesIn DEF OpenNew
  <2> QED
    BY <1>0, <1>3, <2>1 DEF OpenNew, TypeOK
<1>4. ASSUME UnlinkScan(t) PROVE nextEntry(t, Named(want[t]))
  <2>1. want[t] \in Names /\ want[t] # NoName
    BY <1>1, <1>4, NamesAssumption DEF UnlinkScan, Unlink
  <2> QED
    BY <1>4, <2>1, MatchesNamed DEF UnlinkScan
<1> QED
  BY <1>1, <1>2, <1>3, <1>4

(* What a step changes of the files of others: nothing that they rely on.   *)
LEMMA AroundNames ==
    ASSUME NoPrefixes, IInv, Orderly, Tidy, NEW t \in Threads, Step(t) \/ Caller(t),
           NEW u \in Threads \ {t}, pc[u] \in Open \cup Unlink
    PROVE  /\ \A f \in Files : name'[f] = want[u] <=> name[f] = want[u]
           /\ \A f \in Named(want[u]) : opens'[f] = 0
<1>0. /\ TypeOK /\ CallOf(t) /\ CallOf(u)
      /\ want[u] \in Names /\ want[u] # NoName /\ \A f \in Named(want[u]) : opens[f] = 0
      /\ pc[t] \in Open \cup Unlink => want[t] # want[u]
  BY NamesAssumption DEF IInv, Tidy, CallInv, CallOf
<1>1. \A f \in Files : name'[f] = want[u] <=> name[f] = want[u]
  <2>1. CASE OpenNew(t)
    <3>1. pc[t] \in Open
      BY <2>1 DEF OpenNew, Open
    <3> QED
      <4>1. PICK f \in Named(NoName) : name' = [name EXCEPT ![f] = want[t]]
        BY <2>1, OpenEffect
      <4> QED
        BY <1>0, <3>1, <4>1 DEF Named, TypeOK
  <2>2. CASE UnlinkForget(t)
    <3>1. pc[t] \in Busy \cap Unlink
      BY <2>2 DEF UnlinkForget, Unlink, Busy
    <3>2. name[file[t]] = want[t]
      BY <3>1, Apart DEF Named
    <3> QED
      BY <1>0, <2>2, <3>1, <3>2 DEF UnlinkForget, TypeOK
  <2> QED
    BY <2>1, <2>2, Writers
<1>2. ASSUME NEW f \in Named(want[u]) PROVE opens'[f] = 0
  <2>0. f \in Files /\ opens[f] = 0 /\ name[f] = want[u]
    BY <1>0 DEF Named
  <2>1. CASE OpenFound(t)
    <3>1. pc[t] \in Open
      BY <2>1 DEF OpenFound, Open
    <3> QED
      <4>1. PICK g \in Named(want[t]) : opens' = [opens EXCEPT ![g] = @ + 1]
        BY <2>1, OpenEffect
      <4> QED
        BY <1>0, <2>0, <3>1, <4>1 DEF Named, TypeOK
  <2>2. CASE OpenCreate(t)
    <3>1. pc[t] \in Open /\ pc[t] \in {"create"} /\ opens' = [opens EXCEPT ![file[t]] = @ + 1]
      BY <2>2 DEF OpenCreate, Open
    <3>2. name[file[t]] = want[t]
      BY <3>1, Apart DEF Named
    <3> QED
      BY <1>0, <2>0, <3>1, <3>2 DEF TypeOK
  <2>3. CASE \E g \in Files : Close(t, g)
    BY <1>0, <2>0, <2>3 DEF Close, TypeOK
  <2>4. CASE opens' = opens
    BY <2>0, <2>4
  <2> QED
    BY <2>1, <2>2, <2>3, <2>4, StateWriters
<1> QED
  BY <1>1, <1>2

LEMMA AroundIo ==
    ASSUME NoPrefixes, IInv, Orderly, Tidy, NEW t \in Threads, Step(t) \/ Caller(t),
           NEW u \in Threads \ {t}, pc[u] \in Io
    PROVE  /\ opens'[file[u]] > 0 /\ n_block'[file[u]] >= n_block[file[u]]
           /\ pc[u] \in Alloc => n_block'[file[u]] = n_block[file[u]]
           /\ pc[u] = "io" => block'[file[u]][idx[u]] = block[file[u]][idx[u]]
<1>0. /\ TypeOK /\ MutexInv /\ file[u] \in Files /\ opens[file[u]] > 0
      /\ pc[t] \in {"create"} \cup Busy => file[u] # file[t]
  BY Apart DEF IInv, Tidy, CallInv, CallOf, TypeOK
<1>1. opens'[file[u]] > 0
  <2>1. CASE OpenFound(t)
    <3>1. PICK f \in Files : opens' = [opens EXCEPT ![f] = @ + 1]
      BY <2>1, OpenEffect DEF Named
    <3> QED
      BY <1>0, <3>1 DEF TypeOK
  <2>2. CASE OpenCreate(t)
    BY <1>0, <2>2 DEF OpenCreate, TypeOK
  <2>3. CASE \E g \in Files : Close(t, g)
    <3>1. PICK g \in Files : Close(t, g)
      BY <2>3
    <3>2. g # file[u]
      BY <3>1 DEF Close, Using
    <3> QED
      BY <1>0, <3>1, <3>2 DEF Close, TypeOK
  <2> QED
    BY <1>0, <2>1, <2>2, <2>3, StateWriters
<1>2. /\ n_block'[file[u]] >= n_block[file[u]]
      /\ pc[u] \in Alloc => n_block'[file[u]] = n_block[file[u]]
  <2>1. CASE OpenCreate(t)
    BY <1>0, <2>1 DEF OpenCreate, TypeOK
  <2>2. CASE UnlinkForget(t)
    BY <1>0, <2>2 DEF UnlinkForget, TypeOK, Busy
  <2>3. CASE Count(t)
    <3>1. pc[u] \in Alloc => file[u] # file[t]
      BY <2>3, Apart DEF Count, Alloc
    <3>2. n_block' = [n_block EXCEPT ![file[t]] = @ + 1]
      BY <2>3 DEF Count
    <3> QED
      BY <1>0, <3>1, <3>2 DEF TypeOK
  <2>4. CASE n_block' = n_block
    BY <1>0, <2>4 DEF TypeOK
  <2> QED
    BY <2>1, <2>2, <2>3, <2>4, Writers
<1>3. ASSUME pc[u] = "io" PROVE block'[file[u]][idx[u]] = block[file[u]][idx[u]]
  <2>0. idx[u] < n_block[file[u]] /\ idx[u] \in Indices
    BY <1>3 DEF IInv, ArgInv, Io, Tidy, ListInv, ListOf
  <2>1. CASE UnlinkClear(t)
    BY <1>0, <2>1 DEF UnlinkClear, TypeOK, Busy
  <2>2. CASE Store(t)
    <3>1. idx[t] = n_block[file[t]]
      BY <2>2 DEF Store, Tidy, ListInv, ListOf, Alloc
    <3>2. CASE file[t] = file[u]
      <4>1. idx[t] # idx[u]
        BY <1>0, <2>0, <3>1, <3>2 DEF TypeOK
      <4> QED
        BY <1>0, <2>0, <2>2, <4>1 DEF Store, TypeOK
    <3>3. CASE file[t] # file[u]
      BY <1>0, <2>2, <3>3 DEF Store, TypeOK
    <3> QED
      BY <3>2, <3>3
  <2> QED
    BY <2>1, <2>2, Writers
<1> QED
  BY <1>1, <1>2, <1>3

LEMMA AroundLists ==
    ASSUME NoPrefixes, IInv, Orderly, Tidy, NEW t \in Threads, Step(t) \/ Caller(t),
           NEW u \in Threads \ {t}, pc[u] \in {"create"} \cup Busy
    PROVE  n_block'[file[u]] = n_block[file[u]] /\ block'[file[u]] = block[file[u]]
<1>0. /\ TypeOK
      /\ pc[t] \in Io => file[u] # file[t]
      /\ pc[t] \notin Held
  <2>1. pc[u] \in Held
    BY DEF Held, Busy
  <2> QED
    BY <2>1, Apart DEF IInv
<1>1. n_block'[file[u]] = n_block[file[u]]
  <2>1. CASE Count(t)
    BY <1>0, <2>1 DEF Count, TypeOK, Io, Alloc
  <2> QED
    BY <1>0, <2>1, Writers, Labels DEF Held
<1>2. block'[file[u]] = block[file[u]]
  <2>1. CASE Store(t)
    BY <1>0, <2>1 DEF Store, TypeOK, Io, Alloc
  <2> QED
    BY <1>0, <2>1, Writers, Labels DEF Held
<1> QED
  BY <1>1, <1>2

(* The last transfer that gives its reference back is not told so by the    *)
(* file being unlinked: while there is a transfer its reference counts.     *)
Transfers(f) == {t \in Threads : pc[t] \in Counted /\ file[t] = f}

LEMMA Referenced ==
    ASSUME FewThreads, IInv, Orderly, Tidy, NEW f \in Files
    PROVE  /\ ref[f] = Cardinality(Transfers(f)) /\ IsFiniteSet(Transfers(f))
           /\ Cardinality(Transfers(f)) \in Nat
           /\ \A t \in Threads : pc[t] \in Counted /\ file[t] = f => ref[f] # 0
<1>1. ref[f] = Cardinality(Transfers(f))
  BY DEF Tidy, RefExact, Transfers, Counted
<1>2. IsFiniteSet(Transfers(f)) /\ Cardinality(Transfers(f)) \in Nat
  BY FS_Subset, FS_CardinalityType DEF FewThreads, Transfers
<1>3. ASSUME NEW t \in Threads, pc[t] \in Counted, file[t] = f PROVE ref[f] # 0
  <2>1. Transfers(f) # {}
    BY <1>3 DEF Transfers
  <2> QED
    BY <1>1, <1>2, <2>1, FS_EmptySet
<1> QED
  BY <1>1, <1>2, <1>3

(* The thread that steps. *)
LEMMA OwnCall ==
    ASSUME NoPrefixes, FewThreads, IInv, Orderly, Tidy, NEW t \in Threads, Step(t) \/ Caller(t)
    PROVE  CallOf(t)'
<1> USE DEF superblock, locks, args
<1>0. TypeOK /\ CallOf(t)
  BY DEF IInv, Tidy, CallInv
<1>a. \A n : Named(n)' = {f \in Files : name'[f] = n}
  BY DEF Named
<1>1. CASE Caller(t)
  <2>1. ASSUME NEW n \in Names, CallOpen(t, n) \/ CallUnlink(t, n) PROVE CallOf(t)'
    <3>1. /\ pc'[t] \in {"open", "scan"} /\ want'[t] = n /\ name' = name /\ opens' = opens
          /\ \A f \in Named(n) : opens[f] = 0
      BY <1>0, <2>1, GotoPc DEF CallOpen, CallUnlink, Orderly, TypeOK
    <3> QED
      BY <3>1 DEF CallOf, Named, Open, Unlink, Io, Alloc, Held, Busy
  <2>2. ASSUME NEW k \in {"read", "write"}, NEW f \in Files, NEW i \in Indices, CallIo(t, k, f, i)
        PROVE  CallOf(t)'
    <3>1. pc'[t] = "ref" /\ file'[t] = f /\ opens' = opens /\ opens[f] > 0
      BY <1>0, <2>2, GotoPc DEF CallIo, TypeOK
    <3> QED
      BY <3>1 DEF CallOf, Open, Unlink, Io, Alloc, Held, Busy
  <2>3. ASSUME NEW f \in Files, Close(t, f) PROVE CallOf(t)'
    <3>1. pc'[t] = "idle"
      BY <1>0, <2>3, GotoPc DEF Close
    <3> QED
      BY <3>1 DEF CallOf, Open, Unlink, Io, Alloc, Held, Busy
  <2> QED
    BY <1>1, <2>1, <2>2, <2>3 DEF Caller
<1>2. CASE OpenFound(t) \/ OpenCreate(t)
  <2>1. pc'[t] = "idle"
    BY <1>0, <1>2, Labels
  <2> QED
    BY <2>1 DEF CallOf, Open, Unlink, Io, Alloc, Held, Busy
<1>3. CASE OpenNew(t)
  <2>1. PICK f \in Named(NoName) : name' = [name EXCEPT ![f] = want[t]] /\ file'[t] = f
    BY <1>3, OpenEffect
  <2>2. /\ pc[t] = "open" /\ pc'[t] = "create" /\ want' = want /\ opens' = opens
        /\ n_block' = n_block
    BY <1>0, <1>3, Labels DEF OpenNew
  <2>3. want[t] \in Names /\ \A g \in Named(want[t]) : opens[g] = 0
    BY <1>0, <2>2 DEF CallOf, Open
  <2>4. n_block[f] = 0 /\ opens[f] = 0 /\ f \in Files
    BY <2>1, NamesAssumption DEF Named, Tidy, ListInv, FlagInv
  <2>5. \A g \in Files : name'[g] = want[t] => g \in Named(want[t]) \/ g = f
    BY <1>0, <2>1 DEF Named, TypeOK
  <2>6. name'[f] = want[t]
    BY <1>0, <2>1, <2>4 DEF TypeOK
  <2> QED
    BY <2>1, <2>2, <2>3, <2>4, <2>5, <2>6, <1>a DEF CallOf, Open, Unlink, Io, Alloc, Held, Busy
<1>4. CASE UnlinkScan(t) \/ UnlinkDefer(t)
  <2>1. /\ pc[t] \in {"scan", "busy"} /\ pc'[t] \in {"idle", "mark"}
        /\ want' = want /\ opens' = opens /\ name' = name
    BY <1>0, <1>4, Labels DEF UnlinkScan, UnlinkDefer
  <2>2. want[t] \in Names /\ \A g \in Named(want[t]) : opens[g] = 0
    BY <1>0, <2>1 DEF CallOf, Unlink
  <2>3. todo'[t] \subseteq Named(want[t])
    <3>1. CASE UnlinkScan(t)
      BY <1>0, <3>1, OpenEffect DEF nextEntry, TypeOK
    <3>2. CASE UnlinkDefer(t)
      BY <1>0, <2>1, <3>2 DEF UnlinkDefer, nextEntry, CallOf, Held, TypeOK
    <3> QED
      BY <1>4, <3>1, <3>2
  <2> QED
    BY <2>1, <2>2, <2>3 DEF CallOf, Named, Open, Unlink, Io, Alloc, Held, Busy
<1>5. CASE UnlinkMark(t)
  <2>1. /\ pc[t] = "mark" /\ pc'[t] = "busy" /\ file'[t] = Lowest(todo[t])
        /\ want' = want /\ opens' = opens /\ name' = name /\ todo' = todo
    BY <1>0, <1>5, Labels DEF UnlinkMark, TypeOK
  <2>2. Lowest(todo[t]) \in todo[t]
    BY <1>0, <2>1, LowestIn DEF IInv, ArgInv, Held, TypeOK
  <2> QED
    BY <1>0, <2>1, <2>2 DEF CallOf, Named, Open, Unlink, Io, Alloc, Held, Busy
<1>6. CASE UnlinkNow(t) \/ UnlinkTake(t) \/ UnlinkPush(t) \/ UnlinkClear(t)
  <2>1. /\ pc[t] \in Busy /\ pc'[t] \in Freeing /\ file' = file
        /\ want' = want /\ opens' = opens /\ name' = name /\ todo' = todo
    BY <1>0, <1>6, Labels DEF UnlinkNow, UnlinkTake, UnlinkPush, UnlinkClear, Busy, Freeing
  <2> QED
    BY <1>0, <2>1 DEF CallOf, Named, Open, Unlink, Io, Alloc, Held, Busy, Freeing
<1>7. CASE UnlinkForget(t)
  <2>1. /\ pc[t] = "loop" /\ pc'[t] \in {"idle", "mark"} /\ want' = want /\ opens' = opens
        /\ name' = [name EXCEPT ![file[t]] = NoName] /\ todo'[t] = todo[t] \ {file[t]}
    BY <1>0, <1>7, Labels DEF UnlinkForget, nextEntry, TypeOK
  <2>2. /\ want[t] \in Names /\ \A g \in Named(want[t]) : opens[g] = 0
        /\ todo[t] \subseteq Named(want[t])
    BY <1>0, <2>1 DEF CallOf, Unlink, Held
  <2>3. Named(want[t])' = Named(want[t]) \ {file[t]}
    BY <1>0, <2>1, <2>2, NamesAssumption DEF Named, TypeOK
  <2> QED
    BY <2>1, <2>2, <2>3 DEF CallOf, Open, Unlink, Io, Alloc, Held, Busy
<1>8. CASE Deref(t)
  <2>1. pc[t] \in Counted /\ file[t] \in Files
    BY <1>0, <1>8, Labels DEF Counted, Io, TypeOK
  <2>2. ref[file[t]] # 0
    BY <2>1, Referenced
  <2>3. pc'[t] = "idle"
    BY <1>0, <1>8, <2>2, GotoPc DEF Deref
  <2> QED
    BY <2>3 DEF CallOf, Open, Unlink, Io, Alloc, Held, Busy
<1>9. CASE DerefLast(t)
  BY <1>0, <1>9 DEF DerefLast, CallOf, Io
<1>10. CASE Ref(t) \/ RefAdd(t) \/ Size(t) \/ AllocTest(t) \/ Pop(t) \/ Store(t) \/ Count(t)
            \/ Lba(t)
  <2>1. file' = file /\ opens' = opens
    BY <1>10 DEF Ref, RefAdd, Size, AllocTest, Pop, Store, Count, Lba
  <2>2. pc[t] \in Io /\ pc'[t] \in Io \ {"last"}
    BY <1>0, <1>10, Labels DEF Io, Alloc, afterRef
  <2> QED
    BY <1>0, <2>1, <2>2 DEF CallOf, Open, Unlink, Io, Alloc, Held, Busy
<1> QED
  BY <1>1, <1>2, <1>3, <1>4, <1>5, <1>6, <1>7, <1>8, <1>9, <1>10 DEF Step

(* The other threads. *)
LEMMA OtherCall ==
    ASSUME NoPrefixes, IInv, Orderly, Tidy, NEW t \in Threads, Step(t) \/ Caller(t),
           NEW u \in Threads \ {t}
    PROVE  CallOf(u)'
<1>0. TypeOK /\ CallOf(u) /\ Stays(u)
  BY OthersStay DEF IInv, Tidy, CallInv
<1>1. ASSUME pc[u] \in Open \cup Unlink
      PROVE  /\ \A f \in Named(want[u])' : opens'[f] = 0
             /\ \A f \in Named(want[u]) : f \in Named(want[u])'
  BY <1>0, <1>1, AroundNames DEF Named, Stays
<1>2. pc[u] \in Io => opens'[file[u]] > 0
  BY AroundIo
<1>3. pc[u] = "create" => n_block'[file[u]] = 0 /\ name'[file[u]] = want[u]
  BY <1>0, AroundLists, AroundNames DEF CallOf, Open, TypeOK
<1>4. Named(want[u])' = {f \in Files : name'[f] = want'[u]}
  BY DEF Named
<1> QED
  BY <1>0, <1>1, <1>2, <1>3, <1>4 DEF CallOf, Stays, Open, Unlink, Held, Busy

LEMMA CallStep ==
    ASSUME NoPrefixes, FewThreads, IInv, Orderly, Tidy, NEW t \in Threads, Step(t) \/ Caller(t)
    PROVE  CallInv'
<1>0. TypeOK /\ CallInv
  BY DEF IInv, Tidy
<1>1. \A u \in Threads : CallOf(u)'
  BY OwnCall, OtherCall
<1>2. ASSUME NEW u \in Threads, NEW v \in Threads, pc'[u] \in Open \cup Unlink,
             pc'[v] \in Open \cup Unlink, want'[u] = want'[v]
      PROVE  u = v
  <2>1. \A w \in Threads \ {t} : pc'[w] = pc[w] /\ want'[w] = want[w]
    BY <1>0, OthersStay DEF Stays
  <2>2. CASE \E n \in Names : CallOpen(t, n) \/ CallUnlink(t, n)
    <3>1. PICK n \in Names : CallOpen(t, n) \/ CallUnlink(t, n)
      BY <2>2
    <3>2. want'[t] = n /\ ~Opening(n) /\ ~Unlinking(n)
      BY <1>0, <3>1 DEF CallOpen, CallUnlink, Orderly, TypeOK
    <3>3. \A w \in Threads \ {t} : pc[w] \in Open \cup Unlink => want[w] # n
      BY <3>2 DEF Opening, Unlinking
    <3> QED
      BY <1>0, <1>2, <2>1, <3>2, <3>3 DEF CallInv
  <2>3. CASE pc'[t] \in Open \cup Unlink =>
                pc[t] \in Open \cup Unlink /\ want'[t] = want[t]
    BY <1>0, <1>2, <2>1, <2>3 DEF CallInv
  <2>4. CASE Caller(t)
    <3>1. CASE \E n \in Names : CallOpen(t, n) \/ CallUnlink(t, n)
      BY <2>2, <3>1
    <3>2. CASE ~ \E n \in Names : CallOpen(t, n) \/ CallUnlink(t, n)
      <4>1. pc'[t] \in {"ref", "idle"}
        BY <1>0, <2>4, <3>2, GotoPc DEF Caller, CallIo, Close
      <4> QED
        BY <2>3, <4>1 DEF Open, Unlink
    <3> QED
      BY <3>1, <3>2
  <2>5. CASE Step(t)
    <3>1. pc'[t] \in Open \cup Unlink => pc[t] \in Open \cup Unlink
      <4>1. ~DerefLast(t)
        BY <1>0 DEF DerefLast, CallInv, CallOf, Io
      <4> QED
        BY <1>0, <2>5, <4>1, Labels DEF Step, Open, Unlink, afterRef
    <3>2. want' = want \/ DerefLast(t)
      BY <2>5 DEF Step, OpenFound, OpenNew, OpenCreate, UnlinkScan, UnlinkMark, UnlinkDefer,
         UnlinkNow, UnlinkTake, UnlinkPush, UnlinkClear, UnlinkForget, Ref, RefAdd, Size,
         AllocTest, Pop, Store, Count, Lba, Deref, args
    <3>3. ~DerefLast(t)
      BY <1>0 DEF DerefLast, CallInv, CallOf, Io
    <3> QED
      BY <2>3, <3>1, <3>2, <3>3
  <2> QED
    BY <2>4, <2>5
<1> QED
  BY <1>1, <1>2 DEF CallInv

-----------------------------------------------------------------------------
(* Descriptors and flags.                                                   *)

LEMMA FlagStep ==
    ASSUME NoPrefixes, IInv, Orderly, Tidy, NEW t \in Threads, Step(t) \/ Caller(t)
    PROVE  FlagInv'
<1>0. TypeOK /\ CallOf(t) /\ FlagInv
  BY DEF IInv, Tidy, CallInv
<1>1. CASE OpenFound(t)
  <2>1. PICK e \in Named(want[t]) : /\ opens' = [opens EXCEPT ![e] = @ + 1]
                                    /\ flags' = [flags EXCEPT ![e] = {"opened"}]
    BY <1>1, OpenEffect
  <2>2. e \in Files /\ opens[e] = 0 /\ name[e] \in Names
    BY <1>0, <1>1, <2>1 DEF OpenFound, CallOf, Open, Named
  <2>3. name' = name
    BY <1>1 DEF OpenFound, superblock
  <2> QED
    BY <1>0, <2>1, <2>2, <2>3 DEF FlagInv, TypeOK
<1>2. CASE OpenNew(t)
  <2>1. PICK e \in Named(NoName) : name' = [name EXCEPT ![e] = want[t]]
    BY <1>2, OpenEffect
  <2>2. want[t] \in Names /\ opens' = opens /\ flags' = flags
    BY <1>0, <1>2 DEF OpenNew, CallOf, Open
  <2> QED
    BY <1>0, <2>1, <2>2 DEF FlagInv, Named, TypeOK
<1>3. CASE OpenCreate(t)
  <2>1. file[t] \in Files /\ opens[file[t]] = 0 /\ name[file[t]] \in Names
    BY <1>0, <1>3, Apart DEF OpenCreate, CallOf, TypeOK, Named
  <2>2. /\ opens' = [opens EXCEPT ![file[t]] = @ + 1]
        /\ flags' = [flags EXCEPT ![file[t]] = {"opened"}] /\ name' = name
    BY <1>3 DEF OpenCreate
  <2> QED
    BY <1>0, <2>1, <2>2 DEF FlagInv, TypeOK
<1>4. CASE UnlinkMark(t)
  <2>1. PICK e \in todo[t] : flags' = [flags EXCEPT ![e] = @ \cup {"unlinked"}]
    BY <1>0, <1>4, LowestIn DEF UnlinkMark, IInv, ArgInv, Held, TypeOK
  <2>2. e \in Files /\ opens[e] = 0
    BY <1>0, <1>4, <2>1 DEF UnlinkMark, CallOf, Held, Unlink, TypeOK
  <2>3. opens' = opens /\ name' = name
    BY <1>4 DEF UnlinkMark, superblock
  <2> QED
    BY <1>0, <2>1, <2>2, <2>3 DEF FlagInv, TypeOK
<1>5. CASE UnlinkForget(t)
  <2>1. file[t] \in Files /\ opens[file[t]] = 0
    BY <1>0, <1>5, Apart DEF UnlinkForget, Busy, TypeOK
  <2>2. /\ opens' = opens /\ flags' = [flags EXCEPT ![file[t]] = {}]
        /\ name' = [name EXCEPT ![file[t]] = NoName]
    BY <1>5 DEF UnlinkForget
  <2> QED
    BY <1>0, <2>1, <2>2 DEF FlagInv, TypeOK
<1>6. CASE \E f \in Files : Close(t, f)
  <2>1. PICK e \in Files : Close(t, e)
    BY <1>6
  <2>2. opens[e] = 1 /\ flags[e] = {"opened"}
    BY <1>0, <2>1 DEF Close, FlagInv
  <2>3. /\ opens' = [opens EXCEPT ![e] = @ - 1] /\ name' = name
        /\ flags' = [flags EXCEPT ![e] = @ \ {"opened"}]
    BY <1>0, <2>1, <2>2 DEF Close, superblock, TypeOK
  <2> QED
    BY <1>0, <2>1, <2>2, <2>3 DEF FlagInv, TypeOK
<1>7. CASE opens' = opens /\ flags' = flags /\ name' = name
  BY <1>0, <1>7 DEF FlagInv
<1> QED
  BY <1>1, <1>2, <1>3, <1>4, <1>5, <1>6, <1>7, StateWriters, Writers

-----------------------------------------------------------------------------
(* Reference counts.                                                        *)

(* The transfers on a file, after the step. *)
LEMMA TransfersAre ==
    /\ RefExact' <=> (Orderly' => \A f \in Files : ref'[f] = Cardinality(Transfers(f)'))
    /\ \A f : Transfers(f)' = {t \in Threads : pc'[t] \in Counted /\ file'[t] = f}
BY DEF RefExact, Transfers, Counted

LEMMA RefStep ==
    ASSUME NoPrefixes, FewThreads, IInv, Orderly, Tidy, NEW t \in Threads, Step(t) \/ Caller(t)
    PROVE  RefExact'
<1>0. TypeOK /\ CallOf(t) /\ file[t] \in Files
  BY DEF IInv, Tidy, CallInv, TypeOK
<1>1. \A u \in Threads \ {t} : pc'[u] = pc[u] /\ file'[u] = file[u]
  BY <1>0, OthersStay DEF Stays
<1>2. \A f \in Files : ref[f] = Cardinality(Transfers(f)) /\ IsFiniteSet(Transfers(f))
                       /\ Cardinality(Transfers(f)) \in Nat
  BY Referenced
<1>g. PICK g \in Files : g = file[t]
  BY <1>0
<1>3. CASE RefAdd(t)
  <2>1. pc[t] = "add" /\ pc'[t] \in Counted /\ file' = file /\ pc[t] \notin Counted
    BY <1>0, <1>3, Labels DEF RefAdd, afterRef, Counted, Io, Alloc, args
  <2>2. Transfers(g)' = Transfers(g) \cup {t} /\ t \notin Transfers(g)
    BY <1>g, <1>1, <2>1, TransfersAre DEF Transfers
  <2>3. \A f \in Files \ {g} : Transfers(f)' = Transfers(f)
    BY <1>g, <1>1, <2>1, TransfersAre DEF Transfers
  <2>4. /\ Cardinality(Transfers(g)') = ref[g] + 1
        /\ ref[g] + 1 < RefMod
    <3>1. Cardinality(Transfers(g)') = Cardinality(Transfers(g)) + 1
      BY <1>0, <1>2, <2>2, FS_AddElement
    <3>2. Transfers(g)' \in SUBSET Threads
      BY TransfersAre
    <3>3. Cardinality(Transfers(g)') <= Cardinality(Threads)
      BY <3>2, FS_Subset DEF FewThreads
    <3>4. Cardinality(Threads) \in Nat /\ RefMod \in Nat
      BY FS_CardinalityType DEF FewThreads, RefMod
    <3> HIDE DEF RefMod
    <3> QED
      BY <1>0, <1>2, <3>1, <3>3, <3>4 DEF FewThreads
  <2>5. ref'[g] = ref[g] + 1 /\ \A f \in Files \ {g} : ref'[f] = ref[f]
    <3>1. ref[g] + 1 # RefMod
      BY <1>0, <1>2, <2>4 DEF RefMod
    <3> QED
      BY <1>g, <1>0, <1>3, <3>1 DEF RefAdd, TypeOK
  <2>6. \A f \in Files : ref'[f] = Cardinality(Transfers(f)')
    BY <1>2, <2>3, <2>4, <2>5
  <2> QED
    BY <2>6, TransfersAre
<1>4. CASE Deref(t)
  <2>1. pc[t] \in Counted /\ pc'[t] \notin Counted /\ file' = file
    BY <1>0, <1>4, Labels DEF Deref, Counted, Io, Alloc, args
  <2>2. Transfers(g)' = Transfers(g) \ {t} /\ t \in Transfers(g)
    BY <1>g, <1>1, <2>1, TransfersAre DEF Transfers
  <2>3. \A f \in Files \ {g} : Transfers(f)' = Transfers(f)
    BY <1>g, <1>1, <2>1, TransfersAre DEF Transfers
  <2>4. Cardinality(Transfers(g)') = ref[g] - 1
    BY <1>0, <1>2, <2>2, FS_RemoveElement
  <2>5. ref'[g] = ref[g] - 1 /\ \A f \in Files \ {g} : ref'[f] = ref[f]
    <3>1. ref[g] # 0
      BY <1>g, <1>0, <2>1, Referenced
    <3> QED
      BY <1>g, <1>0, <1>4, <3>1 DEF Deref, TypeOK
  <2>6. \A f \in Files : ref'[f] = Cardinality(Transfers(f)')
    BY <1>2, <2>3, <2>4, <2>5
  <2> QED
    BY <2>6, TransfersAre
<1>5. CASE ~RefAdd(t) /\ ~Deref(t)
  <2>1. /\ pc[t] \in Counted <=> pc'[t] \in Counted
        /\ pc[t] \in Counted => file'[t] = file[t]
    <3>1. CASE Caller(t)
      BY <1>0, <3>1, Labels DEF Counted, Io, Alloc
    <3>2. CASE Ref(t)
      <4>1. opens[file[t]] > 0
        BY <1>0, <3>2 DEF Ref, CallOf, Io
      <4>2. flags[file[t]] = {"opened"}
        BY <1>0, <4>1 DEF Tidy, FlagInv
      <4> QED
        BY <1>0, <3>2, <4>2, GotoPc DEF Ref, Counted, Io, Alloc
    <3>3. CASE OpenFound(t) \/ OpenNew(t) \/ OpenCreate(t) \/ UnlinkScan(t) \/ UnlinkMark(t)
               \/ UnlinkDefer(t) \/ UnlinkNow(t) \/ UnlinkTake(t) \/ UnlinkPush(t)
               \/ UnlinkClear(t) \/ UnlinkForget(t) \/ DerefLast(t)
      BY <1>0, <3>3, Labels DEF Counted, Io, Alloc
    <3>4. CASE Size(t) \/ AllocTest(t) \/ Pop(t) \/ Store(t) \/ Count(t) \/ Lba(t)
      <4>1. file' = file
        BY <3>4 DEF Size, AllocTest, Pop, Store, Count, Lba, args
      <4> QED
        BY <1>0, <3>4, <4>1, Labels DEF Counted, Io, Alloc
    <3> QED
      BY <1>5, <3>1, <3>2, <3>3, <3>4 DEF Step
  <2>2. \A f \in Files : Transfers(f)' = Transfers(f)
    BY <1>1, <2>1, TransfersAre DEF Transfers
  <2>3. \A f \in Files : ref'[f] = ref[f]
    <3>1. CASE ref' = ref
      BY <3>1
    <3>2. CASE UnlinkForget(t)
      <4>1. Transfers(file[t]) = {}
        BY <3>2, Apart DEF UnlinkForget, Transfers, Counted, Busy
      <4>2. ref[file[t]] = 0
        BY <1>0, <1>2, <4>1, FS_EmptySet
      <4> QED
        BY <1>0, <3>2, <4>2 DEF UnlinkForget, TypeOK
    <3> QED
      BY <1>5, <3>1, <3>2, StateWriters
  <2>4. \A f \in Files : ref'[f] = Cardinality(Transfers(f)')
    BY <1>2, <2>2, <2>3
  <2> QED
    BY <2>4, TransfersAre
<1> QED
  BY <1>3, <1>4, <1>5

-----------------------------------------------------------------------------
(* The lists of blocks.                                                     *)

Leave(f) == \E t \in Threads : pc[t] \in Freeing /\ file[t] = f
Counting(f) == {t \in Threads : pc[t] = "count" /\ file[t] = f}
DenseAt(f) == Leave(f) \/ Mapped(f) = 0..(n_block[f] + Cardinality(Counting(f)) - 1)

LEMMA DenseIs == Dense <=> (Orderly => \A f \in Files : DenseAt(f))
BY DEF Dense, Leave, Counting, Mapped, DenseAt, Freeing

LEMMA DenseWas == Dense' <=> (Orderly' => \A f \in Files : DenseAt(f)')
BY DEF Dense, Leave, Counting, Mapped, DenseAt, Freeing

(* What is mapped of a file nobody unlinks: the blocks that are counted and *)
(* the one somebody is about to count.                                      *)
LEMMA MappedIs ==
    ASSUME IInv, Orderly, Tidy, NEW f \in Files, ~Leave(f)
    PROVE  /\ (\A t \in Threads : pc[t] = "count" => file[t] # f) =>
                 Mapped(f) = 0..(n_block[f] - 1) /\ Cardinality(Counting(f)) = 0
           /\ (\E t \in Threads : pc[t] = "count" /\ file[t] = f) =>
                 Mapped(f) = 0..n_block[f] /\ Cardinality(Counting(f)) = 1
<1>0. Mapped(f) = 0..(n_block[f] + Cardinality(Counting(f)) - 1) /\ n_block[f] \in Nat
  BY DenseIs DEF Tidy, DenseAt, IInv, TypeOK
<1>1. ASSUME \A t \in Threads : pc[t] = "count" => file[t] # f
      PROVE  Mapped(f) = 0..(n_block[f] - 1) /\ Cardinality(Counting(f)) = 0
  <2>1. Counting(f) = {}
    BY <1>1 DEF Counting
  <2> QED
    BY <1>0, <2>1, FS_EmptySet
<1>2. ASSUME NEW t \in Threads, pc[t] = "count", file[t] = f
      PROVE  Mapped(f) = 0..n_block[f] /\ Cardinality(Counting(f)) = 1
  <2>1. Counting(f) = {t}
    BY <1>2, Apart DEF Counting, Alloc
  <2>2. Cardinality({t}) = 1
    BY FS_Singleton
  <2> QED
    BY <1>0, <2>1, <2>2
<1> QED
  BY <1>1, <1>2

(* Nobody unlinks a file on which there is a transfer. *)
LEMMA NotLeaving ==
    ASSUME IInv, Tidy, NEW t \in Threads, pc[t] \in Io
    PROVE  /\ ~Leave(file[t])
           /\ \A j : ~Leaving(file[t], j)
BY Apart DEF Leave, Leaving, Freeing, Busy

(* The thread that steps knows how far it is in the list. *)
LEMMA OwnList ==
    ASSUME NoPrefixes, IInv, Orderly, Tidy, NEW t \in Threads, Step(t) \/ Caller(t)
    PROVE  ListOf(t)'
<1> USE DEF superblock, locks, args
<1>0. /\ TypeOK /\ CallOf(t) /\ ListOf(t)
      /\ file[t] \in Files /\ n_block[file[t]] \in Nat /\ idx[t] \in Nat
  BY DEF IInv, Tidy, CallInv, ListInv, TypeOK
<1>1. CASE Caller(t)
  <2>1. CASE \E k \in {"read", "write"}, f \in Files, i \in Indices : CallIo(t, k, f, i)
    <3>1. PICK k \in {"read", "write"}, f \in Files, i \in Indices : CallIo(t, k, f, i)
      BY <2>1
    <3>2. /\ pc'[t] = "ref" /\ kind'[t] = k /\ file'[t] = f /\ idx'[t] = i /\ n_block' = n_block
          /\ k = "write" => i <= n_block[f]
      BY <1>0, <3>1, GotoPc DEF CallIo, TypeOK, Orderly
    <3> QED
      BY <3>2 DEF ListOf, Freeing, Alloc
  <2>2. CASE ~ \E k \in {"read", "write"}, f \in Files, i \in Indices : CallIo(t, k, f, i)
    <3>1. pc'[t] \in {"open", "scan", "idle"}
      BY <1>0, <1>1, <2>2, GotoPc DEF Caller, CallOpen, CallUnlink, Close
    <3> QED
      BY <3>1 DEF ListOf, Freeing, Alloc
  <2> QED
    BY <2>1, <2>2
<1>2. CASE OpenFound(t) \/ OpenNew(t) \/ OpenCreate(t) \/ UnlinkScan(t) \/ UnlinkDefer(t)
           \/ UnlinkForget(t) \/ Deref(t) \/ DerefLast(t)
  <2>1. pc'[t] \in {"idle", "create", "mark", "last", "scan"}
    BY <1>0, <1>2, Labels
  <2> QED
    BY <2>1 DEF ListOf, Freeing, Alloc
<1>3. CASE UnlinkMark(t)
  <2>1. pc'[t] = "busy" /\ idx'[t] = 0
    BY <1>0, <1>3, Labels DEF UnlinkMark, TypeOK
  <2> QED
    BY <2>1 DEF ListOf, Freeing, Alloc
<1>4. CASE UnlinkNow(t)
  <2>1. /\ pc[t] = "busy" /\ pc'[t] = "loop"
        /\ block' = block /\ n_block' = n_block /\ idx' = idx /\ file' = file
    BY <1>0, <1>4, Labels DEF UnlinkNow
  <2>2. /\ ~Leave(file[t]) /\ \A u \in Threads : pc[u] = "count" => file[u] # file[t]
    BY <2>1, Apart DEF Leave, Held, Busy, Freeing, Io, Alloc
  <2>3. Mapped(file[t]) = 0..(n_block[file[t]] - 1)
    BY <1>0, <2>2, MappedIs
  <2> QED
    BY <1>0, <2>1, <2>3 DEF ListOf, Mapped, Freeing, Alloc
<1>5. CASE UnlinkTake(t) \/ UnlinkPush(t)
  <2>1. /\ pc[t] \in {"loop", "push"} /\ pc'[t] \in {"push", "clear"}
        /\ block' = block /\ n_block' = n_block /\ idx' = idx /\ file' = file
        /\ idx[t] < n_block[file[t]]
    BY <1>0, <1>5, Labels DEF UnlinkTake, UnlinkPush, ListOf
  <2> QED
    BY <1>0, <2>1 DEF ListOf, Mapped, Freeing, Alloc
<1>6. CASE UnlinkClear(t)
  <2>1. /\ pc[t] = "clear" /\ pc'[t] = "loop" /\ n_block' = n_block /\ file' = file
        /\ block'[file[t]] = [block[file[t]] EXCEPT ![idx[t]] = Inactive]
        /\ idx'[t] = idx[t] + 1
    BY <1>0, <1>6, Labels DEF UnlinkClear, TypeOK
  <2>2. Mapped(file[t]) = idx[t]..(n_block[file[t]] - 1) /\ idx[t] < n_block[file[t]]
    BY <1>0, <2>1 DEF ListOf, Freeing
  <2>3. Mapped(file[t])' = Mapped(file[t]) \ {idx[t]}
    BY <1>0, <2>1 DEF Mapped, TypeOK
  <2>4. Mapped(file[t])' = (idx[t] + 1)..(n_block[file[t]] - 1)
    BY <1>0, <2>2, <2>3
  <2> QED
    BY <1>0, <2>1, <2>2, <2>4 DEF ListOf, Freeing, Alloc
<1>7. CASE Ref(t) \/ RefAdd(t)
  <2>1. /\ pc[t] \in {"ref", "add"} /\ pc'[t] \in {"add", "size", "alloc"}
        /\ n_block' = n_block /\ idx' = idx /\ file' = file /\ kind' = kind
    BY <1>0, <1>7, Labels DEF Ref, RefAdd, afterRef
  <2>2. kind[t] \in {"read", "write"}
    BY <1>0 DEF TypeOK
  <2>3. pc'[t] = "alloc" => kind[t] = "write"
    BY <1>0, <1>7, <2>2, GotoPc DEF Ref, RefAdd, afterRef
  <2> QED
    BY <1>0, <2>1, <2>3 DEF ListOf, Freeing, Alloc
<1>8. CASE Size(t)
  <2>1. /\ n_block' = n_block /\ idx' = idx /\ file' = file
        /\ pc'[t] \in {"lba", "deref"} /\ (pc'[t] = "lba" => idx[t] < n_block[file[t]])
    BY <1>0, <1>8, GotoPc DEF Size
  <2> QED
    BY <1>0, <2>1 DEF ListOf, Freeing, Alloc
<1>9. CASE AllocTest(t)
  <2>1. /\ pc[t] = "alloc" /\ n_block' = n_block /\ idx' = idx /\ file' = file
        /\ fmutex[file[t]] = NoThread
        /\ \/ pc'[t] = "pop" /\ block[file[t]][idx[t]] = Inactive
           \/ pc'[t] = "lba" /\ block[file[t]][idx[t]] # Inactive
    BY <1>0, <1>9, GotoPc DEF AllocTest
  <2>2. \A u \in Threads : pc[u] = "count" => file[u] # file[t]
    BY <1>0, <2>1, NoThreadAssumption DEF IInv, MutexInv, Alloc
  <2>3. Mapped(file[t]) = 0..(n_block[file[t]] - 1)
    BY <1>0, <2>1, <2>2, MappedIs, NotLeaving DEF Io
  <2>4. idx[t] \in Mapped(file[t]) <=> block[file[t]][idx[t]] # Inactive
    BY <2>1 DEF Mapped, IInv, ArgInv, Io
  <2>5. idx[t] <= n_block[file[t]]
    BY <1>0, <2>1 DEF ListOf
  <2> QED
    BY <1>0, <2>1, <2>3, <2>4, <2>5 DEF ListOf, Freeing, Alloc
<1>10. CASE Pop(t) \/ Store(t)
  <2>1. /\ pc[t] \in {"pop", "store"} /\ pc'[t] \in {"store", "count"}
        /\ n_block' = n_block /\ idx' = idx /\ file' = file
    BY <1>0, <1>10, Labels DEF Pop, Store
  <2> QED
    BY <1>0, <2>1 DEF ListOf, Freeing, Alloc
<1>11. CASE Count(t)
  <2>1. /\ pc[t] = "count" /\ pc'[t] = "lba" /\ n_block'[file[t]] = n_block[file[t]] + 1
        /\ idx' = idx /\ file' = file
    BY <1>0, <1>11, Labels DEF Count, TypeOK
  <2> QED
    BY <1>0, <2>1 DEF ListOf, Freeing, Alloc
<1>12. CASE Lba(t)
  <2>1. /\ pc[t] = "lba" /\ pc'[t] = "io" /\ n_block' = n_block /\ block' = block
        /\ idx' = idx /\ file' = file /\ at'[t] = block[file[t]][idx[t]]
    BY <1>0, <1>12, Labels DEF Lba, TypeOK
  <2> QED
    BY <1>0, <2>1 DEF ListOf, Freeing, Alloc
<1> QED
  BY <1>1, <1>2, <1>3, <1>4, <1>5, <1>6, <1>7, <1>8, <1>9, <1>10, <1>11, <1>12 DEF Step

(* And so do the others. *)
LEMMA OtherList ==
    ASSUME NoPrefixes, IInv, Orderly, Tidy, TypeOK', NEW t \in Threads, Step(t) \/ Caller(t),
           NEW u \in Threads \ {t}
    PROVE  ListOf(u)'
<1>0. ListOf(u) /\ Stays(u)
  BY OthersStay DEF IInv, Tidy, ListInv
<1>1. file[u] \in Files /\ idx[u] \in Nat /\ n_block[file[u]] \in Nat /\ n_block'[file[u]] \in Nat
  BY DEF IInv, TypeOK
<1>2. CASE pc[u] \in Busy
  <2>1. n_block'[file[u]] = n_block[file[u]] /\ block'[file[u]] = block[file[u]]
    BY <1>2, AroundLists
  <2>2. Mapped(file[u])' = Mapped(file[u])
    BY <1>0, <2>1 DEF Mapped, Stays
  <2> QED
    BY <1>0, <1>2, <2>1, <2>2 DEF ListOf, Stays, Busy, Freeing, Alloc
<1>3. CASE pc[u] \in Io
  <2>1. /\ n_block'[file[u]] >= n_block[file[u]]
        /\ pc[u] \in Alloc => n_block'[file[u]] = n_block[file[u]]
        /\ pc[u] = "io" => block'[file[u]][idx[u]] = block[file[u]][idx[u]]
    BY <1>3, AroundIo
  <2> QED
    BY <1>0, <1>1, <1>3, <2>1 DEF ListOf, Stays, Freeing, Io, Alloc
<1>4. CASE pc[u] \notin Busy \cup Io
  BY <1>0, <1>4 DEF ListOf, Stays, Busy, Freeing, Io, Alloc
<1> QED
  BY <1>2, <1>3, <1>4

LEMMA ListStep ==
    ASSUME NoPrefixes, IInv, Orderly, Tidy, TypeOK', NEW t \in Threads, Step(t) \/ Caller(t)
    PROVE  ListInv'
<1>0. /\ TypeOK /\ CallOf(t) /\ file[t] \in Files
      /\ \A f \in Files : name[f] = NoName => n_block[f] = 0
  BY DEF IInv, Tidy, CallInv, ListInv, TypeOK
<1>1. \A u \in Threads : ListOf(u)'
  BY OwnList, OtherList
<1>2. ASSUME NEW f \in Files, name'[f] = NoName PROVE n_block'[f] = 0
  <2>1. CASE UnlinkForget(t)
    <3>1. /\ n_block' = [n_block EXCEPT ![file[t]] = 0]
          /\ name' = [name EXCEPT ![file[t]] = NoName]
      BY <2>1 DEF UnlinkForget
    <3> QED
      BY <1>0, <1>2, <3>1 DEF TypeOK
  <2>2. CASE OpenNew(t)
    <3>1. PICK g \in Files : name' = [name EXCEPT ![g] = want[t]]
      BY <2>2, OpenEffect DEF Named
    <3>2. want[t] # NoName /\ n_block' = n_block
      BY <1>0, <2>2, NamesAssumption DEF OpenNew, CallOf, Open
    <3> QED
      BY <1>0, <1>2, <3>1, <3>2 DEF TypeOK
  <2>3. CASE OpenCreate(t)
    <3>1. n_block' = [n_block EXCEPT ![file[t]] = 0] /\ name' = name
      BY <2>3 DEF OpenCreate
    <3> QED
      BY <1>0, <1>2, <3>1 DEF TypeOK
  <2>4. CASE Count(t)
    <3>1. n_block' = [n_block EXCEPT ![file[t]] = @ + 1] /\ name' = name
      BY <2>4 DEF Count
    <3>2. opens[file[t]] > 0
      BY <1>0, <2>4 DEF Count, CallOf, Io, Alloc
    <3>3. name[file[t]] # NoName
      BY <1>0, <3>2, NamesAssumption DEF Tidy, FlagInv
    <3> QED
      BY <1>0, <1>2, <3>1, <3>3 DEF TypeOK
  <2>5. CASE name' = name /\ n_block' = n_block
    BY <1>0, <1>2, <2>5
  <2> QED
    BY <2>1, <2>2, <2>3, <2>4, <2>5, Writers
<1> QED
  BY <1>1, <1>2 DEF ListInv

(* Files on which the step neither frees nor stores nor counts.             *)
Lists(t) == UnlinkNow(t) \/ UnlinkTake(t) \/ UnlinkPush(t) \/ UnlinkClear(t)
            \/ UnlinkForget(t) \/ Store(t) \/ Count(t)

LEMMA DenseElsewhere ==
    ASSUME IInv, Orderly, Tidy, NEW t \in Threads, Step(t) \/ Caller(t),
           NEW f \in Files, DenseAt(f), f # file[t] \/ ~Lists(t)
    PROVE  DenseAt(f)'
<1>0. TypeOK /\ CallOf(t) /\ file[t] \in Files
  BY DEF IInv, Tidy, CallInv, TypeOK
<1>1. n_block'[f] = n_block[f] /\ block'[f] = block[f]
  <2>1. CASE OpenCreate(t)
    <3>1. block' = block /\ n_block' = [n_block EXCEPT ![file[t]] = 0] /\ n_block[file[t]] = 0
      BY <1>0, <2>1 DEF OpenCreate, CallOf
    <3> QED
      BY <1>0, <3>1 DEF TypeOK
  <2>2. CASE UnlinkForget(t) \/ Count(t) \/ Store(t) \/ UnlinkClear(t)
    <3>1. f # file[t]
      BY <2>2 DEF Lists
    <3> QED
      BY <1>0, <2>2, <3>1 DEF UnlinkForget, Count, Store, UnlinkClear, TypeOK
  <2> QED
    BY <2>1, <2>2, Writers
<1>2. /\ pc[t] \in Freeing /\ file[t] = f <=> pc'[t] \in Freeing /\ file'[t] = f
      /\ pc[t] = "count" /\ file[t] = f <=> pc'[t] = "count" /\ file'[t] = f
  <2>1. CASE Lists(t)
    <3>1. f # file[t] /\ file' = file
      BY <2>1 DEF Lists, UnlinkNow, UnlinkTake, UnlinkPush, UnlinkClear, UnlinkForget,
         Store, Count, args
    <3> QED
      BY <3>1
  <2>2. CASE ~Lists(t)
    BY <1>0, <2>2, Labels DEF Lists, Step, Freeing, afterRef
  <2> QED
    BY <2>1, <2>2
<1>3. \A u \in Threads \ {t} : pc'[u] = pc[u] /\ file'[u] = file[u]
  BY <1>0, OthersStay DEF Stays
<1>4. /\ Leave(f)' <=> Leave(f)
      /\ Counting(f)' = Counting(f)
      /\ Mapped(f)' = Mapped(f)
  BY <1>1, <1>2, <1>3 DEF Leave, Counting, Mapped
<1> QED
  BY <1>1, <1>4 DEF DenseAt

(* What it does to the file it works on. *)
LEMMA DenseHere ==
    ASSUME IInv, Orderly, Tidy, TypeOK', NEW t \in Threads, Lists(t)
    PROVE  DenseAt(file[t])'
<1>0. /\ TypeOK /\ CallOf(t) /\ ListOf(t) /\ file' = file
      /\ \A u \in Threads \ {t} : pc'[u] = pc[u] /\ file'[u] = file[u]
  <2>1. file' = file
    BY DEF Lists, UnlinkNow, UnlinkTake, UnlinkPush, UnlinkClear, UnlinkForget, Store, Count, args
  <2> QED
    BY <2>1, OthersStay DEF IInv, Tidy, CallInv, ListInv, Lists, Step, Stays
<1>a. PICK g \in Files : g = file[t]
  BY <1>0 DEF TypeOK
<1>b. DenseAt(g)' => DenseAt(file[t])'
  BY <1>0, <1>a DEF DenseAt, Leave, Counting, Mapped
<1>1. CASE UnlinkNow(t) \/ UnlinkTake(t) \/ UnlinkPush(t) \/ UnlinkClear(t)
  <2>1. pc'[t] \in Freeing
    BY <1>0, <1>1, Labels DEF Freeing
  <2> QED
    BY <1>0, <1>a, <1>b, <2>1 DEF DenseAt, Leave
<1>2. CASE UnlinkForget(t)
  <2>1. pc[t] = "loop" /\ block' = block /\ n_block'[g] = 0 /\ idx[t] >= n_block[g]
    BY <1>0, <1>2, <1>a, Labels DEF UnlinkForget, TypeOK
  <2>2. Mapped(g) = {}
    BY <1>0, <1>a, <2>1 DEF ListOf, Freeing, TypeOK
  <2>3. Mapped(g)' = {}
    BY <2>1, <2>2 DEF Mapped
  <2>4. Counting(g)' = {}
    <3>1. \A u \in Threads : pc[u] = "count" => file[u] # g
      BY <1>a, <2>1, Apart DEF Io, Alloc, Busy
    <3> QED
      BY <1>0, <1>2, <3>1, Labels DEF Counting
  <2>5. Cardinality({}) = 0
    BY FS_EmptySet
  <2> QED
    BY <1>b, <2>1, <2>3, <2>4, <2>5 DEF DenseAt
<1>3. CASE Store(t)
  <2>1. /\ pc[t] = "store" /\ pc'[t] = "count" /\ n_block' = n_block /\ idx[t] = n_block[g]
        /\ block'[g] = [block[g] EXCEPT ![idx[t]] = free[old[t]]] /\ n_block[g] \in Nat
    BY <1>0, <1>3, <1>a, Labels DEF Store, ListOf, Alloc, TypeOK
  <2>2. free[old[t]] # Inactive /\ idx[t] \in Indices
    <3>1. free[old[t]] \in Blocks
      BY <2>1, ReservedBy DEF Tidy, FreeInv
    <3> QED
      BY <2>1, <3>1, SizesAssumption DEF Blocks, Inactive, IInv, ArgInv, Io, Alloc
  <2>3. \A u \in Threads : pc[u] = "count" => file[u] # g
    BY <1>a, <2>1, Apart DEF Alloc
  <2>4. Mapped(g) = 0..(n_block[g] - 1)
    BY <1>a, <2>1, <2>3, MappedIs, NotLeaving DEF Io, Alloc
  <2>5. Mapped(g)' = Mapped(g) \cup {n_block[g]}
    BY <1>0, <2>1, <2>2 DEF Mapped, TypeOK
  <2>6. Mapped(g)' = 0..n_block[g]
    BY <2>1, <2>4, <2>5
  <2>7. Counting(g)' = {t}
    BY <1>0, <1>a, <2>1, <2>3 DEF Counting
  <2>8. Cardinality({t}) = 1
    BY FS_Singleton
  <2> QED
    BY <1>b, <2>1, <2>6, <2>7, <2>8 DEF DenseAt
<1>4. CASE Count(t)
  <2>1. /\ pc[t] = "count" /\ pc'[t] = "lba" /\ block' = block
        /\ n_block'[g] = n_block[g] + 1 /\ n_block[g] \in Nat
    BY <1>0, <1>4, <1>a, Labels DEF Count, TypeOK
  <2>2. Mapped(g) = 0..n_block[g]
    BY <1>a, <2>1, MappedIs, NotLeaving DEF Io, Alloc
  <2>3. Counting(g)' = {}
    <3>1. \A u \in Threads : pc[u] = "count" /\ file[u] = g => u = t
      BY <1>a, <2>1, Apart DEF Alloc
    <3> QED
      BY <1>0, <2>1, <3>1 DEF Counting
  <2>4. Cardinality({}) = 0
    BY FS_EmptySet
  <2>5. Mapped(g)' = 0..n_block[g]
    BY <2>1, <2>2 DEF Mapped
  <2> QED
    BY <1>b, <2>1, <2>3, <2>4, <2>5 DEF DenseAt
<1> QED
  BY <1>1, <1>2, <1>3, <1>4 DEF Lists

LEMMA DenseStep ==
    ASSUME IInv, Orderly, Tidy, TypeOK', NEW t \in Threads, Step(t) \/ Caller(t)
    PROVE  Dense'
<1>0. \A f \in Files : DenseAt(f)
  BY DenseIs DEF Tidy
<1>1. ASSUME NEW f \in Files PROVE DenseAt(f)'
  <2>1. CASE f # file[t] \/ ~Lists(t)
    BY <1>0, <2>1, DenseElsewhere
  <2>2. CASE f = file[t] /\ Lists(t)
    <3>1. DenseAt(file[t])' /\ file' = file
      BY <2>2, DenseHere DEF Lists, UnlinkNow, UnlinkTake, UnlinkPush, UnlinkClear,
         UnlinkForget, Store, Count, args
    <3> QED
      BY <2>2, <3>1 DEF DenseAt, Leave, Counting, Mapped
  <2> QED
    BY <2>1, <2>2
<1> QED
  BY <1>1, DenseWas

-----------------------------------------------------------------------------
(* The blocks in the ring.                                                  *)

(* There is room in the ring for what an unlink gives back: if there were   *)
(* not, every block would be in the ring already, and the one the thread is *)
(* about to put there is still the file's.                                  *)
LEMMA RingHasRoom ==
    ASSUME IInv, Orderly, Tidy, NEW t \in Threads, UnlinkTake(t)
    PROVE  Succ(wp) # rp
<1>0. TypeOK /\ OneOwner /\ ListOf(t) /\ FreeInv
  BY DEF IInv, Tidy, ListInv
<1>1. /\ pc[t] = "loop" /\ file[t] \in Files /\ idx[t] \in Indices
      /\ idx[t] < n_block[file[t]] /\ n_block[file[t]] \in Nat
  BY <1>0, SizesAssumption DEF UnlinkTake, InList, TypeOK, Indices
<1>2. \A u \in Threads : pc[u] \notin {"push", "clear"}
  BY <1>0, <1>1, Apart DEF Held
<1>3. PICK b \in Blocks : b = block[file[t]][idx[t]]
  <2>1. idx[t] \in Mapped(file[t])
    BY <1>0, <1>1 DEF ListOf, Freeing, Indices
  <2> QED
    BY <1>0, <1>1, <2>1 DEF Mapped, TypeOK
<1>4. Holds(<<file[t], idx[t]>>, b) /\ <<file[t], idx[t]>> \in Places
  BY <1>1, <1>2, <1>3 DEF Holds, Leaving, Places
<1> SUFFICES ASSUME Succ(wp) = rp PROVE FALSE
  OBVIOUS
<1>5. /\ NumBlocks \in Nat /\ NumBlocks >= 2 /\ rp \in Slots /\ wp \in Slots
      /\ Window = Interval(rp, wp)
  BY <1>0, SizesAssumption DEF TypeOK, Window, Interval
<1>6. Window = Slots \ {wp}
  BY <1>5, IntervalIs DEF Succ, Slots
<1>7. Filled = Window
  BY <1>2 DEF Filled, Empty
<1>8. \A i \in Window : free[i] \in Blocks \ {b}
  BY <1>0, <1>4, <1>7 DEF FreeInv, OneOwner
<1> DEFINE g == [i \in Slots \ {wp} |-> free[i]]
<1>9. g \in [Slots \ {wp} -> Blocks \ {b}]
  BY <1>6, <1>8
<1>10. \A i, j \in Slots \ {wp} : g[i] = g[j] => i = j
  BY <1>0, <1>6, <1>7, <1>8 DEF OneOwner
<1>11. IsFiniteSet(Slots \ {wp}) /\ Cardinality(Slots \ {wp}) = NumBlocks - 1
  <2>1. IsFiniteSet(Slots) /\ Cardinality(Slots) = NumBlocks
    BY <1>5, FS_Interval DEF Slots
  <2> QED
    BY <1>5, <2>1, FS_RemoveElement
<1>12. IsFiniteSet(Blocks \ {b}) /\ Cardinality(Blocks \ {b}) = NumBlocks - 2
  <2>1. IsFiniteSet(Blocks) /\ Cardinality(Blocks) = NumBlocks - 1
    BY <1>5, FS_Interval DEF Blocks
  <2> QED
    BY <1>5, <2>1, FS_RemoveElement
<1> HIDE DEF g
<1> QED
  BY <1>5, <1>9, <1>10, <1>11, <1>12, FS_PigeonHole

(* Advancing wp adds no block to the ring yet. *)
LEMMA TakeEffect ==
    ASSUME IInv, Orderly, Tidy, NEW t \in Threads, UnlinkTake(t)
    PROVE  /\ free' = free /\ Filled' = Filled /\ Reserved' = Reserved
           /\ \A u \in Threads : pc'[u] = "push" => old'[u] \in Window'
<1>0. TypeOK /\ MutexInv
  BY DEF IInv
<1>1. \A u \in Threads \ {t} : pc'[u] = pc[u] /\ old'[u] = old[u]
  BY <1>0, OthersStay DEF Step, Stays
<1>2. /\ pc[t] = "loop" /\ pc'[t] = "push" /\ old'[t] = wp /\ wp' = Succ(wp) /\ rp' = rp
      /\ free' = free
  BY <1>0, Labels DEF UnlinkTake, TypeOK
<1>3. \A u \in Threads : pc[u] # "push"
  BY <1>2, Apart DEF Held
<1>4. Window' = Window \cup {wp} /\ wp \notin Window
  <2>1. Window = Interval(rp, wp) /\ wp \in Slots /\ rp \in Slots
    BY <1>0 DEF Window, Interval, TypeOK
  <2>2. wp \notin Window
    BY <2>1, IntervalIs DEF Slots
  <2> QED
    BY <1>0, <1>2, <2>2, WindowMoves, RingHasRoom
<1>5. Reserved' = Reserved
  BY <1>1, <1>2, ReservedBy
<1>6. \A i : /\ ~Empty(i)
             /\ Empty(i)' <=> i = wp
  BY <1>1, <1>2, <1>3 DEF Empty
<1>7. Filled' = Filled
  BY <1>4, <1>6 DEF Filled
<1> QED
  BY <1>1, <1>2, <1>3, <1>4, <1>5, <1>7

(* Advancing rp hands a block of the ring over to the thread. *)
LEMMA PopEffect ==
    ASSUME IInv, Orderly, Tidy, NEW t \in Threads, Pop(t)
    PROVE  /\ free' = free /\ Filled' \cup Reserved' = Filled \cup Reserved
           /\ \A u \in Threads : pc'[u] = "push" => old'[u] \in Window'
<1>0. TypeOK /\ RingInv /\ FreeInv
  BY DEF IInv, Tidy
<1>1. \A u \in Threads \ {t} : pc'[u] = pc[u] /\ old'[u] = old[u]
  BY <1>0, OthersStay DEF Step, Stays
<1>2. /\ pc[t] = "pop" /\ pc'[t] = "store" /\ old'[t] = rp /\ wp' = wp /\ rp' = Succ(rp)
      /\ free' = free /\ rp # wp /\ Succ(rp) # wp
  BY <1>0, Labels DEF Pop, Room, TypeOK
<1>3. rp \in Window /\ Window' = Window \ {rp}
  BY <1>0, <1>2, WindowMoves
<1>4. Reserved' = Reserved \cup {rp}
  BY <1>1, <1>2, ReservedBy
<1>5. \A u \in Threads : pc[u] = "push" => old[u] # rp
  BY <1>0, <1>2 DEF RingInv
<1>6. \A i : Empty(i)' <=> Empty(i)
  BY <1>1, <1>2 DEF Empty
<1>7. ~Empty(rp)
  BY <1>5 DEF Empty
<1>8. Filled' = Filled \ {rp} /\ rp \in Filled
  BY <1>3, <1>6, <1>7 DEF Filled
<1>9. \A u \in Threads : pc'[u] = "push" => old'[u] \in Window'
  BY <1>0, <1>1, <1>2, <1>3, <1>5 DEF FreeInv
<1> QED
  BY <1>2, <1>4, <1>8, <1>9

(* What an unlink puts into the ring is a block, the last one of the window. *)
LEMMA PushedBlock ==
    ASSUME IInv, Tidy, NEW t \in Threads, UnlinkPush(t)
    PROVE  /\ block[file[t]][idx[t]] \in Blocks /\ old[t] \in Filled'
           /\ \A u \in Threads : pc'[u] # "push"
<1>0. TypeOK /\ ListOf(t) /\ FreeInv /\ MutexInv
  BY DEF IInv, Tidy, ListInv
<1>1. pc[t] = "push" /\ pc'[t] = "clear" /\ file[t] \in Files /\ idx[t] \in Indices
  BY <1>0, Labels DEF IInv, ArgInv, TypeOK
<1>2. idx[t] < n_block[file[t]] /\ n_block[file[t]] \in Nat /\ idx[t] \in Nat
  BY <1>0, <1>1 DEF ListOf, TypeOK
<1>3. idx[t] \in Mapped(file[t])
  BY <1>0, <1>1, <1>2 DEF ListOf, Freeing
<1>4. block[file[t]][idx[t]] \in Blocks
  BY <1>0, <1>1, <1>3 DEF Mapped, TypeOK
<1>5. \A u \in Threads : pc'[u] # "push"
  <2>1. \A u \in Threads \ {t} : pc'[u] = pc[u]
    BY <1>0, OthersStay DEF Step, Stays
  <2> QED
    BY <1>1, <2>1, Apart DEF Held
<1>6. old[t] \in Window
  BY <1>0, <1>1 DEF FreeInv
<1> QED
  BY <1>4, <1>5, <1>6, PushEffect

LEMMA FreeStep ==
    ASSUME IInv, Orderly, Tidy, NEW t \in Threads, Step(t) \/ Caller(t)
    PROVE  FreeInv'
<1>0. TypeOK /\ FreeInv
  BY DEF IInv, Tidy
<1>a. \A u \in Threads \ {t} : pc'[u] = pc[u] /\ old'[u] = old[u]
  BY <1>0, OthersStay DEF Stays
<1>b. \A i : i \in Filled' \cup Reserved' <=> i \in Filled' \/ i \in Reserved'
  OBVIOUS
<1>1. CASE Still
  BY <1>0, <1>1, StillSame DEF FreeInv, Still, Movers
<1>2. CASE UnlinkTake(t)
  BY <1>0, <1>2, TakeEffect DEF FreeInv
<1>3. CASE UnlinkPush(t)
  <2>0. Filled \cup Reserved \subseteq Slots /\ old[t] \in Slots
    <3>1. Filled \cup Reserved \subseteq Slots
      BY <1>0, EntriesOfRing
    <3> QED
      BY <1>0, <3>1 DEF TypeOK
  <2>1. \A i \in Filled' \cup Reserved' : i \in Slots /\ i \in Filled \cup Reserved \cup {old[t]}
    BY <1>3, <2>0, PushEffect
  <2>2. free' = [free EXCEPT ![old[t]] = block[file[t]][idx[t]]] /\ free \in [Slots -> Blocks \cup {Inactive}]
    BY <1>0, <1>3, PushEffect DEF TypeOK
  <2>3. \A i \in Filled' \cup Reserved' : free'[i] \in Blocks
    BY <1>0, <1>3, <2>1, <2>2, PushedBlock DEF FreeInv
  <2> QED
    BY <1>3, <2>3, PushedBlock DEF FreeInv
<1>4. CASE UnlinkClear(t)
  <2>1. \A u \in Threads : pc'[u] # "push"
    <3>1. pc[t] = "clear" /\ pc'[t] = "loop"
      BY <1>0, <1>4, Labels
    <3> QED
      BY <1>a, <3>1, Apart DEF Held
  <2> QED
    BY <1>0, <1>4, <2>1, ClearOwner DEF FreeInv
<1>5. CASE Pop(t)
  BY <1>0, <1>5, PopEffect DEF FreeInv
<1>6. CASE Store(t)
  <2>1. Window' = Window
    BY <1>0, <1>6, WindowMoves DEF Store
  <2>2. pc'[t] # "push"
    BY <1>0, <1>6, Labels
  <2> QED
    BY <1>0, <1>a, <1>6, <2>1, <2>2, StoreEffect DEF FreeInv
<1> QED
  BY <1>1, <1>2, <1>3, <1>4, <1>5, <1>6, StillSteps

(* Where each block is, after the step. *)
LEMMA LostIs ==
    /\ NothingLost <=> (Orderly => \A b \in Blocks :
          (\E p \in Places : Holds(p, b)) \/ \E i \in Filled \cup Reserved : free[i] = b)
    /\ NothingLost' <=> (Orderly' => \A b \in Blocks :
          (\E p \in Places : Holds(p, b)') \/ \E i \in Filled' \cup Reserved' : free'[i] = b)
BY DEF NothingLost

LEMMA LostStep ==
    ASSUME IInv, Orderly, Tidy, NEW t \in Threads, Step(t) \/ Caller(t)
    PROVE  NothingLost'
<1>0. /\ TypeOK
      /\ \A b \in Blocks :
            (\E p \in Places : Holds(p, b)) \/ \E i \in Filled \cup Reserved : free[i] = b
  BY LostIs DEF IInv, Tidy
<1>1. ASSUME SamePlaces, free' = free, Filled' \cup Reserved' = Filled \cup Reserved
      PROVE  NothingLost'
  BY <1>0, <1>1, LostIs DEF SamePlaces
<1>2. CASE Still
  BY <1>1, <1>2, StillSame DEF Still
<1>3. CASE UnlinkTake(t) \/ Pop(t)
  BY <1>1, <1>3, TakeEffect, PopEffect, TakePopOwner
<1>4. CASE UnlinkClear(t)
  BY <1>1, <1>4, ClearOwner
<1>5. CASE UnlinkPush(t)
  <2>1. PICK P \in Places : P = <<file[t], idx[t]>>
    BY <1>5, PushEffect
  <2>2. PICK c \in Blocks : c = block[file[t]][idx[t]]
    BY <1>5, PushedBlock
  <2>3. \A b \in Blocks : Holds(P, b) => b = c
    BY <2>1, <2>2 DEF Holds
  <2>4. /\ \A p \in Places, b \in Blocks : Holds(p, b)' <=> Holds(p, b) /\ p # P
        /\ old[t] \in Filled' /\ old[t] \notin Filled \cup Reserved
        /\ Filled \cup Reserved \subseteq Filled' \cup Reserved'
    BY <1>5, <2>1, PushEffect, PushedBlock
  <2>5. free'[old[t]] = c /\ \A i \in Filled \cup Reserved : free'[i] = free[i]
    <3>1. Filled \cup Reserved \subseteq Slots
      BY <1>0, EntriesOfRing
    <3>2. free' = [free EXCEPT ![old[t]] = c]
      BY <1>5, <2>2, PushEffect
    <3>3. free \in [Slots -> Blocks \cup {Inactive}] /\ old[t] \in Slots
      BY <1>0 DEF TypeOK
    <3> QED
      BY <2>4, <3>1, <3>2, <3>3
  <2> QED
    BY <1>0, <2>3, <2>4, <2>5, LostIs
<1>6. CASE Store(t)
  <2>1. PICK P \in Places : P = <<file[t], idx[t]>>
    BY <1>6, StoreEffect
  <2>2. PICK c : c = free[old[t]]
    OBVIOUS
  <2>3. ~Leaving(file[t], idx[t])
    BY <1>6, NotLeaving DEF Store, Io, Alloc
  <2>4. \A p \in Places, b \in Blocks : Holds(p, b)' <=> Holds(p, b) \/ (p = P /\ b = c)
    BY <1>6, <2>1, <2>2, <2>3, StoreEffect
  <2>5. /\ \A i \in Filled \cup Reserved : i = old[t] \/ i \in Filled' \cup Reserved'
        /\ free' = free
    BY <1>6, StoreEffect
  <2> QED
    BY <1>0, <2>2, <2>4, <2>5, LostIs
<1> QED
  BY <1>2, <1>3, <1>4, <1>5, <1>6, StillSteps

-----------------------------------------------------------------------------
(* All of it.                                                               *)

(* A crash that does not tear an allocation leaves the volume tidy. *)
LEMMA CrashTidy ==
    ASSUME IInv, Orderly, Tidy, Crash, UNCHANGED conduct
    PROVE  Tidy'
<1>0. /\ \A t \in Threads : pc'[t] = "idle" /\ pc[t] \notin Unlink \cup {"store", "count"}
      /\ \A f \in Files : flags'[f] = {} /\ ref'[f] = 0 /\ opens'[f] = 0
      /\ name' = name /\ block' = block /\ n_block' = n_block /\ free' = free
      /\ rp' = rp /\ wp' = wp
  BY DEF Crash, superblock, Orderly
<1>1. CallInv'
  BY <1>0 DEF CallInv, CallOf, Open, Unlink, Io, Alloc, Held, Busy
<1>2. FlagInv'
  BY <1>0 DEF FlagInv
<1>3. ListInv'
  BY <1>0 DEF Tidy, ListInv, ListOf, Freeing, Alloc
<1>4. Reserved' = {} /\ Filled' = Filled /\ Reserved = {} /\ SamePlaces
  <2>1. Window' = Window
    BY <1>0 DEF Window
  <2>2. Reserved' = {} /\ Reserved = {}
    BY <1>0, ReservedBy
  <2>3. Filled' = Filled
    BY <1>0, <2>1 DEF Filled, Empty, Unlink
  <2>4. SamePlaces
    BY <1>0, PlacesStay DEF Unlink
  <2> QED
    BY <2>2, <2>3, <2>4
<1>5. FreeInv'
  BY <1>0, <1>4 DEF Tidy, FreeInv
<1>6. RefExact'
  <2>1. \A f \in Files : Transfers(f)' = {}
    BY <1>0, TransfersAre DEF Counted, Io, Alloc
  <2> QED
    BY <1>0, <2>1, FS_EmptySet, TransfersAre
<1>7. Dense'
  <2>1. ASSUME NEW f \in Files PROVE DenseAt(f)'
    <3>1. Mapped(f) = 0..(n_block[f] - 1)
      BY <1>0, MappedIs DEF Leave, Freeing, Unlink
    <3>2. Counting(f)' = {} /\ Mapped(f)' = Mapped(f)
      BY <1>0 DEF Counting, Mapped
    <3>3. Cardinality({}) = 0 /\ n_block[f] \in Nat
      BY FS_EmptySet DEF IInv, TypeOK
    <3> QED
      BY <1>0, <3>1, <3>2, <3>3 DEF DenseAt
  <2> QED
    BY <2>1, DenseWas
<1>8. NothingLost'
  BY <1>0, <1>4, LostIs DEF SamePlaces, Tidy
<1> QED
  BY <1>1, <1>2, <1>3, <1>5, <1>6, <1>7, <1>8 DEF Tidy

LEMMA InitTidy == Init => Tidy
<1> SUFFICES ASSUME Init PROVE Tidy
  OBVIOUS
<1>0. /\ \A t \in Threads : pc[t] = "idle"
      /\ \A f \in Files : /\ flags[f] = {} /\ ref[f] = 0 /\ opens[f] = 0 /\ n_block[f] = 0
                          /\ \A j \in Indices : block[f][j] = Inactive
      /\ IInv
  BY InitIInv DEF Init
<1>1. CallInv
  BY <1>0 DEF CallInv, CallOf, Open, Unlink, Io, Alloc, Held, Busy
<1>2. FlagInv
  BY <1>0 DEF FlagInv
<1>3. ListInv
  BY <1>0 DEF ListInv, ListOf, Freeing, Alloc
<1>4. Filled = Slots \ {wp} /\ Reserved = {}
  BY <1>0, InitRing, ReservedBy DEF Filled, Empty
<1>5. FreeInv
  <2>1. \A i \in Slots \ {wp} : free[i] \in Blocks
    <3>1. \A i \in Slots \ {wp} : free[i] = IF i < rp THEN i - rp + NumBlocks ELSE i - rp
      BY DEF Init
    <3>2. /\ NumBlocks \in Nat /\ NumBlocks >= 2 /\ rp \in Slots
          /\ wp = IF rp = 0 THEN NumBlocks - 1 ELSE rp - 1
      BY SizesAssumption DEF Init, Slots
    <3> QED
      BY <3>1, <3>2 DEF Slots, Blocks
  <2> QED
    BY <1>0, <1>4, <2>1 DEF FreeInv
<1>6. RefExact
  <2>1. \A f \in Files : {t \in Threads : pc[t] \in Io \ {"ref", "add", "last"} /\ file[t] = f} = {}
    BY <1>0 DEF Io, Alloc
  <2> QED
    BY <1>0, <2>1, FS_EmptySet DEF RefExact
<1>7. Dense
  <2>1. \A f \in Files : Counting(f) = {} /\ Mapped(f) = {}
    BY <1>0 DEF Counting, Mapped
  <2>2. \A f \in Files : DenseAt(f)
    <3>1. Cardinality({}) = 0 /\ 0..(0 + 0 - 1) = {}
      BY FS_EmptySet
    <3> QED
      BY <1>0, <2>1, <3>1 DEF DenseAt
  <2> QED
    BY <2>2, DenseIs
<1>8. NothingLost
  BY <1>4, InitRing, LostIs
<1> QED
  BY <1>1, <1>2, <1>3, <1>5, <1>6, <1>7, <1>8 DEF Tidy

LEMMA TidyStep ==
    ASSUME NoPrefixes, FewThreads, IInv, Orderly, Tidy, [Next]_vars
    PROVE  Tidy'
<1>0. TypeOK'
  BY TypeStep
<1>1. ASSUME NEW t \in Threads, Step(t) \/ Caller(t) PROVE Tidy'
  BY <1>0, <1>1, CallStep, FlagStep, ListStep, FreeStep, RefStep, DenseStep, LostStep DEF Tidy
<1>2. CASE Crash /\ UNCHANGED conduct
  BY <1>2, CrashTidy
<1>3. CASE UNCHANGED vars
  <2> USE <1>3 DEF vars, superblock, locks, args
  <2>1. CallInv' /\ FlagInv'
    BY DEF Tidy, CallInv, CallOf, Named, FlagInv
  <2>2. ListInv'
    BY DEF Tidy, ListInv, ListOf, Mapped
  <2>3. Still
    BY DEF Still
  <2>4. FreeInv'
    BY <2>3, StillSame DEF Tidy, FreeInv, Still, Movers
  <2>5. RefExact' /\ Dense'
    BY DEF Tidy, RefExact, Dense, Orderly
  <2>6. NothingLost'
    BY <2>3, StillSame, LostIs DEF SamePlaces, Tidy
  <2> QED
    BY <2>1, <2>2, <2>4, <2>5, <2>6 DEF Tidy
<1> QED
  BY <1>1, <1>2, <1>3 DEF Next

(* The second invariant. *)
THEOREM OrderlyInvariance ==
    ASSUME NoPrefixes, FewThreads
    PROVE  Spec => [](IInv /\ OrderlyInv)
<1>1. Init => IInv /\ OrderlyInv
  BY InitIInv, InitTidy DEF OrderlyInv
<1>2. IInv /\ IInv' /\ OrderlyInv /\ [Next]_vars => OrderlyInv'
  <2> SUFFICES ASSUME IInv, OrderlyInv, [Next]_vars, Orderly' PROVE Tidy'
    BY DEF OrderlyInv
  <2>1. Orderly
    BY DEF Orderly, Next, vars
  <2> QED
    BY <2>1, TidyStep DEF OrderlyInv
<1> QED
  BY <1>1, <1>2, Invariance, PTL DEF Spec

(* What the invariants say together of transfers. *)
LEMMA InFlight ==
    ASSUME IInv, OrderlyInv
    PROVE  InFlightOwned /\ OrderlyLbaMapped /\ WrittenVisible
<1> SUFFICES ASSUME Orderly, NEW t \in Threads, pc[t] \in {"lba", "io"}
             PROVE  /\ pc[t] = "io" =>
                          block[file[t]][idx[t]] = at[t] /\ ~Leaving(file[t], idx[t])
                    /\ pc[t] = "lba" => block[file[t]][idx[t]] # Inactive
                    /\ n_block[file[t]] > idx[t]
  BY DEF InFlightOwned, OrderlyLbaMapped, LbaMapped, WrittenVisible
<1>1. Tidy /\ ListOf(t) /\ file[t] \in Files /\ n_block[file[t]] \in Nat /\ idx[t] \in Indices
  BY DEF OrderlyInv, Tidy, ListInv, IInv, TypeOK, ArgInv, Io
<1>2. idx[t] < n_block[file[t]] /\ (pc[t] = "io" => at[t] = block[file[t]][idx[t]])
  BY <1>1 DEF ListOf
<1>3. ~Leave(file[t]) /\ ~Leaving(file[t], idx[t])
  BY <1>1, NotLeaving DEF Io
<1>4. block[file[t]][idx[t]] # Inactive
  <2>1. Mapped(file[t]) = 0..(n_block[file[t]] - 1) \/ Mapped(file[t]) = 0..n_block[file[t]]
    BY <1>1, <1>3, MappedIs
  <2>2. idx[t] \in Mapped(file[t])
    BY <1>1, <1>2, <2>1 DEF Indices
  <2> QED
    BY <2>2 DEF Mapped
<1> QED
  BY <1>1, <1>2, <1>3, <1>4 DEF Indices

(* In an orderly program, crashes included: reference counts are the        *)
(* numbers of transfers, files have no holes and n_block is their length,   *)
(* the block of a transfer in flight stays the file's, and no block is lost *)
(* (myfs_increment_ref and decrement_ref, myfs_get_lba, myfs_unlink).       *)
THEOREM InvHolds ==
    ASSUME NoPrefixes, FewThreads
    PROVE  Spec => []Inv
<1>1. IInv /\ OrderlyInv => Inv
  BY InFlight DEF Inv, IInv, OrderlyInv, Tidy, RefExact, Dense, NothingLost
<1> QED
  BY <1>1, OrderlyInvariance, PTL

(* In an orderly program the assertion of myfs.c:206 does not fail. *)
THEOREM OrderlyLbaMappedHolds ==
    ASSUME NoPrefixes, FewThreads
    PROVE  Spec => []OrderlyLbaMapped
<1>1. IInv /\ OrderlyInv => OrderlyLbaMapped
  BY InFlight
<1> QED
  BY <1>1, OrderlyInvariance, PTL

(* In an orderly program a file reaches past what is being written to it    *)
(* (myfs_get_lba counts the block before the transfer starts).              *)
THEOREM WrittenVisibleHolds ==
    ASSUME NoPrefixes, FewThreads
    PROVE  Spec => []WrittenVisible
<1>1. IInv /\ OrderlyInv => WrittenVisible
  BY InFlight
<1> QED
  BY <1>1, OrderlyInvariance, PTL

=============================================================================
