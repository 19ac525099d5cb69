-------------------------------- MODULE Myfs --------------------------------
(***************************************************************************)
(* The file system of src/newlib/myfs.c and myfs.h: a mapped superblock    *)
(* with the names and block lists of the files and a ring of free blocks,  *)
(* and, in memory, the files' flags and reference counts.  Its callers are *)
(* the ULTs that open, close, read, write and unlink (src/newlib/hook.c).  *)
(*                                                                         *)
(* Reads and writes are of one block: longer ones are sequences of them.   *)
(* What a program does beyond well-behaved use is its conduct, a set of    *)
(* liberties that is chosen at the start and never changes:                *)
(*   "sparse"       write behind the block that follows the last one       *)
(*   "reopen"       open a file that is open                               *)
(*   "busy_unlink"  unlink a file that is open or in use                   *)
(*   "crash"        die, outside of an allocation or an unlink, and mount  *)
(*   "torn"         die in an allocation too                               *)
(*                                                                         *)
(* Three bounds leave out what the code has no test for: Room (the volume  *)
(* never fills), NoLap (the ring is not lapped while a thread has taken an *)
(* entry and not read it yet) and InList (an unlink does not run off the   *)
(* list of a file whose n_block is too high).                              *)
(***************************************************************************)
EXTENDS Integers, FiniteSets

CONSTANTS Threads, Names,
          Extensions,   \* per name: the names it is a prefix of, itself included
          MaxFiles,     \* MYFS_MAX_FILES
          MaxBlocks,    \* MYFS_MAX_BLOCKS_PER_FILE
          NumBlocks,    \* NUM_BLOCKS
          Starts,       \* where in the ring the first free block may be
          MaxCalls,     \* bound: calls in a run, per conduct
          NoName,       \* the name of an unused entry: an empty string
          NoThread,     \* a mutex is free
          Free          \* a block no file has

ASSUME SizesAssumption == /\ MaxFiles \in Nat \ {0} /\ MaxBlocks \in Nat \ {0}
                          /\ NumBlocks \in Nat /\ NumBlocks >= 2
                          /\ \A c \in DOMAIN MaxCalls : MaxCalls[c] \in Nat
                          /\ Starts \subseteq 0..(NumBlocks - 1)
ASSUME NamesAssumption == /\ NoName \notin Names
                          /\ Extensions \in [Names -> SUBSET Names]
                          /\ \A n \in Names : n \in Extensions[n]
ASSUME NoThreadAssumption == NoThread \notin Threads

Files == 0..(MaxFiles - 1)
Indices == 0..(MaxBlocks - 1)
ASSUME FreeAssumption == Free \notin Files \X Indices
Slots == 0..(NumBlocks - 1)
Blocks == 0..(NumBlocks - 2)
Inactive == -1
RefMod == 65536     \* ref_count is a uint16_t

VARIABLES
    name, block, n_block,       \* superblock: the entries, file[]
    free, rp, wp,               \* superblock: the ring free_blocks[]
    flags, ref,                 \* myfs_file_states[]
    mutex, fmutex,              \* owners of myfs_mutex, myfs_file_mutex[]
    pc,
    want, kind, file, idx,      \* per thread: arguments and loop index
    todo,                       \* per thread: entries to try to unlink
    old,                        \* per thread: old_val of the rings
    at,                         \* per thread: the block myfs_get_lba returned
    opens,                      \* per entry: descriptors the program has on it
    calls,                      \* calls so far
    conduct                     \* the liberties the program takes

superblock == <<name, block, n_block, free, rp, wp>>
locks == <<mutex, fmutex>>
args == <<want, kind, file>>
vars == <<superblock, flags, ref, locks, pc, args, idx, todo, old, at, opens, calls,
          conduct>>

Succ(i) == IF i + 1 = NumBlocks THEN 0 ELSE i + 1

(* A volume without files.  myfs_superblock_init leaves rp at 0; on a       *)
(* volume whose files have all been unlinked it is anywhere.                *)
Init ==
    /\ name = [f \in Files |-> NoName]
    /\ block = [f \in Files |-> [j \in Indices |-> Inactive]]
    /\ n_block = [f \in Files |-> 0]
    /\ rp \in Starts
    /\ wp = IF rp = 0 THEN NumBlocks - 1 ELSE rp - 1
    /\ free = [i \in Slots |-> IF i = wp THEN 0 ELSE
                                IF i < rp THEN i - rp + NumBlocks ELSE i - rp]
    /\ flags = [f \in Files |-> {}]
    /\ ref = [f \in Files |-> 0]
    /\ mutex = NoThread
    /\ fmutex = [f \in Files |-> NoThread]
    /\ pc = [t \in Threads |-> "idle"]
    /\ want = [t \in Threads |-> NoName]
    /\ kind = [t \in Threads |-> "read"]
    /\ file = [t \in Threads |-> 0]
    /\ idx = [t \in Threads |-> 0]
    /\ todo = [t \in Threads |-> {}]
    /\ old = [t \in Threads |-> 0]
    /\ at = [t \in Threads |-> Inactive]
    /\ opens = [f \in Files |-> 0]
    /\ calls = 0
    /\ conduct \in DOMAIN MaxCalls

goto(t, l) == pc' = [pc EXCEPT ![t] = l]

-----------------------------------------------------------------------------
(* What the callers do.                                                     *)

Open == {"open", "create"}
Unlink == {"scan", "mark", "busy", "loop", "push", "clear"}
Alloc == {"pop", "store", "count"}
Io == {"ref", "add", "size", "alloc", "lba", "io", "deref", "last"} \cup Alloc

Named(n) == {f \in Files : name[f] = n}
Opening(n) == \E t \in Threads : pc[t] \in Open /\ want[t] = n
Unlinking(n) == \E t \in Threads : pc[t] \in Unlink /\ want[t] = n
Using(f) == \E t \in Threads : pc[t] \in Io /\ file[t] = f

begin(t, l) ==
    /\ pc[t] = "idle"
    /\ calls < MaxCalls[conduct]
    /\ calls' = calls + 1
    /\ goto(t, l)

CallOpen(t, n) ==
    /\ begin(t, "open")
    /\ "busy_unlink" \in conduct \/ ~Unlinking(n)
    /\ "reopen" \in conduct \/ (~Opening(n) /\ \A f \in Named(n) : opens[f] = 0)
    /\ want' = [want EXCEPT ![t] = n]
    /\ UNCHANGED <<superblock, flags, ref, locks, kind, file, idx, todo, old, at, opens>>

CallUnlink(t, n) ==
    /\ begin(t, "scan")
    /\ ~Unlinking(n)
    /\ "busy_unlink" \in conduct \/ (~Opening(n) /\ \A f \in Named(n) : opens[f] = 0)
    /\ want' = [want EXCEPT ![t] = n]
    /\ UNCHANGED <<superblock, flags, ref, locks, kind, file, idx, todo, old, at, opens>>

CallIo(t, k, f, i) ==
    /\ begin(t, "ref")
    /\ opens[f] > 0
    /\ k = "write" => i <= n_block[f] \/ "sparse" \in conduct
    /\ kind' = [kind EXCEPT ![t] = k]
    /\ file' = [file EXCEPT ![t] = f]
    /\ idx' = [idx EXCEPT ![t] = i]
    /\ UNCHANGED <<superblock, flags, ref, locks, want, todo, old, at, opens>>

(* myfs_close toggles the flag, one instruction, without the mutex. *)
Close(t, f) ==
    /\ begin(t, "idle")
    /\ opens[f] > 0
    /\ ~Using(f)
    /\ flags' = [flags EXCEPT ![f] = IF "opened" \in @ THEN @ \ {"opened"}
                                                       ELSE @ \cup {"opened"}]
    /\ opens' = [opens EXCEPT ![f] = @ - 1]
    /\ UNCHANGED <<superblock, ref, locks, args, idx, todo, old, at>>

-----------------------------------------------------------------------------
(* myfs_open.                                                               *)

Lowest(S) == CHOOSE f \in S : \A g \in S : f <= g

(* The entries strncmp takes for n: n is a prefix of their names. *)
Matches(n) == {f \in Files : name[f] \in Extensions[n]}

OpenFound(t) ==
    /\ pc[t] = "open"
    /\ mutex = NoThread
    /\ Matches(want[t]) # {}
    /\ LET f == Lowest(Matches(want[t])) IN
           /\ flags' = [flags EXCEPT ![f] = {"opened"}]
           /\ opens' = [opens EXCEPT ![f] = @ + 1]
    /\ goto(t, "idle")
    /\ UNCHANGED <<superblock, ref, locks, args, idx, todo, old, at, calls>>

(* There is no test for a table that is full: the instances have an entry   *)
(* for every name.                                                          *)
OpenNew(t) ==
    /\ pc[t] = "open"
    /\ mutex = NoThread
    /\ Matches(want[t]) = {}
    /\ Named(NoName) # {}
    /\ LET f == Lowest(Named(NoName)) IN
           /\ name' = [name EXCEPT ![f] = want[t]]
           /\ file' = [file EXCEPT ![t] = f]
    /\ mutex' = t
    /\ goto(t, "create")
    /\ UNCHANGED <<block, n_block, free, rp, wp, flags, ref, fmutex,
                   want, kind, idx, todo, old, at, opens, calls>>

OpenCreate(t) ==
    /\ pc[t] = "create"
    /\ n_block' = [n_block EXCEPT ![file[t]] = 0]
    /\ flags' = [flags EXCEPT ![file[t]] = {"opened"}]
    /\ opens' = [opens EXCEPT ![file[t]] = @ + 1]
    /\ mutex' = NoThread
    /\ goto(t, "idle")
    /\ UNCHANGED <<name, block, free, rp, wp, ref, fmutex, args, idx, todo,
                   old, at, calls>>

-----------------------------------------------------------------------------
(* myfs_unlink and, when want is NoName, myfs_unlink_fd.                    *)

(* To the next entry, or out of the call. *)
nextEntry(t, rest) ==
    /\ todo' = [todo EXCEPT ![t] = rest]
    /\ IF rest = {} THEN goto(t, "idle") /\ mutex' = NoThread
                    ELSE goto(t, "mark") /\ mutex' = t

UnlinkScan(t) ==
    /\ pc[t] = "scan"
    /\ mutex = NoThread
    /\ nextEntry(t, IF want[t] = NoName THEN {file[t]} ELSE Matches(want[t]))
    /\ UNCHANGED <<superblock, flags, ref, fmutex, args, idx, old, at, opens, calls>>

UnlinkMark(t) ==
    /\ pc[t] = "mark"
    /\ LET f == Lowest(todo[t]) IN
           /\ flags' = [flags EXCEPT ![f] = @ \cup {"unlinked"}]
           /\ file' = [file EXCEPT ![t] = f]
    /\ idx' = [idx EXCEPT ![t] = 0]
    /\ goto(t, "busy")
    /\ UNCHANGED <<superblock, ref, locks, want, kind, todo, old, at, opens, calls>>

(* The file is in use: decrement_ref is to free it. *)
UnlinkDefer(t) ==
    /\ pc[t] = "busy"
    /\ ref[file[t]] # 0
    /\ nextEntry(t, todo[t] \ {file[t]})
    /\ UNCHANGED <<superblock, flags, ref, fmutex, args, idx, old, at, opens, calls>>

UnlinkNow(t) ==
    /\ pc[t] = "busy"
    /\ ref[file[t]] = 0
    /\ goto(t, "loop")
    /\ UNCHANGED <<superblock, flags, ref, locks, args, idx, todo, old, at, opens, calls>>

(* Bound: n_block was not counted past the end of the list. *)
InList(t) == idx[t] < MaxBlocks

(* Bound: nobody has yet to read the entry that is about to be reused. *)
NoLap == \A u \in Threads : ~(pc[u] = "store" /\ old[u] = wp)

UnlinkTake(t) ==
    /\ pc[t] = "loop"
    /\ idx[t] < n_block[file[t]]
    /\ InList(t) /\ NoLap
    /\ old' = [old EXCEPT ![t] = wp]
    /\ wp' = Succ(wp)
    /\ goto(t, "push")
    /\ UNCHANGED <<name, block, n_block, free, rp, flags, ref, locks, args, idx,
                   todo, at, opens, calls>>

UnlinkPush(t) ==
    /\ pc[t] = "push"
    /\ free' = [free EXCEPT ![old[t]] = block[file[t]][idx[t]]]
    /\ goto(t, "clear")
    /\ UNCHANGED <<name, block, n_block, rp, wp, flags, ref, locks, args, idx,
                   todo, old, at, opens, calls>>

(* Mutant of UnlinkClear: the list of blocks is left as it is. *)
UnlinkKeep(t) ==
    /\ pc[t] = "clear"
    /\ idx' = [idx EXCEPT ![t] = @ + 1]
    /\ goto(t, "loop")
    /\ UNCHANGED <<superblock, flags, ref, locks, args, todo, old, at, opens, calls>>

UnlinkClear(t) ==
    /\ pc[t] = "clear"
    /\ block' = [block EXCEPT ![file[t]][idx[t]] = Inactive]
    /\ idx' = [idx EXCEPT ![t] = @ + 1]
    /\ goto(t, "loop")
    /\ UNCHANGED <<name, n_block, free, rp, wp, flags, ref, locks, args, todo,
                   old, at, opens, calls>>

UnlinkForget(t) ==
    /\ pc[t] = "loop"
    /\ idx[t] >= n_block[file[t]]
    /\ name' = [name EXCEPT ![file[t]] = NoName]
    /\ n_block' = [n_block EXCEPT ![file[t]] = 0]
    /\ ref' = [ref EXCEPT ![file[t]] = 0]
    /\ flags' = [flags EXCEPT ![file[t]] = {}]
    /\ nextEntry(t, todo[t] \ {file[t]})
    /\ UNCHANGED <<block, free, rp, wp, fmutex, args, idx, old, at, opens, calls>>

-----------------------------------------------------------------------------
(* read_impl and write_impl (src/newlib/hook.c), as far as they use the     *)
(* file system, with myfs_increment_ref, myfs_get_size, myfs_get_lba and    *)
(* myfs_decrement_ref.                                                      *)

afterRef(t) == IF kind[t] = "read" THEN "size" ELSE "alloc"

(* The result of increment_ref is not looked at. *)
Ref(t) ==
    /\ pc[t] = "ref"
    /\ goto(t, IF flags[file[t]] = {"opened"} THEN "add" ELSE afterRef(t))
    /\ UNCHANGED <<superblock, flags, ref, locks, args, idx, todo, old, at, opens, calls>>

RefAdd(t) ==
    /\ pc[t] = "add"
    /\ ref' = [ref EXCEPT ![file[t]] = IF @ + 1 = RefMod THEN 0 ELSE @ + 1]
    /\ goto(t, afterRef(t))
    /\ UNCHANGED <<superblock, flags, locks, args, idx, todo, old, at, opens, calls>>

(* Mutant of Size: the last block that is counted may be one too far. *)
SizeOff(t) ==
    /\ pc[t] = "size"
    /\ goto(t, IF idx[t] <= n_block[file[t]] THEN "lba" ELSE "deref")
    /\ UNCHANGED <<superblock, flags, ref, locks, args, idx, todo, old, at, opens, calls>>

(* A read ends where the file ends. *)
Size(t) ==
    /\ pc[t] = "size"
    /\ goto(t, IF idx[t] < n_block[file[t]] THEN "lba" ELSE "deref")
    /\ UNCHANGED <<superblock, flags, ref, locks, args, idx, todo, old, at, opens, calls>>

(* Mutant of AllocTest: the test is made without myfs_file_mutex. *)
AllocUnlocked(t) ==
    /\ pc[t] = "alloc"
    /\ goto(t, IF block[file[t]][idx[t]] = Inactive THEN "pop" ELSE "lba")
    /\ UNCHANGED <<superblock, flags, ref, locks, args, idx, todo, old, at, opens, calls>>

AllocTest(t) ==
    /\ pc[t] = "alloc"
    /\ fmutex[file[t]] = NoThread
    /\ IF block[file[t]][idx[t]] = Inactive
         THEN /\ fmutex' = [fmutex EXCEPT ![file[t]] = t]
              /\ goto(t, "pop")
         ELSE /\ goto(t, "lba")
              /\ UNCHANGED fmutex
    /\ UNCHANGED <<superblock, flags, ref, mutex, args, idx, todo, old, at, opens, calls>>

(* Bound: there are free blocks, besides one whose number may not be in the *)
(* ring yet.                                                                *)
Room == rp # wp /\ Succ(rp) # wp

Pop(t) ==
    /\ pc[t] = "pop"
    /\ Room
    /\ old' = [old EXCEPT ![t] = rp]
    /\ rp' = Succ(rp)
    /\ goto(t, "store")
    /\ UNCHANGED <<name, block, n_block, free, wp, flags, ref, locks, args, idx,
                   todo, at, opens, calls>>

(* Mutant of Store: the entry rp is at when the block is stored. *)
StoreAtRp(t) ==
    /\ pc[t] = "store"
    /\ block' = [block EXCEPT ![file[t]][idx[t]] = free[rp]]
    /\ goto(t, "count")
    /\ UNCHANGED <<name, n_block, free, rp, wp, flags, ref, locks, args, idx,
                   todo, old, at, opens, calls>>

Store(t) ==
    /\ pc[t] = "store"
    /\ block' = [block EXCEPT ![file[t]][idx[t]] = free[old[t]]]
    /\ goto(t, "count")
    /\ UNCHANGED <<name, n_block, free, rp, wp, flags, ref, locks, args, idx,
                   todo, old, at, opens, calls>>

(* Mutant of Count: the block is not counted. *)
CountNot(t) ==
    /\ pc[t] = "count"
    /\ fmutex' = [fmutex EXCEPT ![file[t]] = NoThread]
    /\ goto(t, "lba")
    /\ UNCHANGED <<superblock, flags, ref, mutex, args, idx, todo, old, at, opens, calls>>

Count(t) ==
    /\ pc[t] = "count"
    /\ n_block' = [n_block EXCEPT ![file[t]] = @ + 1]
    /\ fmutex' = [fmutex EXCEPT ![file[t]] = NoThread]
    /\ goto(t, "lba")
    /\ UNCHANGED <<name, block, free, rp, wp, flags, ref, mutex, args, idx, todo,
                   old, at, opens, calls>>

(* Past the assertion; the transfer is on its way. *)
Lba(t) ==
    /\ pc[t] = "lba"
    /\ block[file[t]][idx[t]] # Inactive
    /\ at' = [at EXCEPT ![t] = block[file[t]][idx[t]]]
    /\ goto(t, "io")
    /\ UNCHANGED <<superblock, flags, ref, locks, args, idx, todo, old, opens, calls>>

(* The transfer is over, or there was nothing to transfer. *)
Deref(t) ==
    /\ pc[t] \in {"io", "deref"}
    /\ ref' = [ref EXCEPT ![file[t]] = IF @ = 0 THEN RefMod - 1 ELSE @ - 1]
    /\ goto(t, IF ref[file[t]] = 0 THEN "last" ELSE "idle")
    /\ UNCHANGED <<superblock, flags, locks, args, idx, todo, old, at, opens, calls>>

DerefLast(t) ==
    /\ pc[t] = "last"
    /\ want' = [want EXCEPT ![t] = NoName]
    /\ goto(t, IF "unlinked" \in flags[file[t]] THEN "scan" ELSE "idle")
    /\ UNCHANGED <<superblock, flags, ref, locks, kind, file, idx, todo, old, at,
                   opens, calls>>

-----------------------------------------------------------------------------
(* The process dies; the next one maps the superblock and mounts.           *)
Crash ==
    /\ "crash" \in conduct
    /\ \A t \in Threads : pc[t] \notin Unlink
    /\ "torn" \in conduct \/ \A t \in Threads : pc[t] \notin {"store", "count"}
    /\ calls < MaxCalls[conduct]
    /\ calls' = calls + 1
    /\ flags' = [f \in Files |-> {}]
    /\ ref' = [f \in Files |-> 0]
    /\ mutex' = NoThread
    /\ fmutex' = [f \in Files |-> NoThread]
    /\ pc' = [t \in Threads |-> "idle"]
    /\ opens' = [f \in Files |-> 0]
    /\ UNCHANGED <<superblock, args, idx, todo, old, at>>

Step(t) ==
    \/ OpenFound(t) \/ OpenNew(t) \/ OpenCreate(t)
    \/ UnlinkScan(t) \/ UnlinkMark(t) \/ UnlinkDefer(t) \/ UnlinkNow(t)
    \/ UnlinkTake(t) \/ UnlinkPush(t) \/ UnlinkClear(t) \/ UnlinkForget(t)
    \/ Ref(t) \/ RefAdd(t) \/ Size(t)
    \/ AllocTest(t) \/ Pop(t) \/ Store(t) \/ Count(t)
    \/ Lba(t) \/ Deref(t) \/ DerefLast(t)

Caller(t) ==
    \/ \E n \in Names : CallOpen(t, n) \/ CallUnlink(t, n)
    \/ \E k \in {"read", "write"}, f \in Files, i \in Indices : CallIo(t, k, f, i)
    \/ \E f \in Files : Close(t, f)

Next ==
    /\ (\E t \in Threads : Step(t) \/ Caller(t)) \/ Crash
    /\ UNCHANGED conduct

Spec == Init /\ [][Next]_vars

-----------------------------------------------------------------------------
(* Type invariant. *)
TypeOK ==
    /\ name \in [Files -> Names \cup {NoName}]
    /\ block \in [Files -> [Indices -> Blocks \cup {Inactive}]]
    /\ n_block \in [Files -> Nat]
    /\ free \in [Slots -> Blocks \cup {Inactive}]
    /\ rp \in Slots /\ wp \in Slots
    /\ flags \in [Files -> SUBSET {"opened", "unlinked"}]
    /\ ref \in [Files -> 0..(RefMod - 1)]
    /\ mutex \in Threads \cup {NoThread}
    /\ fmutex \in [Files -> Threads \cup {NoThread}]
    /\ pc \in [Threads -> {"idle"} \cup Open \cup Unlink \cup Io]
    /\ want \in [Threads -> Names \cup {NoName}]
    /\ kind \in [Threads -> {"read", "write"}]
    /\ file \in [Threads -> Files]
    /\ idx \in [Threads -> Nat]
    /\ todo \in [Threads -> SUBSET Files]
    /\ old \in [Threads -> Slots]
    /\ at \in [Threads -> Blocks \cup {Inactive}]
    /\ opens \in [Files -> Nat]
    /\ calls \in 0..MaxCalls[conduct]

(* A program that unlinks no file it still has open, opens none twice and   *)
(* leaves no holes.  It may die, but not in an allocation.                  *)
Orderly == conduct \subseteq {"crash"}

(* Where a block is: in a file, in the ring, or on its way from the ring.   *)
(* A block that unlink has put into the ring counts as free although the    *)
(* file's list still shows it for one more step.                            *)
Places == Files \X Indices
Leaving(f, j) == \E t \in Threads : pc[t] = "clear" /\ file[t] = f /\ idx[t] = j
Holds(p, b) == block[p[1]][p[2]] = b /\ ~Leaving(p[1], p[2])
Window == IF rp <= wp THEN rp..(wp - 1) ELSE (rp..(NumBlocks - 1)) \cup (0..(wp - 1))
Empty(i) == \E t \in Threads : pc[t] = "push" /\ old[t] = i
Reserved == {old[t] : t \in {u \in Threads : pc[u] = "store"}}
Filled == {i \in Window : ~Empty(i)}

(* No block is in two files, twice in one, or in a file and free; and the  *)
(* ring holds none twice (myfs.c: the two compare-and-swap loops with the  *)
(* unlocked accesses that follow them).                                    *)
OneOwner == \A b \in Blocks :
    /\ \A p, q \in Places : Holds(p, b) /\ Holds(q, b) => p = q
    /\ \A i, j \in Filled \cup Reserved : free[i] = b /\ free[j] = b => i = j
    /\ (\E p \in Places : Holds(p, b)) => \A i \in Filled \cup Reserved : free[i] # b

(* No block gets lost between the ring and the files. *)
NothingLost == Orderly => \A b \in Blocks :
    \/ \E p \in Places : Holds(p, b)
    \/ \E i \in Filled \cup Reserved : free[i] = b

(* ref_count is the number of transfers on the file, so that unlink can    *)
(* rely on it.                                                             *)
RefExact == Orderly => \A f \in Files :
    ref[f] = Cardinality({t \in Threads : pc[t] \in Io \ {"ref", "add", "last"}
                                            /\ file[t] = f})

(* The blocks of a file are a prefix of its list, n_block of them: what    *)
(* unlink frees and myfs_get_size reports.                                 *)
Dense == Orderly => \A f \in Files :
    LET counting == {t \in Threads : pc[t] = "count" /\ file[t] = f}
        leaving == \E t \in Threads :
                       pc[t] \in {"loop", "push", "clear"} /\ file[t] = f
    IN  leaving \/ {j \in Indices : block[f][j] # Inactive}
                       = 0..(n_block[f] + Cardinality(counting) - 1)

(* A transfer goes to a block that stays the file's for as long as it      *)
(* takes.                                                                  *)
InFlightOwned == Orderly => \A t \in Threads :
    pc[t] = "io" => block[file[t]][idx[t]] = at[t] /\ ~Leaving(file[t], idx[t])

(* The assertion of myfs.c:206. *)
LbaMapped == \A t \in Threads :
    pc[t] = "lba" => block[file[t]][idx[t]] # Inactive

(* The same, of an orderly program: with no unlink of a file in use no      *)
(* block is taken away between its allocation and the assertion.            *)
OrderlyLbaMapped == Orderly => LbaMapped

(* No two entries have one name: creating a file is atomic with not having *)
(* found it.                                                               *)
NamesDistinct == \A f, g \in Files : name[f] = name[g] /\ name[f] # NoName => f = g

(* What a thread has written it can read: the file reaches past it.        *)
WrittenVisible == Orderly => \A t \in Threads :
    pc[t] \in {"lba", "io"} /\ kind[t] = "write" => n_block[file[t]] > idx[t]

(* The file system implements BlockStore. *)
owner == [b \in Blocks |-> IF \E p \in Places : Holds(p, b)
                             THEN CHOOSE p \in Places : Holds(p, b) ELSE Free]
Abstract == INSTANCE BlockStore
ImplementsBlockStore == Abstract!Spec

(* The type invariant, and the structures of the file system: names differ, *)
(* and in an orderly program counts are exact, files have no holes, and     *)
(* blocks in transfer belong to the file and are not lost.                  *)
Inv == TypeOK /\ NamesDistinct /\ RefExact /\ Dense /\ InFlightOwned /\ NothingLost
=============================================================================
