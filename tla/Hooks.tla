------------------------------- MODULE Hooks --------------------------------
(***************************************************************************)
(* hook_openat and the cases close, read, write, pread64, pwrite64 and     *)
(* unlink of hook_function (src/newlib/hook.c), for ULTs that share        *)
(* descriptors.  Two tables describe a descriptor: the kernel's, and       *)
(* hookfds with cur_pos.  A hooked file's data goes through read_impl and  *)
(* write_impl (IoPath) or, built with USE_IO_URING, through IoUring.       *)
(*                                                                         *)
(* A transfer is of one or two units: of myfs a block, of io_uring the     *)
(* unit of __io_uring_read and __io_uring_write.  The kernel's own files   *)
(* and positions are external, and so is where io_uring transfers lie.     *)
(*                                                                         *)
(* The programs open with O_CREAT, so that openat succeeds, use what they  *)
(* opened, and close it when no call is using it.  They read and write     *)
(* through the descriptor's position, or with pread64 and pwrite64 at the  *)
(* start of the file.                                                      *)
(***************************************************************************)
EXTENDS IoUring

CONSTANTS Fds, Names,
          HookedList,   \* the names in HOOKED_FILENAMES, in order
          Extensions,   \* per name: the names it is a prefix of, itself included
          MaxCalls,     \* bound: calls in a run
          NoFile

ASSUME NamesAssumption == /\ NoFile \notin Names
                          /\ HookedList # <<>>
                          /\ Fds \subseteq Nat
                          /\ MaxCalls \in Nat

NOT_USED_FD == -1

VARIABLES
    USE_IO_URING,               \* how the library was built
    kfile, knames,              \* kernel: descriptors, names
    hookfds, cur_pos,
    mnames, blocks,             \* myfs: its names, the blocks each file has
    opened,                     \* descriptors the program has
    ended,                      \* history: where a descriptor's last read or write ended
    whole,                      \* history: all its reads and writes were whole and apart
    pc, arg,                    \* per thread: where it is, and its locals
    calls

kernel == <<kfile, knames>>
tables == <<hookfds, cur_pos, mnames, blocks>>
past == <<ended, whole>>
vars == <<USE_IO_URING, kernel, tables, opened, past, pc, arg, calls, ringVars>>

(* parse_hooked_filenames ends each name where the next colon is counted    *)
(* from the start of the list, not of the name: of a list, the first and    *)
(* the last name are taken as they are, the others with what follows them,  *)
(* and those are no prefix of a file's name.                                *)
hooked_filenames == {HookedList[i] : i \in {1, Len(HookedList)}}
is_hooked_filename(n) == \E h \in hooked_filenames : n \in Extensions[h]

(* A call's arguments and locals: what is not among them has no value.      *)
NoArg == [name |-> NoFile, fd |-> 0, hookfd |-> NOT_USED_FD, write |-> FALSE,
          seq |-> FALSE, pos |-> 0, count |-> 0, len |-> 0, left |-> 0]

Init ==
    /\ USE_IO_URING \in BOOLEAN
    /\ kfile = [f \in Fds |-> NoFile]
    /\ knames = {} /\ mnames = {}
    /\ hookfds = [f \in Fds |-> NOT_USED_FD]
    /\ cur_pos = [f \in Fds |-> 0]
    /\ blocks = [n \in Names |-> {}]
    /\ opened = {}
    /\ ended = [f \in Fds |-> 0]
    /\ whole = [f \in Fds |-> TRUE]
    /\ pc = [t \in Threads |-> "idle"]
    /\ arg = [t \in Threads |-> NoArg]
    /\ calls = 0
    /\ RingInit

(* To another place, with other arguments and locals; or out of the call.   *)
to(t, l, a) == pc' = [pc EXCEPT ![t] = l] /\ arg' = [arg EXCEPT ![t] = a]
goto(t, l) == to(t, l, arg[t])
leave(t) == to(t, "idle", NoArg)

begin(t, l, a) ==
    /\ pc[t] = "idle"
    /\ calls < MaxCalls
    /\ calls' = calls + 1
    /\ to(t, l, a)
    /\ UNCHANGED <<kernel, tables, ringVars>>

-----------------------------------------------------------------------------
(* openat and unlink.                                                       *)

(* Bound: a name is not opened while it is being unlinked. *)
OwnName(n) == \A t \in Threads : arg[t].name # n

CallOpen(t, n) ==
    /\ begin(t, "open", [NoArg EXCEPT !.name = n])
    /\ OwnName(n)
    /\ UNCHANGED <<opened, past>>

Lowest(S) == CHOOSE f \in S : \A g \in S : f <= g

(* The program gets its descriptor. *)
opens(t, f) ==
    /\ opened' = opened \cup {f}
    /\ ended' = [ended EXCEPT ![f] = 0]
    /\ whole' = [whole EXCEPT ![f] = TRUE]
    /\ leave(t)

(* next_sys_call, for the lowest descriptor that is free. *)
OpenKernel(t) ==
    /\ pc[t] = "open"
    /\ \E f \in Fds : kfile[f] = NoFile
    /\ LET f == Lowest({g \in Fds : kfile[g] = NoFile})
           n == arg[t].name
       IN  /\ kfile' = [kfile EXCEPT ![f] = n]
           /\ knames' = knames \cup {n}
           /\ IF is_hooked_filename(n)
                THEN /\ to(t, "install", [arg[t] EXCEPT !.fd = f])
                     /\ UNCHANGED <<opened, past>>
                ELSE opens(t, f)
    /\ UNCHANGED <<tables, calls, ringVars>>

handle(n) == IF USE_IO_URING THEN 1 ELSE n

install(t, pos) ==
    /\ pc[t] = "install"
    /\ hookfds' = [hookfds EXCEPT ![arg[t].fd] = handle(arg[t].name)]
    /\ mnames' = IF USE_IO_URING THEN mnames ELSE mnames \cup {arg[t].name}
    /\ cur_pos' = [cur_pos EXCEPT ![arg[t].fd] = pos]
    /\ opens(t, arg[t].fd)
    /\ UNCHANGED <<kernel, blocks, calls, ringVars>>

(* Mutant of Install: the position is left as the last file left it. *)
InstallOnly(t) == install(t, cur_pos[arg[t].fd])

Install(t) == install(t, 0)

CallUnlink(t, n) ==
    /\ begin(t, "unlink", [NoArg EXCEPT !.name = n])
    /\ n \in knames /\ OwnName(n)
    /\ \A f \in Fds : kfile[f] # n
    /\ UNCHANGED <<opened, past>>

(* Its blocks are given back (what gaps leave behind is Myfs's subject). *)
UnlinkMyfs(t) ==
    /\ pc[t] = "unlink"
    /\ blocks' = [blocks EXCEPT ![arg[t].name] = {}]
    /\ mnames' = mnames \ {arg[t].name}
    /\ goto(t, "kunlink")
    /\ UNCHANGED <<kernel, hookfds, cur_pos, opened, past, calls, ringVars>>

UnlinkKernel(t) ==
    /\ pc[t] = "kunlink"
    /\ knames' = knames \ {arg[t].name}
    /\ leave(t)
    /\ UNCHANGED <<kfile, tables, opened, past, calls, ringVars>>

-----------------------------------------------------------------------------
(* close: first the entry, then the descriptor, which the kernel may give   *)
(* to another thread at once.                                               *)

InUse(f) == \E t \in Threads : pc[t] \in {"test", "move"} /\ arg[t].fd = f

(* Mutant of CloseOrder: first the descriptor. *)
CloseSwapped == <<"kclose", "clear", "idle">>

CloseOrder == <<"clear", "kclose", "idle">>

after(l) == CloseOrder[1 + CHOOSE i \in 1..2 : CloseOrder[i] = l]

CallClose(t, f) ==
    /\ begin(t, CloseOrder[1], [NoArg EXCEPT !.fd = f])
    /\ f \in opened /\ ~InUse(f)
    /\ opened' = opened \ {f}
    /\ UNCHANGED past

CloseClear(t) ==
    /\ pc[t] = "clear"
    /\ hookfds' = [hookfds EXCEPT ![arg[t].fd] = NOT_USED_FD]
    /\ goto(t, after("clear"))
    /\ UNCHANGED <<kernel, cur_pos, mnames, blocks, opened, past, calls, ringVars>>

CloseKernel(t) ==
    /\ pc[t] = "kclose"
    /\ kfile' = [kfile EXCEPT ![arg[t].fd] = NoFile]
    /\ goto(t, after("kclose"))
    /\ UNCHANGED <<knames, tables, opened, past, calls, ringVars>>

-----------------------------------------------------------------------------
(* read and write (s is TRUE), pread64 and pwrite64 (s is FALSE).           *)

CallIo(t, f, w, s, c) ==
    /\ begin(t, "test", [NoArg EXCEPT !.fd = f, !.write = w, !.seq = s, !.count = c])
    /\ f \in opened
    /\ UNCHANGED <<opened, past>>

(* Not a hooked file: the kernel does it all. *)
Plain(t) ==
    /\ pc[t] = "test"
    /\ hookfds[arg[t].fd] = NOT_USED_FD
    /\ leave(t)
    /\ UNCHANGED <<kernel, tables, opened, past, calls, ringVars>>

(* myfs_get_size, in blocks: n_block counts the blocks that were allocated. *)
size(n) == Cardinality(blocks[n])

(* read_impl cuts what it is asked for at the end of the file. *)
cut(n, pos, c) == IF pos + c <= size(n) THEN c ELSE IF pos < size(n) THEN size(n) - pos ELSE 0

(* A call that uses the descriptor's position is under way. *)
Moving(f) == \E t \in Threads : pc[t] = "move" /\ arg[t].seq /\ arg[t].fd = f

(* The position, as read_impl or write_impl is given it, and the length; or *)
(* the units of __io_uring_read and __io_uring_write, which are alike.      *)
Hooked(t) ==
    /\ pc[t] = "test"
    /\ hookfds[arg[t].fd] # NOT_USED_FD
    /\ LET f == arg[t].fd
           h == hookfds[f]
           c == arg[t].count
           pos == IF arg[t].seq THEN cur_pos[f] ELSE 0
           len == IF arg[t].write THEN c ELSE cut(h, pos, c)
       IN  IF USE_IO_URING
             THEN /\ to(t, "move", [NoArg EXCEPT !.fd = f, !.hookfd = h, !.left = c])
                  /\ UNCHANGED whole
             ELSE /\ to(t, "move", [arg[t] EXCEPT !.hookfd = h, !.pos = pos,
                                                  !.len = len, !.left = len])
                  /\ whole' = [whole EXCEPT ![f] = @ /\ (arg[t].seq => len = c /\ ~Moving(f))]
    /\ UNCHANGED <<kernel, tables, opened, ended, calls, ringVars>>

(* The next block of read_impl or write_impl, which yields after it. *)
Next1(t) == arg[t].pos + arg[t].len - arg[t].left
oneLess(t) == to(t, "move", [arg[t] EXCEPT !.left = @ - 1])

(* myfs_get_lba: a write allocates the block if it is not there, a read goes *)
(* past the assertion, or the process ends.                                  *)
Transfer(t) ==
    /\ ~USE_IO_URING /\ pc[t] = "move" /\ arg[t].left > 0
    /\ LET n == arg[t].hookfd IN
           IF arg[t].write THEN blocks' = [blocks EXCEPT ![n] = @ \cup {Next1(t)}]
                           ELSE Next1(t) \in blocks[n] /\ UNCHANGED blocks
    /\ oneLess(t)
    /\ UNCHANGED <<kernel, hookfds, cur_pos, mnames, opened, past, calls, ringVars>>

(* cur_pos[fd] += count, whatever was transferred. *)
Advance(t) ==
    /\ ~USE_IO_URING /\ pc[t] = "move" /\ arg[t].left = 0
    /\ LET f == arg[t].fd IN
           IF arg[t].seq THEN /\ cur_pos' = [cur_pos EXCEPT ![f] = @ + arg[t].count]
                              /\ ended' = [ended EXCEPT ![f] = arg[t].pos + arg[t].len]
                         ELSE UNCHANGED <<cur_pos, ended>>
    /\ leave(t)
    /\ UNCHANGED <<kernel, hookfds, mnames, blocks, opened, whole, calls, ringVars>>

(* __io_uring_read or __io_uring_write, unit by unit. *)
Unit(t) ==
    /\ USE_IO_URING /\ pc[t] = "move" /\ arg[t].left > 0
    /\ Prepare(t)
    /\ oneLess(t)
    /\ UNCHANGED <<kernel, tables, opened, past, calls>>

(* All units are in. *)
Units(t) ==
    /\ USE_IO_URING /\ pc[t] = "move" /\ arg[t].left = 0 /\ at[t] = "out"
    /\ leave(t)
    /\ UNCHANGED <<kernel, tables, opened, past, calls, ringVars>>

-----------------------------------------------------------------------------
notRing == <<kernel, tables, opened, past, pc, arg, calls>>

Step(t) ==
    \/ OpenKernel(t) \/ Install(t) \/ UnlinkMyfs(t) \/ UnlinkKernel(t)
    \/ CloseClear(t) \/ CloseKernel(t)
    \/ Plain(t) \/ Hooked(t) \/ Transfer(t) \/ Advance(t) \/ Unit(t) \/ Units(t)
    \/ RingStep(t) /\ UNCHANGED notRing

Caller(t) ==
    \/ \E n \in Names : CallOpen(t, n) \/ CallUnlink(t, n)
    \/ \E f \in Fds : CallClose(t, f) \/ \E w, s \in BOOLEAN, c \in 1..2 : CallIo(t, f, w, s, c)

Next ==
    /\ \/ \E t \in Threads : Step(t) \/ Caller(t)
       \/ Kernel /\ UNCHANGED notRing
    /\ UNCHANGED USE_IO_URING

Spec == Init /\ [][Next]_vars

(* A ULT that can run does so again and again: it yields in every loop, and *)
(* its pool is first in, first out.  The kernel completes what it was given.*)
Fairness ==
    /\ \A t \in Threads : WF_vars(Step(t) /\ UNCHANGED USE_IO_URING)
    /\ WF_vars(Kernel /\ UNCHANGED <<USE_IO_URING, notRing>>)

FairSpec == Spec /\ Fairness

-----------------------------------------------------------------------------
(* Type invariant. *)
TypeOK ==
    /\ kfile \in [Fds -> Names \cup {NoFile}]
    /\ blocks \in [Names -> SUBSET Nat]
    /\ knames \subseteq Names /\ mnames \subseteq Names
    /\ hookfds \in [Fds -> {handle(n) : n \in Names} \cup {NOT_USED_FD}]
    /\ cur_pos \in [Fds -> Nat]
    /\ opened \subseteq Fds /\ ended \in [Fds -> Nat] /\ whole \in [Fds -> BOOLEAN]
    /\ at \in [Threads -> {"out", "spin", "wait"}]
    /\ \A t \in Threads : arg[t].left <= 2 /\ mine[t].nr <= issued
    /\ \A c \in ToSet(cq) : c.nr < issued
    /\ pending_req \in 0..TH1 /\ calls \in 0..MaxCalls

(* A call on a descriptor goes to the file the descriptor was opened on:   *)
(* hookfds and the kernel's table agree on every descriptor a program has  *)
(* and on every one it is using, although each is changed without the      *)
(* other (hook.c, openat and close).                                       *)
RightFile ==
    LET right(f) == IF is_hooked_filename(kfile[f]) THEN handle(kfile[f])
                                                    ELSE NOT_USED_FD
    IN  /\ \A f \in opened : hookfds[f] = right(f)
        /\ \A t \in Threads : pc[t] = "move" => arg[t].hookfd = right(arg[t].fd)

(* A descriptor's position is where its last read or write ended, and 0    *)
(* before the first, for as long as every read of it was whole and no two  *)
(* reads or writes were under way at once (hook.c, cur_pos: it is read     *)
(* before the transfer and added to after it, with the lock commented out).*)
PositionExact == \A f \in opened :
    hookfds[f] # NOT_USED_FD /\ ~USE_IO_URING /\ whole[f] => cur_pos[f] = ended[f]

(* A hooked name that nobody is opening or unlinking is in the kernel's    *)
(* directory and in myfs, or in neither: what is deleted for one is not    *)
(* found again by the other (hook.c, openat and unlink).                   *)
NamesAgree == \A n \in Names :
    ~USE_IO_URING /\ is_hooked_filename(n) /\ OwnName(n) => (n \in knames <=> n \in mnames)

(* The type invariant; the two directories and the two counts of pending    *)
(* requests, which are kept apart, agree.                                   *)
Inv == TypeOK /\ NamesAgree /\ PendingExact
=============================================================================
