# pthabt: specifications, model checking and proofs

pthabt is a preloaded library that runs unmodified pthread programs on Argobots
user-level threads (ULTs) and their file I/O on NVMe drives driven from user
space. System calls are rewritten to jump into the library (zpoline), pthread
functions are replaced by Argobots calls, and reads and writes of chosen files
go through a small file system on raw blocks to the library's own NVMe queue
pairs.

This directory holds TLA+ specifications of that code, the TLC configurations
that check them, and TLAPS proofs about them. Line numbers refer to the files
under `src/`; `newlib/` is the current generation of the library, and all
modules but `FirstGen` model it.

## 1. The system

| component | state | operations | shared with |
|---|---|---|---|
| NVMe queue pair, `newlib/nvme.cc` | `sq_tail`, `cq_head`, `cq_phase`, `done_flag[]`, `rbuf[]`, `len[]`, the mutex; rings and bounce pages in DMA memory | `nvme_read_req`, `nvme_write_req`, `nvme_check`; inside: `new_sqe`, `sq_doorbell`, `check_cq`, `done` | all ULTs of a core; the controller |
| I/O path, `read_impl`, `write_impl` in `newlib/hook.c` | locals of the call: `j`, `blksz`, `rid[]`, `rq_k` | cut, issue a batch, poll it | queue pair, myfs |
| myfs, `newlib/myfs.c`, `myfs.h` | the mapped superblock (names, block lists, ring of free blocks), flags and reference counts in memory, mutexes | `myfs_mount`, `myfs_open`, `myfs_close`, `myfs_unlink`, `myfs_get_lba`, the reference counts | all ULTs; survives a crash |
| descriptor table and hooks, `hook_function` in `newlib/hook.c` | `hookfds[]`, `cur_pos[]` | `openat`, `close`, `read`, `write`, `pread64`, `pwrite64`, `fstat`, `unlink`; polling versions of `futex`, `clock_nanosleep`, `select`, `epoll_pwait2` | all ULTs, the kernel |
| io_uring backend, `newlib/hook.c` (`USE_IO_URING`, off) | `done_flag[][]`, `pending_req`, `submit_cnt` | batched submission, polling | ULTs of a core |
| pthread mutex and condition variable, `newlib/mylib.c` | one word in the application's object, one malloc'd wrap | init, destroy, lock, trylock, unlock, wait, timedwait, clockwait, signal, broadcast | all ULTs |
| keys, rwlocks, once, create and join, `newlib/mylib.c` | `abt_keys[]`, `once_control`, `global_my_tid` | the pthread functions | all ULTs |
| free-object queue, `newlib/myfifo.hpp` (off) | `wp`, `rp`, `que[]` | `push`, `pop` | all ULTs |
| trampoline, `newlib/zpoline.c` | the page at address 0, the stack, `%rax` | the sled, `asm_syscall_hook`, `syscall_hook`, instruction rewriting | every system call |
| drives, `newlib/nvme.cc` | `qps[][]`, the admin queue, controller registers | `nvme_init`, `__nvme_init`, `create_qp`, `req_and_wait`; striping and request numbers | controllers |
| start-up, `mylib_init` | what is rewritten, protections, `hook_fn`, `next_sys_call` | `__zpoline_init`, `__hook_init`, `myfs_mount`, `nvme_init`, `abt_init` | every system call made meanwhile |
| first generation, `src/pthread.c`, `src/hook.c`, `src/simple.c` | maps from pthread objects to ABT objects, reused thread records, helper slots | create, join, mutexes; system calls by helper threads | superseded |

A system call of the application travels: rewritten `callq *%rax` -> trampoline
-> `hook_function` -> `read_impl`/`write_impl` -> `myfs_get_lba` -> request
functions -> queue pair -> controller; the ULT then polls with `nvme_check` and
yields in between. Shared state is protected by an Argobots mutex per queue
pair when the build is preemptive (`USE_PREEMPT=1`, the default), by mutexes in
myfs, by compare-and-swap on the pthread words, and in places by nothing.

What is hard in each, and what makes it correct:

* queue pair: a slot may be re-taken before its previous user has polled it,
  flags are read without the lock, completions come in any order, rings wrap.
  Correct: the right data reaches each request once, before it is reported.
* I/O path: batches, unaligned ranges, end of file. Correct: a call transfers
  exactly its range, and nothing it started touches the caller's buffer after
  it returned.
* mutex and condition variable: several threads create one object at its first
  use. Correct: one wrap, mutual exclusion, no wakeup delivered to a duplicate,
  no use after free.
* trampoline: one address per system-call number in one sled of overlapping
  instructions. Correct: every entry arrives with the caller's stack.
* myfs: allocation by compare-and-swap on a ring, unlink of a file in use,
  a crash between two stores to the mapped superblock. Correct: a block belongs
  to one file or is free.
* descriptor table: two tables, the kernel's and `hookfds`, changed one after
  the other; state read, a yield, state written. Correct: a call goes to the
  file its descriptor was opened on, at the right position.
* io_uring backend: one thread submits for others, any thread takes completions
  for all, entries are used again. Correct: a thread goes on with its own
  completion.
* threads, once, keys, polling calls: threads share cores, with a timer or with
  yields alone. Correct: nobody waits for a thread that cannot run.
* start-up and drives: system calls go through code that is being rewritten;
  admin commands through a ring that wraps. Correct: every call gets to the
  kernel, every block has its own place.
* first generation: calls handed to another thread with a few flags. Correct:
  each is made once and answered by its own result.

`PROJECT.json` lists the hazards with their lines.

## 2. The modules

```
AsyncIO  <----implements---- NvmeQP  <-- NvmeQPProofs, MCNvmeQP
   '-- assumed by -- IoPath <-- IoPathProofs, MCIoPath
Monitor  <----implements---- PthSync <-- PthSyncProofs, MCPthSync
BlockStore <--implements---- Myfs    <-- MyfsProofs, MCMyfs
                          Trampoline <-- StartupProofs, MCTrampoline
            IoUring <-- Hooks        <-- HooksProofs, MCHooks
                        Ults         <-- UltsProofs, MCUlts
            NvmeDrives <-- Startup   <-- StartupProofs, MCStartup
RemoteCall <--implements---- FirstGen <-- FirstGenProofs, MCFirstGen
```

### NvmeQP: one queue pair, its users and the controller

A request is a model value `r`, and the data it has to move is `r` itself, so a
page or a buffer that holds anything else shows. The variables of the host are
the members of `QP` under their own names (`lock` is `mutex`); `cid` is the rid
a caller polls and `status` where the request is in its life: `new`, `taken`
(has a slot), `issued` (rid returned), `returned` (`nvme_check` said 1). `pc`
says where a thread is:

| code | action |
|---|---|
| call of a request function, of `nvme_check` | `CallReq`, `CallCheck` |
| `lock()` | `Lock` |
| `new_sqe`: tail slot in use, goes to `check_cq` and comes back | `NewSqeFull` |
| `new_sqe`: takes the slot | `NewSqe` |
| entry, `rbuf[cid]`, memcpy to the bounce page | `Fill` |
| `sq_doorbell` | `Doorbell` |
| `check_cq`: nothing new | `CqNothing` |
| `check_cq`: memcpy to the caller; flag, head and phase; doorbell at the end | `CqCopy`, `CqMark`, `CqDrained` |
| `unlock()` at the end of a request function, in `nvme_check` | `UnlockReq`, `UnlockCheck` |
| `done(cid)` before and after `check_cq`, without the lock | `Done`, `NotDone` |

The controller is not in the repository; `CtlFetch` and `CtlComplete` model
what the code relies on: entries are fetched up to the tail doorbell, an equal
head and tail is an empty ring, commands run in any order, the data is moved
before the completion is posted with the current phase, and nothing is posted
over an entry the host has not released. It completes every command with
success: the code never looks at a completion's status.
How the queues come to exist is in `NvmeDrives`.

Threads interleave between any two actions, which is what the preemption timer
allows. Without `USE_PREEMPT` the same code runs without a lock and without a
switch inside the sections: fewer behaviours.

A request that is issued may never be polled: `write_impl` does that. Nothing
limits the requests a thread has out but the number of requests of an instance,
so the ring may fill. `RingDead` is the state in which it was filled before the
controller fetched any of it: every slot is in use, and no command of them is in
the ring as the controller sees it, at work, or completed.

`AsyncIO` is what the queue pair promises: a request is submitted, completes
with its own data, and is then returned, each once.

### IoPath: pread64 and pwrite64 on a hooked file

The unit is the 512-byte sector. `Call` models the entry of `read_impl` and
`write_impl` (the cut at the end of the file, `blksz`), `Issue` one turn of the
issuing loop, `Poll` the polling loop with what follows it. The request layer is
AsyncIO, as proved of NvmeQP: `Complete` picks any outstanding request. A sector
on the medium or in a buffer is a record of who wrote it, in which call and as
which sector. The write loop's `break` before `rq_k` is counted is modelled as
it is: the last request of a write is not in the batch that is polled.

Out of the module: the file's place on the medium (`myfs_get_lba` maps
different sectors to different blocks of the device), growing files (a write
stays inside the file), reference counts, and lengths that are not whole
sectors (descriptors are opened with `O_DIRECT`; `assert(pos % 512 == 0)`).

### PthSync: a statically initialised mutex and a condition variable

`word` is the first word of the two pthread objects: `Zero`, `Busy`
(0xffffffff) or the address of a wrap. `Test`, `Cas`, `New`, `Spin` are the
steps of `get_abt_mutex` and `get_abt_cond` (the latter has no first test);
`New` is also `pthread_mutex_init` and `pthread_cond_init`. The call that
follows is one step on the Argobots object. `pthread_cond_wait` gets the
condition variable first and then the mutex, and has three steps after that:
release and enqueue, leave the queue (woken or timed out), take the mutex back.
`heap` is what malloc handed out, with addresses re-used after a free.

Argobots is external: a holder per mutex, a set of waiters per condition
variable, no spurious wakeups. The callers follow POSIX: they do not relock,
unlock or wait on what they do not own, and destroy nothing that is in use. The
reads of the word that follow a getter's last one (the wrap's address in
`pthread_mutex_destroy`, line 243) see the same value, by the proved `HandlesLive`.
A pointer whose low 32 bits are 0 or 0xffffffff would be mistaken for one of the
two special words; assumption `WordsAssumption` rules that out.

`Monitor` is the promise: one owner, and a waiter that gives up the mutex and
joins the queue in one step and must leave the queue before it owns again.

### Myfs: the file system on raw blocks

`name`, `block`, `n_block`, `free`, `rp` and `wp` are the mapped superblock,
`flags` and `ref` the states kept in memory, `mutex` and `fmutex` the owners of
`myfs_mutex` and of the files' mutexes. Accesses made under a lock that everyone
takes are one step; each access to something others touch without it is a step
of its own:

| code | action |
|---|---|
| `myfs_open`: found; new entry, in two steps under the mutex | `OpenFound`; `OpenNew`, `OpenCreate` |
| `myfs_unlink`, `myfs_unlink_fd`: the scan, the flag, the test of the count | `UnlinkScan`, `UnlinkMark`, `UnlinkDefer`, `UnlinkNow` |
| `__myfs_unlink`: compare-and-swap of `wp`; store into the ring; clear the list; forget the file | `UnlinkTake`, `UnlinkPush`, `UnlinkClear`, `UnlinkForget` |
| `myfs_increment_ref`: test, count | `Ref`, `RefAdd` |
| `myfs_get_size`, in `read_impl` | `Size` |
| `myfs_get_lba`: lock and test; compare-and-swap of `rp`; store; count and unlock; assertion | `AllocTest`, `Pop`, `Store`, `Count`, `Lba` |
| `myfs_decrement_ref`: subtract; test of the flag | `Deref`, `DerefLast` |
| `myfs_close` | `Close` |
| death of the process and `myfs_mount` | `Crash` |

A transfer is of one block: longer ones repeat `Size` to `Lba`, under one
reference. A release of a lock is joined with the step before it, an
acquisition with the step after it. Compare-and-swap loops that fail repeat and
change nothing, so they are their last turn. Memory is sequentially
consistent: on x86-64 every hand-over between threads passes a locked
instruction.

`Liberties` is the set of things that happen beyond opening a file once,
writing it front to back, and unlinking it closed. With none of them but a
death outside of an allocation or an unlink, myfs is held to everything; with
all of them to `OneOwner`, `NamesDistinct` and `BlockStore`, which promises
that a block gets an owner only while it has none and a place in a file a block
only while it has none. A death inside an unlink is excluded: between the
compare-and-swap of `wp` and the store behind it, it leaves an old number in
the ring, and that block gets a second owner.

Three bounds stand for tests the code does not make: `Room` (the ring does not
run empty), `NoLap` (it does not go once around while a thread is between its
compare-and-swap and its read) and `InList` (a count that is too high does not
lead an unlink past the end of the list). The count of calls is bounded by
`MaxCalls`. Out of the module: `myfs_sync` (it calls `fsync` on a descriptor
that `myfs_mount` shadows and never sets), and the last request of a write,
which `IoPath` shows to outlive the call and which may therefore hit a block
that has been given to another file since.

### Trampoline: from the rewritten system call to the hook and back

The sled is a function from addresses to bytes, as written by
`setup_trampoline`; `Jmp`, `Push` and `Nop` execute it at `rip`, so the
overlapping instructions are those the processor would decode. `JmpHook` is the
code behind the sled, `Hook` the first instructions of `asm_syscall_hook` with
the multiplication by the inverse of 3 that decides whether a word is
discarded, `Sigreturn` and `Return` the two ways back. The 64-bit
multiplication is drawn with 16 bits: `DiscardTest` proves the test exact for
all 512 numbers. The stack grows upwards from the caller's own top word. `Return`
includes the test `is_replaced_instruction_addr` of `syscall_hook`: a call whose
return address does not lie behind a rewritten instruction ends at `int3`.

### IoUring and Hooks: descriptors, and the other backend

`Hooks` models the cases of `hook_function` that use the descriptor tables.
`kfile` and `knames` are the kernel's side (external), `hookfds` and `cur_pos`
the library's, `mnames` and `blocks` the names myfs has and the blocks of each
file. `OpenKernel` and `Install` are `hook_openat` before and after
`next_sys_call`; `CloseClear` and `CloseKernel` are close; `Plain` and `Hooked`
the test of `hookfds` in the four transfers, with the cut at the end of the file
(`size`, `cut`); `Transfer` is one block of `read_impl` or `write_impl`, with the
allocation and the assertion of `myfs_get_lba`; `Advance` is `cur_pos += count`.
Two histories tell what a position should be: `ended` is where a descriptor's last
read or write really ended, and `whole` says that none of its reads was cut and no
two of its calls overlapped.
`Unit` and `Units` the loops of `__io_uring_read` and `__io_uring_write`.
`hooked_filenames` follows `parse_hooked_filenames` in losing the names in the
middle of a list. The variable `USE_IO_URING` is the build, chosen at the start.

`IoUring` is one core's ring: `Prepare` takes an entry and submits a full batch,
`Spin` is the loop that waits for someone to submit or does it after `TH2`
yields, `Check` is `__io_uring_check` with the look at the own flag. A transfer
may fail or move nothing (`ok` is FALSE): its completion is then not counted
among those taken off the queue, so the same entries are looked at again. Entries
are given out in turn, also to a second thread while the first still waits:
`alone` and `Lapped` say of a thread that something of its entry's earlier
requests was left when it got it, or that a later request has it.

`IoUring` is the build with `USE_PREEMPT=0`, while the default of the Makefile is
1: `Prepare` is one step only where nothing but a yield switches threads, since
the entry, the flag and the two counters have no lock. The ring has room for a
batch (`TH1 < QD`), so `io_uring_get_sqe` finds an entry. The completion queue,
of 2 `QD` entries in the kernel, is drawn as long as it gets. How many bytes a
good transfer moved and from which offset is left out: the code looks at neither,
and the second unit of a `read` is at offset -1 + unit.

One bound leaves out what the code does not handle: `OwnName`, a name is not
opened while it is being unlinked.

### Ults: threads over cores

`pool` and `running` are the queues of Argobots (external, first in first out);
`Preempt` is the timer of the build with `USE_PREEMPT`. `Create` places a thread
by `global_my_tid`. Each thread has one job: `pthread_once` (`OnceCas`,
`OnceSpin`, which keeps its core, `OnceEnd`, `OnceOver`); a key's life (`KeyLock`
to `KeyFill` under the mutex, or `KeyNone`, which gives it back with `EAGAIN`;
`KeyUse`, `KeyDelete` and `KeyDeleted` without it); `hook_futex` (`Futex`) or the change of the word it waits for (`Wake`);
`clock_nanosleep`, `pselect6`, `epoll_pwait2` (`Start` reads the clock, then
`TimeOut`, `Found` and `PollAgain` in the order of each loop). `Answer` is what
ends a loop: for `pselect6` a ready descriptor or an error, for `epoll_pwait2`,
which asks again after an error, a ready descriptor only. Both have a timeout in
every program here: `pselect6` reads it before it tests the pointer, and an
`epoll_pwait2` without one that fails never ends. Time is a count of `Tick`s; the
coarse clocks show only every `TICK`th. `elapsed` stops counting at `Horizon`,
where it makes no difference any more. Nobody sets the clock while a call waits:
that concerns `clock_nanosleep`, which reads `CLOCK_REALTIME_COARSE`.

### NvmeDrives and Startup: before main

`NvmeDrives` is `nvme_init` drive by drive: disable, wait, admin queue, enable,
then identify and the creation of each core's queues through the admin ring,
whose phase and wrap are modelled as they are. A drive may be missing, bound to
the kernel's driver, not to be mapped, slow or broken; the controller (external)
keeps its ready bit, the queues it was told of, and answers a command it cannot
do all the same. When all is up, `Write` sends blocks to drives by `did` and
`CDW10` and returns `ridOf`, which `decode` takes apart; `NullQP` is a request to
a drive that has no queue pair, which goes through NULL and ends the program.
`check_cq` also tests and follows `rbuf`, which is never set for the admin queue:
the module takes it to be NULL, as it is in memory that `new` returns zeroed.

`Startup` puts it in its place in the constructor: `Setup` of the page, one
region after the other opened, rewritten site by site and closed again, the two
assignments of `__hook_init`, the mount (in detail in `Myfs`), the drives. A site
is an instruction that makes a system call; `route` is the way a call made there
would take at this moment: not an action, since it may be made at every moment.
The bitmap of rewritten addresses, which `newlib/zpoline.c` tests in
`syscall_hook`, is `bm_mem`.

### FirstGen: the first generation

Threads of `src/pthread.c` share streams and are never preempted; `main` has a
stream of its own. `Ask`, `Signal` and `Poll` are `req_helper` and the loop in
`hook_function`, `Helper` is one turn of `do_helper` in three steps; the stores
of x86-64 arrive in order. `Create` and `my_join` use records again, by way of
`myth_pool` and `th_map`. `Lock` finds a mutex in the map, `LockUnknown` enters it
and goes on without locking, as the code does. `CallJoin` and `Direct` keep the
stream, because they wait in the kernel. The number of an Argobots thread is the
count of creations (external) and must be a helper's (`HelpersAssumption`).
Two bounds stand for the unlocked containers: `NoJoinMeanwhile` (no push on the
stack during a create) and first locks that do not overlap. The callers join no
thread twice, which POSIX leaves undefined (`JoinsAssumption`): a second `my_join`
would push the record a second time, and two threads would get it.

The hook library is there (`LIBMY` is set): without it `debug_print` is NULL, and
`epoll_wait` calls it all the same.

`RemoteCall` is the promise to callers: asked, carried out once, answered.

## 3. The runs

| run | instance | checks |
|---|---|---|
| `qp` | 2 threads, 4 requests (3 reads, 1 write), `QD` = 2 | `IInv`, `CompletionSound`, `NothingLost`, `ImplementsAsyncIO`, `DeadForever`, `CallsEnd` |
| `sync` | 3 threads, 3 addresses | `IInv`, `HandlesLive`, `ImplementsMonitor`, `GetterExits` |
| `io` | 2 threads of 2 calls and 1, file of 3 sectors, blocks of 2, degrees 2 | `Inv`, `NoLateCopy`, `InOneBlock`, `ReadFilled`, `CallReturns` |
| `io_read_back` (violation) | 1 thread of 2 calls, 3 sectors | `ReadBack` |
| `fs` | 2 threads, 2 names, 2 files of 2 blocks, ring of 4; 6 calls well-behaved with crashes, 5 with all liberties | `Inv`, `OneOwner`, `OrderlyLbaMapped`, `WrittenVisible`, `ImplementsBlockStore` |
| `fs_busy_unlink` (violation) | 4 calls, unlink of files in use | `LbaMapped` |
| `sled_entries` | every number whose entry agrees with the discard test | `RightCall`, `ReturnsHome`, `Slides` |
| `sled_linux` (violation) | the numbers of x86-64 Linux | `ReturnsHome` |
| `hooks` | 2 threads, 2 descriptors, a hooked and a plain name, both builds, ring of 3, `TH1` = `TH2` = 1, 4 calls | `Inv`, `RightFile`, `PositionExact`, `OwnCompletion`, `RequestsReturn` |
| `ults` | 3 threads over 2 cores, 2 key slots, 6 programs, both builds, ticks of 2, timeouts of 3 | `Inv`, `KeysSound`, `NotEarly`, `Terminates` |
| `startup` | 4 regions, 6 sites, 8 drive lists, 2 drives, 2 cores, admin ring of 2, volume of 8 sectors in stripes of 2 | `Inv`, `CallsReach`, `SectorsApart`, `ChecksOwn`, `Starts` |
| `first_gen` | main and 3 threads over 2 streams, 2 calls each, 3 programs, mutex initialised or not | `Inv`, `ImplementsRemoteCall`, `Finishes` |

`Inv` is the type invariant together with a model's smaller invariants: in
IoPath `WithinDegree` and `OnlyTheLast`; in Myfs `NamesDistinct`, `RefExact`,
`Dense`, `InFlightOwned` and `NothingLost`; in Hooks `NamesAgree` and
`PendingExact`; in Ults `OnceExact` and `KeysFreed`; in Startup `CommandsDone`,
`QueuesReady` and `AllHooked`; in FirstGen `OwnRecord`, `OwnAnswer` and
`Exclusive`. In NvmeQP and PthSync `IInv` is the inductive invariant of the proofs. `NoCrossTalk`, `LiveDestination`, `CompletionsMatch`, `DMAStable`
(NvmeQP), `MutualExclusion`, `NoLeak` and `WakeupsReach` (PthSync) are proved to
follow from it and have no entry in a run of their own.

Bounds. In `qp` two slots and four requests take both rings round twice and flip
the phase; every slot is re-taken while its previous request may still be unpolled,
both threads meet in every pair of steps, and the ring fills up, dead or alive: a
request is issued while two others are outstanding. With finitely many requests no
thread is overtaken for ever by others that re-take the slot it polls. In PthSync
the number of calls is not bounded: the state space is finite because the
objects are destroyed and created again at the same addresses; three threads
give a creator, a spinner and a third that destroys or signals. In IoPath a
file of three sectors in blocks of two has an aligned block, an incomplete block
and a range that straddles, and a call of two batches.
Trampoline is not bounded: all numbers are checked. In Myfs six calls are
enough for open, write, close and unlink of one file while another is created
and written, so that blocks go from file to file by way of the ring; a ring of
four, started at 0 (a new volume) and at 2 (one whose files have all been
unlinked), wraps on both ends. Threads and names are interchangeable and
declared as symmetric. In Hooks four calls are two opens and two transfers, or
an open, a close and an open of the same number by another thread; a ring of
three goes round with one batch in the making, and comes to an entry whose thread
still waits. `RequestsReturn` says nothing of a thread whose request failed or was
lapped. In Ults three threads over two
cores put two on one core, which is where waiting without a yield hurts, and the
three that make a key find slots for two. The five
commands of a drive take an admin ring of two entries round twice and a half, and
eight sectors fill two stripes of each drive. In FirstGen two of the three
threads share a stream, and a record is used again when main joins early.

Deadlock is not checked: requests, calls and executions are finite in most of
the models, and PthSync's callers may well deadlock among themselves (every
thread in `pthread_cond_wait`). That the code itself does not get stuck is what
the liveness properties say.

Fairness. `NvmeQP`: a thread that has a step to do does it (the scheduler runs
ready ULTs in turn, the timer preempts the others, the polling loops yield); the
mutex is eventually granted to a thread that keeps waiting (Argobots hands it
to its waiters), which is strong fairness of `Lock`; the controller fetches what
it was told of and completes each command, which is strong fairness because a
full completion ring disables it now and then. Nobody is forced to issue or to
poll. `PthSync`: weak fairness of the getters only, which need no lock: they
yield, and a yielding ULT runs again. `IoPath`: weak fairness of the issuing and
polling loops and of each request's completion, which is what `CallsEnd` and
NvmeQP's fairness of the controller provide. `Trampoline`: the processor
continues. `Hooks`: weak fairness of each thread's steps, since every loop
yields to a first-in, first-out pool, and of the kernel's completions. `Ults`: a
core takes the next of its pool, the timer fires, time passes; strong fairness of
a thread's steps says that between two preemptions it gets something done.
`Startup`: the one thread of the constructor, and the controller, go on; a slow
or failed controller is a condition of the drive. `FirstGen`: streams and helper
threads are kernel threads; strong fairness of `Dispatch` and of getting the
mutex is that a stream runs all of its pool and Argobots serves all waiters.

### What the violations show

* `io_read_back`. A write returns before its last request is done, so a read
  that follows in the same thread can return the old contents; the stray request
  may also land after a later write of the same sectors.
* `fs_busy_unlink`. Unlink frees at once when no transfer is in flight, and a
  transfer that starts after the flag is set is not counted. A write then
  allocates a block which the unlink, whose loop looks at `n_block` afresh, takes
  away again before the write looks it up. The block does not get two owners
  even so (`OneOwner` in `fs`). The liberty `sparse` breaks the same assertion: a file
  written at block 1 first has the size 1, and its block 0 is not there. In this
  run there are no gaps.
* `sled_linux`. Above byte 404 the sled is all nops, so numbers 3n + 1 from 406
  on push nothing and the hook discards the return address. `syscall_hook` then
  takes the caller's top word for the return address and stops at `int3`. Of
  today's Linux calls that concerns 424, 427, 430, 433, 436, 439, ...

Three more things the code does are in the models and in the passing runs, whose
properties say what holds in spite of them:

* The full ring. `new_sqe` waits for the flag of its own slot only, so `QD` requests
  can be outstanding on rings of `QD` entries. If the controller has not fetched
  any of them the tail doorbell equals its head, it sees an empty ring, and the
  thread in `new_sqe` spins with the mutex held. The defaults come to that: `QD` is
  1024, and five threads of the 512 of a core can have 256 reads each outstanding;
  the last request of every write, so every single-sector write, is never polled
  and adds to them. `DeadForever` says that this state is final. No data goes to a
  wrong place in it: the proofs of safety have no bound on the outstanding
  requests. And it is the only way to lose anything: by `NothingLost` a slot in use
  is on its way, and by `CallsEnd` every call ends, unless the ring is dead.
* A read past the end. It is cut, but the position moves by what was asked for, and
  that is also what is returned. The next write through the position leaves a
  hole, and a read of it fails the assertion of `myfs_get_lba`: a program that only
  reads and writes in order makes a file with gaps. `PositionExact` is about the
  descriptors without such a read.
* An entry of io_uring with two owners. A flag says that some request of an entry is
  done. When a completion failed, others behind it stay in the queue and raise
  their flags again, and its thread waits on; `QD` requests later a new request has
  the entry, and a thread is let go by the completion of another. `OwnCompletion`
  says that a thread goes on with its own completion unless one of these two
  happened to its entry.

Some properties hold only under a condition that is part of their definition,
because the code does otherwise without it: `NothingLost` and `CallsEnd`
(`RingDead`), `PositionExact` (`whole`: two calls on one descriptor, a read past
the end), `OwnCompletion` and `RequestsReturn` (failed requests, and entries used
again), `Terminates` (a routine of `pthread_once` that yields, without
preemption, while another thread of its core waits for it), `QueuesReady` (a
`DRIVE_IDS` list shorter than `ND`, or a drive that cannot be mapped, leaves
`qps` NULL, and requests go through it), `Starts` (a controller in fatal state is waited for without end),
`Exclusive` (a mutex that nobody initialised is not locked by its first lock)
and `Finishes` (threads that wait in the kernel on a shared stream).

## 4. The proofs

`NvmeQPProofs`, for all sets of threads and requests and every `QD` of at least 2. The properties are not inductive: which request a slot
belongs to depends on where the slot is. The invariant `IInv` follows a slot
through its life. `LockInv` and `CallInv` say who is where; `TailInv` that the
doorbell lags behind `sq_tail` by exactly the slot being filled; `RingInv` orders
head doorbell, `cq_head` and the controller's tail and fixes the phase of every
completion entry; `PlaceInv` that a slot is in one place (filled, queued,
executing or posted) and marked in use while it is; `SlotInv` what it carries
there; `ReqInv` and `FillInv` tie the requests to the slots: a request without
its data still owns the slot it polls, so a raised flag, whoever's it now is,
means its data has arrived. `RingPush`, `RingPop`, `PostedPush` and `PostedPop`
are the lemmas about intervals on a ring; a full ring that reads as empty is
covered by them, which is why safety needs no bound on the outstanding requests.
One lemma per action leads to `NextIInv`, and from it `CompletionSoundness`,
`NoCrossTalkEver`, `LiveDestinations`, `CompletionsMatched`, the action property
`DMAStability`, and `Refinement`: every step is a step of AsyncIO or stutters.
`NothingLostHolds` needs none either. `Tracked` says that every slot in use is on
its way; every step keeps it but the doorbell that makes the tail meet the
controller's head, and after that one all slots are in use and none is on its way
(`DoorbellFollows`, `TrackedStep`). No step leads out of that state: nothing is
completed any more, so no slot becomes free (`DeadStep`), which is
`DeadForeverHolds`.

`PthSyncProofs`, for all sets of threads and addresses. `IInv` says who may be
creating (`WordInv`: the sentinel is in the word exactly while one thread is
between its compare-and-swap and its store, and a wrap is allocated exactly while
its object is kept), what a thread past a getter holds (`HandleInv`), that the
callers' idea of the owner and Argobots' agree (`HolderInv`) and who is in the
queue (`QueueInv`); `RulesInv` carries the callers' rules along. From it
`MutexIsExclusive`, `HandlesAreLive`, `NothingLeaks`, `WakeupsAreNotLost` and
`Refinement` to Monitor.

`StartupProofs`, for all sets of regions and sites, all lists of drives and all
numbers of drives, cores, slots, controller queues and sectors. `Routed` (a
rewritten site is recorded and the page is there; `enter_syscall` is never
rewritten; the hook is in place only with `next_sys_call` set) gives
`SpecCallsReach`; `Looked` (a region that is not open has its protection; what
was looked at is rewritten) gives `SpecAllHooked`. `DivUnique` and `DivPos` are
division with remainder; `DecodeOwn` applies it twice to the number of a request,
for `SpecChecksOwn`; `PlaceExists`, `StripeTogether` and `PlaceUnique` say that
the striping is one-to-one and keeps a stripe's sectors together, and with
`WriteKeeps` give `SpecSectorsApart`. The bring-up is `DrivesInv`: between two
admin commands all positions in the rings are one (`Rests`), and while one is
waited for it was asked for, then answered, then seen by `check_cq` (`Asked`,
`Answered`, `Seen`), with the phase of every completion entry; `CommandInv` says
that the controller has done the commands that were made but for the one it was
only asked for, which needs the completion queue of a core made before its
submission queue, and `ReadyInv` collects the drives that are up; `NoFault` says
that if the list fits no request went through NULL. From it `InvHolds`. The last section is about the page that `Setup` maps, which
Trampoline models with a state of its own: under `GoodCalls` (every 3n + 1 among
the calls is in the patterned part) `EveryCallReturnsHome` and `TheCallAskedFor`. The invariant says that after its first instruction the processor
is on a jump or among the nops, having pushed one word exactly if the number is
3n + 1.

`MyfsProofs`, for all sets of threads and names and all sizes of the superblock,
in two layers. Whatever the program does, crashes included, `IInv` holds: who is
inside of `myfs_mutex` and of the mutexes of the files (`MutexInv`), what the
locals of a call are good for (`ArgInv`), and that the entries of the free ring
that are taken and not yet read lie outside of its window, each with one thread
(`RingInv`). From it `OneOwnerHolds`, `NamesDistinctHolds` and `Refinement`: every
step is a step of BlockStore or does not show. In an orderly program (`Orderly` of
`Myfs`: it unlinks no file it still has open, opens none twice and leaves no
holes; it may die, but not in an allocation) `Tidy`
holds as well: which call is about which file, how far it has come in the file's
list, what each reference count counts, that a list has no hole and that no block
is lost. `RingHasRoom` is a pigeonhole: the blocks in lists, in the window and in
hands are all there are, so an `unlink` never overtakes the read end. From it
`InvHolds`, `OrderlyLbaMappedHolds` and `WrittenVisibleHolds`, under two
hypotheses that are findings about the code rather than conveniences:
`NoPrefixes` (no name is a prefix of another: `strncmp` takes a name for the file
of which it is a prefix, a listed hazard) and `FewThreads` (fewer threads than the
reference count has values: it wraps).

`IoPathProofs`, for all sets of threads, sizes of file and block, and degrees.
`CutInv` says that the rest of a call is cut into whole requests, which is
division (`WholeBlocks`, `SameBlock`); `PendingInv` that what the device still has
to do and nobody will poll is the last request of a write; `DegreeInv` counts the
requests that are out, those already completed and not polled included; `BufInv`
that a read's buffer and the requests still out make up what the call has
covered. From it `InvHolds`, `NoLateCopyHolds`, `InOneBlockHolds` and the action
property `ReadFilledHolds`.

`HooksProofs`, for all sets of threads, descriptors and names, whichever names are
hooked, every size of the ring and both builds. `TablesInv` ties the kernel's
table to `hookfds`: of a descriptor the program has, the two agree (`FdInv`); of
one that is being opened or closed only its own thread knows, and how much depends
on where it is (`ThreadInv`, `Apart`). `PosInv` is about the position of a
descriptor that is still `whole`: it is where the last call ended, and one call at
most is under way, from there and of full length. `RingInv` follows a request of
the io_uring backend: it is prepared, at work or completed (`RequestInv`), and of a
thread that is `Undisturbed` a raised flag or a completion in the ring with the
number of its entry is about its own request (`FlagInv`): between two requests that
are less than `QD` apart no two have one entry (`SameRemainder`). From it `InvHolds`,
`RightFileHolds`, `PositionExactHolds` and the action property
`OwnCompletionHolds`.

`UltsProofs`, for all finite sets of threads, all programs, numbers of cores and
keys, and clocks. `SchedInv`: the thread on a core and those in its pool are live
and belong there, none is in a pool twice or also on the core, and a live thread is
in one of the two; `OnePlace` counts from that. `OnceInv`: one thread has entered
the routine and is in it until it is over. `KeyInv`: a slot in use holds the key of
the one thread that uses it, and a slot that was found stays empty until it is
filled by whoever has the mutex, which is why a deletion may do without it; a
thread that found none is past its call with no key (`KeyNoneStep`). From these
`InvHolds`,
`KeysSoundHolds` and `NotEarlyHolds`.

`FirstGenProofs`, for all finite sets of workers, all programs that join nobody
twice, and any numbers of streams and helpers. `RecInv`: a record is in the pool
once, or of the one live thread that its entry in the map leads to (`PoolOnce`,
`OwnTid`, `NoneLost`); as none is lost, a creation that finds the pool empty needs a
new tid only while there are fewer records than workers (`RoomForRecord`, a
pigeonhole), so the map's bounds hold. `JoinInv`: whoever is being joined is joined
by one thread and is not joined yet, which is what puts a record back once. `IdInv`:
the Argobots ids count the creations, so each thread has a helper of its own, and
the next thread's helper is idle. `CallInv` follows a call through `Handoff`: a
thread that makes none has an idle helper and its last answer; between `Ask` and
`Signal` the arguments are set and `done` is clear; while it polls the helper has
`ready` to see, or is at work, or is done, and the kernel was asked once from the
second of the helper's three steps on, and not before. `OneCall` is the frame: a step of one thread or of its helper
disturbs no other thread's call. From these `InvHolds`, and `Refinement`: `Ask` asks,
the second step of a helper carries out, a `Poll` that sees `done` answers, and all
other steps stutter. `LockInv` needs the mutex to be initialised: see `Exclusive`.

The proofs rest on the assumptions named in the modules and on nothing else, and
TLC evaluates those in every run. They say what the code's declarations say:
sizes that are array bounds are positive (`QDAssumption`, `SizesAssumption`),
values that stand for "none" are not members of the sets they complete
(`NoReqAssumption`, `FreeAssumption`, ...), a list of drives is any sequence, the
empty one of an empty `DRIVE_IDS` included (`ListsAssumption`), there are more
helpers than workers (`HelpersAssumption`: the code looks a helper up by the
Argobots id without a test). `JoinsAssumption` is the callers' part. `MaxCalls` is the
bound of the runs; the theorems hold for every value of it.

Only model-checked: all liveness (`CallsEnd`, `GetterExits`,
`CallReturns`, `Slides`, `RequestsReturn`, `Terminates`, `Starts`, `Finishes`),
because fairness and ENABLED are out of the prover's reach. Every safety property,
action property and refinement that a passing run checks is a theorem.

## 5. Plan

What is left, in this order:

1. The rest of `FirstGen`: conditions, and first locks that overlap.
2. An open that fails, in `Hooks`: what `hook_openat` writes before its table.

## 6. Not modelled

`v2p`, the mapping of DMA memory and the statistics in `nvme.cc` (one thread,
before any request; no state the properties see); the decoding of instructions
(libopcodes). Completion status: no code looks at it. Failing opens, with which
`hook_openat` writes before its table. `fstat` and `fsync` in `hook_function`,
which change nothing, and the AIO calls, which are compiled out, as are the
helpers of `newlib/hook.c` (`N_HELPER` is 0). Rwlocks, whose getter only reads the
address that `pthread_rwlock_init` stored, creating nothing, and whose calls
forward to Argobots (`pthread_rwlock_destory` is misspelt and so never called);
io_uring with the preemption timer; detach, attributes and affinity. `MyFIFO`,
whose use is compiled out except for the filling. Of the first generation:
conditions, barriers and keys, which forward to Argobots, the older copy of
zpoline inside `src/pthread.c`, `simple.c` and `my.c`. The debugging aids,
`hlpatch.py`, `pref_yield.c`, the wrappers of the C library's functions and the
test programs.
