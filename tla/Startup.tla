------------------------------ MODULE Startup -------------------------------
(***************************************************************************)
(* The constructor of the library, mylib_init: the page at address 0, the  *)
(* rewriting of every executable region (src/newlib/zpoline.c), the hook   *)
(* (__hook_init of src/newlib/hook.c), the file system and the drives, and *)
(* Argobots.  All of it makes system calls through code that is being      *)
(* rewritten, so at every point a call has to find its way to the kernel.  *)
(*                                                                         *)
(* A site is an instruction that makes a system call.  The disassembler is *)
(* external: it finds the sites of a region, in some order.  What the page *)
(* and asm_syscall_hook do to the stack is the subject of Trampoline.      *)
(***************************************************************************)
EXTENDS NvmeDrives

CONSTANTS Regions,          \* the lines of /proc/self/maps
          Prot,             \* their protection: "r", "w", "x"
          Untouched,        \* those named stack or vsyscall
          Sites, RegionOf,  \* the sites, and the region each is in
          syscall_addr,     \* the site in enter_syscall
          NULL

ASSUME RegionsAssumption == /\ Untouched \subseteq Regions
                            /\ Prot \in [Regions -> SUBSET {"r", "w", "x"}]
                            /\ RegionOf \in [Sites -> Regions] /\ syscall_addr \in Sites
ASSUME ApartAssumption == /\ Regions \cap Sites = {}
                          /\ NULL \notin Regions /\ NULL # "enter_syscall"

VARIABLES
    pc,
    page,           \* the page at address 0: absent or sled
    code,           \* what is at each site: syscall or callq
    bm_mem,         \* the sites that were recorded as rewritten
    prot,           \* the protection of the regions now
    done,           \* the regions and sites that were looked at
    current,        \* the region that is being rewritten
    hook_fn, next_sys_call,
    hooks           \* which of the two assignments of __hook_init are made

bootVars == <<pc, page, code, bm_mem, prot, done, current, hook_fn, next_sys_call, hooks>>
vars == <<driveVars, bootVars>>

Init ==
    /\ DrivesInit
    /\ pc = "zpoline"
    /\ page = "absent"
    /\ code = [s \in Sites |-> "syscall"]
    /\ bm_mem = {}
    /\ prot = Prot
    /\ done = {} /\ current = NULL
    /\ hook_fn = "enter_syscall" /\ next_sys_call = NULL
    /\ hooks = 0

stage(from, to) == pc = from /\ pc' = to

-----------------------------------------------------------------------------
(* __zpoline_init.                                                          *)

(* Address 0 can be mapped if vm.mmap_min_addr allows it. *)
Setup ==
    /\ \/ stage("zpoline", "rewrite") /\ page' = "sled"
       \/ stage("zpoline", "exit") /\ UNCHANGED page
    /\ UNCHANGED <<code, bm_mem, prot, done, current, hook_fn, next_sys_call, hooks>>

Executable == {r \in Regions \ Untouched : "x" \in Prot[r]}

OpenRegion(r) ==
    /\ pc = "rewrite" /\ current = NULL
    /\ r \in Executable \ done
    /\ current' = r
    /\ prot' = [prot EXCEPT ![r] = {"r", "w", "x"}]
    /\ UNCHANGED <<pc, page, code, bm_mem, done, hook_fn, next_sys_call, hooks>>

(* Mutant of Skipped: enter_syscall is rewritten like all other code. *)
NoneSkipped(s) == FALSE

Skipped(s) == s = syscall_addr

do_rewrite(s) ==
    /\ current # NULL /\ RegionOf[s] = current /\ s \notin done
    /\ done' = done \cup {s}
    /\ IF Skipped(s) THEN UNCHANGED <<code, bm_mem>>
       ELSE /\ code' = [code EXCEPT ![s] = "callq"]
            /\ bm_mem' = bm_mem \cup {s}
    /\ UNCHANGED <<pc, page, prot, current, hook_fn, next_sys_call, hooks>>

mem_prot(r) == Prot[r]

CloseRegion ==
    /\ current # NULL
    /\ \A s \in Sites : RegionOf[s] = current => s \in done
    /\ prot' = [prot EXCEPT ![current] = mem_prot(current)]
    /\ done' = done \cup {current}
    /\ current' = NULL
    /\ UNCHANGED <<pc, page, code, bm_mem, hook_fn, next_sys_call, hooks>>

CodeRewritten ==
    /\ current = NULL /\ Executable \subseteq done
    /\ stage("rewrite", "hook")
    /\ UNCHANGED <<page, code, bm_mem, prot, done, current, hook_fn, next_sys_call, hooks>>

-----------------------------------------------------------------------------
(* __hook_init.                                                             *)

(* Mutant of HookOrder: the hook is there before it can pass a call on. *)
HookOrderSwapped == <<"hook_fn", "next_sys_call">>

HookOrder == <<"next_sys_call", "hook_fn">>

AssignHook ==
    /\ pc = "hook" /\ hooks < 2
    /\ hooks' = hooks + 1
    /\ IF HookOrder[hooks + 1] = "next_sys_call"
       THEN next_sys_call' = "enter_syscall" /\ UNCHANGED hook_fn
       ELSE hook_fn' = "hook_function" /\ UNCHANGED next_sys_call
    /\ UNCHANGED <<pc, page, code, bm_mem, prot, done, current>>

(* The superblock is mounted, which is Mount of Myfs. *)
Mount ==
    /\ hooks = 2
    /\ stage("hook", "drives")
    /\ UNCHANGED <<page, code, bm_mem, prot, done, current, hook_fn, next_sys_call, hooks>>

(* After nvme_init come Argobots and the program's main. *)
Start ==
    /\ \/ at = "up" /\ stage("drives", "main")
       \/ at \in {"exit", "assert"} /\ stage("drives", "exit")
    /\ UNCHANGED <<page, code, bm_mem, prot, done, current, hook_fn, next_sys_call, hooks>>

-----------------------------------------------------------------------------
Boot ==
    \/ Setup \/ CloseRegion \/ CodeRewritten \/ AssignHook \/ Mount \/ Start
    \/ \E r \in Regions : OpenRegion(r)
    \/ \E s \in Sites : do_rewrite(s)

Next ==
    \/ Boot /\ UNCHANGED driveVars
    \/ pc = "drives" /\ (BringUp \/ Controller) /\ UNCHANGED bootVars
    \/ pc = "main" /\ Request /\ UNCHANGED bootVars

(* The constructor runs in one thread that nothing stops, and a controller  *)
(* answers.                                                                 *)
Fairness ==
    /\ WF_vars(Boot /\ UNCHANGED driveVars)
    /\ WF_vars(pc = "drives" /\ BringUp /\ UNCHANGED bootVars)
    /\ WF_vars(pc = "drives" /\ Controller /\ UNCHANGED bootVars)

Spec == Init /\ [][Next]_vars /\ Fairness

-----------------------------------------------------------------------------
(* The way of a call made at site s: callq lands on the page, syscall_hook  *)
(* tests that the site is recorded and calls hook_fn, and hook_function     *)
(* has next_sys_call, which is enter_syscall.                               *)
enter_syscall == IF code[syscall_addr] = "syscall" THEN "kernel" ELSE "loops"

syscall_hook(s) ==
    IF s \notin bm_mem THEN "int3"
    ELSE IF hook_fn = "hook_function" /\ next_sys_call = NULL THEN "fault"
    ELSE enter_syscall

route(s) ==
    IF code[s] = "syscall" THEN "kernel"
    ELSE IF page = "absent" THEN "fault"
    ELSE syscall_hook(s)

TypeOK ==
    /\ DrivesTypeOK
    /\ prot \in [Regions -> SUBSET {"r", "w", "x"}] /\ bm_mem \subseteq Sites
    /\ hooks \in 0..2

(* A system call made at any point of the start, by the library, libc or    *)
(* libopcodes, reaches the kernel: it does not fault, trap or go round      *)
(* (zpoline.c, do_rewrite and syscall_hook; hook.c, __hook_init).           *)
CallsReach == \A s \in Sites : route(s) = "kernel"

(* Main starts with all code that was mapped executable under the hook, and *)
(* with the protections it had (zpoline.c, disassemble_and_rewrite).        *)
AllHooked == pc = "main" =>
    /\ prot = Prot
    /\ \A s \in Sites \ {syscall_addr} : RegionOf[s] \in Executable => code[s] = "callq"

(* The constructor returns or ends the program, unless a controller fails   *)
(* when it is enabled: then the status is never the one that is waited for. *)
Starts == <>(pc \in {"main", "exit"} \/ \E d \in Disks : csts[d] = 2)

(* The type invariant; each admin command is over when the next is made,    *)
(* and main starts with its queues known to both sides and its code hooked. *)
Inv == TypeOK /\ CommandsDone /\ QueuesReady /\ AllHooked
=============================================================================
