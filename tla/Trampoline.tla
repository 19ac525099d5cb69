----------------------------- MODULE Trampoline ----------------------------
(***************************************************************************)
(* The path of a rewritten system call (src/newlib/zpoline.c): callq *%rax *)
(* lands on the page at address 0 at the number of the call, slides down   *)
(* setup_trampoline's sled to the code behind it, and reaches              *)
(* asm_syscall_hook, which has to find the stack as the caller left it.    *)
(*                                                                         *)
(* Up to address 404 the sled repeats the bytes eb 6a 90, and what is      *)
(* executed depends on the entry's remainder by 3: eb 6a is a jump over    *)
(* 0x6a bytes, 6a 90 pushes 0x90, and 90 is a nop.                         *)
(*                                                                         *)
(* The stack is drawn growing upwards: sp is the index of its top word and *)
(* the caller's own top word is at index 1.                                *)
(***************************************************************************)
EXTENDS Integers

CONSTANTS Calls,    \* the system calls the application makes
          Ret,      \* the address behind the callq
          App       \* the top word of the caller's stack

NR_syscalls == 512

ASSUME CallsAssumption == Calls \subseteq 0..(NR_syscalls - 1)
ASSUME WordsAssumption == Ret \in Nat /\ App \in Nat /\ Ret # App

VARIABLES nr,       \* the call the application makes
          place,    \* sled, hook, call, back, trap, or sigreturn
          rip, rax,
          sp, stack

sledVars == <<nr, place, rip, rax, sp, stack>>

Depth == 0..4       \* the caller's word and the most that is pushed on it

(* callq *%rax pushed the return address and jumped to the number. *)
SledInit ==
    /\ nr \in Calls
    /\ place = "sled"
    /\ rip = nr
    /\ rax = nr
    /\ sp = 2
    /\ stack = [i \in Depth |-> IF i = 1 THEN App ELSE IF i = 2 THEN Ret ELSE 0]

push(w) ==
    /\ sp' = sp + 1
    /\ stack' = [stack EXCEPT ![sp + 1] = w]

-----------------------------------------------------------------------------
(* The sled: its bytes, and the instructions they make.                     *)

jmp8 == 235     \* 0xeb
push8 == 106    \* 0x6a, also the length of the jumps
nop == 144      \* 0x90

(* Mutant of sled: the jumps begin too close to its end. *)
sledTooLong(i) ==
    IF NR_syscalls - push8 + 1 < i THEN nop
    ELSE CASE i % 3 = 0 -> jmp8 [] i % 3 = 1 -> push8 [] i % 3 = 2 -> nop

(* The last bytes are nops: a jump from there would miss the code behind. *)
sled(i) ==
    IF NR_syscalls - push8 - 2 < i THEN nop
    ELSE CASE i % 3 = 0 -> jmp8 [] i % 3 = 1 -> push8 [] i % 3 = 2 -> nop

Fetches(b) == place = "sled" /\ rip < NR_syscalls /\ sled(rip) = b

Jmp ==
    /\ Fetches(jmp8)
    /\ rip' = rip + 2 + sled(rip + 1)
    /\ UNCHANGED <<nr, place, rax, sp, stack>>

Push ==
    /\ Fetches(push8)
    /\ rip' = rip + 2
    /\ push(sled(rip + 1))
    /\ UNCHANGED <<nr, place, rax>>

Nop ==
    /\ Fetches(nop)
    /\ rip' = rip + 1
    /\ UNCHANGED <<nr, place, rax, sp, stack>>

(* Mutant of JmpHook: %rax is overwritten before it is pushed. *)
JmpHookClobbers ==
    /\ place = "sled"
    /\ rip = NR_syscalls
    /\ place' = "hook"
    /\ push(Ret)
    /\ UNCHANGED <<nr, rip, rax>>

(* push %rax; movabs asm_syscall_hook, %rax; jmpq *%rax. *)
JmpHook ==
    /\ place = "sled"
    /\ rip = NR_syscalls
    /\ place' = "hook"
    /\ push(rax)
    /\ UNCHANGED <<nr, rip, rax>>

-----------------------------------------------------------------------------
(* asm_syscall_hook.                                                        *)

(* Its test for a number of the form 3n + 1 multiplies by the inverse of 3    *)
(* modulo the word's size: the product is not below the inverse.  A word is   *)
(* 16 bits here, more than the numbers that get to the hook need.             *)
inverse == 43691    \* 0xaaab; 3 * inverse = 1 modulo 2^16
Discards(n) == (n * inverse) % 65536 >= inverse

(* Mutant of Hook: the pushed 0x90 is never discarded. *)
HookKeepsPushed ==
    /\ place = "hook"
    /\ rax' = stack[sp]
    /\ sp' = sp - 1
    /\ place' = IF rax' = 15 THEN "sigreturn" ELSE "call"
    /\ UNCHANGED <<nr, rip, stack>>

(* popq %rax; the test; rt_sigreturn is 15. *)
Hook ==
    /\ place = "hook"
    /\ rax' = stack[sp]
    /\ sp' = IF Discards(stack[sp]) THEN sp - 2 ELSE sp - 1
    /\ place' = IF rax' = 15 THEN "sigreturn" ELSE "call"
    /\ UNCHANGED <<nr, rip, stack>>

(* do_rt_sigreturn drops the return address and makes the call itself. *)
Sigreturn ==
    /\ place = "sigreturn"
    /\ sp' = sp - 1
    /\ place' = "back"
    /\ UNCHANGED <<nr, rip, rax, stack>>

(* Of the words on this stack only the caller's is behind a callq that was  *)
(* recorded by do_rewrite.                                                  *)
is_replaced(retptr) == retptr = Ret

(* syscall_hook is called, stops at int3 if it was not called from a place  *)
(* that was rewritten, and returns; what was pushed is popped, and retq.    *)
Return ==
    /\ place = "call"
    /\ IF is_replaced(stack[sp])
       THEN place' = "back" /\ rip' = stack[sp] /\ sp' = sp - 1
       ELSE place' = "trap" /\ UNCHANGED <<rip, sp>>
    /\ UNCHANGED <<nr, rax, stack>>

SledNext == Jmp \/ Push \/ Nop \/ JmpHook \/ Hook \/ Sigreturn \/ Return

SledSpec == SledInit /\ [][SledNext]_sledVars

(* A processor keeps executing. *)
FairSpec == SledSpec /\ WF_sledVars(SledNext)

-----------------------------------------------------------------------------
(* Properties.                                                              *)

(* Every variable keeps its type; the stack is as deep as drawn. *)
SledTypes ==
    /\ nr \in Calls
    /\ place \in {"sled", "hook", "call", "sigreturn", "back", "trap"}
    /\ rip \in Nat
    /\ rax \in Nat
    /\ sp \in Depth
    /\ stack \in [Depth -> Nat]

(* The hook sees the number the application asked for. *)
RightCall == place \in {"call", "sigreturn"} => rax = nr

(* The call comes back behind the callq with the caller's stack pointer, and  *)
(* is not taken for one that was never rewritten:                             *)
(* "discard pushed 0x90 for 0xeb 0x6a 0x90 if rax is n * 3 + 1".              *)
ReturnsHome ==
    /\ place # "trap"
    /\ place = "back" => sp = 1 /\ (rax # 15 => rip = Ret)

(* From every entry the sled leads to the code behind it. *)
Slides == place = "sled" ~> place = "hook"

-----------------------------------------------------------------------------
(* The inductive invariant.                                                 *)

Patterned(n) == n <= NR_syscalls - push8 - 2

(* What the sled has pushed when it is left. *)
Pushed == IF Patterned(nr) /\ nr % 3 = 1 THEN 1 ELSE 0

(* After its first instruction the thread is on a jump or among the nops. *)
SledInv ==
    place = "sled" =>
        /\ rip <= NR_syscalls
        /\ rax = nr
        /\ \/ rip = nr /\ sp = 2
           \/ sp = 2 + Pushed /\ (rip % 3 = 0 \/ ~Patterned(rip))

StackInv ==
    /\ place # "back" => stack[2] = Ret
    /\ place = "hook" => sp = 3 + Pushed /\ stack[sp] = nr
    /\ place \in {"call", "sigreturn"} => sp = 2
    /\ place = "sigreturn" => rax = 15
    /\ place = "call" => rax # 15

SledIInv == SledTypes /\ RightCall /\ ReturnsHome /\ SledInv /\ StackInv
=============================================================================
