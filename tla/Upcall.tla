------------------------------- MODULE Upcall -------------------------------
(***************************************************************************)
(* User-level page faults: page_fault_handler() (kern/trap.c) with         *)
(* user_mem_assert() (kern/pmap.c) pushes a frame on the user exception    *)
(* stack, _pgfault_upcall (lib/pfentry.S) calls the C handler and returns  *)
(* to the instruction that faulted.  The handler may fault, and so may the *)
(* upcall when it pushes the return address on the trap-time stack, which  *)
(* can be copy-on-write: frames nest.                                      *)
(*                                                                         *)
(* Memory is a row of words.  The stack of the program is below the        *)
(* exception stack, with a gap in between that is not mapped.              *)
(***************************************************************************)
EXTENDS Integers, Sequences

CONSTANTS USTACKTOP,   \* the word above the program's stack, which starts at 1
          UXBASE,      \* the lowest word of the exception stack
          UXSTACKTOP   \* the word above it

(* The gap is a page in inc/memlayout.h; with two words a push under the    *)
(* exception stack already meets memory that is not mapped.                 *)
ASSUME StackAssumption ==
    /\ USTACKTOP \in Nat /\ UXBASE \in Nat /\ UXSTACKTOP \in Nat
    /\ 2 < USTACKTOP /\ USTACKTOP + 2 <= UXBASE /\ UXBASE < UXSTACKTOP

(* A struct UTrapframe, from its lowest word up: two of the registers, of   *)
(* the eight there are, and no error code.                                   *)
FAULT_VA == 0
EAX == 1
EBP == 2
EIP == 3
EFLAGS == 4
ESP == 5
SIZEOF == 6

(* Instructions: two of the program, one in the body of the C handler, and  *)
(* those of the upcall.                                                      *)
User == {101, 102}
Handler == 103
Upcall == 104     \* pushl %esp ... call *%eax
UPrep == 105      \* movl 0x28(%esp), %eax; subl $4, 0x30(%esp); movl 0x30(%esp), %ebp
UPush == 106      \* movl %eax, (%ebp)
URestore == 107   \* popl, popl, popal, addl $4, popfl
USwitch == 108    \* popl %esp
URet == 109       \* ret

(* What an access faults on: the program's stack page, or another page. *)
StackVa == 1
OtherVa == 2

VARIABLES
    mem,      \* the words of the two stacks
    cpu,      \* the registers: eip, esp, eax, ebp, eflags
    cow,      \* the program's stack page is copy-on-write
    alive,    \* the environment has not been destroyed
    trapped   \* history: per fault not yet returned from, the innermost last,
              \*   the registers and the words from esp up when it happened,
              \*   and where its frame is

upVars == <<mem, cpu, cow, alive, trapped>>

Words == (1..(USTACKTOP - 1)) \cup (UXBASE..(UXSTACKTOP - 1))
Regs == [eip : User \cup (Handler..URet), esp : 1..UXSTACKTOP, eax : Int, ebp : Int,
         eflags : Int]
OnXStack(a) == a >= UXBASE /\ a <= UXSTACKTOP - 1

(* The words in use on the stack esp is on. *)
Above(esp) == {a \in Words : esp <= a /\ (OnXStack(a) <=> esp >= UXBASE)}
Last(s) == s[Len(s)]

Init ==
    /\ mem = [a \in Words |-> 0]
    /\ cpu = [eip |-> 101, esp |-> USTACKTOP, eax |-> 0, ebp |-> 0, eflags |-> 0]
    /\ cow \in BOOLEAN
    /\ alive = TRUE
    /\ trapped = <<>>

-----------------------------------------------------------------------------
(* The kernel *)

(* Mutant: a recursive fault leaves no scratch word. *)
utf_addr_NoScratch ==
    IF OnXStack(cpu.esp) THEN cpu.esp - SIZEOF ELSE UXSTACKTOP - SIZEOF

(* Where the frame goes: under the trap-time stack, with a word in between, *)
(* if that is the exception stack.                                          *)
utf_addr == IF OnXStack(cpu.esp) THEN cpu.esp - SIZEOF - 1 ELSE UXSTACKTOP - SIZEOF

(* user_mem_assert(): every word of the frame is writable memory. *)
user_mem_check(va, len) == \A a \in va..(va + len - 1) : a \in Words

(* A fault on va at the current instruction, of the program, the handler or *)
(* the upcall; without memory for the frame the environment is destroyed.   *)
page_fault_handler(va) ==
    LET u == utf_addr IN
    /\ alive
    /\ IF user_mem_check(u, SIZEOF)
       THEN /\ mem' = [mem EXCEPT ![u + FAULT_VA] = va, ![u + EAX] = cpu.eax,
                                  ![u + EBP] = cpu.ebp, ![u + EIP] = cpu.eip,
                                  ![u + EFLAGS] = cpu.eflags, ![u + ESP] = cpu.esp]
            /\ cpu' = [cpu EXCEPT !.eip = Upcall, !.esp = u]
            /\ trapped' = Append(trapped, [cpu |-> cpu, utf |-> u,
                                           words |-> [a \in Above(cpu.esp) |-> mem[a]]])
            /\ UNCHANGED <<cow, alive>>
       ELSE alive' = FALSE /\ UNCHANGED <<mem, cpu, cow, trapped>>

-----------------------------------------------------------------------------
(* User code *)

At(eip) == alive /\ cpu.eip = eip

(* A push.  The program's stack keeps a free word: what is below it is not  *)
(* mapped.                                                                  *)
Push(w) ==
    /\ cpu.esp - 1 \in Words
    /\ mem' = [mem EXCEPT ![cpu.esp - 1] = w]

(* The program pushes, or computes and goes on. *)
Program ==
    /\ alive /\ cpu.eip \in User
    /\ \/ cpu.esp > 2 /\ ~cow /\ Push(cpu.eax) /\ cpu' = [cpu EXCEPT !.esp = @ - 1]
       \/ \E i \in User, v \in {0, 1}, f \in {0, 1} :
             cpu' = [cpu EXCEPT !.eip = i, !.eax = v, !.eflags = f] /\ UNCHANGED mem
    /\ UNCHANGED <<cow, alive, trapped>>

(* The program, or the handler, touches a page that is not there; or the    *)
(* program its stack.                                                       *)
Fault ==
    \/ alive /\ cpu.eip \in User \cup {Handler} /\ page_fault_handler(OtherVa)
    \/ alive /\ cpu.eip \in User /\ cow /\ page_fault_handler(StackVa)

(* The upcall pushes the argument and the return address and calls the      *)
(* handler; if there is no room for them the push faults.                   *)
CallHandler ==
    /\ At(Upcall)
    /\ IF cpu.esp - 2 \in Words
       THEN /\ mem' = [mem EXCEPT ![cpu.esp - 1] = cpu.esp, ![cpu.esp - 2] = UPrep]
            /\ cpu' = [cpu EXCEPT !.eip = Handler, !.esp = @ - 2]
            /\ UNCHANGED <<cow, alive, trapped>>
       ELSE page_fault_handler(OtherVa)

(* The handler pushes a local; if there is no room for it the push faults. *)
HandlerPush ==
    /\ At(Handler)
    /\ cpu.esp = Last(trapped).utf - 2
    /\ IF cpu.esp - 1 \in Words
       THEN /\ Push(cpu.eax)
            /\ cpu' = [cpu EXCEPT !.esp = @ - 1]
            /\ UNCHANGED <<cow, alive, trapped>>
       ELSE page_fault_handler(OtherVa)

(* The handler has dealt with the fault and returns; the upcall pops the    *)
(* argument.  The C code may have changed eax and the flags.                *)
HandlerReturn ==
    LET u == Last(trapped).utf IN
    /\ At(Handler)
    /\ cow' = (cow /\ mem[u + FAULT_VA] # StackVa)
    /\ \E v, f \in {0, 1} :
          cpu' = [cpu EXCEPT !.eip = mem[u - 2], !.esp = u, !.eax = v, !.eflags = f]
    /\ UNCHANGED <<mem, alive, trapped>>

Prepare ==
    /\ At(UPrep)
    /\ mem' = [mem EXCEPT ![cpu.esp + ESP] = @ - 1]
    /\ cpu' = [cpu EXCEPT !.eip = UPush, !.eax = mem[cpu.esp + EIP],
                          !.ebp = mem[cpu.esp + ESP] - 1]
    /\ UNCHANGED <<cow, alive, trapped>>

(* The return address goes to the trap-time stack, which may fault. *)
PushEip ==
    /\ At(UPush)
    /\ IF cow /\ ~OnXStack(cpu.ebp) THEN page_fault_handler(StackVa)
       ELSE /\ mem' = [mem EXCEPT ![cpu.ebp] = cpu.eax]
            /\ cpu' = [cpu EXCEPT !.eip = URestore]
            /\ UNCHANGED <<cow, alive, trapped>>

(* Mutant: the flags are skipped, not restored. *)
Restore_NoPopfl ==
    /\ At(URestore)
    /\ cpu' = [cpu EXCEPT !.eip = USwitch, !.eax = mem[cpu.esp + EAX],
                          !.ebp = mem[cpu.esp + EBP], !.esp = @ + ESP]
    /\ UNCHANGED <<mem, cow, alive, trapped>>

Restore ==
    /\ At(URestore)
    /\ cpu' = [cpu EXCEPT !.eip = USwitch, !.eax = mem[cpu.esp + EAX],
                          !.ebp = mem[cpu.esp + EBP], !.eflags = mem[cpu.esp + EFLAGS],
                          !.esp = @ + ESP]
    /\ UNCHANGED <<mem, cow, alive, trapped>>

Switch ==
    /\ At(USwitch)
    /\ cpu' = [cpu EXCEPT !.eip = URet, !.esp = mem[cpu.esp]]
    /\ UNCHANGED <<mem, cow, alive, trapped>>

Return ==
    /\ At(URet)
    /\ cpu' = [cpu EXCEPT !.eip = mem[cpu.esp], !.esp = @ + 1]
    /\ trapped' = SubSeq(trapped, 1, Len(trapped) - 1)
    /\ UNCHANGED <<mem, cow, alive>>

Next ==
    \/ Program \/ Fault \/ CallHandler \/ HandlerPush \/ HandlerReturn
    \/ Prepare \/ PushEip \/ Restore \/ Switch \/ Return

Spec == Init /\ [][Next]_upVars

-----------------------------------------------------------------------------
(* Properties *)

(* Where the stack pointer and the frames can be. *)
TypeOK ==
    /\ mem \in [Words -> Int]
    /\ cpu \in Regs
    /\ cow \in BOOLEAN /\ alive \in BOOLEAN
    /\ \A i \in 1..Len(trapped) : trapped[i].utf \in UXBASE..(UXSTACKTOP - SIZEOF)
    /\ cpu.eip \in User <=> trapped = <<>>

(***************************************************************************)
(* The upcall returns to the instruction that faulted with every register, *)
(* the flags and the stack pointer as they were, and with the stack in use *)
(* untouched, however deep the faults are nested.                          *)
(***************************************************************************)
ResumesWhereTrapped ==
    [][Return => LET t == Last(trapped) IN
                 /\ cpu' = t.cpu
                 /\ \A a \in DOMAIN t.words : mem[a] = t.words[a]]_upVars

(***************************************************************************)
(* While faults are nested, the frame of each is as the kernel wrote it,   *)
(* but for the stack pointer that the upcall has moved down by a word.     *)
(***************************************************************************)
FramesIntact ==
    \A i \in 1..Len(trapped) :
        LET t == trapped[i] IN
        /\ mem[t.utf + EIP] = t.cpu.eip
        /\ mem[t.utf + EFLAGS] = t.cpu.eflags
        /\ mem[t.utf + EAX] = t.cpu.eax
        /\ mem[t.utf + EBP] = t.cpu.ebp
        /\ mem[t.utf + ESP] \in {t.cpu.esp, t.cpu.esp - 1}

(***************************************************************************)
(* The exception stack is used for frames only where it is mapped, and no  *)
(* frame, nor the stack of a handler, overwrites the frame of an outer     *)
(* fault (page_fault_handler(), _pgfault_upcall).                          *)
(***************************************************************************)
StackSafe == TypeOK /\ FramesIntact
=============================================================================
