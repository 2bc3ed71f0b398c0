---------------------------- MODULE UpcallProofs ----------------------------
(***************************************************************************)
(* Proofs about user-level page faults (Upcall), for every layout of the   *)
(* two stacks and every depth of nesting: no frame is overwritten, and the *)
(* upcall returns to where the fault happened.                             *)
(***************************************************************************)
EXTENDS Upcall, SequenceTheorems, TLAPS

(***************************************************************************)
(* The inductive invariant.  Faults nest, so it speaks of levels: level n  *)
(* is the handling of the n-th fault not yet returned from, t = trapped[n] *)
(* what was noted of it, and c the registers of the code that handles it:  *)
(* the CPU's at the innermost level, the ones saved by the next fault at   *)
(* the others.                                                             *)
(***************************************************************************)
Ctx(n) == IF n < Len(trapped) THEN trapped[n + 1].cpu ELSE cpu

Traps == [cpu : Regs, utf : Nat,
          words : UNION {[Above(x) -> Int] : x \in 1..UXSTACKTOP}]

ProgramEsp(esp) == 2 <= esp /\ esp <= USTACKTOP

(* A frame is on the exception stack, at the top of it for a fault of the   *)
(* program, else a scratch word under the stack pointer of the outer level. *)
Placed(t) ==
    /\ UXBASE <= t.utf /\ t.utf + SIZEOF <= UXSTACKTOP
    /\ \/ ProgramEsp(t.cpu.esp) /\ t.cpu.eip \in User
       \/ t.utf + SIZEOF + 1 = t.cpu.esp /\ t.cpu.esp < UXSTACKTOP

(* What the kernel wrote in the frame and nobody changes. *)
Saved(m, t) ==
    /\ m[t.utf + EIP] = t.cpu.eip
    /\ m[t.utf + EFLAGS] = t.cpu.eflags
    /\ m[t.utf + EAX] = t.cpu.eax
    /\ m[t.utf + EBP] = t.cpu.ebp

(* The stack that was in use when the fault happened. *)
Kept(m, t) ==
    /\ t.words \in [Above(t.cpu.esp) -> Int]
    /\ \A a \in Above(t.cpu.esp) : m[a] = t.words[a]

(* How far the upcall is, from its first instruction to its last.  The      *)
(* stack pointer of the frame moves down a word in the middle, and the word *)
(* that makes room for then holds the return address.                       *)
Lowered(m, t) == m[t.utf + ESP] = t.cpu.esp - 1
Returns(m, t) == m[t.cpu.esp - 1] = t.cpu.eip
Restored(t, c) == c.eax = t.cpu.eax /\ c.ebp = t.cpu.ebp /\ c.eflags = t.cpu.eflags

Stage(m, t, c) ==
    \/ c.eip = Upcall /\ c.esp = t.utf /\ m[t.utf + ESP] = t.cpu.esp
    \/ /\ c.eip = Handler /\ c.esp \in {t.utf - 2, t.utf - 3} /\ UXBASE <= c.esp
       /\ m[t.utf - 2] = UPrep /\ m[t.utf + ESP] = t.cpu.esp
    \/ c.eip = UPrep /\ c.esp = t.utf /\ m[t.utf + ESP] = t.cpu.esp
    \/ /\ c.eip = UPush /\ c.esp = t.utf /\ Lowered(m, t)
       /\ c.eax = t.cpu.eip /\ c.ebp = t.cpu.esp - 1
    \/ c.eip = URestore /\ c.esp = t.utf /\ Lowered(m, t) /\ Returns(m, t)
    \/ /\ c.eip = USwitch /\ c.esp = t.utf + ESP /\ Restored(t, c)
       /\ Lowered(m, t) /\ Returns(m, t)
    \/ /\ c.eip = URet /\ c.esp = t.cpu.esp - 1 /\ Restored(t, c)
       /\ Lowered(m, t) /\ Returns(m, t)

Level(m, t, c) == Placed(t) /\ Saved(m, t) /\ Kept(m, t) /\ Stage(m, t, c)

(* Where a nested fault can happen. *)
Faulting == {Upcall, Handler, UPush}

Types ==
    /\ mem \in [Words -> Int]
    /\ cpu \in Regs
    /\ cow \in BOOLEAN /\ alive \in BOOLEAN
    /\ trapped \in Seq(Traps)

(* The levels, outermost first: the program, then handlers, each running    *)
(* further down the exception stack.                                        *)
Nested ==
    /\ trapped = <<>> => cpu.eip \in User /\ ProgramEsp(cpu.esp)
    /\ \A n \in 1..Len(trapped) :
          IF n = 1 THEN trapped[n].cpu.eip \in User /\ ProgramEsp(trapped[n].cpu.esp)
          ELSE /\ trapped[n].cpu.eip \in Faulting
               /\ trapped[n].utf + SIZEOF + 1 = trapped[n].cpu.esp
    /\ \A n, k \in 2..Len(trapped) : n <= k => trapped[k].cpu.esp <= trapped[n].cpu.esp

Levels == \A n \in 1..Len(trapped) : Level(mem, trapped[n], Ctx(n))

IInv == Types /\ Nested /\ Levels

USE DEF FAULT_VA, EAX, EBP, EIP, EFLAGS, ESP, SIZEOF,
        User, Handler, Upcall, UPrep, UPush, URestore, USwitch, URet, StackVa, OtherVa

-----------------------------------------------------------------------------
(* Facts about the definitions *)

(* The words of a frame that is on the exception stack are memory. *)
LEMMA WordsOfStack ==
    ASSUME NEW a \in Int
    PROVE  a \in Words <=> \/ 1 <= a /\ a < USTACKTOP
                           \/ UXBASE <= a /\ a < UXSTACKTOP
  BY StackAssumption DEF Words

(* A frame for which user_mem_assert() finds memory is on the exception     *)
(* stack as a whole, and a word under the stack in use: the gap below that  *)
(* stack cannot be skipped over.                                            *)
LEMMA FrameFits ==
    ASSUME NEW r \in Regs, NEW u,
           \/ r.esp <= USTACKTOP
           \/ UXBASE <= r.esp /\ r.esp < UXSTACKTOP,
           u = IF OnXStack(r.esp) THEN r.esp - SIZEOF - 1 ELSE UXSTACKTOP - SIZEOF,
           user_mem_check(u, SIZEOF)
    PROVE  /\ u \in Int
           /\ UXBASE <= u /\ u + SIZEOF <= UXSTACKTOP
           /\ OnXStack(r.esp) => u + SIZEOF + 1 = r.esp
           /\ \A x \in u..(u + 5) : x \in Words
  <1>1. r.esp \in Int /\ 1 <= r.esp
    BY StackAssumption DEF Regs
  <1>2. u \in Int /\ u + 5 < UXSTACKTOP /\ u + 5 >= UXBASE - 2
    BY <1>1, StackAssumption DEF OnXStack
  <1>3. \A a \in u..(u + 5) : a \in Words
    BY <1>2 DEF user_mem_check
  <1>4. ~ (u < UXBASE)
    <2> SUFFICES ASSUME u < UXBASE PROVE FALSE
      OBVIOUS
    <2>1. PICK b \in u..(u + 5) : b = UXBASE - 1 \/ b = UXBASE - 2
      <3>1. CASE u + 5 = UXBASE - 2
        BY <1>2, <3>1, StackAssumption
      <3>2. CASE u + 5 # UXBASE - 2
        BY <1>2, <3>2, StackAssumption
      <3> QED BY <3>1, <3>2
    <2>2. b \in Int /\ b \in Words
      BY <1>3, <2>1, StackAssumption
    <2> QED BY <2>1, <2>2, WordsOfStack, StackAssumption
  <1> QED BY <1>1, <1>2, <1>3, <1>4, StackAssumption DEF OnXStack

(* The words of a frame. *)
LEMMA FrameWords ==
    ASSUME NEW t, t.utf \in Nat, Placed(t)
    PROVE  \A d \in 0..5 : t.utf + d \in Int /\ t.utf + d \in Words
  <1> TAKE d \in 0..5
  <1>1. t.utf + d \in Int /\ UXBASE <= t.utf + d /\ t.utf + d < UXSTACKTOP
    BY StackAssumption DEF Placed
  <1> QED BY <1>1, WordsOfStack

(* Nothing below the end of a frame was in use when its fault happened; nor *)
(* was the word below the stack pointer.                                    *)
LEMMA NotAbove ==
    ASSUME NEW t, t.utf \in Nat, t.cpu \in Regs, Placed(t)
    PROVE  /\ \A a \in Int : UXBASE <= a /\ a <= t.utf + 5 => a \notin Above(t.cpu.esp)
           /\ t.cpu.esp - 1 \notin Above(t.cpu.esp)
  <1>1. t.cpu.esp \in Int
    BY StackAssumption DEF Regs
  <1> QED BY <1>1, StackAssumption DEF Placed, ProgramEsp, Above, OnXStack

(* A level whose code was interrupted, or is about to be, looks only at the *)
(* exception stack from its stack pointer up, and at the stack in use when  *)
(* its own fault happened.                                                  *)
LEMMA LevelLocal ==
    ASSUME NEW m \in [Words -> Int], NEW m2 \in [Words -> Int],
           NEW t \in Traps, NEW c \in Regs,
           Level(m, t, c), c.eip \in Faulting,
           \A a \in Words : a >= UXBASE /\ a >= c.esp => m2[a] = m[a],
           \A a \in Above(t.cpu.esp) : m2[a] = m[a]
    PROVE  Level(m2, t, c)
  <1>1. t.cpu \in Regs /\ t.utf \in Nat /\ c.esp \in Int
    BY StackAssumption DEF Traps, Regs
  <1>2. Placed(t) /\ Kept(m2, t)
    BY DEF Level, Kept
  <1>3. c.esp <= t.utf /\ UXBASE <= t.utf /\ t.utf + 6 <= UXSTACKTOP
    BY <1>1, StackAssumption DEF Level, Stage, Faulting, Placed
  <1>4. \A d \in 0..5 : t.utf + d \in Words /\ m2[t.utf + d] = m[t.utf + d]
    BY <1>1, <1>2, <1>3, FrameWords, StackAssumption
  <1>5. Saved(m2, t)
    BY <1>1, <1>4 DEF Saved, Level
  <1>6. c.eip = Handler => m2[t.utf - 2] = m[t.utf - 2]
    <2> SUFFICES ASSUME c.eip = Handler PROVE m2[t.utf - 2] = m[t.utf - 2]
      OBVIOUS
    <2>1. c.esp <= t.utf - 2 /\ UXBASE <= c.esp
      BY <1>1, StackAssumption DEF Level, Stage
    <2>2. t.utf - 2 \in Int /\ t.utf - 2 \in Words
      BY <1>1, <1>3, <2>1, WordsOfStack, StackAssumption
    <2> QED BY <1>1, <2>1, <2>2, StackAssumption
  <1>7. m2[t.utf + 5] = m[t.utf + 5]
    BY <1>4
  <1>8. Stage(m2, t, c)
    BY <1>6, <1>7 DEF Level, Stage, Faulting, Lowered
  <1> QED BY <1>2, <1>5, <1>8 DEF Level

(* Where a fault finds the stack pointer of a handler. *)
LEMMA FaultingEsp ==
    ASSUME NEW m, NEW t \in Traps, NEW c \in Regs, Level(m, t, c), c.eip \in Faulting
    PROVE  UXBASE <= c.esp /\ c.esp <= t.utf /\ c.esp < UXSTACKTOP
  <1>1. t.utf \in Nat /\ c.esp \in Int
    BY StackAssumption DEF Traps, Regs
  <1> QED BY <1>1, StackAssumption DEF Level, Stage, Faulting, Placed

(* The record of a level, and the registers of its code. *)
LEMMA LevelTypes ==
    ASSUME IInv, NEW n \in 1..Len(trapped)
    PROVE  /\ trapped[n] \in Traps /\ Ctx(n) \in Regs
           /\ trapped[n].cpu \in Regs /\ trapped[n].utf \in Nat
           /\ trapped[n].cpu.esp \in Int
           /\ n < Len(trapped) => Ctx(n) = trapped[n + 1].cpu /\ Ctx(n).eip \in Faulting
           /\ n = Len(trapped) => Ctx(n) = cpu
           /\ n # 1 => trapped[n].utf + 7 = trapped[n].cpu.esp
           /\ Level(mem, trapped[n], Ctx(n))
  <1>1. \A k \in 1..Len(trapped) : trapped[k] \in Traps
    BY DEF IInv, Types
  <1>2. \A k \in 1..Len(trapped) : trapped[k].cpu \in Regs /\ trapped[k].utf \in Nat
    BY <1>1 DEF Traps
  <1>3. Len(trapped) \in Nat
    BY DEF IInv, Types
  <1>6. n # 1 => trapped[n].utf + 7 = trapped[n].cpu.esp
    <2>1. n # 1 => trapped[n].utf + SIZEOF + 1 = trapped[n].cpu.esp
      BY DEF IInv, Nested
    <2> QED BY <1>2, <2>1
  <1>4. CASE n < Len(trapped)
    <2>1. n + 1 \in 1..Len(trapped) /\ n + 1 # 1
      BY <1>3, <1>4
    <2>2. Ctx(n) = trapped[n + 1].cpu /\ trapped[n + 1].cpu.eip \in Faulting
      BY <1>4, <2>1 DEF Ctx, IInv, Nested
    <2> QED BY <1>1, <1>2, <1>4, <1>6, <2>1, <2>2, StackAssumption DEF IInv, Levels, Regs
  <1>5. CASE ~ (n < Len(trapped))
    <2>1. n = Len(trapped) /\ Ctx(n) = cpu
      BY <1>3, <1>5 DEF Ctx
    <2> QED BY <1>1, <1>2, <1>5, <1>6, <2>1, StackAssumption DEF IInv, Types, Levels, Regs
  <1> QED BY <1>4, <1>5

(* The levels outside the innermost one stay as they are when memory        *)
(* changes only between the ends of the exception stack and the stack in    *)
(* use at the innermost fault.                                              *)
LEMMA OuterLevels ==
    ASSUME IInv, NEW n \in 1..Len(trapped), n < Len(trapped),
           NEW m2 \in [Words -> Int],
           \A a \in Words : ~ (UXBASE <= a /\ a < trapped[Len(trapped)].cpu.esp)
                                => m2[a] = mem[a]
    PROVE  Level(m2, trapped[n], Ctx(n))
  <1> DEFINE k == Len(trapped)
             t == trapped[n]
             c == Ctx(n)
  <1>1. k \in Nat /\ n + 1 \in 2..k /\ k \in 2..k
    BY DEF IInv, Types
  <1>2. trapped[k].cpu.esp <= trapped[n + 1].cpu.esp
    BY <1>1 DEF IInv, Nested
  <1>3. /\ t \in Traps /\ c \in Regs /\ c = trapped[n + 1].cpu /\ c.eip \in Faulting
        /\ Level(mem, t, c) /\ t.cpu.esp \in Int /\ mem \in [Words -> Int]
    BY LevelTypes DEF IInv, Types
  <1>4. trapped[k].cpu.esp \in Int /\ c.esp \in Int
    <2>1. k \in 1..Len(trapped)
      BY <1>1
    <2>2. trapped[k].cpu.esp \in Int
      BY ONLY <2>1, LevelTypes, IInv
    <2>3. c.esp \in Int
      BY ONLY <1>3, StackAssumption DEF Regs
    <2> QED BY <2>2, <2>3
  <1>5. \A a \in Words : a \in Int
    BY StackAssumption DEF Words
  <1>6. \A a \in Words : a >= UXBASE /\ a >= c.esp => m2[a] = mem[a]
    <2> SUFFICES ASSUME NEW a \in Words, a >= UXBASE, a >= c.esp
                 PROVE  ~ (a < trapped[k].cpu.esp)
      BY <1>5
    <2> HIDE DEF k, c
    <2> QED BY <1>2, <1>3, <1>4, <1>5
  <1>7. \A a \in Above(t.cpu.esp) : m2[a] = mem[a]
    <2> SUFFICES ASSUME NEW a \in Above(t.cpu.esp)
                 PROVE  ~ (UXBASE <= a /\ a < trapped[k].cpu.esp)
      BY DEF Above
    <2>1. a \in Words /\ a \in Int /\ t.cpu.esp <= a /\ (OnXStack(a) <=> t.cpu.esp >= UXBASE)
      BY <1>5 DEF Above
    <2>2. CASE n = 1
      <3>1. t.cpu.esp <= USTACKTOP
        BY <2>2 DEF IInv, Nested, ProgramEsp
      <3>2. ~ OnXStack(a)
        BY <1>3, <2>1, <3>1, StackAssumption
      <3>3. a < UXSTACKTOP
        BY <2>1, WordsOfStack, StackAssumption
      <3> QED BY <2>1, <3>2, <3>3, StackAssumption DEF OnXStack
    <2>3. CASE n # 1
      <3>1. n \in 2..k
        BY <1>1, <2>3
      <3>2. trapped[k].cpu.esp <= t.cpu.esp
        BY <1>1, <3>1 DEF IInv, Nested
      <3> HIDE DEF k, t
      <3> QED BY <1>3, <1>4, <2>1, <3>2
    <2> QED BY <2>2, <2>3
  <1> QED BY <1>3, <1>6, <1>7, LevelLocal

-----------------------------------------------------------------------------
(* The steps *)

(* A step of the innermost level. *)
LEMMA InnermostStep ==
    ASSUME IInv, trapped # <<>>, UNCHANGED trapped,
           mem' \in [Words -> Int], cpu' \in Regs, cow' \in BOOLEAN, alive' \in BOOLEAN,
           Len(trapped) >= 2 =>
               \A a \in Words : ~ (UXBASE <= a /\ a < trapped[Len(trapped)].cpu.esp)
                                    => mem'[a] = mem[a],
           Level(mem', trapped[Len(trapped)], cpu')
    PROVE  IInv'
  <1>1. Len(trapped) \in Nat
    BY DEF IInv, Types
  <1>2. Types' /\ Nested'
    BY DEF IInv, Types, Nested
  <1>3. ASSUME NEW n \in 1..Len(trapped)
        PROVE  Level(mem', trapped[n], IF n < Len(trapped) THEN trapped[n + 1].cpu ELSE cpu')
    <2>1. CASE n < Len(trapped)
      <3>1. \A a \in Words : ~ (UXBASE <= a /\ a < trapped[Len(trapped)].cpu.esp)
                                 => mem'[a] = mem[a]
        BY <1>1, <2>1
      <3>2. Level(mem', trapped[n], Ctx(n))
        BY <2>1, <3>1, OuterLevels
      <3> QED BY <2>1, <3>2 DEF Ctx
    <2>2. CASE ~ (n < Len(trapped))
      BY <1>1, <2>2
    <2> QED BY <2>1, <2>2
  <1>4. Levels'
    BY <1>3 DEF Levels, Ctx
  <1> QED BY <1>2, <1>4 DEF IInv

(* The innermost level. *)
LEMMA Innermost ==
    ASSUME IInv, trapped # <<>>
    PROVE  /\ Len(trapped) \in 1..Len(trapped)
           /\ trapped[Len(trapped)] \in Traps
           /\ trapped[Len(trapped)].cpu \in Regs
           /\ trapped[Len(trapped)].utf \in Nat
           /\ Level(mem, trapped[Len(trapped)], cpu)
  <1>1. Len(trapped) \in 1..Len(trapped)
    BY DEF IInv, Types
  <1>2. Ctx(Len(trapped)) = cpu
    BY <1>1 DEF Ctx
  <1> QED BY ONLY <1>1, <1>2, LevelTypes, IInv

(* Outside the program there is a fault not yet returned from. *)
LEMMA EipTells ==
    ASSUME IInv
    PROVE  /\ cpu.eip \in User <=> trapped = <<>>
           /\ cpu.eip \in User => ProgramEsp(cpu.esp)
  <1>1. CASE trapped = <<>>
    BY <1>1 DEF IInv, Nested
  <1>2. CASE trapped # <<>>
    <2>1. Stage(mem, trapped[Len(trapped)], cpu)
      BY <1>2, Innermost DEF Level
    <2>2. cpu.eip \notin User
      BY <2>1 DEF Stage
    <2> QED BY <1>2, <2>2
  <1> QED BY <1>1, <1>2

(* A fault: a new level, below what is in use. *)
LEMMA FaultStep ==
    ASSUME IInv, NEW va \in Int, page_fault_handler(va),
           cpu.eip \in User \cup Faulting
    PROVE  IInv'
  <1>1. PICK u : u = utf_addr
    OBVIOUS
  <1>2. CASE ~ user_mem_check(u, SIZEOF)
    <2>1. alive' = FALSE /\ UNCHANGED <<mem, cpu, cow, trapped>>
      BY <1>1, <1>2 DEF page_fault_handler
    <2> QED BY <2>1 DEF IInv, Types, Nested, Levels, Ctx
  <1>3. CASE user_mem_check(u, SIZEOF)
    <2> DEFINE k == Len(trapped)
               t == [cpu |-> cpu, utf |-> u, words |-> [a \in Above(cpu.esp) |-> mem[a]]]
    <2>1. /\ mem' = [mem EXCEPT ![u + FAULT_VA] = va, ![u + EAX] = cpu.eax,
                                ![u + EBP] = cpu.ebp, ![u + EIP] = cpu.eip,
                                ![u + EFLAGS] = cpu.eflags, ![u + ESP] = cpu.esp]
          /\ cpu' = [cpu EXCEPT !.eip = Upcall, !.esp = u]
          /\ trapped' = Append(trapped, t)
          /\ cow' = cow /\ alive' = alive
      BY <1>1, <1>3 DEF page_fault_handler
    <2>2. /\ mem \in [Words -> Int] /\ cpu \in Regs /\ trapped \in Seq(Traps) /\ k \in Nat
          /\ cow \in BOOLEAN /\ alive \in BOOLEAN
      BY DEF IInv, Types
    <2>3. cpu.esp \in Int /\ cpu.esp \in 1..UXSTACKTOP
      BY <2>2, StackAssumption DEF Regs
    <2>4. trapped # <<>> => /\ UXBASE <= cpu.esp /\ cpu.esp < UXSTACKTOP
                            /\ cpu.eip \in Faulting
                            /\ trapped[k].utf \in Nat
                            /\ cpu.esp <= trapped[k].utf
      <3> SUFFICES ASSUME trapped # <<>>
                   PROVE  /\ UXBASE <= cpu.esp /\ cpu.esp < UXSTACKTOP
                          /\ cpu.eip \in Faulting /\ trapped[k].utf \in Nat
                          /\ cpu.esp <= trapped[k].utf
        OBVIOUS
      <3>1. trapped[k] \in Traps /\ trapped[k].utf \in Nat /\ Level(mem, trapped[k], cpu)
        BY Innermost
      <3>2. cpu.eip \in Faulting
        BY EipTells
      <3> QED BY ONLY <2>2, <3>1, <3>2, FaultingEsp
    <2>5. trapped = <<>> => ProgramEsp(cpu.esp) /\ cpu.eip \in User
      BY EipTells
    <2>6. OnXStack(cpu.esp) <=> trapped # <<>>
      BY <2>3, <2>4, <2>5, StackAssumption DEF OnXStack, ProgramEsp
    <2>7. /\ u \in Int /\ UXBASE <= u /\ u + SIZEOF <= UXSTACKTOP
          /\ OnXStack(cpu.esp) => u + SIZEOF + 1 = cpu.esp
          /\ \A x \in u..(u + 5) : x \in Words
      <3>1. \/ cpu.esp <= USTACKTOP
            \/ UXBASE <= cpu.esp /\ cpu.esp < UXSTACKTOP
        BY <2>4, <2>5 DEF ProgramEsp
      <3>2. u = IF OnXStack(cpu.esp) THEN cpu.esp - SIZEOF - 1 ELSE UXSTACKTOP - SIZEOF
        BY <1>1 DEF utf_addr
      <3> QED BY ONLY <1>3, <2>2, <3>1, <3>2, FrameFits
    <2>8. /\ mem' \in [Words -> Int]
          /\ mem'[u] = va /\ mem'[u + 1] = cpu.eax /\ mem'[u + 2] = cpu.ebp
          /\ mem'[u + 3] = cpu.eip /\ mem'[u + 4] = cpu.eflags /\ mem'[u + 5] = cpu.esp
          /\ \A a \in Words : a \notin u..(u + 5) => mem'[a] = mem[a]
      <3>1. /\ u \in Words /\ u + 1 \in Words /\ u + 2 \in Words
            /\ u + 3 \in Words /\ u + 4 \in Words /\ u + 5 \in Words
        BY <2>7
      <3>2. /\ cpu.eax \in Int /\ cpu.ebp \in Int /\ cpu.eip \in Int
            /\ cpu.eflags \in Int /\ cpu.esp \in Int
        BY <2>2, <2>3 DEF Regs
      <3>3. u + 0 = u
        BY <2>7
      <3>4. \A a \in Words : a \in Int
        BY StackAssumption DEF Words
      <3>5. va \in Int /\ u + FAULT_VA \in Words
        BY <2>7, <3>1, <3>3
      <3>6. PICK m0 : m0 = [mem EXCEPT ![u + FAULT_VA] = va]
        OBVIOUS
      <3>7. /\ m0 \in [Words -> Int] /\ m0[u + 0] = va
            /\ \A a \in Words : a # u + 0 => m0[a] = mem[a]
        BY ONLY <2>2, <3>1, <3>2, <3>5, <3>6 DEF FAULT_VA
      <3>8. PICK m1 : m1 = [m0 EXCEPT ![u + EAX] = cpu.eax]
        OBVIOUS
      <3>9. /\ m1 \in [Words -> Int] /\ m1[u + 1] = cpu.eax
            /\ \A a \in Words : a # u + 1 => m1[a] = m0[a]
        BY ONLY <3>7, <3>1, <3>2, <3>5, <3>8 DEF EAX
      <3>10. PICK m2 : m2 = [m1 EXCEPT ![u + EBP] = cpu.ebp]
        OBVIOUS
      <3>11. /\ m2 \in [Words -> Int] /\ m2[u + 2] = cpu.ebp
            /\ \A a \in Words : a # u + 2 => m2[a] = m1[a]
        BY ONLY <3>9, <3>1, <3>2, <3>5, <3>10 DEF EBP
      <3>12. PICK m3 : m3 = [m2 EXCEPT ![u + EIP] = cpu.eip]
        OBVIOUS
      <3>13. /\ m3 \in [Words -> Int] /\ m3[u + 3] = cpu.eip
            /\ \A a \in Words : a # u + 3 => m3[a] = m2[a]
        BY ONLY <3>11, <3>1, <3>2, <3>5, <3>12 DEF EIP
      <3>14. PICK m4 : m4 = [m3 EXCEPT ![u + EFLAGS] = cpu.eflags]
        OBVIOUS
      <3>15. /\ m4 \in [Words -> Int] /\ m4[u + 4] = cpu.eflags
            /\ \A a \in Words : a # u + 4 => m4[a] = m3[a]
        BY ONLY <3>13, <3>1, <3>2, <3>5, <3>14 DEF EFLAGS
      <3>16. PICK m5 : m5 = [m4 EXCEPT ![u + ESP] = cpu.esp]
        OBVIOUS
      <3>17. /\ m5 \in [Words -> Int] /\ m5[u + 5] = cpu.esp
            /\ \A a \in Words : a # u + 5 => m5[a] = m4[a]
        BY ONLY <3>15, <3>1, <3>2, <3>5, <3>16 DEF ESP
      <3>18. mem' = m5
        BY <2>1, <3>6, <3>8, <3>10, <3>12, <3>14, <3>16
      <3> HIDE DEF Words
      <3> QED BY <2>7, <3>1, <3>3, <3>4, <3>7, <3>9, <3>11, <3>13, <3>15, <3>17, <3>18
    <2>9. /\ cpu' \in Regs /\ cpu'.eip = Upcall /\ cpu'.esp = u
      <3>1. u \in 1..UXSTACKTOP
        BY <2>7, StackAssumption
      <3>2. Upcall \in User \cup (Handler..URet)
        OBVIOUS
      <3> QED BY <2>1, <2>2, <3>1, <3>2 DEF Regs
    <2>10. t \in Traps /\ t.cpu = cpu /\ t.utf = u /\ t.words = [a \in Above(cpu.esp) |-> mem[a]]
      <3>1. [a \in Above(cpu.esp) |-> mem[a]] \in [Above(cpu.esp) -> Int]
        BY <2>2 DEF Above
      <3>2. u \in Nat
        BY <2>7, StackAssumption
      <3> QED BY <2>2, <2>3, <3>1, <3>2 DEF Traps
    <2> HIDE DEF t
    <2>11. Types'
      <3>1. Append(trapped, t) \in Seq(Traps)
        BY <2>2, <2>10
      <3> QED BY <2>1, <2>2, <2>8, <2>9, <3>1 DEF Types
    <2>12. /\ Len(trapped') = k + 1 /\ trapped'[k + 1] = t
           /\ \A n \in 1..k : trapped'[n] = trapped[n]
      BY <2>1, <2>2, <2>10
    <2>13. Nested'
      <3>1. trapped' # <<>>
        BY <2>2, <2>12
      <3>2. ASSUME NEW n \in 1..(k + 1)
            PROVE  IF n = 1 THEN trapped'[n].cpu.eip \in User /\ ProgramEsp(trapped'[n].cpu.esp)
                   ELSE /\ trapped'[n].cpu.eip \in Faulting
                        /\ trapped'[n].utf + SIZEOF + 1 = trapped'[n].cpu.esp
        <4>1. CASE n = k + 1
          <5>1. trapped'[n] = t /\ (n = 1 <=> trapped = <<>>)
            BY <2>2, <2>12, <4>1
          <5>2. CASE n = 1
            BY <2>5, <2>10, <5>1, <5>2
          <5>3. CASE n # 1
            BY <2>4, <2>6, <2>7, <2>10, <5>1, <5>3
          <5> QED BY <5>2, <5>3
        <4>2. CASE n # k + 1
          <5>1. n \in 1..k /\ trapped'[n] = trapped[n]
            BY <2>2, <2>12, <4>2
          <5> QED BY <5>1 DEF IInv, Nested
        <4> QED BY <4>1, <4>2
      <3>3. ASSUME NEW n \in 2..(k + 1), NEW j \in 2..(k + 1), n <= j
            PROVE  trapped'[j].cpu.esp <= trapped'[n].cpu.esp
        <4>1. CASE n = k + 1
          <5>1. n = j
            BY <2>2, <3>3, <4>1
          <5> QED BY <2>3, <2>10, <2>12, <4>1, <5>1
        <4>2. CASE n # k + 1 /\ j # k + 1
          <5>1. n \in 2..k /\ j \in 2..k /\ trapped'[n] = trapped[n] /\ trapped'[j] = trapped[j]
            BY <2>2, <2>12, <4>2
          <5> QED BY <3>3, <5>1 DEF IInv, Nested
        <4>3. CASE n # k + 1 /\ j = k + 1
          <5>1. n \in 2..k /\ k \in 2..k /\ trapped'[n] = trapped[n] /\ trapped'[j] = t
            BY <2>2, <2>12, <4>3
          <5>2. trapped[k].cpu.esp <= trapped[n].cpu.esp
            BY <5>1 DEF IInv, Nested
          <5>3. trapped[k].utf + 7 = trapped[k].cpu.esp /\ cpu.esp <= trapped[k].utf
            <6>1. trapped # <<>> /\ k # 1 /\ k \in 1..Len(trapped)
              BY <5>1
            <6>2. trapped[k].utf + 7 = trapped[k].cpu.esp
              BY ONLY <6>1, LevelTypes, IInv
            <6> QED BY <2>4, <6>1, <6>2
          <5>4. trapped[k].cpu.esp \in Int /\ trapped[n].cpu.esp \in Int /\ trapped[k].utf \in Nat
            <6>1. k \in 1..Len(trapped) /\ n \in 1..Len(trapped)
              BY <5>1
            <6> QED BY ONLY <6>1, LevelTypes, IInv
          <5> QED BY <2>3, <2>10, <5>1, <5>2, <5>3, <5>4
        <4> QED BY <4>1, <4>2, <4>3
      <3> QED BY <2>12, <3>1, <3>2, <3>3 DEF Nested
    <2>14. \A a \in Words : a \in Int
      BY StackAssumption DEF Words
    <2>15. Level(mem', t, cpu')
      <3>1. Placed(t)
        BY <2>4, <2>5, <2>6, <2>7, <2>10 DEF Placed
      <3>2. Saved(mem', t)
        BY <2>7, <2>8, <2>10 DEF Saved
      <3>3. Stage(mem', t, cpu')
        BY <2>7, <2>8, <2>9, <2>10 DEF Stage
      <3>4. Kept(mem', t)
        <4> SUFFICES ASSUME NEW a \in Above(cpu.esp)
                     PROVE  mem'[a] = mem[a]
          <5>1. t.words \in [Above(cpu.esp) -> Int]
            BY <2>2, <2>10 DEF Above
          <5> QED BY <2>10, <5>1 DEF Kept
        <4>1. a \in Words /\ a \in Int /\ cpu.esp <= a /\ (OnXStack(a) <=> cpu.esp >= UXBASE)
          BY <2>14 DEF Above
        <4>2. a \notin u..(u + 5)
          <5>1. CASE trapped = <<>>
            BY <2>3, <2>5, <2>7, <4>1, <5>1, StackAssumption DEF OnXStack, ProgramEsp
          <5>2. CASE trapped # <<>>
            BY <2>3, <2>6, <2>7, <4>1, <5>2
          <5> QED BY <5>1, <5>2
        <4> QED BY <2>8, <4>1, <4>2
      <3> QED BY <3>1, <3>2, <3>3, <3>4 DEF Level
    <2>16. ASSUME NEW n \in 1..k
           PROVE  Level(mem', trapped[n], Ctx(n))
      <3>1. trapped # <<>> /\ k \in 1..k
        BY <2>2
      <3>2. /\ u + 7 = cpu.esp /\ cpu.esp <= trapped[k].utf /\ trapped[k].utf \in Nat
            /\ cpu.eip \in Faulting
        BY <2>4, <2>6, <2>7, <3>1
      <3>3. CASE n < k
        <4>1. trapped[k].cpu.esp \in Int /\ trapped[k].utf + 7 = trapped[k].cpu.esp
          <5>1. k # 1
            <6> HIDE DEF k
            <6> QED BY <2>2, <3>3
          <5> QED BY ONLY <3>1, <5>1, LevelTypes, IInv
        <4>2. \A a \in Words : ~ (UXBASE <= a /\ a < trapped[k].cpu.esp) => mem'[a] = mem[a]
          <5> SUFFICES ASSUME NEW a \in Words, ~ (UXBASE <= a /\ a < trapped[k].cpu.esp)
                       PROVE  a \notin u..(u + 5)
            BY <2>8
          <5> QED BY <2>3, <2>7, <2>14, <3>2, <4>1, StackAssumption
        <4> QED BY <2>8, <3>3, <4>2, OuterLevels
      <3>4. CASE n = k
        <4>1. trapped[n] \in Traps /\ Level(mem, trapped[n], cpu) /\ Ctx(n) = cpu
          BY <3>1, <3>4, Innermost DEF Ctx
        <4>2. \A a \in Words : a >= UXBASE /\ a >= cpu.esp => mem'[a] = mem[a]
          <5> SUFFICES ASSUME NEW a \in Words, a >= cpu.esp
                       PROVE  a \notin u..(u + 5)
            BY <2>8
          <5> QED BY <2>3, <2>7, <2>14, <3>2
        <4>3. \A a \in Above(trapped[n].cpu.esp) : mem'[a] = mem[a]
          <5> SUFFICES ASSUME NEW a \in Above(trapped[n].cpu.esp)
                       PROVE  a \notin u..(u + 5)
            BY <2>8 DEF Above
          <5>1. a \in Words /\ a \in Int /\ trapped[n].cpu.esp <= a
                /\ (OnXStack(a) <=> trapped[n].cpu.esp >= UXBASE)
            BY <2>14 DEF Above
          <5>2. trapped[n].cpu.esp \in Int /\ Placed(trapped[n])
            <6>1. trapped[n].cpu.esp \in Int
              BY ONLY LevelTypes, IInv, n \in 1..k
            <6> QED BY <4>1, <6>1 DEF Level
          <5>5. trapped[n].utf \in Nat
            BY <3>2, <3>4
          <5>3. CASE ProgramEsp(trapped[n].cpu.esp)
            BY <2>7, <5>1, <5>2, <5>3, StackAssumption DEF ProgramEsp, OnXStack
          <5>4. CASE trapped[n].utf + 7 = trapped[n].cpu.esp
            BY <2>3, <2>7, <3>2, <3>4, <5>1, <5>2, <5>4
          <5> QED BY <5>2, <5>3, <5>4, <5>5 DEF Placed
        <4> QED BY <2>2, <2>8, <3>2, <4>1, <4>2, <4>3, LevelLocal
      <3> QED BY <2>2, <3>3, <3>4
    <2>17. Levels'
      <3>1. ASSUME NEW n \in 1..(k + 1)
            PROVE  Level(mem', trapped'[n],
                         IF n < k + 1 THEN trapped'[n + 1].cpu ELSE cpu')
        <4>1. CASE n = k + 1
          BY <2>2, <2>12, <2>15, <4>1
        <4>2. CASE n = k
          <5>1. n \in 1..k /\ Ctx(n) = cpu /\ trapped'[n + 1].cpu = cpu /\ n < k + 1
            BY <2>2, <2>10, <2>12, <4>2 DEF Ctx
          <5> QED BY <2>12, <2>16, <5>1
        <4>3. CASE n # k /\ n # k + 1
          <5>1. n \in 1..k /\ n + 1 \in 1..k /\ n < k /\ n < k + 1
            BY <2>2, <4>3
          <5>2. Ctx(n) = trapped'[n + 1].cpu
            BY <2>12, <5>1 DEF Ctx
          <5> QED BY <2>12, <2>16, <5>1, <5>2
        <4> QED BY <4>1, <4>2, <4>3
      <3> QED BY <2>12, <3>1 DEF Levels, Ctx
    <2> QED BY <2>11, <2>13, <2>17 DEF IInv
  <1> QED BY <1>2, <1>3

(* The program runs only while no fault is being handled. *)
LEMMA ProgramStep ==
    ASSUME IInv, Program
    PROVE  IInv'
  <1>1. /\ trapped = <<>> /\ cpu.eip \in User /\ ProgramEsp(cpu.esp)
        /\ trapped' = trapped /\ cow' = cow /\ alive' = alive
    BY EipTells DEF Program
  <1>2. mem \in [Words -> Int] /\ cpu \in Regs
    BY DEF IInv, Types
  <1>3. mem' \in [Words -> Int] /\ cpu' \in Regs /\ cpu'.eip \in User /\ ProgramEsp(cpu'.esp)
    <2>1. CASE cpu.esp > 2 /\ ~cow /\ Push(cpu.eax) /\ cpu' = [cpu EXCEPT !.esp = @ - 1]
      <3>1. cpu.eax \in Int /\ cpu.esp \in 1..UXSTACKTOP
        BY <1>2 DEF Regs
      <3>2. cpu.esp - 1 \in 1..UXSTACKTOP /\ ProgramEsp(cpu.esp - 1)
        BY <1>1, <2>1, <3>1, StackAssumption DEF ProgramEsp
      <3>3. mem' \in [Words -> Int]
        BY <1>2, <2>1, <3>1 DEF Push
      <3>4. cpu' \in Regs /\ cpu'.eip = cpu.eip /\ cpu'.esp = cpu.esp - 1
        BY <1>2, <2>1, <3>2 DEF Regs
      <3> QED BY <1>1, <3>2, <3>3, <3>4
    <2>2. ASSUME NEW i \in User, NEW v \in {0, 1}, NEW f \in {0, 1},
                 cpu' = [cpu EXCEPT !.eip = i, !.eax = v, !.eflags = f], UNCHANGED mem
          PROVE  /\ mem' \in [Words -> Int] /\ cpu' \in Regs
                 /\ cpu'.eip \in User /\ ProgramEsp(cpu'.esp)
      <3>2. i \in User \cup (Handler..URet) /\ v \in Int /\ f \in Int
        OBVIOUS
      <3>1. cpu' \in Regs /\ cpu'.eip = i /\ cpu'.esp = cpu.esp
        BY ONLY <1>2, <2>2, <3>2 DEF Regs
      <3> QED BY <1>1, <1>2, <2>2, <3>1
    <2> QED BY <2>1, <2>2 DEF Program
  <1>4. Types'
    BY <1>1, <1>3 DEF IInv, Types
  <1>5. Nested' /\ Levels'
    BY <1>1, <1>3 DEF Nested, Levels
  <1> QED BY <1>4, <1>5 DEF IInv

(* The upcall calls the handler: two words below the frame. *)
LEMMA CallStep ==
    ASSUME IInv, CallHandler
    PROVE  IInv'
  <1>0. PICK t : t = trapped[Len(trapped)]
    OBVIOUS
  <1>1. trapped # <<>> /\ cpu.eip = Upcall
    BY EipTells DEF CallHandler, At
  <1>2. CASE ~ (cpu.esp - 2 \in Words)
    <2>1. page_fault_handler(OtherVa)
      BY <1>2 DEF CallHandler
    <2> QED BY <1>1, <2>1, FaultStep DEF Faulting
  <1>3. CASE cpu.esp - 2 \in Words
    <2>1. /\ mem' = [mem EXCEPT ![cpu.esp - 1] = cpu.esp, ![cpu.esp - 2] = UPrep]
          /\ cpu' = [cpu EXCEPT !.eip = Handler, !.esp = @ - 2]
          /\ UNCHANGED <<cow, alive, trapped>>
      BY <1>3 DEF CallHandler
    <2>2. /\ t \in Traps /\ t.cpu \in Regs /\ t.utf \in Nat /\ Level(mem, t, cpu)
          /\ mem \in [Words -> Int] /\ cpu \in Regs /\ cow \in BOOLEAN /\ alive \in BOOLEAN
      BY <1>0, <1>1, Innermost DEF IInv, Types
    <2>3. cpu.esp = t.utf /\ mem[t.utf + 5] = t.cpu.esp
      BY <1>1, <2>2 DEF Level, Stage
    <2>4. /\ UXBASE <= t.utf - 2 /\ t.utf + 6 <= UXSTACKTOP /\ t.utf < UXSTACKTOP
          /\ t.utf - 1 \in Words /\ t.utf - 2 \in Words
      <3>1. UXBASE <= t.utf /\ t.utf + 6 <= UXSTACKTOP
        BY <2>2 DEF Level, Placed
      <3>2. t.utf - 2 \in Int /\ t.utf - 1 \in Int
        BY <2>2
      <3>3. UXBASE <= t.utf - 2
        BY <1>3, <2>2, <2>3, <3>1, <3>2, WordsOfStack, StackAssumption
      <3> QED BY <2>2, <3>1, <3>2, <3>3, WordsOfStack, StackAssumption
    <2>5. /\ mem' \in [Words -> Int] /\ mem'[t.utf - 2] = UPrep
          /\ \A a \in Words : a # t.utf - 1 /\ a # t.utf - 2 => mem'[a] = mem[a]
      BY <2>1, <2>2, <2>3, <2>4
    <2>6. cpu' \in Regs /\ cpu'.eip = Handler /\ cpu'.esp = t.utf - 2
      <3>1. t.utf - 2 \in 1..UXSTACKTOP
        BY <2>2, <2>4, StackAssumption
      <3>2. cpu' = [cpu EXCEPT !.eip = Handler, !.esp = t.utf - 2]
        BY <2>1, <2>2, <2>3
      <3>3. Handler \in User \cup (Handler..URet)
        OBVIOUS
      <3> QED BY ONLY <2>2, <3>1, <3>2, <3>3 DEF Regs
    <2>7. \A d \in 0..5 : t.utf + d \in Words /\ mem'[t.utf + d] = mem[t.utf + d]
      BY <2>2, <2>5, FrameWords DEF Level
    <2>8. \A a \in Words : a \in Int
      BY StackAssumption DEF Words
    <2>9. Kept(mem', t)
      <3>1. t.utf - 1 \notin Above(t.cpu.esp) /\ t.utf - 2 \notin Above(t.cpu.esp)
        BY <2>2, <2>4, NotAbove, StackAssumption DEF Level
      <3> QED BY <2>2, <2>5, <3>1 DEF Level, Kept, Above
    <2>10. Level(mem', t, cpu')
      BY <2>2, <2>3, <2>4, <2>5, <2>6, <2>7, <2>9 DEF Level, Saved, Stage
    <2>11. Len(trapped) >= 2 =>
               \A a \in Words : ~ (UXBASE <= a /\ a < t.cpu.esp) => mem'[a] = mem[a]
      <3> SUFFICES ASSUME Len(trapped) >= 2, NEW a \in Words,
                          ~ (UXBASE <= a /\ a < t.cpu.esp)
                   PROVE  a # t.utf - 1 /\ a # t.utf - 2
        BY <2>5
      <3>1. t.utf + 7 = t.cpu.esp
        BY <1>0, <1>1, Innermost, LevelTypes
      <3>2. t.utf - 1 \in Int /\ UXBASE <= t.utf - 2 /\ UXBASE <= t.utf - 1
            /\ t.utf - 1 < t.cpu.esp /\ t.utf - 2 < t.cpu.esp
        BY <2>2, <2>4, <3>1, StackAssumption
      <3> QED BY <2>8, <3>2
    <2> QED BY <1>0, <1>1, <2>1, <2>2, <2>5, <2>6, <2>10, <2>11, InnermostStep
  <1> QED BY <1>2, <1>3

(* The innermost level, under a name of its own. *)
LEMMA Current ==
    ASSUME IInv, trapped # <<>>, NEW t, t = trapped[Len(trapped)]
    PROVE  /\ t \in Traps /\ t.cpu \in Regs /\ t.utf \in Nat /\ t.cpu.esp \in Int
           /\ mem \in [Words -> Int] /\ cpu \in Regs /\ cpu.esp \in Int
           /\ cow \in BOOLEAN /\ alive \in BOOLEAN
           /\ Level(mem, t, cpu)
           /\ Len(trapped) >= 2 => t.utf + 7 = t.cpu.esp
           /\ \A d \in 0..5 : t.utf + d \in Int /\ t.utf + d \in Words
           /\ UXBASE <= t.utf /\ t.utf + 6 <= UXSTACKTOP
  <1>1. /\ t \in Traps /\ t.cpu \in Regs /\ t.utf \in Nat /\ Level(mem, t, cpu)
        /\ mem \in [Words -> Int] /\ cpu \in Regs /\ cow \in BOOLEAN /\ alive \in BOOLEAN
    BY Innermost DEF IInv, Types
  <1>2. Len(trapped) >= 2 => t.utf + 7 = t.cpu.esp
    BY Innermost, LevelTypes
  <1>3. t.cpu.esp \in Int /\ cpu.esp \in Int
    BY <1>1, StackAssumption DEF Regs
  <1>4. Placed(t)
    BY <1>1 DEF Level
  <1>5. \A d \in 0..5 : t.utf + d \in Int /\ t.utf + d \in Words
    BY <1>1, <1>4, FrameWords
  <1> QED BY <1>1, <1>2, <1>3, <1>4, <1>5 DEF Placed

(* The handler pushes a local. *)
LEMMA HandlerPushStep ==
    ASSUME IInv, HandlerPush
    PROVE  IInv'
  <1>0. PICK t : t = trapped[Len(trapped)]
    OBVIOUS
  <1>1. trapped # <<>> /\ cpu.eip = Handler
    BY EipTells DEF HandlerPush, At
  <1>2. CASE ~ (cpu.esp - 1 \in Words)
    <2>1. page_fault_handler(OtherVa)
      BY <1>2 DEF HandlerPush
    <2> QED BY <1>1, <2>1, FaultStep DEF Faulting
  <1>3. CASE cpu.esp - 1 \in Words
    <2>1. /\ mem' = [mem EXCEPT ![cpu.esp - 1] = cpu.eax]
          /\ cpu' = [cpu EXCEPT !.esp = @ - 1]
          /\ UNCHANGED <<cow, alive, trapped>>
          /\ cpu.esp = t.utf - 2
      BY <1>0, <1>3 DEF HandlerPush, Push, Last
    <2>2. t \in Traps /\ t.cpu \in Regs /\ Level(mem, t, cpu)
      BY <1>0, <1>1, Current
    <2>3. mem \in [Words -> Int] /\ cpu \in Regs /\ cow \in BOOLEAN /\ alive \in BOOLEAN
      BY <1>0, <1>1, Current
    <2>4. PICK u \in Nat : /\ u = t.utf /\ u + 6 <= UXSTACKTOP /\ cpu.esp = u - 2
                           /\ \A d \in 0..5 : u + d \in Words
      <3>1. t.utf \in Nat /\ t.utf + 6 <= UXSTACKTOP /\ \A d \in 0..5 : t.utf + d \in Words
        BY <1>0, <1>1, Current
      <3> QED BY <2>1, <3>1
    <2>5. mem[u - 2] = UPrep /\ mem[u + 5] = t.cpu.esp /\ UXBASE <= u - 2
      BY <1>1, <2>2, <2>4 DEF Level, Stage
    <2>6. cpu.esp - 1 = u - 3 /\ u - 3 \in Int /\ u - 2 \in Int
      BY ONLY <2>4
    <2>7. UXBASE <= u - 3 /\ u - 3 \in Words /\ u - 2 \in Words
      BY ONLY <1>3, <2>4, <2>5, <2>6, WordsOfStack, StackAssumption
    <2>8. /\ mem' \in [Words -> Int]
          /\ \A a \in Words : a # u - 3 => mem'[a] = mem[a]
      <3>1. cpu.eax \in Int
        BY <2>3 DEF Regs
      <3>2. mem' = [mem EXCEPT ![u - 3] = cpu.eax]
        BY <2>1, <2>6
      <3> QED BY ONLY <2>3, <2>7, <3>1, <3>2
    <2>9. cpu' \in Regs /\ cpu'.eip = Handler /\ cpu'.esp = u - 3
      <3>1. u - 3 \in 1..UXSTACKTOP
        BY ONLY <2>4, <2>7, StackAssumption
      <3>2. cpu' = [cpu EXCEPT !.esp = u - 3]
        BY <2>1, <2>6
      <3> QED BY ONLY <1>1, <2>3, <3>1, <3>2 DEF Regs
    <2>10. Kept(mem', t)
      <3>1. u - 3 \notin Above(t.cpu.esp)
        BY ONLY <2>2, <2>4, <2>7, NotAbove, StackAssumption DEF Level
      <3> QED BY <2>2, <2>8, <3>1 DEF Level, Kept, Above
    <2>11. Saved(mem', t) /\ mem'[t.utf + 5] = t.cpu.esp /\ mem'[t.utf - 2] = UPrep
      <3>1. \A d \in 0..5 : mem'[u + d] = mem[u + d]
        BY ONLY <2>4, <2>8
      <3>2. mem'[u - 2] = mem[u - 2]
        BY ONLY <2>4, <2>7, <2>8
      <3> QED BY <2>2, <2>4, <2>5, <3>1, <3>2 DEF Level, Saved
    <2>12. Level(mem', t, cpu')
      BY <2>2, <2>4, <2>7, <2>9, <2>10, <2>11 DEF Level, Stage
    <2>13. Len(trapped) >= 2 =>
               \A a \in Words : ~ (UXBASE <= a /\ a < t.cpu.esp) => mem'[a] = mem[a]
      <3> SUFFICES ASSUME Len(trapped) >= 2 PROVE UXBASE <= u - 3 /\ u - 3 < t.cpu.esp
        BY <2>8
      <3>1. t.utf + 7 = t.cpu.esp
        BY <1>0, <1>1, Current
      <3> QED BY ONLY <2>4, <2>7, <3>1
    <2> QED BY <1>0, <1>1, <2>1, <2>3, <2>8, <2>9, <2>12, <2>13, InnermostStep
  <1> QED BY <1>2, <1>3

(* The handler returns to the upcall: its return address is still there. *)
LEMMA HandlerReturnStep ==
    ASSUME IInv, HandlerReturn
    PROVE  IInv'
  <1>0. PICK t : t = trapped[Len(trapped)]
    OBVIOUS
  <1>1. trapped # <<>> /\ cpu.eip = Handler
    BY EipTells DEF HandlerReturn, At
  <1>2. /\ t \in Traps /\ t.utf \in Nat
        /\ mem \in [Words -> Int] /\ cpu \in Regs /\ alive \in BOOLEAN
        /\ Level(mem, t, cpu) /\ UXBASE <= t.utf /\ t.utf + 6 <= UXSTACKTOP
    BY <1>0, <1>1, Current
  <1>3. mem[t.utf - 2] = UPrep /\ mem[t.utf + 5] = t.cpu.esp
    BY <1>1, <1>2 DEF Level, Stage
  <1>4. PICK v \in {0, 1}, f \in {0, 1} :
           cpu' = [cpu EXCEPT !.eip = mem[t.utf - 2], !.esp = t.utf, !.eax = v, !.eflags = f]
    BY <1>0 DEF HandlerReturn, Last
  <1>5. cow' \in BOOLEAN /\ UNCHANGED <<mem, alive, trapped>>
    BY DEF HandlerReturn
  <1>6. cpu' \in Regs /\ cpu'.eip = UPrep /\ cpu'.esp = t.utf
    <2>1. cpu' = [cpu EXCEPT !.eip = UPrep, !.esp = t.utf, !.eax = v, !.eflags = f]
      BY <1>3, <1>4
    <2>2. /\ UPrep \in User \cup (Handler..URet) /\ v \in Int /\ f \in Int
          /\ t.utf \in 1..UXSTACKTOP
      BY <1>2, StackAssumption
    <2> QED BY ONLY <1>2, <2>1, <2>2 DEF Regs
  <1>7. Level(mem', t, cpu')
    BY <1>2, <1>3, <1>5, <1>6 DEF Level, Stage
  <1> QED BY <1>0, <1>1, <1>2, <1>5, <1>6, <1>7, InnermostStep

(* The stack pointer in the frame is lowered. *)
LEMMA PrepareStep ==
    ASSUME IInv, Prepare
    PROVE  IInv'
  <1>0. PICK t : t = trapped[Len(trapped)]
    OBVIOUS
  <1>1. trapped # <<>> /\ cpu.eip = UPrep
    BY EipTells DEF Prepare, At
  <1>2. t \in Traps /\ t.cpu \in Regs /\ Level(mem, t, cpu)
    BY <1>0, <1>1, Current
  <1>3. mem \in [Words -> Int] /\ cpu \in Regs /\ cow \in BOOLEAN /\ alive \in BOOLEAN
    BY <1>0, <1>1, Current
  <1>4. PICK u \in Nat : /\ u = t.utf /\ u + 6 <= UXSTACKTOP /\ cpu.esp = u /\ UXBASE <= u
                         /\ \A d \in 0..5 : u + d \in Words
    <2>1. /\ t.utf \in Nat /\ t.utf + 6 <= UXSTACKTOP /\ UXBASE <= t.utf
          /\ \A d \in 0..5 : t.utf + d \in Words
      BY <1>0, <1>1, Current
    <2>2. cpu.esp = t.utf
      BY <1>1, <1>2 DEF Level, Stage
    <2> QED BY <2>1, <2>2
  <1>5. PICK e \in Int : e = t.cpu.esp /\ mem[u + 5] = e /\ mem[u + 3] = t.cpu.eip
    <2>1. t.cpu.esp \in Int
      BY <1>0, <1>1, Current
    <2> QED BY <1>1, <1>2, <1>4, <2>1 DEF Level, Stage, Saved
  <1>6. /\ mem' = [mem EXCEPT ![u + 5] = e - 1]
        /\ cpu' = [cpu EXCEPT !.eip = UPush, !.eax = t.cpu.eip, !.ebp = e - 1]
        /\ UNCHANGED <<cow, alive, trapped>>
    BY <1>4, <1>5 DEF Prepare
  <1>7. /\ mem' \in [Words -> Int] /\ mem'[u + 5] = e - 1
        /\ \A a \in Words : a # u + 5 => mem'[a] = mem[a]
    BY ONLY <1>3, <1>4, <1>5, <1>6
  <1>8. /\ cpu' \in Regs /\ cpu'.eip = UPush /\ cpu'.esp = u
        /\ cpu'.eax = t.cpu.eip /\ cpu'.ebp = e - 1
    <2>1. t.cpu.eip \in Int /\ e - 1 \in Int /\ UPush \in User \cup (Handler..URet)
      BY <1>2, <1>5 DEF Regs
    <2> QED BY ONLY <1>3, <1>4, <1>6, <2>1 DEF Regs
  <1>9. Kept(mem', t)
    <2>1. u + 5 \notin Above(t.cpu.esp)
      BY ONLY <1>2, <1>4, NotAbove, StackAssumption DEF Level
    <2> QED BY <1>2, <1>7, <2>1 DEF Level, Kept, Above
  <1>10. Saved(mem', t) /\ Lowered(mem', t)
    <2>1. \A d \in 0..4 : mem'[u + d] = mem[u + d]
      BY ONLY <1>4, <1>7
    <2> QED BY <1>2, <1>4, <1>5, <1>7, <2>1 DEF Level, Saved, Lowered
  <1>11. Level(mem', t, cpu')
    BY <1>2, <1>4, <1>5, <1>8, <1>9, <1>10 DEF Level, Stage
  <1>12. Len(trapped) >= 2 =>
             \A a \in Words : ~ (UXBASE <= a /\ a < t.cpu.esp) => mem'[a] = mem[a]
    <2> SUFFICES ASSUME Len(trapped) >= 2 PROVE UXBASE <= u + 5 /\ u + 5 < t.cpu.esp
      BY <1>7
    <2>1. t.utf + 7 = t.cpu.esp
      BY <1>0, <1>1, Current
    <2> QED BY ONLY <1>4, <2>1, StackAssumption
  <1> QED BY <1>0, <1>1, <1>3, <1>6, <1>7, <1>8, <1>11, <1>12, InnermostStep

(* The return address is pushed where the fault happened, or that faults. *)
LEMMA PushEipStep ==
    ASSUME IInv, PushEip
    PROVE  IInv'
  <1>0. PICK t : t = trapped[Len(trapped)]
    OBVIOUS
  <1>1. trapped # <<>> /\ cpu.eip = UPush
    BY EipTells DEF PushEip, At
  <1>2. CASE cow /\ ~OnXStack(cpu.ebp)
    <2>1. page_fault_handler(StackVa)
      BY <1>2 DEF PushEip
    <2> QED BY <1>1, <2>1, FaultStep DEF Faulting
  <1>3. CASE ~ (cow /\ ~OnXStack(cpu.ebp))
    <2>1. t \in Traps /\ t.cpu \in Regs /\ Level(mem, t, cpu)
      BY <1>0, <1>1, Current
    <2>2. mem \in [Words -> Int] /\ cpu \in Regs /\ cow \in BOOLEAN /\ alive \in BOOLEAN
      BY <1>0, <1>1, Current
    <2>3. PICK u \in Nat : /\ u = t.utf /\ u + 6 <= UXSTACKTOP /\ UXBASE <= u
                           /\ \A d \in 0..5 : u + d \in Words
      <3>1. /\ t.utf \in Nat /\ t.utf + 6 <= UXSTACKTOP /\ UXBASE <= t.utf
            /\ \A d \in 0..5 : t.utf + d \in Words
        BY <1>0, <1>1, Current
      <3> QED BY <3>1
    <2>4. PICK e \in Int : e = t.cpu.esp /\ (ProgramEsp(e) \/ (u + 7 = e /\ e < UXSTACKTOP))
      <3>1. t.cpu.esp \in Int
        BY <1>0, <1>1, Current
      <3>2. PICK x \in Int : x = t.cpu.esp
        BY <3>1
      <3>3. ProgramEsp(x) \/ (u + 7 = x /\ x < UXSTACKTOP)
        BY <2>1, <2>3, <3>2, StackAssumption DEF Level, Placed, ProgramEsp
      <3> QED BY <3>2, <3>3
    <2>5. /\ cpu.esp = u /\ cpu.eax = t.cpu.eip /\ cpu.ebp = e - 1 /\ Lowered(mem, t)
      BY <1>1, <2>1, <2>3, <2>4 DEF Level, Stage
    <2>6. /\ mem' = [mem EXCEPT ![e - 1] = t.cpu.eip]
          /\ cpu' = [cpu EXCEPT !.eip = URestore]
          /\ UNCHANGED <<cow, alive, trapped>>
      BY <1>3, <2>5 DEF PushEip
    <2>7. e - 1 \in Int /\ e - 1 \in Words /\ t.cpu.eip \in Int
      <3>1. e - 1 \in Int /\ ((1 <= e - 1 /\ e - 1 < USTACKTOP) \/ (UXBASE <= e - 1 /\ e - 1 < UXSTACKTOP))
        BY ONLY <2>3, <2>4, StackAssumption DEF ProgramEsp
      <3>2. t.cpu.eip \in Int
        BY <2>1 DEF Regs
      <3> QED BY ONLY <3>1, <3>2, WordsOfStack
    <2>8. /\ mem' \in [Words -> Int] /\ mem'[e - 1] = t.cpu.eip
          /\ \A a \in Words : a # e - 1 => mem'[a] = mem[a]
      BY ONLY <2>2, <2>6, <2>7
    <2>9. cpu' \in Regs /\ cpu'.eip = URestore /\ cpu'.esp = u
      <3>1. URestore \in User \cup (Handler..URet)
        OBVIOUS
      <3> QED BY ONLY <2>2, <2>5, <2>6, <3>1 DEF Regs
    <2>10. Kept(mem', t)
      <3>1. e - 1 \notin Above(t.cpu.esp)
        BY ONLY <2>1, <2>3, <2>4, NotAbove, StackAssumption DEF Level
      <3> QED BY <2>1, <2>8, <3>1 DEF Level, Kept, Above
    <2>11. Saved(mem', t) /\ Lowered(mem', t) /\ Returns(mem', t)
      <3>1. \A d \in 0..5 : mem'[u + d] = mem[u + d]
        <4> TAKE d \in 0..5
        <4>1. u + d # e - 1
          BY ONLY <2>3, <2>4, StackAssumption, d \in 0..5 DEF ProgramEsp
        <4> QED BY <2>3, <2>8, <4>1
      <3> QED BY <2>1, <2>3, <2>4, <2>5, <2>8, <3>1 DEF Level, Saved, Lowered, Returns
    <2>12. Level(mem', t, cpu')
      BY <2>1, <2>3, <2>9, <2>10, <2>11 DEF Level, Stage
    <2>13. Len(trapped) >= 2 =>
               \A a \in Words : ~ (UXBASE <= a /\ a < t.cpu.esp) => mem'[a] = mem[a]
      <3> SUFFICES ASSUME Len(trapped) >= 2 PROVE UXBASE <= e - 1 /\ e - 1 < t.cpu.esp
        BY <2>8
      <3>1. t.utf + 7 = t.cpu.esp
        BY <1>0, <1>1, Current
      <3> QED BY ONLY <2>3, <2>4, <3>1, StackAssumption
    <2> QED BY <1>0, <1>1, <2>2, <2>6, <2>8, <2>9, <2>12, <2>13, InnermostStep
  <1> QED BY <1>2, <1>3

(* The registers are popped from the frame. *)
LEMMA RestoreStep ==
    ASSUME IInv, Restore
    PROVE  IInv'
  <1>0. PICK t : t = trapped[Len(trapped)]
    OBVIOUS
  <1>1. trapped # <<>> /\ cpu.eip = URestore
    BY EipTells DEF Restore, At
  <1>2. t \in Traps /\ t.cpu \in Regs /\ Level(mem, t, cpu)
    BY <1>0, <1>1, Current
  <1>3. mem \in [Words -> Int] /\ cpu \in Regs /\ cow \in BOOLEAN /\ alive \in BOOLEAN
    BY <1>0, <1>1, Current
  <1>4. t.utf \in Nat /\ t.utf + 6 <= UXSTACKTOP /\ UXBASE <= t.utf /\ cpu.esp = t.utf
    <2>1. t.utf \in Nat /\ t.utf + 6 <= UXSTACKTOP /\ UXBASE <= t.utf
      BY <1>0, <1>1, Current
    <2> QED BY <1>1, <1>2, <2>1 DEF Level, Stage
  <1>5. /\ mem[t.utf + EAX] = t.cpu.eax /\ mem[t.utf + EBP] = t.cpu.ebp
        /\ mem[t.utf + EFLAGS] = t.cpu.eflags
    BY <1>2 DEF Level, Saved
  <1>6. /\ cpu' = [cpu EXCEPT !.eip = USwitch, !.eax = t.cpu.eax, !.ebp = t.cpu.ebp,
                              !.eflags = t.cpu.eflags, !.esp = t.utf + 5]
        /\ UNCHANGED <<mem, cow, alive, trapped>>
    BY <1>4, <1>5 DEF Restore
  <1>7. /\ cpu' \in Regs /\ cpu'.eip = USwitch /\ cpu'.esp = t.utf + 5
        /\ cpu'.eax = t.cpu.eax /\ cpu'.ebp = t.cpu.ebp /\ cpu'.eflags = t.cpu.eflags
    <2>1. /\ t.cpu.eax \in Int /\ t.cpu.ebp \in Int /\ t.cpu.eflags \in Int
          /\ USwitch \in User \cup (Handler..URet)
      BY <1>2 DEF Regs
    <2>2. t.utf + 5 \in 1..UXSTACKTOP
      BY ONLY <1>4, StackAssumption
    <2> QED BY ONLY <1>3, <1>6, <2>1, <2>2 DEF Regs
  <1>8. Level(mem', t, cpu')
    BY <1>1, <1>2, <1>6, <1>7 DEF Level, Stage, Restored
  <1> QED BY <1>0, <1>1, <1>3, <1>6, <1>7, <1>8, InnermostStep

(* The stack is switched. *)
LEMMA SwitchStep ==
    ASSUME IInv, Switch
    PROVE  IInv'
  <1>0. PICK t : t = trapped[Len(trapped)]
    OBVIOUS
  <1>1. trapped # <<>> /\ cpu.eip = USwitch
    BY EipTells DEF Switch, At
  <1>2. t \in Traps /\ t.cpu \in Regs /\ Level(mem, t, cpu)
    BY <1>0, <1>1, Current
  <1>3. mem \in [Words -> Int] /\ cpu \in Regs /\ cow \in BOOLEAN /\ alive \in BOOLEAN
    BY <1>0, <1>1, Current
  <1>4. /\ cpu.esp = t.utf + 5 /\ mem[t.utf + 5] = t.cpu.esp - 1
        /\ Restored(t, cpu) /\ Lowered(mem, t) /\ Returns(mem, t)
    BY <1>1, <1>2 DEF Level, Stage, Lowered
  <1>5. /\ cpu' = [cpu EXCEPT !.eip = URet, !.esp = t.cpu.esp - 1]
        /\ UNCHANGED <<mem, cow, alive, trapped>>
    BY <1>4 DEF Switch
  <1>6. t.cpu.esp - 1 \in 1..UXSTACKTOP
    <2>1. t.cpu.esp \in 1..UXSTACKTOP
      BY <1>2 DEF Regs
    <2>2. t.cpu.esp >= 2
      <3>1. Placed(t) /\ t.utf \in Nat
        BY <1>0, <1>1, Current DEF Level
      <3> QED BY ONLY <2>1, <3>1, StackAssumption DEF Placed, ProgramEsp, SIZEOF
    <2> QED BY ONLY <2>1, <2>2, StackAssumption
  <1>7. /\ cpu' \in Regs /\ cpu'.eip = URet /\ cpu'.esp = t.cpu.esp - 1
        /\ cpu'.eax = cpu.eax /\ cpu'.ebp = cpu.ebp /\ cpu'.eflags = cpu.eflags
    <2>1. URet \in User \cup (Handler..URet)
      OBVIOUS
    <2> QED BY ONLY <1>3, <1>5, <1>6, <2>1 DEF Regs
  <1>8. Level(mem', t, cpu')
    BY <1>2, <1>4, <1>5, <1>7 DEF Level, Stage, Restored
  <1> QED BY <1>0, <1>1, <1>3, <1>5, <1>7, <1>8, InnermostStep

(* What the last instruction of the upcall finds: the registers and the     *)
(* stack of the moment of the fault.                                        *)
LEMMA ReturnResumes ==
    ASSUME IInv, Return
    PROVE  /\ cpu' = Last(trapped).cpu
           /\ \A a \in DOMAIN Last(trapped).words : mem[a] = Last(trapped).words[a]
  <1>0. PICK t : t = trapped[Len(trapped)]
    OBVIOUS
  <1>1. trapped # <<>> /\ cpu.eip = URet
    BY EipTells DEF Return, At
  <1>2. t.cpu \in Regs /\ t.cpu.esp \in Int /\ cpu \in Regs /\ Level(mem, t, cpu)
    BY <1>0, <1>1, Current
  <1>3. /\ cpu.esp = t.cpu.esp - 1 /\ mem[t.cpu.esp - 1] = t.cpu.eip
        /\ cpu.eax = t.cpu.eax /\ cpu.ebp = t.cpu.ebp /\ cpu.eflags = t.cpu.eflags
    BY <1>1, <1>2 DEF Level, Stage, Restored, Returns
  <1>4. cpu.esp + 1 = t.cpu.esp
    BY ONLY <1>2, <1>3
  <1>5. cpu' = [cpu EXCEPT !.eip = t.cpu.eip, !.esp = t.cpu.esp]
    BY <1>3, <1>4 DEF Return
  <1>6. cpu' = t.cpu
    BY ONLY <1>2, <1>3, <1>5 DEF Regs
  <1>7. \A a \in DOMAIN t.words : mem[a] = t.words[a]
    BY <1>2 DEF Level, Kept
  <1> QED BY <1>0, <1>6, <1>7 DEF Last

(* A level ends, and the one around it goes on. *)
LEMMA ReturnStep ==
    ASSUME IInv, Return
    PROVE  IInv'
  <1> DEFINE k == Len(trapped)
  <1>1. trapped # <<>>
    BY EipTells DEF Return, At
  <1>2. /\ trapped \in Seq(Traps) /\ k \in Nat /\ k >= 1 /\ mem \in [Words -> Int]
        /\ cow \in BOOLEAN /\ alive \in BOOLEAN
    BY <1>1 DEF IInv, Types
  <1>3. /\ trapped' = SubSeq(trapped, 1, k - 1) /\ UNCHANGED <<mem, cow, alive>>
    BY DEF Return
  <1>4. /\ trapped' \in Seq(Traps) /\ Len(trapped') = k - 1
        /\ \A n \in 1..(k - 1) : trapped'[n] = trapped[n]
    <2> HIDE DEF k
    <2>1. \A n \in 1..(k - 1) : trapped[n] \in Traps
      BY <1>2 DEF k
    <2>2. PICK j \in Int : j = k - 1
      BY <1>2
    <2>3. /\ SubSeq(trapped, 1, j) \in Seq(Traps)
          /\ Len(SubSeq(trapped, 1, j)) = IF 1 <= j THEN j - 1 + 1 ELSE 0
          /\ \A n \in 1..(j - 1 + 1) : SubSeq(trapped, 1, j)[n] = trapped[1 + n - 1]
      BY ONLY <2>1, <2>2, SubSeqProperties
    <2>4. \A n \in 1..(k - 1) : n \in 1..(j - 1 + 1) /\ 1 + n - 1 = n
      BY <1>2, <2>2
    <2>5. Len(SubSeq(trapped, 1, j)) = k - 1
      BY <1>2, <2>2, <2>3
    <2> QED BY ONLY <1>3, <2>2, <2>3, <2>4, <2>5
  <1>5. cpu' = trapped[k].cpu
    BY ReturnResumes DEF Last
  <1>6. k \in 1..k /\ trapped[k].cpu \in Regs
    BY <1>1, Innermost
  <1>7. Types'
    BY <1>2, <1>3, <1>4, <1>5, <1>6 DEF Types
  <1>8. Nested'
    <2>1. trapped' = <<>> => cpu'.eip \in User /\ ProgramEsp(cpu'.esp)
      <3> SUFFICES ASSUME trapped' = <<>> PROVE k = 1
        BY <1>5, <1>6 DEF IInv, Nested
      <3> QED BY <1>2, <1>4
    <2>2. \A n \in 1..(k - 1) : n \in 1..k
      BY <1>2
    <2>3. \A n \in 2..(k - 1) : n \in 2..k /\ n \in 1..(k - 1)
      BY <1>2
    <2> QED BY <1>4, <2>1, <2>2, <2>3 DEF IInv, Nested
  <1>9. Levels'
    <2>1. ASSUME NEW n \in 1..(k - 1)
          PROVE  Level(mem, trapped[n], IF n < k - 1 THEN trapped'[n + 1].cpu ELSE cpu')
      <3>1. n \in 1..k /\ n < k
        BY <1>2
      <3>2. Ctx(n) = trapped[n + 1].cpu /\ Level(mem, trapped[n], Ctx(n))
        BY <3>1 DEF Ctx, IInv, Levels
      <3>3. CASE n < k - 1
        <4>1. n + 1 \in 1..(k - 1)
          BY <1>2, <3>3
        <4> QED BY <1>4, <3>2, <3>3, <4>1
      <3>4. CASE ~ (n < k - 1)
        <4>1. n + 1 = k
          BY <1>2, <3>4
        <4> QED BY <1>5, <3>2, <3>4, <4>1
      <3> QED BY <3>3, <3>4
    <2> QED BY <1>3, <1>4, <2>1 DEF Levels, Ctx
  <1> QED BY <1>7, <1>8, <1>9 DEF IInv

-----------------------------------------------------------------------------
(* The theorems *)

LEMMA InitInv ==
    ASSUME Init
    PROVE  IInv
  <1>1. Types
    <2>1. USTACKTOP \in 1..UXSTACKTOP
      BY StackAssumption
    <2> QED BY <2>1 DEF Init, Types, Regs
  <1>2. Nested /\ Levels
    BY StackAssumption DEF Init, Nested, Levels, ProgramEsp
  <1> QED BY <1>1, <1>2 DEF IInv

LEMMA NextInv ==
    ASSUME IInv, [Next]_upVars
    PROVE  IInv'
  <1>1. CASE Fault
    <2>1. \E va \in Int : page_fault_handler(va) /\ cpu.eip \in User \cup Faulting
      BY <1>1 DEF Fault, Faulting
    <2> QED BY <2>1, FaultStep
  <1>2. CASE UNCHANGED upVars
    BY <1>2 DEF upVars, IInv, Types, Nested, Levels, Ctx
  <1> QED BY <1>1, <1>2, ProgramStep, CallStep, HandlerPushStep, HandlerReturnStep,
             PrepareStep, PushEipStep, RestoreStep, SwitchStep, ReturnStep DEF Next

(* The invariant gives what the run checks. *)
LEMMA InvSafe ==
    ASSUME IInv
    PROVE  StackSafe
  <1>1. ASSUME NEW n \in 1..Len(trapped)
        PROVE  /\ trapped[n].utf \in UXBASE..(UXSTACKTOP - SIZEOF)
               /\ Saved(mem, trapped[n])
               /\ mem[trapped[n].utf + ESP] \in {trapped[n].cpu.esp, trapped[n].cpu.esp - 1}
    <2>1. PICK t : t = trapped[n]
      OBVIOUS
    <2>2. PICK c : c = Ctx(n)
      OBVIOUS
    <2>3. Level(mem, t, c) /\ t.utf \in Nat /\ t.cpu.esp \in Int
      BY <2>1, <2>2, LevelTypes
    <2>4. t.utf \in UXBASE..(UXSTACKTOP - SIZEOF)
      BY <2>3, StackAssumption DEF Level, Placed
    <2>5. mem[t.utf + ESP] \in {t.cpu.esp, t.cpu.esp - 1}
      BY <2>3 DEF Level, Stage, Lowered
    <2> QED BY <2>1, <2>3, <2>4, <2>5 DEF Level
  <1>2. FramesIntact
    BY <1>1 DEF FramesIntact, Saved
  <1>3. TypeOK
    BY <1>1, EipTells DEF IInv, Types, TypeOK
  <1> QED BY <1>2, <1>3 DEF StackSafe

(* The invariant holds in every state, for stacks of any size and faults    *)
(* nested to any depth.                                                     *)
THEOREM UpcallInvariant == Spec => []IInv
  BY InitInv, NextInv, PTL DEF Spec

(* page_fault_handler() and _pgfault_upcall use the exception stack only    *)
(* where it is mapped, and neither a nested frame nor the stack of a        *)
(* handler overwrites the frame of an outer fault.                          *)
THEOREM FramesSafe == Spec => []StackSafe
  BY UpcallInvariant, InvSafe, PTL

(* The ret of _pgfault_upcall leaves every register, the flags, the stack   *)
(* pointer and the stack in use as they were when the fault happened.       *)
THEOREM UpcallResumes == Spec => ResumesWhereTrapped
  <1>1. ASSUME IInv, [Next]_upVars
        PROVE  [Return => LET t == Last(trapped) IN
                          /\ cpu' = t.cpu
                          /\ \A a \in DOMAIN t.words : mem[a] = t.words[a]]_upVars
    BY <1>1, ReturnResumes
  <1> QED BY <1>1, UpcallInvariant, PTL DEF Spec, ResumesWhereTrapped
=============================================================================
