-------------------------------- MODULE Fork --------------------------------
(***************************************************************************)
(* Copy-on-write fork in user space: fork(), duppage() and pgfault() of    *)
(* lib/fork.c with set_pgfault_handler() of lib/pgfault.c, on top of the   *)
(* system calls and of page_fault_handler() (kern/trap.c).                 *)
(*                                                                         *)
(* Each system call is a step, and so is the memcpy() between two of them. *)
(* Environments run in any interleaving.  A program that is inside fork()  *)
(* still runs on its stack: it may write to its stack page, and fault on   *)
(* it, between any two of its system calls.                                *)
(*                                                                         *)
(* panic() of the library executes int3 for ever (lib/panic.c).  The first *)
(* one panics the kernel, whose assertion that interrupts are off fails in *)
(* a trap gate (kern/trap.c); from then on a CPU that traps halts, and the *)
(* programs go no further than user code takes them.                       *)
(***************************************************************************)
EXTENDS Naturals, FiniteSets

CONSTANTS Envs,      \* slots of envs[]
          Root,      \* the slot of the environment that is there at boot
          Pages,     \* physical pages
          TextPage, DataPage, StackPage,   \* those the first program is loaded in
          MAXFORK,   \* bound: calls of fork()
          NULL

ASSUME ForkAssumption ==
    /\ Root \in Envs
    /\ {TextPage, DataPage, StackPage} \subseteq Pages
    /\ TextPage # DataPage /\ DataPage # StackPage /\ TextPage # StackPage
    /\ MAXFORK \in Nat
    /\ NULL \notin Pages \cup Envs /\ 0 \notin Envs

(***************************************************************************)
(* The virtual pages below USTACKTOP in the order the loop of fork() meets *)
(* them: a read-only one, the one with the program's data, of which we     *)
(* follow the variable thisenv, and the stack, of which we follow who has  *)
(* written to it.                                                          *)
(***************************************************************************)
Text == 1
Data == 2
Stack == 3
VAs == Text..Stack
Words == Envs \cup {0}

ASSUME NullAssumption == NULL \notin VAs /\ NULL \notin {"r", "w", "cow"}

NoMap == [page |-> NULL, perm |-> NULL]
Ptes == {NoMap} \cup [page : Pages, perm : {"r", "w", "cow"}]

VARIABLES
    env_status,   \* per slot: FREE, RUNNABLE (running included), NOT_RUNNABLE
    pte,          \* per slot and virtual page: the mapping
    pftemp,       \* per slot: the page mapped at PFTEMP, or NULL
    xstack,       \* per slot: the exception stack is mapped
    env_pgfault_upcall,  \* per slot: the upcall is set
    pgfault_handler,     \* per slot: _pgfault_handler, part of its data
    pc,           \* per slot: where in fork() it is, see Steps
    envid,        \* per slot: the child fork() is making
    addr,         \* per slot: the loop variable of fork()
    fault,        \* per slot: the virtual page pgfault() is handling, or NULL
    hpc,          \* per slot: where in pgfault() it is
    word,         \* per physical page: what is stored there
    want,         \* history, per slot and page: what the program itself has
                  \*   written there, or had there when it was forked
    nfork,        \* calls of fork() made, for MAXFORK
    panicstr      \* the kernel has panicked

progVars == <<pc, envid, addr>>
faultVars == <<fault, hpc>>
setupVars == <<xstack, env_pgfault_upcall, pgfault_handler>>
forkVars == <<env_status, pte, pftemp, setupVars, progVars, faultVars, word, want, nfork, panicstr>>

(***************************************************************************)
(* run: outside fork(); sph_stack, sph_upcall: set_pgfault_handler() about *)
(* to call the kernel; sph_store: about to store the handler; exofork;     *)
(* dup, dup2: duppage() about to map the page into the child, and its own  *)
(* again; xstack, upcall, status: the last three calls; child: returned    *)
(* from sys_exofork() in the child; panic: in panic() of the library.      *)
(***************************************************************************)
Steps == {"run", "sph_stack", "sph_upcall", "sph_store", "exofork", "dup", "dup2", "xstack",
          "upcall", "status", "child", "panic"}

TypeOK ==
    /\ env_status \in [Envs -> {"FREE", "RUNNABLE", "NOT_RUNNABLE"}]
    /\ pte \in [Envs -> [VAs -> Ptes]]
    /\ pftemp \in [Envs -> Pages \cup {NULL}]
    /\ xstack \in [Envs -> BOOLEAN]
    /\ env_pgfault_upcall \in [Envs -> BOOLEAN]
    /\ pgfault_handler \in [Envs -> BOOLEAN]
    /\ pc \in [Envs -> Steps]
    /\ envid \in [Envs -> Envs \cup {NULL}]
    /\ addr \in [Envs -> VAs]
    /\ fault \in [Envs -> VAs \cup {NULL}]
    /\ hpc \in [Envs -> {"alloc", "copy", "map", "unmap", "panic"}]
    /\ word \in [Pages -> Words]
    /\ want \in [Envs -> [VAs -> Words]]
    /\ nfork \in 0..MAXFORK
    /\ panicstr \in BOOLEAN

Init ==
    /\ env_status = [e \in Envs |-> IF e = Root THEN "RUNNABLE" ELSE "FREE"]
    /\ pte = [e \in Envs |-> [va \in VAs |->
                IF e # Root THEN NoMap
                ELSE CASE va = Text -> [page |-> TextPage, perm |-> "r"]
                       [] va = Data -> [page |-> DataPage, perm |-> "w"]
                       [] va = Stack -> [page |-> StackPage, perm |-> "w"]]]
    /\ pftemp = [e \in Envs |-> NULL]
    /\ xstack = [e \in Envs |-> FALSE]
    /\ env_pgfault_upcall = [e \in Envs |-> FALSE]
    /\ pgfault_handler = [e \in Envs |-> FALSE]
    /\ pc = [e \in Envs |-> "run"]
    /\ envid = [e \in Envs |-> NULL]
    /\ addr = [e \in Envs |-> Text]
    /\ fault = [e \in Envs |-> NULL]
    /\ hpc = [e \in Envs |-> "alloc"]
    /\ word = [p \in Pages |-> IF p = DataPage THEN Root ELSE 0]
    /\ want = [e \in Envs |-> [va \in VAs |-> IF e = Root /\ va = Data THEN Root ELSE 0]]
    /\ nfork = 0
    /\ panicstr = FALSE

-----------------------------------------------------------------------------
(* The kernel's part *)

InUse == {pte[e][va].page : e \in Envs, va \in VAs} \cup {pftemp[e] : e \in Envs}
FreePages == Pages \ InUse
FreshPage == CHOOSE p \in FreePages : TRUE

(* env_destroy() of an environment that exits, or faults with no upcall. *)
Destroy(e) ==
    /\ env_status' = [env_status EXCEPT ![e] = "FREE"]
    /\ pte' = [pte EXCEPT ![e] = [va \in VAs |-> NoMap]]
    /\ pftemp' = [pftemp EXCEPT ![e] = NULL]
    /\ xstack' = [xstack EXCEPT ![e] = FALSE]
    /\ env_pgfault_upcall' = [env_pgfault_upcall EXCEPT ![e] = FALSE]
    /\ pgfault_handler' = [pgfault_handler EXCEPT ![e] = FALSE]
    /\ pc' = [pc EXCEPT ![e] = "run"]
    /\ envid' = [envid EXCEPT ![e] = NULL]
    /\ addr' = [addr EXCEPT ![e] = Text]
    /\ fault' = [fault EXCEPT ![e] = NULL]
    /\ hpc' = [hpc EXCEPT ![e] = "alloc"]
    /\ want' = [want EXCEPT ![e] = [va \in VAs |-> 0]]
    /\ UNCHANGED <<word, nfork, panicstr>>

(* Executing its program, in user mode, outside pgfault(). *)
Runs(e) == env_status[e] = "RUNNABLE" /\ fault[e] = NULL

(* A program writes to its stack at any time, the child's part of fork() to *)
(* thisenv, set_pgfault_handler() to _pgfault_handler, which is in the page *)
(* of thisenv.                                                              *)
Writes(e, va) == va = Stack \/ (va = Data /\ pc[e] = "child")
Stores(e, va) == Writes(e, va) \/ (va = Data /\ pc[e] = "sph_store")

Write(e, va) ==
    /\ Runs(e)
    /\ Writes(e, va)
    /\ pte[e][va].perm = "w"
    /\ word' = [word EXCEPT ![pte[e][va].page] = e]
    /\ want' = [want EXCEPT ![e][va] = e]
    /\ pc' = [pc EXCEPT ![e] = IF va = Data THEN "run" ELSE @]
    /\ UNCHANGED <<env_status, pte, pftemp, setupVars, envid, addr, faultVars, nfork, panicstr>>

(* page_fault_handler(): a write that the page table does not allow goes to *)
(* the upcall if there is one and its stack is there, and is repeated when  *)
(* the upcall returns; otherwise the environment is destroyed.              *)
page_fault_handler(e, va) ==
    /\ Runs(e)
    /\ Stores(e, va)
    /\ pte[e][va].perm # "w"
    /\ IF env_pgfault_upcall[e] /\ xstack[e]
       THEN /\ fault' = [fault EXCEPT ![e] = va]
            /\ hpc' = [hpc EXCEPT ![e] = "alloc"]
            /\ UNCHANGED <<env_status, pte, pftemp, setupVars, progVars, word, want, nfork,
                           panicstr>>
       ELSE Destroy(e)

-----------------------------------------------------------------------------
(* pgfault() *)

Handles(e, step) == env_status[e] = "RUNNABLE" /\ fault[e] # NULL /\ hpc[e] = step

(* The check that the page is copy-on-write, and sys_page_alloc(). *)
FaultAlloc(e) ==
    /\ Handles(e, "alloc")
    /\ pte[e][fault[e]].perm = "cow"
    /\ FreePages # {}
    /\ pftemp' = [pftemp EXCEPT ![e] = FreshPage]
    /\ word' = [word EXCEPT ![FreshPage] = 0]
    /\ hpc' = [hpc EXCEPT ![e] = "copy"]
    /\ UNCHANGED <<env_status, pte, setupVars, progVars, fault, want, nfork, panicstr>>

FaultCopy(e) ==
    /\ Handles(e, "copy")
    /\ word' = [word EXCEPT ![pftemp[e]] = word[pte[e][fault[e]].page]]
    /\ hpc' = [hpc EXCEPT ![e] = "map"]
    /\ UNCHANGED <<env_status, pte, pftemp, setupVars, progVars, fault, want, nfork, panicstr>>

(* Mutant: the private copy is marked copy-on-write again. *)
FaultMap_Cow(e) ==
    /\ Handles(e, "map")
    /\ pte' = [pte EXCEPT ![e][fault[e]] = [page |-> pftemp[e], perm |-> "cow"]]
    /\ hpc' = [hpc EXCEPT ![e] = "unmap"]
    /\ UNCHANGED <<env_status, pftemp, setupVars, progVars, fault, word, want, nfork, panicstr>>

FaultMap(e) ==
    /\ Handles(e, "map")
    /\ pte' = [pte EXCEPT ![e][fault[e]] = [page |-> pftemp[e], perm |-> "w"]]
    /\ hpc' = [hpc EXCEPT ![e] = "unmap"]
    /\ UNCHANGED <<env_status, pftemp, setupVars, progVars, fault, word, want, nfork, panicstr>>

FaultUnmap(e) ==
    /\ Handles(e, "unmap")
    /\ pftemp' = [pftemp EXCEPT ![e] = NULL]
    /\ fault' = [fault EXCEPT ![e] = NULL]
    /\ hpc' = [hpc EXCEPT ![e] = "alloc"]
    /\ UNCHANGED <<env_status, pte, setupVars, progVars, word, want, nfork, panicstr>>

(* A panic in pgfault(): not a copy-on-write page, or no memory for the     *)
(* page or for the page table of PFTEMP.                                    *)
FaultPanic(e) ==
    /\ Handles(e, "alloc")
    /\ hpc' = [hpc EXCEPT ![e] = "panic"]
    /\ UNCHANGED <<env_status, pte, pftemp, setupVars, progVars, fault, word, want, nfork,
                   panicstr>>

-----------------------------------------------------------------------------
(* fork() *)

At(e, step) == Runs(e) /\ pc[e] = step

(* fork() is called; set_pgfault_handler() calls the kernel the first time. *)
fork(e) ==
    /\ At(e, "run")
    /\ nfork < MAXFORK
    /\ nfork' = nfork + 1
    /\ pc' = [pc EXCEPT ![e] = IF pgfault_handler[e] THEN "sph_store" ELSE "sph_stack"]
    /\ UNCHANGED <<env_status, pte, pftemp, setupVars, envid, addr, faultVars, word, want,
                   panicstr>>

set_pgfault_handler(e) ==
    /\ At(e, "sph_stack")
    /\ xstack' = [xstack EXCEPT ![e] = TRUE]
    /\ pc' = [pc EXCEPT ![e] = "sph_upcall"]
    /\ UNCHANGED <<env_status, pte, pftemp, env_pgfault_upcall, pgfault_handler, envid, addr,
                   faultVars, word, want, nfork, panicstr>>
SetUpcall(e) ==
    /\ At(e, "sph_upcall")
    /\ env_pgfault_upcall' = [env_pgfault_upcall EXCEPT ![e] = TRUE]
    /\ pc' = [pc EXCEPT ![e] = "sph_store"]
    /\ UNCHANGED <<env_status, pte, pftemp, xstack, pgfault_handler, envid, addr, faultVars, word,
                   want, nfork, panicstr>>

(* _pgfault_handler is stored at every call, once the page is writable. *)
StoreHandler(e) ==
    /\ At(e, "sph_store")
    /\ pte[e][Data].perm = "w"
    /\ pgfault_handler' = [pgfault_handler EXCEPT ![e] = TRUE]
    /\ pc' = [pc EXCEPT ![e] = "exofork"]
    /\ UNCHANGED <<env_status, pte, pftemp, xstack, env_pgfault_upcall, envid, addr, faultVars,
                   word, want, nfork, panicstr>>

(* sys_exofork(): the child is not runnable and has an empty address space. *)
sys_exofork(e, c) ==
    /\ At(e, "exofork")
    /\ env_status[c] = "FREE"
    /\ env_status' = [env_status EXCEPT ![c] = "NOT_RUNNABLE"]
    /\ envid' = [envid EXCEPT ![e] = c]
    /\ addr' = [addr EXCEPT ![e] = Text]
    /\ pc' = [pc EXCEPT ![e] = "dup", ![c] = "child"]
    /\ UNCHANGED <<pte, pftemp, setupVars, faultVars, word, want, nfork, panicstr>>

(* The loop goes to the next page, or is done. *)
NextPage(e) ==
    IF addr[e] = Stack
    THEN pc' = [pc EXCEPT ![e] = "xstack"] /\ UNCHANGED addr
    ELSE pc' = [pc EXCEPT ![e] = "dup"] /\ addr' = [addr EXCEPT ![e] = @ + 1]

(* The two system calls of duppage() for a page that is writable or marked: *)
(* the child's mapping, and the parent's own again, whatever has become of  *)
(* it meanwhile.                                                            *)
MapChild(e) ==
    pte' = [pte EXCEPT ![envid[e]][addr[e]] = [page |-> pte[e][addr[e]].page, perm |-> "cow"]]
MarkOwn(e) == pte' = [pte EXCEPT ![e][addr[e]].perm = "cow"]

(* What the child has after duppage() is its own: the parent's data, and of *)
(* the stack what the page it got holds, the parent's of some moment in     *)
(* duppage().                                                               *)
Inherit(e) ==
    LET c == envid[e] va == addr[e] IN
    want' = [want EXCEPT ![c][va] =
                IF va = Stack THEN word[pte'[c][va].page] ELSE want[e][va]]

(* Mutant: the parent's own mapping is marked first. *)
duppage_OwnFirst(e) ==
    /\ \/ /\ At(e, "dup")
          /\ pte[e][addr[e]].perm \in {"w", "cow"}
          /\ MarkOwn(e)
          /\ pc' = [pc EXCEPT ![e] = "dup2"]
          /\ UNCHANGED <<addr, want>>
       \/ At(e, "dup2") /\ MapChild(e) /\ Inherit(e) /\ NextPage(e)
       \/ /\ At(e, "dup")
          /\ pte[e][addr[e]].perm = "r"
          /\ pte' = [pte EXCEPT ![envid[e]][addr[e]] = pte[e][addr[e]]]
          /\ Inherit(e) /\ NextPage(e)
    /\ UNCHANGED <<env_status, pftemp, setupVars, envid, faultVars, word, nfork, panicstr>>

(* duppage().  Nothing can change between its look at uvpt and its first    *)
(* system call that would take it into another branch.                      *)
duppage(e) ==
    /\ \/ /\ At(e, "dup")
          /\ pte[e][addr[e]].perm \in {"w", "cow"}
          /\ MapChild(e)
          /\ pc' = [pc EXCEPT ![e] = "dup2"]
          /\ UNCHANGED <<addr, want>>
       \/ At(e, "dup2") /\ MarkOwn(e) /\ Inherit(e) /\ NextPage(e)
       \/ /\ At(e, "dup")
          /\ pte[e][addr[e]].perm = "r"
          /\ pte' = [pte EXCEPT ![envid[e]][addr[e]] = pte[e][addr[e]]]
          /\ Inherit(e) /\ NextPage(e)
    /\ UNCHANGED <<env_status, pftemp, setupVars, envid, faultVars, word, nfork, panicstr>>

(* The child's exception stack, upcall and status.  Its data are a copy,    *)
(* _pgfault_handler included.                                               *)
ChildStack(e) ==
    /\ At(e, "xstack")
    /\ xstack' = [xstack EXCEPT ![envid[e]] = TRUE]
    /\ pc' = [pc EXCEPT ![e] = "upcall"]
    /\ UNCHANGED <<env_status, pte, pftemp, env_pgfault_upcall, pgfault_handler, envid, addr,
                   faultVars, word, want, nfork, panicstr>>

(* Mutant: the child is left to set the upcall by itself. *)
ChildUpcall_Skipped(e) ==
    /\ At(e, "upcall")
    /\ pgfault_handler' = [pgfault_handler EXCEPT ![envid[e]] = pgfault_handler[e]]
    /\ pc' = [pc EXCEPT ![e] = "status"]
    /\ UNCHANGED <<env_status, pte, pftemp, xstack, env_pgfault_upcall, envid, addr, faultVars,
                   word, want, nfork, panicstr>>

ChildUpcall(e) ==
    /\ At(e, "upcall")
    /\ env_pgfault_upcall' = [env_pgfault_upcall EXCEPT ![envid[e]] = TRUE]
    /\ pgfault_handler' = [pgfault_handler EXCEPT ![envid[e]] = pgfault_handler[e]]
    /\ pc' = [pc EXCEPT ![e] = "status"]
    /\ UNCHANGED <<env_status, pte, pftemp, xstack, envid, addr, faultVars, word, want, nfork,
                   panicstr>>

ChildRunnable(e) ==
    /\ At(e, "status")
    /\ env_status' = [env_status EXCEPT ![envid[e]] = "RUNNABLE"]
    /\ envid' = [envid EXCEPT ![e] = NULL]
    /\ addr' = [addr EXCEPT ![e] = Text]
    /\ pc' = [pc EXCEPT ![e] = "run"]
    /\ UNCHANGED <<pte, pftemp, setupVars, faultVars, word, want, nfork, panicstr>>

(* A panic in set_pgfault_handler(), fork() or duppage(): no memory for an  *)
(* exception stack or for a page table of the child, or no free slot.  The  *)
(* child, if there is one, stays as it is; the locals are of no more use.   *)
ForkPanic(e) ==
    /\ \/ At(e, "sph_stack")
       \/ At(e, "exofork")
       \/ At(e, "dup")
       \/ At(e, "xstack")
    /\ pc' = [pc EXCEPT ![e] = "panic"]
    /\ envid' = [envid EXCEPT ![e] = NULL]
    /\ addr' = [addr EXCEPT ![e] = Text]
    /\ UNCHANGED <<env_status, pte, pftemp, setupVars, faultVars, word, want, nfork, panicstr>>

(* The int3 of panic(), in fork() or in pgfault(): the kernel panics. *)
Breakpoint(e) ==
    /\ At(e, "panic") \/ Handles(e, "panic")
    /\ panicstr' = TRUE
    /\ UNCHANGED <<env_status, pte, pftemp, setupVars, progVars, faultVars, word, want, nfork>>

(* The program ends. *)
Exit(e) == At(e, "run") /\ Destroy(e)

-----------------------------------------------------------------------------
(* What takes a trap is for a kernel that has not panicked. *)
Handler(e) ==
    \/ FaultCopy(e)
    \/ ~panicstr /\ (FaultAlloc(e) \/ FaultMap(e) \/ FaultUnmap(e) \/ FaultPanic(e))

ForkStep(e) ==
    \/ StoreHandler(e)
    \/ /\ ~panicstr
       /\ \/ set_pgfault_handler(e) \/ SetUpcall(e)
          \/ \E c \in Envs : sys_exofork(e, c)
          \/ duppage(e)
          \/ ChildStack(e) \/ ChildUpcall(e) \/ ChildRunnable(e)
          \/ ForkPanic(e) \/ Breakpoint(e)

(* The child writes thisenv and a parent its handler, faulting on it first. *)
DataStore(e) == Write(e, Data) \/ (~panicstr /\ page_fault_handler(e, Data))

Next ==
    \E e \in Envs :
        \/ Write(e, Stack)
        \/ ~panicstr /\ page_fault_handler(e, Stack)
        \/ DataStore(e)
        \/ Handler(e)
        \/ fork(e) \/ ForkStep(e)
        \/ ~panicstr /\ Exit(e)

(* Every environment that can run gets its turn. *)
Spec ==
    /\ Init /\ [][Next]_forkVars
    /\ \A e \in Envs : WF_forkVars(Handler(e)) /\ WF_forkVars(ForkStep(e))
                       /\ WF_forkVars(DataStore(e))

-----------------------------------------------------------------------------
(* Properties *)

Alive(e) == env_status[e] # "FREE"

(***************************************************************************)
(* What a program reads is what it has written itself, or what was there   *)
(* when it was forked: no write of a parent, a child or a sibling is ever  *)
(* seen by another, however faults and system calls interleave.            *)
(***************************************************************************)
Isolation ==
    \A e \in Envs, va \in VAs :
        env_status[e] = "RUNNABLE" => word[pte[e][va].page] = want[e][va]

(***************************************************************************)
(* A page that is writable somewhere is mapped nowhere else, but for the   *)
(* page duppage() has given the child and not yet marked in the parent;    *)
(* the page pgfault() is filling is its own.                               *)
(***************************************************************************)
InDuppage(e, f, va) == pc[e] = "dup2" /\ envid[e] = f /\ addr[e] = va
WritableExclusive ==
    \A e, f \in Envs, va, ua \in VAs :
        /\ Alive(e) /\ pte[e][va].perm = "w" /\ <<f, ua>> # <<e, va>>
              => pte[f][ua].page # pte[e][va].page \/ (ua = va /\ InDuppage(e, f, va))
        /\ pftemp[e] # NULL /\ pte[f][ua].page = pftemp[e]
              => f = e /\ ua = fault[e] /\ hpc[e] = "unmap"

(***************************************************************************)
(* An environment that can run and has a copy-on-write page can take the   *)
(* fault: upcall and exception stack are in place before any page is       *)
(* marked, in the parent, and before it first runs, in the child.          *)
(***************************************************************************)
CowHandled ==
    \A e \in Envs :
        env_status[e] = "RUNNABLE" /\ (\E va \in VAs : pte[e][va].perm = "cow")
        => env_pgfault_upcall[e] /\ xstack[e] /\ pgfault_handler[e]

(***************************************************************************)
(* thisenv points to the environment itself in every program that is not   *)
(* about to set it, in the parent although the child writes the variable   *)
(* in a page they share.                                                   *)
(***************************************************************************)
ThisEnv ==
    \A e \in Envs :
        env_status[e] = "RUNNABLE" /\ pc[e] # "child" => word[pte[e][Data].page] = e

(***************************************************************************)
(* fork() returns unless it runs out of memory or of slots, and then it    *)
(* stops the kernel: the faults it takes on its own stack and data while   *)
(* it marks pages do not keep it from going on.  (A child whose parent has *)
(* not yet made it runnable has not started.)                              *)
(***************************************************************************)
ForkReturns ==
    \A e \in Envs :
        pc[e] # "run" ~> (pc[e] = "run" \/ env_status[e] = "NOT_RUNNABLE" \/ panicstr)

(***************************************************************************)
(* fork() gives every program memory of its own: each reads only what is   *)
(* its own to read, what is writable is not shared, and thisenv is right   *)
(* in parent and child (duppage(), pgfault(), fork()).                     *)
(***************************************************************************)
ForkSafe == TypeOK /\ Isolation /\ WritableExclusive /\ ThisEnv
=============================================================================
