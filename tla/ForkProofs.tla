----------------------------- MODULE ForkProofs -----------------------------
(***************************************************************************)
(* Proofs about Fork, for any number of environments, pages and calls of   *)
(* fork(): memory stays private, a writable page has one owner, and every  *)
(* copy-on-write fault can be taken.                                       *)
(***************************************************************************)
EXTENDS Fork, TLAPS

(* Steps of fork() that have a child, and those after its address space is  *)
(* complete.                                                                *)
Making == {"dup", "dup2", "xstack", "upcall", "status"}
Made == {"xstack", "upcall", "status"}

(* duppage() of va is done. *)
Done(e, va) == va < addr[e] \/ pc[e] \in Made

(* What is mapped, and where the program is, by the status of the slot. *)
SlotOf(e) ==
    /\ env_status[e] = "FREE" =>
           /\ \A va \in VAs : pte[e][va] = NoMap
           /\ pc[e] = "run" /\ fault[e] = NULL
    /\ env_status[e] = "NOT_RUNNABLE" =>
           /\ pte[e][Text] = NoMap \/ pte[e][Text].perm = "r"
           /\ \A va \in {Data, Stack} : pte[e][va] = NoMap \/ pte[e][va].perm = "cow"
           /\ pc[e] = "child" /\ fault[e] = NULL
    /\ env_status[e] = "RUNNABLE" =>
           /\ pte[e][Text].perm = "r"
           /\ \A va \in {Data, Stack} : pte[e][va].perm \in {"w", "cow"}
StatusInv == \A e \in Envs : SlotOf(e)

(* A program in fork() has a child of its own that cannot run yet; the      *)
(* pages already duplicated are mapped there and hold what the child is to  *)
(* have.                                                                    *)
ChildOf(e) ==
    /\ envid[e] # NULL <=> pc[e] \in Making
    /\ pc[e] \in Making =>
           /\ env_status[envid[e]] = "NOT_RUNNABLE"
           /\ \A va \in VAs : Done(e, va) =>
                  /\ pte[envid[e]][va] # NoMap
                  /\ word[pte[envid[e]][va].page] = want[envid[e]][va]
    /\ pc[e] = "dup2" =>
           /\ addr[e] # Text
           /\ pte[envid[e]][addr[e]] # NoMap
           /\ addr[e] = Data => pte[envid[e]][Data].page = pte[e][Data].page
    /\ pc[e] \in Made => addr[e] = Stack
ChildInv ==
    /\ \A e \in Envs : ChildOf(e)
    /\ \A e, f \in Envs : envid[e] # NULL /\ envid[e] = envid[f] => e = f

(* pgfault() works on a copy-on-write page, on the stack or, in a new child *)
(* and where the handler is stored, on the data, and on a page at PFTEMP of *)
(* its own.                                                                 *)
FaultInv ==
    /\ \A e \in Envs :
        /\ fault[e] = NULL => hpc[e] = "alloc"
        /\ fault[e] # NULL => fault[e] # Text /\ (fault[e] = Data => pc[e] \in {"child", "sph_store"})
        /\ hpc[e] \in {"alloc", "panic"} <=> pftemp[e] = NULL
        /\ fault[e] # NULL /\ hpc[e] # "unmap" => pte[e][fault[e]].perm = "cow"
        /\ hpc[e] = "map" => word[pftemp[e]] = want[e][fault[e]]
    /\ \A e, f \in Envs : pftemp[e] # NULL /\ pftemp[e] = pftemp[f] => e = f

(* Handler, upcall and exception stack are set in this order, in the parent *)
(* before it marks a page and in the child before it runs.                  *)
HandlerInv ==
    \A e \in Envs :
        /\ pgfault_handler[e] => env_pgfault_upcall[e] /\ xstack[e]
        /\ pc[e] = "sph_upcall" => xstack[e]
        /\ pc[e] = "sph_store" => env_pgfault_upcall[e] /\ xstack[e]
        /\ pc[e] \in Making \cup {"exofork"} => pgfault_handler[e]
        /\ pc[e] \in {"upcall", "status"} => xstack[envid[e]]
        /\ pc[e] = "status" => pgfault_handler[envid[e]]
        /\ env_status[e] = "RUNNABLE" /\ (\E va \in VAs : pte[e][va].perm = "cow")
              => pgfault_handler[e]

(* A program that runs and is not a new child has its own thisenv. *)
SelfInv ==
    \A e \in Envs : env_status[e] = "RUNNABLE" /\ pc[e] # "child" => want[e][Data] = e

IInv ==
    /\ TypeOK /\ Isolation /\ WritableExclusive
    /\ StatusInv /\ ChildInv /\ FaultInv /\ HandlerInv /\ SelfInv

(* The call of fork() keeps the invariant. *)
LEMMA ForkCallStep ==
  ASSUME IInv, NEW e \in Envs, fork(e)
  PROVE  IInv'
<1>1. TypeOK'
  BY ForkAssumption, NullAssumption DEF IInv, TypeOK, Steps, fork, At, Runs, setupVars,
     faultVars, progVars
<1>2. Isolation'
  BY ForkAssumption, NullAssumption DEF IInv, TypeOK, Isolation, StatusInv, SlotOf,
     ChildInv, ChildOf, fork, At,
     Runs, setupVars, faultVars, progVars
<1>3. WritableExclusive'
  BY ForkAssumption, NullAssumption DEF IInv, TypeOK, WritableExclusive, InDuppage, Alive,
     ChildInv, ChildOf, Making, StatusInv, SlotOf, fork, At, Runs, setupVars, faultVars,
     progVars
<1>4. StatusInv'
  BY ForkAssumption, NullAssumption DEF IInv, TypeOK, StatusInv, SlotOf, Making, ChildInv,
     ChildOf, fork, At,
     Runs, setupVars, faultVars, progVars
<1>5. ChildInv'
  BY ForkAssumption, NullAssumption DEF IInv, TypeOK, ChildInv, ChildOf, Making, Made, Done,
     StatusInv, SlotOf,
     fork, At, Runs, setupVars, faultVars, progVars
<1>6. FaultInv'
  BY ForkAssumption, NullAssumption DEF IInv, TypeOK, FaultInv, StatusInv, SlotOf, fork, At,
     Runs,
     setupVars, faultVars, progVars
<1>7. HandlerInv'
  BY ForkAssumption, NullAssumption DEF IInv, TypeOK, HandlerInv, Making, ChildInv, ChildOf,
     StatusInv, SlotOf,
     fork, At, Runs, setupVars, faultVars, progVars
<1>8. SelfInv'
  BY ForkAssumption, NullAssumption DEF IInv, TypeOK, SelfInv, ChildInv, ChildOf, StatusInv,
     SlotOf, Making,
     fork, At, Runs, setupVars, faultVars, progVars
<1>9. QED
  BY <1>1, <1>2, <1>3, <1>4, <1>5, <1>6, <1>7, <1>8 DEF IInv

(* set_pgfault_handler() keeps the invariant. *)
LEMMA SetHandlerStep ==
  ASSUME IInv, NEW e \in Envs, set_pgfault_handler(e)
  PROVE  IInv'
<1>1. TypeOK'
  BY ForkAssumption, NullAssumption DEF IInv, TypeOK, Steps, set_pgfault_handler, At, Runs,
     setupVars, faultVars, progVars
<1>2. Isolation'
  BY ForkAssumption, NullAssumption DEF IInv, TypeOK, Isolation, StatusInv, SlotOf,
     ChildInv, ChildOf,
     set_pgfault_handler, At, Runs, setupVars, faultVars, progVars
<1>3. WritableExclusive'
  BY ForkAssumption, NullAssumption DEF IInv, TypeOK, WritableExclusive, InDuppage, Alive,
     ChildInv, ChildOf, Making, StatusInv, SlotOf, set_pgfault_handler, At, Runs, setupVars,
     faultVars, progVars
<1>4. StatusInv'
  BY ForkAssumption, NullAssumption DEF IInv, TypeOK, StatusInv, SlotOf, Making, ChildInv,
     ChildOf,
     set_pgfault_handler, At, Runs, setupVars, faultVars, progVars
<1>5. ChildInv'
  BY ForkAssumption, NullAssumption DEF IInv, TypeOK, ChildInv, ChildOf, Making, Made, Done,
     StatusInv, SlotOf,
     set_pgfault_handler, At, Runs, setupVars, faultVars, progVars
<1>6. FaultInv'
  BY ForkAssumption, NullAssumption DEF IInv, TypeOK, FaultInv, StatusInv, SlotOf,
     set_pgfault_handler,
     At, Runs, setupVars, faultVars, progVars
<1>7. HandlerInv'
  BY ForkAssumption, NullAssumption DEF IInv, TypeOK, HandlerInv, Making, ChildInv, ChildOf,
     StatusInv, SlotOf,
     set_pgfault_handler, At, Runs, setupVars, faultVars, progVars
<1>8. SelfInv'
  BY ForkAssumption, NullAssumption DEF IInv, TypeOK, SelfInv, ChildInv, ChildOf, StatusInv,
     SlotOf, Making,
     set_pgfault_handler, At, Runs, setupVars, faultVars, progVars
<1>9. QED
  BY <1>1, <1>2, <1>3, <1>4, <1>5, <1>6, <1>7, <1>8 DEF IInv

(* Its second system call keeps the invariant. *)
LEMMA SetUpcallStep ==
  ASSUME IInv, NEW e \in Envs, SetUpcall(e)
  PROVE  IInv'
<1>1. TypeOK'
  BY ForkAssumption, NullAssumption DEF IInv, TypeOK, Steps, SetUpcall, At, Runs, setupVars,
     faultVars, progVars
<1>2. Isolation'
  BY ForkAssumption, NullAssumption DEF IInv, TypeOK, Isolation, StatusInv, SlotOf,
     ChildInv, ChildOf, SetUpcall,
     At, Runs, setupVars, faultVars, progVars
<1>3. WritableExclusive'
  BY ForkAssumption, NullAssumption DEF IInv, TypeOK, WritableExclusive, InDuppage, Alive,
     ChildInv, ChildOf, Making, StatusInv, SlotOf, SetUpcall, At, Runs, setupVars,
     faultVars, progVars
<1>4. StatusInv'
  BY ForkAssumption, NullAssumption DEF IInv, TypeOK, StatusInv, SlotOf, Making, ChildInv,
     ChildOf, SetUpcall,
     At, Runs, setupVars, faultVars, progVars
<1>5. ChildInv'
  BY ForkAssumption, NullAssumption DEF IInv, TypeOK, ChildInv, ChildOf, Making, Made, Done,
     StatusInv, SlotOf,
     SetUpcall, At, Runs, setupVars, faultVars, progVars
<1>6. FaultInv'
  BY ForkAssumption, NullAssumption DEF IInv, TypeOK, FaultInv, StatusInv, SlotOf,
     SetUpcall, At, Runs,
     setupVars, faultVars, progVars
<1>7. HandlerInv'
  BY ForkAssumption, NullAssumption DEF IInv, TypeOK, HandlerInv, Making, ChildInv, ChildOf,
     StatusInv, SlotOf,
     SetUpcall, At, Runs, setupVars, faultVars, progVars
<1>8. SelfInv'
  BY ForkAssumption, NullAssumption DEF IInv, TypeOK, SelfInv, ChildInv, ChildOf, StatusInv,
     SlotOf, Making,
     SetUpcall, At, Runs, setupVars, faultVars, progVars
<1>9. QED
  BY <1>1, <1>2, <1>3, <1>4, <1>5, <1>6, <1>7, <1>8 DEF IInv

(* The store of the handler keeps the invariant. *)
LEMMA StoreHandlerStep ==
  ASSUME IInv, NEW e \in Envs, StoreHandler(e)
  PROVE  IInv'
<1>1. TypeOK'
  BY ForkAssumption, NullAssumption DEF IInv, TypeOK, Steps, StoreHandler, At, Runs, setupVars,
     faultVars, progVars
<1>2. Isolation'
  BY ForkAssumption, NullAssumption DEF IInv, TypeOK, Isolation, StatusInv, SlotOf,
     ChildInv, ChildOf, StoreHandler,
     At, Runs, setupVars, faultVars, progVars
<1>3. WritableExclusive'
  BY ForkAssumption, NullAssumption DEF IInv, TypeOK, WritableExclusive, InDuppage, Alive,
     ChildInv, ChildOf, Making, StatusInv, SlotOf, StoreHandler, At, Runs, setupVars,
     faultVars, progVars
<1>4. StatusInv'
  BY ForkAssumption, NullAssumption DEF IInv, TypeOK, StatusInv, SlotOf, Making, ChildInv,
     ChildOf, StoreHandler,
     At, Runs, setupVars, faultVars, progVars
<1>5. ChildInv'
  BY ForkAssumption, NullAssumption DEF IInv, TypeOK, ChildInv, ChildOf, Making, Made, Done,
     StatusInv, SlotOf,
     StoreHandler, At, Runs, setupVars, faultVars, progVars
<1>6. FaultInv'
  BY ForkAssumption, NullAssumption DEF IInv, TypeOK, FaultInv, StatusInv, SlotOf,
     StoreHandler, At, Runs,
     setupVars, faultVars, progVars
<1>7. HandlerInv'
  BY ForkAssumption, NullAssumption DEF IInv, TypeOK, HandlerInv, Making, ChildInv, ChildOf,
     StatusInv, SlotOf,
     StoreHandler, At, Runs, setupVars, faultVars, progVars
<1>8. SelfInv'
  BY ForkAssumption, NullAssumption DEF IInv, TypeOK, SelfInv, ChildInv, ChildOf, StatusInv,
     SlotOf, Making,
     StoreHandler, At, Runs, setupVars, faultVars, progVars
<1>9. QED
  BY <1>1, <1>2, <1>3, <1>4, <1>5, <1>6, <1>7, <1>8 DEF IInv

(* A panic in fork() keeps the invariant. *)
LEMMA ForkPanicStep ==
  ASSUME IInv, NEW e \in Envs, ForkPanic(e)
  PROVE  IInv'
<1>1. TypeOK'
  BY ForkAssumption, NullAssumption DEF IInv, TypeOK, Steps, ForkPanic, At, Runs, setupVars,
     faultVars, progVars, VAs, Text, Stack
<1>2. Isolation'
  BY ForkAssumption, NullAssumption DEF IInv, TypeOK, Isolation, StatusInv, SlotOf,
     ChildInv, ChildOf, ForkPanic,
     At, Runs, setupVars, faultVars, progVars
<1>3. WritableExclusive'
  BY ForkAssumption, NullAssumption DEF IInv, TypeOK, WritableExclusive, InDuppage, Alive,
     ChildInv, ChildOf, Making, StatusInv, SlotOf, ForkPanic, At, Runs, setupVars,
     faultVars, progVars
<1>4. StatusInv'
  BY ForkAssumption, NullAssumption DEF IInv, TypeOK, StatusInv, SlotOf, Making, ChildInv,
     ChildOf, ForkPanic,
     At, Runs, setupVars, faultVars, progVars
<1>5. ChildInv'
  BY ForkAssumption, NullAssumption DEF IInv, TypeOK, ChildInv, ChildOf, Making, Made, Done,
     StatusInv, SlotOf,
     ForkPanic, At, Runs, setupVars, faultVars, progVars
<1>6. FaultInv'
  BY ForkAssumption, NullAssumption DEF IInv, TypeOK, FaultInv, StatusInv, SlotOf,
     ForkPanic, At, Runs,
     setupVars, faultVars, progVars
<1>7. HandlerInv'
  BY ForkAssumption, NullAssumption DEF IInv, TypeOK, HandlerInv, Making, ChildInv, ChildOf,
     StatusInv, SlotOf,
     ForkPanic, At, Runs, setupVars, faultVars, progVars
<1>8. SelfInv'
  BY ForkAssumption, NullAssumption DEF IInv, TypeOK, SelfInv, ChildInv, ChildOf, StatusInv,
     SlotOf, Making,
     ForkPanic, At, Runs, setupVars, faultVars, progVars
<1>9. QED
  BY <1>1, <1>2, <1>3, <1>4, <1>5, <1>6, <1>7, <1>8 DEF IInv

(* A panic in pgfault() keeps the invariant. *)
LEMMA FaultPanicStep ==
  ASSUME IInv, NEW e \in Envs, FaultPanic(e)
  PROVE  IInv'
<1>1. TypeOK'
  BY ForkAssumption, NullAssumption DEF IInv, TypeOK, Steps, FaultPanic, Handles, At, Runs, setupVars,
     faultVars, progVars
<1>2. Isolation'
  BY ForkAssumption, NullAssumption DEF IInv, TypeOK, Isolation, StatusInv, SlotOf,
     ChildInv, ChildOf, FaultPanic,
     Handles, At, Runs, setupVars, faultVars, progVars
<1>3. WritableExclusive'
  BY ForkAssumption, NullAssumption DEF IInv, TypeOK, WritableExclusive, InDuppage, Alive,
     ChildInv, ChildOf, Making, StatusInv, SlotOf, FaultPanic, Handles, At, Runs, setupVars,
     faultVars, progVars
<1>4. StatusInv'
  BY ForkAssumption, NullAssumption DEF IInv, TypeOK, StatusInv, SlotOf, Making, ChildInv,
     ChildOf, FaultPanic,
     Handles, At, Runs, setupVars, faultVars, progVars
<1>5. ChildInv'
  BY ForkAssumption, NullAssumption DEF IInv, TypeOK, ChildInv, ChildOf, Making, Made, Done,
     StatusInv, SlotOf,
     FaultPanic, Handles, At, Runs, setupVars, faultVars, progVars
<1>6. FaultInv'
  BY ForkAssumption, NullAssumption DEF IInv, TypeOK, FaultInv, StatusInv, SlotOf,
     FaultPanic, Handles, At, Runs,
     setupVars, faultVars, progVars
<1>7. HandlerInv'
  BY ForkAssumption, NullAssumption DEF IInv, TypeOK, HandlerInv, Making, ChildInv, ChildOf,
     StatusInv, SlotOf,
     FaultPanic, Handles, At, Runs, setupVars, faultVars, progVars
<1>8. SelfInv'
  BY ForkAssumption, NullAssumption DEF IInv, TypeOK, SelfInv, ChildInv, ChildOf, StatusInv,
     SlotOf, Making,
     FaultPanic, Handles, At, Runs, setupVars, faultVars, progVars
<1>9. QED
  BY <1>1, <1>2, <1>3, <1>4, <1>5, <1>6, <1>7, <1>8 DEF IInv

(* The int3 of panic() keeps the invariant. *)
LEMMA BreakpointStep ==
  ASSUME IInv, NEW e \in Envs, Breakpoint(e)
  PROVE  IInv'
<1>1. TypeOK'
  BY ForkAssumption, NullAssumption DEF IInv, TypeOK, Steps, Breakpoint, Handles, At, Runs, setupVars,
     faultVars, progVars
<1>2. Isolation'
  BY ForkAssumption, NullAssumption DEF IInv, TypeOK, Isolation, StatusInv, SlotOf,
     ChildInv, ChildOf, Breakpoint,
     Handles, At, Runs, setupVars, faultVars, progVars
<1>3. WritableExclusive'
  BY ForkAssumption, NullAssumption DEF IInv, TypeOK, WritableExclusive, InDuppage, Alive,
     ChildInv, ChildOf, Making, StatusInv, SlotOf, Breakpoint, Handles, At, Runs, setupVars,
     faultVars, progVars
<1>4. StatusInv'
  BY ForkAssumption, NullAssumption DEF IInv, TypeOK, StatusInv, SlotOf, Making, ChildInv,
     ChildOf, Breakpoint,
     Handles, At, Runs, setupVars, faultVars, progVars
<1>5. ChildInv'
  BY ForkAssumption, NullAssumption DEF IInv, TypeOK, ChildInv, ChildOf, Making, Made, Done,
     StatusInv, SlotOf,
     Breakpoint, Handles, At, Runs, setupVars, faultVars, progVars
<1>6. FaultInv'
  BY ForkAssumption, NullAssumption DEF IInv, TypeOK, FaultInv, StatusInv, SlotOf,
     Breakpoint, Handles, At, Runs,
     setupVars, faultVars, progVars
<1>7. HandlerInv'
  BY ForkAssumption, NullAssumption DEF IInv, TypeOK, HandlerInv, Making, ChildInv, ChildOf,
     StatusInv, SlotOf,
     Breakpoint, Handles, At, Runs, setupVars, faultVars, progVars
<1>8. SelfInv'
  BY ForkAssumption, NullAssumption DEF IInv, TypeOK, SelfInv, ChildInv, ChildOf, StatusInv,
     SlotOf, Making,
     Breakpoint, Handles, At, Runs, setupVars, faultVars, progVars
<1>9. QED
  BY <1>1, <1>2, <1>3, <1>4, <1>5, <1>6, <1>7, <1>8 DEF IInv

(* The child's exception stack keeps the invariant. *)
LEMMA ChildStackStep ==
  ASSUME IInv, NEW e \in Envs, ChildStack(e)
  PROVE  IInv'
<1>1. TypeOK'
  BY ForkAssumption, NullAssumption DEF IInv, TypeOK, Steps, ChildStack, At, Runs, setupVars,
     faultVars, progVars
<1>2. Isolation'
  BY ForkAssumption, NullAssumption DEF IInv, TypeOK, Isolation, StatusInv, SlotOf,
     ChildInv, ChildOf,
     ChildStack, At, Runs, setupVars, faultVars, progVars
<1>3. WritableExclusive'
  BY ForkAssumption, NullAssumption DEF IInv, TypeOK, WritableExclusive, InDuppage, Alive,
     ChildInv, ChildOf, Making, StatusInv, SlotOf, ChildStack, At, Runs, setupVars,
     faultVars, progVars
<1>4. StatusInv'
  BY ForkAssumption, NullAssumption DEF IInv, TypeOK, StatusInv, SlotOf, Making, ChildInv,
     ChildOf, ChildStack,
     At, Runs, setupVars, faultVars, progVars
<1>5. ChildInv'
  BY ForkAssumption, NullAssumption DEF IInv, TypeOK, ChildInv, ChildOf, Making, Made, Done,
     StatusInv, SlotOf,
     ChildStack, At, Runs, setupVars, faultVars, progVars
<1>6. FaultInv'
  BY ForkAssumption, NullAssumption DEF IInv, TypeOK, FaultInv, StatusInv, SlotOf,
     ChildStack, At, Runs,
     setupVars, faultVars, progVars
<1>7. HandlerInv'
  BY ForkAssumption, NullAssumption DEF IInv, TypeOK, HandlerInv, Making, ChildInv, ChildOf,
     StatusInv, SlotOf,
     ChildStack, At, Runs, setupVars, faultVars, progVars
<1>8. SelfInv'
  BY ForkAssumption, NullAssumption DEF IInv, TypeOK, SelfInv, ChildInv, ChildOf, StatusInv,
     SlotOf, Making,
     ChildStack, At, Runs, setupVars, faultVars, progVars
<1>9. QED
  BY <1>1, <1>2, <1>3, <1>4, <1>5, <1>6, <1>7, <1>8 DEF IInv

(* The child's upcall keeps the invariant. *)
LEMMA ChildUpcallStep ==
  ASSUME IInv, NEW e \in Envs, ChildUpcall(e)
  PROVE  IInv'
<1>1. TypeOK'
  BY ForkAssumption, NullAssumption DEF IInv, TypeOK, Steps, ChildUpcall, At, Runs, setupVars,
     faultVars, progVars
<1>2. Isolation'
  BY ForkAssumption, NullAssumption DEF IInv, TypeOK, Isolation, StatusInv, SlotOf,
     ChildInv, ChildOf,
     ChildUpcall, At, Runs, setupVars, faultVars, progVars
<1>3. WritableExclusive'
  BY ForkAssumption, NullAssumption DEF IInv, TypeOK, WritableExclusive, InDuppage, Alive,
     ChildInv, ChildOf, Making, StatusInv, SlotOf, ChildUpcall, At, Runs, setupVars,
     faultVars, progVars
<1>4. StatusInv'
  BY ForkAssumption, NullAssumption DEF IInv, TypeOK, StatusInv, SlotOf, Making, ChildInv,
     ChildOf, ChildUpcall,
     At, Runs, setupVars, faultVars, progVars
<1>5. ChildInv'
  BY ForkAssumption, NullAssumption DEF IInv, TypeOK, ChildInv, ChildOf, Making, Made, Done,
     StatusInv, SlotOf,
     ChildUpcall, At, Runs, setupVars, faultVars, progVars
<1>6. FaultInv'
  BY ForkAssumption, NullAssumption DEF IInv, TypeOK, FaultInv, StatusInv, SlotOf,
     ChildUpcall, At,
     Runs, setupVars, faultVars, progVars
<1>7. HandlerInv'
  BY ForkAssumption, NullAssumption DEF IInv, TypeOK, HandlerInv, Making, ChildInv, ChildOf,
     StatusInv, SlotOf,
     ChildUpcall, At, Runs, setupVars, faultVars, progVars
<1>8. SelfInv'
  BY ForkAssumption, NullAssumption DEF IInv, TypeOK, SelfInv, ChildInv, ChildOf, StatusInv,
     SlotOf, Making,
     ChildUpcall, At, Runs, setupVars, faultVars, progVars
<1>9. QED
  BY <1>1, <1>2, <1>3, <1>4, <1>5, <1>6, <1>7, <1>8 DEF IInv

(* A fault that goes to the upcall keeps the invariant. *)
LEMMA FaultStep ==
  ASSUME IInv, NEW e \in Envs, NEW va \in {Data, Stack}, page_fault_handler(e, va),
         env_pgfault_upcall[e], xstack[e]
  PROVE  IInv'
<1>0. va \in VAs
  BY DEF VAs, Text, Data, Stack
<1>1. TypeOK'
  <2>1. /\ fault' = [fault EXCEPT ![e] = va] /\ hpc' = [hpc EXCEPT ![e] = "alloc"]
        /\ UNCHANGED <<env_status, pte, pftemp, setupVars, progVars, word, want, nfork, panicstr>>
    BY DEF page_fault_handler
  <2>2. QED
    BY <1>0, <2>1 DEF IInv, TypeOK, setupVars, progVars
<1>2. Isolation'
  BY ForkAssumption, NullAssumption DEF IInv, TypeOK, Isolation, StatusInv, SlotOf,
     ChildInv, ChildOf,
     page_fault_handler, Stores, Writes, At, Runs, setupVars, faultVars, progVars
<1>3. WritableExclusive'
  BY ForkAssumption, NullAssumption DEF IInv, TypeOK, WritableExclusive, InDuppage, Alive,
     ChildInv, ChildOf, Making, StatusInv, SlotOf, page_fault_handler, Stores, Writes, At, Runs,
     setupVars, faultVars,
     progVars
<1>4. StatusInv'
  BY ForkAssumption, NullAssumption DEF IInv, TypeOK, StatusInv, SlotOf, Making, ChildInv,
     ChildOf,
     page_fault_handler, Stores, Writes, At, Runs, setupVars, faultVars, progVars
<1>5. ChildInv'
  BY ForkAssumption, NullAssumption DEF IInv, TypeOK, ChildInv, ChildOf, Making, Made, Done,
     StatusInv, SlotOf,
     page_fault_handler, Stores, Writes, At, Runs, setupVars, faultVars, progVars, Text, Data, Stack,
     VAs
<1>6. FaultInv'
  BY ForkAssumption, NullAssumption DEF IInv, TypeOK, FaultInv, StatusInv, SlotOf,
     page_fault_handler,
     Stores, Writes, At, Runs, setupVars, faultVars, progVars, Text, Data, Stack, VAs
<1>7. HandlerInv'
  BY ForkAssumption, NullAssumption DEF IInv, TypeOK, HandlerInv, Making, ChildInv, ChildOf,
     StatusInv, SlotOf,
     page_fault_handler, Stores, Writes, At, Runs, setupVars, faultVars, progVars
<1>8. SelfInv'
  BY ForkAssumption, NullAssumption DEF IInv, TypeOK, SelfInv, ChildInv, ChildOf, StatusInv,
     SlotOf, Making,
     page_fault_handler, Stores, Writes, At, Runs, setupVars, faultVars, progVars
<1>9. QED
  BY <1>1, <1>2, <1>3, <1>4, <1>5, <1>6, <1>7, <1>8 DEF IInv

(* The effect of a change of one entry of one page table. *)
LEMMA OneEntry ==
  ASSUME NEW t \in [Envs -> [VAs -> Ptes]], NEW u,
         NEW c \in Envs, NEW v \in VAs, NEW x \in Ptes, u = [t EXCEPT ![c][v] = x]
  PROVE  /\ u \in [Envs -> [VAs -> Ptes]]
         /\ \A f \in Envs, a \in VAs : u[f][a] = IF f = c /\ a = v THEN x ELSE t[f][a]
OBVIOUS

(* The same of what one program wants, and for one page. *)
LEMMA OneWant ==
  ASSUME NEW t \in [Envs -> [VAs -> Words]], NEW u,
         NEW c \in Envs, NEW v \in VAs, NEW x \in Words, u = [t EXCEPT ![c][v] = x]
  PROVE  /\ u \in [Envs -> [VAs -> Words]]
         /\ \A f \in Envs, a \in VAs : u[f][a] = IF f = c /\ a = v THEN x ELSE t[f][a]
OBVIOUS

(* An entry is empty, or has a page and a permission. *)
LEMMA PteFacts ==
  ASSUME TypeOK, NEW e \in Envs, NEW va \in VAs
  PROVE  /\ pte[e][va] # NoMap => pte[e][va].page \in Pages /\ pte[e][va].perm \in {"r", "w", "cow"}
         /\ pte[e][va] = NoMap => pte[e][va].page = NULL /\ pte[e][va].perm = NULL
         /\ pte[e][va] = NoMap <=> pte[e][va].page = NULL
         /\ pte[e][va] = NoMap <=> pte[e][va].perm = NULL
<1>1. pte[e][va] \in Ptes
  BY DEF TypeOK
<1>2. QED
  BY <1>1, ForkAssumption, NullAssumption DEF Ptes, NoMap

(* A program that can run has all its pages. *)
LEMMA Mapped ==
  ASSUME TypeOK, StatusInv, NEW e \in Envs, env_status[e] = "RUNNABLE", NEW va \in VAs
  PROVE  pte[e][va].page \in Pages
<1>1. pte[e][va].perm # NULL
  BY NullAssumption DEF StatusInv, SlotOf, VAs, Text, Data, Stack
<1>2. QED
  BY <1>1, PteFacts

(* A store to a writable page keeps the invariant. *)
LEMMA WriteStep ==
  ASSUME IInv, NEW e \in Envs, NEW va \in {Data, Stack}, Write(e, va)
  PROVE  IInv'
<1>a. va \in VAs
  BY DEF VAs, Text, Data, Stack
<1>p. PICK p \in Pages : p = pte[e][va].page
  BY <1>a, Mapped DEF IInv, Write, Runs
<1>0. /\ env_status[e] = "RUNNABLE" /\ fault[e] = NULL /\ pte[e][va].perm = "w"
      /\ va = Data => pc[e] = "child"
      /\ word' = [word EXCEPT ![p] = e]
      /\ want' \in [Envs -> [VAs -> Words]]
      /\ \A f \in Envs, a \in VAs : want'[f][a] = IF f = e /\ a = va THEN e ELSE want[f][a]
      /\ pc' = [pc EXCEPT ![e] = IF va = Data THEN "run" ELSE @]
      /\ UNCHANGED <<env_status, pte, pftemp, xstack, env_pgfault_upcall, pgfault_handler, envid,
                     addr, fault, hpc, nfork, panicstr>>
  <2>1. e \in Words /\ want \in [Envs -> [VAs -> Words]]
    BY DEF IInv, TypeOK, Words
  <2>2. want' = [want EXCEPT ![e][va] = e]
    BY DEF Write
  <2>3. /\ want' \in [Envs -> [VAs -> Words]]
        /\ \A f \in Envs, a \in VAs : want'[f][a] = IF f = e /\ a = va THEN e ELSE want[f][a]
    BY <1>a, <2>1, <2>2, OneWant
  <2>4. QED
    BY <1>p, <2>3 DEF Write, Runs, Writes, setupVars, faultVars, Data, Stack
<1>b. \A f \in Envs, a \in VAs :
          pte[f][a].page = p => (f = e /\ a = va) \/ (a = va /\ InDuppage(e, f, va))
  BY <1>a, <1>p, <1>0 DEF IInv, WritableExclusive, Alive
<1>c. \A f \in Envs : pftemp[f] = p => FALSE
  <2> SUFFICES ASSUME NEW f \in Envs, pftemp[f] = p PROVE FALSE
    OBVIOUS
  <2>1. f = e /\ va = fault[e]
    BY <1>a, <1>p, ForkAssumption DEF IInv, WritableExclusive
  <2>2. QED
    BY <1>a, <1>0, <2>1, NullAssumption
<1>d. \A f \in Envs, a \in VAs : env_status[f] = "RUNNABLE" /\ ~(f = e /\ a = va) =>
          word'[pte[f][a].page] = word[pte[f][a].page]
  BY <1>a, <1>0, <1>b, Mapped DEF IInv, TypeOK, InDuppage, ChildInv, ChildOf, Making
<1>1. TypeOK'
  BY <1>a, <1>0, ForkAssumption, NullAssumption DEF IInv, TypeOK, Steps, Words, setupVars
<1>2. Isolation'
  BY <1>a, <1>p, <1>0, <1>d DEF IInv, TypeOK, Isolation
<1>3. WritableExclusive'
  BY <1>a, <1>0, ForkAssumption, NullAssumption DEF IInv, TypeOK, WritableExclusive, InDuppage,
     Alive, ChildInv, ChildOf, Making, StatusInv, SlotOf
<1>4. StatusInv'
  BY <1>a, <1>0, ForkAssumption, NullAssumption DEF IInv, TypeOK, StatusInv, SlotOf, Making,
     ChildInv, ChildOf
<1>5. ChildInv'
  <2>1. /\ \A f \in Envs : Done(f, Text)' = Done(f, Text) /\ Done(f, Data)' = Done(f, Data)
        /\ \A f \in Envs, a \in VAs : Done(f, a)' => Done(f, a)
        /\ \A f \in Envs : pc'[f] \in Making <=> pc[f] \in Making
        /\ \A f \in Envs : pc'[f] = "dup2" <=> pc[f] = "dup2"
        /\ \A f \in Envs : pc'[f] \in Made <=> pc[f] \in Made
    BY <1>0 DEF IInv, TypeOK, Done, Made, Making
  <2>2. ASSUME NEW f \in Envs, NEW a \in VAs, pc[f] \in Making, Done(f, a)
        PROVE  word'[pte[envid[f]][a].page] = want'[envid[f]][a]
    <3>1. /\ envid[f] \in Envs /\ envid[f] # e /\ pte[envid[f]][a] # NoMap
          /\ word[pte[envid[f]][a].page] = want[envid[f]][a]
      BY <1>0, <2>2, ForkAssumption DEF IInv, TypeOK, ChildInv, ChildOf
    <3>2. pte[envid[f]][a].page # p
      <4>1. SUFFICES ASSUME pte[envid[f]][a].page = p PROVE FALSE
        OBVIOUS
      <4>2. InDuppage(e, envid[f], va) /\ a = va
        BY <1>b, <3>1, <4>1
      <4>3. e = f /\ addr[f] = a /\ pc[f] = "dup2"
        BY <4>2, <3>1, <2>2, ForkAssumption DEF IInv, ChildInv, ChildOf, InDuppage
      <4>4. QED
        BY <2>2, <4>3 DEF Done, Made, VAs, Text, Stack, IInv, TypeOK
    <3>3. QED
      BY <1>0, <3>1, <3>2, PteFacts DEF IInv, TypeOK
  <2>3. QED
    BY <1>0, <2>1, <2>2 DEF IInv, ChildInv, ChildOf
<1>6. FaultInv'
  BY <1>a, <1>0, <1>c, ForkAssumption, NullAssumption DEF IInv, TypeOK, FaultInv
<1>7. HandlerInv'
  BY <1>a, <1>0, ForkAssumption, NullAssumption DEF IInv, TypeOK, HandlerInv, Making,
     ChildInv, ChildOf,
     StatusInv, SlotOf
<1>8. SelfInv'
  BY <1>a, <1>0, ForkAssumption, NullAssumption DEF IInv, TypeOK, SelfInv, ChildInv,
     ChildOf, StatusInv, SlotOf,
     Making, Text, Data, Stack, VAs
<1>9. QED
  BY <1>1, <1>2, <1>3, <1>4, <1>5, <1>6, <1>7, <1>8 DEF IInv

(* Only the word of a page that is not mapped below USTACKTOP changes: what *)
(* the programs read stays.                                                 *)
LEMMA UnmappedWord ==
  ASSUME TypeOK, StatusInv, ChildInv, NEW q \in Pages, NEW x, word' = [word EXCEPT ![q] = x],
         \A f \in Envs, a \in VAs : pte[f][a].page # q
  PROVE  /\ \A f \in Envs, a \in VAs : env_status[f] = "RUNNABLE" =>
                word'[pte[f][a].page] = word[pte[f][a].page]
         /\ \A f \in Envs, a \in VAs : pc[f] \in Making /\ Done(f, a) =>
                word'[pte[envid[f]][a].page] = word[pte[envid[f]][a].page]
<1>1. \A f \in Envs, a \in VAs : env_status[f] = "RUNNABLE" => pte[f][a].page \in Pages
  BY Mapped
<1>2. \A f \in Envs, a \in VAs : pc[f] \in Making /\ Done(f, a) =>
          envid[f] \in Envs /\ pte[envid[f]][a].page \in Pages
  BY PteFacts, ForkAssumption DEF TypeOK, ChildInv, ChildOf
<1>3. QED
  BY <1>1, <1>2 DEF TypeOK

(* The page at PFTEMP is a fresh one: the invariant is kept. *)
LEMMA FaultAllocStep ==
  ASSUME IInv, NEW e \in Envs, FaultAlloc(e)
  PROVE  IInv'
<1>q. PICK q \in Pages : q = FreshPage /\ q \in FreePages
  BY DEF FaultAlloc, FreshPage, FreePages
<1>0. /\ env_status[e] = "RUNNABLE" /\ fault[e] # NULL /\ hpc[e] = "alloc" /\ pftemp[e] = NULL
      /\ pftemp' = [pftemp EXCEPT ![e] = q]
      /\ word' = [word EXCEPT ![q] = 0]
      /\ hpc' = [hpc EXCEPT ![e] = "copy"]
      /\ UNCHANGED <<env_status, pte, fault, xstack, env_pgfault_upcall, pgfault_handler, pc, envid, addr,
                     want, nfork, panicstr>>
  BY <1>q DEF FaultAlloc, Handles, IInv, FaultInv, setupVars, progVars
<1>a. /\ \A f \in Envs, a \in VAs : pte[f][a].page # q
      /\ \A f \in Envs : pftemp[f] # q
  BY <1>q DEF FreePages, InUse
<1>b. /\ \A f \in Envs, a \in VAs : env_status[f] = "RUNNABLE" =>
             word'[pte[f][a].page] = word[pte[f][a].page]
      /\ \A f \in Envs, a \in VAs : pc[f] \in Making /\ Done(f, a) =>
             word'[pte[envid[f]][a].page] = word[pte[envid[f]][a].page]
  BY <1>0, <1>a, UnmappedWord DEF IInv
<1>1. TypeOK'
  BY <1>0, <1>a, ForkAssumption, NullAssumption DEF IInv, TypeOK, Steps, Words
<1>2. Isolation'
  BY <1>0, <1>a, <1>b, ForkAssumption, NullAssumption DEF IInv, TypeOK, Isolation,
     StatusInv, SlotOf,
     ChildInv, ChildOf
<1>3. WritableExclusive'
  BY <1>0, <1>a, ForkAssumption, NullAssumption DEF IInv, TypeOK, WritableExclusive, InDuppage,
     Alive, ChildInv, ChildOf, Making, StatusInv, SlotOf
<1>4. StatusInv'
  BY <1>0, <1>a, ForkAssumption, NullAssumption DEF IInv, TypeOK, StatusInv, SlotOf, Making,
     ChildInv, ChildOf
<1>5. ChildInv'
  BY <1>0, <1>a, <1>b, ForkAssumption, NullAssumption DEF IInv, TypeOK, ChildInv, ChildOf,
     Making, Made,
     Done, StatusInv, SlotOf
<1>6. FaultInv'
  BY <1>0, <1>a, ForkAssumption, NullAssumption DEF IInv, TypeOK, FaultInv, StatusInv, SlotOf
<1>7. HandlerInv'
  BY <1>0, <1>a, ForkAssumption, NullAssumption DEF IInv, TypeOK, HandlerInv, Making,
     ChildInv, ChildOf,
     StatusInv, SlotOf
<1>8. SelfInv'
  BY <1>0, <1>a, ForkAssumption, NullAssumption DEF IInv, TypeOK, SelfInv, ChildInv,
     ChildOf, StatusInv, SlotOf,
     Making
<1>9. QED
  BY <1>1, <1>2, <1>3, <1>4, <1>5, <1>6, <1>7, <1>8 DEF IInv

(* memcpy() gives the page at PFTEMP what the program reads: the invariant is kept. *)
LEMMA FaultCopyStep ==
  ASSUME IInv, NEW e \in Envs, FaultCopy(e)
  PROVE  IInv'
<1>q. PICK q \in Pages : q = pftemp[e]
  BY DEF FaultCopy, Handles, IInv, TypeOK, FaultInv
<1>0. /\ env_status[e] = "RUNNABLE" /\ fault[e] \in VAs /\ hpc[e] = "copy"
      /\ word' = [word EXCEPT ![q] = word[pte[e][fault[e]].page]]
      /\ hpc' = [hpc EXCEPT ![e] = "map"]
      /\ UNCHANGED <<env_status, pte, pftemp, fault, xstack, env_pgfault_upcall, pgfault_handler, pc, envid, addr,
                     want, nfork, panicstr>>
  BY <1>q DEF FaultCopy, Handles, IInv, TypeOK, FaultInv, setupVars, progVars
<1>a. /\ \A f \in Envs, a \in VAs : pte[f][a].page # q
      /\ \A f \in Envs \ {e} : pftemp[f] # q
  BY <1>q, <1>0, ForkAssumption DEF IInv, WritableExclusive, FaultInv
<1>b. /\ \A f \in Envs, a \in VAs : env_status[f] = "RUNNABLE" =>
             word'[pte[f][a].page] = word[pte[f][a].page]
      /\ \A f \in Envs, a \in VAs : pc[f] \in Making /\ Done(f, a) =>
             word'[pte[envid[f]][a].page] = word[pte[envid[f]][a].page]
  BY <1>0, <1>a, UnmappedWord DEF IInv
<1>c. pte[e][fault[e]].page \in Pages /\ word[pte[e][fault[e]].page] = want[e][fault[e]]
  BY <1>0, Mapped DEF IInv, Isolation
<1>1. TypeOK'
  BY <1>0, <1>a, <1>c, ForkAssumption, NullAssumption DEF IInv, TypeOK, Steps, Words
<1>2. Isolation'
  BY <1>0, <1>a, <1>b, ForkAssumption, NullAssumption DEF IInv, TypeOK, Isolation,
     StatusInv, SlotOf,
     ChildInv, ChildOf
<1>3. WritableExclusive'
  BY <1>0, <1>a, ForkAssumption, NullAssumption DEF IInv, TypeOK, WritableExclusive, InDuppage,
     Alive, ChildInv, ChildOf, Making, StatusInv, SlotOf
<1>4. StatusInv'
  BY <1>0, <1>a, ForkAssumption, NullAssumption DEF IInv, TypeOK, StatusInv, SlotOf, Making,
     ChildInv, ChildOf
<1>5. ChildInv'
  BY <1>0, <1>a, <1>b, ForkAssumption, NullAssumption DEF IInv, TypeOK, ChildInv, ChildOf,
     Making, Made,
     Done, StatusInv, SlotOf
<1>6. FaultInv'
  BY <1>0, <1>a, <1>q, <1>c, ForkAssumption, NullAssumption DEF IInv, TypeOK, FaultInv,
     StatusInv, SlotOf
<1>7. HandlerInv'
  BY <1>0, <1>a, ForkAssumption, NullAssumption DEF IInv, TypeOK, HandlerInv, Making,
     ChildInv, ChildOf,
     StatusInv, SlotOf
<1>8. SelfInv'
  BY <1>0, <1>a, ForkAssumption, NullAssumption DEF IInv, TypeOK, SelfInv, ChildInv,
     ChildOf, StatusInv, SlotOf,
     Making
<1>9. QED
  BY <1>1, <1>2, <1>3, <1>4, <1>5, <1>6, <1>7, <1>8 DEF IInv

(* The copy becomes the program's page: the invariant is kept. *)
LEMMA FaultMapStep ==
  ASSUME IInv, NEW e \in Envs, FaultMap(e)
  PROVE  IInv'
<1>q. PICK q \in Pages : q = pftemp[e]
  BY DEF FaultMap, Handles, IInv, TypeOK, FaultInv
<1>v. PICK v \in VAs : v = fault[e]
  BY DEF FaultMap, Handles, IInv, TypeOK
<1>0. /\ env_status[e] = "RUNNABLE" /\ fault[e] # NULL /\ hpc[e] = "map" /\ v # Text
      /\ word[q] = want[e][v] /\ pte[e][v].perm = "cow"
      /\ hpc' = [hpc EXCEPT ![e] = "unmap"]
      /\ UNCHANGED <<env_status, pftemp, fault, word, xstack, env_pgfault_upcall, pgfault_handler, pc, envid, addr,
                     want, nfork, panicstr>>
  BY <1>q, <1>v DEF FaultMap, Handles, IInv, TypeOK, FaultInv, setupVars, progVars
<1>1a. /\ pte' \in [Envs -> [VAs -> Ptes]]
       /\ \A f \in Envs, a \in VAs : pte'[f][a] =
              IF f = e /\ a = v THEN [page |-> q, perm |-> "w"] ELSE pte[f][a]
  <2>1. [page |-> q, perm |-> "w"] \in Ptes /\ pte \in [Envs -> [VAs -> Ptes]]
    BY DEF Ptes, IInv, TypeOK
  <2>2. pte' = [pte EXCEPT ![e][v] = [page |-> q, perm |-> "w"]]
    BY <1>q, <1>v DEF FaultMap
  <2>3. QED
    BY <2>1, <2>2, OneEntry
<1>1b. /\ pte'[e][v].page = q /\ pte'[e][v].perm = "w"
       /\ \A f \in Envs \ {e}, a \in VAs : pte'[f][a] = pte[f][a]
       /\ \A a \in VAs \ {v} : pte'[e][a] = pte[e][a]
  BY <1>1a
<1>a. /\ \A f \in Envs, a \in VAs : pte[f][a].page # q
      /\ \A f \in Envs \ {e} : pftemp[f] # q
  BY <1>q, <1>0, ForkAssumption DEF IInv, WritableExclusive, FaultInv
<1>b. \A f \in Envs : envid[f] # NULL => envid[f] \in Envs /\ envid[f] # e
  BY <1>0 DEF IInv, TypeOK, ChildInv, ChildOf
<1>1. TypeOK'
  BY <1>0, <1>1b, <1>1a, ForkAssumption, NullAssumption DEF IInv, TypeOK, Steps
<1>2. Isolation'
  <2>1. ASSUME NEW f \in Envs, NEW a \in VAs, env_status[f] = "RUNNABLE"
        PROVE  word[pte'[f][a].page] = want[f][a]
    <3>1. CASE f = e /\ a = v
      BY <1>0, <1>1b, <3>1
    <3>2. CASE ~(f = e /\ a = v)
      BY <1>1b, <2>1, <3>2 DEF IInv, Isolation
    <3>3. QED
      BY <3>1, <3>2
  <2>2. QED
    BY <1>0, <2>1 DEF Isolation
<1>3. WritableExclusive'
  <2>1. ASSUME NEW g \in Envs, NEW f \in Envs, NEW va \in VAs, NEW ua \in VAs,
               Alive(g)', pte'[g][va].perm = "w", <<f, ua>> # <<g, va>>
        PROVE  pte'[f][ua].page # pte'[g][va].page \/ (ua = va /\ InDuppage(g, f, va)')
    <3>1. CASE g = e /\ va = v
      BY <1>1a, <1>a, <2>1, <3>1
    <3>2. CASE f = e /\ ua = v
      BY <1>1a, <1>a, <2>1, <3>2
    <3>3. CASE ~(g = e /\ va = v) /\ ~(f = e /\ ua = v)
      BY <1>0, <1>1a, <2>1, <3>3 DEF IInv, WritableExclusive, Alive, InDuppage
    <3>4. QED
      BY <3>1, <3>2, <3>3
  <2>2. ASSUME NEW g \in Envs, NEW f \in Envs, NEW ua \in VAs,
               pftemp'[g] # NULL, pte'[f][ua].page = pftemp'[g]
        PROVE  f = g /\ ua = fault'[g] /\ hpc'[g] = "unmap"
    <3>1. CASE f = e /\ ua = v
      BY <1>q, <1>v, <1>0, <1>1b, <1>a, <2>2, <3>1 DEF IInv, TypeOK
    <3>2. CASE ~(f = e /\ ua = v)
      <4>1. pte[f][ua].page = pftemp[g]
        BY <1>0, <1>1a, <2>2, <3>2
      <4>2. f = g /\ ua = fault[g] /\ hpc[g] = "unmap"
        BY <1>0, <2>2, <4>1 DEF IInv, WritableExclusive
      <4>3. QED
        BY <1>v, <1>0, <3>2, <4>2
    <3>3. QED
      BY <3>1, <3>2
  <2>3. QED
    BY <2>1, <2>2 DEF WritableExclusive
<1>4. StatusInv'
  <2>1. Text \in VAs /\ Data \in VAs /\ Stack \in VAs
    BY DEF Text, Data, Stack, VAs
  <2>2. \A a \in VAs : pte'[e][a] = pte[e][a] \/ (a # Text /\ pte'[e][a].perm = "w")
    BY <1>0, <1>1b
  <2>3. QED
    BY <1>0, <1>1b, <2>1, <2>2 DEF IInv, StatusInv, SlotOf
<1>5. ChildInv'
  <2>1. \A f \in Envs : envid[f] # NULL =>
            \A a \in VAs : pte'[envid[f]][a] = pte[envid[f]][a]
    BY <1>b, <1>1b
  <2>2. \A f \in Envs : pc[f] = "dup2" /\ addr[f] = Data => pte'[f][Data] = pte[f][Data]
    <3>1. pc[e] = "dup2" => v # Data
      BY <1>v, <1>0 DEF IInv, FaultInv
    <3>2. Data \in VAs
      BY DEF Data, VAs, Text, Stack
    <3>3. QED
      BY <1>1b, <3>1, <3>2
  <2>3. \A f \in Envs, a \in VAs : Done(f, a)' <=> Done(f, a)
    BY <1>0 DEF Done
  <2>4. Data \in VAs /\ \A f \in Envs : addr[f] \in VAs
    BY DEF Data, VAs, Text, Stack, IInv, TypeOK
  <2>5. QED
    BY <1>0, <2>1, <2>2, <2>3, <2>4 DEF IInv, ChildInv, ChildOf, Making
<1>6. FaultInv'
  BY <1>0, <1>1b, <1>v, <1>q, ForkAssumption, NullAssumption DEF IInv, TypeOK, FaultInv,
     StatusInv, SlotOf
<1>7. HandlerInv'
  <2>1. \A f \in Envs, a \in VAs : pte'[f][a].perm = "cow" => pte[f][a].perm = "cow"
    BY <1>1b
  <2>2. QED
    BY <1>0, <2>1 DEF IInv, HandlerInv
<1>8. SelfInv'
  BY <1>0, <1>1b, ForkAssumption, NullAssumption DEF IInv, TypeOK, SelfInv, ChildInv,
     ChildOf, StatusInv, SlotOf,
     Making
<1>9. QED
  BY <1>1, <1>2, <1>3, <1>4, <1>5, <1>6, <1>7, <1>8 DEF IInv

(* The return of pgfault() keeps the invariant. *)
LEMMA FaultUnmapStep ==
  ASSUME IInv, NEW e \in Envs, FaultUnmap(e)
  PROVE  IInv'
<1>1. TypeOK'
  BY ForkAssumption, NullAssumption DEF IInv, TypeOK, Steps, FaultUnmap, Handles, setupVars,
     faultVars, progVars
<1>2. Isolation'
  BY ForkAssumption, NullAssumption DEF IInv, TypeOK, Isolation, StatusInv, SlotOf,
     ChildInv, ChildOf,
     FaultUnmap, Handles, setupVars, faultVars, progVars
<1>3. WritableExclusive'
  BY ForkAssumption, NullAssumption DEF IInv, TypeOK, WritableExclusive, InDuppage, Alive,
     ChildInv, ChildOf, Making, StatusInv, SlotOf, FaultUnmap, Handles, setupVars,
     faultVars, progVars
<1>4. StatusInv'
  BY ForkAssumption, NullAssumption DEF IInv, TypeOK, StatusInv, SlotOf, Making, ChildInv,
     ChildOf, FaultUnmap,
     Handles, setupVars, faultVars, progVars
<1>5. ChildInv'
  BY ForkAssumption, NullAssumption DEF IInv, TypeOK, ChildInv, ChildOf, Making, Made, Done,
     StatusInv, SlotOf,
     FaultUnmap, Handles, setupVars, faultVars, progVars
<1>6. FaultInv'
  BY ForkAssumption, NullAssumption DEF IInv, TypeOK, FaultInv, StatusInv, SlotOf,
     FaultUnmap, Handles,
     setupVars, faultVars, progVars
<1>7. HandlerInv'
  BY ForkAssumption, NullAssumption DEF IInv, TypeOK, HandlerInv, Making, ChildInv, ChildOf,
     StatusInv, SlotOf,
     FaultUnmap, Handles, setupVars, faultVars, progVars
<1>8. SelfInv'
  BY ForkAssumption, NullAssumption DEF IInv, TypeOK, SelfInv, ChildInv, ChildOf, StatusInv,
     SlotOf, Making,
     FaultUnmap, Handles, setupVars, faultVars, progVars
<1>9. QED
  BY <1>1, <1>2, <1>3, <1>4, <1>5, <1>6, <1>7, <1>8 DEF IInv

(* sys_exofork() keeps the invariant: the child has nothing yet. *)
LEMMA ExoforkStep ==
  ASSUME IInv, NEW e \in Envs, NEW c \in Envs, sys_exofork(e, c)
  PROVE  IInv'
<1>0. /\ env_status[e] = "RUNNABLE" /\ fault[e] = NULL /\ pc[e] = "exofork"
      /\ env_status[c] = "FREE" /\ c # e
      /\ env_status' = [env_status EXCEPT ![c] = "NOT_RUNNABLE"]
      /\ envid' = [envid EXCEPT ![e] = c]
      /\ addr' = [addr EXCEPT ![e] = Text]
      /\ pc' = [pc EXCEPT ![e] = "dup", ![c] = "child"]
      /\ UNCHANGED <<pte, pftemp, xstack, env_pgfault_upcall, pgfault_handler, fault, hpc, word,
                     want, nfork, panicstr>>
  BY DEF sys_exofork, At, Runs, setupVars, faultVars
<1>a. /\ \A va \in VAs : pte[c][va] = NoMap /\ pte[c][va].perm = NULL
      /\ pc[c] = "run" /\ envid[c] = NULL /\ envid[e] = NULL /\ fault[c] = NULL
      /\ \A f \in Envs : envid[f] # c
      /\ Text \in VAs /\ Data \in VAs /\ Stack \in VAs
  BY <1>0, ForkAssumption DEF IInv, StatusInv, SlotOf, ChildInv, ChildOf, Making, NoMap,
     VAs, Text, Data, Stack
<1>1. TypeOK'
  BY <1>0, <1>a, ForkAssumption, NullAssumption DEF IInv, TypeOK, Steps
<1>2. Isolation'
  BY <1>0, <1>a, ForkAssumption, NullAssumption DEF IInv, TypeOK, Isolation, StatusInv,
     SlotOf, ChildInv, ChildOf
<1>3. WritableExclusive'
  BY <1>0, <1>a, ForkAssumption, NullAssumption DEF IInv, TypeOK, WritableExclusive, InDuppage,
     Alive, ChildInv, ChildOf, Making, StatusInv, SlotOf, NoMap
<1>4. StatusInv'
  BY <1>0, <1>a, ForkAssumption, NullAssumption DEF IInv, TypeOK, StatusInv, SlotOf, Making,
     ChildInv, ChildOf
<1>5. ChildInv'
  <2>1. \A f \in Envs \ {e, c} :
            /\ pc'[f] = pc[f] /\ envid'[f] = envid[f] /\ addr'[f] = addr[f]
            /\ \A a \in VAs : Done(f, a)' <=> Done(f, a)
    BY <1>0 DEF IInv, TypeOK, Done
  <2>2. /\ pc'[e] = "dup" /\ envid'[e] = c /\ addr'[e] = Text /\ pc'[c] = "child" /\ envid'[c] = NULL
        /\ env_status'[c] = "NOT_RUNNABLE"
        /\ \A f \in Envs \ {c} : env_status'[f] = env_status[f]
    BY <1>0, <1>a DEF IInv, TypeOK
  <2>3. \A a \in VAs : ~Done(e, a)'
    BY <2>2 DEF Done, Made, VAs, Text, Stack
  <2>4. ASSUME NEW f \in Envs
        PROVE  ChildOf(f)'
    <3>1. CASE f = e
      BY <2>2, <2>3, <3>1, ForkAssumption DEF ChildOf, Making, Made
    <3>2. CASE f = c
      BY <1>0, <2>2, <3>2 DEF ChildOf, Making, Made
    <3>3. CASE f \notin {e, c}
      BY <1>0, <1>a, <2>1, <2>2, <3>3 DEF ChildOf, IInv, ChildInv, TypeOK
    <3>4. QED
      BY <3>1, <3>2, <3>3
  <2>5. \A f, g \in Envs : envid'[f] # NULL /\ envid'[f] = envid'[g] => f = g
    BY <1>0, <1>a, ForkAssumption DEF IInv, TypeOK, ChildInv, ChildOf
  <2>6. QED
    BY <2>4, <2>5 DEF ChildInv, ChildOf
<1>6. FaultInv'
  <2>1. \A f \in Envs : fault[f] # NULL => pc'[f] = pc[f]
    BY <1>0, <1>a DEF IInv, TypeOK
  <2>2. QED
    BY <1>0, <2>1 DEF IInv, FaultInv
<1>7. HandlerInv'
  BY <1>0, <1>a, ForkAssumption, NullAssumption DEF IInv, TypeOK, HandlerInv, Making,
     ChildInv, ChildOf,
     StatusInv, SlotOf
<1>8. SelfInv'
  BY <1>0, <1>a, ForkAssumption, NullAssumption DEF IInv, TypeOK, SelfInv, ChildInv,
     ChildOf, StatusInv, SlotOf,
     Making
<1>9. QED
  BY <1>1, <1>2, <1>3, <1>4, <1>5, <1>6, <1>7, <1>8 DEF IInv

(* The child may run: it has all its pages, and the invariant is kept. *)
LEMMA ChildRunnableStep ==
  ASSUME IInv, NEW e \in Envs, ChildRunnable(e)
  PROVE  IInv'
<1>c. PICK c \in Envs : c = envid[e]
  BY DEF ChildRunnable, At, IInv, TypeOK, ChildInv, ChildOf, Making
<1>0. /\ env_status[e] = "RUNNABLE" /\ fault[e] = NULL /\ pc[e] = "status" /\ envid[e] = c
      /\ env_status[c] = "NOT_RUNNABLE" /\ c # e
      /\ env_status' = [env_status EXCEPT ![c] = "RUNNABLE"]
      /\ envid' = [envid EXCEPT ![e] = NULL]
      /\ addr' = [addr EXCEPT ![e] = Text]
      /\ pc' = [pc EXCEPT ![e] = "run"]
      /\ UNCHANGED <<pte, pftemp, xstack, env_pgfault_upcall, pgfault_handler, fault, hpc, word,
                     want, nfork, panicstr>>
  BY <1>c DEF ChildRunnable, At, Runs, setupVars, faultVars, IInv, ChildInv, ChildOf, Making
<1>a. /\ \A va \in VAs : pte[c][va] # NoMap /\ word[pte[c][va].page] = want[c][va]
      /\ pc[c] = "child" /\ envid[c] = NULL
      /\ Text \in VAs /\ Data \in VAs /\ Stack \in VAs
      /\ pgfault_handler[c]
  BY <1>0, ForkAssumption DEF IInv, StatusInv, SlotOf, ChildInv, ChildOf, HandlerInv,
     Making, Made, Done, VAs, Text,
     Data, Stack
<1>b. \A f \in Envs \ {e} : envid[f] # NULL => envid[f] # c
  BY <1>0 DEF IInv, ChildInv, ChildOf
<1>1. TypeOK'
  BY <1>0, <1>a, ForkAssumption, NullAssumption DEF IInv, TypeOK, Steps
<1>2. Isolation'
  BY <1>0, <1>a, ForkAssumption, NullAssumption DEF IInv, TypeOK, Isolation, StatusInv,
     SlotOf, ChildInv, ChildOf
<1>3. WritableExclusive'
  BY <1>0, <1>a, ForkAssumption, NullAssumption DEF IInv, TypeOK, WritableExclusive, InDuppage,
     Alive, ChildInv, ChildOf, Making, StatusInv, SlotOf
<1>4. StatusInv'
  BY <1>0, <1>a, ForkAssumption, NullAssumption DEF IInv, TypeOK, StatusInv, SlotOf, Making,
     ChildInv, ChildOf
<1>5. ChildInv'
  <2>1. \A f \in Envs \ {e} :
            /\ pc'[f] = pc[f] /\ envid'[f] = envid[f] /\ addr'[f] = addr[f]
            /\ \A a \in VAs : Done(f, a)' <=> Done(f, a)
    BY <1>0 DEF IInv, TypeOK, Done
  <2>2. pc'[e] = "run" /\ envid'[e] = NULL /\ \A f \in Envs \ {c} : env_status'[f] = env_status[f]
    BY <1>0 DEF IInv, TypeOK
  <2>3. ASSUME NEW f \in Envs
        PROVE  ChildOf(f)'
    <3>1. CASE f = e
      BY <2>2, <3>1 DEF ChildOf, Making, Made
    <3>2. CASE f # e
      BY <1>0, <1>b, <2>1, <2>2, <3>2 DEF ChildOf, IInv, ChildInv, TypeOK
    <3>3. QED
      BY <3>1, <3>2
  <2>4. \A f, g \in Envs : envid'[f] # NULL /\ envid'[f] = envid'[g] => f = g
    BY <1>0 DEF IInv, TypeOK, ChildInv, ChildOf
  <2>5. QED
    BY <2>3, <2>4 DEF ChildInv, ChildOf
<1>6. FaultInv'
  BY <1>0, <1>a, ForkAssumption, NullAssumption DEF IInv, TypeOK, FaultInv, StatusInv, SlotOf
<1>7. HandlerInv'
  BY <1>0, <1>a, <1>b, ForkAssumption, NullAssumption DEF IInv, TypeOK, HandlerInv, Making,
     ChildInv, ChildOf, StatusInv, SlotOf
<1>8. SelfInv'
  BY <1>0, <1>a, ForkAssumption, NullAssumption DEF IInv, TypeOK, SelfInv, ChildInv,
     ChildOf, StatusInv, SlotOf,
     Making
<1>9. QED
  BY <1>1, <1>2, <1>3, <1>4, <1>5, <1>6, <1>7, <1>8 DEF IInv

(* The end of an environment keeps the invariant; its unfinished child stays. *)
LEMMA DestroyStep ==
  ASSUME IInv, NEW e \in Envs, env_status[e] = "RUNNABLE", Destroy(e)
  PROVE  IInv'
<1>0. /\ env_status' = [env_status EXCEPT ![e] = "FREE"]
      /\ pte' = [pte EXCEPT ![e] = [va \in VAs |-> NoMap]]
      /\ pftemp' = [pftemp EXCEPT ![e] = NULL]
      /\ xstack' = [xstack EXCEPT ![e] = FALSE]
      /\ env_pgfault_upcall' = [env_pgfault_upcall EXCEPT ![e] = FALSE]
      /\ pgfault_handler' = [pgfault_handler EXCEPT ![e] = FALSE]
      /\ pc' = [pc EXCEPT ![e] = "run"]
      /\ envid' = [envid EXCEPT ![e] = NULL]
      /\ addr' = [addr EXCEPT ![e] = Text]
      /\ fault' = [fault EXCEPT ![e] = NULL]
      /\ hpc' = [hpc EXCEPT ![e] = "alloc"]
      /\ want' = [want EXCEPT ![e] = [va \in VAs |-> 0]]
      /\ word' = word /\ nfork' = nfork /\ panicstr' = panicstr
  BY DEF Destroy
<1>a. /\ \A f \in Envs : envid[f] # e
      /\ Text \in VAs /\ Data \in VAs /\ Stack \in VAs
      /\ NoMap \in Ptes /\ 0 \in Words /\ NoMap.page = NULL /\ NoMap.perm = NULL
  BY ForkAssumption DEF IInv, ChildInv, ChildOf, VAs, Text, Data, Stack, NoMap, Ptes, Words
<1>b. /\ \A va \in VAs : pte'[e][va] = NoMap
      /\ \A f \in Envs \ {e} : pte'[f] = pte[f] /\ want'[f] = want[f]
  BY <1>0 DEF IInv, TypeOK
<1>1. TypeOK'
  BY <1>0, <1>a, <1>b, ForkAssumption, NullAssumption DEF IInv, TypeOK, Steps
<1>2. Isolation'
  BY <1>0, <1>a, <1>b, ForkAssumption, NullAssumption DEF IInv, TypeOK, Isolation,
     StatusInv, SlotOf,
     ChildInv, ChildOf
<1>3. WritableExclusive'
  <2>1. \A f \in Envs, a \in VAs : f # e \/ (pte'[f][a].perm = NULL /\ pte'[f][a].page = NULL)
    BY <1>a, <1>b
  <2>2. \A f \in Envs \ {e} : /\ env_status'[f] = env_status[f] /\ pftemp'[f] = pftemp[f]
                             /\ pc'[f] = pc[f] /\ envid'[f] = envid[f] /\ addr'[f] = addr[f]
                             /\ fault'[f] = fault[f] /\ hpc'[f] = hpc[f] /\ pte'[f] = pte[f]
    BY <1>0 DEF IInv, TypeOK
  <2>3. ASSUME NEW g \in Envs, NEW f \in Envs, NEW va \in VAs, NEW ua \in VAs,
               Alive(g)', pte'[g][va].perm = "w", <<f, ua>> # <<g, va>>
        PROVE  pte'[f][ua].page # pte'[g][va].page \/ (ua = va /\ InDuppage(g, f, va)')
    <3>1. g # e /\ pte[g][va].perm = "w" /\ Alive(g)
      BY <2>1, <2>2, <2>3, NullAssumption DEF Alive
    <3>2. CASE f = e
      <4>1. pte[g][va].page # NULL
        BY <3>1, PteFacts, NullAssumption DEF IInv
      <4>2. QED
        BY <2>1, <2>2, <3>1, <3>2, <4>1
    <3>3. CASE f # e
      BY <2>2, <2>3, <3>1, <3>3 DEF IInv, WritableExclusive, InDuppage
    <3>4. QED
      BY <3>2, <3>3
  <2>4. ASSUME NEW g \in Envs, NEW f \in Envs, NEW ua \in VAs,
               pftemp'[g] # NULL, pte'[f][ua].page = pftemp'[g]
        PROVE  f = g /\ ua = fault'[g] /\ hpc'[g] = "unmap"
    <3>1. g # e /\ f # e
      BY <1>0, <2>1, <2>4 DEF IInv, TypeOK
    <3>2. QED
      BY <2>2, <2>4, <3>1 DEF IInv, WritableExclusive
  <2>5. QED
    BY <2>3, <2>4 DEF WritableExclusive
<1>4. StatusInv'
  BY <1>0, <1>a, <1>b, ForkAssumption, NullAssumption DEF IInv, TypeOK, StatusInv, SlotOf,
     Making,
     ChildInv, ChildOf
<1>5. ChildInv'
  <2>1. \A f \in Envs \ {e} :
            /\ pc'[f] = pc[f] /\ envid'[f] = envid[f] /\ addr'[f] = addr[f]
            /\ env_status'[f] = env_status[f]
            /\ \A a \in VAs : Done(f, a)' <=> Done(f, a)
    BY <1>0 DEF IInv, TypeOK, Done
  <2>2. pc'[e] = "run" /\ envid'[e] = NULL
    BY <1>0 DEF IInv, TypeOK
  <2>3. ASSUME NEW f \in Envs
        PROVE  ChildOf(f)'
    <3>1. CASE f = e
      BY <2>2, <3>1 DEF ChildOf, Making, Made
    <3>2. CASE f # e
      BY <1>0, <1>a, <1>b, <2>1, <2>2, <3>2 DEF ChildOf, IInv, ChildInv, TypeOK
    <3>3. QED
      BY <3>1, <3>2
  <2>4. \A f, g \in Envs : envid'[f] # NULL /\ envid'[f] = envid'[g] => f = g
    BY <1>0 DEF IInv, TypeOK, ChildInv, ChildOf
  <2>5. QED
    BY <2>3, <2>4 DEF ChildInv, ChildOf
<1>6. FaultInv'
  BY <1>0, <1>a, <1>b, ForkAssumption, NullAssumption DEF IInv, TypeOK, FaultInv, StatusInv,
     SlotOf
<1>7. HandlerInv'
  BY <1>0, <1>a, <1>b, ForkAssumption, NullAssumption DEF IInv, TypeOK, HandlerInv, Making,
     ChildInv, ChildOf, StatusInv, SlotOf
<1>8. SelfInv'
  BY <1>0, <1>a, <1>b, ForkAssumption, NullAssumption DEF IInv, TypeOK, SelfInv, ChildInv,
     ChildOf,
     StatusInv, SlotOf, Making
<1>9. QED
  BY <1>1, <1>2, <1>3, <1>4, <1>5, <1>6, <1>7, <1>8 DEF IInv

(* The loop of fork() goes on: duppage() is done for one page more. *)
LEMMA NextPageFacts ==
  ASSUME TypeOK, NEW e \in Envs, pc[e] \in {"dup", "dup2"}, NextPage(e)
  PROVE  /\ pc'[e] \in {"dup", "xstack"} /\ pc' = [pc EXCEPT ![e] = pc'[e]]
         /\ addr' \in [Envs -> VAs] /\ \A f \in Envs \ {e} : addr'[f] = addr[f]
         /\ pc'[e] = "xstack" => addr'[e] = Stack
         /\ \A a \in VAs : Done(e, a)' <=> Done(e, a) \/ a = addr[e]
<1>1. addr[e] \in {1, 2, 3}
  BY DEF TypeOK, VAs, Text, Stack
<1>2. CASE addr[e] = Stack
  BY <1>1, <1>2 DEF NextPage, TypeOK, VAs, Text, Stack, Done, Made
<1>3. CASE addr[e] # Stack
  BY <1>1, <1>3 DEF NextPage, TypeOK, VAs, Text, Stack, Done, Made
<1>4. QED
  BY <1>2, <1>3

(* The first half of duppage() keeps the invariant: the child shares the page. *)
LEMMA DupChildStep ==
  ASSUME IInv, NEW e \in Envs, At(e, "dup"), pte[e][addr[e]].perm \in {"w", "cow"},
         MapChild(e), pc' = [pc EXCEPT ![e] = "dup2"], UNCHANGED <<addr, want, env_status,
         pftemp, setupVars, envid, faultVars, word, nfork, panicstr>>
  PROVE  IInv'
<1>c. PICK c \in Envs : c = envid[e]
  BY DEF IInv, TypeOK, ChildInv, ChildOf, Making, At
<1>v. PICK v \in VAs : v = addr[e]
  BY DEF IInv, TypeOK
<1>s. /\ env_status[e] = "RUNNABLE" /\ fault[e] = NULL /\ c # e /\ env_status[c] = "NOT_RUNNABLE"
      /\ envid[c] = NULL /\ pc[c] = "child" /\ Text \in VAs /\ Data \in VAs /\ Stack \in VAs
      /\ \A f \in Envs \ {e} : envid[f] # c
      /\ \A f \in Envs : envid[f] # e
  BY <1>c, ForkAssumption DEF At, Runs, IInv, ChildInv, ChildOf, StatusInv, SlotOf, Making,
     VAs, Text, Data, Stack
<1>m. pte[e][v].page \in Pages
  BY <1>s, Mapped DEF IInv
<1>0. /\ pc[e] = "dup" /\ v # Text
      /\ pc' = [pc EXCEPT ![e] = "dup2"]
      /\ addr' = addr /\ want' = want
      /\ UNCHANGED <<env_status, pftemp, xstack, env_pgfault_upcall, pgfault_handler, envid, fault,
                     hpc, word, nfork, panicstr>>
  BY <1>v, <1>s DEF IInv, StatusInv, SlotOf, setupVars, faultVars, At
<1>1a. /\ pte' \in [Envs -> [VAs -> Ptes]]
       /\ \A f \in Envs, a \in VAs : pte'[f][a] =
              IF f = c /\ a = v THEN [page |-> pte[e][v].page, perm |-> "cow"] ELSE pte[f][a]
  <2>1. [page |-> pte[e][v].page, perm |-> "cow"] \in Ptes /\ pte \in [Envs -> [VAs -> Ptes]]
    BY <1>m DEF Ptes, IInv, TypeOK
  <2>2. pte' = [pte EXCEPT ![c][v] = [page |-> pte[e][v].page, perm |-> "cow"]]
    BY <1>c, <1>v DEF MapChild
  <2>3. QED
    BY <2>1, <2>2, OneEntry
<1>1b. /\ pte'[c][v].page = pte[e][v].page /\ pte'[c][v].perm = "cow" /\ pte'[c][v] # NoMap
       /\ \A f \in Envs \ {c}, a \in VAs : pte'[f][a] = pte[f][a]
       /\ \A f \in Envs, a \in VAs : ~(f = c /\ a = v) => pte'[f][a] = pte[f][a]
       /\ \A a \in VAs \ {v} : pte'[c][a] = pte[c][a]
  BY <1>1a, <1>m, ForkAssumption DEF NoMap
<1>1. TypeOK'
  <2>1. pc' \in [Envs -> Steps]
    BY <1>0 DEF IInv, TypeOK, Steps
  <2>2. QED
    BY <1>0, <1>1a, <2>1 DEF IInv, TypeOK
<1>2. Isolation'
  BY <1>s, <1>0, <1>1b DEF IInv, Isolation
<1>3. WritableExclusive'
  <2>1. \A g \in Envs, va \in VAs : Alive(g) /\ pte[g][va].perm = "w" /\ ~(g = e /\ va = v) =>
            pte[g][va].page # pte[e][v].page
    <3>1. SUFFICES ASSUME NEW g \in Envs, NEW va \in VAs, Alive(g), pte[g][va].perm = "w",
                          ~(g = e /\ va = v), pte[g][va].page = pte[e][v].page
                   PROVE  FALSE
      OBVIOUS
    <3>2. InDuppage(g, e, va)
      BY <3>1 DEF IInv, WritableExclusive
    <3>3. QED
      BY <1>s, <3>2 DEF InDuppage
  <2>2. \A g \in Envs : pftemp[g] # NULL => pte[e][v].page # pftemp[g]
    <3>1. SUFFICES ASSUME NEW g \in Envs, pftemp[g] # NULL, pte[e][v].page = pftemp[g]
                   PROVE  FALSE
      OBVIOUS
    <3>2. g = e /\ v = fault[e]
      BY <3>1 DEF IInv, WritableExclusive
    <3>3. QED
      BY <1>s, <3>2, NullAssumption
  <2>3. ASSUME NEW g \in Envs, NEW f \in Envs, NEW va \in VAs, NEW ua \in VAs,
               Alive(g)', pte'[g][va].perm = "w", <<f, ua>> # <<g, va>>
        PROVE  pte'[f][ua].page # pte'[g][va].page \/ (ua = va /\ InDuppage(g, f, va)')
    <3>1. ~(g = c /\ va = v) /\ pte'[g][va] = pte[g][va] /\ Alive(g)
      BY <1>0, <1>1b, <2>3 DEF Alive
    <3>2. CASE f = c /\ ua = v
      BY <1>c, <1>v, <1>s, <1>0, <1>1b, <2>1, <2>3, <3>1, <3>2 DEF InDuppage, IInv, TypeOK
    <3>3. CASE ~(f = c /\ ua = v)
      BY <1>s, <1>0, <1>1b, <2>3, <3>1, <3>3 DEF IInv, WritableExclusive, InDuppage, TypeOK
    <3>4. QED
      BY <3>2, <3>3
  <2>4. ASSUME NEW g \in Envs, NEW f \in Envs, NEW ua \in VAs,
               pftemp'[g] # NULL, pte'[f][ua].page = pftemp'[g]
        PROVE  f = g /\ ua = fault'[g] /\ hpc'[g] = "unmap"
    <3>1. ~(f = c /\ ua = v)
      BY <1>0, <1>1b, <2>2, <2>4
    <3>2. QED
      BY <1>0, <1>1b, <2>4, <3>1 DEF IInv, WritableExclusive
  <2>5. QED
    BY <2>3, <2>4 DEF WritableExclusive
<1>4. StatusInv'
  <2>1. \A f \in Envs : f # e => pc'[f] = pc[f]
    BY <1>0 DEF IInv, TypeOK
  <2>2. ASSUME NEW f \in Envs, f # c
        PROVE  \A a \in VAs : pte'[f][a] = pte[f][a]
    BY <1>1b, <2>2
  <2>3. \A a \in VAs : \/ pte'[c][a] = pte[c][a]
                      \/ IF a = Text THEN pte'[c][a].perm = "r" ELSE pte'[c][a].perm = "cow"
    BY <1>0, <1>1b
  <2>4. Text # Data /\ Text # Stack
    BY DEF Text, Data, Stack
  <2>5. QED
    BY <1>s, <1>0, <2>1, <2>2, <2>3, <2>4 DEF IInv, StatusInv, SlotOf
<1>5. ChildInv'
  <2>1. \A f \in Envs : f # e => /\ pc'[f] = pc[f]
                               /\ \A a \in VAs : Done(f, a)' <=> Done(f, a)
    BY <1>0 DEF IInv, TypeOK, Done
  <2>2. pc'[e] = "dup2" /\ \A a \in VAs : Done(e, a)' <=> Done(e, a)
    BY <1>0 DEF IInv, TypeOK, Done, Made
  <2>3. ~Done(e, v)
    BY <1>v, <1>0 DEF Done, Made, VAs, Text, Stack, IInv, TypeOK
  <2>4. ASSUME NEW f \in Envs
        PROVE  ChildOf(f)'
    <3>1. CASE f = e
      <4>1. envid'[e] = c /\ addr'[e] = v /\ c # NULL
        BY <1>c, <1>v, <1>0, ForkAssumption
      <4>2. \A a \in VAs : Done(e, a)' =>
                pte'[c][a] # NoMap /\ word'[pte'[c][a].page] = want'[c][a]
        BY <1>c, <1>0, <1>1b, <2>2, <2>3 DEF IInv, ChildInv, ChildOf, Making
      <4>3. v = Data => pte'[c][Data].page = pte'[e][Data].page
        BY <1>s, <1>1b
      <4>4. QED
        BY <1>s, <1>0, <1>1b, <2>2, <3>1, <4>1, <4>2, <4>3 DEF ChildOf, Making, Made
    <3>2. CASE f # e
      <4>1. /\ envid'[f] = envid[f] /\ addr'[f] = addr[f] /\ addr[f] \in VAs
            /\ envid[f] # NULL => envid[f] \in Envs /\ envid[f] # c
        BY <1>s, <1>0, <3>2 DEF IInv, TypeOK
      <4>2. \A a \in VAs : envid[f] # NULL => pte'[envid[f]][a] = pte[envid[f]][a]
        BY <1>1b, <4>1
      <4>3. pc[f] = "dup2" => pte'[f][Data] = pte[f][Data]
        BY <1>s, <1>1b
      <4>4. \A a \in VAs : envid[f] # NULL => want'[envid[f]][a] = want[envid[f]][a]
        BY <1>0, <4>1
      <4>5. ChildOf(f)
        BY DEF IInv, ChildInv
      <4>6. QED
        BY <1>s, <1>0, <2>1, <3>2, <4>1, <4>2, <4>3, <4>4, <4>5 DEF ChildOf, Making
    <3>3. QED
      BY <3>1, <3>2
  <2>5. QED
    BY <1>0, <2>4 DEF IInv, ChildInv
<1>6. FaultInv'
  <2>1. \A f \in Envs : f = c \/ \A a \in VAs : pte'[f][a] = pte[f][a]
    BY <1>1b
  <2>2. \A f \in Envs, a \in VAs : f # c => want'[f][a] = want[f][a]
    BY <1>0
  <2>3. fault[c] = NULL /\ hpc[c] = "alloc"
    BY <1>s DEF IInv, StatusInv, SlotOf, FaultInv
  <2>4. \A f \in Envs : pc[f] \in {"child", "sph_store"} => pc'[f] \in {"child", "sph_store"}
    BY <1>0 DEF IInv, TypeOK
  <2>5. \A f \in Envs : fault[f] \in VAs \cup {NULL} /\ (hpc[f] = "map" => fault[f] \in VAs)
    BY DEF IInv, TypeOK, FaultInv
  <2>6. QED
    BY <1>0, <2>1, <2>2, <2>3, <2>4, <2>5 DEF IInv, FaultInv
<1>7. HandlerInv'
  <2>1. \A f \in Envs : f = c \/ \A a \in VAs : pte'[f][a] = pte[f][a]
    BY <1>1b
  <2>2. /\ \A f \in Envs \ {e} : pc'[f] = pc[f]
        /\ pc[e] \in Making /\ pc'[e] \in {"dup", "dup2", "xstack"} /\ "xstack" \in Making
    BY <1>0 DEF IInv, TypeOK, Making
  <2>3. QED
    BY <1>s, <1>0, <2>1, <2>2 DEF IInv, HandlerInv
<1>8. SelfInv'
  BY <1>s, <1>0 DEF IInv, TypeOK, SelfInv
<1>9. QED
  BY <1>1, <1>2, <1>3, <1>4, <1>5, <1>6, <1>7, <1>8 DEF IInv

(* duppage() of a read-only page keeps the invariant. *)
LEMMA DupReadStep ==
  ASSUME IInv, NEW e \in Envs, At(e, "dup"), pte[e][addr[e]].perm = "r", pte' = [pte EXCEPT
         ![envid[e]][addr[e]] = pte[e][addr[e]]], Inherit(e), NextPage(e), UNCHANGED
         <<env_status, pftemp, setupVars, envid, faultVars, word, nfork, panicstr>>
  PROVE  IInv'
<1>c. PICK c \in Envs : c = envid[e]
  BY DEF IInv, TypeOK, ChildInv, ChildOf, Making, At
<1>v. PICK v \in VAs : v = addr[e]
  BY DEF IInv, TypeOK
<1>s. /\ env_status[e] = "RUNNABLE" /\ fault[e] = NULL /\ c # e /\ env_status[c] = "NOT_RUNNABLE"
      /\ envid[c] = NULL /\ pc[c] = "child" /\ Text \in VAs /\ Data \in VAs /\ Stack \in VAs
      /\ \A f \in Envs \ {e} : envid[f] # c
      /\ \A f \in Envs : envid[f] # e
  BY <1>c, ForkAssumption DEF At, Runs, IInv, ChildInv, ChildOf, StatusInv, SlotOf, Making,
     VAs, Text, Data, Stack
<1>m. pte[e][v].page \in Pages
  BY <1>s, Mapped DEF IInv
<1>0. /\ pc[e] = "dup" /\ v = Text /\ pte[e][v].perm = "r"
      /\ want' \in [Envs -> [VAs -> Words]]
      /\ \A f \in Envs, a \in VAs : want'[f][a] = IF f = c /\ a = v THEN want[e][v] ELSE want[f][a]
      /\ pc'[e] \in {"dup", "xstack"} /\ pc' = [pc EXCEPT ![e] = pc'[e]]
      /\ addr' \in [Envs -> VAs] /\ \A f \in Envs \ {e} : addr'[f] = addr[f]
      /\ pc'[e] = "xstack" => addr'[e] = Stack
      /\ \A a \in VAs : Done(e, a)' <=> Done(e, a) \/ a = v
      /\ UNCHANGED <<env_status, pftemp, xstack, env_pgfault_upcall, pgfault_handler, envid, fault,
                     hpc, word, nfork, panicstr>>
  <2>1. v = Text /\ Text # Stack
    BY <1>v, <1>s DEF IInv, StatusInv, SlotOf, VAs, Text, Data, Stack
  <2>2. want' = [want EXCEPT ![c][v] = want[e][v]]
    BY <1>c, <1>v, <2>1 DEF Inherit
  <2>3. want \in [Envs -> [VAs -> Words]] /\ want[e][v] \in Words
    BY DEF IInv, TypeOK
  <2>4. /\ want' \in [Envs -> [VAs -> Words]]
        /\ \A f \in Envs, a \in VAs : want'[f][a] = IF f = c /\ a = v THEN want[e][v] ELSE want[f][a]
    BY <2>2, <2>3, OneWant
  <2>5. /\ pc'[e] \in {"dup", "xstack"} /\ pc' = [pc EXCEPT ![e] = pc'[e]]
        /\ addr' \in [Envs -> VAs] /\ \A f \in Envs \ {e} : addr'[f] = addr[f]
        /\ pc'[e] = "xstack" => addr'[e] = Stack
        /\ \A a \in VAs : Done(e, a)' <=> Done(e, a) \/ a = v
    BY <1>v, NextPageFacts DEF IInv, At
  <2>6. QED
    BY <1>v, <2>1, <2>4, <2>5 DEF setupVars, faultVars, At
<1>1a. /\ pte' \in [Envs -> [VAs -> Ptes]]
       /\ \A f \in Envs, a \in VAs : pte'[f][a] = IF f = c /\ a = v THEN pte[e][v] ELSE pte[f][a]
  <2>1. pte \in [Envs -> [VAs -> Ptes]]
    BY DEF IInv, TypeOK
  <2>2. PICK x \in Ptes : x = pte[e][v]
    BY <2>1
  <2>3. pte' = [pte EXCEPT ![c][v] = x]
    BY <1>c, <1>v, <2>2
  <2>4. /\ pte' \in [Envs -> [VAs -> Ptes]]
        /\ \A f \in Envs, a \in VAs : pte'[f][a] = IF f = c /\ a = v THEN x ELSE pte[f][a]
    BY ONLY <2>1, <2>2, <2>3, OneEntry
  <2>5. QED
    BY <2>2, <2>4
<1>1b. /\ pte'[c][v].page = pte[e][v].page /\ pte'[c][v].perm = "r" /\ pte'[c][v] # NoMap
       /\ \A f \in Envs \ {c}, a \in VAs : pte'[f][a] = pte[f][a]
       /\ \A f \in Envs, a \in VAs : ~(f = c /\ a = v) => pte'[f][a] = pte[f][a]
       /\ \A a \in VAs \ {v} : pte'[c][a] = pte[c][a]
  BY <1>1a, <1>m, <1>0, ForkAssumption DEF NoMap
<1>1. TypeOK'
  <2>1. pc' \in [Envs -> Steps]
    BY <1>0 DEF IInv, TypeOK, Steps
  <2>2. QED
    BY <1>0, <1>1a, <2>1 DEF IInv, TypeOK
<1>2. Isolation'
  BY <1>s, <1>0, <1>1b DEF IInv, Isolation
<1>3. WritableExclusive'
  <2>1. \A g \in Envs, va \in VAs : Alive(g) /\ pte[g][va].perm = "w" /\ ~(g = e /\ va = v) =>
            pte[g][va].page # pte[e][v].page
    <3>1. SUFFICES ASSUME NEW g \in Envs, NEW va \in VAs, Alive(g), pte[g][va].perm = "w",
                          ~(g = e /\ va = v), pte[g][va].page = pte[e][v].page
                   PROVE  FALSE
      OBVIOUS
    <3>2. InDuppage(g, e, va)
      BY <3>1 DEF IInv, WritableExclusive
    <3>3. QED
      BY <1>s, <3>2 DEF InDuppage
  <2>2. \A g \in Envs : pftemp[g] # NULL => pte[e][v].page # pftemp[g]
    <3>1. SUFFICES ASSUME NEW g \in Envs, pftemp[g] # NULL, pte[e][v].page = pftemp[g]
                   PROVE  FALSE
      OBVIOUS
    <3>2. g = e /\ v = fault[e]
      BY <3>1 DEF IInv, WritableExclusive
    <3>3. QED
      BY <1>s, <3>2, NullAssumption
  <2>3. ASSUME NEW g \in Envs, NEW f \in Envs, NEW va \in VAs, NEW ua \in VAs,
               Alive(g)', pte'[g][va].perm = "w", <<f, ua>> # <<g, va>>
        PROVE  pte'[f][ua].page # pte'[g][va].page \/ (ua = va /\ InDuppage(g, f, va)')
    <3>1. ~(g = c /\ va = v) /\ pte'[g][va] = pte[g][va] /\ Alive(g)
      BY <1>0, <1>1b, <2>3 DEF Alive
    <3>2. CASE f = c /\ ua = v
      BY <1>c, <1>v, <1>s, <1>0, <1>1b, <2>1, <2>3, <3>1, <3>2 DEF InDuppage, IInv, TypeOK
    <3>3. CASE ~(f = c /\ ua = v)
      BY <1>s, <1>0, <1>1b, <2>3, <3>1, <3>3 DEF IInv, WritableExclusive, InDuppage, TypeOK
    <3>4. QED
      BY <3>2, <3>3
  <2>4. ASSUME NEW g \in Envs, NEW f \in Envs, NEW ua \in VAs,
               pftemp'[g] # NULL, pte'[f][ua].page = pftemp'[g]
        PROVE  f = g /\ ua = fault'[g] /\ hpc'[g] = "unmap"
    <3>1. ~(f = c /\ ua = v)
      BY <1>0, <1>1b, <2>2, <2>4
    <3>2. QED
      BY <1>0, <1>1b, <2>4, <3>1 DEF IInv, WritableExclusive
  <2>5. QED
    BY <2>3, <2>4 DEF WritableExclusive
<1>4. StatusInv'
  <2>1. \A f \in Envs : f # e => pc'[f] = pc[f]
    BY <1>0 DEF IInv, TypeOK
  <2>2. ASSUME NEW f \in Envs, f # c
        PROVE  \A a \in VAs : pte'[f][a] = pte[f][a]
    BY <1>1b, <2>2
  <2>3. \A a \in VAs : \/ pte'[c][a] = pte[c][a]
                      \/ IF a = Text THEN pte'[c][a].perm = "r" ELSE pte'[c][a].perm = "cow"
    BY <1>0, <1>1b
  <2>4. Text # Data /\ Text # Stack
    BY DEF Text, Data, Stack
  <2>5. QED
    BY <1>s, <1>0, <2>1, <2>2, <2>3, <2>4 DEF IInv, StatusInv, SlotOf
<1>5. ChildInv'
  <2>1. \A f \in Envs : f # e => /\ pc'[f] = pc[f]
                               /\ \A a \in VAs : Done(f, a)' <=> Done(f, a)
    BY <1>0 DEF IInv, TypeOK, Done
  <2>2. \A a \in VAs : Done(e, a)' => pte'[c][a] # NoMap /\ word'[pte'[c][a].page] = want'[c][a]
    <3>1. ASSUME NEW a \in VAs, a # v, Done(e, a)'
          PROVE  pte'[c][a] # NoMap /\ word'[pte'[c][a].page] = want'[c][a]
      <4>1. Done(e, a) /\ pc[e] \in Making /\ envid[e] = c
        BY <1>c, <1>0, <3>1 DEF Making
      <4>2. pte[c][a] # NoMap /\ word[pte[c][a].page] = want[c][a]
        BY <4>1 DEF IInv, ChildInv, ChildOf
      <4>3. QED
        BY <1>0, <1>1b, <3>1, <4>2
    <3>2. pte'[c][v] # NoMap /\ word'[pte'[c][v].page] = want'[c][v]
      BY <1>s, <1>0, <1>1b DEF IInv, Isolation
    <3>3. QED
      BY <3>1, <3>2
  <2>4. ASSUME NEW f \in Envs
        PROVE  ChildOf(f)'
    <3>1. CASE f = e
      <4>1. envid'[e] = c /\ c # NULL
        BY <1>c, <1>0, ForkAssumption
      <4>2. QED
        BY <1>s, <1>0, <2>2, <3>1, <4>1 DEF ChildOf, Making, Made
    <3>2. CASE f # e
      <4>1. /\ envid'[f] = envid[f] /\ addr'[f] = addr[f] /\ addr[f] \in VAs
            /\ envid[f] # NULL => envid[f] \in Envs /\ envid[f] # c
        BY <1>s, <1>0, <3>2 DEF IInv, TypeOK
      <4>2. \A a \in VAs : envid[f] # NULL => pte'[envid[f]][a] = pte[envid[f]][a]
        BY <1>1b, <4>1
      <4>3. pc[f] = "dup2" => pte'[f][Data] = pte[f][Data]
        BY <1>s, <1>1b
      <4>4. \A a \in VAs : envid[f] # NULL => want'[envid[f]][a] = want[envid[f]][a]
        BY <1>0, <4>1
      <4>5. ChildOf(f)
        BY DEF IInv, ChildInv
      <4>6. QED
        BY <1>s, <1>0, <2>1, <3>2, <4>1, <4>2, <4>3, <4>4, <4>5 DEF ChildOf, Making
    <3>3. QED
      BY <3>1, <3>2
  <2>5. QED
    BY <1>0, <2>4 DEF IInv, ChildInv
<1>6. FaultInv'
  <2>1. \A f \in Envs : f = c \/ \A a \in VAs : pte'[f][a] = pte[f][a]
    BY <1>1b
  <2>2. \A f \in Envs, a \in VAs : f # c => want'[f][a] = want[f][a]
    BY <1>0
  <2>3. fault[c] = NULL /\ hpc[c] = "alloc"
    BY <1>s DEF IInv, StatusInv, SlotOf, FaultInv
  <2>4. \A f \in Envs : pc[f] \in {"child", "sph_store"} => pc'[f] \in {"child", "sph_store"}
    BY <1>0 DEF IInv, TypeOK
  <2>5. \A f \in Envs : fault[f] \in VAs \cup {NULL} /\ (hpc[f] = "map" => fault[f] \in VAs)
    BY DEF IInv, TypeOK, FaultInv
  <2>6. QED
    BY <1>0, <2>1, <2>2, <2>3, <2>4, <2>5 DEF IInv, FaultInv
<1>7. HandlerInv'
  <2>1. \A f \in Envs : f = c \/ \A a \in VAs : pte'[f][a] = pte[f][a]
    BY <1>1b
  <2>2. /\ \A f \in Envs \ {e} : pc'[f] = pc[f]
        /\ pc[e] \in Making /\ pc'[e] \in {"dup", "dup2", "xstack"} /\ "xstack" \in Making
    BY <1>0 DEF IInv, TypeOK, Making
  <2>3. QED
    BY <1>s, <1>0, <2>1, <2>2 DEF IInv, HandlerInv
<1>8. SelfInv'
  BY <1>s, <1>0 DEF IInv, TypeOK, SelfInv
<1>9. QED
  BY <1>1, <1>2, <1>3, <1>4, <1>5, <1>6, <1>7, <1>8 DEF IInv

(* The second half of duppage() keeps the invariant: the parent's page is marked. *)
LEMMA DupOwnStep ==
  ASSUME IInv, NEW e \in Envs, At(e, "dup2"), MarkOwn(e), Inherit(e), NextPage(e), UNCHANGED
         <<env_status, pftemp, setupVars, envid, faultVars, word, nfork, panicstr>>
  PROVE  IInv'
<1>c. PICK c \in Envs : c = envid[e]
  BY DEF IInv, TypeOK, ChildInv, ChildOf, Making, At
<1>v. PICK v \in VAs : v = addr[e]
  BY DEF IInv, TypeOK
<1>s. /\ env_status[e] = "RUNNABLE" /\ fault[e] = NULL /\ c # e /\ env_status[c] = "NOT_RUNNABLE"
      /\ envid[c] = NULL /\ pc[c] = "child" /\ Text \in VAs /\ Data \in VAs /\ Stack \in VAs
      /\ \A f \in Envs \ {e} : envid[f] # c
      /\ \A f \in Envs : envid[f] # e
  BY <1>c, ForkAssumption DEF At, Runs, IInv, ChildInv, ChildOf, StatusInv, SlotOf, Making,
     VAs, Text, Data, Stack
<1>m. pte[e][v].page \in Pages
  BY <1>s, Mapped DEF IInv
<1>w. /\ pte[c][v].page \in Pages
      /\ word[pte[c][v].page] \in Words /\ want[e][v] \in Words
      /\ v # Stack => pte[c][v].page = pte[e][v].page
      /\ v # Text /\ pc[e] = "dup2"
  <2>1. v # Text /\ pc[e] = "dup2" /\ pte[c][v] # NoMap /\ (v = Data => pte[c][v].page = pte[e][v].page)
    BY <1>c, <1>v DEF IInv, ChildInv, ChildOf, At
  <2>2. v # Stack => v = Data
    BY <2>1 DEF VAs, Text, Data, Stack
  <2>3. QED
    BY <2>1, <2>2, PteFacts DEF IInv, TypeOK
<1>1a. /\ pte' \in [Envs -> [VAs -> Ptes]]
       /\ pte'[e][v].perm = "cow"
       /\ \A f \in Envs, a \in VAs : ~(f = e /\ a = v) => pte'[f][a] = pte[f][a]
       /\ \A f \in Envs, a \in VAs : pte'[f][a].page = pte[f][a].page
  <2>1. pte \in [Envs -> [VAs -> Ptes]]
    BY DEF IInv, TypeOK
  <2>2. pte[e][v] \in [page : Pages, perm : {"r", "w", "cow"}]
    BY <1>m, <2>1, ForkAssumption DEF Ptes, NoMap
  <2>3. PICK x \in Ptes : x = [page |-> pte[e][v].page, perm |-> "cow"]
    BY <1>m DEF Ptes
  <2>3a. x = [pte[e][v] EXCEPT !.perm = "cow"] /\ x.perm = "cow" /\ x.page = pte[e][v].page
    BY <2>2, <2>3
  <2>4. pte' = [pte EXCEPT ![e][v] = x]
    BY <1>v, <2>1, <2>3a DEF MarkOwn
  <2>5. /\ pte' \in [Envs -> [VAs -> Ptes]]
        /\ \A f \in Envs, a \in VAs : pte'[f][a] = IF f = e /\ a = v THEN x ELSE pte[f][a]
    BY ONLY <2>1, <2>3, <2>4, OneEntry
  <2>6. QED
    BY <2>3a, <2>5
<1>0. /\ want' \in [Envs -> [VAs -> Words]]
      /\ \A f \in Envs, a \in VAs : ~(f = c /\ a = v) => want'[f][a] = want[f][a]
      /\ want'[c][v] = IF v = Stack THEN word[pte[c][v].page] ELSE want[e][v]
      /\ pc'[e] \in {"dup", "xstack"} /\ pc' = [pc EXCEPT ![e] = pc'[e]]
      /\ addr' \in [Envs -> VAs] /\ \A f \in Envs \ {e} : addr'[f] = addr[f]
      /\ pc'[e] = "xstack" => addr'[e] = Stack
      /\ \A a \in VAs : Done(e, a)' <=> Done(e, a) \/ a = v
      /\ UNCHANGED <<env_status, pftemp, xstack, env_pgfault_upcall, pgfault_handler, envid, fault,
                     hpc, word, nfork, panicstr>>
  <2>1. PICK x \in Words : x = IF v = Stack THEN word[pte[c][v].page] ELSE want[e][v]
    BY <1>w
  <2>2. want' = [want EXCEPT ![c][v] = x]
    BY <1>c, <1>v, <1>1a, <2>1 DEF Inherit
  <2>3. want \in [Envs -> [VAs -> Words]]
    BY DEF IInv, TypeOK
  <2>4. /\ want' \in [Envs -> [VAs -> Words]]
        /\ \A f \in Envs, a \in VAs : want'[f][a] = IF f = c /\ a = v THEN x ELSE want[f][a]
    BY ONLY <2>1, <2>2, <2>3, OneWant
  <2>5. /\ pc'[e] \in {"dup", "xstack"} /\ pc' = [pc EXCEPT ![e] = pc'[e]]
        /\ addr' \in [Envs -> VAs] /\ \A f \in Envs \ {e} : addr'[f] = addr[f]
        /\ pc'[e] = "xstack" => addr'[e] = Stack
        /\ \A a \in VAs : Done(e, a)' <=> Done(e, a) \/ a = v
    BY <1>v, NextPageFacts DEF IInv, At
  <2>6. QED
    BY <2>1, <2>4, <2>5 DEF setupVars, faultVars
<1>p. /\ \A f \in Envs \ {e} : pc'[f] = pc[f]
      /\ pc[e] \in Making /\ pc'[e] \in Making /\ pc'[e] \notin {"upcall", "status", "sph_upcall"}
  BY <1>w, <1>0 DEF IInv, TypeOK, Making
<1>1. TypeOK'
  <2>1. pc' \in [Envs -> Steps]
    BY <1>0 DEF IInv, TypeOK, Steps
  <2>2. QED
    BY <1>0, <1>1a, <2>1 DEF IInv, TypeOK
<1>2. Isolation'
  <2>1. ASSUME NEW f \in Envs, NEW a \in VAs, env_status[f] = "RUNNABLE"
        PROVE  word[pte'[f][a].page] = want'[f][a]
    <3>1. f # c /\ want'[f][a] = want[f][a]
      BY <1>s, <1>0, <2>1
    <3>2. QED
      BY <1>1a, <2>1, <3>1 DEF IInv, Isolation
  <2>2. QED
    BY <1>0, <2>1 DEF Isolation
<1>3. WritableExclusive'
  <2>1. ASSUME NEW g \in Envs, NEW f \in Envs, NEW va \in VAs, NEW ua \in VAs,
               Alive(g)', pte'[g][va].perm = "w", <<f, ua>> # <<g, va>>
        PROVE  pte'[f][ua].page # pte'[g][va].page \/ (ua = va /\ InDuppage(g, f, va)')
    <3>1. ~(g = e /\ va = v) /\ pte[g][va].perm = "w" /\ Alive(g)
      BY <1>0, <1>1a, <2>1 DEF Alive
    <3>2. pte[f][ua].page # pte[g][va].page \/ (ua = va /\ InDuppage(g, f, va))
      BY <2>1, <3>1 DEF IInv, WritableExclusive
    <3>3. InDuppage(g, f, va) => g # e
      BY <1>v, <3>1 DEF InDuppage
    <3>4. QED
      BY <1>0, <1>1a, <1>p, <3>2, <3>3 DEF InDuppage
  <2>2. QED
    BY <1>0, <1>1a, <2>1 DEF IInv, WritableExclusive
<1>4. StatusInv'
  <2>1. v \in {Data, Stack}
    BY <1>w DEF VAs, Text, Data, Stack
  <2>2. \A f \in Envs : f # e => pc'[f] = pc[f] /\ \A a \in VAs : pte'[f][a] = pte[f][a]
    BY <1>1a, <1>p
  <2>3. \A a \in {Data, Stack} : pte[e][a].perm \in {"w", "cow"} => pte'[e][a].perm \in {"w", "cow"}
    BY <1>s, <1>1a
  <2>4. pte'[e][Text] = pte[e][Text]
    BY <1>s, <1>1a, <1>w
  <2>5. /\ pte'[e][Text].perm = "r" /\ \A a \in {Data, Stack} : pte'[e][a].perm \in {"w", "cow"}
        /\ env_status'[e] = "RUNNABLE"
    BY <1>s, <1>0, <2>3, <2>4 DEF IInv, StatusInv, SlotOf
  <2>6. {Data, Stack} \subseteq VAs
    BY <1>s
  <2>7. ASSUME NEW f \in Envs, f # e
        PROVE  SlotOf(f)'
    BY <1>s, <1>0, <2>2, <2>7 DEF IInv, StatusInv, SlotOf
  <2>8. SlotOf(e)'
    BY <2>5 DEF SlotOf
  <2>9. QED
    BY <2>7, <2>8 DEF StatusInv, SlotOf
<1>5. ChildInv'
  <2>1. \A f \in Envs : f # e => /\ pc'[f] = pc[f]
                               /\ \A a \in VAs : Done(f, a)' <=> Done(f, a)
    BY <1>0 DEF IInv, TypeOK, Done
  <2>2. \A a \in VAs : Done(e, a)' => pte'[c][a] # NoMap /\ word'[pte'[c][a].page] = want'[c][a]
    <3>1. ASSUME NEW a \in VAs, a # v, Done(e, a)'
          PROVE  pte'[c][a] # NoMap /\ word'[pte'[c][a].page] = want'[c][a]
      <4>1. Done(e, a) /\ pc[e] \in Making /\ envid[e] = c
        BY <1>c, <1>w, <1>0, <3>1 DEF Making
      <4>2. pte[c][a] # NoMap /\ word[pte[c][a].page] = want[c][a]
        BY <4>1 DEF IInv, ChildInv, ChildOf
      <4>3. QED
        BY <1>s, <1>0, <1>1a, <3>1, <4>2
    <3>2. pte'[c][v] # NoMap /\ word'[pte'[c][v].page] = want'[c][v]
      <4>1. word[pte[e][v].page] = want[e][v] /\ pte[c][v] # NoMap
        BY <1>s, <1>w, ForkAssumption DEF IInv, Isolation, NoMap
      <4>2. QED
        BY <1>s, <1>w, <1>0, <1>1a, <4>1
    <3>3. QED
      BY <3>1, <3>2
  <2>4. ASSUME NEW f \in Envs
        PROVE  ChildOf(f)'
    <3>1. CASE f = e
      <4>1. envid'[e] = c /\ c # NULL
        BY <1>c, <1>0, ForkAssumption
      <4>2. QED
        BY <1>s, <1>0, <2>2, <3>1, <4>1 DEF ChildOf, Making, Made
    <3>2. CASE f # e
      <4>1. /\ envid'[f] = envid[f] /\ addr'[f] = addr[f] /\ addr[f] \in VAs
            /\ envid[f] # NULL => envid[f] \in Envs /\ envid[f] # c
        BY <1>s, <1>0, <3>2 DEF IInv, TypeOK
      <4>2. \A a \in VAs : envid[f] # NULL => pte'[envid[f]][a] = pte[envid[f]][a]
        BY <1>s, <1>1a, <4>1
      <4>3. pc[f] = "dup2" => pte'[f][Data] = pte[f][Data]
        BY <1>s, <1>1a, <3>2
      <4>4. \A a \in VAs : envid[f] # NULL => want'[envid[f]][a] = want[envid[f]][a]
        BY <1>0, <4>1
      <4>5. ChildOf(f)
        BY DEF IInv, ChildInv
      <4>6. pc'[f] = pc[f] /\ env_status' = env_status /\ word' = word
            /\ \A a \in VAs : Done(f, a)' <=> Done(f, a)
        BY <1>s, <1>0, <2>1, <3>2
      <4>7. pc[f] \in Making => envid[f] # NULL
        BY <4>5 DEF ChildOf
      <4>8. Data \in VAs /\ "dup2" \in Making
        BY <1>s DEF Making
      <4>9. QED
        BY <4>1, <4>2, <4>3, <4>4, <4>5, <4>6, <4>7, <4>8 DEF ChildOf
    <3>3. QED
      BY <3>1, <3>2
  <2>5. QED
    BY <1>0, <2>4 DEF IInv, ChildInv
<1>6. FaultInv'
  <2>1. \A f \in Envs, a \in VAs : pte[f][a].perm = "cow" => pte'[f][a].perm = "cow"
    BY <1>1a
  <2>2. \A f \in Envs, a \in VAs : f # c => want'[f][a] = want[f][a]
    BY <1>0
  <2>3. fault[c] = NULL /\ hpc[c] = "alloc"
    BY <1>s DEF IInv, StatusInv, SlotOf, FaultInv
  <2>4. \A f \in Envs : pc[f] \in {"child", "sph_store"} => pc'[f] \in {"child", "sph_store"}
    BY <1>p, <1>w
  <2>5. \A f \in Envs : fault[f] \in VAs \cup {NULL} /\ (hpc[f] = "map" => fault[f] \in VAs)
    BY DEF IInv, TypeOK, FaultInv
  <2>6. QED
    BY <1>0, <2>1, <2>2, <2>3, <2>4, <2>5 DEF IInv, FaultInv
<1>7. HandlerInv'
  <2>1. \A f \in Envs : f = e \/ \A a \in VAs : pte'[f][a] = pte[f][a]
    BY <1>1a
  <2>2. pgfault_handler[e]
    BY <1>p DEF IInv, HandlerInv
  <2>3. QED
    BY <1>s, <1>0, <1>p, <2>1, <2>2 DEF IInv, HandlerInv
<1>8. SelfInv'
  BY <1>s, <1>0, <1>p, <1>w DEF IInv, SelfInv
<1>9. QED
  BY <1>1, <1>2, <1>3, <1>4, <1>5, <1>6, <1>7, <1>8 DEF IInv

(* The initial states satisfy the invariant. *)
LEMMA InitInv == Init => IInv
<1> SUFFICES ASSUME Init PROVE IInv
  OBVIOUS
<1> USE DEF Init
<1>0. Text \in VAs /\ Data \in VAs /\ Stack \in VAs /\ VAs = {Text, Data, Stack}
      /\ Text # Data /\ Text # Stack /\ Data # Stack
  BY DEF Text, Data, Stack, VAs
<1>1. /\ pte[Root][Text] = [page |-> TextPage, perm |-> "r"]
      /\ pte[Root][Data] = [page |-> DataPage, perm |-> "w"]
      /\ pte[Root][Stack] = [page |-> StackPage, perm |-> "w"]
      /\ \A e \in Envs \ {Root}, va \in VAs : pte[e][va] = NoMap
  BY <1>0, ForkAssumption
<1>2. pte \in [Envs -> [VAs -> Ptes]]
  <2> DEFINE Entry(e, va) == IF e # Root THEN NoMap
                             ELSE CASE va = Text -> [page |-> TextPage, perm |-> "r"]
                                    [] va = Data -> [page |-> DataPage, perm |-> "w"]
                                    [] va = Stack -> [page |-> StackPage, perm |-> "w"]
  <2>1. \A e \in Envs, va \in VAs : Entry(e, va) \in Ptes
    BY <1>0, ForkAssumption DEF Ptes
  <2>2. pte = [e \in Envs |-> [va \in VAs |-> Entry(e, va)]]
    OBVIOUS
  <2> HIDE DEF Entry
  <2>3. QED
    BY ONLY <2>1, <2>2
<1>3. TypeOK
  <2>1. panicstr \in BOOLEAN
    BY Zenon
  <2>2. QED
    BY <1>0, <1>2, <2>1, ForkAssumption DEF TypeOK, Steps, Words
<1>4. Isolation
  BY <1>0, <1>1, ForkAssumption DEF Isolation
<1>5. WritableExclusive
  BY <1>0, <1>1, ForkAssumption, NullAssumption DEF WritableExclusive, Alive, NoMap
<1>6. StatusInv /\ ChildInv
  BY <1>0, <1>1, ForkAssumption DEF StatusInv, SlotOf, ChildInv, ChildOf, Making, Made
<1>7. FaultInv
  BY ForkAssumption DEF FaultInv
<1>8. HandlerInv /\ SelfInv
  BY <1>0, <1>1, ForkAssumption DEF HandlerInv, SelfInv, Making
<1>9. QED
  BY <1>3, <1>4, <1>5, <1>6, <1>7, <1>8 DEF IInv

(* A fault goes to the upcall or destroys the environment. *)
LEMMA PageFaultStep ==
  ASSUME IInv, NEW e \in Envs, NEW va \in {Data, Stack}, page_fault_handler(e, va)
  PROVE  IInv'
<1>1. CASE env_pgfault_upcall[e] /\ xstack[e]
  BY <1>1, FaultStep
<1>2. CASE ~(env_pgfault_upcall[e] /\ xstack[e])
  BY <1>2, DestroyStep DEF page_fault_handler, Runs
<1>3. QED
  BY <1>1, <1>2

(* duppage() keeps the invariant. *)
LEMMA DuppageStep ==
  ASSUME IInv, NEW e \in Envs, duppage(e)
  PROVE  IInv'
<1>1. UNCHANGED <<env_status, pftemp, setupVars, envid, faultVars, word, nfork, panicstr>>
  BY DEF duppage
<1>2. CASE /\ At(e, "dup") /\ pte[e][addr[e]].perm \in {"w", "cow"} /\ MapChild(e)
           /\ pc' = [pc EXCEPT ![e] = "dup2"] /\ UNCHANGED <<addr, want>>
  BY <1>1, <1>2, DupChildStep
<1>3. CASE At(e, "dup2") /\ MarkOwn(e) /\ Inherit(e) /\ NextPage(e)
  BY <1>1, <1>3, DupOwnStep
<1>4. CASE /\ At(e, "dup") /\ pte[e][addr[e]].perm = "r"
           /\ pte' = [pte EXCEPT ![envid[e]][addr[e]] = pte[e][addr[e]]]
           /\ Inherit(e) /\ NextPage(e)
  BY <1>1, <1>4, DupReadStep
<1>5. QED
  BY <1>2, <1>3, <1>4 DEF duppage

(* Every step of Next keeps the invariant. *)
LEMMA NextInv ==
  ASSUME IInv, [Next]_forkVars
  PROVE  IInv'
<1>1. ASSUME NEW e \in Envs, Handler(e) PROVE IInv'
  BY <1>1, FaultAllocStep, FaultCopyStep, FaultMapStep, FaultUnmapStep, FaultPanicStep
  DEF Handler
<1>2. ASSUME NEW e \in Envs, fork(e) \/ ForkStep(e) \/ Exit(e) PROVE IInv'
  <2>1. Exit(e) => env_status[e] = "RUNNABLE" /\ Destroy(e)
    BY DEF Exit, At, Runs
  <2>2. QED
    BY <1>2, <2>1, ForkCallStep, SetHandlerStep, SetUpcallStep, StoreHandlerStep, ExoforkStep,
       DuppageStep, ChildStackStep, ChildUpcallStep, ChildRunnableStep, ForkPanicStep,
       BreakpointStep, DestroyStep DEF ForkStep
<1>3. CASE Next
  BY <1>1, <1>2, <1>3, WriteStep, PageFaultStep DEF Next, DataStore
<1>4. CASE UNCHANGED forkVars
  BY <1>4 DEF forkVars, progVars, faultVars, setupVars, IInv, TypeOK, Isolation,
     WritableExclusive, InDuppage, StatusInv, SlotOf, ChildInv, ChildOf, Done, FaultInv,
     HandlerInv,
     SelfInv, Alive
<1>5. QED
  BY <1>3, <1>4

(* The inductive invariant holds in every state of the specification. *)
THEOREM ForkInvariant == Spec => []IInv
BY InitInv, NextInv, PTL DEF Spec

(***************************************************************************)
(* Copy-on-write fork keeps memory private: what a program reads is what   *)
(* it wrote or inherited, a writable page has one owner, and thisenv is    *)
(* right, in any interleaving of parents, children and their faults.       *)
(***************************************************************************)
THEOREM MemoryPrivate == Spec => []ForkSafe
<1>1. IInv => ThisEnv
  <2>1. Data \in VAs
    BY DEF Data, VAs, Text, Stack
  <2>2. QED
    BY <2>1 DEF IInv, ThisEnv, Isolation, SelfInv
<1>2. IInv => ForkSafe
  BY <1>1 DEF IInv, ForkSafe
<1>3. QED
  BY <1>2, ForkInvariant, PTL

(***************************************************************************)
(* An environment that can run and has a copy-on-write page has an upcall, *)
(* an exception stack and a handler to take the fault with.                *)
(***************************************************************************)
THEOREM CowFaultsHandled == Spec => []CowHandled
<1>1. IInv => CowHandled
  BY DEF IInv, HandlerInv, CowHandled
<1>2. QED
  BY <1>1, ForkInvariant, PTL
=============================================================================
