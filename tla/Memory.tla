------------------------------- MODULE Memory -------------------------------
(***************************************************************************)
(* Physical pages and user address spaces: the page allocator and the page *)
(* tables of kern/pmap.c, their use by env_setup_vm() and env_free()       *)
(* (kern/env.c) and by the system calls that map memory (kern/syscall.c),  *)
(* and the TLBs of the CPUs.                                               *)
(*                                                                         *)
(* Which environments live and which CPU runs which is taken from what the *)
(* kernel promises, CpuAssignment; Kernel implements it.  A system call is *)
(* one action: the lock is held from the trap to the env_run() that ends   *)
(* it, whose lcr3() empties the CPU's TLB.                                 *)
(***************************************************************************)
EXTENDS CpuAssignment, Integers, Sequences, FiniteSets

CONSTANTS Pages,     \* physical pages that page_init() does not withhold, and
          Page0,     \* page 0, which it marks as in use
          NVA,       \* user virtual pages below UTOP
          NPT,       \* virtual pages one page table covers (NPTENTRIES)
          REFMOD,    \* 2^16, the range of pp_ref
          Manages    \* pairs <<e, f>>: f is e or a child of e

ASSUME MemoryAssumption ==
    /\ IsFiniteSet(Pages) /\ IsFiniteSet(Envs) /\ Page0 \in Pages /\ NULL \notin Pages
    /\ NVA \in Nat \ {0}
    /\ NPT \in Nat \ {0}
    /\ REFMOD \in Nat /\ REFMOD > 1
    /\ Manages \subseteq Envs \X Envs
    /\ NULL \notin Envs

VAs == 0..(NVA - 1)
PDX(va) == va \div NPT
PDXs == {PDX(va) : va \in VAs}
NTABLES == PDX(NVA - 1) + 1
NoMap == [page |-> NULL, w |-> FALSE]
Ptes == {NoMap} \cup [page : Pages, w : BOOLEAN]

VARIABLES
    mem,       \* the page tables and the allocator, a record (see MemType)
    tlb,       \* per CPU and virtual page: the translation it has cached
    panicked   \* the kernel has panicked, or used a page it does not have

memVars == <<live, on, mem, tlb, panicked>>

MemType ==
    [ref  : [Pages -> 0..(REFMOD - 1)],             \* pp_ref
     free : Seq(Pages),                             \* page_free_list
     pgdir : [Envs -> Pages \cup {NULL}],           \* env_pgdir
     pde  : [Envs -> [PDXs -> Pages \cup {NULL}]],  \* page tables below UTOP
     pte  : [Envs -> [VAs -> Ptes]],                \* their entries
     bad  : BOOLEAN]                                \* page_free() of a free page

TypeOK ==
    /\ live \subseteq Envs
    /\ on \in [CPUs -> Envs \cup {NULL}]
    /\ mem \in MemType
    /\ tlb \in [CPUs -> [VAs -> Ptes]]
    /\ panicked \in BOOLEAN

-----------------------------------------------------------------------------
(* The functions of kern/pmap.c, from one value of mem to the next *)

NoTlb == [va \in VAs |-> NoMap]

(* page_alloc(), when a page is free. *)
FreshPage(m) == Head(m.free)
page_alloc(m) == [m EXCEPT !.free = Tail(@)]

(* page_free(); a page that is on the list already fails the assertion on  *)
(* pp_link, or makes the list a cycle.                                      *)
page_free(m, p) ==
    [m EXCEPT !.free = <<p>> \o @,
              !.bad = @ \/ \E i \in 1..Len(m.free) : m.free[i] = p]

(* page_decref() and pp_ref++, both modulo 2^16. *)
page_decref(m, p) ==
    LET m1 == [m EXCEPT !.ref[p] = (@ - 1) % REFMOD] IN
    IF m1.ref[p] = 0 THEN page_free(m1, p) ELSE m1
page_incref(m, p) == [m EXCEPT !.ref[p] = (@ + 1) % REFMOD]

(* pgdir_walk(.., va, 1): the page table that maps va, allocated if need be. *)
HasTable(m, e, va) == m.pde[e][PDX(va)] # NULL
CanWalk(m, e, va) == HasTable(m, e, va) \/ m.free # <<>>
pgdir_walk(m, e, va) ==
    IF HasTable(m, e, va) THEN m
    ELSE [page_incref(page_alloc(m), FreshPage(m)) EXCEPT !.pde[e][PDX(va)] = FreshPage(m)]

(* page_lookup(): an entry that is not present reads as physical page 0. *)
page_lookup(m, e, va) ==
    IF ~HasTable(m, e, va) THEN NULL
    ELSE IF m.pte[e][va] = NoMap THEN Page0 ELSE m.pte[e][va].page

(* page_remove(); its tlb_invalidate() is subsumed by Leave below. *)
page_remove(m, e, va) ==
    LET p == page_lookup(m, e, va) IN
    IF p = NULL THEN m
    ELSE [page_decref(m, p) EXCEPT !.pte[e][va] = NoMap]

(* Mutant: mapping the page again where it is mapped counts it twice. *)
page_insert_SameCounted(m, e, p, va, w) ==
    LET m1 == pgdir_walk(m, e, va)
        old == m1.pte[e][va]
        m2 == IF old = NoMap \/ old.page = p THEN m1 ELSE page_remove(m1, e, va)
    IN  [page_incref(m2, p) EXCEPT !.pte[e][va] = [page |-> p, w |-> w]]

(* page_insert(), when CanWalk(m, e, va); otherwise it returns -E_NO_MEM. *)
page_insert(m, e, p, va, w) ==
    LET m1 == pgdir_walk(m, e, va)
        old == m1.pte[e][va]
        m2 == IF old = NoMap THEN m1
              ELSE IF old.page = p THEN [m1 EXCEPT !.ref[p] = (@ - 1) % REFMOD]
              ELSE page_remove(m1, e, va)
    IN  [page_incref(m2, p) EXCEPT !.pte[e][va] = [page |-> p, w |-> w]]

(* env_setup_vm() *)
env_setup_vm(m, e) ==
    [page_incref(page_alloc(m), FreshPage(m)) EXCEPT !.pgdir[e] = FreshPage(m)]

(* Mutant: the loop over the page table stops one entry early. *)
UnmapEntry_LastKept(m, e, t, va) ==
    IF PDX(va + 1) = t /\ m.pte[e][va] # NoMap THEN page_remove(m, e, va) ELSE m

(* env_free(): the entries of each page table, then the table, table by    *)
(* table; the page directory last.  The two loops are functions of how      *)
(* many rounds have been made.                                              *)
UnmapEntry(m, e, t, va) ==
    IF PDX(va) = t /\ m.pte[e][va] # NoMap THEN page_remove(m, e, va) ELSE m
UnmapTable(m, e, t) ==
    LET after[n \in 0..NVA] == IF n = 0 THEN m ELSE UnmapEntry(after[n - 1], e, t, n - 1)
    IN  after[NVA]
FreeTable(m, e, t) ==
    IF m.pde[e][t] = NULL THEN m
    ELSE page_decref([UnmapTable(m, e, t) EXCEPT !.pde[e][t] = NULL], m.pde[e][t])
FreeTables(m, e) ==
    LET after[n \in 0..NTABLES] == IF n = 0 THEN m ELSE FreeTable(after[n - 1], e, n - 1)
    IN  after[NTABLES]
env_free(m, e) == page_decref([FreeTables(m, e) EXCEPT !.pgdir[e] = NULL], m.pgdir[e])

-----------------------------------------------------------------------------
(* page_init(): page 0 has one reference that nobody drops, the other pages *)
(* are free; their order in the list is left open.                          *)
FreeOrders ==
    LET n == Cardinality(Pages) - 1 IN
    {s \in [1..n -> Pages \ {Page0}] : \A i, j \in 1..n : s[i] = s[j] => i = j}
MemInit ==
    /\ Init
    /\ \E order \in FreeOrders :
       mem = [ref   |-> [p \in Pages |-> IF p = Page0 THEN 1 ELSE 0],
              free  |-> order,
              pgdir |-> [e \in Envs |-> NULL],
              pde   |-> [e \in Envs |-> [t \in PDXs |-> NULL]],
              pte   |-> [e \in Envs |-> [va \in VAs |-> NoMap]],
              bad   |-> FALSE]
    /\ tlb = [c \in CPUs |-> NoTlb]
    /\ panicked = FALSE

(* CPU c leaves the kernel with memory m: env_run() or sched_halt() loads   *)
(* a page directory, which empties its TLB.                                 *)
Leave(c, m) ==
    /\ mem' = m
    /\ tlb' = [tlb EXCEPT ![c] = NoTlb]
    /\ panicked' = m.bad

(* A new environment gets its page directory (env_alloc()). *)
MemCreate(c, e) ==
    /\ ~panicked
    /\ Create(e)
    /\ mem.free # <<>>
    /\ Leave(c, env_setup_vm(mem, e))

(* Mutant: the switch does not reload cr3. *)
MemSwitch_NoLcr3(c, e) ==
    /\ ~panicked
    /\ Switch(c, e)
    /\ UNCHANGED <<mem, tlb, panicked>>

(* A context switch, env_run() or sched_halt(). *)
MemSwitch(c, e) ==
    /\ ~panicked
    /\ Switch(c, e)
    /\ Leave(c, mem)

(* env_destroy() of an environment no CPU runs, and of the caller's own. *)
MemKill(c, e) ==
    /\ ~panicked
    /\ on[c] # NULL /\ <<on[c], e>> \in Manages
    /\ Kill(e)
    /\ Leave(c, env_free(mem, e))
MemExit(c, e) ==
    /\ ~panicked
    /\ Exit(c, e)
    /\ Leave(c, env_free(mem, on[c]))

(* The hardware caches a translation of the running environment. *)
TlbFill(c, va) ==
    /\ ~panicked
    /\ on[c] # NULL
    /\ mem.pte[on[c]][va] # NoMap
    /\ tlb' = [tlb EXCEPT ![c][va] = mem.pte[on[c]][va]]
    /\ UNCHANGED <<live, on, mem, panicked>>

(* A system call of CPU c's environment on the address space of e. *)
Syscall(c, e) ==
    /\ ~panicked
    /\ on[c] # NULL
    /\ e \in live
    /\ <<on[c], e>> \in Manages
    /\ UNCHANGED <<live, on>>

(* Mutant: the page is lost when no page table can be had. *)
sys_page_alloc_Leak(c, e, va, w) ==
    /\ Syscall(c, e)
    /\ mem.free # <<>>
    /\ LET p == FreshPage(mem)
           m == page_alloc(mem)
       IN  Leave(c, IF CanWalk(m, e, va) THEN page_insert(m, e, p, va, w) ELSE m)

(* sys_page_alloc(); the page goes back if no page table can be had. *)
sys_page_alloc(c, e, va, w) ==
    /\ Syscall(c, e)
    /\ mem.free # <<>>
    /\ LET p == FreshPage(mem)
           m == page_alloc(mem)
       IN  Leave(c, IF CanWalk(m, e, va) THEN page_insert(m, e, p, va, w)
                    ELSE page_free(m, p))

(* sys_page_map().  The test of PTE_W against 1 never refuses. *)
sys_page_map(c, src, srcva, dst, dstva, w) ==
    /\ Syscall(c, src)
    /\ Syscall(c, dst)
    /\ LET p == page_lookup(mem, src, srcva) IN
       /\ p # NULL
       /\ CanWalk(mem, dst, dstva)
       /\ Leave(c, page_insert(mem, dst, p, dstva, w))

sys_page_unmap(c, e, va) ==
    /\ Syscall(c, e)
    /\ Leave(c, page_remove(mem, e, va))

(* The page transfer of sys_ipc_try_send() to any environment e that is     *)
(* blocked in sys_ipc_recv(), so on no CPU, with dstva as its address.      *)
ipc_page(c, e, srcva, dstva, w) ==
    /\ Syscall(c, on[c])
    /\ e \in live
    /\ \A d \in CPUs : on[d] # e
    /\ LET p == page_lookup(mem, on[c], srcva) IN
       /\ p # NULL
       /\ w => mem.pte[on[c]][srcva].w
       /\ CanWalk(mem, e, dstva)
       /\ Leave(c, page_insert(mem, e, p, dstva, w))

-----------------------------------------------------------------------------
KernelMove ==
    \E c \in CPUs :
        \/ \E e \in Envs : MemCreate(c, e) \/ MemKill(c, e)
        \/ \E e \in Envs \cup {NULL} : MemSwitch(c, e) \/ MemExit(c, e)
        \/ \E va \in VAs : TlbFill(c, va)

(* Any program may unmap any address. *)
AnyUnmap == \E c \in CPUs, e \in Envs, va \in VAs : sys_page_unmap(c, e, va)

(***************************************************************************)
(* Programs that map memory the way lib/fork.c, lib/pgfault.c and user/    *)
(* do: only pages that are mapped are mapped again, sent or unmapped, and  *)
(* a child's address space is changed only while no CPU runs the child.    *)
(***************************************************************************)
Quiet(c, e) == e = on[c] \/ \A d \in CPUs : on[d] # e
Mapped(e, va) == mem.pte[e][va] # NoMap

LibAlloc ==
    \E c \in CPUs, e \in Envs, va \in VAs, w \in BOOLEAN :
        Quiet(c, e) /\ sys_page_alloc(c, e, va, w)
LibMap ==
    \E c \in CPUs, src, dst \in Envs, srcva, dstva \in VAs, w \in BOOLEAN :
        /\ Quiet(c, dst)
        /\ Mapped(src, srcva)
        /\ sys_page_map(c, src, srcva, dst, dstva, w)
LibUnmap ==
    \E c \in CPUs, e \in Envs, va \in VAs :
        Quiet(c, e) /\ Mapped(e, va) /\ sys_page_unmap(c, e, va)
LibIpc ==
    \E c \in CPUs, e \in Envs, srcva, dstva \in VAs, w \in BOOLEAN :
        /\ on[c] # NULL
        /\ Mapped(on[c], srcva)
        /\ ipc_page(c, e, srcva, dstva, w)

LibMemNext == KernelMove \/ LibAlloc \/ LibMap \/ LibUnmap \/ LibIpc

LibMemSpec == MemInit /\ [][LibMemNext]_memVars

-----------------------------------------------------------------------------
(* Properties *)

(* The places in m that refer to page p. *)
DirRefs(m, p) == {e \in Envs : m.pgdir[e] = p}
TableRefs(m, p) == {x \in Envs \X PDXs : m.pde[x[1]][x[2]] = p}
EntryRefs(m, p) == {x \in Envs \X VAs : m.pte[x[1]][x[2]].page = p}
RefsIn(m, p) ==
    Cardinality(DirRefs(m, p)) + Cardinality(TableRefs(m, p))
    + Cardinality(EntryRefs(m, p)) + (IF p = Page0 THEN 1 ELSE 0)
Refs(p) == RefsIn(mem, p)

(***************************************************************************)
(* "pp_ref is the count of pointers (usually in page table entries) to     *)
(* this page": exact for every page, after any sequence of allocations,    *)
(* remappings, transfers, failures and deaths, in a state that keeps its   *)
(* type.                                                                   *)
(***************************************************************************)
RefCountExact == TypeOK /\ \A p \in Pages : mem.ref[p] = Refs(p)

(***************************************************************************)
(* The free list holds exactly the pages nothing refers to, each once: no  *)
(* page in use can be handed out again, and none is leaked, not even when  *)
(* page_insert() fails half way.                                           *)
(***************************************************************************)
FreeIffUnreferenced ==
    /\ \A p \in Pages : Refs(p) = 0 <=> \E i \in 1..Len(mem.free) : mem.free[i] = p
    /\ \A i, j \in 1..Len(mem.free) : mem.free[i] = mem.free[j] => i = j

(***************************************************************************)
(* What a TLB has cached is what the page tables of the running            *)
(* environment say, page and write permission: a page taken away is out of *)
(* reach at once, on every CPU.                                            *)
(***************************************************************************)
TlbCoherent ==
    \A c \in CPUs, va \in VAs :
        tlb[c][va] # NoMap => on[c] # NULL /\ mem.pte[on[c]][va] = tlb[c][va]

(***************************************************************************)
(* An environment that has died holds no page directory, page table or     *)
(* page (env_free() "frees env e and all memory it uses").                 *)
(***************************************************************************)
DeadHoldNothing ==
    \A e \in Envs \ live :
        /\ mem.pgdir[e] = NULL
        /\ \A t \in PDXs : mem.pde[e][t] = NULL
        /\ \A va \in VAs : mem.pte[e][va] = NoMap

(***************************************************************************)
(* Physical page 0 stays in use: nothing allocates it (page_init(): "Mark  *)
(* physical page 0 as in use").                                            *)
(***************************************************************************)
PageZeroReserved == \A i \in 1..Len(mem.free) : mem.free[i] # Page0
=============================================================================
