-------------------------------- MODULE Boot --------------------------------
(***************************************************************************)
(* Memory at boot: mem_init() of kern/pmap.c with the functions it calls,  *)
(* from the page tables of kern/entrypgdir.c to the kernel's own, the      *)
(* kernel's checks of itself on the way, and the loading of the first      *)
(* program by env_create() (kern/env.c).                                   *)
(*                                                                         *)
(* A sequence of steps on one CPU; what varies is the machine, the kernel  *)
(* and the program.  Addresses are bytes of a small address space, divided *)
(* into page directory entries and pages as in inc/mmu.h and laid out as   *)
(* in inc/memlayout.h.                                                     *)
(***************************************************************************)
EXTENDS Integers, Sequences, FiniteSets, SequencesExt

CONSTANTS PGSIZE, NPTENTRIES, NPDENTRIES,
          KERNTABLES,      \* page tables from KERNBASE to the end
          IOPHYSMEM, EXTPHYSMEM, MPENTRY_PADDR,
          NCPU, KSTKSIZE, KSTKGAP,
          PAGEINFO, ENVS,  \* bytes: a struct PageInfo, the array envs
          Machines,        \* pairs: pages of base and of extended memory
          KernelEnds,      \* physical addresses of the end of the kernel
          Programs         \* sequences of segments [va, memsz]

PTSIZE == NPTENTRIES * PGSIZE
KERNBASE == (NPDENTRIES - KERNTABLES) * PTSIZE
KSTACKTOP == KERNBASE
MMIOLIM == KSTACKTOP - PTSIZE
MMIOBASE == MMIOLIM - PTSIZE
ULIM == MMIOBASE
UVPT == ULIM - PTSIZE
UPAGES == UVPT - PTSIZE
UENVS == UPAGES - PTSIZE
UTOP == UENVS
USTACKTOP == UTOP - 2 * PGSIZE

ASSUME BootAssumption ==
    /\ {PGSIZE, NPTENTRIES, NPDENTRIES, KERNTABLES, NCPU, PAGEINFO, ENVS,
        IOPHYSMEM, EXTPHYSMEM, MPENTRY_PADDR, KSTKSIZE, KSTKGAP} \subseteq Nat
    /\ PGSIZE > 0 /\ NPTENTRIES > 1 /\ KERNTABLES > 0 /\ NCPU > 0
    /\ Machines \subseteq Nat \X Nat /\ KernelEnds \subseteq Nat
    /\ \A c \in {IOPHYSMEM, EXTPHYSMEM, MPENTRY_PADDR, KSTKSIZE, KSTKGAP} : c % PGSIZE = 0
    /\ UTOP > 2 * PTSIZE
    /\ NCPU * (KSTKSIZE + KSTKGAP) <= PTSIZE

ROUNDUP(n) == ((n + PGSIZE - 1) \div PGSIZE) * PGSIZE
ROUNDDOWN(n) == n - (n % PGSIZE)
PGNUM(a) == a \div PGSIZE
PDX(va) == va \div PTSIZE

(* The first pages of the kernel hold its code, then come the stacks. *)
bootstack == EXTPHYSMEM + PGSIZE
percpu_kstacks(i) == bootstack + KSTKSIZE + i * KSTKSIZE

(* The pages that entry_pgdir maps, at KERNBASE: those of one page table.   *)
entry_pgtable == 0..NPTENTRIES - 1

Dirs == {"kern", "env"}
NONE == -1
NoPte == [pa |-> NONE, perm |-> {}]
EmptyDir == [table |-> [n \in 0..NPDENTRIES - 1 |-> NONE],
             pte |-> [n \in 0..NPDENTRIES * NPTENTRIES - 1 |-> NoPte]]

VARIABLES
    pc,         \* the step mem_init() or env_create() is at
    npages, npages_basemem,
    end, prog,  \* the kernel and the program of this boot
    nextfree,   \* the physical address boot_alloc() is at
    pgdir, pages, envs,   \* physical addresses boot_alloc() returned
    cr3,        \* "entry" or "kern"
    fl,         \* in a check: the free list it found, which it takes pages from
    mm,         \* in check_page(): the addresses mmio_map_region() returned
    mem         \* the rest of the state of kern/pmap.c, see MemRecord

vars == <<pc, npages, npages_basemem, end, prog, nextfree, pgdir, pages, envs, cr3, fl, mm, mem>>
locals == <<fl, mm>>
machine == <<npages, npages_basemem, end, prog>>
arrays == <<nextfree, pgdir, pages, envs>>

(***************************************************************************)
(* free: page_free_list; ref: the counts; dir: page directories, with the  *)
(* page table each entry has and the entries of those tables; base: where  *)
(* mmio_map_region() is; touched: the pages the kernel has written to      *)
(* through their address at KERNBASE; ok: no assertion has failed and no   *)
(* NULL was dereferenced.                                                  *)
(***************************************************************************)
MemRecord == [free |-> <<>>, ref |-> [p \in 0..npages - 1 |-> 0],
              dir |-> [d \in Dirs |-> EmptyDir], base |-> MMIOBASE,
              touched |-> {}, ok |-> TRUE]

Require(s, cond) == [s EXCEPT !.ok = @ /\ cond]

-----------------------------------------------------------------------------
(* The allocator and the page tables *)

page_free(s, p) ==
    [Require(s, s.ref[p] = 0 /\ p \notin {s.free[n] : n \in 1..Len(s.free) - 1})
        EXCEPT !.free = <<p>> \o @]

page_decref(s, p) ==
    LET t == [s EXCEPT !.ref[p] = @ - 1] IN IF t.ref[p] = 0 THEN page_free(t, p) ELSE t

(* The tables that pgdir_walk() finds or can make. *)
HasTable(s, d, va) == s.dir[d].table[PDX(va)] # NONE
CanWalk(s, d, va) == HasTable(s, d, va) \/ s.free # <<>>

Cleared(pte, pd) == [n \in DOMAIN pte |-> IF n \div NPTENTRIES = pd THEN NoPte ELSE pte[n]]
SetTable(dir, d, pd, p) ==
    [dir EXCEPT ![d] = [table |-> [@.table EXCEPT ![pd] = p], pte |-> Cleared(@.pte, pd)]]

pgdir_walk(s, d, va) ==
    IF HasTable(s, d, va) THEN s
    ELSE LET p == Head(s.free) IN
         [s EXCEPT !.free = Tail(@), !.ref[p] = @ + 1, !.touched = @ \cup {p},
                   !.dir = SetTable(@, d, PDX(va), p)]

SetPte(s, d, va, pa, perm) == [s EXCEPT !.dir[d].pte[PGNUM(va)] = [pa |-> pa, perm |-> perm]]

boot_map_region(s, va, size, pa, perm) ==
    LET Map1(t, n) ==
            IF ~CanWalk(t, "kern", va + n * PGSIZE) THEN Require(t, FALSE)
            ELSE SetPte(pgdir_walk(t, "kern", va + n * PGSIZE), "kern",
                        va + n * PGSIZE, pa + n * PGSIZE, perm)
        after[n \in 0..PGNUM(ROUNDUP(size))] == IF n = 0 THEN s ELSE Map1(after[n - 1], n - 1)
    IN  after[PGNUM(ROUNDUP(size))]

page_remove(s, d, va) ==
    SetPte(page_decref(s, PGNUM(s.dir[d].pte[PGNUM(va)].pa)), d, va, NONE, {})

(* page_insert(), where there is a table or a page for one. *)
page_insert(s, d, p, va, perm) ==
    LET t == pgdir_walk(s, d, va)
        old == t.dir[d].pte[PGNUM(va)]
        u == IF old = NoPte THEN t
             ELSE IF PGNUM(old.pa) = p THEN [t EXCEPT !.ref[p] = @ - 1]
             ELSE page_remove(t, d, va)
    IN  [SetPte(u, d, va, p * PGSIZE, perm) EXCEPT !.ref[p] = @ + 1]

-----------------------------------------------------------------------------
(* The checks *)

check_va2pa(s, va) ==
    IF HasTable(s, "kern", va) THEN s.dir["kern"].pte[PGNUM(va)].pa ELSE NONE

IsLow(p) == p \in entry_pgtable

(* Mutant: the list is left as page_init() made it. *)
LowFirst_Unsorted(list) == list

(* The pages of the first page table come first, in their order. *)
Kept(list, low) ==
    LET kept[n \in 0..Len(list)] ==
            IF n = 0 THEN <<>>
            ELSE IF IsLow(list[n]) = low THEN Append(kept[n - 1], list[n]) ELSE kept[n - 1]
    IN  kept[Len(list)]
LowFirst(list) == Kept(list, TRUE) \o Kept(list, FALSE)

check_page_free_list(s, only_low) ==
    LET list == IF only_low THEN LowFirst(s.free) ELSE s.free
        all == {list[n] : n \in DOMAIN list}
    IN  Require([s EXCEPT !.free = list,
                         !.touched = @ \cup (IF only_low THEN all \cap entry_pgtable ELSE all)],
               /\ all \subseteq 0..npages - 1
               /\ \A p \in all :
                     /\ p * PGSIZE \notin {0, IOPHYSMEM, EXTPHYSMEM - PGSIZE, EXTPHYSMEM,
                                           MPENTRY_PADDR}
                     /\ p * PGSIZE < EXTPHYSMEM \/ p * PGSIZE >= nextfree
               /\ \E p \in all : p * PGSIZE < EXTPHYSMEM
               /\ \E p \in all : p * PGSIZE >= EXTPHYSMEM)

(* Three pages are taken, freed and taken again while the rest of the list  *)
(* is put aside; they come back in the other order each time.               *)
FreeThree(s, list) == page_free(page_free(page_free(s, list[1]), list[2]), list[3])

check_page_alloc(s) ==
    LET pp == SubSeq(s.free, 1, 3)
        rest == SubSeq(s.free, 4, Len(s.free))
        alone == FreeThree([s EXCEPT !.free = <<>>], pp)
        qq == alone.free
        back == [Require(s, alone.ok /\ qq = Reverse(pp) /\ Len(s.free) >= 3 /\ IsInjective(pp))
                    EXCEPT !.free = rest, !.touched = @ \cup {qq[1]}]
    IN  FreeThree(back, qq)

(* Forcibly take the page table in entry pd back from the directory. *)
TakeBack(s, pd) ==
    LET p == s.dir["kern"].table[pd] IN
    [Require(s, s.ref[p] = 1) EXCEPT !.dir = SetTable(@, "kern", pd, NONE), !.ref[p] = 0]

mmio_map_region(s, pa, size) ==
    [Require(boot_map_region(s, s.base, size, pa, {"W"}), s.base + ROUNDUP(size) <= MMIOLIM)
        EXCEPT !.base = @ + ROUNDUP(size)]

(* What check_kern_pgdir() asserts of the tables mem_init() has made. *)
check_kern_pgdir(s) ==
    LET MapsTo(va, pa, size) ==
            \A n \in 0..PGNUM(ROUNDUP(size)) - 1 :
                check_va2pa(s, va + n * PGSIZE) = pa + n * PGSIZE
    IN  /\ MapsTo(UPAGES, pages, npages * PAGEINFO)
        /\ MapsTo(UENVS, envs, ENVS)
        /\ MapsTo(KERNBASE, 0, npages * PGSIZE)
        /\ \A n \in 0..NCPU - 1 :
              LET low == KSTACKTOP - (KSTKSIZE + KSTKGAP) * (n + 1) IN
              /\ MapsTo(low + KSTKGAP, percpu_kstacks(n), KSTKSIZE)
              /\ \A k \in 0..PGNUM(KSTKGAP) - 1 : check_va2pa(s, low + k * PGSIZE) = NONE
        /\ \A pd \in 0..NPDENTRIES - 1 :
              s.dir["kern"].table[pd] # NONE <=>
                 pd \in {PDX(UVPT), PDX(KSTACKTOP - 1), PDX(UPAGES), PDX(UENVS), PDX(MMIOBASE)}
                        \cup PDX(KERNBASE)..NPDENTRIES - 1

-----------------------------------------------------------------------------
(* mem_init() *)

(* i386_detect_memory() *)
DetectedPages(m) == IF m[2] # 0 THEN EXTPHYSMEM \div PGSIZE + m[2] ELSE m[1]

Init ==
    /\ \E m \in Machines : npages = DetectedPages(m) /\ npages_basemem = m[1]
    /\ end \in KernelEnds
    /\ prog \in Programs
    /\ pc = "pgdir"
    /\ nextfree = ROUNDUP(end)
    /\ pgdir = NONE /\ pages = NONE /\ envs = NONE
    /\ cr3 = "entry"
    /\ fl = <<>> /\ mm = <<>>
    /\ mem = MemRecord

(* boot_alloc(): fails only when memory was exceeded before. *)
boot_alloc(n) == nextfree' = ROUNDUP(nextfree + n)
Exhausted == nextfree > npages * PGSIZE

At(from, to) == pc = from /\ pc' = to /\ UNCHANGED machine
Step(from, to) == At(from, to) /\ UNCHANGED locals

AllocPgdir ==
    /\ Step("pgdir", "pages")
    /\ boot_alloc(PGSIZE)
    /\ pgdir' = nextfree
    /\ mem' = [Require(mem, ~Exhausted) EXCEPT !.dir["kern"].table[PDX(UVPT)] = PGNUM(nextfree),
                                              !.touched = @ \cup {PGNUM(nextfree)}]
    /\ UNCHANGED <<pages, envs, cr3>>

(* The pages of [a, a + n). *)
Span(a, n) == PGNUM(a)..PGNUM(ROUNDUP(a + n)) - 1

AllocPages ==
    /\ Step("pages", "envs")
    /\ boot_alloc(npages * PAGEINFO)
    /\ pages' = nextfree
    /\ mem' = [Require(mem, ~Exhausted) EXCEPT !.touched = @ \cup Span(nextfree, npages * PAGEINFO)]
    /\ UNCHANGED <<pgdir, envs, cr3>>

AllocEnvs ==
    /\ Step("envs", "page_init")
    /\ boot_alloc(ENVS)
    /\ envs' = nextfree
    /\ mem' = [Require(mem, ~Exhausted) EXCEPT !.touched = @ \cup Span(nextfree, ENVS)]
    /\ UNCHANGED <<pgdir, pages, cr3>>

(* Mutant: what boot_alloc() gave out is not in use. *)
InUse_KernelOnly(i) ==
    \/ i = 0
    \/ i = MPENTRY_PADDR \div PGSIZE
    \/ /\ i >= npages_basemem
       /\ i >= IOPHYSMEM \div PGSIZE /\ i < ROUNDUP(end) \div PGSIZE

(* The tests of page_init(), in their order; boot_alloc() is at top. *)
InUseBelow(i, basemem, top) ==
    \/ i = 0
    \/ i = MPENTRY_PADDR \div PGSIZE
    \/ /\ i >= basemem
       /\ \/ i >= IOPHYSMEM \div PGSIZE /\ i < EXTPHYSMEM \div PGSIZE
          \/ i >= IOPHYSMEM \div PGSIZE /\ i < top \div PGSIZE
InUse(i) == InUseBelow(i, npages_basemem, nextfree)

(* Where boot_alloc() is after kern_pgdir, pages and envs. *)
ArraysEnd(kernel, n) == ROUNDUP(ROUNDUP(ROUNDUP(ROUNDUP(kernel) + PGSIZE) + n * PAGEINFO) + ENVS)

(***************************************************************************)
(* What the entry code's page table maps is enough to boot with: it has    *)
(* room for the kernel and its arrays and, besides, a free page for each   *)
(* page table that mem_init() makes.                                       *)
(***************************************************************************)
ASSUME MachinesAssumption ==
    \A m \in Machines, kernel \in KernelEnds :
        LET n == DetectedPages(m)
            top == ArraysEnd(kernel, n)
        IN  /\ top <= PTSIZE
            /\ Cardinality({i \in entry_pgtable : i < n /\ ~InUseBelow(i, m[1], top)}) >= KERNTABLES + 4

(* Each page that is not in use is put in front of the list. *)
FreePages ==
    LET list[n \in 0..npages] ==
            IF n = 0 THEN <<>>
            ELSE IF InUse(n - 1) THEN list[n - 1] ELSE <<n - 1>> \o list[n - 1]
    IN  list[npages]

page_init ==
    /\ Step("page_init", "free_low")
    /\ mem' = [mem EXCEPT
                  !.ref = [i \in 0..npages - 1 |->
                              IF InUse(i) /\ i # MPENTRY_PADDR \div PGSIZE THEN 1 ELSE 0],
                  !.free = FreePages]
    /\ UNCHANGED <<arrays, cr3>>

Checks(from, to, s) ==
    /\ mem.ok
    /\ Step(from, to)
    /\ mem' = s
    /\ UNCHANGED <<arrays, cr3>>

CheckFreeLow == Checks("free_low", "check_alloc", check_page_free_list(mem, TRUE))
CheckAlloc == Checks("check_alloc", "check_page", check_page_alloc(mem))

-----------------------------------------------------------------------------
(* check_page(): page_insert() and page_remove() with three pages and no    *)
(* others.  What is asserted after a step is required where the next one    *)
(* begins.                                                                  *)

pp(i) == fl[i + 1]
Maps(va, p, n) == check_va2pa(mem, va) = p * PGSIZE /\ mem.ref[p] = n
Perm(va) == mem.dir["kern"].pte[PGNUM(va)].perm
Insert(from, to, s, cond, p, va, perm) ==
    Checks(from, to, page_insert(Require(s, cond), "kern", p, va, perm))

CheckTake ==
    /\ mem.ok
    /\ At("check_page", "insert")
    /\ fl' = mem.free
    /\ mem' = [Require(mem, Len(mem.free) >= 3 /\ IsInjective(SubSeq(mem.free, 1, 3)))
                  EXCEPT !.free = <<>>]
    /\ UNCHANGED <<arrays, cr3, mm>>

(* The first page becomes the page table; the others are mapped, mapped     *)
(* again, with other permissions, and replaced.                             *)
CheckInserts ==
    \/ Insert("insert", "second", page_free(mem, pp(0)), ~CanWalk(mem, "kern", 0),
              pp(1), 0, {"W"})
    \/ Insert("second", "again", mem,
              /\ mem.dir["kern"].table[0] = pp(0) /\ mem.ref[pp(0)] = 1
              /\ Maps(0, pp(1), 1),
              pp(2), PGSIZE, {"W"})
    \/ Insert("again", "user", mem, Maps(PGSIZE, pp(2), 1) /\ mem.free = <<>>,
              pp(2), PGSIZE, {"W"})
    \/ Insert("user", "fewer", mem, Maps(PGSIZE, pp(2), 1) /\ mem.free = <<>>,
              pp(2), PGSIZE, {"W", "U"})
    \/ Insert("fewer", "replace", mem, Maps(PGSIZE, pp(2), 1) /\ "U" \in Perm(PGSIZE),
              pp(2), PGSIZE, {"W"})
    \/ Insert("replace", "remove", mem, Perm(PGSIZE) = {"W"} /\ ~CanWalk(mem, "kern", PTSIZE),
              pp(1), PGSIZE, {"W"})

CheckRemoves ==
    \/ LET t == Require(mem, /\ Maps(0, pp(1), 2) /\ Maps(PGSIZE, pp(1), 2)
                             /\ mem.ref[pp(2)] = 0 /\ mem.free = <<pp(2)>>)
       IN  Checks("remove", "insert0", page_remove([t EXCEPT !.free = <<>>], "kern", 0))
    \/ Insert("insert0", "remove1", mem, check_va2pa(mem, 0) = NONE /\ Maps(PGSIZE, pp(1), 1),
              pp(1), PGSIZE, {})
    \/ Checks("remove1", "take0",
              page_remove(Require(mem, mem.ref[pp(1)] # 0 /\ mem.free = <<>>), "kern", PGSIZE))

(* The page table is taken back, given to pgdir_walk() twice and taken      *)
(* back; then the list is restored and the three pages are freed.           *)
CheckTables ==
    \/ LET t == Require(mem, /\ check_va2pa(mem, 0) = NONE /\ check_va2pa(mem, PGSIZE) = NONE
                             /\ mem.ref[pp(1)] = 0 /\ mem.free = <<pp(1)>>
                             /\ mem.dir["kern"].table[0] = pp(0))
       IN  Checks("take0", "walk1", TakeBack([t EXCEPT !.free = <<>>], 0))
    \/ Checks("walk1", "walk0",
              TakeBack(pgdir_walk(page_free(mem, pp(0)), "kern", PTSIZE + PGSIZE), 1))
    \/ Checks("walk0", "give", TakeBack(pgdir_walk(page_free(mem, pp(0)), "kern", 0), 0))

CheckGive ==
    /\ mem.ok
    /\ At("give", "mmio1")
    /\ mem' = FreeThree([mem EXCEPT !.free = SubSeq(fl, 4, Len(fl)), !.touched = @ \cup {pp(0)}], fl)
    /\ fl' = <<>>
    /\ UNCHANGED <<arrays, cr3, mm>>

(* Two regions of device memory are mapped and their entries cleared. *)
MapMmio(from, to, size) ==
    /\ mem.ok
    /\ At(from, to)
    /\ mm' = Append(mm, mem.base)
    /\ mem' = mmio_map_region(mem, 0, size)
    /\ UNCHANGED <<arrays, cr3, fl>>
ClearMmio ==
    LET Clear(s, va) == SetPte(s, "kern", va, NONE, {})
        cond == /\ mm[1] >= MMIOBASE /\ mm[2] + 2 * PGSIZE <= MMIOLIM
                /\ mm[1] + 2 * PGSIZE <= mm[2]
                /\ check_va2pa(mem, mm[1]) = 0 /\ check_va2pa(mem, mm[1] + PGSIZE) = PGSIZE
                /\ check_va2pa(mem, mm[2]) = 0 /\ check_va2pa(mem, mm[2] + PGSIZE) = NONE
                /\ Perm(mm[1]) = {"W"}
    IN  Checks("mmio3", "map_pages",
               Clear(Clear(Clear(Require(mem, cond), mm[1]), mm[1] + PGSIZE), mm[2]))
CheckMmio == MapMmio("mmio1", "mmio2", PGSIZE + 1) \/ MapMmio("mmio2", "mmio3", PGSIZE) \/ ClearMmio

check_page == CheckTake \/ CheckInserts \/ CheckRemoves \/ CheckTables \/ CheckGive \/ CheckMmio

-----------------------------------------------------------------------------

(* The mappings of mem_init(), one after the other. *)
MapPages == Checks("map_pages", "map_envs",
                   boot_map_region(mem, UPAGES, npages * PAGEINFO, pages, {"U"}))
MapEnvs == Checks("map_envs", "map_stack", boot_map_region(mem, UENVS, PTSIZE, envs, {"U"}))
MapStack == Checks("map_stack", "map_kern",
                   boot_map_region(mem, KSTACKTOP - KSTKSIZE, KSTKSIZE, bootstack, {"W"}))
MapKern == Checks("map_kern", "mem_init_mp",
                  boot_map_region(mem, KERNBASE, KERNTABLES * PTSIZE - 1, 0, {"W"}))

(* Where mem_init_mp() puts the stack of CPU i. *)
kstack(i) == KSTACKTOP - KSTKSIZE - i * (KSTKSIZE + KSTKGAP)

mem_init_mp ==
    LET Map1(s, i) == boot_map_region(s, kstack(i), KSTKSIZE, percpu_kstacks(i), {"W"})
        after[n \in 0..NCPU] == IF n = 0 THEN mem ELSE Map1(after[n - 1], n - 1)
    IN  Checks("mem_init_mp", "check_kern", after[NCPU])

CheckKern == Checks("check_kern", "lcr3", Require(mem, check_kern_pgdir(mem)))

Lcr3 ==
    /\ mem.ok
    /\ Step("lcr3", "free_all")
    /\ cr3' = "kern"
    /\ UNCHANGED <<arrays, mem>>

CheckFreeAll == Checks("free_all", "installed", check_page_free_list(mem, FALSE))

(* check_page_installed_pgdir(): some of the same with the whole free list, *)
(* once kern_pgdir is in force.                                             *)
InstalledTake ==
    /\ mem.ok
    /\ At("installed", "first")
    /\ fl' = mem.free
    /\ mem' = page_free([mem EXCEPT !.free = SubSeq(@, 4, Len(@)),
                                    !.touched = @ \cup {mem.free[2], mem.free[3]}], mem.free[1])
    /\ UNCHANGED <<arrays, cr3, mm>>
InstalledGive ==
    /\ mem.ok
    /\ At("table", "setup_vm")
    /\ mem' = page_free(TakeBack(Require(mem, mem.ref[pp(2)] = 0 /\ mem.dir["kern"].table[0] = pp(0)),
                                 0), pp(0))
    /\ fl' = <<>>
    /\ UNCHANGED <<arrays, cr3, mm>>
check_page_installed_pgdir ==
    \/ InstalledTake
    \/ Insert("first", "other", mem, TRUE, pp(1), PGSIZE, {"W"})
    \/ Insert("other", "last", mem, mem.ref[pp(1)] = 1, pp(2), PGSIZE, {"W"})
    \/ Checks("last", "table",
              page_remove(Require(mem, mem.ref[pp(2)] = 1 /\ mem.ref[pp(1)] = 0), "kern", PGSIZE))
    \/ InstalledGive

-----------------------------------------------------------------------------
(* env_create() of the first program *)

(* UVPT maps the environment's own tables. *)
OwnUvpt(table, p) == [table EXCEPT ![PDX(UVPT)] = p]

env_setup_vm ==
    LET p == Head(mem.free) IN
    Checks("setup_vm", "load",
        [mem EXCEPT !.free = Tail(@), !.touched = @ \cup {p}, !.ref[p] = @ + 1,
                    !.dir["env"] = [mem.dir["kern"] EXCEPT !.table = OwnUvpt(@, p)]])

(* Mutant: as many pages as len takes up, from va on. *)
Region_Len(va, len) == [n \in 1..PGNUM(ROUNDUP(len)) |-> ROUNDDOWN(va) + (n - 1) * PGSIZE]

(* The pages that region_alloc() maps: [va, va + len) rounded at both ends. *)
Region(va, len) ==
    [n \in 1..PGNUM(ROUNDUP(va + len) - ROUNDDOWN(va)) |-> ROUNDDOWN(va) + (n - 1) * PGSIZE]

region_alloc(s, va, len) ==
    LET Taken(t) == [t EXCEPT !.free = Tail(@)]
        Map1(t, a) ==
            IF t.free = <<>> \/ ~CanWalk(Taken(t), "env", a) THEN Require(t, FALSE)
            ELSE page_insert(Taken(t), "env", Head(t.free), a, {"W", "U"})
    IN  FoldLeft(Map1, s, Region(va, len))

(* Where the segments go; what is copied there is left out.  No two share a *)
(* page (user/user.ld), which region_alloc() would replace by an empty one. *)
load_icode ==
    LET Load1(s, seg) == region_alloc(s, seg.va, seg.memsz)
    IN  Checks("load", "stack", FoldLeft(Load1, mem, prog))

LoadStack == Checks("stack", "done", region_alloc(mem, USTACKTOP - PGSIZE, PGSIZE))

Next ==
    \/ AllocPgdir \/ AllocPages \/ AllocEnvs \/ page_init
    \/ CheckFreeLow \/ CheckAlloc \/ check_page
    \/ MapPages \/ MapEnvs \/ MapStack \/ MapKern \/ mem_init_mp
    \/ CheckKern \/ Lcr3 \/ CheckFreeAll \/ check_page_installed_pgdir
    \/ env_setup_vm \/ load_icode \/ LoadStack

Spec == Init /\ [][Next]_vars

-----------------------------------------------------------------------------
(* Properties *)

TypeOK ==
    /\ npages \in Nat /\ npages_basemem \in Nat
    /\ nextfree \in Nat /\ nextfree % PGSIZE = 0
    /\ \A n \in DOMAIN mem.free : mem.free[n] \in 0..npages - 1
    /\ mem.ref \in [0..npages - 1 -> Nat]
    /\ mem.base \in MMIOBASE..MMIOLIM /\ mem.base % PGSIZE = 0
    /\ cr3 \in {"entry", "kern"}

(* No assertion of the kernel about itself fails and nothing is             *)
(* dereferenced that is not there, on any of the machines (mem_init()).     *)
SelfChecksPass == mem.ok

(* As long as the page tables of the boot loader's entry code are in force, *)
(* the kernel writes only to pages that they map: kern_pgdir, the arrays    *)
(* and every page table mem_init() takes from the free list.                *)
EarlyWritesMapped == cr3 = "entry" => mem.touched \subseteq entry_pgtable

(* From page_init() on, a page is one of: reserved, on the free list once,  *)
(* a page table, a page directory, or mapped by the program; and the checks *)
(* on the way, which put the list aside, lose none and give none away twice.*)
ListMade == pc \notin {"pgdir", "pages", "envs", "page_init"}
Reserved == {0, MPENTRY_PADDR \div PGSIZE}
              \cup ((IOPHYSMEM \div PGSIZE)..(nextfree \div PGSIZE - 1))
KernTables == {mem.dir["kern"].table[pd] : pd \in 0..NPDENTRIES - 1 \ {PDX(UVPT)}} \ {NONE}
EnvTables == {mem.dir["env"].table[pd] : pd \in (0..PDX(UTOP) - 1) \cup {PDX(UVPT)}} \ {NONE}
EnvPages == {PGNUM(mem.dir["env"].pte[n].pa) : n \in 0..PGNUM(UTOP) - 1} \ {PGNUM(NONE)}
EveryPageOnce ==
    ListMade /\ fl = <<>> /\ mem.ok =>
        LET list == {mem.free[n] : n \in DOMAIN mem.free}
            parts == <<Reserved, list, KernTables, EnvTables, EnvPages>>
        IN  /\ IsInjective(mem.free)
            /\ \A i, j \in DOMAIN parts : i # j => parts[i] \cap parts[j] = {}
            /\ UNION {parts[i] : i \in DOMAIN parts} = 0..npages - 1

(* The address space a program gets: above UTOP the kernel's tables, all of *)
(* which exist by then, so that later mappings are seen too, and at UVPT    *)
(* its own; it can read there below ULIM and write nowhere; between two     *)
(* kernel stacks nothing is mapped, and no two share a page.                *)
LayoutShared ==
    pc \in {"load", "stack", "done"} =>
        /\ \A pd \in PDX(UTOP)..NPDENTRIES - 1 :
              IF pd = PDX(UVPT)
              THEN mem.dir["env"].table[pd] \notin {NONE, pgdir \div PGSIZE}
              ELSE mem.dir["env"].table[pd] = mem.dir["kern"].table[pd]
        /\ \A n \in PGNUM(UTOP)..NPDENTRIES * NPTENTRIES - 1 :
              "U" \in mem.dir["kern"].pte[n].perm
                  => n < PGNUM(ULIM) /\ "W" \notin mem.dir["kern"].pte[n].perm

StackPage(n) == mem.dir["kern"].pte[n].pa # NONE
StacksGuarded ==
    pc = "lcr3" =>
        \A n \in PGNUM(MMIOLIM)..PGNUM(KSTACKTOP) - 1 :
            StackPage(n) =>
                /\ \E k \in 1..PGNUM(KSTKSIZE) : ~StackPage(n - k)
                /\ \A l \in PGNUM(MMIOLIM)..PGNUM(KSTACKTOP) - 1 :
                      mem.dir["kern"].pte[l].pa = mem.dir["kern"].pte[n].pa => l = n

(* Every address of every segment, and the stack, is backed by a page of    *)
(* the program's own that it can write to (load_icode(), region_alloc()).   *)
ProgramLoaded ==
    pc = "done" /\ mem.ok =>
        LET addrs == UNION {seg.va..seg.va + seg.memsz - 1 : seg \in {prog[n] : n \in DOMAIN prog}}
                        \cup (USTACKTOP - PGSIZE..USTACKTOP - 1)
            entry(a) == mem.dir["env"].pte[PGNUM(a)]
        IN  /\ \A a \in addrs : entry(a).perm = {"W", "U"} /\ mem.ref[PGNUM(entry(a).pa)] = 1
            /\ \A a, b \in {ROUNDDOWN(c) : c \in addrs} : entry(a) = entry(b) => a = b

(***************************************************************************)
(* The book-keeping of pages is right from page_init() to the first        *)
(* program: pages and counts in range, no failed check of the kernel about *)
(* itself, and every page in exactly one use (mem_init(), env_create()).   *)
(***************************************************************************)
PagesAccounted == TypeOK /\ SelfChecksPass /\ EveryPageOnce

(***************************************************************************)
(* The address spaces are as memlayout.h draws them: the kernel part       *)
(* shared and closed to programs, the stacks of the CPUs apart with guard  *)
(* pages, and every byte of the program and its stack on a page of its own *)
(* (mem_init_mp(), env_setup_vm(), load_icode()).                          *)
(***************************************************************************)
AddressSpaces == LayoutShared /\ StacksGuarded /\ ProgramLoaded
=============================================================================
