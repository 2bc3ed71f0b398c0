---------------------------- MODULE MemoryProofs ----------------------------
(***************************************************************************)
(* Proofs about physical memory (Memory), for any number of pages,         *)
(* environments and CPUs: reference counts are exact, the free list is     *)
(* what nothing refers to, the dead hold nothing, and no TLB outlives a    *)
(* mapping.                                                                *)
(*                                                                         *)
(* pp_ref has 16 bits and pp_ref++ does not look (kern/pmap.c).  What the  *)
(* counts are good for is proved of behaviours in which no page gets 2^16  *)
(* references.                                                             *)
(***************************************************************************)
EXTENDS Memory, FiniteSetTheorems, SequenceTheorems, WellFoundedInduction, TLAPS

NoOverflow == \A p \in Pages : Refs(p) < REFMOD

(***************************************************************************)
(* The allocator in a state m of memory, between the functions of pmap.c   *)
(* as well as between system calls: the pages in limbo have been taken off *)
(* the free list and are not referred to yet.                              *)
(***************************************************************************)
OnList(m, p) == \E n \in 1..Len(m.free) : m.free[n] = p
Counted(m) == \A p \in Pages : m.ref[p] = RefsIn(m, p)
ListExact(m, limbo) ==
    /\ \A p \in limbo : p \in Pages /\ m.ref[p] = 0
    /\ \A p \in Pages : OnList(m, p) <=> m.ref[p] = 0 /\ p \notin limbo
    /\ \A n, k \in 1..Len(m.free) : m.free[n] = m.free[k] => n = k
Walked(m) ==
    \A e \in Envs, va \in VAs : m.pte[e][va] # NoMap => m.pde[e][PDX(va)] # NULL

Sound(m, limbo) ==
    /\ m \in MemType /\ ~m.bad
    /\ Counted(m) /\ ListExact(m, limbo) /\ Walked(m)

(* What CpuAssignment guarantees. *)
OneCpu ==
    /\ \A c \in CPUs : on[c] \in live \cup {NULL}
    /\ \A c, d \in CPUs : on[c] = on[d] /\ on[c] # NULL => c = d

(* An environment that lives has a page directory. *)
LiveHaveDir == \A e \in live : mem.pgdir[e] # NULL

(***************************************************************************)
(* The inductive invariant.                                                *)
(***************************************************************************)
IInv ==
    /\ TypeOK /\ ~panicked /\ OneCpu
    /\ Sound(mem, {})
    /\ LiveHaveDir /\ DeadHoldNothing /\ TlbCoherent

-----------------------------------------------------------------------------
(* Induction over the rounds of a loop.  The library's theorem on induction *)
(* takes an operator; for a set it follows from the order on Nat being      *)
(* well founded.                                                            *)
Less == {x \in Nat \X Nat : x[1] < x[2]}

LEMMA LessWellFounded == IsWellFoundedOn(Less, Nat)
  <1>1. OpToRel(<, Nat) = Less
    BY DEF OpToRel, Less
  <1> QED BY <1>1, NatLessThanWellFounded

LEMMA Rounds ==
    ASSUME NEW S, NEW N \in Nat, 0 \in S,
           \A n \in 0..(N - 1) : n \in S => n + 1 \in S
    PROVE  N \in S
  <1> DEFINE T == {n \in 0..N : n \notin S}
  <1> SUFFICES ASSUME N \notin S PROVE FALSE
    OBVIOUS
  <1>1. T # {} /\ T \subseteq Nat
    OBVIOUS
  <1>2. PICK x \in T : \A y \in T : <<y, x>> \notin Less
    BY ONLY <1>1, LessWellFounded, WFMin
  <1>3. x \in Nat /\ x # 0 /\ x - 1 \in Nat /\ x - 1 \in 0..(N - 1) /\ (x - 1) + 1 = x
    BY <1>2
  <1>4. <<x - 1, x>> \in Less
    BY <1>3 DEF Less
  <1>5. x - 1 \in S
    <2> SUFFICES ASSUME x - 1 \notin S PROVE FALSE
      OBVIOUS
    <2>1. x - 1 \in T
      BY <1>3
    <2> QED BY <1>2, <1>4, <2>1
  <1> QED BY <1>2, <1>3, <1>5

-----------------------------------------------------------------------------
(* Page tables *)

LEMMA TableOfVa ==
    ASSUME NEW va \in VAs
    PROVE  va \in Nat /\ PDX(va) \in PDXs /\ PDX(va) \in 0..(NTABLES - 1)
  <1>1. va \in Nat /\ NVA - 1 \in Nat /\ va <= NVA - 1
    BY MemoryAssumption DEF VAs
  <1>2. PDX(va) \in Nat /\ PDX(NVA - 1) \in Nat /\ PDX(va) <= PDX(NVA - 1)
    BY <1>1, MemoryAssumption DEF PDX
  <1> QED BY <1>1, <1>2 DEF PDXs, NTABLES

LEMMA TablesAre == PDXs = 0..(NTABLES - 1) /\ NTABLES \in Nat
  <1>1. NVA - 1 \in Nat
    BY MemoryAssumption
  <1>2. PDX(NVA - 1) \in Nat
    BY <1>1, MemoryAssumption DEF PDX
  <1>3. ASSUME NEW t \in 0..(NTABLES - 1)
        PROVE  t \in PDXs
    <2>1. t \in Nat /\ t <= PDX(NVA - 1)
      BY <1>2 DEF NTABLES
    <2>2. t * NPT \in Nat /\ t * NPT <= NVA - 1 /\ PDX(t * NPT) = t
      BY <1>1, <2>1, MemoryAssumption DEF PDX
    <2>3. t * NPT \in VAs
      BY <2>2, MemoryAssumption DEF VAs
    <2> QED BY <2>2, <2>3 DEF PDXs
  <1>4. \A t \in PDXs : t \in 0..(NTABLES - 1)
    BY TableOfVa DEF PDXs
  <1>5. PDXs = 0..(NTABLES - 1)
    BY <1>3, <1>4
  <1>6. NTABLES \in Nat
    BY <1>2 DEF NTABLES
  <1> QED BY <1>5, <1>6

-----------------------------------------------------------------------------
(* Counting references *)

One(b) == IF b THEN 1 ELSE 0

(* Two sets that differ in x at most. *)
LEMMA CountOne ==
    ASSUME NEW S, NEW T, NEW x, IsFiniteSet(S), IsFiniteSet(T),
           \A y : y # x => (y \in S <=> y \in T)
    PROVE  /\ Cardinality(S) \in Nat /\ Cardinality(T) \in Nat
           /\ Cardinality(T) = Cardinality(S) - One(x \in S) + One(x \in T)
           /\ x \in S => Cardinality(S) > 0
  <1>1. S \ {x} = T \ {x}
    OBVIOUS
  <1>2. Cardinality(S) \in Nat /\ Cardinality(T) \in Nat
    BY FS_CardinalityType
  <1>3. Cardinality(S \ {x}) = IF x \in S THEN Cardinality(S) - 1 ELSE Cardinality(S)
    BY FS_RemoveElement
  <1>4. Cardinality(T \ {x}) = IF x \in T THEN Cardinality(T) - 1 ELSE Cardinality(T)
    BY FS_RemoveElement
  <1>5. Cardinality(S \ {x}) \in Nat
    BY FS_RemoveElement, FS_CardinalityType
  <1>6. x \in S => Cardinality(S) > 0
    BY <1>2, <1>3, <1>5
  <1> QED BY <1>1, <1>2, <1>3, <1>4, <1>6 DEF One

LEMMA PlacesFinite ==
    ASSUME NEW m, NEW p
    PROVE  /\ IsFiniteSet(DirRefs(m, p)) /\ IsFiniteSet(TableRefs(m, p))
           /\ IsFiniteSet(EntryRefs(m, p))
           /\ Cardinality(DirRefs(m, p)) \in Nat /\ Cardinality(TableRefs(m, p)) \in Nat
           /\ Cardinality(EntryRefs(m, p)) \in Nat
  <1>1. IsFiniteSet(Envs)
    BY MemoryAssumption
  <1>2. NTABLES - 1 \in Int /\ NVA - 1 \in Int
    BY TablesAre, MemoryAssumption
  <1>3. IsFiniteSet(PDXs) /\ IsFiniteSet(VAs)
    BY <1>2, TablesAre, FS_Interval DEF VAs
  <1>4. IsFiniteSet(Envs \X PDXs) /\ IsFiniteSet(Envs \X VAs)
    BY <1>1, <1>3, FS_Product
  <1>5. /\ DirRefs(m, p) \in SUBSET Envs
        /\ TableRefs(m, p) \in SUBSET (Envs \X PDXs)
        /\ EntryRefs(m, p) \in SUBSET (Envs \X VAs)
    BY DEF DirRefs, TableRefs, EntryRefs
  <1>6. /\ IsFiniteSet(DirRefs(m, p)) /\ IsFiniteSet(TableRefs(m, p))
        /\ IsFiniteSet(EntryRefs(m, p))
    BY <1>1, <1>4, <1>5, FS_Subset
  <1> QED BY <1>6, FS_CardinalityType

(* The page that environment e has at va, and its page table t. *)
PageAt(m, e, va) == m.pte[e][va].page
TableAt(m, e, t) == m.pde[e][t]

(* Memories that refer to the same pages but for one place. *)
SameButEntry(m, m2, e, va) ==
    /\ m2.pgdir = m.pgdir /\ m2.pde = m.pde
    /\ \A f \in Envs, v \in VAs : f # e \/ v # va => m2.pte[f][v] = m.pte[f][v]
SameButTable(m, m2, e, t) ==
    /\ m2.pgdir = m.pgdir /\ m2.pte = m.pte
    /\ \A f \in Envs, s \in PDXs : f # e \/ s # t => m2.pde[f][s] = m.pde[f][s]
SameButDir(m, m2, e) ==
    /\ m2.pde = m.pde /\ m2.pte = m.pte
    /\ \A f \in Envs : f # e => m2.pgdir[f] = m.pgdir[f]

(* A page table entry changes: one place less refers to the old page, and   *)
(* one more to the new.                                                     *)
LEMMA EntryChange ==
    ASSUME NEW m, NEW m2, NEW e \in Envs, NEW va \in VAs, NEW p \in Pages,
           SameButEntry(m, m2, e, va)
    PROVE  /\ RefsIn(m, p) \in Nat /\ RefsIn(m2, p) \in Nat
           /\ RefsIn(m2, p) = RefsIn(m, p) - One(PageAt(m, e, va) = p)
                                           + One(PageAt(m2, e, va) = p)
           /\ PageAt(m, e, va) = p => RefsIn(m, p) > 0
  <1> DEFINE x == <<e, va>>
  <1>1. DirRefs(m2, p) = DirRefs(m, p) /\ TableRefs(m2, p) = TableRefs(m, p)
    BY DEF DirRefs, TableRefs, SameButEntry
  <1>2. \A y : y # x => (y \in EntryRefs(m, p) <=> y \in EntryRefs(m2, p))
    BY DEF EntryRefs, SameButEntry
  <1>3. /\ x \in EntryRefs(m, p) <=> PageAt(m, e, va) = p
        /\ x \in EntryRefs(m2, p) <=> PageAt(m2, e, va) = p
    BY DEF EntryRefs, PageAt
  <1> HIDE DEF x
  <1>4. /\ Cardinality(EntryRefs(m, p)) \in Nat /\ Cardinality(EntryRefs(m2, p)) \in Nat
        /\ Cardinality(EntryRefs(m2, p)) = Cardinality(EntryRefs(m, p))
                - One(x \in EntryRefs(m, p)) + One(x \in EntryRefs(m2, p))
        /\ x \in EntryRefs(m, p) => Cardinality(EntryRefs(m, p)) > 0
    BY <1>2, PlacesFinite, CountOne
  <1>5. Cardinality(DirRefs(m, p)) \in Nat /\ Cardinality(TableRefs(m, p)) \in Nat
    BY PlacesFinite
  <1> QED BY <1>1, <1>3, <1>4, <1>5 DEF RefsIn, One

(* A page directory entry changes. *)
LEMMA TableChange ==
    ASSUME NEW m, NEW m2, NEW e \in Envs, NEW t \in PDXs, NEW p \in Pages,
           SameButTable(m, m2, e, t)
    PROVE  /\ RefsIn(m, p) \in Nat /\ RefsIn(m2, p) \in Nat
           /\ RefsIn(m2, p) = RefsIn(m, p) - One(TableAt(m, e, t) = p) + One(TableAt(m2, e, t) = p)
           /\ TableAt(m, e, t) = p => RefsIn(m, p) > 0
  <1> DEFINE x == <<e, t>>
  <1>1. DirRefs(m2, p) = DirRefs(m, p) /\ EntryRefs(m2, p) = EntryRefs(m, p)
    BY DEF DirRefs, EntryRefs, SameButTable
  <1>2. \A y : y # x => (y \in TableRefs(m, p) <=> y \in TableRefs(m2, p))
    BY DEF TableRefs, SameButTable
  <1>3. /\ x \in TableRefs(m, p) <=> TableAt(m, e, t) = p
        /\ x \in TableRefs(m2, p) <=> TableAt(m2, e, t) = p
    BY DEF TableRefs, TableAt
  <1> HIDE DEF x
  <1>4. /\ Cardinality(TableRefs(m, p)) \in Nat /\ Cardinality(TableRefs(m2, p)) \in Nat
        /\ Cardinality(TableRefs(m2, p)) = Cardinality(TableRefs(m, p))
                - One(x \in TableRefs(m, p)) + One(x \in TableRefs(m2, p))
        /\ x \in TableRefs(m, p) => Cardinality(TableRefs(m, p)) > 0
    BY <1>2, PlacesFinite, CountOne
  <1>5. Cardinality(DirRefs(m, p)) \in Nat /\ Cardinality(EntryRefs(m, p)) \in Nat
    BY PlacesFinite
  <1>6. /\ RefsIn(m, p) = Cardinality(DirRefs(m, p)) + Cardinality(TableRefs(m, p))
                          + Cardinality(EntryRefs(m, p)) + One(p = Page0)
        /\ RefsIn(m2, p) = Cardinality(DirRefs(m, p)) + Cardinality(TableRefs(m2, p))
                           + Cardinality(EntryRefs(m, p)) + One(p = Page0)
    BY <1>1 DEF RefsIn, One
  <1> QED BY ONLY <1>3, <1>4, <1>5, <1>6 DEF One

(* An environment gets, or loses, its page directory. *)
LEMMA DirChange ==
    ASSUME NEW m, NEW m2, NEW e \in Envs, NEW p \in Pages,
           SameButDir(m, m2, e)
    PROVE  /\ RefsIn(m, p) \in Nat /\ RefsIn(m2, p) \in Nat
           /\ RefsIn(m2, p) = RefsIn(m, p) - One(m.pgdir[e] = p) + One(m2.pgdir[e] = p)
           /\ m.pgdir[e] = p => RefsIn(m, p) > 0
  <1>1. TableRefs(m2, p) = TableRefs(m, p) /\ EntryRefs(m2, p) = EntryRefs(m, p)
    BY DEF TableRefs, EntryRefs, SameButDir
  <1>2. \A y : y # e => (y \in DirRefs(m, p) <=> y \in DirRefs(m2, p))
    BY DEF DirRefs, SameButDir
  <1>3. /\ e \in DirRefs(m, p) <=> m.pgdir[e] = p
        /\ e \in DirRefs(m2, p) <=> m2.pgdir[e] = p
    BY DEF DirRefs
  <1>4. /\ Cardinality(DirRefs(m, p)) \in Nat /\ Cardinality(DirRefs(m2, p)) \in Nat
        /\ Cardinality(DirRefs(m2, p)) = Cardinality(DirRefs(m, p))
                - One(e \in DirRefs(m, p)) + One(e \in DirRefs(m2, p))
        /\ e \in DirRefs(m, p) => Cardinality(DirRefs(m, p)) > 0
    BY <1>2, PlacesFinite, CountOne
  <1>5. Cardinality(TableRefs(m, p)) \in Nat /\ Cardinality(EntryRefs(m, p)) \in Nat
    BY PlacesFinite
  <1>6. /\ RefsIn(m, p) = Cardinality(DirRefs(m, p)) + Cardinality(TableRefs(m, p))
                          + Cardinality(EntryRefs(m, p)) + One(p = Page0)
        /\ RefsIn(m2, p) = Cardinality(DirRefs(m2, p)) + Cardinality(TableRefs(m, p))
                           + Cardinality(EntryRefs(m, p)) + One(p = Page0)
    BY <1>1 DEF RefsIn, One
  <1> QED BY ONLY <1>3, <1>4, <1>5, <1>6 DEF One

-----------------------------------------------------------------------------
(* What the functions of pmap.c do to the fields of memory *)

WithRef(m, p, r) == [m EXCEPT !.ref[p] = r]
WithEntry(m, e, va, x) == [m EXCEPT !.pte[e][va] = x]
WithTable(m, e, t, x) == [m EXCEPT !.pde[e][t] = x]
WithDir(m, e, x) == [m EXCEPT !.pgdir[e] = x]
Entry(p, w) == [page |-> p, w |-> w]
Less1(m, p) == WithRef(m, p, (m.ref[p] - 1) % REFMOD)

(* Nothing is mapped at va, where a page table is ready for it. *)
Vacant(m, e, va) == m.pte[e][va] = NoMap /\ m.pde[e][PDX(va)] # NULL

(* A page that may be mapped: in use, or just allocated. *)
Usable(m, limbo, p) == RefsIn(m, p) > 0 \/ p \in limbo


LEMMA MemFields ==
    ASSUME NEW m \in MemType
    PROVE  /\ m.ref \in [Pages -> 0..(REFMOD - 1)]
           /\ m.free \in Seq(Pages)
           /\ m.pgdir \in [Envs -> Pages \cup {NULL}]
           /\ m.pde \in [Envs -> [PDXs -> Pages \cup {NULL}]]
           /\ m.pte \in [Envs -> [VAs -> Ptes]]
           /\ m.bad \in BOOLEAN
  BY DEF MemType

(* Only the count of p changes. *)
LEMMA SetRef ==
    ASSUME NEW m \in MemType, NEW p \in Pages, NEW r \in 0..(REFMOD - 1), NEW m2,
           m2 = WithRef(m, p, r)
    PROVE  /\ m2 \in MemType
           /\ m2.ref[p] = r /\ \A q \in Pages : q # p => m2.ref[q] = m.ref[q]
           /\ m2.free = m.free /\ m2.bad = m.bad
           /\ m2.pgdir = m.pgdir /\ m2.pde = m.pde /\ m2.pte = m.pte
  <1>1. [m.ref EXCEPT ![p] = r] \in [Pages -> 0..(REFMOD - 1)]
    BY MemFields
  <1> QED BY <1>1 DEF MemType, WithRef

LEMMA SetEntry ==
    ASSUME NEW m \in MemType, NEW e \in Envs, NEW va \in VAs, NEW x \in Ptes, NEW m2,
           m2 = WithEntry(m, e, va, x)
    PROVE  /\ m2 \in MemType
           /\ m2.pte[e][va] = x
           /\ \A f \in Envs, v \in VAs : f # e \/ v # va => m2.pte[f][v] = m.pte[f][v]
           /\ m2.ref = m.ref /\ m2.free = m.free /\ m2.bad = m.bad
           /\ m2.pgdir = m.pgdir /\ m2.pde = m.pde
  <1>1. m.pte \in [Envs -> [VAs -> Ptes]]
    BY MemFields
  <1>2. m.pte[e] \in [VAs -> Ptes]
    BY <1>1
  <1>3. PICK row : row = [m.pte[e] EXCEPT ![va] = x]
    OBVIOUS
  <1>4. row \in [VAs -> Ptes] /\ row[va] = x /\ \A v \in VAs : v # va => row[v] = m.pte[e][v]
    BY ONLY <1>2, <1>3, va \in VAs, x \in Ptes
  <1>5. PICK all : all = [m.pte EXCEPT ![e] = row]
    OBVIOUS
  <1>6. /\ all \in [Envs -> [VAs -> Ptes]] /\ all[e] = row
        /\ \A f \in Envs : f # e => all[f] = m.pte[f]
    BY ONLY <1>1, <1>4, <1>5, e \in Envs
  <1>7. m2 = [m EXCEPT !.pte = all]
    BY <1>3, <1>5 DEF WithEntry
  <1>8. /\ m2 \in MemType /\ m2.pte = all
        /\ m2.ref = m.ref /\ m2.free = m.free /\ m2.bad = m.bad
        /\ m2.pgdir = m.pgdir /\ m2.pde = m.pde
    BY ONLY m \in MemType, <1>6, <1>7 DEF MemType
  <1> QED BY ONLY <1>4, <1>6, <1>8, e \in Envs, va \in VAs

LEMMA SetTable ==
    ASSUME NEW m \in MemType, NEW e \in Envs, NEW t \in PDXs,
           NEW x \in Pages \cup {NULL}, NEW m2,
           m2 = WithTable(m, e, t, x)
    PROVE  /\ m2 \in MemType
           /\ m2.pde[e][t] = x
           /\ \A f \in Envs, s \in PDXs : f # e \/ s # t => m2.pde[f][s] = m.pde[f][s]
           /\ m2.ref = m.ref /\ m2.free = m.free /\ m2.bad = m.bad
           /\ m2.pgdir = m.pgdir /\ m2.pte = m.pte
  <1>1. m.pde \in [Envs -> [PDXs -> Pages \cup {NULL}]]
    BY MemFields
  <1>2. m.pde[e] \in [PDXs -> Pages \cup {NULL}]
    BY <1>1
  <1>3. PICK row : row = [m.pde[e] EXCEPT ![t] = x]
    OBVIOUS
  <1>4. /\ row \in [PDXs -> Pages \cup {NULL}] /\ row[t] = x
        /\ \A s \in PDXs : s # t => row[s] = m.pde[e][s]
    BY ONLY <1>2, <1>3, t \in PDXs, x \in Pages \cup {NULL}
  <1>5. PICK all : all = [m.pde EXCEPT ![e] = row]
    OBVIOUS
  <1>6. /\ all \in [Envs -> [PDXs -> Pages \cup {NULL}]] /\ all[e] = row
        /\ \A f \in Envs : f # e => all[f] = m.pde[f]
    BY ONLY <1>1, <1>4, <1>5, e \in Envs
  <1>7. m2 = [m EXCEPT !.pde = all]
    BY <1>3, <1>5 DEF WithTable
  <1>8. /\ m2 \in MemType /\ m2.pde = all
        /\ m2.ref = m.ref /\ m2.free = m.free /\ m2.bad = m.bad
        /\ m2.pgdir = m.pgdir /\ m2.pte = m.pte
    BY ONLY m \in MemType, <1>6, <1>7 DEF MemType
  <1> QED BY ONLY <1>4, <1>6, <1>8, e \in Envs, t \in PDXs

LEMMA SetDir ==
    ASSUME NEW m \in MemType, NEW e \in Envs, NEW x \in Pages \cup {NULL}, NEW m2,
           m2 = WithDir(m, e, x)
    PROVE  /\ m2 \in MemType
           /\ m2.pgdir[e] = x /\ \A f \in Envs : f # e => m2.pgdir[f] = m.pgdir[f]
           /\ m2.ref = m.ref /\ m2.free = m.free /\ m2.bad = m.bad
           /\ m2.pde = m.pde /\ m2.pte = m.pte
  <1>1. [m.pgdir EXCEPT ![e] = x] \in [Envs -> Pages \cup {NULL}]
    BY MemFields
  <1> QED BY <1>1 DEF MemType, WithDir

(* pp_ref is a counter modulo REFMOD. *)
LEMMA Modulo ==
    ASSUME NEW r \in 0..(REFMOD - 1)
    PROVE  /\ (r - 1) % REFMOD \in 0..(REFMOD - 1) /\ (r + 1) % REFMOD \in 0..(REFMOD - 1)
           /\ r > 0 => (r - 1) % REFMOD = r - 1
           /\ r + 1 < REFMOD => (r + 1) % REFMOD = r + 1
           /\ (((r - 1) % REFMOD) + 1) % REFMOD = r
  <1>1. r \in Int /\ REFMOD \in Int /\ REFMOD > 1 /\ 0 <= r /\ r < REFMOD
    BY MemoryAssumption
  <1>2. \A x \in Int : x % REFMOD \in 0..(REFMOD - 1)
    BY ONLY <1>1
  <1>3. \A x \in Int : 0 <= x /\ x < REFMOD => x % REFMOD = x
    BY ONLY <1>1
  <1>4. r = 0 => (r - 1) % REFMOD = REFMOD - 1
    BY ONLY <1>1
  <1>5. REFMOD % REFMOD = 0
    BY ONLY <1>1
  <1>6. CASE r = 0
    BY ONLY <1>1, <1>2, <1>3, <1>4, <1>5, <1>6
  <1>7. CASE r # 0
    BY ONLY <1>1, <1>2, <1>3, <1>7
  <1> QED BY <1>6, <1>7

LEMMA IncrefFields ==
    ASSUME NEW m \in MemType, NEW p \in Pages, NEW m2, m2 = page_incref(m, p)
    PROVE  /\ m2 \in MemType
           /\ m2.ref[p] = (m.ref[p] + 1) % REFMOD
           /\ \A q \in Pages : q # p => m2.ref[q] = m.ref[q]
           /\ m2.free = m.free /\ m2.bad = m.bad
           /\ m2.pgdir = m.pgdir /\ m2.pde = m.pde /\ m2.pte = m.pte
  <1>1. m.ref[p] \in 0..(REFMOD - 1)
    BY MemFields
  <1>2. PICK r \in 0..(REFMOD - 1) : r = (m.ref[p] + 1) % REFMOD
    BY <1>1, Modulo
  <1>3. m2 = WithRef(m, p, r)
    BY <1>2 DEF page_incref, WithRef
  <1> QED BY <1>2, <1>3, SetRef

(* A page at the head of a list. *)
LEMMA Consed ==
    ASSUME NEW s \in Seq(Pages), NEW p \in Pages
    PROVE  /\ <<p>> \o s \in Seq(Pages) /\ Len(<<p>> \o s) = Len(s) + 1
           /\ (<<p>> \o s)[1] = p
           /\ \A n \in 1..Len(s) : (<<p>> \o s)[n + 1] = s[n]
  <1>1. <<p>> \in Seq(Pages) /\ Len(<<p>>) = 1 /\ <<p>>[1] = p
    OBVIOUS
  <1> QED BY <1>1, ConcatProperties

LEMMA FreeFields ==
    ASSUME NEW m \in MemType, NEW p \in Pages, NEW m2, m2 = page_free(m, p)
    PROVE  /\ m2 \in MemType
           /\ m2.free = <<p>> \o m.free /\ (m2.bad <=> m.bad \/ OnList(m, p))
           /\ m2.ref = m.ref /\ m2.pgdir = m.pgdir /\ m2.pde = m.pde /\ m2.pte = m.pte
  <1>1. <<p>> \o m.free \in Seq(Pages)
    BY MemFields, Consed
  <1>2. PICK s : s = <<p>> \o m.free
    OBVIOUS
  <1>3. PICK b \in BOOLEAN : b = (m.bad \/ OnList(m, p))
    OBVIOUS
  <1>4. m2 = [m EXCEPT !.free = s, !.bad = b]
    BY <1>2, <1>3 DEF page_free, OnList
  <1>5. s \in Seq(Pages)
    BY <1>1, <1>2
  <1>6. /\ m2 \in MemType /\ m2.free = s /\ m2.bad = b
        /\ m2.ref = m.ref /\ m2.pgdir = m.pgdir /\ m2.pde = m.pde /\ m2.pte = m.pte
    BY ONLY <1>4, <1>5, b \in BOOLEAN, m \in MemType DEF MemType
  <1> QED BY <1>2, <1>3, <1>6

LEMMA DecrefFields ==
    ASSUME NEW m \in MemType, NEW p \in Pages, NEW m2, m2 = page_decref(m, p)
    PROVE  /\ m2 \in MemType
           /\ m2.ref[p] = (m.ref[p] - 1) % REFMOD
           /\ \A q \in Pages : q # p => m2.ref[q] = m.ref[q]
           /\ IF m2.ref[p] = 0 THEN /\ m2.free = <<p>> \o m.free
                                    /\ m2.bad <=> m.bad \/ OnList(m, p)
              ELSE m2.free = m.free /\ m2.bad = m.bad
           /\ m2.pgdir = m.pgdir /\ m2.pde = m.pde /\ m2.pte = m.pte
  <1>1. m.ref[p] \in 0..(REFMOD - 1)
    BY MemFields
  <1>2. PICK r \in 0..(REFMOD - 1) : r = (m.ref[p] - 1) % REFMOD
    BY <1>1, Modulo
  <1>3. PICK m1 : m1 = WithRef(m, p, r)
    OBVIOUS
  <1>4. /\ m1 \in MemType
        /\ m1.ref[p] = r /\ \A q \in Pages : q # p => m1.ref[q] = m.ref[q]
        /\ m1.free = m.free /\ m1.bad = m.bad
        /\ m1.pgdir = m.pgdir /\ m1.pde = m.pde /\ m1.pte = m.pte
    BY <1>3, SetRef
  <1>5. m2 = IF r = 0 THEN page_free(m1, p) ELSE m1
    BY <1>2, <1>3, <1>4 DEF page_decref, WithRef
  <1>6. CASE r = 0
    <2>1. /\ m2 \in MemType
          /\ m2.free = <<p>> \o m1.free /\ (m2.bad <=> m1.bad \/ OnList(m1, p))
          /\ m2.ref = m1.ref /\ m2.pgdir = m1.pgdir /\ m2.pde = m1.pde /\ m2.pte = m1.pte
      BY <1>4, <1>5, <1>6, FreeFields
    <2>2. OnList(m1, p) <=> OnList(m, p)
      BY <1>4 DEF OnList
    <2> QED BY <1>2, <1>4, <1>6, <2>1, <2>2
  <1>7. CASE r # 0
    BY <1>2, <1>4, <1>5, <1>7
  <1> QED BY <1>6, <1>7

LEMMA AllocFields ==
    ASSUME NEW m \in MemType, m.free # <<>>, NEW m2, m2 = page_alloc(m)
    PROVE  /\ m2 \in MemType /\ FreshPage(m) \in Pages /\ FreshPage(m) = m.free[1]
           /\ Len(m.free) \in Nat /\ Len(m.free) > 0
           /\ Len(m2.free) = Len(m.free) - 1
           /\ \A n \in 1..(Len(m.free) - 1) : m2.free[n] = m.free[n + 1]
           /\ m2.ref = m.ref /\ m2.bad = m.bad
           /\ m2.pgdir = m.pgdir /\ m2.pde = m.pde /\ m2.pte = m.pte
  <1>1. m.free \in Seq(Pages)
    BY MemFields
  <1>2. /\ Head(m.free) \in Pages /\ Tail(m.free) \in Seq(Pages)
        /\ Len(Tail(m.free)) = Len(m.free) - 1
        /\ \A n \in 1..Len(Tail(m.free)) : Tail(m.free)[n] = m.free[n + 1]
    BY <1>1, HeadTailProperties
  <1>3. PICK s : s = Tail(m.free)
    OBVIOUS
  <1>4. m2 = [m EXCEPT !.free = s]
    BY <1>3 DEF page_alloc
  <1>5. /\ m2 \in MemType /\ m2.free = s /\ m2.ref = m.ref /\ m2.bad = m.bad
        /\ m2.pgdir = m.pgdir /\ m2.pde = m.pde /\ m2.pte = m.pte
    BY <1>2, <1>3, <1>4 DEF MemType
  <1>6. Len(m.free) \in Nat /\ Len(m.free) > 0 /\ Head(m.free) = m.free[1]
    BY <1>1
  <1> QED BY <1>2, <1>3, <1>5, <1>6 DEF FreshPage

-----------------------------------------------------------------------------
(* The allocator stays sound *)

(* A page that goes to the head of the free list. *)
LEMMA ListGrows ==
    ASSUME NEW m \in MemType, NEW m2 \in MemType, NEW p \in Pages,
           m2.free = <<p>> \o m.free, ~ OnList(m, p),
           \A n, k \in 1..Len(m.free) : m.free[n] = m.free[k] => n = k
    PROVE  /\ \A q \in Pages : OnList(m2, q) <=> q = p \/ OnList(m, q)
           /\ \A n, k \in 1..Len(m2.free) : m2.free[n] = m2.free[k] => n = k
  <1>1. m.free \in Seq(Pages) /\ Len(m.free) \in Nat
    BY MemFields
  <1>2. /\ Len(m2.free) = Len(m.free) + 1 /\ m2.free[1] = p
        /\ \A n \in 1..Len(m.free) : m2.free[n + 1] = m.free[n]
    BY <1>1, Consed
  <1>3. \A n \in 1..Len(m2.free) :
           n = 1 \/ (n # 1 /\ n - 1 \in 1..Len(m.free) /\ m2.free[n] = m.free[n - 1])
    <2> TAKE n \in 1..Len(m2.free)
    <2>1. CASE n # 1
      <3>1. n - 1 \in 1..Len(m.free) /\ (n - 1) + 1 = n
        BY <1>1, <1>2, <2>1
      <3> QED BY <1>2, <2>1, <3>1
    <2> QED BY <2>1
  <1>4. \A n \in 1..Len(m.free) : n + 1 \in 1..Len(m2.free)
    BY <1>1, <1>2
  <1>5. 1 \in 1..Len(m2.free)
    BY <1>1, <1>2
  <1>6. ASSUME NEW q \in Pages
        PROVE  OnList(m2, q) <=> q = p \/ OnList(m, q)
    <2>1. ASSUME OnList(m2, q) PROVE q = p \/ OnList(m, q)
      BY <1>2, <1>3, <2>1 DEF OnList
    <2>2. ASSUME q = p PROVE OnList(m2, q)
      BY <1>2, <1>5, <2>2 DEF OnList
    <2>3. ASSUME OnList(m, q) PROVE OnList(m2, q)
      BY <1>2, <1>4, <2>3 DEF OnList
    <2> QED BY <2>1, <2>2, <2>3
  <1>7. ASSUME NEW n \in 1..Len(m2.free), NEW k \in 1..Len(m2.free), m2.free[n] = m2.free[k]
        PROVE  n = k
    <2>1. CASE n = 1 /\ k # 1
      BY <1>2, <1>3, <1>7, <2>1 DEF OnList
    <2>2. CASE n # 1 /\ k = 1
      BY <1>2, <1>3, <1>7, <2>2 DEF OnList
    <2>3. CASE n # 1 /\ k # 1
      <3>1. /\ n - 1 \in 1..Len(m.free) /\ k - 1 \in 1..Len(m.free)
            /\ m.free[n - 1] = m.free[k - 1]
        BY <1>3, <1>7, <2>3
      <3>2. n - 1 = k - 1
        BY <3>1
      <3> QED BY <3>2
    <2> QED BY <2>1, <2>2, <2>3
  <1> QED BY <1>6, <1>7

(* A place stops referring to p, and page_decref(p) is called. *)
LEMMA LoseRef ==
    ASSUME NEW m, NEW limbo, Sound(m, limbo), NEW p \in Pages, NEW m2 \in MemType,
           RefsIn(m, p) > 0, RefsIn(m, p) \in Nat,
           \A q \in Pages : RefsIn(m2, q) = IF q = p THEN RefsIn(m, q) - 1 ELSE RefsIn(m, q),
           m2.ref[p] = (m.ref[p] - 1) % REFMOD,
           \A q \in Pages : q # p => m2.ref[q] = m.ref[q],
           IF m2.ref[p] = 0 THEN m2.free = <<p>> \o m.free /\ (m2.bad <=> m.bad \/ OnList(m, p))
           ELSE m2.free = m.free /\ m2.bad = m.bad,
           Walked(m2)
    PROVE  Sound(m2, limbo)
  <1>1. m \in MemType /\ ~ m.bad /\ Counted(m) /\ ListExact(m, limbo)
    BY DEF Sound
  <1>2. m.ref[p] \in 0..(REFMOD - 1) /\ m.ref[p] = RefsIn(m, p) /\ m.ref[p] > 0
    BY <1>1, MemFields DEF Counted
  <1>3. m2.ref[p] = m.ref[p] - 1
    BY <1>2, Modulo
  <1>4. Counted(m2)
    BY <1>1, <1>2, <1>3 DEF Counted
  <1>5. ~ OnList(m, p) /\ p \notin limbo
    BY <1>1, <1>2, MemoryAssumption DEF ListExact
  <1>6. m2.bad \in BOOLEAN /\ m.bad \in BOOLEAN
    BY <1>1, MemFields
  <1>7. ~ m2.bad
    BY <1>1, <1>5, <1>6
  <1>8. ListExact(m2, limbo)
    <2>1. \A q \in limbo : q \in Pages /\ m2.ref[q] = 0
      BY <1>1, <1>5 DEF ListExact
    <2>2. CASE m2.ref[p] = 0
      <3>1. /\ \A q \in Pages : OnList(m2, q) <=> q = p \/ OnList(m, q)
            /\ \A n, k \in 1..Len(m2.free) : m2.free[n] = m2.free[k] => n = k
        BY <1>1, <1>5, <2>2, ListGrows DEF ListExact
      <3> QED BY <1>1, <1>5, <2>1, <2>2, <3>1 DEF ListExact
    <2>3. CASE m2.ref[p] # 0
      <3>1. \A q : OnList(m2, q) <=> OnList(m, q)
        BY <2>3 DEF OnList
      <3>2. m2.free = m.free
        BY <2>3
      <3> QED BY <1>1, <1>5, <2>1, <2>3, <3>1, <3>2 DEF ListExact
    <2> QED BY <2>2, <2>3
  <1> QED BY <1>4, <1>7, <1>8 DEF Sound

(* A place starts to refer to p, and pp_ref++ is done. *)
LEMMA GainRef ==
    ASSUME NEW m, NEW limbo, Sound(m, limbo), NEW p \in Pages, NEW m2 \in MemType,
           RefsIn(m, p) \in Nat, RefsIn(m, p) > 0 \/ p \in limbo,
           \A q \in Pages : RefsIn(m2, q) = IF q = p THEN RefsIn(m, q) + 1 ELSE RefsIn(m, q),
           RefsIn(m2, p) < REFMOD,
           m2.ref[p] = (m.ref[p] + 1) % REFMOD,
           \A q \in Pages : q # p => m2.ref[q] = m.ref[q],
           m2.free = m.free, m2.bad = m.bad, Walked(m2)
    PROVE  Sound(m2, limbo \ {p})
  <1>1. m \in MemType /\ ~ m.bad /\ Counted(m) /\ ListExact(m, limbo)
    BY DEF Sound
  <1>2. m.ref[p] \in 0..(REFMOD - 1) /\ m.ref[p] = RefsIn(m, p)
    BY <1>1, MemFields DEF Counted
  <1>3. m2.ref[p] = m.ref[p] + 1 /\ m2.ref[p] # 0
    BY <1>2, Modulo
  <1>4. Counted(m2)
    BY <1>1, <1>2, <1>3 DEF Counted
  <1>5. ~ OnList(m, p)
    BY <1>1, <1>2, MemoryAssumption DEF ListExact
  <1>6. \A q : OnList(m2, q) <=> OnList(m, q)
    BY DEF OnList
  <1>7. ListExact(m2, limbo \ {p})
    <2>1. \A q \in limbo \ {p} : q \in Pages /\ m2.ref[q] = 0
      BY <1>1 DEF ListExact
    <2>2. ASSUME NEW q \in Pages
          PROVE  OnList(m2, q) <=> m2.ref[q] = 0 /\ q \notin limbo \ {p}
      <3>1. CASE q = p
        BY <1>3, <1>5, <1>6, <3>1
      <3>2. CASE q # p
        BY <1>1, <1>6, <3>2 DEF ListExact
      <3> QED BY <3>1, <3>2
    <2> QED BY <1>1, <2>1, <2>2 DEF ListExact
  <1> QED BY <1>1, <1>4, <1>7 DEF Sound

(* Counts and page tables are all that the number of references depends on. *)
LEMMA SameRefs ==
    ASSUME NEW m, NEW m2, m2.pgdir = m.pgdir, m2.pde = m.pde, m2.pte = m.pte
    PROVE  /\ \A p \in Pages : RefsIn(m2, p) = RefsIn(m, p) /\ RefsIn(m, p) \in Nat
           /\ Walked(m2) <=> Walked(m)
  <1>1. \A p : RefsIn(m2, p) = RefsIn(m, p)
    BY DEF RefsIn, DirRefs, TableRefs, EntryRefs
  <1>2. \A p : RefsIn(m, p) \in Nat
    BY PlacesFinite DEF RefsIn
  <1> QED BY <1>1, <1>2 DEF Walked

(* page_alloc() puts a page in limbo. *)
LEMMA TakePage ==
    ASSUME NEW m, NEW limbo, Sound(m, limbo), m.free # <<>>, NEW m2, m2 = page_alloc(m)
    PROVE  /\ Sound(m2, limbo \cup {FreshPage(m)})
           /\ FreshPage(m) \in Pages /\ FreshPage(m) \notin limbo
           /\ m2.ref = m.ref /\ m2.pgdir = m.pgdir /\ m2.pde = m.pde /\ m2.pte = m.pte
  <1>1. m \in MemType /\ ~ m.bad /\ Counted(m) /\ ListExact(m, limbo) /\ Walked(m)
    BY DEF Sound
  <1>2. PICK p : p = FreshPage(m)
    OBVIOUS
  <1>3. /\ m2 \in MemType /\ p \in Pages /\ p = m.free[1]
        /\ Len(m.free) \in Nat /\ Len(m.free) > 0
        /\ Len(m2.free) = Len(m.free) - 1
        /\ \A n \in 1..(Len(m.free) - 1) : m2.free[n] = m.free[n + 1]
        /\ m2.ref = m.ref /\ m2.bad = m.bad
        /\ m2.pgdir = m.pgdir /\ m2.pde = m.pde /\ m2.pte = m.pte
    BY <1>1, <1>2, AllocFields
  <1>4. PICK N \in Nat : N = Len(m.free) /\ N > 0 /\ Len(m2.free) = N - 1
    BY <1>3
  <1>5. 1 \in 1..N /\ \A n \in 1..(N - 1) : n \in 1..N /\ n + 1 \in 1..N /\ n + 1 # 1
    BY ONLY <1>4
  <1>6. m.ref[p] = 0 /\ p \notin limbo
    BY <1>1, <1>3, <1>4, <1>5 DEF ListExact, OnList
  <1>7. \A n, k \in 1..N : m.free[n] = m.free[k] => n = k
    BY <1>1, <1>4 DEF ListExact
  <1>8. ASSUME NEW q \in Pages
        PROVE  OnList(m2, q) <=> OnList(m, q) /\ q # p
    <2>1. ASSUME OnList(m2, q) PROVE OnList(m, q) /\ q # p
      <3>1. PICK n \in 1..(N - 1) : m2.free[n] = q
        BY <1>4, <2>1 DEF OnList
      <3>2. m.free[n + 1] = q
        BY <1>3, <1>4, <3>1
      <3> QED BY <1>3, <1>4, <1>5, <1>7, <3>1, <3>2 DEF OnList
    <2>2. ASSUME OnList(m, q), q # p PROVE OnList(m2, q)
      <3>1. PICK n \in 1..N : m.free[n] = q
        BY <1>4, <2>2 DEF OnList
      <3>2. n # 1
        BY <1>3, <2>2, <3>1
      <3>3. n - 1 \in 1..(N - 1) /\ (n - 1) + 1 = n
        BY ONLY <1>4, <3>1, <3>2
      <3>4. m2.free[n - 1] = q
        BY <1>3, <1>4, <3>1, <3>3
      <3> QED BY <1>4, <3>3, <3>4 DEF OnList
    <2> QED BY <2>1, <2>2
  <1>9. ASSUME NEW n \in 1..(N - 1), NEW k \in 1..(N - 1), m2.free[n] = m2.free[k]
        PROVE  n = k
    <2>1. m.free[n + 1] = m.free[k + 1]
      BY <1>3, <1>4, <1>9
    <2>2. n + 1 = k + 1
      BY <1>5, <1>7, <2>1
    <2> QED BY <2>2
  <1>10. ListExact(m2, limbo \cup {p})
    BY <1>1, <1>3, <1>4, <1>6, <1>8, <1>9 DEF ListExact
  <1>11. Counted(m2) /\ Walked(m2)
    BY <1>1, <1>3, SameRefs DEF Counted
  <1> QED BY <1>1, <1>2, <1>3, <1>6, <1>10, <1>11 DEF Sound

(* page_free() of a page in limbo. *)
LEMMA GiveBack ==
    ASSUME NEW m, NEW limbo, Sound(m, limbo), NEW p \in limbo, NEW m2, m2 = page_free(m, p)
    PROVE  /\ Sound(m2, limbo \ {p})
           /\ m2.pgdir = m.pgdir /\ m2.pde = m.pde /\ m2.pte = m.pte
  <1>1. m \in MemType /\ ~ m.bad /\ Counted(m) /\ ListExact(m, limbo) /\ Walked(m)
    BY DEF Sound
  <1>2. p \in Pages /\ m.ref[p] = 0 /\ ~ OnList(m, p)
    BY <1>1 DEF ListExact
  <1>3. /\ m2 \in MemType
        /\ m2.free = <<p>> \o m.free /\ (m2.bad <=> m.bad \/ OnList(m, p))
        /\ m2.ref = m.ref /\ m2.pgdir = m.pgdir /\ m2.pde = m.pde /\ m2.pte = m.pte
    BY <1>1, <1>2, FreeFields
  <1>4. ~ m2.bad
    BY <1>1, <1>2, <1>3
  <1>5. /\ \A q \in Pages : OnList(m2, q) <=> q = p \/ OnList(m, q)
        /\ \A n, k \in 1..Len(m2.free) : m2.free[n] = m2.free[k] => n = k
    BY <1>1, <1>2, <1>3, ListGrows DEF ListExact
  <1>6. ListExact(m2, limbo \ {p})
    BY <1>1, <1>2, <1>3, <1>5 DEF ListExact
  <1>7. Counted(m2) /\ Walked(m2)
    BY <1>1, <1>3, SameRefs DEF Counted
  <1> QED BY <1>3, <1>4, <1>6, <1>7 DEF Sound

(* A fresh page gets its first reference. *)
LEMMA FirstRef ==
    ASSUME NEW m, NEW limbo, Sound(m, limbo), NEW p \in limbo
    PROVE  p \in Pages /\ RefsIn(m, p) = 0
  BY DEF Sound, Counted, ListExact

(* pgdir_walk(.., 1): the page table is there, or a fresh page becomes it. *)
LEMMA WalkSound ==
    ASSUME NEW m, NEW limbo, Sound(m, limbo), NEW e \in Envs, NEW va \in VAs,
           CanWalk(m, e, va), NEW m2, m2 = pgdir_walk(m, e, va)
    PROVE  /\ Sound(m2, limbo) /\ m2.pde[e][PDX(va)] # NULL
           /\ m2.pgdir = m.pgdir /\ m2.pte = m.pte
           /\ \A f \in Envs : f # e => m2.pde[f] = m.pde[f]
           /\ \A q \in Pages : RefsIn(m, q) > 0 => RefsIn(m2, q) > 0
  <1>1. m \in MemType /\ Walked(m)
    BY DEF Sound
  <1>2. CASE HasTable(m, e, va)
    BY <1>2 DEF pgdir_walk, HasTable
  <1>3. CASE ~ HasTable(m, e, va)
    <2>1. m.free # <<>>
      BY <1>3 DEF CanWalk
    <2>2. PICK p, m1, m3 : p = FreshPage(m) /\ m1 = page_alloc(m) /\ m3 = page_incref(m1, p)
      OBVIOUS
    <2>3. PICK t \in PDXs : t = PDX(va)
      BY TableOfVa
    <2>4. /\ Sound(m1, limbo \cup {p}) /\ p \in Pages /\ p \notin limbo
          /\ m1.ref = m.ref /\ m1.pgdir = m.pgdir /\ m1.pde = m.pde /\ m1.pte = m.pte
      BY <2>1, <2>2, TakePage
    <2>5. /\ m3 \in MemType
          /\ m3.ref[p] = (m1.ref[p] + 1) % REFMOD
          /\ \A q \in Pages : q # p => m3.ref[q] = m1.ref[q]
          /\ m3.free = m1.free /\ m3.bad = m1.bad
          /\ m3.pgdir = m1.pgdir /\ m3.pde = m1.pde /\ m3.pte = m1.pte
      BY <2>2, <2>4, IncrefFields DEF Sound
    <2>6. m2 = WithTable(m3, e, t, p)
      BY <1>3, <2>2, <2>3 DEF pgdir_walk, WithTable
    <2>7. /\ m2 \in MemType /\ m2.pde[e][t] = p
          /\ \A f \in Envs, s \in PDXs : f # e \/ s # t => m2.pde[f][s] = m3.pde[f][s]
          /\ m2.ref = m3.ref /\ m2.free = m3.free /\ m2.bad = m3.bad
          /\ m2.pgdir = m3.pgdir /\ m2.pte = m3.pte
      BY <2>4, <2>5, <2>6, SetTable
    <2>8. m1.pde[e][t] = NULL /\ p # NULL /\ NULL \notin Pages
      BY <1>3, <2>3, <2>4, MemoryAssumption DEF HasTable
    <2>9. ASSUME NEW q \in Pages
          PROVE  /\ RefsIn(m1, q) \in Nat
                 /\ RefsIn(m2, q) = IF q = p THEN RefsIn(m1, q) + 1 ELSE RefsIn(m1, q)
      <3>1. /\ RefsIn(m1, q) \in Nat /\ RefsIn(m2, q) \in Nat
            /\ RefsIn(m2, q) = RefsIn(m1, q) - One(TableAt(m1, e, t) = q)
                                             + One(TableAt(m2, e, t) = q)
        <4>1. SameButTable(m1, m2, e, t)
          BY <2>5, <2>7 DEF SameButTable
        <4> QED BY ONLY <4>1, TableChange, e \in Envs, t \in PDXs, q \in Pages DEF One
      <3>2. TableAt(m1, e, t) # q /\ (TableAt(m2, e, t) = q <=> q = p)
        BY <2>7, <2>8 DEF TableAt
      <3> QED BY <3>1, <3>2 DEF One
    <2>10. Walked(m2)
      <3> SUFFICES ASSUME NEW f \in Envs, NEW v \in VAs, m2.pte[f][v] # NoMap
                   PROVE  m2.pde[f][PDX(v)] # NULL
        BY DEF Walked
      <3>1. m.pde[f][PDX(v)] # NULL /\ PDX(v) \in PDXs
        BY <1>1, <2>4, <2>5, <2>7, TableOfVa DEF Walked
      <3> QED BY <2>4, <2>5, <2>7, <2>8, <3>1
    <2>11. RefsIn(m1, p) = 0 /\ RefsIn(m2, p) < REFMOD
      <3>1. RefsIn(m1, p) = 0
        BY <2>4, FirstRef
      <3> QED BY <2>4, <2>9, <3>1, MemoryAssumption
    <2>12. Sound(m2, (limbo \cup {p}) \ {p})
      BY <2>4, <2>5, <2>7, <2>9, <2>10, <2>11, GainRef
    <2>13. (limbo \cup {p}) \ {p} = limbo
      BY <2>4
    <2>14. \A f \in Envs : f # e => m2.pde[f] = m.pde[f]
      <3> SUFFICES ASSUME NEW f \in Envs, f # e PROVE m2.pde[f] = m.pde[f]
        OBVIOUS
      <3>1. m2.pde[f] \in [PDXs -> Pages \cup {NULL}] /\ m.pde[f] \in [PDXs -> Pages \cup {NULL}]
        BY <1>1, <2>7, MemFields
      <3>2. \A s \in PDXs : m2.pde[f][s] = m.pde[f][s]
        BY <2>4, <2>5, <2>7
      <3> QED BY ONLY <3>1, <3>2
    <2>15. \A q \in Pages : RefsIn(m, q) > 0 => RefsIn(m2, q) > 0
      <3>1. \A q \in Pages : RefsIn(m1, q) = RefsIn(m, q)
        BY <2>4, SameRefs
      <3> QED BY <2>9, <3>1
    <2> QED BY <2>3, <2>4, <2>5, <2>7, <2>8, <2>12, <2>13, <2>14, <2>15
  <1> QED BY <1>2, <1>3

(* An entry of a page table is a page or nothing. *)
LEMMA EntryPage ==
    ASSUME NEW m \in MemType, NEW e \in Envs, NEW va \in VAs
    PROVE  /\ m.pte[e][va] \in Ptes
           /\ m.pte[e][va] # NoMap <=> m.pte[e][va].page \in Pages
           /\ m.pte[e][va] = NoMap => m.pte[e][va].page = NULL
  <1>1. m.pte[e][va] \in Ptes
    BY MemFields
  <1>2. NoMap.page = NULL /\ NULL \notin Pages
    BY MemoryAssumption DEF NoMap
  <1> QED BY <1>1, <1>2 DEF Ptes

(* page_remove() of an entry that is mapped. *)
LEMMA RemoveSound ==
    ASSUME NEW m, NEW limbo, Sound(m, limbo), NEW e \in Envs, NEW va \in VAs,
           m.pte[e][va] # NoMap, NEW m2, m2 = page_remove(m, e, va)
    PROVE  /\ Sound(m2, limbo)
           /\ m2.pgdir = m.pgdir /\ m2.pde = m.pde
           /\ m2.pte[e][va] = NoMap
           /\ \A f \in Envs, v \in VAs : f # e \/ v # va => m2.pte[f][v] = m.pte[f][v]
           /\ \A q \in Pages : q # m.pte[e][va].page => RefsIn(m2, q) = RefsIn(m, q)
  <1>1. m \in MemType /\ Walked(m)
    BY DEF Sound
  <1>2. PICK p \in Pages : p = m.pte[e][va].page
    BY <1>1, EntryPage
  <1>3. p # NULL /\ NULL \notin Pages
    BY MemoryAssumption
  <1>4. page_lookup(m, e, va) = p
    BY <1>1, <1>2 DEF Walked, page_lookup, HasTable
  <1>5. PICK m1 : m1 = page_decref(m, p)
    OBVIOUS
  <1>6. /\ m1 \in MemType
        /\ m1.ref[p] = (m.ref[p] - 1) % REFMOD
        /\ \A q \in Pages : q # p => m1.ref[q] = m.ref[q]
        /\ IF m1.ref[p] = 0 THEN /\ m1.free = <<p>> \o m.free
                                 /\ m1.bad <=> m.bad \/ OnList(m, p)
           ELSE m1.free = m.free /\ m1.bad = m.bad
        /\ m1.pgdir = m.pgdir /\ m1.pde = m.pde /\ m1.pte = m.pte
    BY <1>1, <1>5, DecrefFields
  <1>7. m2 = WithEntry(m1, e, va, NoMap)
    BY <1>3, <1>4, <1>5 DEF page_remove, WithEntry
  <1>8. NoMap \in Ptes
    BY DEF Ptes
  <1>9. /\ m2 \in MemType /\ m2.pte[e][va] = NoMap
        /\ \A f \in Envs, v \in VAs : f # e \/ v # va => m2.pte[f][v] = m1.pte[f][v]
        /\ m2.ref = m1.ref /\ m2.free = m1.free /\ m2.bad = m1.bad
        /\ m2.pgdir = m1.pgdir /\ m2.pde = m1.pde
    BY <1>6, <1>7, <1>8, SetEntry
  <1>10. /\ m2.pgdir = m.pgdir /\ m2.pde = m.pde
         /\ \A f \in Envs, v \in VAs : f # e \/ v # va => m2.pte[f][v] = m.pte[f][v]
    BY <1>6, <1>9
  <1>11. m2.pte[e][va].page = NULL
    BY <1>9, EntryPage
  <1>12. ASSUME NEW q \in Pages
         PROVE  /\ RefsIn(m, q) \in Nat
                /\ RefsIn(m2, q) = IF q = p THEN RefsIn(m, q) - 1 ELSE RefsIn(m, q)
                /\ q = p => RefsIn(m, q) > 0
    <2>1. /\ RefsIn(m, q) \in Nat
          /\ RefsIn(m2, q) = RefsIn(m, q) - One(PageAt(m, e, va) = q)
                                          + One(PageAt(m2, e, va) = q)
          /\ PageAt(m, e, va) = q => RefsIn(m, q) > 0
      <3>1. SameButEntry(m, m2, e, va)
        BY <1>10 DEF SameButEntry
      <3> QED BY ONLY <3>1, EntryChange, e \in Envs, va \in VAs, q \in Pages DEF One
    <2>2. (PageAt(m, e, va) = q <=> q = p) /\ PageAt(m2, e, va) # q
      BY <1>2, <1>3, <1>11 DEF PageAt
    <2> QED BY <2>1, <2>2 DEF One
  <1>13. Walked(m2)
    BY <1>1, <1>9, <1>10 DEF Walked
  <1>14. Sound(m2, limbo)
    <2>1. /\ m2.ref[p] = (m.ref[p] - 1) % REFMOD
          /\ \A q \in Pages : q # p => m2.ref[q] = m.ref[q]
          /\ IF m2.ref[p] = 0 THEN m2.free = <<p>> \o m.free /\ (m2.bad <=> m.bad \/ OnList(m, p))
             ELSE m2.free = m.free /\ m2.bad = m.bad
      BY <1>6, <1>9
    <2> QED BY ONLY <1>9, <1>12, <1>13, <2>1, LoseRef, Sound(m, limbo), p \in Pages
  <1> QED BY <1>2, <1>9, <1>10, <1>12, <1>14

(* The end of page_insert() when nothing is mapped at va: p is counted, and *)
(* its entry written.                                                       *)
LEMMA MapSound ==
    ASSUME NEW m, NEW limbo, Sound(m, limbo), NEW e \in Envs, NEW va \in VAs,
           NEW p \in Pages, NEW w \in BOOLEAN, NEW x, x = Entry(p, w),
           Vacant(m, e, va), Usable(m, limbo, p),
           NEW m2, m2 = WithEntry(page_incref(m, p), e, va, x), RefsIn(m2, p) < REFMOD
    PROVE  /\ Sound(m2, limbo \ {p})
           /\ m2.pgdir = m.pgdir /\ m2.pde = m.pde
           /\ m2.pte[e][va] = x
           /\ \A f \in Envs, v \in VAs : f # e \/ v # va => m2.pte[f][v] = m.pte[f][v]
  <1>0. x \in Ptes /\ x.page = p
    BY DEF Entry, Ptes
  <1>1. m \in MemType /\ Walked(m)
    BY DEF Sound
  <1>2. PICK m1 : m1 = page_incref(m, p)
    OBVIOUS
  <1>3. /\ m1 \in MemType
        /\ m1.ref[p] = (m.ref[p] + 1) % REFMOD
        /\ \A q \in Pages : q # p => m1.ref[q] = m.ref[q]
        /\ m1.free = m.free /\ m1.bad = m.bad
        /\ m1.pgdir = m.pgdir /\ m1.pde = m.pde /\ m1.pte = m.pte
    BY <1>1, <1>2, IncrefFields
  <1>4. m2 = WithEntry(m1, e, va, x)
    BY <1>2
  <1>5. /\ m2 \in MemType /\ m2.pte[e][va] = x
        /\ \A f \in Envs, v \in VAs : f # e \/ v # va => m2.pte[f][v] = m1.pte[f][v]
        /\ m2.ref = m1.ref /\ m2.free = m1.free /\ m2.bad = m1.bad
        /\ m2.pgdir = m1.pgdir /\ m2.pde = m1.pde
    BY <1>3, <1>4, <1>0, SetEntry
  <1>6. /\ m2.pgdir = m.pgdir /\ m2.pde = m.pde
        /\ \A f \in Envs, v \in VAs : f # e \/ v # va => m2.pte[f][v] = m.pte[f][v]
    BY <1>3, <1>5
  <1>7. ASSUME NEW q \in Pages
        PROVE  /\ RefsIn(m, q) \in Nat
               /\ RefsIn(m2, q) = IF q = p THEN RefsIn(m, q) + 1 ELSE RefsIn(m, q)
    <2>1. /\ RefsIn(m, q) \in Nat
          /\ RefsIn(m2, q) = RefsIn(m, q) - One(PageAt(m, e, va) = q)
                                          + One(PageAt(m2, e, va) = q)
      <3>1. SameButEntry(m, m2, e, va)
        BY <1>6 DEF SameButEntry
      <3> QED BY ONLY <3>1, EntryChange, e \in Envs, va \in VAs, q \in Pages DEF One
    <2>2. PageAt(m, e, va) = NULL /\ PageAt(m2, e, va) = p
      BY <1>0, <1>5 DEF PageAt, NoMap, Vacant
    <2>3. q # NULL
      BY MemoryAssumption
    <2> QED BY <2>1, <2>2, <2>3 DEF One
  <1>8. Walked(m2)
    BY <1>1, <1>6 DEF Walked, Vacant
  <1>9. Sound(m2, limbo \ {p})
    <2>1. /\ m2.ref[p] = (m.ref[p] + 1) % REFMOD
          /\ \A q \in Pages : q # p => m2.ref[q] = m.ref[q]
          /\ m2.free = m.free /\ m2.bad = m.bad
      BY <1>3, <1>5
    <2>2. m2 \in MemType
      BY <1>5
    <2> QED BY ONLY <1>7, <1>8, <2>1, <2>2, GainRef, Sound(m, limbo), p \in Pages,
                    Usable(m, limbo, p), RefsIn(m2, p) < REFMOD DEF Usable
  <1> QED BY <1>5, <1>6, <1>9

(* The end of page_insert() when p is mapped at va already: its count goes  *)
(* down and up again.                                                       *)
LEMMA RemapSound ==
    ASSUME NEW m, NEW limbo, Sound(m, limbo), NEW e \in Envs, NEW va \in VAs,
           NEW p \in Pages, NEW w \in BOOLEAN, NEW x, x = Entry(p, w),
           PageAt(m, e, va) = p,
           NEW m1, m1 = Less1(m, p),
           NEW m2, m2 = WithEntry(page_incref(m1, p), e, va, x)
    PROVE  /\ Sound(m2, limbo \ {p})
           /\ m2.pgdir = m.pgdir /\ m2.pde = m.pde
           /\ m2.pte[e][va] = x
           /\ \A f \in Envs, v \in VAs : f # e \/ v # va => m2.pte[f][v] = m.pte[f][v]
  <1>0. x \in Ptes /\ x.page = p
    BY DEF Entry, Ptes
  <1>1. m \in MemType /\ Walked(m) /\ Counted(m) /\ ListExact(m, limbo) /\ ~ m.bad
    BY DEF Sound
  <1>2. m.ref[p] \in 0..(REFMOD - 1)
    BY <1>1, MemFields
  <1>3. PICK r \in 0..(REFMOD - 1) : r = (m.ref[p] - 1) % REFMOD
    BY <1>2, Modulo
  <1>4. /\ m1 \in MemType
        /\ m1.ref[p] = r /\ \A q \in Pages : q # p => m1.ref[q] = m.ref[q]
        /\ m1.free = m.free /\ m1.bad = m.bad
        /\ m1.pgdir = m.pgdir /\ m1.pde = m.pde /\ m1.pte = m.pte
    BY <1>1, <1>3, SetRef DEF Less1
  <1>5. PICK m3 : m3 = page_incref(m1, p)
    OBVIOUS
  <1>6. /\ m3 \in MemType
        /\ m3.ref[p] = (m1.ref[p] + 1) % REFMOD
        /\ \A q \in Pages : q # p => m3.ref[q] = m1.ref[q]
        /\ m3.free = m1.free /\ m3.bad = m1.bad
        /\ m3.pgdir = m1.pgdir /\ m3.pde = m1.pde /\ m3.pte = m1.pte
    BY <1>4, <1>5, IncrefFields
  <1>7. m2 = WithEntry(m3, e, va, x)
    BY <1>5
  <1>8. /\ m2 \in MemType /\ m2.pte[e][va] = x
        /\ \A f \in Envs, v \in VAs : f # e \/ v # va => m2.pte[f][v] = m3.pte[f][v]
        /\ m2.ref = m3.ref /\ m2.free = m3.free /\ m2.bad = m3.bad
        /\ m2.pgdir = m3.pgdir /\ m2.pde = m3.pde
    BY <1>6, <1>7, <1>0, SetEntry
  <1>9. /\ m2.pgdir = m.pgdir /\ m2.pde = m.pde
        /\ \A f \in Envs, v \in VAs : f # e \/ v # va => m2.pte[f][v] = m.pte[f][v]
        /\ m2.free = m.free /\ m2.bad = m.bad
    BY ONLY <1>4, <1>6, <1>8
  <1>10. \A q \in Pages : m2.ref[q] = m.ref[q]
    <2>1. m2.ref[p] = (r + 1) % REFMOD
      BY ONLY <1>4, <1>6, <1>8
    <2>2. PICK k \in 0..(REFMOD - 1) : k = m.ref[p]
      BY <1>2
    <2>3. (((k - 1) % REFMOD) + 1) % REFMOD = k
      BY ONLY Modulo, k \in 0..(REFMOD - 1)
    <2>4. m2.ref[p] = m.ref[p]
      BY ONLY <1>3, <2>1, <2>2, <2>3
    <2> QED BY ONLY <1>4, <1>6, <1>8, <2>4
  <1>11. ASSUME NEW q \in Pages
         PROVE  /\ RefsIn(m, q) \in Nat
                /\ RefsIn(m2, q) = RefsIn(m, q)
                /\ q = p => RefsIn(m, q) > 0
    <2>1. /\ RefsIn(m, q) \in Nat
          /\ RefsIn(m2, q) = RefsIn(m, q) - One(PageAt(m, e, va) = q)
                                          + One(PageAt(m2, e, va) = q)
          /\ PageAt(m, e, va) = q => RefsIn(m, q) > 0
      <3>1. SameButEntry(m, m2, e, va)
        BY <1>9 DEF SameButEntry
      <3> QED BY ONLY <3>1, EntryChange, e \in Envs, va \in VAs, q \in Pages DEF One
    <2>2. PageAt(m, e, va) = p /\ PageAt(m2, e, va) = p
      BY <1>0, <1>8 DEF PageAt
    <2> QED BY <2>1, <2>2 DEF One
  <1>12. Walked(m2)
    <2>1. m.pte[e][va] # NoMap
      BY <1>1, EntryPage DEF PageAt
    <2> QED BY <1>1, <1>9, <2>1 DEF Walked
  <1>13. Counted(m2)
    BY <1>1, <1>10, <1>11 DEF Counted
  <1>14. p \notin limbo
    BY <1>1, <1>11 DEF Counted, ListExact
  <1>15. ListExact(m2, limbo)
    <2>1. \A q : OnList(m2, q) <=> OnList(m, q)
      BY <1>9 DEF OnList
    <2> QED BY <1>1, <1>9, <1>10, <2>1 DEF ListExact
  <1>16. limbo \ {p} = limbo
    BY <1>14
  <1> QED BY <1>1, <1>8, <1>9, <1>12, <1>13, <1>15, <1>16 DEF Sound

(* All that may change is the entry for va, and the page tables of e. *)
OnlyAt(m, m2, e, va) ==
    /\ m2.pgdir = m.pgdir
    /\ \A f \in Envs : f # e => m2.pde[f] = m.pde[f]
    /\ \A f \in Envs, v \in VAs : f # e \/ v # va => m2.pte[f][v] = m.pte[f][v]

(* page_insert() of a page that is referred to, or in limbo. *)
LEMMA InsertSound ==
    ASSUME NEW m, NEW limbo, Sound(m, limbo), NEW e \in Envs, NEW va \in VAs,
           NEW p \in Pages, NEW w \in BOOLEAN, CanWalk(m, e, va),
           Usable(m, limbo, p),
           NEW m2, m2 = page_insert(m, e, p, va, w), RefsIn(m2, p) < REFMOD
    PROVE  Sound(m2, limbo \ {p}) /\ OnlyAt(m, m2, e, va)
  <1>1. PICK m1 : m1 = pgdir_walk(m, e, va)
    OBVIOUS
  <1>2. /\ Sound(m1, limbo) /\ m1.pde[e][PDX(va)] # NULL
        /\ m1.pgdir = m.pgdir /\ m1.pte = m.pte
        /\ \A f \in Envs : f # e => m1.pde[f] = m.pde[f]
        /\ \A q \in Pages : RefsIn(m, q) > 0 => RefsIn(m1, q) > 0
    BY <1>1, WalkSound
  <1>3. Usable(m1, limbo, p)
    BY <1>2 DEF Usable
  <1>4. PICK x : x = Entry(p, w)
    OBVIOUS
  <1>6. SUFFICES /\ Sound(m2, limbo \ {p})
                 /\ m2.pgdir = m1.pgdir /\ m2.pde = m1.pde
                 /\ \A f \in Envs, v \in VAs : f # e \/ v # va => m2.pte[f][v] = m1.pte[f][v]
    BY ONLY <1>2, <1>6 DEF OnlyAt
  <1>7. CASE m1.pte[e][va] = NoMap
    <2>1. m2 = WithEntry(page_incref(m1, p), e, va, x)
      BY <1>1, <1>4, <1>7 DEF page_insert, WithEntry, Entry
    <2>2. Vacant(m1, e, va)
      BY <1>2, <1>7 DEF Vacant
    <2> QED BY ONLY <1>2, <1>3, <1>4, <2>1, <2>2, MapSound, e \in Envs, va \in VAs,
                    p \in Pages, w \in BOOLEAN, RefsIn(m2, p) < REFMOD
  <1>8. CASE m1.pte[e][va] # NoMap /\ m1.pte[e][va].page = p
    <2>1. PICK m3 : m3 = Less1(m1, p)
      OBVIOUS
    <2>2. m2 = WithEntry(page_incref(m3, p), e, va, x)
      BY <1>1, <1>4, <1>8, <2>1 DEF page_insert, WithEntry, Entry, Less1, WithRef
    <2>3. PageAt(m1, e, va) = p
      BY <1>8 DEF PageAt
    <2> QED BY ONLY <1>2, <1>4, <2>1, <2>2, <2>3, RemapSound, e \in Envs, va \in VAs,
                    p \in Pages, w \in BOOLEAN
  <1>9. CASE m1.pte[e][va] # NoMap /\ m1.pte[e][va].page # p
    <2>1. PICK m3 : m3 = page_remove(m1, e, va)
      OBVIOUS
    <2>2. m2 = WithEntry(page_incref(m3, p), e, va, x)
      BY <1>1, <1>4, <1>9, <2>1 DEF page_insert, WithEntry, Entry
    <2>3. /\ Sound(m3, limbo)
          /\ m3.pgdir = m1.pgdir /\ m3.pde = m1.pde
          /\ m3.pte[e][va] = NoMap
          /\ \A f \in Envs, v \in VAs : f # e \/ v # va => m3.pte[f][v] = m1.pte[f][v]
          /\ \A q \in Pages : q # m1.pte[e][va].page => RefsIn(m3, q) = RefsIn(m1, q)
      BY ONLY <1>2, <1>9, <2>1, RemoveSound, e \in Envs, va \in VAs
    <2>4. Usable(m3, limbo, p)
      BY ONLY <1>3, <1>9, <2>3, p \in Pages DEF Usable
    <2>5. Vacant(m3, e, va)
      BY ONLY <1>2, <2>3 DEF Vacant
    <2>6. /\ Sound(m2, limbo \ {p})
          /\ m2.pgdir = m3.pgdir /\ m2.pde = m3.pde
          /\ \A f \in Envs, v \in VAs : f # e \/ v # va => m2.pte[f][v] = m3.pte[f][v]
      BY ONLY <1>4, <2>2, <2>3, <2>4, <2>5, MapSound, e \in Envs, va \in VAs,
              p \in Pages, w \in BOOLEAN, RefsIn(m2, p) < REFMOD
    <2> QED BY ONLY <2>3, <2>6
  <1> QED BY <1>7, <1>8, <1>9

(* env_setup_vm() of an environment without a page directory. *)
LEMMA SetupSound ==
    ASSUME NEW m, Sound(m, {}), NEW e \in Envs, m.pgdir[e] = NULL, m.free # <<>>,
           NEW m2, m2 = env_setup_vm(m, e)
    PROVE  /\ Sound(m2, {}) /\ m2.pgdir[e] \in Pages
           /\ \A f \in Envs : f # e => m2.pgdir[f] = m.pgdir[f]
           /\ m2.pde = m.pde /\ m2.pte = m.pte
  <1>1. PICK p, m1, m3 : p = FreshPage(m) /\ m1 = page_alloc(m) /\ m3 = page_incref(m1, p)
    OBVIOUS
  <1>2. /\ Sound(m1, {} \cup {p}) /\ p \in Pages
        /\ m1.ref = m.ref /\ m1.pgdir = m.pgdir /\ m1.pde = m.pde /\ m1.pte = m.pte
    BY <1>1, TakePage
  <1>3. /\ m3 \in MemType
        /\ m3.ref[p] = (m1.ref[p] + 1) % REFMOD
        /\ \A q \in Pages : q # p => m3.ref[q] = m1.ref[q]
        /\ m3.free = m1.free /\ m3.bad = m1.bad
        /\ m3.pgdir = m1.pgdir /\ m3.pde = m1.pde /\ m3.pte = m1.pte
    BY <1>1, <1>2, IncrefFields DEF Sound
  <1>4. m2 = WithDir(m3, e, p)
    BY <1>1 DEF env_setup_vm, WithDir
  <1>5. /\ m2 \in MemType
        /\ m2.pgdir[e] = p /\ \A f \in Envs : f # e => m2.pgdir[f] = m3.pgdir[f]
        /\ m2.ref = m3.ref /\ m2.free = m3.free /\ m2.bad = m3.bad
        /\ m2.pde = m3.pde /\ m2.pte = m3.pte
    BY <1>2, <1>3, <1>4, SetDir
  <1>6. ASSUME NEW q \in Pages
        PROVE  /\ RefsIn(m1, q) \in Nat
               /\ RefsIn(m2, q) = IF q = p THEN RefsIn(m1, q) + 1 ELSE RefsIn(m1, q)
    <2>1. SameButDir(m1, m2, e)
      BY <1>3, <1>5 DEF SameButDir
    <2>2. /\ RefsIn(m1, q) \in Nat
          /\ RefsIn(m2, q) = RefsIn(m1, q) - One(m1.pgdir[e] = q) + One(m2.pgdir[e] = q)
      BY ONLY <2>1, DirChange, e \in Envs, q \in Pages DEF One
    <2>3. m1.pgdir[e] # q /\ m2.pgdir[e] = p
      BY <1>2, <1>5, MemoryAssumption
    <2> QED BY <2>2, <2>3 DEF One
  <1>7. RefsIn(m1, p) = 0 /\ RefsIn(m2, p) < REFMOD
    <2>1. RefsIn(m1, p) = 0
      BY <1>2, FirstRef
    <2> QED BY <1>2, <1>6, <2>1, MemoryAssumption
  <1>8. Walked(m2)
    BY <1>2, <1>3, <1>5 DEF Sound, Walked
  <1>9. /\ m2.ref[p] = (m1.ref[p] + 1) % REFMOD
        /\ \A q \in Pages : q # p => m2.ref[q] = m1.ref[q]
        /\ m2.free = m1.free /\ m2.bad = m1.bad /\ m2 \in MemType
    BY ONLY <1>3, <1>5
  <1>10. Sound(m2, ({} \cup {p}) \ {p})
    <2>1. p \in {} \cup {p}
      OBVIOUS
    <2>2. PICK l : l = {} \cup {p}
      OBVIOUS
    <2>3. Sound(m2, l \ {p})
      BY ONLY <1>2, <1>6, <1>7, <1>8, <1>9, <2>1, <2>2, GainRef
    <2> QED BY <2>2, <2>3
  <1>11. ({} \cup {p}) \ {p} = {}
    OBVIOUS
  <1> QED BY <1>2, <1>3, <1>5, <1>10, <1>11

-----------------------------------------------------------------------------
(* The loops of env_free() *)

(* The rounds of the loop over the entries of a page table. *)
LEMMA UnmapRounds ==
    ASSUME NEW m, NEW e, NEW t
    PROVE  \E a : /\ a[0] = m /\ a[NVA] = UnmapTable(m, e, t)
                  /\ \A n \in 0..(NVA - 1) : a[n + 1] = UnmapEntry(a[n], e, t, n)
  <1> DEFINE F(g, k) ==
                 [n \in 0..k |-> IF n = 0 THEN m ELSE UnmapEntry(g[n - 1], e, t, n - 1)]
             S == {k \in 0..NVA : \E g : g = F(g, k)}
  <1>0. NVA \in Nat
    BY MemoryAssumption
  <1>1. 0 \in S
    <2>1. PICK g : g = [n \in 0..0 |-> m]
      OBVIOUS
    <2>2. g = F(g, 0)
      BY <2>1
    <2> QED BY <1>0, <2>2
  <1>2. ASSUME NEW k \in 0..(NVA - 1), k \in S
        PROVE  k + 1 \in S
    <2>1. PICK g : g = F(g, k)
      BY <1>2
    <2>2. PICK h : h = [n \in 0..(k + 1) |-> IF n = k + 1 THEN UnmapEntry(g[k], e, t, k)
                                             ELSE g[n]]
      OBVIOUS
    <2>3. k \in Nat /\ k + 1 \in 0..NVA
      BY <1>0
    <2>4. \A n \in 0..k : h[n] = g[n]
      BY <2>2, <2>3
    <2>5. ASSUME NEW n \in 0..(k + 1)
          PROVE  h[n] = IF n = 0 THEN m ELSE UnmapEntry(h[n - 1], e, t, n - 1)
      <3>1. CASE n = k + 1
        <4>1. h[n] = UnmapEntry(g[k], e, t, k)
          BY <2>2, <3>1
        <4>2. n # 0 /\ n - 1 = k /\ k \in 0..k
          BY <2>3, <3>1
        <4> QED BY <2>4, <4>1, <4>2
      <3>2. CASE n # k + 1
        <4>1. n \in 0..k /\ (n # 0 => n - 1 \in 0..k)
          BY <2>3, <3>2
        <4>2. g[n] = IF n = 0 THEN m ELSE UnmapEntry(g[n - 1], e, t, n - 1)
          BY <2>1, <4>1
        <4> QED BY <2>4, <4>1, <4>2
      <3> QED BY <3>1, <3>2
    <2>6. h = [n \in 0..(k + 1) |-> h[n]]
      BY <2>2
    <2>7. h = F(h, k + 1)
      BY <2>5, <2>6
    <2> QED BY <2>3, <2>7
  <1>3. NVA \in S
    <2> HIDE DEF S
    <2> QED BY <1>0, <1>1, <1>2, Rounds
  <1>4. \E g : g = F(g, NVA)
    BY <1>3
  <1>5. PICK a : a = CHOOSE g : g = F(g, NVA)
    OBVIOUS
  <1>6. a = F(a, NVA)
    BY <1>4, <1>5
  <1>7. UnmapTable(m, e, t) = a[NVA]
    BY <1>5 DEF UnmapTable
  <1>8. a[0] = m
    BY <1>0, <1>6
  <1>9. ASSUME NEW n \in 0..(NVA - 1)
        PROVE  a[n + 1] = UnmapEntry(a[n], e, t, n)
    <2>1. n + 1 \in 0..NVA /\ n + 1 # 0 /\ (n + 1) - 1 = n
      BY <1>0
    <2> QED BY <1>6, <2>1
  <1> QED BY <1>7, <1>8, <1>9

(* After n rounds of the loop over table t of e. *)
Unmapped(m, m2, e, t, n) ==
    /\ Sound(m2, {}) /\ m2.pgdir = m.pgdir /\ m2.pde = m.pde
    /\ \A v \in VAs : v < n /\ PDX(v) = t => m2.pte[e][v] = NoMap
    /\ \A f \in Envs, v \in VAs : f # e => m2.pte[f][v] = m.pte[f][v]

LEMMA UnmapRound ==
    ASSUME NEW m, NEW m1, NEW m2, NEW e \in Envs, NEW t, NEW n \in VAs,
           Unmapped(m, m1, e, t, n), m2 = UnmapEntry(m1, e, t, n)
    PROVE  Unmapped(m, m2, e, t, n + 1)
  <1>1. /\ Sound(m1, {}) /\ m1.pgdir = m.pgdir /\ m1.pde = m.pde
        /\ \A v \in VAs : v < n /\ PDX(v) = t => m1.pte[e][v] = NoMap
        /\ \A f \in Envs, v \in VAs : f # e => m1.pte[f][v] = m.pte[f][v]
    BY DEF Unmapped
  <1>2. n \in Nat /\ \A v \in VAs : v \in Nat /\ (v < n + 1 => v < n \/ v = n)
    BY TableOfVa
  <1>3. CASE PDX(n) = t /\ m1.pte[e][n] # NoMap
    <2>1. m2 = page_remove(m1, e, n)
      BY <1>3 DEF UnmapEntry
    <2>2. /\ Sound(m2, {})
          /\ m2.pgdir = m1.pgdir /\ m2.pde = m1.pde
          /\ m2.pte[e][n] = NoMap
          /\ \A f \in Envs, v \in VAs : f # e \/ v # n => m2.pte[f][v] = m1.pte[f][v]
      BY ONLY <1>1, <1>3, <2>1, RemoveSound, e \in Envs, n \in VAs
    <2> QED BY ONLY <1>1, <1>2, <2>2, e \in Envs DEF Unmapped
  <1>4. CASE ~ (PDX(n) = t /\ m1.pte[e][n] # NoMap)
    <2>1. m2 = m1
      BY <1>4 DEF UnmapEntry
    <2> QED BY ONLY <1>1, <1>2, <1>4, <2>1 DEF Unmapped
  <1> QED BY <1>3, <1>4

LEMMA UnmapTableSound ==
    ASSUME NEW m, Sound(m, {}), NEW e \in Envs, NEW t, NEW m2, m2 = UnmapTable(m, e, t)
    PROVE  Unmapped(m, m2, e, t, NVA)
  <1>1. PICK a : /\ a[0] = m /\ a[NVA] = m2
                 /\ \A n \in 0..(NVA - 1) : a[n + 1] = UnmapEntry(a[n], e, t, n)
    BY UnmapRounds
  <1> DEFINE S == {n \in 0..NVA : Unmapped(m, a[n], e, t, n)}
  <1>2. NVA \in Nat
    BY MemoryAssumption
  <1>3. 0 \in S
    <2>1. \A v \in VAs : ~ (v < 0)
      BY TableOfVa
    <2> QED BY <1>1, <1>2, <2>1 DEF Unmapped
  <1>4. ASSUME NEW n \in 0..(NVA - 1), n \in S
        PROVE  n + 1 \in S
    <2>1. n \in VAs /\ n + 1 \in 0..NVA
      BY <1>2 DEF VAs
    <2>2. Unmapped(m, a[n + 1], e, t, n + 1)
      BY <1>1, <1>4, <2>1, UnmapRound
    <2> QED BY <2>1, <2>2
  <1>5. NVA \in S
    <2> HIDE DEF S
    <2> QED BY <1>2, <1>3, <1>4, Rounds
  <1> QED BY <1>1, <1>5

(* One page table goes. *)
LEMMA FreeTableSound ==
    ASSUME NEW m, Sound(m, {}), NEW e \in Envs, NEW t \in PDXs, NEW m2, m2 = FreeTable(m, e, t)
    PROVE  /\ Sound(m2, {}) /\ m2.pgdir = m.pgdir /\ m2.pde[e][t] = NULL
           /\ \A f \in Envs, s \in PDXs : f # e \/ s # t => m2.pde[f][s] = m.pde[f][s]
           /\ \A f \in Envs, v \in VAs : f # e => m2.pte[f][v] = m.pte[f][v]
  <1>1. CASE m.pde[e][t] = NULL
    <2>1. m2 = m
      BY <1>1 DEF FreeTable
    <2> QED BY ONLY <1>1, <2>1, Sound(m, {})
  <1>2. CASE m.pde[e][t] # NULL
    <2>1. PICK p \in Pages : p = m.pde[e][t]
      BY <1>2, MemFields DEF Sound
    <2>2. PICK m1 : m1 = UnmapTable(m, e, t)
      OBVIOUS
    <2>3. Unmapped(m, m1, e, t, NVA)
      BY <2>2, UnmapTableSound
    <2>4. /\ Sound(m1, {}) /\ m1.pgdir = m.pgdir /\ m1.pde = m.pde
          /\ \A v \in VAs : PDX(v) = t => m1.pte[e][v] = NoMap
          /\ \A f \in Envs, v \in VAs : f # e => m1.pte[f][v] = m.pte[f][v]
      <3>1. \A v \in VAs : v < NVA
        BY MemoryAssumption DEF VAs
      <3> QED BY ONLY <2>3, <3>1 DEF Unmapped
    <2>5. PICK m3 : m3 = WithTable(m1, e, t, NULL)
      OBVIOUS
    <2>6. m1 \in MemType /\ Walked(m1) /\ NULL \in Pages \cup {NULL} /\ NULL \notin Pages
      BY <2>4, MemoryAssumption DEF Sound
    <2>7. /\ m3 \in MemType /\ m3.pde[e][t] = NULL
          /\ \A f \in Envs, s \in PDXs : f # e \/ s # t => m3.pde[f][s] = m1.pde[f][s]
          /\ m3.ref = m1.ref /\ m3.free = m1.free /\ m3.bad = m1.bad
          /\ m3.pgdir = m1.pgdir /\ m3.pte = m1.pte
      BY ONLY <2>5, <2>6, SetTable, e \in Envs, t \in PDXs
    <2>8. m2 = page_decref(m3, p)
      BY <1>2, <2>1, <2>2, <2>5 DEF FreeTable, WithTable
    <2>9. /\ m2 \in MemType
          /\ m2.ref[p] = (m3.ref[p] - 1) % REFMOD
          /\ \A q \in Pages : q # p => m2.ref[q] = m3.ref[q]
          /\ IF m2.ref[p] = 0 THEN m2.free = <<p>> \o m3.free /\ (m2.bad <=> m3.bad \/ OnList(m3, p))
             ELSE m2.free = m3.free /\ m2.bad = m3.bad
          /\ m2.pgdir = m3.pgdir /\ m2.pde = m3.pde /\ m2.pte = m3.pte
      BY <2>7, <2>8, DecrefFields
    <2>10. /\ m2.ref[p] = (m1.ref[p] - 1) % REFMOD
           /\ \A q \in Pages : q # p => m2.ref[q] = m1.ref[q]
           /\ IF m2.ref[p] = 0 THEN m2.free = <<p>> \o m1.free /\ (m2.bad <=> m1.bad \/ OnList(m1, p))
              ELSE m2.free = m1.free /\ m2.bad = m1.bad
      <3>1. OnList(m3, p) <=> OnList(m1, p)
        BY ONLY <2>7 DEF OnList
      <3> QED BY ONLY <2>7, <2>9, <3>1
    <2>11. /\ m2.pgdir = m1.pgdir /\ m2.pte = m1.pte /\ m2.pde[e][t] = NULL
           /\ \A f \in Envs, s \in PDXs : f # e \/ s # t => m2.pde[f][s] = m1.pde[f][s]
      BY ONLY <2>7, <2>9
    <2>12. ASSUME NEW q \in Pages
           PROVE  /\ RefsIn(m1, q) \in Nat
                  /\ RefsIn(m2, q) = IF q = p THEN RefsIn(m1, q) - 1 ELSE RefsIn(m1, q)
                  /\ q = p => RefsIn(m1, q) > 0
      <3>1. SameButTable(m1, m2, e, t)
        BY <2>11 DEF SameButTable
      <3>2. /\ RefsIn(m1, q) \in Nat
            /\ RefsIn(m2, q) = RefsIn(m1, q) - One(TableAt(m1, e, t) = q)
                                             + One(TableAt(m2, e, t) = q)
            /\ TableAt(m1, e, t) = q => RefsIn(m1, q) > 0
        BY ONLY <3>1, TableChange, e \in Envs, t \in PDXs, q \in Pages DEF One
      <3>3. TableAt(m1, e, t) = p /\ TableAt(m2, e, t) # q
        BY ONLY <2>1, <2>4, <2>6, <2>11, q \in Pages DEF TableAt
      <3> QED BY ONLY <3>2, <3>3 DEF One
    <2>13. Walked(m2)
      <3> SUFFICES ASSUME NEW f \in Envs, NEW v \in VAs, m2.pte[f][v] # NoMap
                   PROVE  m2.pde[f][PDX(v)] # NULL
        BY DEF Walked
      <3>1. m1.pde[f][PDX(v)] # NULL /\ PDX(v) \in PDXs
        BY <2>6, <2>11, TableOfVa DEF Walked
      <3>2. f # e \/ PDX(v) # t
        BY <2>4, <2>11
      <3> QED BY ONLY <2>11, <3>1, <3>2, f \in Envs
    <2>14. Sound(m2, {})
      BY ONLY <2>4, <2>9, <2>10, <2>12, <2>13, LoseRef, p \in Pages
    <2> QED BY ONLY <2>4, <2>11, <2>14
  <1> QED BY <1>1, <1>2

(* The rounds of the loop over the page tables. *)
LEMMA FreeRounds ==
    ASSUME NEW m, NEW e
    PROVE  \E a : /\ a[0] = m /\ a[NTABLES] = FreeTables(m, e)
                  /\ \A n \in 0..(NTABLES - 1) : a[n + 1] = FreeTable(a[n], e, n)
  <1> DEFINE F(g, k) ==
                 [n \in 0..k |-> IF n = 0 THEN m ELSE FreeTable(g[n - 1], e, n - 1)]
             S == {k \in 0..NTABLES : \E g : g = F(g, k)}
  <1>0. NTABLES \in Nat
    BY TablesAre
  <1>1. 0 \in S
    <2>1. PICK g : g = [n \in 0..0 |-> m]
      OBVIOUS
    <2>2. g = F(g, 0)
      BY <2>1
    <2> QED BY <1>0, <2>2
  <1>2. ASSUME NEW k \in 0..(NTABLES - 1), k \in S
        PROVE  k + 1 \in S
    <2>1. PICK g : g = F(g, k)
      BY <1>2
    <2>2. PICK h : h = [n \in 0..(k + 1) |-> IF n = k + 1 THEN FreeTable(g[k], e, k)
                                            ELSE g[n]]
      OBVIOUS
    <2>3. k \in Nat /\ k + 1 \in 0..NTABLES
      BY <1>0
    <2>4. \A n \in 0..k : h[n] = g[n]
      BY <2>2, <2>3
    <2>5. ASSUME NEW n \in 0..(k + 1)
          PROVE  h[n] = IF n = 0 THEN m ELSE FreeTable(h[n - 1], e, n - 1)
      <3>1. CASE n = k + 1
        <4>1. h[n] = FreeTable(g[k], e, k)
          BY <2>2, <3>1
        <4>2. n # 0 /\ n - 1 = k /\ k \in 0..k
          BY <2>3, <3>1
        <4> QED BY <2>4, <4>1, <4>2
      <3>2. CASE n # k + 1
        <4>1. n \in 0..k /\ (n # 0 => n - 1 \in 0..k)
          BY <2>3, <3>2
        <4>2. g[n] = IF n = 0 THEN m ELSE FreeTable(g[n - 1], e, n - 1)
          BY <2>1, <4>1
        <4> QED BY <2>4, <4>1, <4>2
      <3> QED BY <3>1, <3>2
    <2>6. h = [n \in 0..(k + 1) |-> h[n]]
      BY <2>2
    <2>7. h = F(h, k + 1)
      BY <2>5, <2>6
    <2> QED BY <2>3, <2>7
  <1>3. NTABLES \in S
    <2> HIDE DEF S
    <2> QED BY <1>0, <1>1, <1>2, Rounds
  <1>4. \E g : g = F(g, NTABLES)
    BY <1>3
  <1>5. PICK a : a = CHOOSE g : g = F(g, NTABLES)
    OBVIOUS
  <1>6. a = F(a, NTABLES)
    BY <1>4, <1>5
  <1>7. FreeTables(m, e) = a[NTABLES]
    BY <1>5 DEF FreeTables
  <1>8. a[0] = m
    BY <1>0, <1>6
  <1>9. ASSUME NEW n \in 0..(NTABLES - 1)
        PROVE  a[n + 1] = FreeTable(a[n], e, n)
    <2>1. n + 1 \in 0..NTABLES /\ n + 1 # 0 /\ (n + 1) - 1 = n
      BY <1>0
    <2> QED BY <1>6, <2>1
  <1> QED BY <1>7, <1>8, <1>9

(* After n rounds of the loop over the page tables of e. *)
Freed(m, m2, e, n) ==
    /\ Sound(m2, {}) /\ m2.pgdir = m.pgdir
    /\ \A s \in PDXs : s < n => m2.pde[e][s] = NULL
    /\ \A f \in Envs, s \in PDXs : f # e => m2.pde[f][s] = m.pde[f][s]
    /\ \A f \in Envs, v \in VAs : f # e => m2.pte[f][v] = m.pte[f][v]

LEMMA FreeTablesSound ==
    ASSUME NEW m, Sound(m, {}), NEW e \in Envs, NEW m2, m2 = FreeTables(m, e)
    PROVE  Freed(m, m2, e, NTABLES)
  <1>1. PICK a : /\ a[0] = m /\ a[NTABLES] = m2
                 /\ \A n \in 0..(NTABLES - 1) : a[n + 1] = FreeTable(a[n], e, n)
    BY FreeRounds
  <1> DEFINE S == {n \in 0..NTABLES : Freed(m, a[n], e, n)}
  <1>2. NTABLES \in Nat /\ \A s \in PDXs : s \in Nat
    BY TablesAre
  <1>3. 0 \in S
    <2>1. \A s \in PDXs : ~ (s < 0)
      BY <1>2
    <2> QED BY <1>1, <1>2, <2>1 DEF Freed
  <1>4. ASSUME NEW n \in 0..(NTABLES - 1), n \in S
        PROVE  n + 1 \in S
    <2>1. n \in PDXs /\ n + 1 \in 0..NTABLES /\ \A s \in PDXs : s < n + 1 => s < n \/ s = n
      BY <1>2, TablesAre
    <2>2. PICK x, y : x = a[n] /\ y = a[n + 1]
      OBVIOUS
    <2>3. y = FreeTable(x, e, n)
      BY <1>1, <2>2
    <2>4. Freed(m, x, e, n)
      BY <1>4, <2>2
    <2>5. /\ Sound(y, {}) /\ y.pgdir = x.pgdir /\ y.pde[e][n] = NULL
          /\ \A f \in Envs, s \in PDXs : f # e \/ s # n => y.pde[f][s] = x.pde[f][s]
          /\ \A f \in Envs, v \in VAs : f # e => y.pte[f][v] = x.pte[f][v]
      <3>1. Sound(x, {})
        BY <2>4 DEF Freed
      <3> QED BY ONLY <2>1, <2>3, <3>1, FreeTableSound, e \in Envs
    <2>6. Freed(m, y, e, n + 1)
      BY ONLY <2>1, <2>4, <2>5, e \in Envs DEF Freed
    <2> QED BY <2>1, <2>2, <2>6
  <1>5. NTABLES \in S
    <2> HIDE DEF S
    <2> QED BY <1>2, <1>3, <1>4, Rounds
  <1> QED BY <1>1, <1>5

(* Environment e holds no page directory, page table or page. *)
HoldsNothing(m, e) ==
    /\ m.pgdir[e] = NULL
    /\ \A t \in PDXs : m.pde[e][t] = NULL
    /\ \A va \in VAs : m.pte[e][va] = NoMap

(* env_free() gives back all that e holds, and nothing else. *)
LEMMA FreeSound ==
    ASSUME NEW m, Sound(m, {}), NEW e \in Envs, m.pgdir[e] # NULL, NEW m2, m2 = env_free(m, e)
    PROVE  /\ Sound(m2, {}) /\ HoldsNothing(m2, e)
           /\ \A f \in Envs : f # e => m2.pgdir[f] = m.pgdir[f]
           /\ \A f \in Envs, s \in PDXs : f # e => m2.pde[f][s] = m.pde[f][s]
           /\ \A f \in Envs, v \in VAs : f # e => m2.pte[f][v] = m.pte[f][v]
  <1>1. PICK p \in Pages : p = m.pgdir[e]
    BY MemFields DEF Sound
  <1>2. PICK m1 : m1 = FreeTables(m, e)
    OBVIOUS
  <1>3. /\ Sound(m1, {}) /\ m1.pgdir = m.pgdir
        /\ \A t \in PDXs : m1.pde[e][t] = NULL
        /\ \A f \in Envs, s \in PDXs : f # e => m1.pde[f][s] = m.pde[f][s]
        /\ \A f \in Envs, v \in VAs : f # e => m1.pte[f][v] = m.pte[f][v]
    <2>1. Freed(m, m1, e, NTABLES)
      BY <1>2, FreeTablesSound
    <2>2. \A s \in PDXs : s < NTABLES
      BY TablesAre
    <2> QED BY ONLY <2>1, <2>2 DEF Freed
  <1>4. PICK m3 : m3 = WithDir(m1, e, NULL)
    OBVIOUS
  <1>5. m1 \in MemType /\ Walked(m1) /\ NULL \in Pages \cup {NULL} /\ NULL \notin Pages
    BY <1>3, MemoryAssumption DEF Sound
  <1>6. /\ m3 \in MemType
        /\ m3.pgdir[e] = NULL /\ \A f \in Envs : f # e => m3.pgdir[f] = m1.pgdir[f]
        /\ m3.ref = m1.ref /\ m3.free = m1.free /\ m3.bad = m1.bad
        /\ m3.pde = m1.pde /\ m3.pte = m1.pte
    BY ONLY <1>4, <1>5, SetDir, e \in Envs
  <1>7. m2 = page_decref(m3, p)
    BY <1>1, <1>2, <1>4 DEF env_free, WithDir
  <1>8. /\ m2 \in MemType
        /\ m2.ref[p] = (m3.ref[p] - 1) % REFMOD
        /\ \A q \in Pages : q # p => m2.ref[q] = m3.ref[q]
        /\ IF m2.ref[p] = 0 THEN m2.free = <<p>> \o m3.free /\ (m2.bad <=> m3.bad \/ OnList(m3, p))
           ELSE m2.free = m3.free /\ m2.bad = m3.bad
        /\ m2.pgdir = m3.pgdir /\ m2.pde = m3.pde /\ m2.pte = m3.pte
    BY <1>6, <1>7, DecrefFields
  <1>9. /\ m2.ref[p] = (m1.ref[p] - 1) % REFMOD
        /\ \A q \in Pages : q # p => m2.ref[q] = m1.ref[q]
        /\ IF m2.ref[p] = 0 THEN m2.free = <<p>> \o m1.free /\ (m2.bad <=> m1.bad \/ OnList(m1, p))
           ELSE m2.free = m1.free /\ m2.bad = m1.bad
    <2>1. OnList(m3, p) <=> OnList(m1, p)
      BY ONLY <1>6 DEF OnList
    <2> QED BY ONLY <1>6, <1>8, <2>1
  <1>10. /\ m2.pde = m1.pde /\ m2.pte = m1.pte /\ m2.pgdir[e] = NULL
         /\ \A f \in Envs : f # e => m2.pgdir[f] = m1.pgdir[f]
    BY ONLY <1>6, <1>8
  <1>11. ASSUME NEW q \in Pages
         PROVE  /\ RefsIn(m1, q) \in Nat
                /\ RefsIn(m2, q) = IF q = p THEN RefsIn(m1, q) - 1 ELSE RefsIn(m1, q)
                /\ q = p => RefsIn(m1, q) > 0
    <2>1. SameButDir(m1, m2, e)
      BY <1>10 DEF SameButDir
    <2>2. /\ RefsIn(m1, q) \in Nat
          /\ RefsIn(m2, q) = RefsIn(m1, q) - One(m1.pgdir[e] = q) + One(m2.pgdir[e] = q)
          /\ m1.pgdir[e] = q => RefsIn(m1, q) > 0
      BY ONLY <2>1, DirChange, e \in Envs, q \in Pages DEF One
    <2>3. m1.pgdir[e] = p /\ m2.pgdir[e] # q
      BY ONLY <1>1, <1>3, <1>5, <1>10, q \in Pages
    <2> QED BY ONLY <2>2, <2>3 DEF One
  <1>12. Walked(m2)
    BY <1>5, <1>10 DEF Walked
  <1>13. Sound(m2, {})
    BY ONLY <1>3, <1>8, <1>9, <1>11, <1>12, LoseRef, p \in Pages
  <1>14. HoldsNothing(m2, e)
    <2>1. \A t \in PDXs : m2.pde[e][t] = NULL
      BY ONLY <1>3, <1>10
    <2>2. \A va \in VAs : m2.pte[e][va] = NoMap
      BY <1>12, <2>1, TableOfVa DEF Walked
    <2> QED BY <1>10, <2>1, <2>2 DEF HoldsNothing
  <1> QED BY ONLY <1>3, <1>10, <1>13, <1>14

-----------------------------------------------------------------------------
(* The initial state *)

(* A free list of all pages but page 0 has every one of them. *)
LEMMA OrderComplete ==
    ASSUME NEW order \in FreeOrders
    PROVE  /\ order \in Seq(Pages)
           /\ \A p \in Pages : (\E n \in 1..Len(order) : order[n] = p) <=> p # Page0
           /\ \A n, k \in 1..Len(order) : order[n] = order[k] => n = k
  <1>1. PICK R : R = Pages \ {Page0}
    OBVIOUS
  <1>2. IsFiniteSet(R) /\ Cardinality(R) = Cardinality(Pages) - 1 /\ Cardinality(R) \in Nat
    BY <1>1, MemoryAssumption, FS_RemoveElement, FS_CardinalityType
  <1>3. PICK n \in Nat : n = Cardinality(R) /\ n = Cardinality(Pages) - 1
    BY <1>2
  <1>4. order \in [1..n -> R] /\ \A i, j \in 1..n : order[i] = order[j] => i = j
    BY <1>1, <1>3 DEF FreeOrders
  <1>5. order \in Injection(1..n, R)
    BY <1>4 DEF Injection, IsInjective
  <1>6. IsFiniteSet(1..n) /\ Cardinality(1..n) = n
    <2>1. 1 \in Int /\ n \in Int
      OBVIOUS
    <2>2. /\ IsFiniteSet(1..n)
          /\ Cardinality(1..n) = IF 1 > n THEN 0 ELSE n - 1 + 1
      BY <2>1, FS_Interval
    <2> QED BY <2>2
  <1>7. order \in Surjection(1..n, R)
    BY <1>2, <1>3, <1>5, <1>6, FS_Injection
  <1>8. \A p \in R : \E k \in 1..n : order[k] = p
    BY <1>7 DEF Surjection
  <1>9. order \in Seq(Pages) /\ Len(order) = n
    <2>1. order \in [1..n -> Pages]
      BY <1>1, <1>4
    <2>2. order \in Seq(Pages)
      BY ONLY <2>1, n \in Nat, SeqDef
    <2> QED BY ONLY <2>1, <2>2, n \in Nat, LenProperties
  <1> QED BY <1>1, <1>4, <1>8, <1>9

(* Nothing refers to a page but the kernel to page 0. *)
LEMMA NothingHeld ==
    ASSUME NEW m, \A e \in Envs : HoldsNothing(m, e)
    PROVE  \A p \in Pages : RefsIn(m, p) = IF p = Page0 THEN 1 ELSE 0
  <1> SUFFICES ASSUME NEW p \in Pages
               PROVE  RefsIn(m, p) = IF p = Page0 THEN 1 ELSE 0
    OBVIOUS
  <1>1. p # NULL
    BY MemoryAssumption
  <1>2. DirRefs(m, p) = {}
    BY <1>1 DEF DirRefs, HoldsNothing
  <1>3. TableRefs(m, p) = {}
    BY <1>1 DEF TableRefs, HoldsNothing
  <1>4. EntryRefs(m, p) = {}
    BY <1>1 DEF EntryRefs, HoldsNothing, NoMap
  <1> QED BY <1>2, <1>3, <1>4, FS_EmptySet DEF RefsIn

LEMMA InitInv == MemInit => IInv
  <1> SUFFICES ASSUME MemInit PROVE IInv
    OBVIOUS
  <1>1. PICK order \in FreeOrders :
           mem = [ref   |-> [p \in Pages |-> IF p = Page0 THEN 1 ELSE 0],
                  free  |-> order,
                  pgdir |-> [e \in Envs |-> NULL],
                  pde   |-> [e \in Envs |-> [t \in PDXs |-> NULL]],
                  pte   |-> [e \in Envs |-> [va \in VAs |-> NoMap]],
                  bad   |-> FALSE]
    BY DEF MemInit
  <1>2. /\ order \in Seq(Pages)
        /\ \A p \in Pages : (\E n \in 1..Len(order) : order[n] = p) <=> p # Page0
        /\ \A n, k \in 1..Len(order) : order[n] = order[k] => n = k
    BY OrderComplete
  <1>3. live = {} /\ on = [c \in CPUs |-> NULL] /\ tlb = [c \in CPUs |-> NoTlb] /\ panicked = FALSE
    BY DEF MemInit, Init
  <1>4. /\ mem.ref = [p \in Pages |-> IF p = Page0 THEN 1 ELSE 0] /\ mem.free = order
        /\ mem.bad = FALSE
    BY <1>1
  <1>5. \A e \in Envs : HoldsNothing(mem, e)
    BY <1>1 DEF HoldsNothing
  <1>6. mem \in MemType
    <2>1. [p \in Pages |-> IF p = Page0 THEN 1 ELSE 0] \in [Pages -> 0..(REFMOD - 1)]
      BY MemoryAssumption
    <2>2. [e \in Envs |-> NULL] \in [Envs -> Pages \cup {NULL}]
      OBVIOUS
    <2>3. [e \in Envs |-> [t \in PDXs |-> NULL]] \in [Envs -> [PDXs -> Pages \cup {NULL}]]
      OBVIOUS
    <2>4. [e \in Envs |-> [va \in VAs |-> NoMap]] \in [Envs -> [VAs -> Ptes]]
      BY DEF Ptes
    <2> QED BY <1>1, <1>2, <2>1, <2>2, <2>3, <2>4 DEF MemType
  <1>7. Counted(mem)
    BY <1>4, <1>5, NothingHeld DEF Counted
  <1>8. ListExact(mem, {})
    <2>1. \A p \in Pages : mem.ref[p] = 0 <=> p # Page0
      BY <1>4
    <2>2. \A p \in Pages : OnList(mem, p) <=> p # Page0
      BY <1>2, <1>4 DEF OnList
    <2>3. \A n, k \in 1..Len(mem.free) : mem.free[n] = mem.free[k] => n = k
      BY <1>2, <1>4
    <2> QED BY <2>1, <2>2, <2>3 DEF ListExact
  <1>9. Walked(mem)
    BY <1>5 DEF Walked, HoldsNothing
  <1>10. Sound(mem, {})
    BY <1>4, <1>6, <1>7, <1>8, <1>9 DEF Sound
  <1>11. tlb \in [CPUs -> [VAs -> Ptes]] /\ on \in [CPUs -> Envs \cup {NULL}]
    <2>1. NoTlb \in [VAs -> Ptes]
      BY DEF NoTlb, Ptes
    <2> QED BY <1>3, <2>1
  <1>12. TypeOK
    BY <1>3, <1>6, <1>11 DEF TypeOK
  <1>13. OneCpu /\ LiveHaveDir
    BY <1>3 DEF OneCpu, LiveHaveDir
  <1>14. DeadHoldNothing
    BY <1>5 DEF DeadHoldNothing, HoldsNothing
  <1>15. TlbCoherent
    BY <1>3 DEF TlbCoherent, NoTlb
  <1> QED BY <1>3, <1>10, <1>12, <1>13, <1>14, <1>15 DEF IInv

-----------------------------------------------------------------------------
(* The steps *)

(* What a CPU that leaves the kernel has to have kept: the living have page *)
(* directories, the dead hold nothing, and what the other CPUs run has the  *)
(* page tables it had.                                                      *)
LEMMA LeaveInv ==
    ASSUME IInv, NEW c \in CPUs, NEW m, Leave(c, m), Sound(m, {}),
           live' \subseteq Envs, on' \in [CPUs -> Envs \cup {NULL}], OneCpu',
           \A e \in live' : m.pgdir[e] # NULL,
           \A e \in Envs \ live' : HoldsNothing(m, e),
           \A d \in CPUs : d # c => on'[d] = on[d],
           \A d \in CPUs, va \in VAs : d # c /\ on[d] # NULL =>
                                           m.pte[on[d]][va] = mem.pte[on[d]][va]
    PROVE  IInv'
  <1>1. mem' = m /\ tlb' = [tlb EXCEPT ![c] = NoTlb] /\ panicked' = m.bad
    BY DEF Leave
  <1>2. m \in MemType /\ m.bad = FALSE
    BY MemFields DEF Sound
  <1>3. NoTlb \in [VAs -> Ptes] /\ \A va \in VAs : NoTlb[va] = NoMap
    BY DEF NoTlb, Ptes
  <1>4. tlb \in [CPUs -> [VAs -> Ptes]]
    BY DEF IInv, TypeOK
  <1>5. tlb' \in [CPUs -> [VAs -> Ptes]] /\ tlb'[c] = NoTlb /\ \A d \in CPUs : d # c => tlb'[d] = tlb[d]
    BY ONLY <1>1, <1>3, <1>4, c \in CPUs
  <1>6. TypeOK' /\ ~ panicked'
    BY <1>1, <1>2, <1>5 DEF TypeOK
  <1>7. Sound(mem, {})'
    BY <1>1 DEF Sound, Counted, ListExact, OnList, Walked, RefsIn, DirRefs, TableRefs, EntryRefs
  <1>8. LiveHaveDir'
    BY <1>1 DEF LiveHaveDir
  <1>9. DeadHoldNothing'
    BY <1>1 DEF DeadHoldNothing, HoldsNothing
  <1>10. TlbCoherent'
    <2> SUFFICES ASSUME NEW d \in CPUs, NEW va \in VAs, tlb'[d][va] # NoMap
                 PROVE  on'[d] # NULL /\ m.pte[on'[d]][va] = tlb'[d][va]
      BY <1>1 DEF TlbCoherent
    <2>1. d # c
      BY <1>3, <1>5
    <2>2. tlb'[d] = tlb[d] /\ on'[d] = on[d]
      BY <1>5, <2>1
    <2>3. on[d] # NULL /\ mem.pte[on[d]][va] = tlb[d][va]
      BY <2>2 DEF IInv, TlbCoherent
    <2> QED BY <2>1, <2>2, <2>3
  <1> QED BY <1>6, <1>7, <1>8, <1>9, <1>10 DEF IInv

(* What the invariant says of the parts of the state. *)
LEMMA InvFacts ==
    ASSUME IInv
    PROVE  /\ live \subseteq Envs /\ on \in [CPUs -> Envs \cup {NULL}]
           /\ Sound(mem, {}) /\ mem \in MemType /\ OneCpu
           /\ \A e \in live : mem.pgdir[e] # NULL
           /\ \A e \in Envs \ live : HoldsNothing(mem, e)
           /\ \A c \in CPUs : on[c] # NULL => on[c] \in live
           /\ NULL \notin Envs
  BY MemoryAssumption DEF IInv, TypeOK, OneCpu, Sound, LiveHaveDir, DeadHoldNothing,
     HoldsNothing

LEMMA CreateStep ==
    ASSUME IInv, NEW c \in CPUs, NEW e \in Envs, MemCreate(c, e)
    PROVE  IInv'
  <1>1. /\ live \subseteq Envs /\ on \in [CPUs -> Envs \cup {NULL}]
        /\ Sound(mem, {}) /\ OneCpu
        /\ \A f \in live : mem.pgdir[f] # NULL
        /\ \A f \in Envs \ live : HoldsNothing(mem, f)
        /\ \A d \in CPUs : on[d] # NULL => on[d] \in live
    BY InvFacts
  <1>2. e \notin live /\ live' = live \cup {e} /\ on' = on /\ mem.free # <<>>
    BY DEF MemCreate, Create
  <1>3. PICK m : m = env_setup_vm(mem, e)
    OBVIOUS
  <1>4. Leave(c, m)
    BY <1>3 DEF MemCreate
  <1>5. mem.pgdir[e] = NULL
    BY <1>1, <1>2 DEF HoldsNothing
  <1>6. /\ Sound(m, {}) /\ m.pgdir[e] \in Pages
        /\ \A f \in Envs : f # e => m.pgdir[f] = mem.pgdir[f]
        /\ m.pde = mem.pde /\ m.pte = mem.pte
    BY <1>1, <1>2, <1>3, <1>5, SetupSound
  <1>7. live' \subseteq Envs /\ on' \in [CPUs -> Envs \cup {NULL}] /\ OneCpu'
    BY <1>1, <1>2 DEF OneCpu
  <1>8. \A f \in live' : m.pgdir[f] # NULL
    BY <1>1, <1>2, <1>6, MemoryAssumption
  <1>9. \A f \in Envs \ live' : HoldsNothing(m, f)
    BY <1>1, <1>2, <1>6 DEF HoldsNothing
  <1>10. \A d \in CPUs : d # c => on'[d] = on[d]
    BY <1>2
  <1>11. \A d \in CPUs, va \in VAs : d # c /\ on[d] # NULL => m.pte[on[d]][va] = mem.pte[on[d]][va]
    BY <1>6
  <1> QED BY ONLY IInv, c \in CPUs, <1>4, <1>6, <1>7, <1>8, <1>9, <1>10, <1>11, LeaveInv

LEMMA SwitchStep ==
    ASSUME IInv, NEW c \in CPUs, NEW e \in Envs \cup {NULL}, MemSwitch(c, e)
    PROVE  IInv'
  <1>1. /\ live \subseteq Envs /\ on \in [CPUs -> Envs \cup {NULL}]
        /\ Sound(mem, {}) /\ OneCpu
        /\ \A f \in live : mem.pgdir[f] # NULL
        /\ \A f \in Envs \ live : HoldsNothing(mem, f)
        /\ NULL \notin Envs
    BY InvFacts
  <1>2. /\ e \in live \cup {NULL} /\ (e \in live => \A d \in CPUs \ {c} : on[d] # e)
        /\ on' = [on EXCEPT ![c] = e] /\ live' = live
    BY DEF MemSwitch, Switch, FreeFor
  <1>3. PICK m : m = mem
    OBVIOUS
  <1>4. Leave(c, m)
    BY <1>3 DEF MemSwitch
  <1>5. on' \in [CPUs -> Envs \cup {NULL}] /\ on'[c] = e /\ \A d \in CPUs : d # c => on'[d] = on[d]
    BY <1>1, <1>2
  <1>6. OneCpu'
    BY <1>1, <1>2, <1>5 DEF OneCpu
  <1>7. /\ Sound(m, {}) /\ live' \subseteq Envs
        /\ \A f \in live' : m.pgdir[f] # NULL
        /\ \A f \in Envs \ live' : HoldsNothing(m, f)
        /\ \A d \in CPUs, va \in VAs : d # c /\ on[d] # NULL =>
                                           m.pte[on[d]][va] = mem.pte[on[d]][va]
    BY <1>1, <1>2, <1>3
  <1> QED BY ONLY IInv, c \in CPUs, <1>4, <1>5, <1>6, <1>7, LeaveInv

LEMMA KillStep ==
    ASSUME IInv, NEW c \in CPUs, NEW e \in Envs, MemKill(c, e)
    PROVE  IInv'
  <1>1. /\ live \subseteq Envs /\ on \in [CPUs -> Envs \cup {NULL}]
        /\ Sound(mem, {}) /\ mem \in MemType /\ OneCpu
        /\ \A f \in live : mem.pgdir[f] # NULL
        /\ \A f \in Envs \ live : HoldsNothing(mem, f)
    BY InvFacts
  <1>2. e \in live /\ (\A d \in CPUs : on[d] # e) /\ live' = live \ {e} /\ on' = on
    BY DEF MemKill, Kill
  <1>3. PICK m : m = env_free(mem, e)
    OBVIOUS
  <1>4. Leave(c, m)
    BY <1>3 DEF MemKill
  <1>5. /\ Sound(m, {}) /\ HoldsNothing(m, e)
        /\ \A f \in Envs : f # e => m.pgdir[f] = mem.pgdir[f]
        /\ \A f \in Envs, s \in PDXs : f # e => m.pde[f][s] = mem.pde[f][s]
        /\ \A f \in Envs, v \in VAs : f # e => m.pte[f][v] = mem.pte[f][v]
    BY <1>1, <1>2, <1>3, FreeSound
  <1>6. live' \subseteq Envs /\ on' \in [CPUs -> Envs \cup {NULL}] /\ OneCpu'
    BY <1>1, <1>2 DEF OneCpu
  <1>7. \A f \in live' : m.pgdir[f] # NULL
    BY <1>1, <1>2, <1>5
  <1>8. \A f \in Envs \ live' : HoldsNothing(m, f)
    BY <1>1, <1>2, <1>5 DEF HoldsNothing
  <1>9. \A d \in CPUs : d # c => on'[d] = on[d]
    BY <1>2
  <1>10. \A d \in CPUs, va \in VAs : d # c /\ on[d] # NULL => m.pte[on[d]][va] = mem.pte[on[d]][va]
    BY <1>1, <1>2, <1>5
  <1> QED BY ONLY IInv, c \in CPUs, <1>4, <1>5, <1>6, <1>7, <1>8, <1>9, <1>10, LeaveInv

LEMMA ExitStep ==
    ASSUME IInv, NEW c \in CPUs, NEW e \in Envs \cup {NULL}, MemExit(c, e)
    PROVE  IInv'
  <1>1. /\ live \subseteq Envs /\ on \in [CPUs -> Envs \cup {NULL}]
        /\ Sound(mem, {}) /\ mem \in MemType /\ OneCpu
        /\ \A f \in live : mem.pgdir[f] # NULL
        /\ \A f \in Envs \ live : HoldsNothing(mem, f)
        /\ NULL \notin Envs
    BY InvFacts
  <1>2. PICK g \in live : g = on[c]
    BY DEF MemExit, Exit
  <1>3. /\ \A d \in CPUs \ {c} : on[d] # g
        /\ e \in (live \ {g}) \cup {NULL} /\ (e \in live => \A d \in CPUs \ {c} : on[d] # e)
        /\ on' = [on EXCEPT ![c] = e] /\ live' = live \ {g}
    BY <1>2 DEF MemExit, Exit, FreeFor
  <1>4. PICK m : m = env_free(mem, g)
    OBVIOUS
  <1>5. Leave(c, m)
    BY <1>2, <1>4 DEF MemExit
  <1>6. /\ Sound(m, {}) /\ HoldsNothing(m, g)
        /\ \A f \in Envs : f # g => m.pgdir[f] = mem.pgdir[f]
        /\ \A f \in Envs, s \in PDXs : f # g => m.pde[f][s] = mem.pde[f][s]
        /\ \A f \in Envs, v \in VAs : f # g => m.pte[f][v] = mem.pte[f][v]
    BY <1>1, <1>4, FreeSound
  <1>7. on' \in [CPUs -> Envs \cup {NULL}] /\ on'[c] = e /\ \A d \in CPUs : d # c => on'[d] = on[d]
    BY <1>1, <1>3
  <1>8. OneCpu'
    BY <1>1, <1>3, <1>7 DEF OneCpu
  <1>9. live' \subseteq Envs /\ \A f \in live' : m.pgdir[f] # NULL
    BY <1>1, <1>3, <1>6
  <1>10. \A f \in Envs \ live' : HoldsNothing(m, f)
    BY <1>1, <1>3, <1>6 DEF HoldsNothing
  <1>11. \A d \in CPUs, va \in VAs : d # c /\ on[d] # NULL => m.pte[on[d]][va] = mem.pte[on[d]][va]
    BY <1>1, <1>3, <1>6
  <1> QED BY ONLY IInv, c \in CPUs, <1>5, <1>6, <1>7, <1>8, <1>9, <1>10, <1>11, LeaveInv

LEMMA FillStep ==
    ASSUME IInv, NEW c \in CPUs, NEW va \in VAs, TlbFill(c, va)
    PROVE  IInv'
  <1>1. PICK x : x = mem.pte[on[c]][va]
    OBVIOUS
  <1>2. /\ on[c] # NULL /\ tlb' = [tlb EXCEPT ![c][va] = x]
        /\ live' = live /\ on' = on /\ mem' = mem /\ panicked' = panicked
    BY <1>1 DEF TlbFill
  <1>3. x \in Ptes
    BY <1>1, <1>2, InvFacts, EntryPage
  <1>4. tlb \in [CPUs -> [VAs -> Ptes]] /\ tlb[c] \in [VAs -> Ptes]
    BY DEF IInv, TypeOK
  <1>5. PICK row : row = [tlb[c] EXCEPT ![va] = x]
    OBVIOUS
  <1>6. row \in [VAs -> Ptes] /\ row[va] = x /\ \A v \in VAs : v # va => row[v] = tlb[c][v]
    BY ONLY <1>3, <1>4, <1>5, va \in VAs
  <1>7. tlb' = [tlb EXCEPT ![c] = row]
    BY <1>2, <1>5
  <1>8. /\ tlb' \in [CPUs -> [VAs -> Ptes]] /\ tlb'[c] = row
        /\ \A d \in CPUs : d # c => tlb'[d] = tlb[d]
    BY ONLY <1>4, <1>6, <1>7, c \in CPUs
  <1>9. TlbCoherent'
    BY <1>1, <1>2, <1>6, <1>8 DEF IInv, TlbCoherent
  <1>10. TypeOK' /\ ~ panicked' /\ OneCpu' /\ LiveHaveDir' /\ DeadHoldNothing'
    BY <1>2, <1>8 DEF IInv, TypeOK, OneCpu, LiveHaveDir, DeadHoldNothing
  <1>11. Sound(mem, {})'
    BY <1>2 DEF IInv, Sound, Counted, ListExact, OnList, Walked, RefsIn, DirRefs, TableRefs,
       EntryRefs
  <1> QED BY <1>9, <1>10, <1>11 DEF IInv

(* A system call that changes the address space of e, which no other CPU   *)
(* runs.                                                                    *)
LEMMA SyscallInv ==
    ASSUME IInv, NEW c \in CPUs, NEW e \in live, NEW m, Leave(c, m), Sound(m, {}),
           live' = live, on' = on, \A d \in CPUs : d # c => on[d] # e,
           m.pgdir = mem.pgdir,
           \A f \in Envs : f # e => m.pde[f] = mem.pde[f],
           \A f \in Envs, v \in VAs : f # e => m.pte[f][v] = mem.pte[f][v]
    PROVE  IInv'
  <1>1. /\ live \subseteq Envs /\ on \in [CPUs -> Envs \cup {NULL}] /\ OneCpu
        /\ \A f \in live : mem.pgdir[f] # NULL
        /\ \A f \in Envs \ live : HoldsNothing(mem, f)
        /\ \A d \in CPUs : on[d] # NULL => on[d] \in live
    BY InvFacts
  <1>2. live' \subseteq Envs /\ on' \in [CPUs -> Envs \cup {NULL}] /\ OneCpu'
    BY <1>1 DEF OneCpu
  <1>3. \A f \in live' : m.pgdir[f] # NULL
    BY <1>1
  <1>4. \A f \in Envs \ live' : HoldsNothing(m, f)
    BY <1>1 DEF HoldsNothing
  <1>5. \A d \in CPUs : d # c => on'[d] = on[d]
    OBVIOUS
  <1>6. \A d \in CPUs, va \in VAs : d # c /\ on[d] # NULL => m.pte[on[d]][va] = mem.pte[on[d]][va]
    BY <1>1
  <1> QED BY ONLY IInv, c \in CPUs, Leave(c, m), Sound(m, {}),
                  <1>2, <1>3, <1>4, <1>5, <1>6, LeaveInv

(* Only CPU c may run an environment that is quiet for it. *)
LEMMA QuietAlone ==
    ASSUME IInv, NEW c \in CPUs, NEW e \in live, Quiet(c, e)
    PROVE  \A d \in CPUs : d # c => on[d] # e
  <1>1. e # NULL
    BY InvFacts
  <1> QED BY <1>1 DEF Quiet, IInv, OneCpu

(* A mapped page is in use, and page_lookup() finds it. *)
LEMMA LookupUsable ==
    ASSUME NEW m, Sound(m, {}), NEW e \in Envs, NEW va \in VAs, m.pte[e][va] # NoMap
    PROVE  page_lookup(m, e, va) \in Pages /\ Usable(m, {}, page_lookup(m, e, va))
  <1>1. m \in MemType /\ Walked(m)
    BY DEF Sound
  <1>2. PICK p \in Pages : p = m.pte[e][va].page
    BY <1>1, EntryPage
  <1>3. page_lookup(m, e, va) = p
    BY <1>1, <1>2 DEF Walked, page_lookup, HasTable
  <1>4. SameButEntry(m, m, e, va)
    BY DEF SameButEntry
  <1>5. PageAt(m, e, va) = p => RefsIn(m, p) > 0
    BY ONLY <1>4, EntryChange, e \in Envs, va \in VAs, p \in Pages
  <1> QED BY <1>2, <1>3, <1>5 DEF PageAt, Usable

(* Mapping a page that is in use into the address space of e. *)
LEMMA InsertStep ==
    ASSUME IInv, NoOverflow', NEW c \in CPUs, NEW e \in live, NEW va \in VAs, NEW w \in BOOLEAN,
           NEW p \in Pages, NEW limbo, NEW m1, Sound(m1, limbo), Usable(m1, limbo, p),
           limbo \subseteq {p}, CanWalk(m1, e, va),
           m1.pgdir = mem.pgdir, m1.pde = mem.pde, m1.pte = mem.pte,
           Leave(c, page_insert(m1, e, p, va, w)),
           live' = live, on' = on, \A d \in CPUs : d # c => on[d] # e
    PROVE  IInv'
  <1>1. e \in Envs
    BY InvFacts
  <1>2. PICK m : m = page_insert(m1, e, p, va, w)
    OBVIOUS
  <1>3. Leave(c, m)
    BY <1>2
  <1>4. RefsIn(m, p) < REFMOD
    <2>1. mem' = m
      BY <1>3 DEF Leave
    <2>2. RefsIn(mem', p) < REFMOD
      BY DEF NoOverflow, Refs, RefsIn, DirRefs, TableRefs, EntryRefs
    <2> QED BY <2>1, <2>2
  <1>5. Sound(m, limbo \ {p}) /\ OnlyAt(m1, m, e, va)
    BY ONLY Sound(m1, limbo), Usable(m1, limbo, p), CanWalk(m1, e, va), <1>1, <1>2, <1>4,
            va \in VAs, w \in BOOLEAN, p \in Pages, InsertSound
  <1>6. limbo \ {p} = {}
    OBVIOUS
  <1>7. /\ Sound(m, {}) /\ m.pgdir = mem.pgdir
        /\ \A f \in Envs : f # e => m.pde[f] = mem.pde[f]
        /\ \A f \in Envs, v \in VAs : f # e => m.pte[f][v] = mem.pte[f][v]
    BY <1>5, <1>6 DEF OnlyAt
  <1> QED BY ONLY IInv, c \in CPUs, e \in live, <1>3, <1>7, live' = live, on' = on,
                  \A d \in CPUs : d # c => on[d] # e, SyscallInv

LEMMA AllocStep ==
    ASSUME IInv, NoOverflow', LibAlloc
    PROVE  IInv'
  <1>1. PICK c \in CPUs, e \in Envs, va \in VAs, w \in BOOLEAN :
           Quiet(c, e) /\ sys_page_alloc(c, e, va, w)
    BY DEF LibAlloc
  <1>2. e \in live /\ live' = live /\ on' = on /\ mem.free # <<>>
    BY <1>1 DEF sys_page_alloc, Syscall
  <1>3. \A d \in CPUs : d # c => on[d] # e
    BY <1>1, <1>2, QuietAlone
  <1>4. PICK p, m1 : p = FreshPage(mem) /\ m1 = page_alloc(mem)
    OBVIOUS
  <1>5. Leave(c, IF CanWalk(m1, e, va) THEN page_insert(m1, e, p, va, w) ELSE page_free(m1, p))
    BY <1>1, <1>4 DEF sys_page_alloc
  <1>6. /\ Sound(m1, {} \cup {p}) /\ p \in Pages
        /\ m1.pgdir = mem.pgdir /\ m1.pde = mem.pde /\ m1.pte = mem.pte
    BY <1>2, <1>4, InvFacts, TakePage
  <1>7. Sound(m1, {p}) /\ p \in {p}
    <2>1. {} \cup {p} = {p}
      OBVIOUS
    <2> QED BY <1>6, <2>1
  <1>8. CASE CanWalk(m1, e, va)
    <2>1. Leave(c, page_insert(m1, e, p, va, w)) /\ Usable(m1, {p}, p) /\ {p} \subseteq {p}
      BY <1>5, <1>8 DEF Usable
    <2> QED BY ONLY IInv, NoOverflow', c \in CPUs, va \in VAs, w \in BOOLEAN,
                    <1>2, <1>3, <1>6, <1>7, <1>8, <2>1, InsertStep
  <1>9. CASE ~ CanWalk(m1, e, va)
    <2>1. PICK m : m = page_free(m1, p)
      OBVIOUS
    <2>2. Leave(c, m)
      BY <1>5, <1>9, <2>1
    <2>3. /\ Sound(m, {p} \ {p})
          /\ m.pgdir = m1.pgdir /\ m.pde = m1.pde /\ m.pte = m1.pte
      BY ONLY <1>7, <2>1, GiveBack
    <2>4. {p} \ {p} = {}
      OBVIOUS
    <2>5. /\ Sound(m, {}) /\ m.pgdir = mem.pgdir
          /\ \A f \in Envs : f # e => m.pde[f] = mem.pde[f]
          /\ \A f \in Envs, v \in VAs : f # e => m.pte[f][v] = mem.pte[f][v]
      BY <1>6, <2>3, <2>4
    <2> QED BY ONLY IInv, c \in CPUs, <1>2, <1>3, <2>2, <2>5, SyscallInv
  <1> QED BY <1>8, <1>9

LEMMA MapStep ==
    ASSUME IInv, NoOverflow', LibMap
    PROVE  IInv'
  <1>1. PICK c \in CPUs, src \in Envs, dst \in Envs, srcva \in VAs, dstva \in VAs, w \in BOOLEAN :
           /\ Quiet(c, dst) /\ Mapped(src, srcva)
           /\ sys_page_map(c, src, srcva, dst, dstva, w)
    BY DEF LibMap
  <1>2. dst \in live /\ live' = live /\ on' = on
    BY <1>1 DEF sys_page_map, Syscall
  <1>3. \A d \in CPUs : d # c => on[d] # dst
    BY <1>1, <1>2, QuietAlone
  <1>4. PICK p : p = page_lookup(mem, src, srcva)
    OBVIOUS
  <1>5. CanWalk(mem, dst, dstva) /\ Leave(c, page_insert(mem, dst, p, dstva, w))
    BY <1>1, <1>4 DEF sys_page_map
  <1>6. Sound(mem, {}) /\ mem.pte[src][srcva] # NoMap
    BY <1>1, InvFacts DEF Mapped
  <1>7. p \in Pages /\ Usable(mem, {}, p)
    BY ONLY <1>1, <1>4, <1>6, LookupUsable
  <1>8. PICK m1 : m1 = mem
    OBVIOUS
  <1>9. /\ Sound(m1, {}) /\ Usable(m1, {}, p) /\ {} \subseteq {p} /\ CanWalk(m1, dst, dstva)
        /\ m1.pgdir = mem.pgdir /\ m1.pde = mem.pde /\ m1.pte = mem.pte
        /\ Leave(c, page_insert(m1, dst, p, dstva, w))
    BY <1>5, <1>6, <1>7, <1>8
  <1> QED BY ONLY IInv, NoOverflow', <1>1, <1>2, <1>3, <1>7, <1>9, InsertStep

LEMMA UnmapStep ==
    ASSUME IInv, LibUnmap
    PROVE  IInv'
  <1>1. PICK c \in CPUs, e \in Envs, va \in VAs :
           Quiet(c, e) /\ Mapped(e, va) /\ sys_page_unmap(c, e, va)
    BY DEF LibUnmap
  <1>2. e \in live /\ live' = live /\ on' = on
    BY <1>1 DEF sys_page_unmap, Syscall
  <1>3. \A d \in CPUs : d # c => on[d] # e
    BY <1>1, <1>2, QuietAlone
  <1>4. PICK m : m = page_remove(mem, e, va)
    OBVIOUS
  <1>5. Leave(c, m)
    BY <1>1, <1>4 DEF sys_page_unmap
  <1>6. Sound(mem, {}) /\ mem.pte[e][va] # NoMap
    BY <1>1, InvFacts DEF Mapped
  <1>7. /\ Sound(m, {}) /\ m.pgdir = mem.pgdir /\ m.pde = mem.pde
        /\ \A f \in Envs, v \in VAs : f # e \/ v # va => m.pte[f][v] = mem.pte[f][v]
    BY ONLY <1>1, <1>4, <1>6, RemoveSound
  <1>8. /\ \A f \in Envs : f # e => m.pde[f] = mem.pde[f]
        /\ \A f \in Envs, v \in VAs : f # e => m.pte[f][v] = mem.pte[f][v]
    BY <1>7
  <1> QED BY ONLY IInv, <1>1, <1>2, <1>3, <1>5, <1>7, <1>8, SyscallInv

LEMMA IpcStep ==
    ASSUME IInv, NoOverflow', LibIpc
    PROVE  IInv'
  <1>1. PICK c \in CPUs, e \in Envs, srcva \in VAs, dstva \in VAs, w \in BOOLEAN :
           /\ on[c] # NULL /\ Mapped(on[c], srcva)
           /\ ipc_page(c, e, srcva, dstva, w)
    BY DEF LibIpc
  <1>2. e \in live /\ live' = live /\ on' = on /\ \A d \in CPUs : on[d] # e
    BY <1>1 DEF ipc_page, Syscall
  <1>3. PICK src \in Envs : src = on[c]
    BY <1>1, InvFacts
  <1>4. PICK p : p = page_lookup(mem, src, srcva)
    OBVIOUS
  <1>5. CanWalk(mem, e, dstva) /\ Leave(c, page_insert(mem, e, p, dstva, w))
    BY <1>1, <1>3, <1>4 DEF ipc_page
  <1>6. Sound(mem, {}) /\ mem.pte[src][srcva] # NoMap
    BY <1>1, <1>3, InvFacts DEF Mapped
  <1>7. p \in Pages /\ Usable(mem, {}, p)
    BY ONLY <1>1, <1>3, <1>4, <1>6, LookupUsable
  <1>8. PICK m1 : m1 = mem
    OBVIOUS
  <1>9. /\ Sound(m1, {}) /\ Usable(m1, {}, p) /\ {} \subseteq {p} /\ CanWalk(m1, e, dstva)
        /\ m1.pgdir = mem.pgdir /\ m1.pde = mem.pde /\ m1.pte = mem.pte
        /\ Leave(c, page_insert(m1, e, p, dstva, w))
        /\ \A d \in CPUs : d # c => on[d] # e
    BY <1>2, <1>5, <1>6, <1>7, <1>8
  <1> QED BY ONLY IInv, NoOverflow', <1>1, <1>2, <1>7, <1>9, InsertStep

LEMMA NextInv ==
    ASSUME IInv, NoOverflow', [LibMemNext]_memVars
    PROVE  IInv'
  <1>1. CASE KernelMove
    <2>1. PICK c \in CPUs :
             \/ \E e \in Envs : MemCreate(c, e) \/ MemKill(c, e)
             \/ \E e \in Envs \cup {NULL} : MemSwitch(c, e) \/ MemExit(c, e)
             \/ \E va \in VAs : TlbFill(c, va)
      BY <1>1 DEF KernelMove
    <2>2. CASE \E e \in Envs : MemCreate(c, e) \/ MemKill(c, e)
      BY <2>2, CreateStep, KillStep
    <2>3. CASE \E e \in Envs \cup {NULL} : MemSwitch(c, e) \/ MemExit(c, e)
      BY <2>3, SwitchStep, ExitStep
    <2>4. CASE \E va \in VAs : TlbFill(c, va)
      BY <2>4, FillStep
    <2> QED BY <2>1, <2>2, <2>3, <2>4
  <1>2. CASE LibAlloc
    BY <1>2, AllocStep
  <1>3. CASE LibMap
    BY <1>3, MapStep
  <1>4. CASE LibUnmap
    BY <1>4, UnmapStep
  <1>5. CASE LibIpc
    BY <1>5, IpcStep
  <1>6. CASE UNCHANGED memVars
    BY <1>6 DEF memVars, IInv, TypeOK, OneCpu, Sound, Counted, ListExact, OnList, Walked,
                RefsIn, DirRefs, TableRefs, EntryRefs, LiveHaveDir, DeadHoldNothing, TlbCoherent
  <1> QED BY <1>1, <1>2, <1>3, <1>4, <1>5, <1>6 DEF LibMemNext

-----------------------------------------------------------------------------
(* The theorems *)

(***************************************************************************)
(* Memory is sound in every state that a system of programs like those of  *)
(* lib/ and user/ reaches, as long as no page has had 2^16 references: the *)
(* kernel has not panicked, counts and free list are exact, every mapping  *)
(* has its page table, the living have page directories, the dead nothing. *)
(***************************************************************************)
THEOREM MemoryInvariant == LibMemSpec /\ []NoOverflow => []IInv
  <1>1. IInv /\ NoOverflow' /\ [LibMemNext]_memVars => IInv'
    BY NextInv
  <1> QED BY InitInv, <1>1, PTL DEF LibMemSpec

(***************************************************************************)
(* pp_ref counts the references to a page exactly (kern/pmap.c).           *)
(***************************************************************************)
THEOREM CountsExact == LibMemSpec /\ []NoOverflow => []RefCountExact
  <1>1. IInv => RefCountExact
    BY DEF IInv, Sound, Counted, RefCountExact, Refs
  <1> QED BY MemoryInvariant, <1>1, PTL

(***************************************************************************)
(* page_free_list holds each page that nothing refers to once, and no      *)
(* other: nothing in use is handed out again and nothing leaks.            *)
(***************************************************************************)
THEOREM FreePagesExact == LibMemSpec /\ []NoOverflow => []FreeIffUnreferenced
  <1>1. IInv => FreeIffUnreferenced
    BY DEF IInv, Sound, Counted, ListExact, OnList, FreeIffUnreferenced, Refs
  <1> QED BY MemoryInvariant, <1>1, PTL

(***************************************************************************)
(* env_free() leaves a dead environment no page directory, page table or   *)
(* page (kern/env.c).                                                      *)
(***************************************************************************)
THEOREM DeadReturnAll == LibMemSpec /\ []NoOverflow => []DeadHoldNothing
  <1>1. IInv => DeadHoldNothing
    BY DEF IInv
  <1> QED BY MemoryInvariant, <1>1, PTL

(***************************************************************************)
(* No TLB holds a translation that the page tables do not have, since      *)
(* every way out of the kernel loads cr3.                                  *)
(***************************************************************************)
THEOREM TlbsCoherent == LibMemSpec /\ []NoOverflow => []TlbCoherent
  <1>1. IInv => TlbCoherent
    BY DEF IInv
  <1> QED BY MemoryInvariant, <1>1, PTL
=============================================================================
