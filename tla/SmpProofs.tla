----------------------------- MODULE SmpProofs -----------------------------
(***************************************************************************)
(* Proofs about Smp, for any number of CPUs and any tables: the spin lock  *)
(* excludes, its debugging checks never stop a CPU, every CPU has a stack  *)
(* and an MMIO page of its own, and the lock implements BigLock.           *)
(***************************************************************************)
EXTENDS Smp, TLAPS

LockLabels == {"lock", "lock2", "spin", "own"}
UnlockLabels == {"unlock", "unlock2", "disown", "release"}
WaitLabels == {"startup_ipi", "startup_ipi2", "wait"}
LoopLabels == {"boot_aps", "init_ipi"} \cup WaitLabels
EarlyLabels == {"mp_init", "scan", "lapic_init", "mapped"}
StartLabels == {"reset", "mpentry", "lapic_init", "mapped", "percpu", "started"}
UpLabels == LockLabels \cup UnlockLabels \cup {"kernel", "monitor", "user", "hlt", "trap_mode"}

(* The boot CPU has not begun the loop of boot_aps(). *)
BeforeLoop ==
    \/ pc[BSP] \in EarlyLabels
    \/ pc[BSP] \in LockLabels /\ ret[BSP] = "boot_aps"

(* The word says whether some CPU has the lock, and lk->cpu which one,      *)
(* except right after it was taken and right before it is freed.            *)
LockInv ==
    /\ \A c \in CPUs : Holds(c) => locked = 1
    /\ locked = 1 => \E c \in CPUs : Holds(c)
    /\ \A c \in CPUs : Holds(c) /\ pc[c] \notin {"own", "release"} => owner = c
    /\ owner # NULL => Holds(owner) /\ pc[owner] \notin {"own", "release"}

(* Where a CPU is told by its status and by where it will return to. *)
TrapInv ==
    \A c \in CPUs :
        /\ pc[c] # "panic"
        /\ pc[c] = "hlt" \/ (pc[c] \in UnlockLabels /\ ret[c] = "hlt")
              <=> cpu_status[c] = "HALTED"
        /\ pc[c] \in UnlockLabels => ret[c] \in {"user", "hlt"}
        /\ pc[c] \in LockLabels => ret[c] \in {"boot_aps", "trap_mode", "kernel"}
        /\ pc[c] \in LockLabels /\ ret[c] = "trap_mode" => frame[c] = "kernel"
        /\ pc[c] \in LockLabels /\ ret[c] = "boot_aps" => c = BSP
        /\ pc[c] \in StartLabels /\ c # BSP => ret[c] = "kernel"
        /\ pc[c] = "off" => ret[c] = "kernel"
        /\ pc[c] \in EarlyLabels /\ c = BSP => ret[c] = "boot_aps"

(* The table scan: the boot processor is the first one. *)
ScanInv ==
    /\ pc[BSP] = "scan" => table # NULL
    /\ pc[BSP] \in {"mp_init", "scan"} /\ table # NULL /\ ncpu > 0 =>
           \E i \in 1..Len(table.entries) : i < entry /\ IsProc(table.entries[i])
    /\ pc[BSP] = "mp_init" => entry = 1 /\ ncpu = 0
    /\ entry >= 1
    /\ bootcpu = BSP

(* At most one CPU is between its reset and its report, and it is the one   *)
(* boot_aps() is waiting for.                                               *)
StartInv ==
    /\ pc[BSP] \in EarlyLabels \cup LoopLabels \cup UpLabels
    /\ BeforeLoop => aps = 0
    /\ pc[BSP] \in LoopLabels \ {"boot_aps"} =>
           aps # BSP /\ aps < ncpu /\ mpentry_kstack = aps
    /\ \A c \in CPUs \ {BSP} :
        /\ pc[c] \in {"off"} \cup StartLabels \cup UpLabels
        /\ pc[c] \in StartLabels => aps = c /\ pc[BSP] \in WaitLabels
        /\ pc[c] # "off" => c < aps \/ (c = aps /\ pc[BSP] \in WaitLabels)
        /\ pc[c] \in {"off"} \cup StartLabels => cpu_status[c] = "UNUSED"

(* Every CPU is on its own stack, the boot CPU first on bootstack. *)
StackInv ==
    /\ esp[BSP] \in {BSP, BootStack}
    /\ tss[BSP] = BSP
    /\ \A c \in CPUs \ {BSP} :
        /\ esp[c] = IF pc[c] \in {"off", "reset", "mpentry"} THEN NULL ELSE c
        /\ tss[c] = IF pc[c] \in UpLabels \cup {"started"} THEN c ELSE NULL

(* The pages handed out are below base, and there are not too many. *)
MmioInv ==
    /\ \A c \in CPUs : win[c] # NULL => win[c] < base \/ (win[c] = base /\ pc[c] = "mapped")
    /\ \A c \in CPUs : pc[c] = "mapped" => win[c] = base
    /\ MmioDistinct
    /\ pc[BSP] \in EarlyLabels => base = 0
    /\ BeforeLoop \/ pc[BSP] \in LoopLabels => base <= aps + 1
    /\ pc[BSP] \in {"boot_aps", "init_ipi"} /\ aps # BSP => base <= aps
    /\ \A c \in CPUs \ {BSP} :
          pc[c] \in {"reset", "mpentry", "lapic_init", "mapped"} => base <= c

IInv == TypeOK /\ LockInv /\ TrapInv /\ ScanInv /\ StartInv /\ StackInv /\ MmioInv /\ MutualExclusion

(* mp_init keeps the invariant. *)
LEMMA mp_initStep ==
  ASSUME IInv, mp_init
  PROVE  IInv'
<1>0. mpconfig(table) => table # NULL
  BY DEF mpconfig
<1>00. /\ pc[BSP] = "mp_init"
       /\ pc' = [pc EXCEPT ![BSP] = pc'[BSP]]
       /\ pc'[BSP] \in {"scan", "lapic_init"}
       /\ pc'[BSP] = "scan" => table # NULL
       /\ ismp' \in BOOLEAN /\ lapicaddr' \in BOOLEAN /\ bootcpu' = 0
       /\ UNCHANGED <<table, entry, ncpu, base, win, aps, mpentry_kstack, esp, tss, cpu_status, frame, ret, locked, owner>>
  <2>1. CASE mpconfig(table)
    BY <1>0, <2>1, SmpAssumption DEF IInv, mp_init, Goto, CPUs, BSP, TypeOK, mapVars,
       startVars, stackVars, trapVars, lockVars
  <2>2. CASE ~mpconfig(table)
    BY <2>2, SmpAssumption DEF IInv, mp_init, Goto, CPUs, BSP, TypeOK, mapVars,
       startVars, stackVars, trapVars, lockVars
  <2>3. QED
    BY <2>1, <2>2
<1>h. \A d \in CPUs : Holds(d)' <=> Holds(d)
  BY <1>00 DEF IInv, CPUs, BSP, BootStack, Holds, HoldLabels, TypeOK
<1>1. TypeOK'
  BY <1>00, SmpAssumption DEF IInv, CPUs, BSP, BootStack, TypeOK, Labels
<1>2. LockInv'
  BY <1>00, SmpAssumption DEF IInv, CPUs, BSP, BootStack, LockInv, Holds,
     HoldLabels, MutualExclusion, TypeOK, Labels
<1>3. TrapInv'
  BY <1>00, SmpAssumption DEF IInv, CPUs, BSP, BootStack, TrapInv, TypeOK,
     LockLabels, UnlockLabels, WaitLabels, LoopLabels, EarlyLabels, StartLabels,
     UpLabels
<1>4. ScanInv'
  BY <1>00, SmpAssumption DEF IInv, CPUs, BSP, BootStack, ScanInv, TypeOK,
     Labels, StartInv, LockLabels, UnlockLabels, WaitLabels, LoopLabels,
     EarlyLabels, StartLabels, UpLabels
<1>5. StartInv'
  BY <1>00, SmpAssumption DEF IInv, CPUs, BSP, BootStack, StartInv, TypeOK,
     Labels, TrapInv, BeforeLoop, LockLabels, UnlockLabels, WaitLabels,
     LoopLabels, EarlyLabels, StartLabels, UpLabels
<1>6. StackInv'
  BY <1>00, SmpAssumption DEF IInv, CPUs, BSP, BootStack, StackInv, StartInv,
     TypeOK, Labels, TrapInv, LockLabels, UnlockLabels, WaitLabels, LoopLabels,
     EarlyLabels, StartLabels, UpLabels
<1>7. MmioInv'
  BY <1>00, SmpAssumption DEF IInv, CPUs, BSP, BootStack, MmioInv, MmioDistinct,
     StartInv, TypeOK, Labels, BeforeLoop, TrapInv, LockLabels, UnlockLabels,
     WaitLabels, LoopLabels, EarlyLabels, StartLabels, UpLabels
<1>8. MutualExclusion'
  BY <1>h DEF IInv, MutualExclusion
<1>9. QED
  BY <1>1, <1>2, <1>3, <1>4, <1>5, <1>6, <1>7, <1>8 DEF IInv

(* ScanEntry keeps the invariant. *)
LEMMA ScanEntryStep ==
  ASSUME IInv, ScanEntry
  PROVE  IInv'
<1>0. table \in Tables /\ table.entries \in Seq(EntryTypes)
  BY SmpAssumption DEF IInv, ScanEntry, Goto, CPUs, BSP, BootStack, bootVars,
     mapVars, startVars, stackVars, trapVars, lockVars, TypeOK, ScanInv
<1>00. /\ pc[BSP] = "scan"
       /\ entry \in 1..Len(table.entries)
       /\ entry' \in Nat /\ entry' > entry
       /\ ncpu' = IF IsProc(table.entries[entry]) /\ ncpu < NCPU THEN ncpu + 1 ELSE ncpu
       /\ bootcpu' = bootcpu
       /\ ismp' \in BOOLEAN
       /\ UNCHANGED <<table, lapicaddr, base, win, aps, mpentry_kstack, esp, tss, cpu_status, frame, ret, locked, owner, pc>>
  BY <1>0, SmpAssumption DEF IInv, ScanEntry, Goto, CPUs, BSP, BootStack,
     bootVars, mapVars, startVars, stackVars, trapVars, lockVars, TypeOK,
     ScanInv, IsProc
<1>1. TypeOK'
  BY <1>0, <1>00, SmpAssumption DEF IInv, CPUs, BSP, BootStack, TypeOK, Labels
<1>2. LockInv'
  BY <1>0, <1>00, SmpAssumption DEF IInv, CPUs, BSP, BootStack, LockInv, Holds,
     HoldLabels, MutualExclusion, TypeOK, Labels
<1>3. TrapInv'
  BY <1>0, <1>00, SmpAssumption DEF IInv, CPUs, BSP, BootStack, TrapInv, TypeOK,
     Labels, StartInv, LockLabels, UnlockLabels, WaitLabels, LoopLabels,
     EarlyLabels, StartLabels, UpLabels
<1>4. ScanInv'
  BY <1>0, <1>00, SmpAssumption DEF IInv, CPUs, BSP, BootStack, ScanInv, TypeOK,
     Labels, StartInv, LockLabels, UnlockLabels, WaitLabels, LoopLabels,
     EarlyLabels, StartLabels, UpLabels
<1>5. StartInv'
  BY <1>0, <1>00, SmpAssumption DEF IInv, CPUs, BSP, BootStack, StartInv,
     TypeOK, Labels, TrapInv, BeforeLoop, LockLabels, UnlockLabels, WaitLabels,
     LoopLabels, EarlyLabels, StartLabels, UpLabels
<1>6. StackInv'
  BY <1>0, <1>00, SmpAssumption DEF IInv, CPUs, BSP, BootStack, StackInv,
     StartInv, TypeOK, Labels, TrapInv, LockLabels, UnlockLabels, WaitLabels,
     LoopLabels, EarlyLabels, StartLabels, UpLabels
<1>7. MmioInv'
  BY <1>0, <1>00, SmpAssumption DEF IInv, CPUs, BSP, BootStack, MmioInv,
     MmioDistinct, StartInv, TypeOK, Labels, BeforeLoop, TrapInv, LockLabels,
     UnlockLabels, WaitLabels, LoopLabels, EarlyLabels, StartLabels, UpLabels
<1>8. MutualExclusion'
  BY <1>0, <1>00, SmpAssumption DEF IInv, CPUs, BSP, BootStack, MutualExclusion,
     LockInv, Holds, HoldLabels, TypeOK, Labels
<1>9. QED
  BY <1>1, <1>2, <1>3, <1>4, <1>5, <1>6, <1>7, <1>8 DEF IInv

(* ScanDone keeps the invariant. *)
LEMMA ScanDoneStep ==
  ASSUME IInv, ScanDone
  PROVE  IInv'
<1>0. /\ pc[BSP] = "scan"
      /\ ncpu' \in 0..NCPU
      /\ lapicaddr' \in BOOLEAN
      /\ cpu_status' = [cpu_status EXCEPT ![BSP] = "STARTED"]
      /\ pc' = [pc EXCEPT ![BSP] = "lapic_init"]
      /\ UNCHANGED <<table, entry, ismp, bootcpu, base, win, aps, mpentry_kstack, esp, tss, locked, owner, frame, ret>>
  BY SmpAssumption DEF IInv, ScanDone, Goto, CPUs, BSP, BootStack, bootVars,
     mapVars, startVars, stackVars, trapVars, lockVars, TypeOK, ScanInv
<1>1. TypeOK'
  BY <1>0, SmpAssumption DEF IInv, CPUs, BSP, BootStack, TypeOK, Labels
<1>2. LockInv'
  BY <1>0, SmpAssumption DEF IInv, CPUs, BSP, BootStack, LockInv, Holds,
     HoldLabels, MutualExclusion, TypeOK, Labels
<1>3. TrapInv'
  BY <1>0, SmpAssumption DEF IInv, CPUs, BSP, BootStack, TrapInv, TypeOK,
     Labels, StartInv, LockLabels, UnlockLabels, WaitLabels, LoopLabels,
     EarlyLabels, StartLabels, UpLabels
<1>4. ScanInv'
  BY <1>0, SmpAssumption DEF IInv, CPUs, BSP, BootStack, ScanInv, TypeOK,
     Labels, StartInv, LockLabels, UnlockLabels, WaitLabels, LoopLabels,
     EarlyLabels, StartLabels, UpLabels
<1>5. StartInv'
  BY <1>0, SmpAssumption DEF IInv, CPUs, BSP, BootStack, StartInv, TypeOK,
     Labels, TrapInv, BeforeLoop, LockLabels, UnlockLabels, WaitLabels,
     LoopLabels, EarlyLabels, StartLabels, UpLabels
<1>6. StackInv'
  BY <1>0, SmpAssumption DEF IInv, CPUs, BSP, BootStack, StackInv, StartInv,
     TypeOK, Labels, TrapInv, LockLabels, UnlockLabels, WaitLabels, LoopLabels,
     EarlyLabels, StartLabels, UpLabels
<1>7. MmioInv'
  BY <1>0, SmpAssumption DEF IInv, CPUs, BSP, BootStack, MmioInv, MmioDistinct,
     StartInv, TypeOK, Labels, BeforeLoop, TrapInv, LockLabels, UnlockLabels,
     WaitLabels, LoopLabels, EarlyLabels, StartLabels, UpLabels
<1>8. MutualExclusion'
  BY <1>0, SmpAssumption DEF IInv, CPUs, BSP, BootStack, MutualExclusion,
     LockInv, Holds, HoldLabels, TypeOK, Labels
<1>9. QED
  BY <1>1, <1>2, <1>3, <1>4, <1>5, <1>6, <1>7, <1>8 DEF IInv

(* boot_aps keeps the invariant. *)
LEMMA boot_apsStep ==
  ASSUME IInv, boot_aps
  PROVE  IInv'
<1>0. /\ pc[BSP] = "boot_aps"
      /\ UNCHANGED <<table, entry, ncpu, ismp, bootcpu, lapicaddr, base, win, esp, tss, cpu_status, frame, ret, locked, owner>>
      /\ \/ pc' = [pc EXCEPT ![BSP] = "kernel"] /\ UNCHANGED <<aps, mpentry_kstack>>
         \/ aps < ncpu /\ aps = BSP /\ aps' = 1 /\ UNCHANGED <<mpentry_kstack, pc>>
         \/ /\ aps < ncpu /\ aps # BSP /\ UNCHANGED aps
            /\ mpentry_kstack' = aps /\ aps \in CPUs
            /\ pc' = [pc EXCEPT ![BSP] = "init_ipi"]
  BY SmpAssumption DEF IInv, boot_aps, Goto, CPUs, BSP, BootStack, bootVars,
     mapVars, startVars, stackVars, trapVars, lockVars, TypeOK
<1>1. TypeOK'
  BY <1>0, SmpAssumption DEF IInv, CPUs, BSP, BootStack, TypeOK, Labels
<1>2. LockInv'
  BY <1>0, SmpAssumption DEF IInv, CPUs, BSP, BootStack, LockInv, Holds,
     HoldLabels, MutualExclusion, TypeOK, Labels
<1>3. TrapInv'
  BY <1>0, SmpAssumption DEF IInv, CPUs, BSP, BootStack, TrapInv, TypeOK,
     Labels, StartInv, LockLabels, UnlockLabels, WaitLabels, LoopLabels,
     EarlyLabels, StartLabels, UpLabels
<1>4. ScanInv'
  BY <1>0, SmpAssumption DEF IInv, CPUs, BSP, BootStack, ScanInv, TypeOK,
     Labels, StartInv, LockLabels, UnlockLabels, WaitLabels, LoopLabels,
     EarlyLabels, StartLabels, UpLabels
<1>5. StartInv'
  BY <1>0, SmpAssumption DEF IInv, CPUs, BSP, BootStack, StartInv, TypeOK,
     Labels, TrapInv, BeforeLoop, LockLabels, UnlockLabels, WaitLabels,
     LoopLabels, EarlyLabels, StartLabels, UpLabels
<1>6. StackInv'
  BY <1>0, SmpAssumption DEF IInv, CPUs, BSP, BootStack, StackInv, StartInv,
     TypeOK, Labels, TrapInv, LockLabels, UnlockLabels, WaitLabels, LoopLabels,
     EarlyLabels, StartLabels, UpLabels
<1>7. MmioInv'
  BY <1>0, SmpAssumption DEF IInv, CPUs, BSP, BootStack, MmioInv, MmioDistinct,
     StartInv, TypeOK, Labels, BeforeLoop, TrapInv, LockLabels, UnlockLabels,
     WaitLabels, LoopLabels, EarlyLabels, StartLabels, UpLabels
<1>8. MutualExclusion'
  <2>1. \A d \in CPUs : Holds(d)' <=> Holds(d)
    BY <1>0 DEF IInv, Holds, HoldLabels, TypeOK
  <2>2. QED
    BY <2>1 DEF IInv, MutualExclusion
<1>9. QED
  BY <1>1, <1>2, <1>3, <1>4, <1>5, <1>6, <1>7, <1>8 DEF IInv

(* lapic_startap keeps the invariant. *)
LEMMA lapic_startapStep ==
  ASSUME IInv, lapic_startap
  PROVE  IInv'
<1>0. /\ aps \in CPUs \ {BSP} /\ pc[BSP] \in {"init_ipi", "startup_ipi", "startup_ipi2"}
      /\ pc[aps] \in {"off"} \cup StartLabels \cup UpLabels
      /\ UNCHANGED <<table, entry, ncpu, ismp, bootcpu, lapicaddr, base, win, aps, mpentry_kstack, esp, tss, cpu_status, frame, ret, locked, owner>>
  BY SmpAssumption DEF IInv, lapic_startap, Goto, CPUs, BSP, BootStack,
     bootVars, mapVars, startVars, stackVars, trapVars, lockVars, TypeOK,
     StartInv, LoopLabels, WaitLabels
<1>00. /\ pc' = [pc EXCEPT ![BSP] = pc'[BSP], ![aps] = pc'[aps]]
       /\ pc'[BSP] \in WaitLabels
       /\ \/ pc[BSP] = "init_ipi" /\ pc[aps] = "off" /\ pc'[aps] = "reset"
          \/ pc[BSP] # "init_ipi" /\ pc[aps] = "reset" /\ pc'[aps] = "mpentry"
          \/ pc[BSP] # "init_ipi" /\ pc[aps] # "reset" /\ pc'[aps] = pc[aps]
  BY <1>0, SmpAssumption DEF IInv, lapic_startap, Goto, CPUs, BSP, BootStack,
     bootVars, mapVars, startVars, stackVars, trapVars, lockVars, TypeOK,
     StartInv, LoopLabels, WaitLabels
<1>h. \A d \in CPUs : Holds(d)' <=> Holds(d)
  BY <1>0, <1>00 DEF IInv, CPUs, BSP, BootStack, Holds, HoldLabels, TypeOK,
     WaitLabels
<1>1. TypeOK'
  BY <1>0, <1>00, SmpAssumption DEF IInv, CPUs, BSP, BootStack, TypeOK, Labels,
     LockLabels, UnlockLabels, WaitLabels, LoopLabels, EarlyLabels, StartLabels,
     UpLabels
<1>2. LockInv'
  BY <1>0, <1>00, SmpAssumption DEF IInv, CPUs, BSP, BootStack, LockInv, Holds,
     HoldLabels, MutualExclusion, TypeOK, Labels, LockLabels, UnlockLabels,
     WaitLabels, LoopLabels, EarlyLabels, StartLabels, UpLabels
<1>3. TrapInv'
  BY <1>0, <1>00, SmpAssumption DEF IInv, CPUs, BSP, BootStack, TrapInv, TypeOK,
     Labels, StartInv, LockLabels, UnlockLabels, WaitLabels, LoopLabels,
     EarlyLabels, StartLabels, UpLabels, LockLabels, UnlockLabels, WaitLabels,
     LoopLabels, EarlyLabels, StartLabels, UpLabels
<1>4. ScanInv'
  BY <1>0, <1>00, SmpAssumption DEF IInv, CPUs, BSP, BootStack, ScanInv, TypeOK,
     Labels, StartInv, LockLabels, UnlockLabels, WaitLabels, LoopLabels,
     EarlyLabels, StartLabels, UpLabels, LockLabels, UnlockLabels, WaitLabels,
     LoopLabels, EarlyLabels, StartLabels, UpLabels
<1>5. StartInv'
  BY <1>0, <1>00, SmpAssumption DEF IInv, CPUs, BSP, BootStack, StartInv,
     TypeOK, Labels, TrapInv, BeforeLoop, LockLabels, UnlockLabels, WaitLabels,
     LoopLabels, EarlyLabels, StartLabels, UpLabels, LockLabels, UnlockLabels,
     WaitLabels, LoopLabels, EarlyLabels, StartLabels, UpLabels
<1>6. StackInv'
  BY <1>0, <1>00, SmpAssumption DEF IInv, CPUs, BSP, BootStack, StackInv,
     StartInv, TypeOK, Labels, TrapInv, LockLabels, UnlockLabels, WaitLabels,
     LoopLabels, EarlyLabels, StartLabels, UpLabels, LockLabels, UnlockLabels,
     WaitLabels, LoopLabels, EarlyLabels, StartLabels, UpLabels
<1>7. MmioInv'
  BY <1>0, <1>00, SmpAssumption DEF IInv, CPUs, BSP, BootStack, MmioInv,
     MmioDistinct, StartInv, TypeOK, Labels, BeforeLoop, TrapInv, LockLabels,
     UnlockLabels, WaitLabels, LoopLabels, EarlyLabels, StartLabels, UpLabels,
     LockLabels, UnlockLabels, WaitLabels, LoopLabels, EarlyLabels, StartLabels,
     UpLabels
<1>8. MutualExclusion'
  BY <1>h DEF IInv, MutualExclusion
<1>9. QED
  BY <1>1, <1>2, <1>3, <1>4, <1>5, <1>6, <1>7, <1>8 DEF IInv

(* WaitStarted keeps the invariant. *)
LEMMA WaitStartedStep ==
  ASSUME IInv, WaitStarted
  PROVE  IInv'
<1>1. TypeOK'
  BY SmpAssumption DEF IInv, WaitStarted, Goto, CPUs, BSP, BootStack, bootVars,
     mapVars, startVars, stackVars, trapVars, lockVars, TypeOK, Labels,
     StartInv, LoopLabels, WaitLabels
<1>2. LockInv'
  BY SmpAssumption DEF IInv, WaitStarted, Goto, CPUs, BSP, BootStack, bootVars,
     mapVars, startVars, stackVars, trapVars, lockVars, LockInv, Holds,
     HoldLabels, MutualExclusion, TypeOK, Labels
<1>3. TrapInv'
  BY SmpAssumption DEF IInv, WaitStarted, Goto, CPUs, BSP, BootStack, bootVars,
     mapVars, startVars, stackVars, trapVars, lockVars, TrapInv, TypeOK, Labels,
     StartInv, LockLabels, UnlockLabels, WaitLabels, LoopLabels, EarlyLabels,
     StartLabels, UpLabels
<1>4. ScanInv'
  BY SmpAssumption DEF IInv, WaitStarted, Goto, CPUs, BSP, BootStack, bootVars,
     mapVars, startVars, stackVars, trapVars, lockVars, ScanInv, TypeOK, Labels,
     StartInv, LockLabels, UnlockLabels, WaitLabels, LoopLabels, EarlyLabels,
     StartLabels, UpLabels
<1>5. StartInv'
  BY SmpAssumption DEF IInv, WaitStarted, Goto, CPUs, BSP, BootStack, bootVars,
     mapVars, startVars, stackVars, trapVars, lockVars, StartInv, TypeOK,
     Labels, TrapInv, BeforeLoop, LockLabels, UnlockLabels, WaitLabels,
     LoopLabels, EarlyLabels, StartLabels, UpLabels
<1>6. StackInv'
  BY SmpAssumption DEF IInv, WaitStarted, Goto, CPUs, BSP, BootStack, bootVars,
     mapVars, startVars, stackVars, trapVars, lockVars, StackInv, StartInv,
     TypeOK, Labels, TrapInv, LockLabels, UnlockLabels, WaitLabels, LoopLabels,
     EarlyLabels, StartLabels, UpLabels
<1>7. MmioInv'
  BY SmpAssumption DEF IInv, WaitStarted, Goto, CPUs, BSP, BootStack, bootVars,
     mapVars, startVars, stackVars, trapVars, lockVars, MmioInv, MmioDistinct,
     StartInv, TypeOK, Labels, BeforeLoop, TrapInv, LockLabels, UnlockLabels,
     WaitLabels, LoopLabels, EarlyLabels, StartLabels, UpLabels
<1>8. MutualExclusion'
  BY SmpAssumption DEF IInv, WaitStarted, Goto, CPUs, BSP, BootStack, bootVars,
     mapVars, startVars, stackVars, trapVars, lockVars, MutualExclusion,
     LockInv, Holds, HoldLabels, TypeOK, Labels
<1>9. QED
  BY <1>1, <1>2, <1>3, <1>4, <1>5, <1>6, <1>7, <1>8 DEF IInv

(* lapic_init keeps the invariant. *)
LEMMA lapic_initStep ==
  ASSUME IInv, NEW c \in CPUs, lapic_init(c)
  PROVE  IInv'
<1>0. /\ pc[c] = "lapic_init"
      /\ base < MMIOPAGES
  BY SmpAssumption DEF IInv, lapic_init, Goto, CPUs, BSP, BootStack, bootVars,
     mapVars, startVars, stackVars, trapVars, lockVars, TypeOK, MmioInv,
     StartInv, LockLabels, UnlockLabels, WaitLabels, LoopLabels, EarlyLabels,
     StartLabels, UpLabels
<1>00. /\ pc' = [pc EXCEPT ![c] = pc'[c]]
       /\ pc'[c] \in {"mapped", IF c = BSP THEN "lock" ELSE "percpu"}
       /\ win' = IF pc'[c] = "mapped" THEN [win EXCEPT ![c] = base] ELSE win
       /\ UNCHANGED <<table, entry, ncpu, ismp, bootcpu, lapicaddr, base, aps, mpentry_kstack, esp, tss, cpu_status, frame, ret, locked, owner>>
  BY <1>0, SmpAssumption DEF IInv, lapic_init, Goto, CPUs, BSP, BootStack,
     bootVars, mapVars, startVars, stackVars, trapVars, lockVars, TypeOK
<1>h. \A d \in CPUs : Holds(d)' <=> Holds(d)
  BY <1>0, <1>00 DEF IInv, CPUs, BSP, BootStack, Holds, HoldLabels, TypeOK
<1>1. TypeOK'
  <2>1. pc' \in [CPUs -> Labels]
    BY <1>0, <1>00 DEF IInv, TypeOK, Labels
  <2>2. win' \in [CPUs -> 0..(MMIOPAGES - 1) \cup {NULL}]
    <3>1. base \in 0..(MMIOPAGES - 1)
      BY <1>0, SmpAssumption DEF IInv, TypeOK
    <3>2. QED
      BY <1>00, <3>1 DEF IInv, TypeOK
  <2>3. QED
    BY <1>00, <2>1, <2>2 DEF IInv, TypeOK
<1>2. LockInv'
  <2>1. \A d \in CPUs : pc'[d] \in {"own", "release"} <=> pc[d] \in {"own", "release"}
    BY <1>0, <1>00 DEF IInv, TypeOK
  <2>2. owner' = owner /\ locked' = locked /\ owner \in CPUs \cup {NULL}
    BY <1>00 DEF IInv, TypeOK
  <2>3. QED
    BY <1>h, <2>1, <2>2 DEF IInv, LockInv
<1>3. TrapInv'
  BY <1>0, <1>00, SmpAssumption DEF IInv, CPUs, BSP, BootStack, TrapInv, TypeOK,
     Labels, StartInv, LockLabels, UnlockLabels, WaitLabels, LoopLabels,
     EarlyLabels, StartLabels, UpLabels
<1>4. ScanInv'
  BY <1>0, <1>00, SmpAssumption DEF IInv, CPUs, BSP, BootStack, ScanInv, TypeOK,
     Labels, StartInv, LockLabels, UnlockLabels, WaitLabels, LoopLabels,
     EarlyLabels, StartLabels, UpLabels
<1>5. StartInv'
  BY <1>0, <1>00, SmpAssumption DEF IInv, CPUs, BSP, BootStack, StartInv,
     TypeOK, Labels, TrapInv, BeforeLoop, LockLabels, UnlockLabels, WaitLabels,
     LoopLabels, EarlyLabels, StartLabels, UpLabels
<1>6. StackInv'
  <2>1. \A d \in CPUs \ {BSP} :
           /\ pc'[d] \in {"off", "reset", "mpentry"} <=> pc[d] \in {"off", "reset", "mpentry"}
           /\ pc'[d] \in UpLabels \cup {"started"} <=> pc[d] \in UpLabels \cup {"started"}
    BY <1>0, <1>00 DEF IInv, TypeOK, UpLabels, LockLabels, UnlockLabels
  <2>2. QED
    BY <1>00, <2>1 DEF IInv, StackInv
<1>7. MmioInv'
  <2>0. BSP \in CPUs /\ base \in Int /\ aps \in Int
    BY SmpAssumption DEF CPUs, BSP, IInv, TypeOK
  <2>1. \A d \in CPUs : d # c => pc[d] # "mapped"
    BY <1>0, <2>0 DEF IInv, StartInv, StartLabels, WaitLabels
  <2>2. /\ base' = base /\ aps' = aps /\ ret' = ret
        /\ \A d \in CPUs : d # c => pc'[d] = pc[d] /\ win'[d] = win[d]
    BY <1>00 DEF IInv, TypeOK
  <2>3. \A d \in CPUs : win[d] # NULL => win[d] < base
    BY <1>0, <2>1 DEF IInv, MmioInv
  <2>4. \/ pc'[c] = "mapped" /\ win'[c] = base
        \/ pc'[c] # "mapped" /\ win'[c] = win[c]
    BY <1>00 DEF IInv, TypeOK
  <2>5. /\ \A d \in CPUs : win'[d] # NULL => win'[d] < base' \/ (win'[d] = base' /\ pc'[d] = "mapped")
        /\ \A d \in CPUs : pc'[d] = "mapped" => win'[d] = base'
    BY <2>1, <2>2, <2>3, <2>4
  <2>6. MmioDistinct'
    <3> SUFFICES ASSUME NEW d \in CPUs, NEW f \in CPUs, d # f, win'[d] # NULL
                 PROVE  win'[d] # win'[f]
      BY DEF MmioDistinct
    <3>1. CASE win' = win
      BY <3>1 DEF IInv, MmioInv, MmioDistinct
    <3>2. CASE win'[c] = base
      <4>1. \A g \in CPUs : g # c => win'[g] # base
        BY <2>0, <2>2, <2>3, SmpAssumption DEF IInv, TypeOK
      <4>2. CASE d # c /\ f # c
        BY <2>2, <4>2 DEF IInv, MmioInv, MmioDistinct
      <4>3. QED
        BY <3>2, <4>1, <4>2
    <3>3. QED
      BY <1>00, <2>4, <3>1, <3>2
  <2>7. /\ pc'[BSP] \in EarlyLabels => pc[BSP] \in EarlyLabels
        /\ pc'[BSP] \in {"boot_aps", "init_ipi"} => pc[BSP] \in {"boot_aps", "init_ipi"}
        /\ BeforeLoop' \/ pc'[BSP] \in LoopLabels => BeforeLoop \/ pc[BSP] \in LoopLabels
    BY <1>0, <1>00, <2>0, <2>2 DEF EarlyLabels, LoopLabels, WaitLabels, BeforeLoop
  <2>8. \A d \in CPUs \ {BSP} :
           pc'[d] \in {"reset", "mpentry", "lapic_init", "mapped"}
           => pc[d] \in {"reset", "mpentry", "lapic_init", "mapped"}
    BY <1>0, <2>2
  <2>9. QED
    BY <2>2, <2>5, <2>6, <2>7, <2>8 DEF IInv, MmioInv
<1>8. MutualExclusion'
  BY <1>h DEF IInv, MutualExclusion
<1>9. QED
  BY <1>1, <1>2, <1>3, <1>4, <1>5, <1>6, <1>7, <1>8 DEF IInv

(* mmio_map_region keeps the invariant. *)
LEMMA mmio_map_regionStep ==
  ASSUME IInv, NEW c \in CPUs, mmio_map_region(c)
  PROVE  IInv'
<1>0. /\ pc[c] = "mapped"
      /\ pc' = [pc EXCEPT ![c] = IF c = BSP THEN "lock" ELSE "percpu"]
      /\ UNCHANGED <<table, entry, ncpu, ismp, bootcpu, lapicaddr, win, aps, mpentry_kstack, esp, tss, cpu_status, frame, ret, locked, owner>>
  BY SmpAssumption DEF IInv, mmio_map_region, Goto, CPUs, BSP, BootStack,
     bootVars, mapVars, startVars, stackVars, trapVars, lockVars, TypeOK
<1>1. TypeOK'
  BY SmpAssumption DEF IInv, mmio_map_region, Goto, CPUs, BSP, BootStack,
     bootVars, mapVars, startVars, stackVars, trapVars, lockVars, TypeOK,
     Labels, MmioInv
<1>2. LockInv'
  BY SmpAssumption DEF IInv, mmio_map_region, Goto, CPUs, BSP, BootStack,
     bootVars, mapVars, startVars, stackVars, trapVars, lockVars, LockInv,
     Holds, HoldLabels, MutualExclusion, TypeOK, Labels
<1>3. TrapInv'
  BY <1>0, SmpAssumption DEF IInv, CPUs, BSP, BootStack, TrapInv, TypeOK,
     Labels, StartInv, LockLabels, UnlockLabels, WaitLabels, LoopLabels,
     EarlyLabels, StartLabels, UpLabels
<1>4. ScanInv'
  BY SmpAssumption DEF IInv, mmio_map_region, Goto, CPUs, BSP, BootStack,
     bootVars, mapVars, startVars, stackVars, trapVars, lockVars, ScanInv,
     TypeOK, Labels, StartInv, LockLabels, UnlockLabels, WaitLabels, LoopLabels,
     EarlyLabels, StartLabels, UpLabels
<1>5. StartInv'
  BY SmpAssumption DEF IInv, mmio_map_region, Goto, CPUs, BSP, BootStack,
     bootVars, mapVars, startVars, stackVars, trapVars, lockVars, StartInv,
     TypeOK, Labels, TrapInv, BeforeLoop, LockLabels, UnlockLabels, WaitLabels,
     LoopLabels, EarlyLabels, StartLabels, UpLabels
<1>6. StackInv'
  BY <1>0, SmpAssumption DEF IInv, CPUs, BSP, BootStack, StackInv, TypeOK,
     Labels, UpLabels, LockLabels, UnlockLabels
<1>7. MmioInv'
  BY SmpAssumption DEF IInv, mmio_map_region, Goto, CPUs, BSP, BootStack,
     bootVars, mapVars, startVars, stackVars, trapVars, lockVars, MmioInv,
     MmioDistinct, StartInv, TypeOK, Labels, BeforeLoop, TrapInv, LockLabels,
     UnlockLabels, WaitLabels, LoopLabels, EarlyLabels, StartLabels, UpLabels
<1>8. MutualExclusion'
  BY SmpAssumption DEF IInv, mmio_map_region, Goto, CPUs, BSP, BootStack,
     bootVars, mapVars, startVars, stackVars, trapVars, lockVars,
     MutualExclusion, LockInv, Holds, HoldLabels, TypeOK, Labels
<1>9. QED
  BY <1>1, <1>2, <1>3, <1>4, <1>5, <1>6, <1>7, <1>8 DEF IInv

(* mpentry_start keeps the invariant. *)
LEMMA mpentry_startStep ==
  ASSUME IInv, NEW c \in CPUs, mpentry_start(c)
  PROVE  IInv'
<1>1. TypeOK'
  BY SmpAssumption DEF IInv, mpentry_start, Goto, CPUs, BSP, BootStack,
     bootVars, mapVars, startVars, stackVars, trapVars, lockVars, TypeOK, Labels
<1>2. LockInv'
  BY SmpAssumption DEF IInv, mpentry_start, Goto, CPUs, BSP, BootStack,
     bootVars, mapVars, startVars, stackVars, trapVars, lockVars, LockInv,
     Holds, HoldLabels, MutualExclusion, TypeOK, Labels
<1>3. TrapInv'
  BY SmpAssumption DEF IInv, mpentry_start, Goto, CPUs, BSP, BootStack,
     bootVars, mapVars, startVars, stackVars, trapVars, lockVars, TrapInv,
     TypeOK, Labels, StartInv, LockLabels, UnlockLabels, WaitLabels, LoopLabels,
     EarlyLabels, StartLabels, UpLabels
<1>4. ScanInv'
  BY SmpAssumption DEF IInv, mpentry_start, Goto, CPUs, BSP, BootStack,
     bootVars, mapVars, startVars, stackVars, trapVars, lockVars, ScanInv,
     TypeOK, Labels, StartInv, LockLabels, UnlockLabels, WaitLabels, LoopLabels,
     EarlyLabels, StartLabels, UpLabels
<1>5. StartInv'
  BY SmpAssumption DEF IInv, mpentry_start, Goto, CPUs, BSP, BootStack,
     bootVars, mapVars, startVars, stackVars, trapVars, lockVars, StartInv,
     TypeOK, Labels, TrapInv, BeforeLoop, LockLabels, UnlockLabels, WaitLabels,
     LoopLabels, EarlyLabels, StartLabels, UpLabels
<1>6. StackInv'
  BY SmpAssumption DEF IInv, mpentry_start, Goto, CPUs, BSP, BootStack,
     bootVars, mapVars, startVars, stackVars, trapVars, lockVars, StackInv,
     StartInv, TypeOK, Labels, TrapInv, LockLabels, UnlockLabels, WaitLabels,
     LoopLabels, EarlyLabels, StartLabels, UpLabels
<1>7. MmioInv'
  BY SmpAssumption DEF IInv, mpentry_start, Goto, CPUs, BSP, BootStack,
     bootVars, mapVars, startVars, stackVars, trapVars, lockVars, MmioInv,
     MmioDistinct, StartInv, TypeOK, Labels, BeforeLoop, TrapInv, LockLabels,
     UnlockLabels, WaitLabels, LoopLabels, EarlyLabels, StartLabels, UpLabels
<1>8. MutualExclusion'
  BY SmpAssumption DEF IInv, mpentry_start, Goto, CPUs, BSP, BootStack,
     bootVars, mapVars, startVars, stackVars, trapVars, lockVars,
     MutualExclusion, LockInv, Holds, HoldLabels, TypeOK, Labels
<1>9. QED
  BY <1>1, <1>2, <1>3, <1>4, <1>5, <1>6, <1>7, <1>8 DEF IInv

(* trap_init_percpu keeps the invariant. *)
LEMMA trap_init_percpuStep ==
  ASSUME IInv, NEW c \in CPUs, trap_init_percpu(c)
  PROVE  IInv'
<1>1. TypeOK'
  BY SmpAssumption DEF IInv, trap_init_percpu, Goto, CPUs, BSP, BootStack,
     bootVars, mapVars, startVars, stackVars, trapVars, lockVars, TypeOK, Labels
<1>2. LockInv'
  BY SmpAssumption DEF IInv, trap_init_percpu, Goto, CPUs, BSP, BootStack,
     bootVars, mapVars, startVars, stackVars, trapVars, lockVars, LockInv,
     Holds, HoldLabels, MutualExclusion, TypeOK, Labels
<1>3. TrapInv'
  BY SmpAssumption DEF IInv, trap_init_percpu, Goto, CPUs, BSP, BootStack,
     bootVars, mapVars, startVars, stackVars, trapVars, lockVars, TrapInv,
     TypeOK, Labels, StartInv, LockLabels, UnlockLabels, WaitLabels, LoopLabels,
     EarlyLabels, StartLabels, UpLabels
<1>4. ScanInv'
  BY SmpAssumption DEF IInv, trap_init_percpu, Goto, CPUs, BSP, BootStack,
     bootVars, mapVars, startVars, stackVars, trapVars, lockVars, ScanInv,
     TypeOK, Labels, StartInv, LockLabels, UnlockLabels, WaitLabels, LoopLabels,
     EarlyLabels, StartLabels, UpLabels
<1>5. StartInv'
  BY SmpAssumption DEF IInv, trap_init_percpu, Goto, CPUs, BSP, BootStack,
     bootVars, mapVars, startVars, stackVars, trapVars, lockVars, StartInv,
     TypeOK, Labels, TrapInv, BeforeLoop, LockLabels, UnlockLabels, WaitLabels,
     LoopLabels, EarlyLabels, StartLabels, UpLabels
<1>6. StackInv'
  BY SmpAssumption DEF IInv, trap_init_percpu, Goto, CPUs, BSP, BootStack,
     bootVars, mapVars, startVars, stackVars, trapVars, lockVars, StackInv,
     TypeOK, Labels, UpLabels, LockLabels, UnlockLabels
<1>7. MmioInv'
  BY SmpAssumption DEF IInv, trap_init_percpu, Goto, CPUs, BSP, BootStack,
     bootVars, mapVars, startVars, stackVars, trapVars, lockVars, MmioInv,
     MmioDistinct, StartInv, TypeOK, Labels, BeforeLoop, TrapInv, LockLabels,
     UnlockLabels, WaitLabels, LoopLabels, EarlyLabels, StartLabels, UpLabels
<1>8. MutualExclusion'
  BY SmpAssumption DEF IInv, trap_init_percpu, Goto, CPUs, BSP, BootStack,
     bootVars, mapVars, startVars, stackVars, trapVars, lockVars,
     MutualExclusion, LockInv, Holds, HoldLabels, TypeOK, Labels
<1>9. QED
  BY <1>1, <1>2, <1>3, <1>4, <1>5, <1>6, <1>7, <1>8 DEF IInv

(* mp_main keeps the invariant. *)
LEMMA mp_mainStep ==
  ASSUME IInv, NEW c \in CPUs, mp_main(c)
  PROVE  IInv'
<1>1. TypeOK'
  BY SmpAssumption DEF IInv, mp_main, Goto, CPUs, BSP, BootStack, bootVars,
     mapVars, startVars, stackVars, trapVars, lockVars, TypeOK, Labels
<1>2. LockInv'
  BY SmpAssumption DEF IInv, mp_main, Goto, CPUs, BSP, BootStack, bootVars,
     mapVars, startVars, stackVars, trapVars, lockVars, LockInv, Holds,
     HoldLabels, MutualExclusion, TypeOK, Labels
<1>3. TrapInv'
  BY SmpAssumption DEF IInv, mp_main, Goto, CPUs, BSP, BootStack, bootVars,
     mapVars, startVars, stackVars, trapVars, lockVars, TrapInv, TypeOK, Labels,
     StartInv, LockLabels, UnlockLabels, WaitLabels, LoopLabels, EarlyLabels,
     StartLabels, UpLabels
<1>4. ScanInv'
  BY SmpAssumption DEF IInv, mp_main, Goto, CPUs, BSP, BootStack, bootVars,
     mapVars, startVars, stackVars, trapVars, lockVars, ScanInv, TypeOK, Labels,
     StartInv, LockLabels, UnlockLabels, WaitLabels, LoopLabels, EarlyLabels,
     StartLabels, UpLabels
<1>5. StartInv'
  BY SmpAssumption DEF IInv, mp_main, Goto, CPUs, BSP, BootStack, bootVars,
     mapVars, startVars, stackVars, trapVars, lockVars, StartInv, TypeOK,
     Labels, TrapInv, BeforeLoop, LockLabels, UnlockLabels, WaitLabels,
     LoopLabels, EarlyLabels, StartLabels, UpLabels
<1>6. StackInv'
  BY SmpAssumption DEF IInv, mp_main, Goto, CPUs, BSP, BootStack, bootVars,
     mapVars, startVars, stackVars, trapVars, lockVars, StackInv, StartInv,
     TypeOK, Labels, TrapInv, LockLabels, UnlockLabels, WaitLabels, LoopLabels,
     EarlyLabels, StartLabels, UpLabels
<1>7. MmioInv'
  BY SmpAssumption DEF IInv, mp_main, Goto, CPUs, BSP, BootStack, bootVars,
     mapVars, startVars, stackVars, trapVars, lockVars, MmioInv, MmioDistinct,
     StartInv, TypeOK, Labels, BeforeLoop, TrapInv, LockLabels, UnlockLabels,
     WaitLabels, LoopLabels, EarlyLabels, StartLabels, UpLabels
<1>8. MutualExclusion'
  BY SmpAssumption DEF IInv, mp_main, Goto, CPUs, BSP, BootStack, bootVars,
     mapVars, startVars, stackVars, trapVars, lockVars, MutualExclusion,
     LockInv, Holds, HoldLabels, TypeOK, Labels
<1>9. QED
  BY <1>1, <1>2, <1>3, <1>4, <1>5, <1>6, <1>7, <1>8 DEF IInv

(* LockCheck keeps the invariant. *)
LEMMA LockCheckStep ==
  ASSUME IInv, NEW c \in CPUs, LockCheck(c)
  PROVE  IInv'
<1>0. /\ pc[c] \in {"lock", "lock2"}
      /\ pc' = [pc EXCEPT ![c] = pc'[c]]
      /\ pc'[c] \in {"lock2", "spin"}
      /\ UNCHANGED <<table, entry, ncpu, ismp, bootcpu, lapicaddr, base, win, aps, mpentry_kstack, esp, tss, cpu_status, frame, ret, locked, owner>>
  BY SmpAssumption DEF IInv, LockCheck, Goto, CPUs, BSP, BootStack, bootVars,
     mapVars, startVars, stackVars, trapVars, lockVars, TypeOK, LockInv, Holds,
     HoldLabels
<1>h. \A d \in CPUs : Holds(d)' <=> Holds(d)
  BY <1>0 DEF IInv, CPUs, BSP, BootStack, Holds, HoldLabels, TypeOK
<1>1. TypeOK'
  <2>1. pc' \in [CPUs -> Labels]
    BY <1>0 DEF IInv, TypeOK, Labels
  <2>2. QED
    BY <1>0, <2>1 DEF IInv, TypeOK
<1>2. LockInv'
  BY <1>0, SmpAssumption DEF IInv, CPUs, BSP, BootStack, LockInv, Holds,
     HoldLabels, MutualExclusion, TypeOK, Labels
<1>3. TrapInv'
  BY <1>0, SmpAssumption DEF IInv, CPUs, BSP, BootStack, TrapInv, TypeOK,
     Labels, StartInv, LockLabels, UnlockLabels, WaitLabels, LoopLabels,
     EarlyLabels, StartLabels, UpLabels
<1>4. ScanInv'
  BY <1>0, SmpAssumption DEF IInv, CPUs, BSP, BootStack, ScanInv, TypeOK,
     Labels, StartInv, LockLabels, UnlockLabels, WaitLabels, LoopLabels,
     EarlyLabels, StartLabels, UpLabels
<1>5. StartInv'
  BY <1>0, SmpAssumption DEF IInv, CPUs, BSP, BootStack, StartInv, TypeOK,
     Labels, TrapInv, BeforeLoop, LockLabels, UnlockLabels, WaitLabels,
     LoopLabels, EarlyLabels, StartLabels, UpLabels
<1>6. StackInv'
  BY <1>0, SmpAssumption DEF IInv, CPUs, BSP, BootStack, StackInv, StartInv,
     TypeOK, Labels, TrapInv, LockLabels, UnlockLabels, WaitLabels, LoopLabels,
     EarlyLabels, StartLabels, UpLabels
<1>7. MmioInv'
  BY <1>0, SmpAssumption DEF IInv, CPUs, BSP, BootStack, MmioInv, MmioDistinct,
     StartInv, TypeOK, Labels, BeforeLoop, TrapInv, LockLabels, UnlockLabels,
     WaitLabels, LoopLabels, EarlyLabels, StartLabels, UpLabels
<1>8. MutualExclusion'
  BY <1>h DEF IInv, MutualExclusion
<1>9. QED
  BY <1>1, <1>2, <1>3, <1>4, <1>5, <1>6, <1>7, <1>8 DEF IInv

(* Exchange keeps the invariant. *)
LEMMA ExchangeStep ==
  ASSUME IInv, NEW c \in CPUs, Exchange(c)
  PROVE  IInv'
<1>0. /\ pc[c] = "spin"
      /\ pc' = [pc EXCEPT ![c] = pc'[c]]
      /\ pc'[c] \in {"spin", "own"}
      /\ UNCHANGED <<table, entry, ncpu, ismp, bootcpu, lapicaddr, base, win, aps, mpentry_kstack, esp, tss, cpu_status, frame, ret>>
  BY SmpAssumption DEF IInv, Exchange, Goto, CPUs, BSP, BootStack, bootVars,
     mapVars, startVars, stackVars, trapVars, lockVars, TypeOK
<1>1. TypeOK'
  BY SmpAssumption DEF IInv, Exchange, Goto, CPUs, BSP, BootStack, bootVars,
     mapVars, startVars, stackVars, trapVars, lockVars, TypeOK, Labels
<1>2. LockInv'
  BY SmpAssumption DEF IInv, Exchange, Goto, CPUs, BSP, BootStack, bootVars,
     mapVars, startVars, stackVars, trapVars, lockVars, LockInv, Holds,
     HoldLabels, MutualExclusion, TypeOK, Labels
<1>3. TrapInv'
  BY SmpAssumption DEF IInv, Exchange, Goto, CPUs, BSP, BootStack, bootVars,
     mapVars, startVars, stackVars, trapVars, lockVars, TrapInv, TypeOK, Labels,
     StartInv, LockLabels, UnlockLabels, WaitLabels, LoopLabels, EarlyLabels,
     StartLabels, UpLabels
<1>4. ScanInv'
  BY SmpAssumption DEF IInv, Exchange, Goto, CPUs, BSP, BootStack, bootVars,
     mapVars, startVars, stackVars, trapVars, lockVars, ScanInv, TypeOK, Labels,
     StartInv, LockLabels, UnlockLabels, WaitLabels, LoopLabels, EarlyLabels,
     StartLabels, UpLabels
<1>5. StartInv'
  BY SmpAssumption DEF IInv, Exchange, Goto, CPUs, BSP, BootStack, bootVars,
     mapVars, startVars, stackVars, trapVars, lockVars, StartInv, TypeOK,
     Labels, TrapInv, BeforeLoop, LockLabels, UnlockLabels, WaitLabels,
     LoopLabels, EarlyLabels, StartLabels, UpLabels
<1>6. StackInv'
  <2>1. \A d \in CPUs \ {BSP} :
           /\ pc'[d] \in {"off", "reset", "mpentry"} <=> pc[d] \in {"off", "reset", "mpentry"}
           /\ pc'[d] \in UpLabels \cup {"started"} <=> pc[d] \in UpLabels \cup {"started"}
    BY <1>0 DEF IInv, TypeOK, UpLabels, LockLabels, UnlockLabels
  <2>2. QED
    BY <1>0, <2>1 DEF IInv, StackInv
<1>7. MmioInv'
  BY SmpAssumption DEF IInv, Exchange, Goto, CPUs, BSP, BootStack, bootVars,
     mapVars, startVars, stackVars, trapVars, lockVars, MmioInv, MmioDistinct,
     StartInv, TypeOK, Labels, BeforeLoop, TrapInv, LockLabels, UnlockLabels,
     WaitLabels, LoopLabels, EarlyLabels, StartLabels, UpLabels
<1>8. MutualExclusion'
  BY SmpAssumption DEF IInv, Exchange, Goto, CPUs, BSP, BootStack, bootVars,
     mapVars, startVars, stackVars, trapVars, lockVars, MutualExclusion,
     LockInv, Holds, HoldLabels, TypeOK, Labels
<1>9. QED
  BY <1>1, <1>2, <1>3, <1>4, <1>5, <1>6, <1>7, <1>8 DEF IInv

(* Own keeps the invariant. *)
LEMMA OwnStep ==
  ASSUME IInv, NEW c \in CPUs, Own(c)
  PROVE  IInv'
<1>0. /\ pc[c] = "own"
      /\ pc' = [pc EXCEPT ![c] = pc'[c]]
      /\ pc'[c] \in {"trap_mode", "kernel", "boot_aps"}
      /\ pc'[c] = "boot_aps" => c = BSP /\ aps = 0 /\ base <= 1 /\ ret[c] = "boot_aps"
      /\ UNCHANGED <<table, entry, ncpu, ismp, bootcpu, lapicaddr, base, win, aps, mpentry_kstack, esp, tss, cpu_status, frame, ret, locked>>
  BY SmpAssumption DEF IInv, Own, Goto, CPUs, BSP, BootStack, bootVars, mapVars,
     startVars, stackVars, trapVars, lockVars, TypeOK, TrapInv, StartInv,
     MmioInv, BeforeLoop, LockLabels
<1>1. TypeOK'
  BY SmpAssumption DEF IInv, Own, Goto, CPUs, BSP, BootStack, bootVars, mapVars,
     startVars, stackVars, trapVars, lockVars, TypeOK, Labels
<1>2. LockInv'
  BY SmpAssumption DEF IInv, Own, Goto, CPUs, BSP, BootStack, bootVars, mapVars,
     startVars, stackVars, trapVars, lockVars, LockInv, Holds, HoldLabels,
     MutualExclusion, TypeOK, Labels
<1>3. TrapInv'
  BY <1>0, SmpAssumption DEF IInv, CPUs, BSP, BootStack, TrapInv, TypeOK,
     Labels, LockLabels, UnlockLabels, WaitLabels, LoopLabels, EarlyLabels,
     StartLabels, UpLabels
<1>4. ScanInv'
  BY SmpAssumption DEF IInv, Own, Goto, CPUs, BSP, BootStack, bootVars, mapVars,
     startVars, stackVars, trapVars, lockVars, ScanInv, TypeOK, Labels,
     StartInv, LockLabels, UnlockLabels, WaitLabels, LoopLabels, EarlyLabels,
     StartLabels, UpLabels
<1>5. StartInv'
  BY SmpAssumption DEF IInv, Own, Goto, CPUs, BSP, BootStack, bootVars, mapVars,
     startVars, stackVars, trapVars, lockVars, StartInv, TypeOK, Labels,
     TrapInv, BeforeLoop, LockLabels, UnlockLabels, WaitLabels, LoopLabels,
     EarlyLabels, StartLabels, UpLabels
<1>6. StackInv'
  <2>1. \A d \in CPUs \ {BSP} :
           /\ pc'[d] \in {"off", "reset", "mpentry"} <=> pc[d] \in {"off", "reset", "mpentry"}
           /\ pc'[d] \in UpLabels \cup {"started"} <=> pc[d] \in UpLabels \cup {"started"}
    BY <1>0 DEF IInv, TypeOK, UpLabels, LockLabels, UnlockLabels
  <2>2. QED
    BY <1>0, <2>1 DEF IInv, StackInv
<1>7. MmioInv'
  <2>1. \A d \in CPUs : pc'[d] = "mapped" <=> pc[d] = "mapped"
    BY <1>0 DEF IInv, TypeOK
  <2>2. \A d \in CPUs \ {BSP} :
           pc'[d] \in {"reset", "mpentry", "lapic_init", "mapped"}
           => pc[d] \in {"reset", "mpentry", "lapic_init", "mapped"}
    BY <1>0 DEF IInv, TypeOK
  <2>3. BSP \in CPUs
    BY SmpAssumption DEF CPUs, BSP
  <2>4. /\ pc'[BSP] \in EarlyLabels => pc[BSP] \in EarlyLabels
        /\ pc'[BSP] \in {"boot_aps", "init_ipi"} /\ aps # BSP
              => pc[BSP] \in {"boot_aps", "init_ipi"}
        /\ BeforeLoop' \/ pc'[BSP] \in LoopLabels
              => BeforeLoop \/ pc[BSP] \in LoopLabels \/ base <= aps + 1
    BY <1>0, <2>3 DEF IInv, TypeOK, EarlyLabels, LoopLabels, BeforeLoop,
       StartInv, TrapInv, LockLabels, WaitLabels, BSP
  <2>5. MmioDistinct'
    BY <1>0 DEF IInv, MmioInv, MmioDistinct
  <2>6. QED
    BY <1>0, <2>1, <2>2, <2>4, <2>5 DEF IInv, MmioInv
<1>8. MutualExclusion'
  BY SmpAssumption DEF IInv, Own, Goto, CPUs, BSP, BootStack, bootVars, mapVars,
     startVars, stackVars, trapVars, lockVars, MutualExclusion, LockInv, Holds,
     HoldLabels, TypeOK, Labels
<1>9. QED
  BY <1>1, <1>2, <1>3, <1>4, <1>5, <1>6, <1>7, <1>8 DEF IInv

(* UnlockCheck keeps the invariant. *)
LEMMA UnlockCheckStep ==
  ASSUME IInv, NEW c \in CPUs, UnlockCheck(c)
  PROVE  IInv'
<1>a. pc[c] \in {"unlock", "unlock2"}
  BY DEF UnlockCheck
<1>b. locked # 0 /\ owner = c
  BY <1>a DEF IInv, LockInv, Holds, HoldLabels
<1>c. pc' = [pc EXCEPT ![c] = "unlock2"] \/ pc' = [pc EXCEPT ![c] = "disown"]
  BY <1>b DEF UnlockCheck, Goto
<1>0. /\ pc[c] \in {"unlock", "unlock2"}
      /\ pc' = [pc EXCEPT ![c] = pc'[c]]
      /\ pc'[c] \in {"unlock2", "disown"}
      /\ UNCHANGED <<table, entry, ncpu, ismp, bootcpu, lapicaddr, base, win, aps, mpentry_kstack, esp, tss, cpu_status, frame, ret, locked, owner>>
  BY <1>a, <1>c DEF IInv, TypeOK, UnlockCheck, bootVars, mapVars, startVars,
     stackVars, trapVars, lockVars
<1>h. \A d \in CPUs : Holds(d)' <=> Holds(d)
  BY <1>0 DEF IInv, CPUs, BSP, BootStack, Holds, HoldLabels, TypeOK
<1>1. TypeOK'
  <2>1. pc' \in [CPUs -> Labels]
    BY <1>0 DEF IInv, TypeOK, Labels
  <2>2. QED
    BY <1>0, <2>1 DEF IInv, TypeOK
<1>2. LockInv'
  BY <1>0, SmpAssumption DEF IInv, CPUs, BSP, BootStack, LockInv, Holds,
     HoldLabels, MutualExclusion, TypeOK, Labels
<1>3. TrapInv'
  BY <1>0, SmpAssumption DEF IInv, CPUs, BSP, BootStack, TrapInv, TypeOK,
     Labels, StartInv, LockLabels, UnlockLabels, WaitLabels, LoopLabels,
     EarlyLabels, StartLabels, UpLabels
<1>4. ScanInv'
  BY <1>0, SmpAssumption DEF IInv, CPUs, BSP, BootStack, ScanInv, TypeOK,
     Labels, StartInv, LockLabels, UnlockLabels, WaitLabels, LoopLabels,
     EarlyLabels, StartLabels, UpLabels
<1>l. \A d \in CPUs :
         /\ pc'[d] \in UpLabels <=> pc[d] \in UpLabels
         /\ pc'[d] \in EarlyLabels <=> pc[d] \in EarlyLabels
         /\ pc'[d] \in LoopLabels <=> pc[d] \in LoopLabels
         /\ pc'[d] \in WaitLabels <=> pc[d] \in WaitLabels
         /\ pc'[d] \in StartLabels <=> pc[d] \in StartLabels
         /\ pc'[d] \in LockLabels <=> pc[d] \in LockLabels
         /\ pc'[d] = "boot_aps" <=> pc[d] = "boot_aps"
         /\ pc'[d] = "off" <=> pc[d] = "off"
  BY <1>0 DEF IInv, TypeOK, UpLabels, LockLabels, UnlockLabels, EarlyLabels,
     LoopLabels, WaitLabels, StartLabels
<1>5. StartInv'
  <2>1. BSP \in CPUs
    BY SmpAssumption DEF CPUs, BSP
  <2>2. QED
    BY <1>0, <1>l, <2>1 DEF IInv, StartInv, BeforeLoop
<1>s. \A d \in CPUs :
         /\ pc'[d] \in UpLabels <=> pc[d] \in UpLabels
         /\ pc'[d] \in {"off", "reset", "mpentry"} <=> pc[d] \in {"off", "reset", "mpentry"}
         /\ pc'[d] = "started" <=> pc[d] = "started"
  BY <1>0 DEF IInv, TypeOK, UpLabels, LockLabels, UnlockLabels
<1>6. StackInv'
  BY <1>0, <1>s DEF IInv, StackInv, CPUs, BSP
<1>7. MmioInv'
  <2>1. \A d \in CPUs :
           /\ pc'[d] = "mapped" <=> pc[d] = "mapped"
           /\ pc'[d] = "init_ipi" <=> pc[d] = "init_ipi"
           /\ pc'[d] \in {"reset", "mpentry", "lapic_init", "mapped"}
                 <=> pc[d] \in {"reset", "mpentry", "lapic_init", "mapped"}
    BY <1>0 DEF IInv, TypeOK
  <2>2. BSP \in CPUs
    BY SmpAssumption DEF CPUs, BSP
  <2>3. QED
    BY <1>0, <1>l, <2>1, <2>2 DEF IInv, MmioInv, MmioDistinct, BeforeLoop
<1>8. MutualExclusion'
  BY <1>h DEF IInv, MutualExclusion
<1>9. QED
  BY <1>1, <1>2, <1>3, <1>4, <1>5, <1>6, <1>7, <1>8 DEF IInv

(* Disown keeps the invariant. *)
LEMMA DisownStep ==
  ASSUME IInv, NEW c \in CPUs, Disown(c)
  PROVE  IInv'
<1>0. /\ pc[c] = "disown"
      /\ pc' = [pc EXCEPT ![c] = "release"]
      /\ UNCHANGED <<table, entry, ncpu, ismp, bootcpu, lapicaddr, base, win, aps, mpentry_kstack, esp, tss, cpu_status, frame, ret>>
  BY SmpAssumption DEF IInv, Disown, Goto, CPUs, BSP, BootStack, bootVars,
     mapVars, startVars, stackVars, trapVars, lockVars, TypeOK
<1>1. TypeOK'
  BY SmpAssumption DEF IInv, Disown, Goto, CPUs, BSP, BootStack, bootVars,
     mapVars, startVars, stackVars, trapVars, lockVars, TypeOK, Labels
<1>2. LockInv'
  BY SmpAssumption DEF IInv, Disown, Goto, CPUs, BSP, BootStack, bootVars,
     mapVars, startVars, stackVars, trapVars, lockVars, LockInv, Holds,
     HoldLabels, MutualExclusion, TypeOK, Labels
<1>3. TrapInv'
  BY SmpAssumption DEF IInv, Disown, Goto, CPUs, BSP, BootStack, bootVars,
     mapVars, startVars, stackVars, trapVars, lockVars, TrapInv, TypeOK, Labels,
     StartInv, LockLabels, UnlockLabels, WaitLabels, LoopLabels, EarlyLabels,
     StartLabels, UpLabels
<1>4. ScanInv'
  BY SmpAssumption DEF IInv, Disown, Goto, CPUs, BSP, BootStack, bootVars,
     mapVars, startVars, stackVars, trapVars, lockVars, ScanInv, TypeOK, Labels,
     StartInv, LockLabels, UnlockLabels, WaitLabels, LoopLabels, EarlyLabels,
     StartLabels, UpLabels
<1>5. StartInv'
  BY SmpAssumption DEF IInv, Disown, Goto, CPUs, BSP, BootStack, bootVars,
     mapVars, startVars, stackVars, trapVars, lockVars, StartInv, TypeOK,
     Labels, TrapInv, BeforeLoop, LockLabels, UnlockLabels, WaitLabels,
     LoopLabels, EarlyLabels, StartLabels, UpLabels
<1>s. \A d \in CPUs :
         /\ pc'[d] \in UpLabels <=> pc[d] \in UpLabels
         /\ pc'[d] \in {"off", "reset", "mpentry"} <=> pc[d] \in {"off", "reset", "mpentry"}
         /\ pc'[d] = "started" <=> pc[d] = "started"
  BY <1>0 DEF IInv, TypeOK, UpLabels, LockLabels, UnlockLabels
<1>6. StackInv'
  BY <1>0, <1>s DEF IInv, StackInv, CPUs, BSP
<1>7. MmioInv'
  BY SmpAssumption DEF IInv, Disown, Goto, CPUs, BSP, BootStack, bootVars,
     mapVars, startVars, stackVars, trapVars, lockVars, MmioInv, MmioDistinct,
     StartInv, TypeOK, Labels, BeforeLoop, TrapInv, LockLabels, UnlockLabels,
     WaitLabels, LoopLabels, EarlyLabels, StartLabels, UpLabels
<1>8. MutualExclusion'
  BY SmpAssumption DEF IInv, Disown, Goto, CPUs, BSP, BootStack, bootVars,
     mapVars, startVars, stackVars, trapVars, lockVars, MutualExclusion,
     LockInv, Holds, HoldLabels, TypeOK, Labels
<1>9. QED
  BY <1>1, <1>2, <1>3, <1>4, <1>5, <1>6, <1>7, <1>8 DEF IInv

(* Release keeps the invariant. *)
LEMMA ReleaseStep ==
  ASSUME IInv, NEW c \in CPUs, Release(c)
  PROVE  IInv'
<1>0. /\ pc[c] = "release"
      /\ pc' = [pc EXCEPT ![c] = pc'[c]]
      /\ pc'[c] \in {"user", "hlt"}
      /\ UNCHANGED <<table, entry, ncpu, ismp, bootcpu, lapicaddr, base, win, aps, mpentry_kstack, esp, tss, cpu_status, frame, ret, owner>>
  BY SmpAssumption DEF IInv, Release, Goto, CPUs, BSP, BootStack, bootVars,
     mapVars, startVars, stackVars, trapVars, lockVars, TypeOK, TrapInv,
     UnlockLabels
<1>1. TypeOK'
  BY SmpAssumption DEF IInv, Release, Goto, CPUs, BSP, BootStack, bootVars,
     mapVars, startVars, stackVars, trapVars, lockVars, TypeOK, Labels
<1>2. LockInv'
  BY SmpAssumption DEF IInv, Release, Goto, CPUs, BSP, BootStack, bootVars,
     mapVars, startVars, stackVars, trapVars, lockVars, LockInv, Holds,
     HoldLabels, MutualExclusion, TypeOK, Labels
<1>3. TrapInv'
  BY SmpAssumption DEF IInv, Release, Goto, CPUs, BSP, BootStack, bootVars,
     mapVars, startVars, stackVars, trapVars, lockVars, TrapInv, TypeOK, Labels,
     StartInv, LockLabels, UnlockLabels, WaitLabels, LoopLabels, EarlyLabels,
     StartLabels, UpLabels
<1>4. ScanInv'
  BY SmpAssumption DEF IInv, Release, Goto, CPUs, BSP, BootStack, bootVars,
     mapVars, startVars, stackVars, trapVars, lockVars, ScanInv, TypeOK, Labels,
     StartInv, LockLabels, UnlockLabels, WaitLabels, LoopLabels, EarlyLabels,
     StartLabels, UpLabels
<1>5. StartInv'
  BY SmpAssumption DEF IInv, Release, Goto, CPUs, BSP, BootStack, bootVars,
     mapVars, startVars, stackVars, trapVars, lockVars, StartInv, TypeOK,
     Labels, TrapInv, BeforeLoop, LockLabels, UnlockLabels, WaitLabels,
     LoopLabels, EarlyLabels, StartLabels, UpLabels
<1>6. StackInv'
  <2>1. \A d \in CPUs \ {BSP} :
           /\ pc'[d] \in {"off", "reset", "mpentry"} <=> pc[d] \in {"off", "reset", "mpentry"}
           /\ pc'[d] \in UpLabels \cup {"started"} <=> pc[d] \in UpLabels \cup {"started"}
    BY <1>0 DEF IInv, TypeOK, UpLabels, LockLabels, UnlockLabels
  <2>2. QED
    BY <1>0, <2>1 DEF IInv, StackInv
<1>7. MmioInv'
  BY <1>0, SmpAssumption DEF IInv, CPUs, BSP, BootStack, MmioInv, MmioDistinct,
     StartInv, TypeOK, Labels, BeforeLoop, TrapInv, LockLabels, UnlockLabels,
     WaitLabels, LoopLabels, EarlyLabels, StartLabels, UpLabels
<1>8. MutualExclusion'
  BY SmpAssumption DEF IInv, Release, Goto, CPUs, BSP, BootStack, bootVars,
     mapVars, startVars, stackVars, trapVars, lockVars, MutualExclusion,
     LockInv, Holds, HoldLabels, TypeOK, Labels
<1>9. QED
  BY <1>1, <1>2, <1>3, <1>4, <1>5, <1>6, <1>7, <1>8 DEF IInv

(* env_run keeps the invariant. *)
LEMMA env_runStep ==
  ASSUME IInv, NEW c \in CPUs, env_run(c)
  PROVE  IInv'
<1>0. /\ pc[c] = "kernel"
      /\ pc' = [pc EXCEPT ![c] = "unlock"]
      /\ ret' = [ret EXCEPT ![c] = "user"]
      /\ UNCHANGED <<table, entry, ncpu, ismp, bootcpu, lapicaddr, base, win, aps, mpentry_kstack, esp, tss, locked, owner, cpu_status, frame>>
  BY SmpAssumption DEF IInv, env_run, Goto, CPUs, BSP, BootStack, bootVars,
     mapVars, startVars, stackVars, trapVars, lockVars, TypeOK
<1>1. TypeOK'
  BY SmpAssumption DEF IInv, env_run, Goto, CPUs, BSP, BootStack, bootVars,
     mapVars, startVars, stackVars, trapVars, lockVars, TypeOK, Labels
<1>2. LockInv'
  BY SmpAssumption DEF IInv, env_run, Goto, CPUs, BSP, BootStack, bootVars,
     mapVars, startVars, stackVars, trapVars, lockVars, LockInv, Holds,
     HoldLabels, MutualExclusion, TypeOK, Labels
<1>3. TrapInv'
  <2> SUFFICES ASSUME NEW d \in CPUs
               PROVE  TrapInv!(d)'
    BY DEF TrapInv
  <2>1. pc[c] # "hlt" /\ cpu_status[c] # "HALTED"
    BY <1>0 DEF IInv, TrapInv, UnlockLabels
  <2>2. CASE d = c
    BY <1>0, <2>1, <2>2 DEF IInv, TrapInv, TypeOK, LockLabels, UnlockLabels,
       StartLabels, EarlyLabels
  <2>3. CASE d # c
    <3>1. pc'[d] = pc[d] /\ ret'[d] = ret[d] /\ cpu_status'[d] = cpu_status[d]
          /\ frame'[d] = frame[d]
      BY <1>0, <2>3 DEF IInv, TypeOK
    <3>2. QED
      BY <3>1 DEF IInv, TrapInv, BSP
  <2>4. QED
    BY <2>2, <2>3
<1>4. ScanInv'
  BY SmpAssumption DEF IInv, env_run, Goto, CPUs, BSP, BootStack, bootVars,
     mapVars, startVars, stackVars, trapVars, lockVars, ScanInv, TypeOK, Labels,
     StartInv, LockLabels, UnlockLabels, WaitLabels, LoopLabels, EarlyLabels,
     StartLabels, UpLabels
<1>5. StartInv'
  BY SmpAssumption DEF IInv, env_run, Goto, CPUs, BSP, BootStack, bootVars,
     mapVars, startVars, stackVars, trapVars, lockVars, StartInv, TypeOK,
     Labels, TrapInv, BeforeLoop, LockLabels, UnlockLabels, WaitLabels,
     LoopLabels, EarlyLabels, StartLabels, UpLabels
<1>6. StackInv'
  BY SmpAssumption DEF IInv, env_run, Goto, CPUs, BSP, BootStack, bootVars,
     mapVars, startVars, stackVars, trapVars, lockVars, StackInv, StartInv,
     TypeOK, Labels, TrapInv, LockLabels, UnlockLabels, WaitLabels, LoopLabels,
     EarlyLabels, StartLabels, UpLabels
<1>7. MmioInv'
  BY SmpAssumption DEF IInv, env_run, Goto, CPUs, BSP, BootStack, bootVars,
     mapVars, startVars, stackVars, trapVars, lockVars, MmioInv, MmioDistinct,
     StartInv, TypeOK, Labels, BeforeLoop, TrapInv, LockLabels, UnlockLabels,
     WaitLabels, LoopLabels, EarlyLabels, StartLabels, UpLabels
<1>8. MutualExclusion'
  BY SmpAssumption DEF IInv, env_run, Goto, CPUs, BSP, BootStack, bootVars,
     mapVars, startVars, stackVars, trapVars, lockVars, MutualExclusion,
     LockInv, Holds, HoldLabels, TypeOK, Labels
<1>9. QED
  BY <1>1, <1>2, <1>3, <1>4, <1>5, <1>6, <1>7, <1>8 DEF IInv

(* sched_halt keeps the invariant. *)
LEMMA sched_haltStep ==
  ASSUME IInv, NEW c \in CPUs, sched_halt(c)
  PROVE  IInv'
<1>0. /\ pc[c] = "kernel"
      /\ \/ /\ pc' = [pc EXCEPT ![c] = "monitor"]
            /\ UNCHANGED <<cpu_status, ret>>
         \/ /\ pc' = [pc EXCEPT ![c] = "unlock"]
            /\ cpu_status' = [cpu_status EXCEPT ![c] = "HALTED"]
            /\ ret' = [ret EXCEPT ![c] = "hlt"]
      /\ UNCHANGED <<table, entry, ncpu, ismp, bootcpu, lapicaddr, base, win, aps, mpentry_kstack, esp, tss, locked, owner, frame>>
  BY DEF sched_halt, Goto, bootVars, mapVars, startVars, stackVars, lockVars
<1>1. TypeOK'
  <2>1. pc' \in [CPUs -> Labels]
    BY <1>0 DEF IInv, TypeOK, Labels
  <2>2. /\ cpu_status' \in [CPUs -> {"UNUSED", "STARTED", "HALTED"}]
        /\ ret' \in [CPUs -> {"boot_aps", "trap_mode", "kernel", "user", "hlt"}]
    BY <1>0 DEF IInv, TypeOK
  <2>3. QED
    BY <1>0, <2>1, <2>2 DEF IInv, TypeOK
<1>h. \A d \in CPUs : Holds(d)' <=> Holds(d)
  BY <1>0 DEF IInv, TypeOK, Holds, HoldLabels
<1>2. LockInv'
  <2>1. \A d \in CPUs : pc'[d] \in {"own", "release"} <=> pc[d] \in {"own", "release"}
    BY <1>0 DEF IInv, TypeOK
  <2>2. owner' = owner /\ locked' = locked /\ owner \in CPUs \cup {NULL}
    BY <1>0 DEF IInv, TypeOK
  <2>3. QED
    BY <1>h, <2>1, <2>2 DEF IInv, LockInv
<1>c. \A d \in CPUs \ {c} : /\ pc'[d] = pc[d] /\ frame'[d] = frame[d]
                             /\ cpu_status'[d] = cpu_status[d] /\ ret'[d] = ret[d]
  BY <1>0 DEF IInv, TypeOK
<1>d. \/ pc'[c] = "monitor" /\ cpu_status'[c] = cpu_status[c] /\ ret'[c] = ret[c]
      \/ pc'[c] = "unlock" /\ cpu_status'[c] = "HALTED" /\ ret'[c] = "hlt"
  BY <1>0 DEF IInv, TypeOK
<1>3. TrapInv'
  <2>1. cpu_status[c] # "HALTED"
    BY <1>0 DEF IInv, TrapInv, UnlockLabels
  <2>2. QED
    BY <1>c, <1>d, <2>1 DEF IInv, TrapInv, LockLabels, UnlockLabels, StartLabels,
       EarlyLabels
<1>m. BSP \in CPUs
  BY SmpAssumption DEF CPUs, BSP
<1>4. ScanInv'
  <2>1. \A d \in CPUs : pc'[d] \in {"mp_init", "scan"} => pc'[d] = pc[d]
    BY <1>0 DEF IInv, TypeOK
  <2>2. QED
    BY <1>0, <1>m, <2>1 DEF IInv, ScanInv
<1>l. \A d \in CPUs :
         /\ pc'[d] \in UpLabels <=> pc[d] \in UpLabels
         /\ pc'[d] \in EarlyLabels <=> pc[d] \in EarlyLabels
         /\ pc'[d] \in LoopLabels <=> pc[d] \in LoopLabels
         /\ pc'[d] \in WaitLabels <=> pc[d] \in WaitLabels
         /\ pc'[d] \in StartLabels <=> pc[d] \in StartLabels
         /\ pc'[d] \in LockLabels <=> pc[d] \in LockLabels
         /\ pc'[d] = "boot_aps" <=> pc[d] = "boot_aps"
         /\ pc'[d] = "off" <=> pc[d] = "off"
  BY <1>0, <1>c, <1>d DEF UpLabels, LockLabels, UnlockLabels, EarlyLabels,
     LoopLabels, WaitLabels, StartLabels
<1>e. pc[c] \notin StartLabels \cup LockLabels \cup {"off"}
  BY <1>0 DEF StartLabels, LockLabels
<1>5. StartInv'
  BY <1>0, <1>c, <1>e, <1>l, <1>m DEF IInv, StartInv, BeforeLoop
<1>s. \A d \in CPUs :
         /\ pc'[d] \in UpLabels <=> pc[d] \in UpLabels
         /\ pc'[d] \in {"off", "reset", "mpentry"} <=> pc[d] \in {"off", "reset", "mpentry"}
         /\ pc'[d] = "started" <=> pc[d] = "started"
  BY <1>0 DEF IInv, TypeOK, UpLabels, LockLabels, UnlockLabels
<1>6. StackInv'
  BY <1>0, <1>s DEF IInv, StackInv, CPUs, BSP
<1>7. MmioInv'
  <2>1. \A d \in CPUs :
           /\ pc'[d] = "mapped" <=> pc[d] = "mapped"
           /\ pc'[d] = "init_ipi" <=> pc[d] = "init_ipi"
           /\ pc'[d] \in {"reset", "mpentry", "lapic_init", "mapped"}
                 <=> pc[d] \in {"reset", "mpentry", "lapic_init", "mapped"}
    BY <1>0, <1>c, <1>d
  <2>2. BeforeLoop' <=> BeforeLoop
    BY <1>c, <1>e, <1>l, <1>m DEF BeforeLoop
  <2>3. QED
    BY <1>0, <1>l, <1>m, <2>1, <2>2 DEF IInv, MmioInv, MmioDistinct
<1>8. MutualExclusion'
  BY <1>h DEF IInv, MutualExclusion
<1>9. QED
  BY <1>1, <1>2, <1>3, <1>4, <1>5, <1>6, <1>7, <1>8 DEF IInv

(* trap keeps the invariant. *)
LEMMA trapStep ==
  ASSUME IInv, NEW c \in CPUs, trap(c)
  PROVE  IInv'
<1>a. /\ pc[c] \in {"user", "hlt"} /\ UNCHANGED <<locked, owner>>
      /\ frame' = [frame EXCEPT ![c] = IF pc[c] = "user" THEN "user" ELSE "kernel"]
      /\ \/ pc' = [pc EXCEPT ![c] = "lock"]
         \/ pc[c] = "user" /\ pc' = [pc EXCEPT ![c] = "trap_mode"]
  BY DEF trap, Goto, lockVars, IInv, TrapInv
<1>b. ~Holds(c) /\ ~Holds(c)'
  BY <1>a DEF IInv, TypeOK, Holds, HoldLabels
<1>c. \A d \in CPUs \ {c} : pc'[d] = pc[d] /\ frame'[d] = frame[d]
  BY <1>a DEF IInv, TypeOK
<1>0. /\ \A d \in CPUs : Holds(d)' <=> Holds(d)
      /\ pc[c] \in {"user", "hlt"} /\ ~Holds(c) /\ UNCHANGED <<locked, owner>>
      /\ \A d \in CPUs \ {c} : pc'[d] = pc[d]
  BY <1>a, <1>b, <1>c DEF Holds
<1>1. TypeOK'
  BY SmpAssumption DEF IInv, trap, Goto, CPUs, BSP, BootStack, bootVars,
     mapVars, startVars, stackVars, trapVars, lockVars, TypeOK, Labels
<1>2. LockInv'
  BY <1>0, SmpAssumption DEF IInv, LockInv, TypeOK, CPUs
<1>3. TrapInv'
  <2>1. /\ cpu_status' = [cpu_status EXCEPT ![c] = "STARTED"]
        /\ ret' = [ret EXCEPT ![c] = "trap_mode"]
    BY DEF trap
  <2>2. pc[c] = "hlt" => pc' = [pc EXCEPT ![c] = "lock"]
    BY DEF trap, Goto, IInv, TrapInv
  <2>3. \/ pc'[c] = "trap_mode"
        \/ pc'[c] = "lock" /\ frame'[c] = "kernel"
    <3>1. CASE pc[c] = "hlt"
      BY <1>a, <2>2, <3>1 DEF IInv, TypeOK
    <3>2. CASE pc[c] = "user"
      <4>1. cpu_status[c] # "HALTED"
        BY <3>2 DEF IInv, TrapInv, UnlockLabels
      <4>2. QED
        BY <3>2, <4>1 DEF trap, Goto, IInv, TypeOK
    <3>3. QED
      BY <1>a, <3>1, <3>2
  <2>4. cpu_status'[c] = "STARTED" /\ ret'[c] = "trap_mode"
    BY <2>1 DEF IInv, TypeOK
  <2>5. \A d \in CPUs \ {c} : cpu_status'[d] = cpu_status[d] /\ ret'[d] = ret[d]
    BY <2>1 DEF IInv, TypeOK
  <2>6. QED
    BY <1>c, <2>3, <2>4, <2>5 DEF IInv, TrapInv, LockLabels, UnlockLabels,
       StartLabels, EarlyLabels
<1>4. ScanInv'
  BY SmpAssumption DEF IInv, trap, Goto, CPUs, BSP, BootStack, bootVars,
     mapVars, startVars, stackVars, trapVars, lockVars, ScanInv, TypeOK, Labels,
     StartInv, LockLabels, UnlockLabels, WaitLabels, LoopLabels, EarlyLabels,
     StartLabels, UpLabels
<1>5. StartInv'
  BY SmpAssumption DEF IInv, trap, Goto, CPUs, BSP, BootStack, bootVars,
     mapVars, startVars, stackVars, trapVars, lockVars, StartInv, TypeOK,
     Labels, TrapInv, BeforeLoop, LockLabels, UnlockLabels, WaitLabels,
     LoopLabels, EarlyLabels, StartLabels, UpLabels
<1>6. StackInv'
  BY SmpAssumption DEF IInv, trap, Goto, CPUs, BSP, BootStack, bootVars,
     mapVars, startVars, stackVars, trapVars, lockVars, StackInv, StartInv,
     TypeOK, Labels, TrapInv, LockLabels, UnlockLabels, WaitLabels, LoopLabels,
     EarlyLabels, StartLabels, UpLabels
<1>7. MmioInv'
  BY SmpAssumption DEF IInv, trap, Goto, CPUs, BSP, BootStack, bootVars,
     mapVars, startVars, stackVars, trapVars, lockVars, MmioInv, MmioDistinct,
     StartInv, TypeOK, Labels, BeforeLoop, TrapInv, LockLabels, UnlockLabels,
     WaitLabels, LoopLabels, EarlyLabels, StartLabels, UpLabels
<1>8. MutualExclusion'
  BY <1>0 DEF IInv, MutualExclusion
<1>9. QED
  BY <1>1, <1>2, <1>3, <1>4, <1>5, <1>6, <1>7, <1>8 DEF IInv

(* TrapMode keeps the invariant. *)
LEMMA TrapModeStep ==
  ASSUME IInv, NEW c \in CPUs, TrapMode(c)
  PROVE  IInv'
<1>0. /\ pc[c] = "trap_mode"
      /\ pc' = [pc EXCEPT ![c] = pc'[c]]
      /\ pc'[c] \in {"lock", "kernel"}
      /\ ret' = [ret EXCEPT ![c] = "kernel"]
      /\ UNCHANGED <<table, entry, ncpu, ismp, bootcpu, lapicaddr, base, win, aps, mpentry_kstack, esp, tss, locked, owner, cpu_status, frame>>
  BY SmpAssumption DEF IInv, TrapMode, Goto, CPUs, BSP, BootStack, bootVars,
     mapVars, startVars, stackVars, trapVars, lockVars, TypeOK
<1>1. TypeOK'
  BY SmpAssumption DEF IInv, TrapMode, Goto, CPUs, BSP, BootStack, bootVars,
     mapVars, startVars, stackVars, trapVars, lockVars, TypeOK, Labels
<1>2. LockInv'
  BY SmpAssumption DEF IInv, TrapMode, Goto, CPUs, BSP, BootStack, bootVars,
     mapVars, startVars, stackVars, trapVars, lockVars, LockInv, Holds,
     HoldLabels, MutualExclusion, TypeOK, Labels
<1>3. TrapInv'
  BY <1>0, SmpAssumption DEF IInv, CPUs, BSP, BootStack, TrapInv, TypeOK,
     Labels, StartInv, LockLabels, UnlockLabels, WaitLabels, LoopLabels,
     EarlyLabels, StartLabels, UpLabels
<1>4. ScanInv'
  BY SmpAssumption DEF IInv, TrapMode, Goto, CPUs, BSP, BootStack, bootVars,
     mapVars, startVars, stackVars, trapVars, lockVars, ScanInv, TypeOK, Labels,
     StartInv, LockLabels, UnlockLabels, WaitLabels, LoopLabels, EarlyLabels,
     StartLabels, UpLabels
<1>5. StartInv'
  BY SmpAssumption DEF IInv, TrapMode, Goto, CPUs, BSP, BootStack, bootVars,
     mapVars, startVars, stackVars, trapVars, lockVars, StartInv, TypeOK,
     Labels, TrapInv, BeforeLoop, LockLabels, UnlockLabels, WaitLabels,
     LoopLabels, EarlyLabels, StartLabels, UpLabels
<1>6. StackInv'
  BY SmpAssumption DEF IInv, TrapMode, Goto, CPUs, BSP, BootStack, bootVars,
     mapVars, startVars, stackVars, trapVars, lockVars, StackInv, StartInv,
     TypeOK, Labels, TrapInv, LockLabels, UnlockLabels, WaitLabels, LoopLabels,
     EarlyLabels, StartLabels, UpLabels
<1>7. MmioInv'
  BY SmpAssumption DEF IInv, TrapMode, Goto, CPUs, BSP, BootStack, bootVars,
     mapVars, startVars, stackVars, trapVars, lockVars, MmioInv, MmioDistinct,
     StartInv, TypeOK, Labels, BeforeLoop, TrapInv, LockLabels, UnlockLabels,
     WaitLabels, LoopLabels, EarlyLabels, StartLabels, UpLabels
<1>8. MutualExclusion'
  BY SmpAssumption DEF IInv, TrapMode, Goto, CPUs, BSP, BootStack, bootVars,
     mapVars, startVars, stackVars, trapVars, lockVars, MutualExclusion,
     LockInv, Holds, HoldLabels, TypeOK, Labels
<1>9. QED
  BY <1>1, <1>2, <1>3, <1>4, <1>5, <1>6, <1>7, <1>8 DEF IInv

-----------------------------------------------------------------------------
(* The invariant holds at the start, through every step, and so always. *)

(* Init establishes it. *)
LEMMA IInvInit ==
  Init => IInv
<1>1. SUFFICES ASSUME Init PROVE IInv
  OBVIOUS
<1>2. TypeOK
  <2>0. NCPU \in Nat /\ 0 \in CPUs /\ MMIOPAGES \in Nat
    BY SmpAssumption DEF CPUs
  <2>1. /\ table \in Tables \cup {NULL} /\ entry \in Nat /\ ncpu \in 0..NCPU
        /\ bootcpu \in CPUs
        /\ base \in 0..MMIOPAGES /\ aps \in 0..NCPU
        /\ locked \in {0, 1} /\ owner = NULL /\ mpentry_kstack = NULL
    BY <1>1, <2>0 DEF Init, BSP
  <2>2. /\ win \in [CPUs -> 0..(MMIOPAGES - 1) \cup {NULL}]
        /\ esp \in [CPUs -> CPUs \cup {BootStack, NULL}]
        /\ tss \in [CPUs -> CPUs \cup {NULL}]
    BY <1>1, <2>0 DEF Init, BSP
  <2>3. /\ cpu_status \in [CPUs -> {"UNUSED", "STARTED", "HALTED"}]
        /\ frame \in [CPUs -> {"user", "kernel"}]
        /\ ret \in [CPUs -> {"boot_aps", "trap_mode", "kernel", "user", "hlt"}]
        /\ pc \in [CPUs -> Labels]
    BY <1>1 DEF Init, Labels
  <2>4. ismp \in BOOLEAN /\ lapicaddr \in BOOLEAN
    BY <1>1, Zenon DEF Init
  <2>5. QED
    BY <2>1, <2>2, <2>3, <2>4 DEF TypeOK
<1>3. LockInv /\ MutualExclusion
  BY <1>1, SmpAssumption DEF Init, LockInv, MutualExclusion, Holds, HoldLabels, CPUs, BSP
<1>4. TrapInv
  BY <1>1, SmpAssumption DEF Init, TrapInv, CPUs, BSP, LockLabels, UnlockLabels, StartLabels,
     EarlyLabels
<1>5. ScanInv
  BY <1>1, SmpAssumption DEF Init, ScanInv, CPUs, BSP
<1>6. StartInv
  BY <1>1, SmpAssumption DEF Init, StartInv, CPUs, BSP, EarlyLabels, LoopLabels, WaitLabels,
     StartLabels, UpLabels, LockLabels, UnlockLabels, BeforeLoop
<1>7. StackInv
  BY <1>1, SmpAssumption DEF Init, StackInv, CPUs, BSP, BootStack, UpLabels, LockLabels,
     UnlockLabels
<1>8. MmioInv
  BY <1>1, SmpAssumption DEF Init, MmioInv, MmioDistinct, CPUs, BSP, LoopLabels, WaitLabels
<1>9. QED
  BY <1>2, <1>3, <1>4, <1>5, <1>6, <1>7, <1>8 DEF IInv

(* A step that changes nothing keeps it. *)
LEMMA IInvStutter ==
  ASSUME IInv, UNCHANGED vars
  PROVE  IInv'
BY DEF IInv, vars, bootVars, mapVars, startVars, stackVars, trapVars, lockVars, TypeOK,
   LockInv, TrapInv, ScanInv, StartInv, StackInv, MmioInv, MutualExclusion, Holds,
   MmioDistinct, BeforeLoop

(* Every step keeps it. *)
LEMMA IInvNext ==
  ASSUME IInv, [Next]_vars
  PROVE  IInv'
<1>1. CASE BootStep
  BY <1>1, mp_initStep, ScanEntryStep, ScanDoneStep, boot_apsStep, lapic_startapStep,
     WaitStartedStep DEF BootStep
<1>2. ASSUME NEW c \in CPUs, CpuStep(c) PROVE IInv'
  BY <1>2, lapic_initStep, mmio_map_regionStep, mpentry_startStep, trap_init_percpuStep,
     mp_mainStep, LockCheckStep, ExchangeStep, OwnStep, UnlockCheckStep, DisownStep,
     ReleaseStep, env_runStep, sched_haltStep, trapStep, TrapModeStep, IInvStutter
  DEF CpuStep, MonitorLoop
<1>3. CASE UNCHANGED vars
  BY <1>3, IInvStutter
<1>4. QED
  BY <1>1, <1>2, <1>3 DEF Next

(* The inductive invariant: the lock word, the start-up hand-shake, the     *)
(* stacks and the MMIO pages agree with where every CPU is.                 *)
THEOREM SmpInvariant == Spec => []IInv
BY IInvInit, IInvNext, PTL DEF Spec

(* The start-up and lock state keeps its type; in particular the scan of    *)
(* the table never counts more CPUs than cpus[] holds.                      *)
THEOREM SmpTypeCorrect == Spec => []TypeOK
<1>1. IInv => TypeOK
  BY DEF IInv
<1>2. QED
  BY <1>1, SmpInvariant, PTL

(* Two CPUs are never in the kernel together. *)
THEOREM LockExcludes == Spec => []MutualExclusion
<1>1. IInv => MutualExclusion
  BY DEF IInv
<1>2. QED
  BY <1>1, SmpInvariant, PTL

(* No check of the lock and no reservation of MMIO pages ever panics. *)
THEOREM NoPanic == Spec => []NeverPanics
<1>1. IInv => NeverPanics
  BY DEF IInv, TrapInv, NeverPanics
<1>2. QED
  BY <1>1, SmpInvariant, PTL

(* Every CPU has a stack of its own. *)
THEOREM OwnStacks == Spec => []StacksDistinct
<1>1. IInv => StacksDistinct
  BY SmpAssumption DEF IInv, StackInv, StacksDistinct, CPUs, BSP, BootStack
<1>2. QED
  BY <1>1, SmpInvariant, PTL

(* Every CPU has an MMIO page of its own. *)
THEOREM OwnWindows == Spec => []MmioDistinct
<1>1. IInv => MmioDistinct
  BY DEF IInv, MmioInv
<1>2. QED
  BY <1>1, SmpInvariant, PTL

-----------------------------------------------------------------------------
(* The refinement. *)

(* holder is the CPU that has the lock. *)
LEMMA HolderIs ==
  ASSUME MutualExclusion, NEW c \in CPUs, Holds(c)
  PROVE  holder = c
<1>1. (CHOOSE d \in CPUs : Holds(d)) \in CPUs /\ Holds(CHOOSE d \in CPUs : Holds(d))
  OBVIOUS
<1>2. QED
  BY <1>1 DEF holder, MutualExclusion

(* holder is NULL when no CPU has it. *)
LEMMA HolderNone ==
  ASSUME \A c \in CPUs : ~Holds(c)
  PROVE  holder = NULL
BY DEF holder

(* Every step leaves the holders as they are, or is the exchange that finds *)
(* the lock free, or the one that frees it.                                 *)
LEMMA LockMoves ==
  ASSUME IInv, [Next]_vars
  PROVE  \/ \A d \in CPUs : Holds(d)' <=> Holds(d)
         \/ \E c \in CPUs : /\ \A d \in CPUs : ~Holds(d)
                            /\ Holds(c)'
         \/ \E c \in CPUs : /\ Holds(c)
                            /\ \A d \in CPUs : ~Holds(d)'
<1> DEFINE Same == \A d \in CPUs : Holds(d)' <=> Holds(d)
<1>1. CASE BootStep
  <2>1. CASE mp_init \/ ScanEntry \/ ScanDone
    BY <2>1, SmpAssumption DEF mp_init, ScanEntry, ScanDone, IInv, TypeOK, Holds,
       HoldLabels, Goto,
       trapVars, CPUs, BSP
  <2>2. CASE boot_aps \/ WaitStarted
    BY <2>2, SmpAssumption DEF boot_aps, WaitStarted, IInv, TypeOK, Holds, HoldLabels, Goto,
       trapVars, CPUs, BSP
  <2>3. CASE lapic_startap
    <3>1. aps \in CPUs \ {BSP}
      BY <2>3, SmpAssumption DEF lapic_startap, IInv, TypeOK, StartInv, LoopLabels, WaitLabels,
         CPUs, BSP
    <3>2. pc[BSP] = "init_ipi" => pc[aps] = "off"
      BY <2>3, <3>1, SmpAssumption DEF IInv, StartInv, LoopLabels, WaitLabels, CPUs, BSP
    <3>3. frame' = frame /\ \A d \in CPUs \ {BSP, aps} : pc'[d] = pc[d]
      BY <2>3, <3>1 DEF lapic_startap, IInv, TypeOK, trapVars
    <3>4. /\ pc[BSP] \in {"init_ipi", "startup_ipi", "startup_ipi2"}
          /\ pc'[BSP] \in {"startup_ipi", "startup_ipi2", "wait"}
      BY <2>3, <3>1, SmpAssumption DEF lapic_startap, IInv, TypeOK, CPUs, BSP
    <3>5. \/ pc'[aps] = pc[aps]
          \/ pc[aps] \in {"off", "reset"} /\ pc'[aps] \in {"reset", "mpentry"}
      BY <2>3, <3>1, <3>2, SmpAssumption DEF lapic_startap, IInv, TypeOK, CPUs, BSP
    <3>6. QED
      BY <3>1, <3>3, <3>4, <3>5 DEF Holds, HoldLabels
  <2>4. QED
    BY <1>1, <2>1, <2>2, <2>3 DEF BootStep
<1>2. ASSUME NEW c \in CPUs, CpuStep(c)
      PROVE  \/ Same
             \/ (\A d \in CPUs : ~Holds(d)) /\ Holds(c)'
             \/ Holds(c) /\ \A d \in CPUs : ~Holds(d)'
  <2>1. CASE lapic_init(c) \/ mmio_map_region(c) \/ mpentry_start(c)
    BY <2>1, SmpAssumption DEF lapic_init, mmio_map_region, mpentry_start, IInv, TypeOK,
       Holds, HoldLabels,
       Goto, trapVars
  <2>2. CASE trap_init_percpu(c) \/ mp_main(c)
    BY <2>2 DEF trap_init_percpu, mp_main, IInv, TypeOK, Holds, HoldLabels, Goto, trapVars
  <2>3. CASE LockCheck(c)
    BY <2>3 DEF LockCheck, IInv, TypeOK, Holds, HoldLabels, Goto, trapVars
  <2>4. CASE Exchange(c)
    BY <2>4 DEF Exchange, IInv, TypeOK, LockInv, Holds, HoldLabels, Goto, trapVars
  <2>5. CASE Own(c)
    BY <2>5 DEF Own, IInv, TypeOK, TrapInv, LockLabels, Holds, HoldLabels, Goto, trapVars
  <2>6. CASE UnlockCheck(c)
    <3>1. pc[c] \in {"unlock", "unlock2"} /\ pc'[c] \in {"unlock2", "disown"}
      BY <2>6 DEF UnlockCheck, IInv, TypeOK, LockInv, Holds, HoldLabels, Goto
    <3>2. QED
      BY <2>6, <3>1 DEF UnlockCheck, IInv, TypeOK, Holds, HoldLabels, Goto, trapVars
  <2>7. CASE Disown(c)
    BY <2>7 DEF Disown, IInv, TypeOK, Holds, HoldLabels, Goto, trapVars
  <2>8. CASE Release(c)
    <3>1. \A d \in CPUs : ~Holds(d)'
      BY <2>8, ReleaseStep DEF Release, IInv, LockInv
    <3>2. QED
      BY <2>8, <3>1 DEF Release, Holds, HoldLabels
  <2>9. CASE env_run(c) \/ sched_halt(c)
    BY <2>9 DEF env_run, sched_halt, IInv, TypeOK, Holds, HoldLabels, Goto, trapVars
  <2>10. CASE trap(c) \/ TrapMode(c)
    BY <2>10 DEF trap, TrapMode, IInv, TypeOK, TrapInv, UnlockLabels, Holds, HoldLabels, Goto
  <2>11. CASE MonitorLoop(c)
    BY <2>11 DEF MonitorLoop, vars, trapVars, Holds
  <2>12. QED
    BY <1>2, <2>1, <2>2, <2>3, <2>4, <2>5, <2>6, <2>7, <2>8, <2>9, <2>10, <2>11 DEF CpuStep
<1>3. CASE UNCHANGED vars
  BY <1>3 DEF vars, trapVars, Holds
<1>4. QED
  BY <1>1, <1>2, <1>3 DEF Next

(* The spin lock implements the atomic lock that Kernel is written with. *)
THEOREM LockRefinement == Spec => ImplementsBigLock
<1>1. Init => Lock!Init
  <2>1. SUFFICES ASSUME Init PROVE holder = NULL
    BY DEF Lock!Init
  <2>2. \A c \in CPUs : ~Holds(c)
    BY <2>1, SmpAssumption DEF Init, Holds, HoldLabels, CPUs, BSP
  <2>3. QED
    BY <2>2, HolderNone
<1>2. ASSUME IInv, IInv', [Next]_vars PROVE [Lock!Next]_holder
  <2>1. MutualExclusion /\ MutualExclusion'
    BY <1>2 DEF IInv
  <2>2. CASE \A d \in CPUs : Holds(d)' <=> Holds(d)
    <3>1. CASE \E c \in CPUs : Holds(c)
      <4>1. PICK c \in CPUs : Holds(c)
        BY <3>1
      <4>2. holder = c
        BY <2>1, <4>1, HolderIs
      <4>3. Holds(c)'
        BY <2>2, <4>1
      <4>4. holder' = c
        BY <4>3, <2>1 DEF holder, MutualExclusion
      <4>5. QED
        BY <4>2, <4>4
    <3>2. CASE ~\E c \in CPUs : Holds(c)
      BY <3>2, <2>2 DEF holder
    <3>3. QED
      BY <3>1, <3>2
  <2>3. CASE \E c \in CPUs : (\A d \in CPUs : ~Holds(d)) /\ Holds(c)'
    <3>1. PICK c \in CPUs : (\A d \in CPUs : ~Holds(d)) /\ Holds(c)'
      BY <2>3
    <3>2. holder = NULL
      BY <3>1 DEF holder
    <3>3. holder' = c
      BY <3>1, <2>1 DEF holder, MutualExclusion
    <3>4. QED
      BY <3>2, <3>3 DEF Lock!Next, Lock!Acquire
  <2>4. CASE \E c \in CPUs : Holds(c) /\ \A d \in CPUs : ~Holds(d)'
    <3>1. PICK c \in CPUs : Holds(c) /\ \A d \in CPUs : ~Holds(d)'
      BY <2>4
    <3>2. holder = c
      BY <3>1, <2>1, HolderIs
    <3>3. holder' = NULL
      BY <3>1 DEF holder
    <3>4. QED
      BY <3>2, <3>3 DEF Lock!Next, Lock!Release
  <2>5. QED
    BY <1>2, <2>2, <2>3, <2>4, LockMoves
<1>3. QED
  BY <1>1, <1>2, SmpInvariant, PTL DEF Spec, ImplementsBigLock, Lock!Spec
=============================================================================
