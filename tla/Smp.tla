-------------------------------- MODULE Smp --------------------------------
(***************************************************************************)
(* How the CPUs of the machine start and share the kernel: the scan of the *)
(* multiprocessor table (kern/mpconfig.c), the start-up of one application *)
(* processor after the other (boot_aps(), lapic_startap(), mpentry.S,      *)
(* mp_main()), and the spin lock they all contend for (kern/spinlock.c),   *)
(* with every access to a shared word a step of its own.                   *)
(*                                                                         *)
(* A CPU is known by the number its local APIC reports (cpunum()), which   *)
(* is its index in cpus[].                                                 *)
(***************************************************************************)
EXTENDS Integers, Sequences

CONSTANTS NCPU,      \* length of cpus[] and percpu_kstacks[]
          MMIOPAGES, \* pages between MMIOBASE and MMIOLIM
          Tables,    \* the multiprocessor tables a machine may have
          NULL       \* no table, no CPU, no stack

CPUs == 0..(NCPU - 1)
BSP == 0
BootStack == NCPU    \* bootstack of entry.S, beside the stacks of the CPUs

EntryTypes == {"boot", "proc", "other", "unknown"}
IsProc(type) == type \in {"boot", "proc"}

(* cpus[] has room, so has the MMIO region, and the firmware lists the boot *)
(* processor, whose APIC id is 0, before the others: trap_init() runs when  *)
(* cpunum() is still 0 and gives it the first task state segment.           *)
ASSUME SmpAssumption ==
    /\ NCPU \in Nat \ {0}
    /\ MMIOPAGES \in Nat /\ MMIOPAGES >= NCPU
    /\ NULL \notin Int
    /\ \A t \in Tables :
          /\ t.entries \in Seq(EntryTypes)
          /\ \A i, j \in 1..Len(t.entries) :
                i < j /\ IsProc(t.entries[i]) => t.entries[j] # "boot"

VARIABLES
    table,          \* what the firmware left in memory
    entry,          \* the next entry of it to look at
    ncpu, ismp,     \* as in mpconfig.c
    bootcpu,        \* the index of the boot processor
    lapicaddr,      \* a local APIC was found
    base,           \* mmio_map_region(): the next page to hand out
    win,            \* per CPU: the page its lapic_init() was given
    aps,            \* boot_aps(): the CPU being started
    mpentry_kstack, \* the stack for the CPU being started
    esp,            \* per CPU: whose stack it is on
    tss,            \* per CPU: the stack its task state segment names
    cpu_status,     \* per CPU
    frame,          \* per CPU: where its last trap came from
    ret,            \* per CPU: where spin_lock() or spin_unlock() returns to
    locked, owner,  \* kernel_lock.locked and kernel_lock.cpu
    pc              \* per CPU: what it is about to execute

bootVars == <<table, entry, ncpu, ismp, bootcpu, lapicaddr>>
mapVars == <<base, win>>
startVars == <<aps, mpentry_kstack>>
stackVars == <<esp, tss>>
trapVars == <<cpu_status, frame, ret>>
lockVars == <<locked, owner>>
vars == <<bootVars, mapVars, startVars, stackVars, trapVars, lockVars, pc>>

Goto(c, l) == pc' = [pc EXCEPT ![c] = l]

(* Whether the table passes the tests of mpconfig(). *)
mpconfig(t) ==
    /\ t # NULL
    /\ ~t.default
    /\ t.signature
    /\ t.checksum
    /\ t.version \in {1, 4}
    /\ t.xchecksum

(* The boot CPU is about to call mp_init(): it runs on bootstack, and       *)
(* trap_init() has given it task state segment 0.                           *)
Init ==
    /\ table \in Tables \cup {NULL}
    /\ entry = 1
    /\ ncpu = 0
    /\ ismp = FALSE
    /\ bootcpu = BSP
    /\ lapicaddr = FALSE
    /\ base = 0
    /\ win = [c \in CPUs |-> NULL]
    /\ aps = 0
    /\ mpentry_kstack = NULL
    /\ esp = [c \in CPUs |-> IF c = BSP THEN BootStack ELSE NULL]
    /\ tss = [c \in CPUs |-> IF c = BSP THEN BSP ELSE NULL]
    /\ cpu_status = [c \in CPUs |-> "UNUSED"]
    /\ frame = [c \in CPUs |-> "kernel"]
    /\ ret = [c \in CPUs |-> IF c = BSP THEN "boot_aps" ELSE "kernel"]
    /\ locked = 0
    /\ owner = NULL
    /\ pc = [c \in CPUs |-> IF c = BSP THEN "mp_init" ELSE "off"]

-----------------------------------------------------------------------------
(* The multiprocessor table. *)

mp_init ==
    /\ pc[BSP] = "mp_init"
    /\ IF mpconfig(table)
       THEN ismp' = TRUE /\ lapicaddr' = TRUE /\ Goto(BSP, "scan")
       ELSE Goto(BSP, "lapic_init") /\ UNCHANGED <<ismp, lapicaddr>>
    /\ bootcpu' = 0
    /\ UNCHANGED <<table, entry, ncpu, mapVars, startVars, stackVars, trapVars, lockVars>>

(* Mutant: more processors are counted than cpus[] holds. *)
ScanEntry_NoLimit ==
    /\ pc[BSP] = "scan"
    /\ entry <= Len(table.entries)
    /\ LET type == table.entries[entry] IN
       /\ bootcpu' = IF type = "boot" THEN ncpu ELSE bootcpu
       /\ ncpu' = IF IsProc(type) THEN ncpu + 1 ELSE ncpu
       /\ ismp' = (ismp /\ type # "unknown")
       /\ entry' = IF type = "unknown" THEN Len(table.entries) + 1 ELSE entry + 1
    /\ UNCHANGED <<table, lapicaddr, mapVars, startVars, stackVars, trapVars, lockVars, pc>>

(* One turn of the loop over the entries.  An unknown entry ends it. *)
ScanEntry ==
    /\ pc[BSP] = "scan"
    /\ entry <= Len(table.entries)
    /\ LET type == table.entries[entry] IN
       /\ bootcpu' = IF type = "boot" THEN ncpu ELSE bootcpu
       /\ ncpu' = IF IsProc(type) /\ ncpu < NCPU THEN ncpu + 1 ELSE ncpu
       /\ ismp' = (ismp /\ type # "unknown")
       /\ entry' = IF type = "unknown" THEN Len(table.entries) + 1 ELSE entry + 1
    /\ UNCHANGED <<table, lapicaddr, mapVars, startVars, stackVars, trapVars, lockVars, pc>>

ScanDone ==
    /\ pc[BSP] = "scan"
    /\ entry > Len(table.entries)
    /\ ncpu' = IF ismp THEN ncpu ELSE 1
    /\ lapicaddr' = ismp
    /\ cpu_status' = [cpu_status EXCEPT ![bootcpu] = "STARTED"]
    /\ Goto(BSP, "lapic_init")
    /\ UNCHANGED <<table, entry, ismp, bootcpu, mapVars, startVars, stackVars, frame, ret,
                   lockVars>>

-----------------------------------------------------------------------------
(* Setting up the local APIC: every CPU maps a page of its own for it,      *)
(* without a lock, between the read and the update of a static variable.    *)

lapic_init(c) ==
    /\ pc[c] = "lapic_init"
    /\ \/ /\ ~lapicaddr
          /\ Goto(c, IF c = BSP THEN "lock" ELSE "percpu")
          /\ UNCHANGED win
       \/ /\ lapicaddr
          /\ Goto(c, IF base < MMIOPAGES THEN "mapped" ELSE "panic")
          /\ win' = IF base < MMIOPAGES THEN [win EXCEPT ![c] = base] ELSE win
    /\ UNCHANGED <<bootVars, base, startVars, stackVars, trapVars, lockVars>>
(* Mutant: i386_init() starts the other CPUs without the lock. *)
mmio_map_region_NoLock(c) ==
    /\ pc[c] = "mapped"
    /\ base' = win[c] + 1
    /\ Goto(c, IF c = BSP THEN "boot_aps" ELSE "percpu")
    /\ UNCHANGED <<bootVars, win, startVars, stackVars, trapVars, lockVars>>

mmio_map_region(c) ==
    /\ pc[c] = "mapped"
    /\ base' = win[c] + 1
    /\ Goto(c, IF c = BSP THEN "lock" ELSE "percpu")
    /\ UNCHANGED <<bootVars, win, startVars, stackVars, trapVars, lockVars>>

-----------------------------------------------------------------------------
(* Starting the other CPUs. *)

boot_aps ==
    /\ pc[BSP] = "boot_aps"
    /\ \/ /\ aps >= ncpu
          /\ Goto(BSP, "kernel")
          /\ UNCHANGED startVars
       \/ /\ aps < ncpu /\ aps = BSP
          /\ aps' = aps + 1
          /\ UNCHANGED <<mpentry_kstack, pc>>
       \/ /\ aps < ncpu /\ aps # BSP
          /\ mpentry_kstack' = aps
          /\ Goto(BSP, "init_ipi")
          /\ UNCHANGED aps
    /\ UNCHANGED <<bootVars, mapVars, stackVars, trapVars, lockVars>>

(* INIT resets the CPU, the first STARTUP sends it to mpentry_start, and it *)
(* ignores the second.                                                      *)
lapic_startap ==
    /\ \/ /\ pc[BSP] = "init_ipi"
          /\ pc' = [pc EXCEPT ![BSP] = "startup_ipi", ![aps] = "reset"]
       \/ /\ pc[BSP] = "startup_ipi"
          /\ pc' = [pc EXCEPT ![BSP] = "startup_ipi2",
                              ![aps] = IF @ = "reset" THEN "mpentry" ELSE @]
       \/ /\ pc[BSP] = "startup_ipi2"
          /\ pc' = [pc EXCEPT ![BSP] = "wait",
                              ![aps] = IF @ = "reset" THEN "mpentry" ELSE @]
    /\ UNCHANGED <<bootVars, mapVars, startVars, stackVars, trapVars, lockVars>>
(* Mutant: boot_aps() does not wait. *)
WaitStarted_NoWait ==
    /\ pc[BSP] = "wait"
    /\ aps' = aps + 1
    /\ Goto(BSP, "boot_aps")
    /\ UNCHANGED <<bootVars, mapVars, mpentry_kstack, stackVars, trapVars, lockVars>>

WaitStarted ==
    /\ pc[BSP] = "wait"
    /\ cpu_status[aps] = "STARTED"
    /\ aps' = aps + 1
    /\ Goto(BSP, "boot_aps")
    /\ UNCHANGED <<bootVars, mapVars, mpentry_kstack, stackVars, trapVars, lockVars>>

mpentry_start(c) ==
    /\ pc[c] = "mpentry"
    /\ esp' = [esp EXCEPT ![c] = mpentry_kstack]
    /\ Goto(c, "lapic_init")
    /\ UNCHANGED <<bootVars, mapVars, startVars, tss, trapVars, lockVars>>

trap_init_percpu(c) ==
    /\ pc[c] = "percpu"
    /\ tss' = [tss EXCEPT ![c] = c]
    /\ Goto(c, "started")
    /\ UNCHANGED <<bootVars, mapVars, startVars, esp, trapVars, lockVars>>

mp_main(c) ==
    /\ pc[c] = "started"
    /\ cpu_status' = [cpu_status EXCEPT ![c] = "STARTED"]
    /\ Goto(c, "lock")
    /\ UNCHANGED <<bootVars, mapVars, startVars, stackVars, frame, ret, lockVars>>

-----------------------------------------------------------------------------
(* kern/spinlock.c.  holding() reads the two words one after the other. *)

(* spin_lock(): the check that this CPU does not hold the lock. *)
LockCheck(c) ==
    /\ \/ pc[c] = "lock" /\ Goto(c, IF locked = 0 THEN "spin" ELSE "lock2")
       \/ pc[c] = "lock2" /\ Goto(c, IF owner = c THEN "panic" ELSE "spin")
    /\ UNCHANGED <<bootVars, mapVars, startVars, stackVars, trapVars, lockVars>>

(* Mutant: a single exchange instead of a loop. *)
Exchange_Once(c) ==
    /\ pc[c] = "spin"
    /\ locked' = 1
    /\ Goto(c, "own")
    /\ UNCHANGED <<bootVars, mapVars, startVars, stackVars, trapVars, owner>>

(* while (xchg(&lk->locked, 1) != 0) *)
Exchange(c) ==
    /\ pc[c] = "spin"
    /\ locked' = 1
    /\ Goto(c, IF locked = 0 THEN "own" ELSE "spin")
    /\ UNCHANGED <<bootVars, mapVars, startVars, stackVars, trapVars, owner>>

Own(c) ==
    /\ pc[c] = "own"
    /\ owner' = c
    /\ Goto(c, ret[c])
    /\ UNCHANGED <<bootVars, mapVars, startVars, stackVars, trapVars, locked>>

(* spin_unlock(): the check that this CPU holds the lock. *)
UnlockCheck(c) ==
    /\ \/ pc[c] = "unlock" /\ Goto(c, IF locked = 0 THEN "panic" ELSE "unlock2")
       \/ pc[c] = "unlock2" /\ Goto(c, IF owner # c THEN "panic" ELSE "disown")
    /\ UNCHANGED <<bootVars, mapVars, startVars, stackVars, trapVars, lockVars>>

(* Mutant: lk->cpu is left as it is. *)
Disown_Kept(c) ==
    /\ pc[c] = "disown"
    /\ Goto(c, "release")
    /\ UNCHANGED <<bootVars, mapVars, startVars, stackVars, trapVars, lockVars>>

(* The last two steps of spin_unlock(): lk->cpu = 0, then the exchange. *)
Disown(c) ==
    /\ pc[c] = "disown"
    /\ owner' = NULL
    /\ Goto(c, "release")
    /\ UNCHANGED <<bootVars, mapVars, startVars, stackVars, trapVars, locked>>

(* Mutant: the lock word is not cleared. *)
Release_Forgotten(c) ==
    /\ pc[c] = "release"
    /\ Goto(c, ret[c])
    /\ UNCHANGED <<bootVars, mapVars, startVars, stackVars, trapVars, lockVars>>

Release(c) ==
    /\ pc[c] = "release"
    /\ locked' = 0
    /\ Goto(c, ret[c])
    /\ UNCHANGED <<bootVars, mapVars, startVars, stackVars, trapVars, owner>>

-----------------------------------------------------------------------------
(* In and out of the kernel. *)

env_run(c) ==
    /\ pc[c] = "kernel"
    /\ ret' = [ret EXCEPT ![c] = "user"]
    /\ Goto(c, "unlock")
    /\ UNCHANGED <<bootVars, mapVars, startVars, stackVars, cpu_status, frame, lockVars>>

(* CPU d runs an environment, or has trapped from one and not got the lock. *)
Executing(d) ==
    \/ pc[d] = "user"
    \/ frame[d] = "user" /\ pc[d] \in {"trap_mode", "lock", "lock2", "spin"}

(* sched_yield() has found no RUNNABLE environment, so the loop over envs[] *)
(* finds one exactly if another CPU has one (StatusMatchesCpu of Kernel).   *)
(* If none has, the CPU stays in the monitor and keeps the lock.            *)
sched_halt(c) ==
    /\ pc[c] = "kernel"
    /\ \/ /\ \A d \in CPUs \ {c} : ~Executing(d)
          /\ Goto(c, "monitor")
          /\ UNCHANGED <<cpu_status, ret>>
       \/ /\ \E d \in CPUs \ {c} : Executing(d)
          /\ cpu_status' = [cpu_status EXCEPT ![c] = "HALTED"]
          /\ ret' = [ret EXCEPT ![c] = "hlt"]
          /\ Goto(c, "unlock")
    /\ UNCHANGED <<bootVars, mapVars, startVars, stackVars, frame, lockVars>>

(* while (1) monitor(NULL); *)
MonitorLoop(c) == pc[c] = "monitor" /\ UNCHANGED vars

(* A trap or an interrupt: the hardware switches to the stack of the task   *)
(* state segment, where sched_halt() has left a halted CPU already.         *)
trap(c) ==
    /\ pc[c] \in {"user", "hlt"}
    /\ esp' = [esp EXCEPT ![c] = tss[c]]
    /\ frame' = [frame EXCEPT ![c] = IF pc[c] = "user" THEN "user" ELSE "kernel"]
    /\ cpu_status' = [cpu_status EXCEPT ![c] = "STARTED"]
    /\ ret' = [ret EXCEPT ![c] = "trap_mode"]
    /\ Goto(c, IF cpu_status[c] = "HALTED" THEN "lock" ELSE "trap_mode")
    /\ UNCHANGED <<bootVars, mapVars, startVars, tss, lockVars>>

TrapMode(c) ==
    /\ pc[c] = "trap_mode"
    /\ ret' = [ret EXCEPT ![c] = "kernel"]
    /\ Goto(c, IF frame[c] = "user" THEN "lock" ELSE "kernel")
    /\ UNCHANGED <<bootVars, mapVars, startVars, stackVars, cpu_status, frame, lockVars>>

-----------------------------------------------------------------------------
BootStep == mp_init \/ ScanEntry \/ ScanDone \/ boot_aps \/ lapic_startap \/ WaitStarted

CpuStep(c) ==
    \/ lapic_init(c) \/ mmio_map_region(c)
    \/ mpentry_start(c) \/ trap_init_percpu(c) \/ mp_main(c)
    \/ LockCheck(c) \/ Exchange(c) \/ Own(c)
    \/ UnlockCheck(c) \/ Disown(c) \/ Release(c)
    \/ env_run(c) \/ sched_halt(c) \/ MonitorLoop(c) \/ trap(c) \/ TrapMode(c)

Next == BootStep \/ \E c \in CPUs : CpuStep(c)

(* A CPU that can go on does. *)
Spec ==
    /\ Init /\ [][Next]_vars
    /\ WF_vars(BootStep)
    /\ \A c \in CPUs : WF_vars(CpuStep(c))

-----------------------------------------------------------------------------
Labels == {"off", "reset", "mp_init", "scan", "boot_aps", "init_ipi", "startup_ipi",
           "startup_ipi2", "wait", "mpentry", "lapic_init", "mapped", "percpu",
           "started", "lock", "lock2", "spin", "own", "kernel", "unlock", "unlock2",
           "disown", "release", "user", "hlt", "monitor", "trap_mode", "panic"}

(* The types of the start-up and lock state. *)
TypeOK ==
    /\ table \in Tables \cup {NULL}
    /\ entry \in Nat
    /\ ncpu \in 0..NCPU
    /\ ismp \in BOOLEAN /\ lapicaddr \in BOOLEAN
    /\ bootcpu \in CPUs
    /\ base \in 0..MMIOPAGES
    /\ win \in [CPUs -> 0..(MMIOPAGES - 1) \cup {NULL}]
    /\ aps \in 0..NCPU
    /\ mpentry_kstack \in CPUs \cup {NULL}
    /\ esp \in [CPUs -> CPUs \cup {BootStack, NULL}]
    /\ tss \in [CPUs -> CPUs \cup {NULL}]
    /\ cpu_status \in [CPUs -> {"UNUSED", "STARTED", "HALTED"}]
    /\ frame \in [CPUs -> {"user", "kernel"}]
    /\ ret \in [CPUs -> {"boot_aps", "trap_mode", "kernel", "user", "hlt"}]
    /\ locked \in {0, 1}
    /\ owner \in CPUs \cup {NULL}
    /\ pc \in [CPUs -> Labels]

(* A CPU holds the lock from the exchange that found it free to the one     *)
(* that frees it.                                                           *)
HoldLabels == {"own", "boot_aps", "init_ipi", "startup_ipi", "startup_ipi2", "wait",
               "kernel", "monitor", "unlock", "unlock2", "disown", "release"}
Holds(c) == pc[c] \in HoldLabels \/ (pc[c] = "trap_mode" /\ frame[c] = "kernel")

(* Only one CPU at a time is in the kernel proper or starting the others,   *)
(* whichever of the four ways in it took: the start of the boot CPU, of an  *)
(* application processor, a trap from user mode, an interrupt while halted. *)
MutualExclusion == \A c, d \in CPUs : Holds(c) /\ Holds(d) => c = d

(* The debugging checks of spin_lock() and spin_unlock() read two words     *)
(* that other CPUs are changing, and yet never stop a CPU that used the     *)
(* lock properly; nor does the MMIO region run out.                         *)
NeverPanics == \A c \in CPUs : pc[c] # "panic"

(* No two CPUs are ever on the same stack, nor will a trap put them there:  *)
(* one variable, mpentry_kstack, hands every new CPU its own.               *)
StacksDistinct ==
    \A c, d \in CPUs : c # d =>
        /\ esp[c] # NULL => esp[c] # esp[d] /\ esp[c] # tss[d]
        /\ tss[c] # NULL => tss[c] # tss[d]

(* mmio_map_region() gives every CPU a page of its own, although nothing    *)
(* protects the variable it allocates from.                                 *)
MmioDistinct == \A c, d \in CPUs : c # d /\ win[c] # NULL => win[c] # win[d]

(* boot_aps() gets to the end of the table, and the machine with it to its  *)
(* first environment: no CPU waits for a status that came and went.         *)
BootFinishes ==
    <>(pc[BSP] = "kernel" /\ \A c \in CPUs : ismp /\ c < ncpu => cpu_status[c] # "UNUSED")

(* Every way out of the kernel frees the lock, so that it comes free again  *)
(* and again; or a CPU keeps it for good in sched_halt()'s monitor, and     *)
(* then no CPU is left with an environment that would wait for it.          *)
LockReleased ==
    locked = 1 ~> \/ locked = 0
                  \/ \E c \in CPUs : pc[c] = "monitor" /\ \A d \in CPUs : ~Executing(d)

(* The word and the steps around it implement the lock Kernel relies on. *)
holder == IF \E c \in CPUs : Holds(c) THEN CHOOSE c \in CPUs : Holds(c) ELSE NULL
Lock == INSTANCE BigLock WITH holder <- holder
ImplementsBigLock == Lock!Spec
=============================================================================
