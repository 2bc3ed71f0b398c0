------------------------------- MODULE Kernel -------------------------------
(***************************************************************************)
(* The JOS kernel's environments, CPUs and scheduler: the environment      *)
(* table and its free list (kern/env.c), round-robin scheduling and        *)
(* halting (kern/sched.c), trap entry and exit (kern/trap.c), the system   *)
(* calls that create, destroy, block and wake environments                 *)
(* (kern/syscall.c), and the boot sequence that starts them (kern/init.c). *)
(*                                                                         *)
(* Every handler runs with the big kernel lock held, from lock_kernel() to *)
(* unlock_kernel(), so a handler is one action whose guard is that the     *)
(* lock is free.  What the code does outside the lock are actions of their *)
(* own: the start of trap(), the wake-up of a halted CPU, env_pop_tf().    *)
(***************************************************************************)
EXTENDS Integers, Sequences, FiniteSets

CONSTANTS NENV,     \* slots of envs[]
          NCPU,     \* entries of cpus[] in use (ncpu)
          BSP,      \* the boot CPU
          GENINC,   \* 1 << ENVGENSHIFT
          IDLIM,    \* 2^31: an id that reaches it has the sign bit set
          NBOOT,    \* environments created by i386_init()
          NULL      \* no environment, no CPU

ASSUME ConfigAssumption ==
    /\ NENV \in Nat \ {0}
    /\ NCPU \in Nat \ {0}
    /\ BSP \in 0..(NCPU - 1)
    /\ GENINC \in Nat \ {0}
    /\ GENINC % NENV = 0
    /\ IDLIM \in Nat
    /\ IDLIM % NENV = 0
    /\ IDLIM > GENINC
    /\ NBOOT \in 0..NENV
    /\ NULL \notin Int

Envs == 0..(NENV - 1)
CPUs == 0..(NCPU - 1)

(* The index part of an environment id, and every id a program can pass. *)
ENVX(envid) == envid % NENV
EnvIds == 0..(IDLIM - 1)

VARIABLES
    env_status,       \* per slot: FREE, DYING, RUNNABLE, RUNNING, NOT_RUNNABLE
    env_id,           \* per slot: the id of its present or last occupant
    env_parent_id,    \* per slot: the id of its occupant's parent
    env_ipc_recving,  \* per slot: blocked in sys_ipc_recv
    env_free_list,    \* the free slots, in list order
    cpu_env,          \* per CPU: curenv
    cpu_status,       \* per CPU: UNUSED, STARTED, HALTED
    cr3,              \* per CPU: id of the environment whose page directory
                      \*   is loaded, 0 for kern_pgdir
    mode,             \* per CPU: what it is executing, see Modes
    trapno,           \* per CPU in the kernel: timer interrupt or another trap
    isr,              \* per CPU: the LAPIC's timer interrupt is in service
    kernel_lock,      \* the CPU that holds the big kernel lock, or NULL
    panicstr          \* some CPU has called panic()

envVars == <<env_status, env_id, env_parent_id, env_ipc_recving, env_free_list>>
cpuVars == <<cpu_env, cpu_status, cr3, mode, trapno, isr>>
vars == <<envVars, cpuVars, kernel_lock, panicstr>>

EnvStatus == {"FREE", "DYING", "RUNNABLE", "RUNNING", "NOT_RUNNABLE"}

(***************************************************************************)
(* off: an AP before mp_main; boot: the BSP in i386_init; start: an AP     *)
(* waiting for the lock in mp_main; pop: in env_pop_tf, lock released;     *)
(* user: user code; trap: in trap() from user mode, waiting for the lock;  *)
(* halt: sched_halt's hlt loop; irq: a halted CPU interrupted, waiting for *)
(* the lock; monitor: sched_halt's monitor loop; panic: panic()'s monitor  *)
(* loop; hlt: stopped at trap entry because another CPU panicked.          *)
(***************************************************************************)
Modes == {"off", "boot", "start", "pop", "user", "trap", "halt", "irq",
          "monitor", "panic", "hlt"}

(* Modes in which an environment's code is, or is about to be, executed. *)
ExecModes == {"pop", "user", "trap"}

TypeOK ==
    /\ env_status \in [Envs -> EnvStatus]
    /\ env_id \in [Envs -> EnvIds]
    /\ env_parent_id \in [Envs -> EnvIds]
    /\ env_ipc_recving \in [Envs -> BOOLEAN]
    /\ env_free_list \in Seq(Envs)
    /\ cpu_env \in [CPUs -> Envs \cup {NULL}]
    /\ cpu_status \in [CPUs -> {"UNUSED", "STARTED", "HALTED"}]
    /\ cr3 \in [CPUs -> EnvIds]
    /\ mode \in [CPUs -> Modes]
    /\ trapno \in [CPUs -> {"none", "timer", "other"}]
    /\ isr \in [CPUs -> BOOLEAN]
    /\ kernel_lock \in CPUs \cup {NULL}
    /\ panicstr \in BOOLEAN

-----------------------------------------------------------------------------
(* env_init(): every slot free, the list in the order of the array; then    *)
(* i386_init() takes the lock before it wakes the APs.                      *)
Init ==
    /\ env_status = [e \in Envs |-> "FREE"]
    /\ env_id = [e \in Envs |-> 0]
    /\ env_parent_id = [e \in Envs |-> 0]
    /\ env_ipc_recving = [e \in Envs |-> FALSE]
    /\ env_free_list = [i \in 1..NENV |-> i - 1]
    /\ cpu_env = [c \in CPUs |-> NULL]
    /\ cpu_status = [c \in CPUs |-> IF c = BSP THEN "STARTED" ELSE "UNUSED"]
    /\ cr3 = [c \in CPUs |-> 0]
    /\ mode = [c \in CPUs |-> IF c = BSP THEN "boot" ELSE "off"]
    /\ trapno = [c \in CPUs |-> "none"]
    /\ isr = [c \in CPUs |-> FALSE]
    /\ kernel_lock = BSP
    /\ panicstr = FALSE

-----------------------------------------------------------------------------
(***************************************************************************)
(* The kernel's internal functions.  They take the environment statuses    *)
(* st, the CPU's curenv cur and its loaded page directory pd as the code   *)
(* has left them at the call, and fix the next env_status and CPU state.   *)
(***************************************************************************)

(* Mutant: the generation is not advanced. *)
NextId_SameGeneration(e) ==
    IF env_id[e] = 0 THEN GENINC + e ELSE env_id[e]

(* Mutant: the sign bit is not checked. *)
NextId_NoWrap(e) ==
    LET next == env_id[e] + GENINC
        generation == next - (next % NENV)
    IN  generation + e

(* The id env_alloc() gives slot e's next occupant. *)
NextId(e) ==
    LET next == env_id[e] + GENINC
        generation == next - (next % NENV)
    IN  (IF generation >= IDLIM THEN GENINC ELSE generation) + e

(* envid2env(): the slot envid designates for CPU c, or NULL (-E_BAD_ENV). *)
envid2env(c, envid, checkperm) ==
    LET e == ENVX(envid) IN
    IF envid = 0 THEN cpu_env[c]
    ELSE IF \/ env_status[e] = "FREE"
            \/ env_id[e] # envid
            \/ /\ checkperm
               /\ e # cpu_env[c]
               /\ env_parent_id[e] # env_id[cpu_env[c]]
         THEN NULL
         ELSE e

(* Mutant: the outgoing environment keeps its status. *)
env_run_NotSaved(c, st, cur, e) ==
    /\ env_status' = [st EXCEPT ![e] = "RUNNING"]
    /\ cpu_env' = [cpu_env EXCEPT ![c] = e]
    /\ cr3' = [cr3 EXCEPT ![c] = env_id[e]]
    /\ mode' = [mode EXCEPT ![c] = "pop"]
    /\ trapno' = [trapno EXCEPT ![c] = "none"]
    /\ kernel_lock' = NULL
    /\ UNCHANGED cpu_status

(* env_run(): switch CPU c from cur to e and release the lock. *)
env_run(c, st, cur, e) ==
    LET saved == IF cur # NULL /\ st[cur] = "RUNNING"
                 THEN [st EXCEPT ![cur] = "RUNNABLE"] ELSE st
    IN  /\ env_status' = [saved EXCEPT ![e] = "RUNNING"]
        /\ cpu_env' = [cpu_env EXCEPT ![c] = e]
        /\ cr3' = [cr3 EXCEPT ![c] = env_id[e]]
        /\ mode' = [mode EXCEPT ![c] = "pop"]
        /\ trapno' = [trapno EXCEPT ![c] = "none"]
        /\ kernel_lock' = NULL
        /\ UNCHANGED cpu_status

(* Mutant: the page directory stays loaded. *)
sched_halt_KeepPgdir(c, st, cur, pd) ==
    /\ env_status' = st
    /\ trapno' = [trapno EXCEPT ![c] = "none"]
    /\ IF \A e \in Envs : st[e] \notin {"RUNNABLE", "RUNNING", "DYING"}
       THEN /\ cpu_env' = [cpu_env EXCEPT ![c] = cur]
            /\ cr3' = [cr3 EXCEPT ![c] = pd]
            /\ mode' = [mode EXCEPT ![c] = "monitor"]
            /\ kernel_lock' = c
            /\ UNCHANGED cpu_status
       ELSE /\ cpu_env' = [cpu_env EXCEPT ![c] = NULL]
            /\ cr3' = [cr3 EXCEPT ![c] = pd]
            /\ mode' = [mode EXCEPT ![c] = "halt"]
            /\ cpu_status' = [cpu_status EXCEPT ![c] = "HALTED"]
            /\ kernel_lock' = NULL

(* Mutant: zombies are not counted. *)
sched_halt_NoDying(c, st, cur, pd) ==
    /\ env_status' = st
    /\ trapno' = [trapno EXCEPT ![c] = "none"]
    /\ IF \A e \in Envs : st[e] \notin {"RUNNABLE", "RUNNING"}
       THEN /\ cpu_env' = [cpu_env EXCEPT ![c] = cur]
            /\ cr3' = [cr3 EXCEPT ![c] = pd]
            /\ mode' = [mode EXCEPT ![c] = "monitor"]
            /\ kernel_lock' = c
            /\ UNCHANGED cpu_status
       ELSE /\ cpu_env' = [cpu_env EXCEPT ![c] = NULL]
            /\ cr3' = [cr3 EXCEPT ![c] = 0]
            /\ mode' = [mode EXCEPT ![c] = "halt"]
            /\ cpu_status' = [cpu_status EXCEPT ![c] = "HALTED"]
            /\ kernel_lock' = NULL

(* sched_halt(): the monitor, lock held, when nothing is left to run; else *)
(* release the lock and halt.                                              *)
sched_halt(c, st, cur, pd) ==
    /\ env_status' = st
    /\ trapno' = [trapno EXCEPT ![c] = "none"]
    /\ IF \A e \in Envs : st[e] \notin {"RUNNABLE", "RUNNING", "DYING"}
       THEN /\ cpu_env' = [cpu_env EXCEPT ![c] = cur]
            /\ cr3' = [cr3 EXCEPT ![c] = pd]
            /\ mode' = [mode EXCEPT ![c] = "monitor"]
            /\ kernel_lock' = c
            /\ UNCHANGED cpu_status
       ELSE /\ cpu_env' = [cpu_env EXCEPT ![c] = NULL]
            /\ cr3' = [cr3 EXCEPT ![c] = 0]
            /\ mode' = [mode EXCEPT ![c] = "halt"]
            /\ cpu_status' = [cpu_status EXCEPT ![c] = "HALTED"]
            /\ kernel_lock' = NULL

(* Mutant: the search always begins at envs[0]. *)
SearchStart_Zero(cur) == 0

(* The slot at which the round-robin search of CPU curenv cur begins. *)
SearchStart(cur) == IF cur = NULL THEN 0 ELSE cur + 1

(* e is the first RUNNABLE slot in circular order from start. *)
FirstRunnable(st, start, e) ==
    /\ st[e] = "RUNNABLE"
    /\ \E i \in 0..(NENV - 1) :
        /\ e = (start + i) % NENV
        /\ \A j \in 0..(i - 1) : st[(start + j) % NENV] # "RUNNABLE"

(* sched_yield() *)
sched_yield(c, st, cur, pd) ==
    \/ \E e \in Envs :
        /\ FirstRunnable(st, SearchStart(cur), e)
        /\ env_run(c, st, cur, e)
    \/ /\ \A e \in Envs : st[e] # "RUNNABLE"
       /\ IF cur # NULL /\ st[cur] = "RUNNING"
          THEN env_run(c, st, cur, cur)
          ELSE sched_halt(c, st, cur, pd)

(* The end of trap(): back to curenv if it is still RUNNING. *)
TrapTail(c, st) ==
    IF st[cpu_env[c]] = "RUNNING"
    THEN env_run(c, st, cpu_env[c], cpu_env[c])
    ELSE sched_yield(c, st, cpu_env[c], cr3[c])

(* _panic(): the CPU stays in the monitor, keeping the lock if it holds it. *)
Panic(c, lock) ==
    /\ panicstr' = TRUE
    /\ mode' = [mode EXCEPT ![c] = "panic"]
    /\ trapno' = [trapno EXCEPT ![c] = "none"]
    /\ kernel_lock' = lock

(* env_free() of a slot whose page directory is already gone walks a null *)
(* env_pgdir: a page fault in the kernel.                                  *)
FreeAgain(c, e) ==
    /\ Panic(c, c)
    /\ cr3' = [cr3 EXCEPT ![c] = 0]
    /\ UNCHANGED <<env_status, env_free_list, cpu_env, cpu_status>>

(* Mutant: an environment running on another CPU is freed at once. *)
env_destroy_NoZombie(c, e) ==
    /\ env_status[e] # "FREE"
    /\ env_free_list' = <<e>> \o env_free_list
    /\ LET st == [env_status EXCEPT ![e] = "FREE"] IN
       IF cpu_env[c] = e THEN sched_yield(c, st, NULL, 0) ELSE TrapTail(c, st)
    /\ UNCHANGED panicstr

(* env_destroy() called on CPU c, and what follows it in trap(). *)
env_destroy(c, e) ==
    \/ /\ env_status[e] = "RUNNING"
       /\ cpu_env[c] # e
       /\ TrapTail(c, [env_status EXCEPT ![e] = "DYING"])
       /\ UNCHANGED <<env_free_list, panicstr>>
    \/ /\ ~(env_status[e] = "RUNNING" /\ cpu_env[c] # e)
       /\ env_status[e] # "FREE"
       /\ env_free_list' = <<e>> \o env_free_list
       /\ LET st == [env_status EXCEPT ![e] = "FREE"] IN
          IF cpu_env[c] = e THEN sched_yield(c, st, NULL, 0) ELSE TrapTail(c, st)
       /\ UNCHANGED panicstr
    \/ env_status[e] = "FREE" /\ FreeAgain(c, e)

(* Mutant: the slot stays on the free list. *)
env_alloc_NotPopped(e, parent_id) ==
    /\ env_free_list # <<>>
    /\ e = Head(env_free_list)
    /\ env_free_list' = env_free_list
    /\ env_id' = [env_id EXCEPT ![e] = NextId(e)]
    /\ env_parent_id' = [env_parent_id EXCEPT ![e] = parent_id]
    /\ env_ipc_recving' = [env_ipc_recving EXCEPT ![e] = FALSE]

(* env_alloc(): pop the first free slot for a child of parent_id; status is *)
(* what the caller leaves in env_status.                                    *)
env_alloc(e, parent_id) ==
    /\ env_free_list # <<>>
    /\ e = Head(env_free_list)
    /\ env_free_list' = Tail(env_free_list)
    /\ env_id' = [env_id EXCEPT ![e] = NextId(e)]
    /\ env_parent_id' = [env_parent_id EXCEPT ![e] = parent_id]
    /\ env_ipc_recving' = [env_ipc_recving EXCEPT ![e] = FALSE]

-----------------------------------------------------------------------------
(* Boot *)

(* mp_main(): boot_aps() starts the APs one at a time, in cpus[] order, and *)
(* waits for each to say it is STARTED.                                     *)
mp_main(c) ==
    /\ mode[c] = "off"
    /\ \A d \in CPUs : d < c => cpu_status[d] # "UNUSED"
    /\ cpu_status' = [cpu_status EXCEPT ![c] = "STARTED"]
    /\ mode' = [mode EXCEPT ![c] = "start"]
    /\ UNCHANGED <<envVars, cpu_env, cr3, trapno, isr, kernel_lock, panicstr>>

BootReady(c) ==
    /\ mode[c] = "boot"
    /\ \A d \in CPUs : cpu_status[d] # "UNUSED"

(* env_create(): NBOOT calls, each of which succeeds or panics. *)
env_create(c) ==
    /\ BootReady(c)
    /\ Len(env_free_list) > NENV - NBOOT
    /\ UNCHANGED <<cpu_env, cpu_status, cr3, isr>>
    /\ \/ \E e \in Envs :
            /\ env_alloc(e, 0)
            /\ env_status' = [env_status EXCEPT ![e] = "RUNNABLE"]
            /\ UNCHANGED <<mode, trapno, kernel_lock, panicstr>>
       \/ Panic(c, c) /\ UNCHANGED envVars

(* The sched_yield() that ends i386_init(). *)
BootYield(c) ==
    /\ BootReady(c)
    /\ Len(env_free_list) = NENV - NBOOT
    /\ sched_yield(c, env_status, NULL, 0)
    /\ UNCHANGED <<env_id, env_parent_id, env_ipc_recving, env_free_list, isr, panicstr>>

(* The lock_kernel(); sched_yield() that ends mp_main(). *)
StartYield(c) ==
    /\ mode[c] = "start"
    /\ kernel_lock = NULL
    /\ sched_yield(c, env_status, NULL, 0)
    /\ UNCHANGED <<env_id, env_parent_id, env_ipc_recving, env_free_list, isr, panicstr>>

-----------------------------------------------------------------------------
(* Outside the lock *)

(* env_pop_tf(): iret to the environment. *)
env_pop_tf(c) ==
    /\ mode[c] = "pop"
    /\ mode' = [mode EXCEPT ![c] = "user"]
    /\ UNCHANGED <<envVars, cpu_env, cpu_status, cr3, trapno, isr, kernel_lock, panicstr>>

(* The start of trap() from user mode through an interrupt gate.  The LAPIC *)
(* delivers no timer interrupt while one is in service.                     *)
TrapEntry(c, t) ==
    /\ mode[c] = "user"
    /\ t = "timer" => ~isr[c]
    /\ IF panicstr
       THEN /\ mode' = [mode EXCEPT ![c] = "hlt"]
            /\ UNCHANGED <<trapno, isr>>
       ELSE /\ mode' = [mode EXCEPT ![c] = "trap"]
            /\ trapno' = [trapno EXCEPT ![c] = t]
            /\ isr' = [isr EXCEPT ![c] = @ \/ t = "timer"]
    /\ UNCHANGED <<envVars, cpu_env, cpu_status, cr3, kernel_lock, panicstr>>

(* int3 from user mode: its gate is a trap gate, interrupts stay enabled,  *)
(* and the assertion at the start of trap() panics before the lock.  An    *)
(* interrupt in between would run the scheduler without the lock, and end  *)
(* in the panic of unlock_kernel(); its changes to statuses are left out.  *)
Breakpoint(c) ==
    /\ mode[c] = "user"
    /\ IF panicstr
       THEN /\ mode' = [mode EXCEPT ![c] = "hlt"]
            /\ UNCHANGED <<trapno, kernel_lock, panicstr>>
       ELSE Panic(c, kernel_lock)
    /\ UNCHANGED <<envVars, cpu_env, cpu_status, cr3, isr>>

(* An interrupt of a halted CPU, up to lock_kernel().  Device interrupts   *)
(* reach the BSP only.                                                      *)
HaltIntr(c, t) ==
    /\ mode[c] = "halt"
    /\ t = "timer" => ~isr[c]
    /\ IF panicstr
       THEN /\ mode' = [mode EXCEPT ![c] = "hlt"]
            /\ UNCHANGED <<trapno, isr, cpu_status>>
       ELSE /\ mode' = [mode EXCEPT ![c] = "irq"]
            /\ trapno' = [trapno EXCEPT ![c] = t]
            /\ isr' = [isr EXCEPT ![c] = @ \/ t = "timer"]
            /\ cpu_status' = [cpu_status EXCEPT ![c] = "STARTED"]
    /\ UNCHANGED <<envVars, cpu_env, cr3, kernel_lock, panicstr>>

(* The monitor loops never end. *)
MonitorLoop(c) == mode[c] \in {"monitor", "panic"} /\ UNCHANGED vars

-----------------------------------------------------------------------------
(* Handlers of a halted CPU's interrupts *)

IrqLocked(c) == mode[c] = "irq" /\ kernel_lock = NULL

(* Timer: acknowledge and schedule. *)
IrqTimer(c) ==
    /\ IrqLocked(c)
    /\ trapno[c] = "timer"
    /\ isr' = [isr EXCEPT ![c] = FALSE]
    /\ sched_yield(c, env_status, cpu_env[c], cr3[c])
    /\ UNCHANGED <<env_id, env_parent_id, env_ipc_recving, env_free_list, panicstr>>

(* Spurious: ignored, and the end of trap() schedules; any other interrupt *)
(* in the kernel is a panic.                                               *)
IrqOther(c) ==
    /\ IrqLocked(c)
    /\ trapno[c] = "other"
    /\ \/ sched_yield(c, env_status, cpu_env[c], cr3[c]) /\ UNCHANGED panicstr
       \/ /\ c = BSP
          /\ Panic(c, c)
          /\ UNCHANGED <<env_status, cpu_env, cpu_status, cr3>>
    /\ UNCHANGED <<env_id, env_parent_id, env_ipc_recving, env_free_list, isr>>

-----------------------------------------------------------------------------
(* Handlers of traps from user mode *)

(* Past lock_kernel() and assert(curenv) in trap(). *)
UserLocked(c) == mode[c] = "trap" /\ kernel_lock = NULL /\ cpu_env[c] # NULL

(* Mutant: the zombie is left behind. *)
ZombieTrap_NotFreed(c) ==
    /\ UserLocked(c)
    /\ env_status[cpu_env[c]] = "DYING"
    /\ sched_yield(c, env_status, NULL, 0)
    /\ UNCHANGED <<env_id, env_parent_id, env_ipc_recving, env_free_list, isr, panicstr>>

(* A zombie is collected on its next trap, before the trap is dispatched. *)
ZombieTrap(c) ==
    /\ UserLocked(c)
    /\ env_status[cpu_env[c]] = "DYING"
    /\ env_free_list' = <<cpu_env[c]>> \o env_free_list
    /\ sched_yield(c, [env_status EXCEPT ![cpu_env[c]] = "FREE"], NULL, 0)
    /\ UNCHANGED <<env_id, env_parent_id, env_ipc_recving, isr, panicstr>>

(* Mutant: a zombie's traps are dispatched. *)
UserTrap_ZombieRuns(c, t) ==
    /\ UserLocked(c)
    /\ trapno[c] = t

UserTrap(c, t) ==
    /\ UserLocked(c)
    /\ env_status[cpu_env[c]] # "DYING"
    /\ trapno[c] = t

(* trap_dispatch() of the clock interrupt. *)
TimerTrap(c) ==
    /\ UserTrap(c, "timer")
    /\ isr' = [isr EXCEPT ![c] = FALSE]
    /\ sched_yield(c, env_status, cpu_env[c], cr3[c])
    /\ UNCHANGED <<env_id, env_parent_id, env_ipc_recving, env_free_list, panicstr>>

(* A trap that changes nothing here and returns: a page fault handed to the *)
(* user's upcall, a spurious interrupt, a system call that fails or that    *)
(* only touches memory, the console or the upcall address.  sys_page_map()  *)
(* of an address without a page table reads through a pointer page_lookup() *)
(* has not set, which may fault in the kernel.                              *)
PlainTrap(c) ==
    /\ UserTrap(c, "other")
    /\ \/ TrapTail(c, env_status) /\ UNCHANGED panicstr
       \/ Panic(c, c) /\ UNCHANGED <<env_status, cpu_env, cpu_status, cr3>>
    /\ UNCHANGED <<env_id, env_parent_id, env_ipc_recving, env_free_list, isr>>

(* A trap that kills curenv: page fault without a usable upcall, a bad      *)
(* pointer to sys_cputs, an unexpected trap or device interrupt.            *)
UserFault(c) ==
    /\ UserTrap(c, "other")
    /\ env_destroy(c, cpu_env[c])
    /\ UNCHANGED <<env_id, env_parent_id, env_ipc_recving, isr>>

sys_yield(c) ==
    /\ UserTrap(c, "other")
    /\ sched_yield(c, env_status, cpu_env[c], cr3[c])
    /\ UNCHANGED <<env_id, env_parent_id, env_ipc_recving, env_free_list, isr, panicstr>>

sys_env_destroy(c, envid) ==
    /\ UserTrap(c, "other")
    /\ envid2env(c, envid, TRUE) # NULL
    /\ env_destroy(c, envid2env(c, envid, TRUE))
    /\ UNCHANGED <<env_id, env_parent_id, env_ipc_recving, isr>>

(* Failure (no slot, no memory) is PlainTrap. *)
sys_exofork(c) ==
    /\ UserTrap(c, "other")
    /\ \E e \in Envs :
        /\ env_alloc(e, env_id[cpu_env[c]])
        /\ TrapTail(c, [env_status EXCEPT ![e] = "NOT_RUNNABLE"])
    /\ UNCHANGED <<isr, panicstr>>

sys_env_set_status(c, envid, status) ==
    /\ UserTrap(c, "other")
    /\ status \in {"RUNNABLE", "NOT_RUNNABLE"}
    /\ envid2env(c, envid, TRUE) # NULL
    /\ TrapTail(c, [env_status EXCEPT ![envid2env(c, envid, TRUE)] = status])
    /\ UNCHANGED <<env_id, env_parent_id, env_ipc_recving, env_free_list, isr, panicstr>>

(* With a legal dstva; an illegal one is PlainTrap. *)
sys_ipc_recv(c) ==
    /\ UserTrap(c, "other")
    /\ env_ipc_recving' = [env_ipc_recving EXCEPT ![cpu_env[c]] = TRUE]
    /\ sched_yield(c, [env_status EXCEPT ![cpu_env[c]] = "NOT_RUNNABLE"],
                   cpu_env[c], cr3[c])
    /\ UNCHANGED <<env_id, env_parent_id, env_free_list, isr, panicstr>>

(* Mutant: the receiver stays marked as receiving. *)
sys_ipc_try_send_KeepRecving(c, envid) ==
    LET e == envid2env(c, envid, FALSE) IN
    /\ UserTrap(c, "other")
    /\ e # NULL
    /\ env_ipc_recving[e]
    /\ env_ipc_recving' = [env_ipc_recving EXCEPT ![e] = TRUE]
    /\ TrapTail(c, [env_status EXCEPT ![e] = "RUNNABLE"])
    /\ UNCHANGED <<env_id, env_parent_id, env_free_list, isr, panicstr>>

(* A send that succeeds; its errors are PlainTrap. *)
sys_ipc_try_send(c, envid) ==
    LET e == envid2env(c, envid, FALSE) IN
    /\ UserTrap(c, "other")
    /\ e # NULL
    /\ env_ipc_recving[e]
    /\ env_ipc_recving' = [env_ipc_recving EXCEPT ![e] = FALSE]
    /\ TrapTail(c, [env_status EXCEPT ![e] = "RUNNABLE"])
    /\ UNCHANGED <<env_id, env_parent_id, env_free_list, isr, panicstr>>

-----------------------------------------------------------------------------
(* Next-state relations *)

BootStep(c) == mp_main(c) \/ env_create(c) \/ BootYield(c) \/ StartYield(c)

(* The steps of CPU c other than the two system calls by which one          *)
(* environment acts on another one's status.                                *)
CpuStep(c) ==
    \/ BootStep(c)
    \/ env_pop_tf(c)
    \/ \E t \in {"timer", "other"} : TrapEntry(c, t) \/ HaltIntr(c, t)
    \/ Breakpoint(c)
    \/ MonitorLoop(c)
    \/ IrqTimer(c)
    \/ IrqOther(c)
    \/ ZombieTrap(c)
    \/ TimerTrap(c)
    \/ PlainTrap(c)
    \/ UserFault(c)
    \/ sys_yield(c)
    \/ sys_exofork(c)
    \/ sys_ipc_recv(c)
    \/ \E envid \in EnvIds : sys_ipc_try_send(c, envid)

(***************************************************************************)
(* Programs that use these two calls the way lib/fork.c, lib/exit.c and    *)
(* user/ do: the status of another environment is set only while it waits, *)
(* unscheduled, for its parent (fork's child), and an environment that is  *)
(* already dying is not destroyed a second time.                           *)
(***************************************************************************)
LibSetStatus(c) ==
    \E envid \in EnvIds, status \in {"RUNNABLE", "NOT_RUNNABLE"} :
        LET e == envid2env(c, envid, TRUE) IN
        /\ UserTrap(c, "other")
        /\ e # NULL
        /\ e # cpu_env[c] => /\ env_status[e] \in {"RUNNABLE", "NOT_RUNNABLE"}
                             /\ ~env_ipc_recving[e]
        /\ sys_env_set_status(c, envid, status)
LibDestroy(c) ==
    \E envid \in EnvIds :
        LET e == envid2env(c, envid, TRUE) IN
        /\ UserTrap(c, "other")
        /\ e # NULL
        /\ env_status[e] # "DYING"
        /\ sys_env_destroy(c, envid)

LibNext == \E c \in CPUs : CpuStep(c) \/ LibSetStatus(c) \/ LibDestroy(c)

LibSpec == Init /\ [][LibNext]_vars

(***************************************************************************)
(* What the hardware and the lock owe.  A CPU keeps executing; the LAPIC   *)
(* timer is periodic and a tick that arrives in the kernel is delivered on *)
(* the return to user mode, so it cannot be passed over for ever; a CPU    *)
(* spinning on the lock gets it.  Nothing is owed by user programs.        *)
(***************************************************************************)
Fairness ==
    \A c \in CPUs :
        /\ WF_vars(BootStep(c))
        /\ WF_vars(env_pop_tf(c))
        /\ SF_vars(TrapEntry(c, "timer"))
        /\ WF_vars(HaltIntr(c, "timer"))
        /\ WF_vars(IrqTimer(c) \/ IrqOther(c))
        /\ WF_vars(ZombieTrap(c) \/ TimerTrap(c))
        /\ WF_vars(\/ PlainTrap(c) \/ UserFault(c) \/ sys_yield(c)
                   \/ sys_exofork(c) \/ sys_ipc_recv(c)
                   \/ \E envid \in EnvIds : sys_ipc_try_send(c, envid)
                   \/ LibSetStatus(c) \/ LibDestroy(c))

FairLibSpec == LibSpec /\ Fairness

-----------------------------------------------------------------------------
(* Properties *)

Live == {e \in Envs : env_status[e] # "FREE"}
On(e) == {c \in CPUs : cpu_env[c] = e}

(***************************************************************************)
(* No environment is current on two CPUs (sched_yield's "never choose an   *)
(* environment that's currently running on another CPU").                  *)
(***************************************************************************)
OneCpuPerEnv ==
    \A c, d \in CPUs : cpu_env[c] = cpu_env[d] /\ c # d => cpu_env[c] = NULL

(***************************************************************************)
(* env_status says exactly which environments CPUs execute: RUNNING or     *)
(* DYING if and only if some CPU has the environment as curenv, except for *)
(* the one a CPU gave up as it entered the monitor.  env_destroy() and     *)
(* sched_halt() decide by this status alone.                               *)
(***************************************************************************)
StatusMatchesCpu ==
    \A e \in Envs :
        env_status[e] \in {"RUNNING", "DYING"} <=>
            \E c \in On(e) : mode[c] # "monitor"

(***************************************************************************)
(* The free list holds exactly the FREE slots, each once, whatever order   *)
(* env_alloc(), env_destroy() and the zombie collection run in.            *)
(***************************************************************************)
FreeListExact ==
    /\ \A e \in Envs : env_status[e] = "FREE" <=>
            \E i \in 1..Len(env_free_list) : env_free_list[i] = e
    /\ \A i, j \in 1..Len(env_free_list) :
        env_free_list[i] = env_free_list[j] => i = j

(***************************************************************************)
(* A CPU's loaded page directory is kern_pgdir or belongs to an environment *)
(* that is still alive, in the same generation: env_free() never frees the *)
(* directory some CPU is using.                                            *)
(***************************************************************************)
PgdirLive ==
    \A c \in CPUs : cr3[c] # 0 => \E e \in Live : env_id[e] = cr3[c]

(***************************************************************************)
(* "Env is blocked receiving": an environment with env_ipc_recving set is  *)
(* not scheduled until a send clears the flag, or it is destroyed.         *)
(***************************************************************************)
RecvBlocked ==
    \A e \in Envs : env_ipc_recving[e] => env_status[e] \in {"NOT_RUNNABLE", "FREE"}

(***************************************************************************)
(* sched_halt() gives the machine to the monitor only when no CPU is       *)
(* executing, entering or leaving any environment.                         *)
(***************************************************************************)
MonitorOnlyWhenIdle ==
    \A c \in CPUs : mode[c] = "monitor" => \A d \in CPUs : mode[d] \notin ExecModes

(***************************************************************************)
(* A zombie leaves the DYING state only by being freed, by the CPU it was  *)
(* running on, which gives it up in the same step (trap()'s collection).   *)
(***************************************************************************)
ZombieFreedByItsCpu ==
    [][\A e \in Envs :
        env_status[e] = "DYING" /\ env_status'[e] # "DYING" =>
            /\ env_status'[e] = "FREE"
            /\ \E c \in On(e) : cpu_env'[c] # e]_vars

(***************************************************************************)
(* The occupant env_alloc() gives a slot never has the id of the one       *)
(* before, so an id kept across its death is refused by envid2env().       *)
(***************************************************************************)
NewIdDiffers ==
    [][\A e \in Envs :
        env_status[e] = "FREE" /\ env_status'[e] # "FREE" =>
            env_id'[e] # env_id[e] /\ env_id'[e] > 0]_vars

(* The LAPIC timer of CPU c waits for an acknowledgement no code will give. *)
LostTimer(c) == isr[c] /\ mode[c] \notin {"trap", "irq"}

(***************************************************************************)
(* Every clock interrupt is acknowledged before the scheduler runs         *)
(* ("Don't forget to acknowledge the interrupt", trap.c:275).  The code    *)
(* does not: trap() schedules without it when the interrupt collects a     *)
(* zombie.                                                                 *)
(***************************************************************************)
TimerAcknowledged == \A c \in CPUs : ~LostTimer(c)

(***************************************************************************)
(* A zombie whose CPU still has its timer is eventually freed, although it *)
(* may never trap by itself, unless the kernel panics: trap() collects it  *)
(* in the clock interrupt.  Timers that other CPUs lost, or this one loses *)
(* by collecting it, do not matter.                                        *)
(***************************************************************************)
ZombieCollected ==
    \A e \in Envs :
        env_status[e] = "DYING" /\ (\E c \in On(e) : ~LostTimer(c))
            ~> env_status[e] = "FREE" \/ panicstr

(* The slot of some environment is freed. *)
SomeEnvFreed == Live' # Live /\ Live' \subseteq Live

(***************************************************************************)
(* Round-robin: once environments stop dying, one that is RUNNABLE is      *)
(* eventually scheduled (or its status set by its parent), while timers    *)
(* are kept and the kernel does not panic.                                 *)
(***************************************************************************)
RunnableScheduled ==
    /\ [](TimerAcknowledged /\ ~panicstr)
    /\ <>[][~SomeEnvFreed]_vars
    => \A e \in Envs : env_status[e] = "RUNNABLE" ~> env_status[e] # "RUNNABLE"

(***************************************************************************)
(* Under the scheduling, trapping and destroying above, CPUs and           *)
(* environments behave as CpuAssignment promises: exclusive assignment,    *)
(* and no environment is freed under a CPU that still executes it.         *)
(***************************************************************************)
Assignment == INSTANCE CpuAssignment WITH live <- Live, on <- cpu_env
ImplementsCpuAssignment == Assignment!Spec
=============================================================================
