# JOS: specifications, model checking and proofs

JOS is a small multiprocessor exokernel (the lab 4 stage of the course kernel):
environments (processes) with their own page tables, a round-robin scheduler on
several CPUs under one big kernel lock, preemption by the LAPIC timer, system
calls for environments, memory mapping and synchronous IPC, and a user library
with copy-on-write `fork`, user-level page fault handling and IPC.

This directory holds TLA+ modules that model the kernel, the boot of the machine
and the user library, TLC configurations that check them, and TLAPS proofs about
environments, scheduler, memory, the start of the CPUs, the kernel lock, IPC, `fork`,
user-level page faults, the console, the library's algorithms and the writes to memory
during boot.
`PROJECT.json` maps every definition to the source lines it stands for.

## 1. Inventory

| Component | Source | State | Operations | Interaction | What makes it correct |
|---|---|---|---|---|---|
| environments | `kern/env.c`, `inc/env.h` | `envs[]` (status, id, parent, IPC flag, `env_pgdir`, trap frame), `env_free_list` | `env_alloc`, `env_create`, `env_free`, `env_destroy`, `env_run`, `envid2env` | called by traps, system calls, boot; allocates from `pmap.c` | a slot is free exactly when it is on the list; ids of successive occupants differ; nothing is freed under a CPU |
| scheduler | `kern/sched.c` | none of its own: statuses, `curenv` and `cpu_status` of each CPU | `sched_yield`, `sched_halt` | ends most handlers; releases the lock | one CPU per environment; no starvation; the monitor only on an idle machine |
| traps | `kern/trap.c`, `kern/trapentry.S` | per-CPU trap frame, LAPIC in-service bit | `trap`, `trap_dispatch`, `page_fault_handler` | takes the lock, collects zombies, dispatches | zombies are collected; interrupts acknowledged; user code cannot panic the kernel |
| system calls | `kern/syscall.c` | – | environment, page and IPC calls | act on other environments by id | documented errors and effects; blocked receivers stay blocked |
| physical pages, page tables | `kern/pmap.c` | `pages[]` (`pp_ref`, `pp_link`), `page_free_list`, page directories, TLBs | `page_alloc`, `page_free`, `page_decref`, `pgdir_walk`, `page_insert`, `page_lookup`, `page_remove` | system calls, `env_setup_vm`, `env_free` | counts exact; no leak, no double use; no stale translation |
| big kernel lock | `kern/spinlock.c` | lock word, holder | `spin_lock`, `spin_unlock` | every handler | mutual exclusion, released on every way out |
| boot of the CPUs | `kern/init.c`, `kern/mpconfig.c`, `kern/lapic.c`, `kern/mpentry.S` | `cpu_status`, `mpentry_kstack` | `boot_aps`, `mp_main` | BSP starts APs one at a time, holding the lock | each CPU has its own stack; none schedules before the boot ends |
| fork, user page faults | `lib/fork.c`, `lib/pgfault.c`, `lib/pfentry.S` | page tables (COW bit), exception stack | `fork`, `duppage`, `pgfault` | system calls, upcall from `page_fault_handler` | parent and child isolated |
| IPC library | `lib/ipc.c` | IPC fields of `struct Env` | `ipc_send`, `ipc_recv` | retries `sys_ipc_try_send` | each message is received once, by its addressee |
| console, line input | `kern/console.c`, `lib/readline.c` | 512-byte ring, keyboard state, screen | `cons_intr`, `cons_getc`, `kbd_proc_data`, `cga_putc`, `readline` | devices, polling by programs and monitor | no character lost below the limit, none reordered; modifiers follow the keys; a line ends |
| clock, interrupt controller | `kern/kclock.c`, `kern/picirq.c` | device registers | set-up only | raise the interrupts | – |
| formatting, strings | `lib/printfmt.c`, `lib/printf.c`, `lib/string.c` | output buffer | pure functions | `sys_cputs` | agree with the reference meaning |
| monitor, symbol tables | `kern/monitor.c`, `kern/kdebug.c` | – | `runcmd`, `stab_binsearch` | `readline` | the words of a line; the search finds the enclosing entry |
| boot loader | `boot/`, `kern/entry.S`, `kern/entrypgdir.c` | – | `bootmain`, `readseg` | loads the kernel, first page table | every byte where the headers say |
| user programs | `user/`, `lib/libmain.c` | – | – | system calls | – |

What is hard here: handlers of different CPUs in every order, with state read
before the lock is taken (a trap on its way in) and after it is released
(`env_run` to `env_pop_tf`); an environment destroyed by one CPU while another
one runs it; idle CPUs that keep a page directory; clock interrupts that
must be acknowledged on every path; slots, ids and pages reused while someone
still holds a reference; allocation failing in the middle of an operation. The
full list, at the lines where each bites, is under `hazards` in `PROJECT.json`.

## 2. Modules

### Kernel

Environments, CPUs, scheduler, traps and boot. One variable per field of
`struct Env` and `struct CpuInfo` that decides control (`env_status`, `env_id`,
`env_parent_id`, `env_ipc_recving`, `env_free_list`, `cpu_env`, `cpu_status`),
the page directory each CPU has loaded (`cr3`, by environment id), what each
CPU is executing (`mode`), the trap it came in with (`trapno`), the LAPIC's
in-service bit (`isr`), the lock (`kernel_lock`) and `panicstr`.

- A handler runs from `lock_kernel()` to the `unlock_kernel()` of `env_run()` or
  `sched_halt()`, so it is one action whose guard is that the lock is free. Its
  ending is part of it: `sched_yield`, `env_run`, `sched_halt` and `TrapTail` (the
  last lines of `trap()`) are operators that take the statuses, `curenv` and page
  directory as the code has left them and fix the next state.
- What runs outside the lock is separate: `mp_main`, `env_pop_tf`, `TrapEntry`,
  `Breakpoint`, `HaltIntr`. A CPU may therefore be in user mode, past the release
  of the lock, or waiting for it while others act.
- Traps are told apart by what they do to this state: `TimerTrap`, `ZombieTrap`,
  `UserFault` (anything that ends in `env_destroy(curenv)`), the system calls, and
  `PlainTrap` for those that return to the environment without changing it (failed
  calls, console and memory calls, a page fault passed to the user's upcall) or panic in
  a page fault of the kernel (`sys_page_map` of an address without a page table).
- `Breakpoint` is one step to the panic. An interrupt that comes between the `int3` and the
  assertion would schedule without the lock and end in the panic of `unlock_kernel()`; what
  it does to the statuses on the way is left out.
- Device interrupts reach the boot CPU only (`lapic_init` masks LINT0 elsewhere);
  an unexpected one panics an idle kernel, or destroys the environment it
  interrupts.

`LibSpec` is for programs that use the two calls by which one environment changes
another one's status the way `lib/fork.c`, `lib/exit.c` and `user/` do: a parent sets
the status only of a child that is neither running nor receiving, and nobody destroys
an environment that is already dying. The safety properties hold under `LibSpec`;
section 4 says what happens without the restriction.

### CpuAssignment

What the rest of the system may rely on, without saying how: an environment is on
one CPU at most, a CPU only takes a live one, and an environment dies only while
no other CPU has it. `Kernel` is shown to implement it (`live` is the set of slots
that are not FREE, `on` is `curenv` of each CPU).

### Memory

The page allocator, reference counts, two-level page tables below UTOP and TLBs,
composed with `CpuAssignment`: creation, context switch and death are that
specification's steps with their effect on memory added, and the mapping system
calls act between them. `mem` is a record, and the functions of `kern/pmap.c` are
operators from one such record to the next (`page_alloc`, `page_free`,
`page_decref`, `pgdir_walk`, `page_lookup`, `page_remove`, `page_insert`,
`env_setup_vm`, `env_free`), in the order in which the code calls them. The two loops of
`env_free()` are functions of the number of rounds made (`UnmapTable`, `FreeTables`).

- `page_lookup` returns page 0 for an entry that is not present, as the code does.
- Reference counts are taken modulo `REFMOD`, for 2^16.
- Leaving the kernel loads `cr3` and so empties the CPU's TLB (`Leave`), which
  subsumes the `invlpg` of `tlb_invalidate()`; the TLB of another CPU is left alone.
- `page_init()` links the free pages in one particular order; the model starts from
  every order, which makes the pages interchangeable (symmetry).
- The page transfer of `sys_ipc_try_send()` is `ipc_page`. Its receiver is blocked
  and on no CPU, which is `RecvBlocked` of `Kernel`.

`LibMemSpec` is for programs that re-map, send or unmap only what is mapped and that
change a child's memory only while the child is on no CPU, as `lib/fork.c`,
`lib/pgfault.c` and the test programs do. `AnyUnmapSpec` (in `MCMemory`) frees the
unmapping of that restriction.

### Smp and BigLock

How the CPUs start and share the kernel, with every access to a shared word a step of
its own: the scan of the multiprocessor table entry by entry (`mp_init`, `ScanEntry`),
`boot_aps` with the one variable `mpentry_kstack`, the start of each CPU from
`mpentry.S` through `lapic_init` (and its unlocked `mmio_map_region`) to `mp_main`, and
`spin_lock`/`spin_unlock` as `LockCheck`, `Exchange`, `Own`, `UnlockCheck`, `Disown`,
`Release`, with the two-word test `holding()`. Traps, `env_run` and `sched_halt` are what
takes and releases the lock afterwards. `sched_halt` either releases it and halts, when
another CPU has an environment (`Executing`), or stays in the monitor with the lock
(`MonitorLoop`). `BigLock` is the abstract lock, an owner or none; it is what `Kernel` takes
the lock to be.

### Ipc and Mailbox

The system calls and the library loops of IPC, over the IPC fields of `struct Env`. A
system call is a step; `ipc_send` may be interrupted between a failed try and the next
one, and `ipc_recv` between its three reads of what the kernel wrote. Environments die
at any moment and their slots are reused. Pages and permissions are kept: a page of the
sender's own, a read-only one, a region without a page table, an address that is not
aligned, and none. `Mailbox` is the rendezvous IPC promises, by environment id and not
by slot.

### Fork

`fork`, `duppage`, `pgfault` and `set_pgfault_handler`, one step per system call, plus the
`memcpy` between two of them. An address space is three pages: text, data (with the
variables `thisenv` and `_pgfault_handler`, which every `fork` stores) and the stack `fork`
itself runs on, which may fault between any two steps. `word` is what a physical page contains
and `want` what the program should read. A call that finds no memory or no slot ends in `panic`
of the library, in `fork` and `duppage` (`ForkPanic`) and in `pgfault` (`FaultPanic`): the
environment stays as it is and executes `int3`, the kernel panics (`Breakpoint`, see section 4),
and from then on only the steps that take no trap go on. Page tables and exception stacks are
not counted among `Pages`, so a call may fail with some left.

### Upcall

The exception stack word by word: `page_fault_handler` pushes a frame, `_pgfault_upcall`
calls the handler, and the six groups of instructions that return are steps. The handler
and the write of the return address may fault again, so frames nest until the stack is
full.

### Console

Keyboard (with E0 codes, both Control and Alt keys, Caps Lock), serial line, ring, screen,
console system calls and `readline` under the monitor. The kernel has one caller at a time;
the devices act at any moment.

### Boot

`mem_init` from the entry page table to the kernel's own, with `check_page_free_list`,
`check_page_alloc`, `check_page`, `check_kern_pgdir` and `check_page_installed_pgdir` as
steps that really take, map and return pages, then `env_setup_vm`, `load_icode` and the
first stack. What `load_icode` copies is left out: where the segments go is modelled, and that
they share no page is what `user/user.ld` does. The address space has small pages and tables, laid out as
`inc/memlayout.h` does it. The loops of `page_init`, `check_page_free_list`, `boot_map_region` and `mem_init_mp` are
recursive functions of the number of rounds. `BootAssumption` is about the layout (alignment,
room for the stacks of all CPUs below `KSTACKTOP`); `MachinesAssumption` says what the code takes for
granted of the machine and the kernel: the one page table of `kern/entrypgdir.c` has room for
the kernel and its arrays and, besides, a free page for each page table that `mem_init` makes.

### Library

The algorithms without state: `memmove`, `strtol`, `vprintfmt` with every directive, the
output buffer of `cprintf` and the `"%.*s"` behind `sys_cputs`, `stab_binsearch`, `runcmd`,
and `bootmain` with `readseg`. A behaviour is one call with its result. The loops of the code
are recursive functions of the number of rounds. Each algorithm has a property of its own
(`MoveExact`, `NumberReadsBack`, `ConsoleGetsText`, `StabFound`, `ArgsSplit`, `SegmentsLoaded`),
stated against a definition that does not run the loop; `OutputFaithful` and `ResultsExact` are
their conjunctions. What a caller owes is assumed and named: buffers that lie in memory
(`MovesAssumption`), N_SO entries in the order of their addresses (`SearchesAssumption`), segments in order and
consistent with their offsets in the file (`ImagesAssumption`), arguments of the type the format
asks for (`PrintsAssumption`). Left out are the upper-case digits of `strtol`, which nothing
prints, `%e` of the smallest integer, whose negation indexes `error_string` out of bounds, and
the read and test of the ELF header in `bootmain`.

### MC modules and proofs

`MCKernel`, `MCMemory`, `MCSmp`, `MCIpc`, `MCConsole`, `MCBoot` and `MCLibrary` give the
constants their values. `KernelProofs`, `SmpProofs`, `MemoryProofs`, `IpcProofs`, `ForkProofs`,
`UpcallProofs`, `ConsoleProofs` and `LoopProofs` (`Library` and `Boot`) are the proofs of section 5.

## 3. Runs that pass

| Run | Instance | Shows |
|---|---|---|
| `KernelSafety` | 3 slots, 2 CPUs, ids of one generation that wrap at once, fairness | `TypeOK`, `StatusMatchesCpu`, `FreeListExact`, `PgdirLive`, `RecvBlocked`, `MonitorOnlyWhenIdle`, `ZombieFreedByItsCpu`, that `Kernel` implements `CpuAssignment`, and `ZombieCollected`: a zombie whose CPU still has its timer is freed |
| `KernelRoundRobin` | 3 slots, 1 CPU, two generations, fairness | `RunnableScheduled`: once environments stop dying, every RUNNABLE one gets a CPU; `NewIdDiffers` through the wrap of the id counter |
| `MemorySafety` | 2 environments (parent and child), 2 CPUs, 6 free pages, 2 virtual pages under one page table | `RefCountExact`, `FreeIffUnreferenced`, `TlbCoherent`, `DeadHoldNothing` |
| `SmpSafety` | 3 CPUs; tables with fewer, as many and more processors, an unknown entry, and each test of `mpconfig` failing | `NeverPanics`, `StacksDistinct`, `MmioDistinct`, `BootFinishes`, `LockReleased`, and that the lock implements `BigLock` |
| `IpcRendezvous` | 2 senders, 2 receivers (one is both), one slot reused, 2 messages | `PagesSound`, `ReceiverServed`, `SenderReleased`, and that `Ipc` implements `Mailbox` |
| `ForkIsolation` | 3 environments, 2 forks, 5 pages | `ForkSafe` (isolation, no shared writable page, `thisenv`), `CowHandled`, `ForkReturns` |
| `UpcallNesting` | a stack of 3 words, an exception stack of 22 | `StackSafe`, `ResumesWhereTrapped` |
| `ConsoleLines` | ring and line of 3, screen of 2 rows of 2, 3 keys pressed, one byte over the line | `InputSafe`, `KeysFollowed`, `EchoMatches`, `LineDelivered` |
| `BootMemory` | 18 machines, 4 kernel sizes, 3 programs | `PagesAccounted`, `EarlyWritesMapped`, `AddressSpaces` |
| `LibraryCalls` | all calls over small inputs | `OutputFaithful`, `ResultsExact` |

Some properties are conjunctions of parts that are defined and commented one by one in
their module: for instance `ForkSafe` is `TypeOK`, `Isolation`, `WritableExclusive` and
`ThisEnv`.

Bounds. Two CPUs are enough for every race between a CPU that acts and one that is
acted upon; three slots for a parent, a child on the other CPU and a third party
(killer, sender, or the next one in the rotation). The rotation is
checked where most have to wait, on one CPU: with two CPUs and three slots at most one waits. In `KernelSafety` a slot gets the
same id again, which is the worst case for stale page directories and ids in flight.
In `MemorySafety` two page directories and two page tables leave two pages of data,
so a page can be shared, replaced by another in a transfer, and memory runs out both
before and after the page table is found missing. `REFMOD` is out of reach there.
In `SmpSafety` three CPUs give one holder and two that contend, and two started while
one waits. In `IpcRendezvous` one receiver dies and is replaced while messages to the
former occupant are pending, and a sender offers for writing a page it has read-only.
In `ForkIsolation` a parent and a child fork again, and five pages run out in the middle of a
fork and of a fault. In `UpcallNesting` three frames fit and the fourth is refused. In
`ConsoleLines` the ring overflows, a line is full, a row and the screen are passed.
In `BootMemory` all machines have more memory than the entry page table maps and differ by
single pages, as the arrays and the mappings do then, base memory ends at or before
the IO hole, kernels end on and off a page boundary, and segments start and end inside
pages, share none, or are empty. In `LibraryCalls` a long has 4 bits, so all values are tried, and
texts are shorter than, equal to and longer than the buffer and its multiples.

Fairness (`Fairness` in `Kernel`). A CPU that is booting, leaving the kernel or holds
the way into a handler takes its next step (weak fairness): the code has no way to
stop there. A spinning CPU gets the lock: weak fairness of its handlers is enough for
the properties checked, because the lock is free whenever no handler runs. The timer
interrupt is strongly fair: it is periodic, and one that becomes due while the CPU is
in the kernel is delivered on the return to user mode. Nothing is assumed of user
programs. The liveness properties are conditional on what the code does not guarantee:
that the kernel does not panic and that clock interrupts come. `ZombieCollected` asks for the
timer of the one CPU that has the zombie, at the moment it becomes one; `RunnableScheduled`
assumes that no clock interrupt was lost, since one CPU without its timer need not schedule again.

In `Smp` the boot CPU and every started CPU keep executing (weak fairness of each); that is
enough to show that boot ends and a lock that was taken is released, unless its CPU stays in
the monitor because no CPU has an environment (`LockReleased`); nothing is claimed about which
spinning CPU gets it. In `Ipc` and `Fork` every environment that is in a library
call keeps being scheduled (weak fairness per environment), which is `RunnableScheduled` of
`Kernel`; nothing is assumed about when programs call or die, and `ForkReturns` is claimed up to
a panic of the kernel. In `Console` the kernel keeps
running; nothing is assumed of devices and programs.

Deadlock is checked in the `Kernel`, `Smp` and `Console` runs (the monitor loops and polls are
steps). The others do not check it: out of pages there may be nothing to do, programs may all
have ended, and a boot or a call is over.

## 4. Runs that fail, and other disagreements

Two runs state what a comment of the source says and find it violated.

- `MemoryUnmap`: `PageZeroReserved`, from `kern/syscall.c:286` and `kern/pmap.c:304`.
  `page_lookup()` does not test `PTE_P`, so unmapping an address that is not mapped drops a
  reference of physical page 0 and hands it to the allocator.
- `KernelTimer`: `TimerAcknowledged`, from `kern/trap.c:275`. A zombie brought in by a clock
  interrupt is collected, and the scheduler called, before `lapic_eoi()`; that CPU gets no
  further ticks.

The models follow the code in the following places as well, where it does not do what a comment
or its callers suggest. The properties above are stated so that they claim only what holds;
most of these are listed under `hazards` with their lines.

- `kern/env.c:475`: destroying an environment that is already dying frees it while its CPU runs it.
- `kern/syscall.c:129`: a parent can set a child RUNNABLE while it runs on another CPU, and
  `sched_yield()` then chooses it a second time, against `kern/sched.c:26`; it can also wake a
  child out of `sys_ipc_recv` with `env_ipc_recving` set. `LibSpec` is for callers that set the
  status of a child that has not run yet.
- `kern/sched.c:33`: the search restarts at slot 0 after every death and can pass over a slot
  for as long as environments keep dying.
- `kern/trap.c:113` and `:313`: `int3` comes through a trap gate, interrupts stay on, and the
  assertion in `trap()` panics; so does every `panic()` of a program (`lib/panic.c:24`).
  `kern/console.c:375` unmasks the keyboard interrupt, which
  `trap_dispatch()` does not know.
- `kern/syscall.c:273`: `(perm & PTE_W) == 1` is never true, so a read-only page can be mapped
  writable.
- `kern/pmap.c:575`: the TLB of another CPU is not flushed.
- `kern/syscall.c:393`: `env_ipc_perm` keeps the value of an earlier page transfer, against
  `lib/ipc.c:10`.
- `kern/trap.c:413`: a handler that lowers `esp` below the exception stack before it touches it
  is not recognised as nested.
- `kern/kdebug.c:97`: for an address below every entry of the type, `stab_binsearch()` returns
  left <= right, with left on an entry of another type or one before the range, and not the
  empty range of the comment at lines 39-43. `ResultsExact` says exactly which.
- `kern/kdebug.c:89`: with entries at an address and at the next one, `addr++` makes the search
  return the second for the first. `ResultsExact` leaves these tables out.
- `kern/pmap.c:335`: pages between the end of base memory and the IO hole are freed.
- `lib/printfmt.c:196`: the sign is printed before blank padding (`%4d` of -1 is `-   1`).

## 5. Proofs

`KernelProofs` proves, of `LibSpec` and for every value of the constants that satisfies
`ConfigAssumption` (any number of slots, CPUs, generations and boot environments):
`TypeOK`, `OneCpuPerEnv`, `StatusMatchesCpu`, `FreeListExact`, `PgdirLive`,
`RecvBlocked` and `MonitorOnlyWhenIdle`.

None of these is inductive alone. `IInv` adds what ties them together: for each CPU,
what its mode says of `curenv`, page directory and lock (`CpuOK`), and that a RUNNING or
DYING environment is some CPU's `curenv` (`RunningOnCpu`). That `cr3` is the directory
of `curenv` gives `PgdirLive`; that a CPU's `curenv` is RUNNING or DYING keeps the
scheduler from choosing it again, which gives `OneCpuPerEnv`; that a CPU in the monitor
holds the lock and saw only FREE and NOT_RUNNABLE slots gives `MonitorOnlyWhenIdle`.

The proof follows the code: `Mid` is the state in which a handler calls the scheduler;
`RunInv`, `HaltInv`, `YieldInv` and `TailInv` show once that the scheduler turns it into
`IInv'`; every handler then only has to establish `Mid` (`MidUnchanged`, `MidSet`,
`MidFree`, `MidFork`). `PushExact` and `PopExact` are the facts about the free list, and
`NextIdRange` that an id never reaches the sign bit.

The second part of `KernelProofs` is about steps. From `IInv` every step of `LibSpec` is of one of four
kinds (`StepKinds`): it keeps the FREE set and the zombies and moves one CPU (`KeepStep`),
frees the `curenv` of the CPU that acts (`ExitStep`), frees an environment no CPU has
(`KillStep`), or fills a free slot (`BirthStep`). `Resched` says what the scheduler may do
to the statuses it is called with, once; each handler is then placed in its kind. Three
theorems follow: the refinement of `CpuAssignment` (`Switch`, `Exit`, `Kill`, `Create`
respectively), `ZombieFreedByItsCpu`, and `NewIdDiffers`, the last under
`IDLIM >= 3 * GENINC` (2^31 against 2^12 in the code).

`SmpProofs` proves, for any number of CPUs, any MMIO region with a page for each and any
multiprocessor table that lists the boot processor first (`SmpAssumption`): `TypeOK`,
`MutualExclusion`, `NeverPanics`, `StacksDistinct`, `MmioDistinct` and the refinement of
`BigLock`. The inductive invariant `IInv` says for each CPU at each of its steps what the
lock word, its owner and the start-up variables are: that the owner is recorded only by
the CPU whose exchange returned 0 and cleared before the release is why `holding()`, which
reads the two words apart, never errs on either side; that at most one CPU is between
`mpentry_start` and its STARTED status, because `boot_aps` waits, is why the stack and the
MMIO base, which no lock protects, are read and written by one CPU at a time.

`MemoryProofs` proves, for any number of pages, environments, CPUs and virtual pages
(`MemoryAssumption`), that `LibMemSpec` keeps `RefCountExact`, `FreeIffUnreferenced`,
`DeadHoldNothing` and `TlbCoherent` as long as no page has 2^16 references at once
(`[]NoOverflow`: `pp_ref++` at `kern/pmap.c:509` does not look, and one address space has
room for more mappings than that, so the premise is needed and is the only one).
`Sound(m, limbo)` is what holds of a memory between any two calls inside `pmap.c`: counts
are exact, the free list is what has no reference except for the pages in limbo, which
were taken off the list and are not mapped yet, and every entry has its page table.
There is one lemma per function: `TakePage` puts a page in limbo, `MapSound` and
`SetupSound` take it out, `GiveBack` returns it; `LoseRef` and `GainRef` are about the
count, `EntryChange`, `TableChange` and `DirChange` about how the number of references
changes when one entry does. For the loops of `env_free()`, `Rounds` is induction over the
rounds of a loop, from the order of the naturals being well founded; `UnmapRounds` and
`FreeRounds` show that the recursive functions are the loops, and `Unmapped` and `Freed`
are the loop invariants. `IInv` adds to soundness that the living have page directories,
the dead hold nothing, and TLBs agree with the tables, which each way out of the kernel
restores (`LeaveInv`).

`IpcProofs` proves `PagesSound` and that `Ipc` implements `Mailbox`, for any number of
environments, occupants of a slot and messages. `IInv` says that the status of a slot,
`env_ipc_recving` and the place of its program agree; that one which was woken has a
message in its fields, of which it reads in three steps no part that belongs to another
one, although its sender may be dead and replaced by then; and that a page was only put
where it can be mapped. The refinement mapping is `BoxReq`, `BoxWaiting`, `BoxInbox`, `BoxOut`.

`ForkProofs` proves `ForkSafe` and `CowHandled` for any number of environments and pages.
`IInv` follows the calls: a program in `fork` has a child of its own that cannot run yet
(`ChildInv`), whose pages are those already duplicated, with the contents the child is to
have; `pgfault` works on a copy-on-write page and on a page at PFTEMP that nobody else has
(`FaultInv`); exception stack, upcall and handler are set in this order (`HandlerInv`). A panic
leaves a child behind that nobody makes, which is why `ChildInv` is about the programs that
are still in the calls after `sys_exofork`.

`UpcallProofs` proves `StackSafe` and `ResumesWhereTrapped`, an action property, for any
depth of nesting and any sizes of the two stacks that leave two words between them (a
page in `inc/memlayout.h`; with one word a push just under the exception stack would reach
the stack of the program, and the claim would be false). `IInv` describes
level n of nesting by the n-th frame: where it lies below the one before, what it saves,
and how far the return of the level above has come.

`ConsoleProofs` proves `KeysFollowed`, `InputSafe` and `EchoMatches` for rings, lines and
screens of any size, any prompt and any of the keys in `Code` (`ConsoleAssumption`,
`KeysAssumption`; the line must fit on the screen less a row, 1023 against 1920 cells in the
code). The keyboard's state is stale as long as bytes wait, so `KeysInv` speaks of the
future: `On(shift, kbd, F, n)` says that flag F will be up when the first n - 1 bytes have
been read, and the invariant that a flag that will be up in the end belongs to a held key,
that a DEL which will be read with Control and Alt up was asked for, and that an E0 byte,
read or waiting, is followed by a code that has one (`OnRead`, `OnLonger`,
`OffAfterRelease`). `RingInv` numbers the slots between the two positions instead of taking
remainders (`RingPut`, `RingTake`; `RingOrdered` gives back `InputOrder`). `PutScreen` and
`ShownScreen`, by induction over the string, keep the cursor on the screen; `EchoInsert`
shows that scrolling takes the line along.

The constants that stand for "none" are assumed to differ from the values they are
compared with (`NullAssumption`, `IpcAssumption`).

`LoopProofs` proves `ResultsExact` and `OutputFaithful`: every algorithm of `Library` agrees
with its reference definition, for words, longs, buffers and sectors of any size and inputs of
any length. The library's induction theorems cannot be used here, so `LoopInvariant` is derived
from the order of the naturals being well founded: a set `I[n]` of loop states that holds the
first one and that a round leads from `I[n]` into `I[n + 1]` holds the n-th one, for every n;
`LoopExists` shows that the recursive functions are such loops. Each call is then a loop
invariant:

- `memmove`: after n units the bytes moved are the source's old ones and all others are
  unchanged; choosing the direction by which end overlaps is what keeps the bytes still to be
  read untouched;
- `strtol` and the conversions of `vprintfmt`: the digits are read and written in a number
  system of any base with arithmetic modulo the width; `PrintnumDigits` and `ValueLoop` say what
  a prefix of the digits is worth, congruences relate the signed value, its magnitude and its
  bits, and `NumState` follows the flags of a directive to the conversion character, so that
  what `%d`, `%u`, `%x` and `%p` print, with any width and number of `l`s, reads back as the
  argument;
- `cprintf`: buffer and console together are the text so far, at every character and over every
  flush (`VcprintfDelivers`);
- `stab_binsearch`: what lies left of the region is at or below the address and what lies right
  of it is above, and the left end is where the search began unless an entry at or below the
  address was met;
- `runcmd`: the arguments are the words that start among the characters read, in order and
  as far as they were read, and no more than there is room for (`ParseInv`);
- `bootmain`: the sectors read so far hold the segments so far, although a segment's first sector
  overwrites the end of the one before with the same bytes.

The last part of `LoopProofs` proves `EarlyWritesMapped` of `Boot`, for every layout, machine and
kernel that `BootAssumption` and `MachinesAssumption` admit. It stands beside the algorithms because
the loops of `mem_init` need the same induction. `EarlyWritesMapped` alone is not inductive: which page
`pgdir_walk` writes to next depends on the order of the free list. The invariant is `Early`,
as long as the entry code's page table is in force:

- until `page_init`, `boot_alloc` is where the arrays so far have put it (`ArraysAt`), so the
  arrays end below `PTSIZE` (`ArraysFit`), and every low page that is not in use is listed
  (`FreePagesLists`);
- from `check_page_free_list` on, at least `KERNTABLES + 4` low pages are in front of the list
  (`LowFirstStock`, by induction over the sorting loop), also while `check_page` keeps the list in
  `fl`, and after the checks have returned their three pages in another order (`ThreeBack`);
- while `check_page` runs, entry 0 of `kern_pgdir` has a table where the code inserts and removes,
  the UVPT entry is not disturbed, and the one page table made comes from a low page (`Safe`);
- once the mappings begin, there is a low page in front of the list for each of the page
  tables from `UENVS` up that `kern_pgdir` still lacks (`Stocked`). `MapStocked` shows, by induction
  over the rounds of `boot_map_region`, that a mapping which stays in that range keeps this:
  a round takes a page exactly when an entry was missing.

Only model-checked: liveness (fairness and ENABLED are beyond the prover), and `PagesAccounted` and
`AddressSpaces` of `Boot`: there the kernel's checks of itself have to be executed symbolically, one
after the other, together with the contents of all page tables.

## 6. Not modelled

- CPU mode switches, segment and gate tables (`boot/boot.S`, `kern/entry.S`, `kern/trapentry.S`):
  straight lines of instructions that load constants.
- Device registers (`kern/kclock.c`, `kern/picirq.c`, the APIC, the parallel port) and the search for
  the multiprocessor table in BIOS memory: hardware protocol.
- Printing of trap frames, backtraces and debug information: formatting, whose primitives are in
  `Library`.
- The short string functions (`strcpy`, `strcmp` and the like), and test programs: the
  specifications cover any program, or any that uses the calls the way the library does.

What would be worth proving next: `PagesAccounted` of `Boot`.
