---------------------------- MODULE KernelProofs ----------------------------
(***************************************************************************)
(* Proofs about Kernel, for any number of environments and CPUs, of the    *)
(* specification LibSpec.                                                  *)
(***************************************************************************)
EXTENDS Kernel, TLAPS

-----------------------------------------------------------------------------
(* The inductive invariant *)

(* What a CPU's mode says about its curenv, its page directory and the lock. *)
CpuOK(c) ==
    /\ mode[c] \in ExecModes => cpu_env[c] # NULL
    /\ mode[c] \in {"off", "boot", "start", "halt", "irq"} => cpu_env[c] = NULL
    /\ cpu_env[c] # NULL =>
        IF mode[c] = "monitor" THEN env_status[cpu_env[c]] = "NOT_RUNNABLE"
        ELSE env_status[cpu_env[c]] \in {"RUNNING", "DYING"}
    /\ cr3[c] = IF cpu_env[c] = NULL THEN 0 ELSE env_id[cpu_env[c]]
    /\ mode[c] \in {"boot", "monitor"} => kernel_lock = c
    /\ mode[c] = "monitor" =>
        \A e \in Envs : env_status[e] \in {"FREE", "NOT_RUNNABLE"}

RunningOnCpu ==
    \A e \in Envs : env_status[e] \in {"RUNNING", "DYING"} => \E c \in CPUs : cpu_env[c] = e

IInv ==
    /\ TypeOK
    /\ FreeListExact
    /\ \A c \in CPUs : CpuOK(c)
    /\ OneCpuPerEnv
    /\ RunningOnCpu
    /\ RecvBlocked

-----------------------------------------------------------------------------
(* Arithmetic of environment ids *)

(* What the assumptions on the constants give the provers. *)
LEMMA ConstFacts ==
    /\ NENV \in Nat /\ NENV > 0 /\ NCPU \in Nat /\ NCPU > 0
    /\ BSP \in CPUs /\ NULL \notin Envs /\ NULL \notin CPUs
    /\ GENINC \in Nat /\ GENINC > 0 /\ IDLIM \in Nat /\ IDLIM > GENINC
    /\ NBOOT \in 0..NENV
BY ConfigAssumption DEF Envs, CPUs

(* Two multiples of n that differ are at least n apart. *)
LEMMA MultipleGap ==
    ASSUME NEW n \in Nat, n > 0, NEW a \in Nat, NEW b \in Nat,
           a % n = 0, b % n = 0, a < b
    PROVE  a + n <= b
<1>1. PICK p \in Int : a = n * p
  BY Z3
<1>2. PICK q \in Int : b = n * q
  BY Z3
<1>3. p < q
  BY <1>1, <1>2, Z3
<1> QED BY <1>1, <1>2, <1>3, Z3

(* Clearing the index bits of an id, as env_alloc() does, rounds it down. *)
LEMMA RoundDown ==
    ASSUME NEW n \in Nat, n > 0, NEW a \in Nat
    PROVE  /\ a - (a % n) \in Nat
           /\ (a - (a % n)) % n = 0
BY Z3

(* An id env_alloc() makes is in range and positive. *)
LEMMA NextIdRange ==
    ASSUME TypeOK, NEW e \in Envs
    PROVE  NextId(e) \in EnvIds /\ NextId(e) > 0
<1> DEFINE next == env_id[e] + GENINC
           gen == next - (next % NENV)
           g == IF gen >= IDLIM THEN GENINC ELSE gen
<1>1. next \in Nat /\ next >= GENINC
  BY ConstFacts DEF TypeOK, EnvIds
<1>2. gen \in Nat /\ gen % NENV = 0
  BY <1>1, RoundDown, ConstFacts
<1>3. gen >= GENINC
  <2>1. GENINC % NENV = 0
    BY ConfigAssumption
  <2>2. next % NENV \in 0..(NENV - 1)
    BY <1>1, ConstFacts
  <2>3. gen > GENINC - NENV
    BY <1>1, <2>2, ConstFacts
  <2>4. CASE gen < GENINC
    BY <2>1, <2>3, <2>4, <1>2, MultipleGap, ConstFacts
  <2> QED BY <2>4, <1>2, ConstFacts
<1>4. g \in Nat /\ g < IDLIM /\ g > 0 /\ g % NENV = 0
  BY <1>2, <1>3, ConstFacts, ConfigAssumption
<1>5. g + NENV <= IDLIM
  BY <1>4, MultipleGap, ConstFacts, ConfigAssumption
<1>6. NextId(e) = g + e
  BY DEF NextId
<1> QED BY <1>4, <1>5, <1>6, ConstFacts DEF EnvIds, Envs

-----------------------------------------------------------------------------
(* Scheduling *)

(***************************************************************************)
(* The state in which CPU c, holding the lock, calls the scheduler: st,    *)
(* cur and pd are its view of the statuses, curenv and page directory, the *)
(* other variables have reached their next values.                         *)
(***************************************************************************)
MidTypes(st, cur) ==
    /\ st \in [Envs -> EnvStatus]
    /\ cur \in Envs \cup {NULL}
    /\ env_id' \in [Envs -> EnvIds]
    /\ env_parent_id' \in [Envs -> EnvIds]
    /\ env_ipc_recving' \in [Envs -> BOOLEAN]
    /\ env_free_list' \in Seq(Envs)
    /\ isr' \in [CPUs -> BOOLEAN]
    /\ panicstr' \in BOOLEAN

(* The free list s holds exactly the slots that are FREE in st. *)
ListExact(st, s) ==
    /\ \A e \in Envs : st[e] = "FREE" <=> \E i \in 1..Len(s) : s[i] = e
    /\ \A i, j \in 1..Len(s) : s[i] = s[j] => i = j

Mid(c, st, cur, pd) ==
    /\ MidTypes(st, cur)
    /\ ListExact(st, env_free_list')
    /\ pd = IF cur = NULL THEN 0 ELSE env_id[cur]
    /\ \A e \in Envs :
        /\ st[e] \in {"RUNNABLE", "RUNNING", "DYING"} \/ e = cur => env_id'[e] = env_id[e]
        /\ env_ipc_recving'[e] => st[e] \in {"NOT_RUNNABLE", "FREE"}
        /\ st[e] \in {"RUNNING", "DYING"} =>
            \/ \E d \in CPUs \ {c} : cpu_env[d] = e
            \/ e = cur /\ st[e] = "RUNNING"
    /\ cur # NULL => /\ st[cur] \in {"RUNNING", "RUNNABLE", "NOT_RUNNABLE"}
                     /\ \A d \in CPUs \ {c} : cpu_env[d] # cur
    /\ \A d \in CPUs \ {c} :
        /\ mode[d] \notin {"boot", "monitor"}
        /\ cpu_env[d] # NULL => st[cpu_env[d]] \in {"RUNNING", "DYING"}

(* env_run() of a RUNNABLE environment, or of curenv. *)
LEMMA RunInv ==
    ASSUME IInv, NEW c \in CPUs, NEW st, NEW cur, NEW pd, NEW e \in Envs,
           Mid(c, st, cur, pd),
           st[e] = "RUNNABLE" \/ (e = cur /\ st[e] = "RUNNING"),
           env_run(c, st, cur, e)
    PROVE  IInv'
<1> DEFINE saved == IF cur # NULL /\ st[cur] = "RUNNING"
                    THEN [st EXCEPT ![cur] = "RUNNABLE"] ELSE st
<1>0. /\ env_status' = [saved EXCEPT ![e] = "RUNNING"]
      /\ cpu_env' = [cpu_env EXCEPT ![c] = e]
      /\ cr3' = [cr3 EXCEPT ![c] = env_id[e]]
      /\ mode' = [mode EXCEPT ![c] = "pop"]
      /\ trapno' = [trapno EXCEPT ![c] = "none"]
      /\ kernel_lock' = NULL
      /\ cpu_status' = cpu_status
  BY DEF env_run
<1>1. saved \in [Envs -> EnvStatus]
  BY DEF Mid, MidTypes, EnvStatus
<1>2. /\ env_status' \in [Envs -> EnvStatus]
      /\ env_status'[e] = "RUNNING"
      /\ \A f \in Envs : f # e /\ f = cur /\ st[f] = "RUNNING" => env_status'[f] = "RUNNABLE"
      /\ \A f \in Envs : f # e /\ ~(f = cur /\ st[f] = "RUNNING") => env_status'[f] = st[f]
  BY <1>0, <1>1, ConstFacts DEF Mid, MidTypes, EnvStatus
<1> HIDE DEF saved
<1>3. e # NULL /\ e \in Envs /\ st \in [Envs -> EnvStatus]
  BY ConstFacts DEF Mid, MidTypes
<1>4. \A d \in CPUs \ {c} : cpu_env[d] # e
  BY <1>3, ConstFacts DEF Mid
<1>5. TypeOK'
  BY <1>0, <1>2, ConstFacts DEF IInv, TypeOK, Mid, MidTypes, Modes
<1>6. FreeListExact'
  <2>1. \A f \in Envs : env_status'[f] = "FREE" <=> st[f] = "FREE"
    BY <1>2, <1>3
  <2> QED BY <2>1 DEF Mid, ListExact, FreeListExact
<1>7. \A d \in CPUs : CpuOK(d)'
  <2> SUFFICES ASSUME NEW d \in CPUs PROVE CpuOK(d)'
    OBVIOUS
  <2>1. CASE d = c
    BY <2>1, <1>0, <1>2, <1>3 DEF CpuOK, IInv, TypeOK, Mid, ExecModes
  <2>2. CASE d # c
    <3>1. /\ cpu_env'[d] = cpu_env[d] /\ mode'[d] = mode[d] /\ cr3'[d] = cr3[d]
          /\ mode[d] \notin {"boot", "monitor"}
          /\ cpu_env[d] # NULL => st[cpu_env[d]] \in {"RUNNING", "DYING"}
          /\ cpu_env[d] \in Envs \cup {NULL}
          /\ cpu_env[d] # e
      BY <2>2, <1>0, <1>4 DEF IInv, TypeOK, Mid
    <3>2. cpu_env[d] # NULL => cpu_env[d] # cur
      BY <2>2 DEF Mid
    <3>3. cpu_env[d] # NULL => /\ env_status'[cpu_env[d]] \in {"RUNNING", "DYING"}
                               /\ env_id'[cpu_env[d]] = env_id[cpu_env[d]]
      BY <3>1, <3>2, <1>2 DEF Mid
    <3>4. CpuOK(d)
      BY DEF IInv
    <3> QED BY <3>1, <3>3, <3>4 DEF CpuOK
  <2> QED BY <2>1, <2>2
<1>8. OneCpuPerEnv'
  BY <1>0, <1>4 DEF IInv, TypeOK, OneCpuPerEnv
<1>9. RunningOnCpu'
  <2> SUFFICES ASSUME NEW f \in Envs, env_status'[f] \in {"RUNNING", "DYING"}
               PROVE  \E d \in CPUs : cpu_env'[d] = f
    BY DEF RunningOnCpu
  <2>1. CASE f = e
    BY <2>1, <1>0 DEF IInv, TypeOK
  <2>2. CASE f # e
    <3>1. st[f] \in {"RUNNING", "DYING"} /\ ~(f = cur /\ st[f] = "RUNNING")
      BY <2>2, <1>2
    <3>2. PICK d \in CPUs \ {c} : cpu_env[d] = f
      BY <3>1 DEF Mid
    <3> QED BY <3>2, <1>0 DEF IInv, TypeOK
  <2> QED BY <2>1, <2>2
<1>10. RecvBlocked'
  BY <1>2, <1>3 DEF Mid, RecvBlocked
<1> QED BY <1>5, <1>6, <1>7, <1>8, <1>9, <1>10 DEF IInv

(* sched_halt() when no environment is RUNNABLE and curenv is not RUNNING. *)
LEMMA HaltInv ==
    ASSUME IInv, NEW c \in CPUs, NEW st, NEW cur, NEW pd,
           Mid(c, st, cur, pd),
           \A e \in Envs : st[e] # "RUNNABLE",
           ~(cur # NULL /\ st[cur] = "RUNNING"),
           sched_halt(c, st, cur, pd)
    PROVE  IInv'
<1>0. /\ env_status' = st
      /\ st \in [Envs -> EnvStatus]
      /\ trapno' = [trapno EXCEPT ![c] = "none"]
  BY DEF sched_halt, Mid, MidTypes
<1>1. FreeListExact' /\ RecvBlocked'
  BY <1>0 DEF Mid, ListExact, FreeListExact, RecvBlocked
<1>2. \A d \in CPUs \ {c} :
        /\ cpu_env[d] \in Envs \cup {NULL}
        /\ mode[d] \notin {"boot", "monitor"}
        /\ CpuOK(d)
        /\ cpu_env[d] # NULL => /\ st[cpu_env[d]] \in {"RUNNING", "DYING"}
                                /\ env_id'[cpu_env[d]] = env_id[cpu_env[d]]
                                /\ cpu_env[d] # cur
  BY DEF Mid, IInv, TypeOK
<1>3. \A e \in Envs : st[e] \in {"RUNNING", "DYING"} => \E d \in CPUs \ {c} : cpu_env[d] = e
  BY ConstFacts DEF Mid
<1>a. CASE \A e \in Envs : st[e] \notin {"RUNNABLE", "RUNNING", "DYING"}
  <2>0. /\ cpu_env' = [cpu_env EXCEPT ![c] = cur]
        /\ cr3' = [cr3 EXCEPT ![c] = pd]
        /\ mode' = [mode EXCEPT ![c] = "monitor"]
        /\ kernel_lock' = c
        /\ cpu_status' = cpu_status
    BY <1>a DEF sched_halt
  <2>1. pd \in EnvIds
    BY ConstFacts DEF Mid, MidTypes, IInv, TypeOK, EnvIds
  <2>2. TypeOK'
    BY <2>0, <2>1, <1>0 DEF IInv, TypeOK, Mid, MidTypes, Modes
  <2>3. \A d \in CPUs \ {c} : cpu_env[d] = NULL
    BY <1>2, <1>a
  <2>4. \A d \in CPUs : CpuOK(d)'
    <3> SUFFICES ASSUME NEW d \in CPUs PROVE CpuOK(d)'
      OBVIOUS
    <3>1. CASE d = c
      <4>1. \A e \in Envs : st[e] \in {"FREE", "NOT_RUNNABLE"}
        BY <1>a, <1>0 DEF EnvStatus
      <4>2. cur # NULL => cur \in Envs /\ env_id'[cur] = env_id[cur] /\ st[cur] = "NOT_RUNNABLE"
        BY <1>a DEF Mid, MidTypes
      <4>3. pd = IF cur = NULL THEN 0 ELSE env_id[cur]
        BY DEF Mid
      <4> QED BY <3>1, <4>1, <4>2, <4>3, <2>0, <1>0 DEF CpuOK, IInv, TypeOK, ExecModes
    <3>2. CASE d # c
      BY <3>2, <2>0, <1>2, <2>3 DEF CpuOK, IInv, TypeOK
    <3> QED BY <3>1, <3>2
  <2>5. OneCpuPerEnv'
    BY <2>0, <2>3 DEF IInv, TypeOK, OneCpuPerEnv
  <2>6. RunningOnCpu'
    BY <1>0, <1>a DEF RunningOnCpu
  <2> QED BY <1>1, <2>2, <2>4, <2>5, <2>6 DEF IInv
<1>b. CASE ~ \A e \in Envs : st[e] \notin {"RUNNABLE", "RUNNING", "DYING"}
  <2>0. /\ cpu_env' = [cpu_env EXCEPT ![c] = NULL]
        /\ cr3' = [cr3 EXCEPT ![c] = 0]
        /\ mode' = [mode EXCEPT ![c] = "halt"]
        /\ cpu_status' = [cpu_status EXCEPT ![c] = "HALTED"]
        /\ kernel_lock' = NULL
    BY <1>b DEF sched_halt
  <2>1. TypeOK'
    BY <2>0, <1>0, ConstFacts DEF IInv, TypeOK, Mid, MidTypes, Modes, EnvIds
  <2>2. \A d \in CPUs : CpuOK(d)'
    <3> SUFFICES ASSUME NEW d \in CPUs PROVE CpuOK(d)'
      OBVIOUS
    <3>1. CASE d = c
      BY <3>1, <2>0, <1>0 DEF CpuOK, IInv, TypeOK, ExecModes
    <3>2. CASE d # c
      BY <3>2, <2>0, <1>0, <1>2 DEF CpuOK, IInv, TypeOK
    <3> QED BY <3>1, <3>2
  <2>3. OneCpuPerEnv'
    BY <2>0 DEF IInv, TypeOK, OneCpuPerEnv
  <2>4. RunningOnCpu'
    BY <2>0, <1>0, <1>3 DEF RunningOnCpu, IInv, TypeOK
  <2> QED BY <1>1, <2>1, <2>2, <2>3, <2>4 DEF IInv
<1> QED BY <1>a, <1>b

(* sched_yield() with the lock held re-establishes the invariant. *)
LEMMA YieldInv ==
    ASSUME IInv, NEW c \in CPUs, NEW st, NEW cur, NEW pd,
           Mid(c, st, cur, pd),
           sched_yield(c, st, cur, pd)
    PROVE  IInv'
<1>1. CASE \E e \in Envs : FirstRunnable(st, SearchStart(cur), e) /\ env_run(c, st, cur, e)
  BY <1>1, RunInv DEF FirstRunnable
<1>2. CASE /\ \A e \in Envs : st[e] # "RUNNABLE"
           /\ IF cur # NULL /\ st[cur] = "RUNNING"
              THEN env_run(c, st, cur, cur)
              ELSE sched_halt(c, st, cur, pd)
  <2>1. CASE cur # NULL /\ st[cur] = "RUNNING"
    <3>1. cur \in Envs /\ env_run(c, st, cur, cur)
      BY <2>1, <1>2 DEF Mid, MidTypes
    <3> QED BY <3>1, <2>1, RunInv
  <2>2. CASE ~(cur # NULL /\ st[cur] = "RUNNING")
    BY <2>2, <1>2, HaltInv
  <2> QED BY <2>1, <2>2
<1> QED BY <1>1, <1>2 DEF sched_yield

(* So does the end of trap(), on which most handlers finish. *)
LEMMA TailInv ==
    ASSUME IInv, NEW c \in CPUs, NEW st,
           cpu_env[c] \in Envs,
           Mid(c, st, cpu_env[c], cr3[c]),
           TrapTail(c, st)
    PROVE  IInv'
<1>1. CASE st[cpu_env[c]] = "RUNNING"
  BY <1>1, RunInv DEF TrapTail
<1>2. CASE st[cpu_env[c]] # "RUNNING"
  BY <1>2, YieldInv DEF TrapTail
<1> QED BY <1>1, <1>2

-----------------------------------------------------------------------------
(* The handlers *)

(* What CPU c, holding the lock, can rely on. *)
LEMMA Others ==
    ASSUME IInv, NEW c \in CPUs,
           kernel_lock = NULL \/ kernel_lock = c,
           mode[c] # "monitor"
    PROVE  /\ \A d \in CPUs \ {c} :
                /\ mode[d] \notin {"boot", "monitor"}
                /\ cpu_env[d] # NULL => env_status[cpu_env[d]] \in {"RUNNING", "DYING"}
           /\ \A e \in Envs : env_status[e] \in {"RUNNING", "DYING"} =>
                e = cpu_env[c] \/ \E d \in CPUs \ {c} : cpu_env[d] = e
           /\ cpu_env[c] \in Envs \cup {NULL}
           /\ cpu_env[c] # NULL =>
                /\ env_status[cpu_env[c]] \in {"RUNNING", "DYING"}
                /\ \A d \in CPUs \ {c} : cpu_env[d] # cpu_env[c]
           /\ cr3[c] = IF cpu_env[c] = NULL THEN 0 ELSE env_id[cpu_env[c]]
<1>1. CpuOK(c) /\ cpu_env[c] \in Envs \cup {NULL}
  BY DEF IInv, TypeOK
<1>2. \A d \in CPUs \ {c} : mode[d] \notin {"boot", "monitor"}
  BY ConstFacts DEF IInv, CpuOK
<1>3. \A d \in CPUs \ {c} : cpu_env[d] # NULL => env_status[cpu_env[d]] \in {"RUNNING", "DYING"}
  BY <1>2 DEF IInv, CpuOK
<1>4. \A e \in Envs : env_status[e] \in {"RUNNING", "DYING"} =>
        e = cpu_env[c] \/ \E d \in CPUs \ {c} : cpu_env[d] = e
  BY DEF IInv, RunningOnCpu
<1>5. cpu_env[c] # NULL => /\ env_status[cpu_env[c]] \in {"RUNNING", "DYING"}
                           /\ \A d \in CPUs \ {c} : cpu_env[d] # cpu_env[c]
  BY <1>1 DEF IInv, OneCpuPerEnv, CpuOK
<1> QED BY <1>1, <1>2, <1>3, <1>4, <1>5 DEF CpuOK

(* A handler that changes nothing but what the scheduler changes. *)
LEMMA MidUnchanged ==
    ASSUME IInv, NEW c \in CPUs,
           kernel_lock = NULL \/ kernel_lock = c,
           mode[c] # "monitor",
           cpu_env[c] # NULL => env_status[cpu_env[c]] # "DYING",
           isr' \in [CPUs -> BOOLEAN],
           UNCHANGED <<env_id, env_parent_id, env_ipc_recving, env_free_list, panicstr>>
    PROVE  Mid(c, env_status, cpu_env[c], cr3[c])
<1>1. MidTypes(env_status, cpu_env[c])
  BY DEF MidTypes, IInv, TypeOK
<1>2. ListExact(env_status, env_free_list')
  BY DEF ListExact, IInv, FreeListExact
<1>3. \A e \in Envs : env_ipc_recving'[e] => env_status[e] \in {"NOT_RUNNABLE", "FREE"}
  BY DEF IInv, RecvBlocked
<1> QED BY <1>1, <1>2, <1>3, Others, ConstFacts DEF Mid

(* A handler that changes one environment's status, not to or from FREE. *)
LEMMA MidSet ==
    ASSUME IInv, NEW c \in CPUs, kernel_lock = NULL, mode[c] # "monitor",
           cpu_env[c] \in Envs, env_status[cpu_env[c]] = "RUNNING",
           NEW e \in Envs, NEW s,
           \/ e = cpu_env[c] /\ s \in {"RUNNABLE", "NOT_RUNNABLE"}
           \/ e # cpu_env[c] /\ env_status[e] = "RUNNING" /\ s = "DYING"
           \/ /\ e # cpu_env[c]
              /\ env_status[e] \in {"RUNNABLE", "NOT_RUNNABLE"}
              /\ s \in {"RUNNABLE", "NOT_RUNNABLE"},
           env_ipc_recving' \in [Envs -> BOOLEAN],
           \A f \in Envs \ {e} : env_ipc_recving'[f] => env_ipc_recving[f],
           env_ipc_recving'[e] => s = "NOT_RUNNABLE",
           UNCHANGED <<env_id, env_parent_id, env_free_list, isr, panicstr>>
    PROVE  Mid(c, [env_status EXCEPT ![e] = s], cpu_env[c], cr3[c])
<1> DEFINE st == [env_status EXCEPT ![e] = s]
<1>1. /\ st \in [Envs -> EnvStatus]
      /\ st[e] = s
      /\ \A f \in Envs : f # e => st[f] = env_status[f]
      /\ s # "FREE" /\ env_status[e] # "FREE"
  BY DEF IInv, TypeOK, EnvStatus
<1> HIDE DEF st
<1>2. MidTypes(st, cpu_env[c])
  BY <1>1 DEF MidTypes, IInv, TypeOK
<1>3. ListExact(st, env_free_list')
  <2>1. \A f \in Envs : st[f] = "FREE" <=> env_status[f] = "FREE"
    BY <1>1
  <2> QED BY <2>1 DEF ListExact, IInv, FreeListExact
<1>4. \A f \in Envs : env_ipc_recving'[f] => st[f] \in {"NOT_RUNNABLE", "FREE"}
  BY <1>1 DEF IInv, RecvBlocked
<1>5. \A d \in CPUs \ {c} :
        /\ mode[d] \notin {"boot", "monitor"}
        /\ cpu_env[d] # NULL => st[cpu_env[d]] \in {"RUNNING", "DYING"}
  <2> SUFFICES ASSUME NEW d \in CPUs \ {c}
               PROVE  /\ mode[d] \notin {"boot", "monitor"}
                      /\ cpu_env[d] # NULL => st[cpu_env[d]] \in {"RUNNING", "DYING"}
    OBVIOUS
  <2>1. /\ mode[d] \notin {"boot", "monitor"}
        /\ cpu_env[d] \in Envs \cup {NULL}
        /\ cpu_env[d] # NULL => /\ env_status[cpu_env[d]] \in {"RUNNING", "DYING"}
                                /\ cpu_env[d] # cpu_env[c]
    BY Others, ConstFacts DEF IInv, TypeOK
  <2> QED BY <2>1, <1>1
<1>6. \A f \in Envs : st[f] \in {"RUNNING", "DYING"} =>
        \/ \E d \in CPUs \ {c} : cpu_env[d] = f
        \/ f = cpu_env[c] /\ st[f] = "RUNNING"
  <2> SUFFICES ASSUME NEW f \in Envs, st[f] \in {"RUNNING", "DYING"}
               PROVE  \/ \E d \in CPUs \ {c} : cpu_env[d] = f
                      \/ f = cpu_env[c] /\ st[f] = "RUNNING"
    OBVIOUS
  <2>1. env_status[f] \in {"RUNNING", "DYING"} /\ (f = cpu_env[c] => f # e)
    BY <1>1
  <2> QED BY <2>1, <1>1, Others
<1>7. /\ st[cpu_env[c]] \in {"RUNNING", "RUNNABLE", "NOT_RUNNABLE"}
      /\ \A d \in CPUs \ {c} : cpu_env[d] # cpu_env[c]
      /\ cr3[c] = IF cpu_env[c] = NULL THEN 0 ELSE env_id[cpu_env[c]]
  BY <1>1, Others, ConstFacts
<1>8. Mid(c, st, cpu_env[c], cr3[c])
  BY <1>2, <1>3, <1>4, <1>5, <1>6, <1>7 DEF Mid
<1> QED BY <1>8 DEF st

(* env_free()'s push and env_alloc()'s pop keep the free list exact. *)
LEMMA PushExact ==
    ASSUME NEW st \in [Envs -> EnvStatus], NEW s \in Seq(Envs), ListExact(st, s),
           NEW e \in Envs, st[e] # "FREE"
    PROVE  /\ <<e>> \o s \in Seq(Envs)
           /\ ListExact([st EXCEPT ![e] = "FREE"], <<e>> \o s)
<1> DEFINE t == <<e>> \o s
           st2 == [st EXCEPT ![e] = "FREE"]
<1>1. /\ t \in Seq(Envs)
      /\ Len(t) = Len(s) + 1
      /\ Len(s) \in Nat
      /\ t[1] = e
      /\ \A i \in 1..Len(s) : t[i + 1] = s[i]
  OBVIOUS
<1>2. \A i \in 2..Len(t) : i - 1 \in 1..Len(s) /\ t[i] = s[i - 1]
  BY <1>1
<1>3. \A f \in Envs : st2[f] = "FREE" <=> \E i \in 1..Len(t) : t[i] = f
  <2> SUFFICES ASSUME NEW f \in Envs
               PROVE  st2[f] = "FREE" <=> \E i \in 1..Len(t) : t[i] = f
    OBVIOUS
  <2>1. CASE f = e
    <3>1. st2[f] = "FREE" /\ 1 \in 1..Len(t) /\ t[1] = f
      BY <2>1, <1>1
    <3> QED BY <3>1
  <2>2. CASE f # e
    <3>1. st2[f] = st[f]
      BY <2>2
    <3>2. ASSUME NEW i \in 1..Len(s), s[i] = f PROVE \E j \in 1..Len(t) : t[j] = f
      <4>1. i + 1 \in 1..Len(t) /\ t[i + 1] = f
        BY <3>2, <1>1
      <4> QED BY <4>1
    <3>3. ASSUME NEW j \in 1..Len(t), t[j] = f PROVE \E i \in 1..Len(s) : s[i] = f
      <4>1. j \in 2..Len(t)
        BY <3>3, <2>2, <1>1
      <4> QED BY <4>1, <1>2, <3>3
    <3> QED BY <3>1, <3>2, <3>3 DEF ListExact
  <2> QED BY <2>1, <2>2
<1>4. \A i, j \in 1..Len(t) : t[i] = t[j] => i = j
  <2> SUFFICES ASSUME NEW i \in 1..Len(t), NEW j \in 1..Len(t), t[i] = t[j]
               PROVE  i = j
    OBVIOUS
  <2>1. \A k \in 2..Len(t) : t[k] # e
    BY <1>2 DEF ListExact
  <2>2. CASE i = 1 \/ j = 1
    BY <2>1, <2>2, <1>1
  <2>3. CASE i \in 2..Len(t) /\ j \in 2..Len(t)
    <3>1. i - 1 = j - 1
      BY <2>3, <1>2 DEF ListExact
    <3> QED BY <3>1
  <2> QED BY <2>2, <2>3, <1>1
<1> QED BY <1>1, <1>3, <1>4 DEF ListExact

(* The pop of env_alloc() takes the first slot, and no other, off the list. *)
LEMMA PopExact ==
    ASSUME NEW st \in [Envs -> EnvStatus], NEW s \in Seq(Envs), ListExact(st, s),
           s # <<>>, NEW v \in EnvStatus \ {"FREE"}
    PROVE  /\ Head(s) \in Envs
           /\ st[Head(s)] = "FREE"
           /\ Tail(s) \in Seq(Envs)
           /\ ListExact([st EXCEPT ![Head(s)] = v], Tail(s))
<1> DEFINE e == Head(s)
           t == Tail(s)
           st2 == [st EXCEPT ![e] = v]
<1>1. /\ t \in Seq(Envs)
      /\ Len(s) = Len(t) + 1
      /\ Len(t) \in Nat
      /\ e = s[1] /\ e \in Envs
      /\ \A i \in 1..Len(t) : t[i] = s[i + 1]
  OBVIOUS
<1>2. st[e] = "FREE"
  <2>1. 1 \in 1..Len(s)
    BY <1>1
  <2> QED BY <2>1, <1>1 DEF ListExact
<1>3. \A i \in 1..Len(t) : t[i] # e
  BY <1>1 DEF ListExact
<1>4. \A f \in Envs : st2[f] = "FREE" <=> \E i \in 1..Len(t) : t[i] = f
  <2> SUFFICES ASSUME NEW f \in Envs
               PROVE  st2[f] = "FREE" <=> \E i \in 1..Len(t) : t[i] = f
    OBVIOUS
  <2>1. CASE f = e
    BY <2>1, <1>3
  <2>2. CASE f # e
    <3>1. st2[f] = st[f]
      BY <2>2
    <3>2. ASSUME NEW i \in 1..Len(t), t[i] = f PROVE \E j \in 1..Len(s) : s[j] = f
      <4>1. i + 1 \in 1..Len(s) /\ s[i + 1] = f
        BY <3>2, <1>1
      <4> QED BY <4>1
    <3>3. ASSUME NEW j \in 1..Len(s), s[j] = f PROVE \E i \in 1..Len(t) : t[i] = f
      <4>1. j # 1
        BY <3>3, <2>2, <1>1
      <4>2. j - 1 \in 1..Len(t) /\ t[j - 1] = s[j]
        BY <4>1, <1>1
      <4> QED BY <4>2, <3>3
    <3> QED BY <3>1, <3>2, <3>3 DEF ListExact
  <2> QED BY <2>1, <2>2
<1>5. \A i, j \in 1..Len(t) : t[i] = t[j] => i = j
  <2> SUFFICES ASSUME NEW i \in 1..Len(t), NEW j \in 1..Len(t), t[i] = t[j]
               PROVE  i = j
    OBVIOUS
  <2>1. i + 1 \in 1..Len(s) /\ j + 1 \in 1..Len(s) /\ s[i + 1] = s[j + 1]
    BY <1>1
  <2>2. i + 1 = j + 1
    BY <2>1 DEF ListExact
  <2> QED BY <2>2
<1> QED BY <1>1, <1>2, <1>4, <1>5 DEF ListExact

(* A handler that frees curenv, or an environment no CPU has. *)
LEMMA MidFree ==
    ASSUME IInv, NEW c \in CPUs, kernel_lock = NULL, mode[c] # "monitor",
           NEW e \in Envs, env_status[e] # "FREE",
           NEW cur, NEW pd,
           \/ e = cpu_env[c] /\ cur = NULL /\ pd = 0
           \/ /\ e # cpu_env[c] /\ env_status[e] \notin {"RUNNING", "DYING"}
              /\ cpu_env[c] \in Envs /\ env_status[cpu_env[c]] = "RUNNING"
              /\ cur = cpu_env[c] /\ pd = cr3[c],
           env_free_list' = <<e>> \o env_free_list,
           UNCHANGED <<env_id, env_parent_id, env_ipc_recving, isr, panicstr>>
    PROVE  Mid(c, [env_status EXCEPT ![e] = "FREE"], cur, pd)
<1> DEFINE st == [env_status EXCEPT ![e] = "FREE"]
<1>1. /\ st \in [Envs -> EnvStatus]
      /\ st[e] = "FREE"
      /\ \A f \in Envs : f # e => st[f] = env_status[f]
  BY DEF IInv, TypeOK, EnvStatus
<1>2. env_free_list' \in Seq(Envs) /\ ListExact(st, env_free_list')
  <2>1. env_status \in [Envs -> EnvStatus] /\ env_free_list \in Seq(Envs)
    BY DEF IInv, TypeOK
  <2>2. ListExact(env_status, env_free_list)
    BY DEF IInv, FreeListExact, ListExact
  <2> QED BY <2>1, <2>2, PushExact
<1> HIDE DEF st
<1>3. MidTypes(st, cur)
  BY <1>1, <1>2, ConstFacts DEF MidTypes, IInv, TypeOK
<1>4. \A f \in Envs : env_ipc_recving'[f] => st[f] \in {"NOT_RUNNABLE", "FREE"}
  BY <1>1 DEF IInv, RecvBlocked
<1>5. \A d \in CPUs \ {c} :
        /\ mode[d] \notin {"boot", "monitor"}
        /\ cpu_env[d] # NULL => st[cpu_env[d]] \in {"RUNNING", "DYING"}
  <2> SUFFICES ASSUME NEW d \in CPUs \ {c}
               PROVE  /\ mode[d] \notin {"boot", "monitor"}
                      /\ cpu_env[d] # NULL => st[cpu_env[d]] \in {"RUNNING", "DYING"}
    OBVIOUS
  <2>1. /\ mode[d] \notin {"boot", "monitor"}
        /\ cpu_env[d] \in Envs \cup {NULL}
        /\ cpu_env[d] # NULL => env_status[cpu_env[d]] \in {"RUNNING", "DYING"}
        /\ e = cpu_env[c] => cpu_env[d] # e
    BY Others, ConstFacts DEF IInv, TypeOK
  <2> QED BY <2>1, <1>1
<1>6. \A f \in Envs : st[f] \in {"RUNNING", "DYING"} =>
        \/ \E d \in CPUs \ {c} : cpu_env[d] = f
        \/ f = cur /\ st[f] = "RUNNING"
  <2> SUFFICES ASSUME NEW f \in Envs, st[f] \in {"RUNNING", "DYING"}
               PROVE  \/ \E d \in CPUs \ {c} : cpu_env[d] = f
                      \/ f = cur /\ st[f] = "RUNNING"
    OBVIOUS
  <2>1. env_status[f] \in {"RUNNING", "DYING"} /\ f # e /\ st[f] = env_status[f]
    BY <1>1
  <2> QED BY <2>1, Others
<1>7. cur # NULL => /\ st[cur] \in {"RUNNING", "RUNNABLE", "NOT_RUNNABLE"}
                    /\ \A d \in CPUs \ {c} : cpu_env[d] # cur
  BY <1>1, Others
<1>8. pd = IF cur = NULL THEN 0 ELSE env_id[cur]
  BY Others, ConstFacts
<1>9. Mid(c, st, cur, pd)
  BY <1>2, <1>3, <1>4, <1>5, <1>6, <1>7, <1>8 DEF Mid
<1> QED BY <1>9 DEF st

(* What env_alloc() leaves, when its caller sets the new status to v. *)
LEMMA AllocFacts ==
    ASSUME IInv, NEW e \in Envs, NEW parent \in EnvIds, NEW v \in EnvStatus \ {"FREE"},
           env_alloc(e, parent)
    PROVE  /\ env_status[e] = "FREE"
           /\ [env_status EXCEPT ![e] = v] \in [Envs -> EnvStatus]
           /\ env_free_list' \in Seq(Envs)
           /\ ListExact([env_status EXCEPT ![e] = v], env_free_list')
           /\ env_id' \in [Envs -> EnvIds]
           /\ \A f \in Envs : f # e => env_id'[f] = env_id[f]
           /\ env_parent_id' \in [Envs -> EnvIds]
           /\ env_ipc_recving' \in [Envs -> BOOLEAN]
           /\ ~env_ipc_recving'[e]
           /\ \A f \in Envs : f # e => env_ipc_recving'[f] = env_ipc_recving[f]
<1>1. env_status \in [Envs -> EnvStatus] /\ env_free_list \in Seq(Envs)
  BY DEF IInv, TypeOK
<1>2. ListExact(env_status, env_free_list)
  BY DEF IInv, FreeListExact, ListExact
<1>3. /\ env_status[e] = "FREE"
      /\ env_free_list' \in Seq(Envs)
      /\ ListExact([env_status EXCEPT ![e] = v], env_free_list')
  BY <1>1, <1>2, PopExact DEF env_alloc
<1>4. NextId(e) \in EnvIds
  BY NextIdRange DEF IInv
<1> QED BY <1>1, <1>3, <1>4 DEF env_alloc, IInv, TypeOK

(* sys_exofork() hands the scheduler a consistent state. *)
LEMMA MidFork ==
    ASSUME IInv, NEW c \in CPUs, kernel_lock = NULL, mode[c] # "monitor",
           cpu_env[c] \in Envs, env_status[cpu_env[c]] = "RUNNING",
           NEW e \in Envs, env_alloc(e, env_id[cpu_env[c]]),
           UNCHANGED <<isr, panicstr>>
    PROVE  Mid(c, [env_status EXCEPT ![e] = "NOT_RUNNABLE"], cpu_env[c], cr3[c])
<1> DEFINE st == [env_status EXCEPT ![e] = "NOT_RUNNABLE"]
<1>0. env_id[cpu_env[c]] \in EnvIds
  BY DEF IInv, TypeOK
<1>1. /\ env_status[e] = "FREE"
      /\ st \in [Envs -> EnvStatus]
      /\ env_free_list' \in Seq(Envs)
      /\ ListExact(st, env_free_list')
      /\ env_id' \in [Envs -> EnvIds]
      /\ \A f \in Envs : f # e => env_id'[f] = env_id[f]
      /\ env_parent_id' \in [Envs -> EnvIds]
      /\ env_ipc_recving' \in [Envs -> BOOLEAN]
      /\ ~env_ipc_recving'[e]
      /\ \A f \in Envs : f # e => env_ipc_recving'[f] = env_ipc_recving[f]
  BY <1>0, AllocFacts DEF EnvStatus
<1>2. st[e] = "NOT_RUNNABLE" /\ \A f \in Envs : f # e => st[f] = env_status[f]
  BY DEF IInv, TypeOK
<1> HIDE DEF st
<1>3. MidTypes(st, cpu_env[c])
  BY <1>1 DEF MidTypes, IInv, TypeOK
<1>4. \A f \in Envs : env_ipc_recving'[f] => st[f] \in {"NOT_RUNNABLE", "FREE"}
  BY <1>1, <1>2 DEF IInv, RecvBlocked
<1>5. \A f \in Envs : st[f] \in {"RUNNABLE", "RUNNING", "DYING"} \/ f = cpu_env[c]
                        => f # e /\ env_id'[f] = env_id[f] /\ st[f] = env_status[f]
  BY <1>1, <1>2
<1>6. \A d \in CPUs \ {c} :
        /\ mode[d] \notin {"boot", "monitor"}
        /\ cpu_env[d] # NULL => st[cpu_env[d]] \in {"RUNNING", "DYING"}
  BY <1>1, <1>2, Others DEF IInv, TypeOK
<1>7. \A f \in Envs : st[f] \in {"RUNNING", "DYING"} =>
        \/ \E d \in CPUs \ {c} : cpu_env[d] = f
        \/ f = cpu_env[c] /\ st[f] = "RUNNING"
  BY <1>5, Others
<1>8. /\ st[cpu_env[c]] = "RUNNING"
      /\ \A d \in CPUs \ {c} : cpu_env[d] # cpu_env[c]
      /\ cr3[c] = IF cpu_env[c] = NULL THEN 0 ELSE env_id[cpu_env[c]]
  BY <1>5, Others, ConstFacts
<1>9. Mid(c, st, cpu_env[c], cr3[c])
  BY <1>1, <1>3, <1>4, <1>5, <1>6, <1>7, <1>8 DEF Mid
<1> QED BY <1>9 DEF st

(* envid2env() yields a live environment. *)
LEMMA LookupLive ==
    ASSUME IInv, NEW c \in CPUs, cpu_env[c] \in Envs,
           env_status[cpu_env[c]] # "FREE",
           NEW envid \in EnvIds, NEW checkperm \in BOOLEAN,
           envid2env(c, envid, checkperm) # NULL
    PROVE  /\ envid2env(c, envid, checkperm) \in Envs
           /\ env_status[envid2env(c, envid, checkperm)] # "FREE"
<1>1. ENVX(envid) \in Envs
  BY ConstFacts DEF ENVX, EnvIds, Envs
<1> QED BY <1>1 DEF envid2env

(* A step that only moves CPU c to another mode. *)
LEMMA ModeInv ==
    ASSUME IInv, TypeOK', NEW c \in CPUs, NEW m,
           mode' = [mode EXCEPT ![c] = m],
           mode[c] # "monitor", m \notin {"boot", "monitor"},
           m \in ExecModes => mode[c] \in ExecModes,
           m \in {"off", "start", "halt", "irq"} => mode[c] \in {"off", "start", "halt", "irq"},
           UNCHANGED <<envVars, cpu_env, cr3>>,
           \/ kernel_lock' = kernel_lock
           \/ kernel_lock \in {NULL, c}
    PROVE  IInv'
<1>1. FreeListExact' /\ OneCpuPerEnv' /\ RunningOnCpu' /\ RecvBlocked'
  BY DEF IInv, envVars, FreeListExact, OneCpuPerEnv, RunningOnCpu, RecvBlocked
<1>2. \A d \in CPUs : CpuOK(d)'
  <2> SUFFICES ASSUME NEW d \in CPUs PROVE CpuOK(d)'
    OBVIOUS
  <2>1. CpuOK(d)
    BY DEF IInv
  <2>2. CASE d = c
    BY <2>1, <2>2 DEF CpuOK, ExecModes, IInv, TypeOK, envVars
  <2>3. CASE d # c
    <3>1. mode'[d] = mode[d]
      BY <2>3 DEF IInv, TypeOK
    <3>2. mode[d] \in {"boot", "monitor"} => kernel_lock' = d
      BY <2>1, <2>3, ConstFacts DEF CpuOK
    <3> QED BY <2>1, <3>1, <3>2 DEF CpuOK, envVars
  <2> QED BY <2>2, <2>3
<1> QED BY <1>1, <1>2 DEF IInv

-----------------------------------------------------------------------------
(* Each action preserves the invariant *)

(* The state env_init() and i386_init() set up satisfies the invariant. *)
LEMMA InitInv == Init => IInv
<1> SUFFICES ASSUME Init PROVE IInv
  OBVIOUS
<1>1. TypeOK
  <2>1. env_free_list \in Seq(Envs)
    <3>1. [i \in 1..NENV |-> i - 1] \in [1..NENV -> Envs]
      BY ConstFacts DEF Envs
    <3> QED BY <3>1, ConstFacts DEF Init
  <2>2. 0 \in EnvIds
    BY ConstFacts DEF EnvIds
  <2> QED BY <2>1, <2>2, ConstFacts DEF Init, TypeOK, EnvStatus, Modes
<1>2. FreeListExact
  <2>1. Len(env_free_list) = NENV /\ \A i \in 1..NENV : env_free_list[i] = i - 1
    BY ConstFacts DEF Init
  <2>2. ASSUME NEW e \in Envs PROVE \E i \in 1..NENV : env_free_list[i] = e
    <3>1. e + 1 \in 1..NENV /\ env_free_list[e + 1] = e
      BY <2>1, ConstFacts DEF Envs
    <3> QED BY <3>1
  <2>3. \A i, j \in 1..NENV : env_free_list[i] = env_free_list[j] => i = j
    BY <2>1, ConstFacts
  <2> QED BY <2>1, <2>2, <2>3 DEF Init, FreeListExact
<1>3. \A c \in CPUs : CpuOK(c)
  BY ConstFacts DEF Init, CpuOK, ExecModes
<1>4. OneCpuPerEnv /\ RunningOnCpu /\ RecvBlocked
  BY DEF Init, OneCpuPerEnv, RunningOnCpu, RecvBlocked
<1> QED BY <1>1, <1>2, <1>3, <1>4 DEF IInv

(* Boot. *)
LEMMA BootStepInv ==
    ASSUME IInv, NEW c \in CPUs, BootStep(c) PROVE IInv'
<1>1. CASE mp_main(c)
  <2>1. TypeOK'
    BY <1>1 DEF IInv, TypeOK, mp_main, envVars, Modes
  <2>2. PICK m \in {"start"} : mode' = [mode EXCEPT ![c] = m]
    BY <1>1 DEF mp_main
  <2> QED BY <1>1, <2>1, <2>2, ModeInv DEF mp_main, ExecModes, envVars
<1>2. CASE env_create(c)
  <2>0. mode[c] = "boot" /\ kernel_lock = c
    BY <1>2 DEF env_create, BootReady, IInv, CpuOK
  <2>1. CASE Panic(c, c) /\ UNCHANGED envVars
    <3>1. TypeOK'
      BY <1>2, <2>1 DEF IInv, TypeOK, env_create, Panic, envVars, Modes
    <3>2. PICK m \in {"panic"} : mode' = [mode EXCEPT ![c] = m]
      BY <1>2, <2>1 DEF env_create, Panic
    <3> QED BY <1>2, <2>0, <2>1, <3>1, <3>2, ModeInv DEF env_create, ExecModes
  <2>2. ASSUME NEW e \in Envs, env_alloc(e, 0),
               env_status' = [env_status EXCEPT ![e] = "RUNNABLE"],
               UNCHANGED <<mode, trapno, kernel_lock, panicstr>>
        PROVE  IInv'
    <3>0. UNCHANGED <<cpu_env, cpu_status, cr3, isr>>
      BY <1>2 DEF env_create
    <3>1. 0 \in EnvIds /\ "RUNNABLE" \in EnvStatus \ {"FREE"}
      BY ConstFacts DEF EnvIds, EnvStatus
    <3>2. /\ env_status[e] = "FREE"
          /\ env_status' \in [Envs -> EnvStatus]
          /\ env_free_list' \in Seq(Envs)
          /\ ListExact(env_status', env_free_list')
          /\ env_id' \in [Envs -> EnvIds]
          /\ \A f \in Envs : f # e => env_id'[f] = env_id[f]
          /\ env_parent_id' \in [Envs -> EnvIds]
          /\ env_ipc_recving' \in [Envs -> BOOLEAN]
          /\ ~env_ipc_recving'[e]
          /\ \A f \in Envs : f # e => env_ipc_recving'[f] = env_ipc_recving[f]
      BY <2>2, <3>1, AllocFacts
    <3>3. TypeOK'
      BY <3>0, <3>2, <2>2 DEF IInv, TypeOK
    <3>4. FreeListExact'
      BY <3>2 DEF ListExact, FreeListExact
    <3>5. /\ env_status'[e] = "RUNNABLE"
          /\ \A f \in Envs : f # e => env_status'[f] = env_status[f]
      BY <2>2 DEF IInv, TypeOK
    <3>6. \A d \in CPUs : CpuOK(d)'
      <4> SUFFICES ASSUME NEW d \in CPUs PROVE CpuOK(d)'
        OBVIOUS
      <4>1. CpuOK(d) /\ mode[d] # "monitor" /\ cpu_env[d] \in Envs \cup {NULL}
        BY <2>0, ConstFacts DEF IInv, CpuOK, TypeOK
      <4>2. cpu_env[d] # NULL => cpu_env[d] # e /\ env_status'[cpu_env[d]] = env_status[cpu_env[d]]
        BY <4>1, <3>2, <3>5 DEF CpuOK
      <4> QED BY <4>1, <4>2, <3>0, <3>2, <2>2 DEF CpuOK
    <3>7. OneCpuPerEnv' /\ RunningOnCpu' /\ RecvBlocked'
      BY <3>0, <3>2, <3>5 DEF IInv, OneCpuPerEnv, RunningOnCpu, RecvBlocked
    <3> QED BY <3>3, <3>4, <3>6, <3>7 DEF IInv
  <2> QED BY <2>1, <2>2, <1>2 DEF env_create
<1>3. CASE BootYield(c) \/ StartYield(c)
  <2>1. /\ kernel_lock = NULL \/ kernel_lock = c
        /\ mode[c] \in {"boot", "start"}
        /\ cpu_env[c] = NULL /\ cr3[c] = 0
        /\ isr' \in [CPUs -> BOOLEAN]
        /\ UNCHANGED <<env_id, env_parent_id, env_ipc_recving, env_free_list, panicstr>>
        /\ sched_yield(c, env_status, NULL, 0)
    BY <1>3 DEF BootYield, StartYield, BootReady, IInv, CpuOK, TypeOK
  <2>2. Mid(c, env_status, NULL, 0)
    BY <2>1, MidUnchanged
  <2> QED BY <2>1, <2>2, YieldInv
<1> QED BY <1>1, <1>2, <1>3 DEF BootStep

(* The steps that do not hold the lock. *)
LEMMA UnlockedInv ==
    ASSUME IInv, NEW c \in CPUs,
           \/ env_pop_tf(c)
           \/ \E t \in {"timer", "other"} : TrapEntry(c, t) \/ HaltIntr(c, t)
           \/ Breakpoint(c)
    PROVE  IInv'
<1>1. CASE env_pop_tf(c)
  <2>1. TypeOK'
    BY <1>1 DEF IInv, TypeOK, env_pop_tf, envVars, Modes
  <2>2. PICK m \in {"user"} : mode' = [mode EXCEPT ![c] = m]
    BY <1>1 DEF env_pop_tf
  <2> QED BY <1>1, <2>1, <2>2, ModeInv DEF env_pop_tf, ExecModes, envVars
<1>2. ASSUME NEW t \in {"timer", "other"}, TrapEntry(c, t) PROVE IInv'
  <2>1. TypeOK'
    BY <1>2 DEF IInv, TypeOK, TrapEntry, envVars, Modes
  <2>2. PICK m \in {"trap", "hlt"} : mode' = [mode EXCEPT ![c] = m]
    BY <1>2 DEF TrapEntry
  <2> QED BY <1>2, <2>1, <2>2, ModeInv DEF TrapEntry, ExecModes, envVars
<1>3. ASSUME NEW t \in {"timer", "other"}, HaltIntr(c, t) PROVE IInv'
  <2>1. TypeOK'
    BY <1>3 DEF IInv, TypeOK, HaltIntr, envVars, Modes
  <2>2. PICK m \in {"irq", "hlt"} : mode' = [mode EXCEPT ![c] = m]
    BY <1>3 DEF HaltIntr
  <2> QED BY <1>3, <2>1, <2>2, ModeInv DEF HaltIntr, ExecModes, envVars
<1>4. CASE Breakpoint(c)
  <2>1. TypeOK'
    BY <1>4 DEF IInv, TypeOK, Breakpoint, Panic, envVars, Modes
  <2>2. PICK m \in {"panic", "hlt"} : mode' = [mode EXCEPT ![c] = m]
    BY <1>4 DEF Breakpoint, Panic
  <2>3. kernel_lock' = kernel_lock
    BY <1>4 DEF Breakpoint, Panic
  <2> QED BY <1>4, <2>1, <2>2, <2>3, ModeInv DEF Breakpoint, ExecModes, envVars
<1> QED BY <1>1, <1>2, <1>3, <1>4

(* Interrupts of a halted CPU. *)
LEMMA IrqInv ==
    ASSUME IInv, NEW c \in CPUs, IrqTimer(c) \/ IrqOther(c) PROVE IInv'
<1>1. mode[c] = "irq" /\ kernel_lock = NULL /\ cpu_env[c] = NULL
  BY DEF IrqTimer, IrqOther, IrqLocked, IInv, CpuOK
<1>2. CASE sched_yield(c, env_status, cpu_env[c], cr3[c]) /\ UNCHANGED panicstr
  <2>1. /\ isr' \in [CPUs -> BOOLEAN]
        /\ UNCHANGED <<env_id, env_parent_id, env_ipc_recving, env_free_list, panicstr>>
    BY <1>2 DEF IrqTimer, IrqOther, IInv, TypeOK
  <2>2. Mid(c, env_status, cpu_env[c], cr3[c])
    BY <1>1, <2>1, MidUnchanged
  <2> QED BY <1>2, <2>2, YieldInv
<1>3. CASE IrqOther(c) /\ Panic(c, c) /\ UNCHANGED <<env_status, cpu_env, cpu_status, cr3>>
  <2>1. TypeOK'
    BY <1>3 DEF IInv, TypeOK, IrqOther, Panic, Modes
  <2>2. PICK m \in {"panic"} : mode' = [mode EXCEPT ![c] = m]
    BY <1>3 DEF Panic
  <2>3. UNCHANGED <<envVars, cpu_env, cr3>>
    BY <1>3 DEF IrqOther, envVars
  <2> QED BY <1>1, <2>1, <2>2, <2>3, ModeInv DEF ExecModes
<1> QED BY <1>2, <1>3 DEF IrqTimer, IrqOther

(* What a dispatched trap from user mode starts from. *)
LEMMA UserTrapFacts ==
    ASSUME IInv, NEW c \in CPUs, NEW t, UserTrap(c, t)
    PROVE  /\ mode[c] = "trap" /\ kernel_lock = NULL
           /\ cpu_env[c] \in Envs /\ cpu_env[c] # NULL
           /\ env_status[cpu_env[c]] = "RUNNING"
BY DEF UserTrap, UserLocked, IInv, TypeOK, CpuOK

(* env_destroy() of a live environment that is not dying. *)
LEMMA DestroyInv ==
    ASSUME IInv, NEW c \in CPUs, UserTrap(c, "other"),
           NEW e \in Envs, env_status[e] \notin {"FREE", "DYING"},
           env_destroy(c, e),
           UNCHANGED <<env_id, env_parent_id, env_ipc_recving, isr>>
    PROVE  IInv'
<1>0. /\ mode[c] = "trap" /\ kernel_lock = NULL
      /\ cpu_env[c] \in Envs
      /\ env_status[cpu_env[c]] = "RUNNING"
  BY UserTrapFacts
<1>1. CASE /\ env_status[e] = "RUNNING" /\ cpu_env[c] # e
           /\ TrapTail(c, [env_status EXCEPT ![e] = "DYING"])
           /\ UNCHANGED <<env_free_list, panicstr>>
  <2>1. /\ env_ipc_recving' \in [Envs -> BOOLEAN]
        /\ \A f \in Envs \ {e} : env_ipc_recving'[f] => env_ipc_recving[f]
        /\ ~env_ipc_recving'[e]
    BY <1>1 DEF IInv, TypeOK, RecvBlocked
  <2>2. PICK s \in {"DYING"} : TrapTail(c, [env_status EXCEPT ![e] = s])
    BY <1>1
  <2>3. Mid(c, [env_status EXCEPT ![e] = s], cpu_env[c], cr3[c])
    BY <1>0, <1>1, <2>1, <2>2, MidSet
  <2> QED BY <1>0, <2>2, <2>3, TailInv
<1>2. CASE /\ ~(env_status[e] = "RUNNING" /\ cpu_env[c] # e)
           /\ env_free_list' = <<e>> \o env_free_list
           /\ LET st == [env_status EXCEPT ![e] = "FREE"] IN
              IF cpu_env[c] = e THEN sched_yield(c, st, NULL, 0) ELSE TrapTail(c, st)
           /\ UNCHANGED panicstr
  <2>1. CASE cpu_env[c] = e
    <3>1. Mid(c, [env_status EXCEPT ![e] = "FREE"], NULL, 0)
      BY <1>0, <1>2, <2>1, MidFree
    <3> QED BY <1>2, <2>1, <3>1, YieldInv
  <2>2. CASE cpu_env[c] # e
    <3>1. Mid(c, [env_status EXCEPT ![e] = "FREE"], cpu_env[c], cr3[c])
      BY <1>0, <1>2, <2>2, MidFree
    <3> QED BY <1>0, <1>2, <2>2, <3>1, TailInv
  <2> QED BY <2>1, <2>2
<1> QED BY <1>1, <1>2 DEF env_destroy

(* Collection of a zombie. *)
LEMMA ZombieInv ==
    ASSUME IInv, NEW c \in CPUs, ZombieTrap(c) PROVE IInv'
<1>1. /\ mode[c] = "trap" /\ kernel_lock = NULL
      /\ cpu_env[c] \in Envs /\ env_status[cpu_env[c]] = "DYING"
  BY DEF ZombieTrap, UserLocked, IInv, TypeOK
<1>2. Mid(c, [env_status EXCEPT ![cpu_env[c]] = "FREE"], NULL, 0)
  BY <1>1, MidFree DEF ZombieTrap
<1> QED BY <1>2, YieldInv DEF ZombieTrap

(* Traps that leave the environments as they are. *)
LEMMA PlainInv ==
    ASSUME IInv, NEW c \in CPUs, TimerTrap(c) \/ PlainTrap(c) \/ sys_yield(c)
    PROVE  IInv'
<1>1. /\ mode[c] = "trap" /\ kernel_lock = NULL
      /\ cpu_env[c] \in Envs
      /\ env_status[cpu_env[c]] = "RUNNING"
  BY UserTrapFacts DEF TimerTrap, PlainTrap, sys_yield
<1>2. CASE /\ \/ sched_yield(c, env_status, cpu_env[c], cr3[c])
              \/ TrapTail(c, env_status)
           /\ UNCHANGED panicstr
  <2>1. /\ isr' \in [CPUs -> BOOLEAN]
        /\ UNCHANGED <<env_id, env_parent_id, env_ipc_recving, env_free_list, panicstr>>
    BY <1>2 DEF TimerTrap, PlainTrap, sys_yield, IInv, TypeOK
  <2>2. Mid(c, env_status, cpu_env[c], cr3[c])
    BY <1>1, <2>1, MidUnchanged
  <2> QED BY <1>1, <1>2, <2>2, YieldInv, TailInv
<1>3. CASE PlainTrap(c) /\ Panic(c, c) /\ UNCHANGED <<env_status, cpu_env, cpu_status, cr3>>
  <2>1. TypeOK'
    BY <1>3 DEF IInv, TypeOK, PlainTrap, Panic, Modes
  <2>2. PICK m \in {"panic"} : mode' = [mode EXCEPT ![c] = m]
    BY <1>3 DEF Panic
  <2>3. UNCHANGED <<envVars, cpu_env, cr3>>
    BY <1>3 DEF PlainTrap, envVars
  <2> QED BY <1>1, <2>1, <2>2, <2>3, ModeInv DEF ExecModes
<1> QED BY <1>2, <1>3 DEF TimerTrap, PlainTrap, sys_yield

(* sys_exofork() preserves the invariant. *)
LEMMA ForkInv ==
    ASSUME IInv, NEW c \in CPUs, sys_exofork(c) PROVE IInv'
<1>1. PICK e \in Envs : /\ env_alloc(e, env_id[cpu_env[c]])
                        /\ TrapTail(c, [env_status EXCEPT ![e] = "NOT_RUNNABLE"])
  BY DEF sys_exofork
<1>2. /\ mode[c] = "trap" /\ kernel_lock = NULL
      /\ cpu_env[c] \in Envs
      /\ env_status[cpu_env[c]] = "RUNNING"
      /\ UNCHANGED <<isr, panicstr>>
  BY UserTrapFacts DEF sys_exofork
<1>3. Mid(c, [env_status EXCEPT ![e] = "NOT_RUNNABLE"], cpu_env[c], cr3[c])
  BY <1>1, <1>2, MidFork
<1> QED BY <1>1, <1>2, <1>3, TailInv

(* sys_ipc_recv() preserves the invariant. *)
LEMMA RecvInv ==
    ASSUME IInv, NEW c \in CPUs, sys_ipc_recv(c) PROVE IInv'
<1>1. /\ mode[c] = "trap" /\ kernel_lock = NULL
      /\ cpu_env[c] \in Envs
      /\ env_status[cpu_env[c]] = "RUNNING"
      /\ UNCHANGED <<env_id, env_parent_id, env_free_list, isr, panicstr>>
  BY UserTrapFacts DEF sys_ipc_recv
<1>2. /\ env_ipc_recving' \in [Envs -> BOOLEAN]
      /\ \A f \in Envs \ {cpu_env[c]} : env_ipc_recving'[f] => env_ipc_recving[f]
  BY <1>1 DEF sys_ipc_recv, IInv, TypeOK
<1>3. PICK s \in {"NOT_RUNNABLE"} :
        sched_yield(c, [env_status EXCEPT ![cpu_env[c]] = s], cpu_env[c], cr3[c])
  BY DEF sys_ipc_recv
<1>4. Mid(c, [env_status EXCEPT ![cpu_env[c]] = s], cpu_env[c], cr3[c])
  BY <1>1, <1>2, <1>3, MidSet
<1> QED BY <1>3, <1>4, YieldInv

(* A successful sys_ipc_try_send() preserves the invariant. *)
LEMMA SendInv ==
    ASSUME IInv, NEW c \in CPUs, NEW envid \in EnvIds, sys_ipc_try_send(c, envid)
    PROVE  IInv'
<1> DEFINE e == envid2env(c, envid, FALSE)
<1>0. /\ UserTrap(c, "other")
      /\ e # NULL
      /\ env_ipc_recving[e]
      /\ env_ipc_recving' = [env_ipc_recving EXCEPT ![e] = FALSE]
      /\ TrapTail(c, [env_status EXCEPT ![e] = "RUNNABLE"])
      /\ UNCHANGED <<env_id, env_parent_id, env_free_list, isr, panicstr>>
  BY DEF sys_ipc_try_send
<1>1. /\ mode[c] = "trap" /\ kernel_lock = NULL
      /\ cpu_env[c] \in Envs
      /\ env_status[cpu_env[c]] = "RUNNING"
  BY <1>0, UserTrapFacts
<1>2. e \in Envs /\ env_status[e] # "FREE"
  BY <1>0, <1>1, LookupLive
<1> HIDE DEF e
<1>3. env_status[e] = "NOT_RUNNABLE" /\ e # cpu_env[c]
  BY <1>0, <1>1, <1>2 DEF IInv, RecvBlocked
<1>4. /\ env_ipc_recving' \in [Envs -> BOOLEAN]
      /\ \A f \in Envs \ {e} : env_ipc_recving'[f] => env_ipc_recving[f]
      /\ ~env_ipc_recving'[e]
  BY <1>0, <1>2 DEF IInv, TypeOK
<1>5. PICK s \in {"RUNNABLE"} : TrapTail(c, [env_status EXCEPT ![e] = s])
  BY <1>0
<1>6. Mid(c, [env_status EXCEPT ![e] = s], cpu_env[c], cr3[c])
  BY <1>0, <1>1, <1>2, <1>3, <1>4, <1>5, MidSet
<1> QED BY <1>1, <1>5, <1>6, TailInv

(* sys_env_set_status() and sys_env_destroy() as the library uses them. *)
LEMMA SetStatusInv ==
    ASSUME IInv, NEW c \in CPUs, LibSetStatus(c) PROVE IInv'
<1>0. PICK envid \in EnvIds, s \in {"RUNNABLE", "NOT_RUNNABLE"} :
        LET e == envid2env(c, envid, TRUE) IN
        /\ UserTrap(c, "other")
        /\ e # NULL
        /\ e # cpu_env[c] => /\ env_status[e] \in {"RUNNABLE", "NOT_RUNNABLE"}
                             /\ ~env_ipc_recving[e]
        /\ sys_env_set_status(c, envid, s)
  BY DEF LibSetStatus
<1> DEFINE e == envid2env(c, envid, TRUE)
<1>1. /\ mode[c] = "trap" /\ kernel_lock = NULL
      /\ cpu_env[c] \in Envs
      /\ env_status[cpu_env[c]] = "RUNNING"
  BY <1>0, UserTrapFacts
<1>2. e \in Envs /\ env_status[e] # "FREE"
  BY <1>0, <1>1, LookupLive
<1>3. /\ e # cpu_env[c] => env_status[e] \in {"RUNNABLE", "NOT_RUNNABLE"} /\ ~env_ipc_recving[e]
      /\ TrapTail(c, [env_status EXCEPT ![e] = s])
      /\ UNCHANGED <<env_id, env_parent_id, env_ipc_recving, env_free_list, isr, panicstr>>
  BY <1>0 DEF sys_env_set_status
<1> HIDE DEF e
<1>4. /\ env_ipc_recving' \in [Envs -> BOOLEAN]
      /\ \A f \in Envs \ {e} : env_ipc_recving'[f] => env_ipc_recving[f]
      /\ ~env_ipc_recving'[e]
  BY <1>1, <1>2, <1>3 DEF IInv, TypeOK, RecvBlocked
<1>5. Mid(c, [env_status EXCEPT ![e] = s], cpu_env[c], cr3[c])
  BY <1>1, <1>2, <1>3, <1>4, MidSet
<1> QED BY <1>1, <1>3, <1>5, TailInv

(* sys_env_destroy() preserves it when its target is not yet dying. *)
LEMMA LibDestroyInv ==
    ASSUME IInv, NEW c \in CPUs, LibDestroy(c) PROVE IInv'
<1>0. PICK envid \in EnvIds :
        LET e == envid2env(c, envid, TRUE) IN
        /\ UserTrap(c, "other")
        /\ e # NULL
        /\ env_status[e] # "DYING"
        /\ sys_env_destroy(c, envid)
  BY DEF LibDestroy
<1> DEFINE e == envid2env(c, envid, TRUE)
<1>1. cpu_env[c] \in Envs /\ env_status[cpu_env[c]] = "RUNNING"
  BY <1>0, UserTrapFacts
<1>2. e \in Envs /\ env_status[e] # "FREE"
  BY <1>0, <1>1, LookupLive
<1>3. /\ env_destroy(c, e)
      /\ UNCHANGED <<env_id, env_parent_id, env_ipc_recving, isr>>
  BY <1>0 DEF sys_env_destroy
<1> QED BY <1>0, <1>2, <1>3, DestroyInv

(* A trap that kills curenv preserves the invariant. *)
LEMMA FaultInv ==
    ASSUME IInv, NEW c \in CPUs, UserFault(c) PROVE IInv'
<1>1. cpu_env[c] \in Envs /\ env_status[cpu_env[c]] = "RUNNING"
  BY UserTrapFacts DEF UserFault
<1> QED BY <1>1, DestroyInv DEF UserFault

(* One step, and the specification. *)
LEMMA NextInv == IInv /\ [LibNext]_vars => IInv'
<1> SUFFICES ASSUME IInv, [LibNext]_vars PROVE IInv'
  OBVIOUS
<1>1. CASE UNCHANGED vars
  BY <1>1 DEF vars, envVars, cpuVars, IInv, TypeOK, FreeListExact, CpuOK, OneCpuPerEnv,
              RunningOnCpu, RecvBlocked
<1>2. ASSUME NEW c \in CPUs, CpuStep(c) PROVE IInv'
  <2>1. CASE MonitorLoop(c)
    BY <2>1, <1>1 DEF MonitorLoop
  <2> QED BY <1>2, <2>1, BootStepInv, UnlockedInv, IrqInv, ZombieInv, PlainInv, FaultInv,
             ForkInv, RecvInv, SendInv DEF CpuStep
<1>3. ASSUME NEW c \in CPUs, LibSetStatus(c) PROVE IInv'
  BY <1>3, SetStatusInv
<1>4. ASSUME NEW c \in CPUs, LibDestroy(c) PROVE IInv'
  BY <1>4, LibDestroyInv
<1> QED BY <1>1, <1>2, <1>3, <1>4 DEF LibNext

-----------------------------------------------------------------------------
(* Theorems *)

(* The invariant holds in every reachable state. *)
THEOREM KernelInvariant == LibSpec => []IInv
<1> QED BY InitInv, NextInv, PTL DEF LibSpec

(* The state keeps its types, environment ids below 2^31 included: the wrap *)
(* in env_alloc() never lets an id reach the sign bit.                      *)
THEOREM TypeCorrect == LibSpec => []TypeOK
<1>1. IInv => TypeOK
  BY DEF IInv
<1> QED BY <1>1, KernelInvariant, PTL

(* sched_yield() and env_run() never put an environment on two CPUs. *)
THEOREM ExclusiveCpu == LibSpec => []OneCpuPerEnv
<1>1. IInv => OneCpuPerEnv
  BY DEF IInv
<1> QED BY <1>1, KernelInvariant, PTL

(* env_status is RUNNING or DYING exactly while a CPU has the environment,  *)
(* which is what env_destroy() and sched_halt() take it to mean.            *)
THEOREM StatusExact == LibSpec => []StatusMatchesCpu
<1>1. IInv => StatusMatchesCpu
  <2> SUFFICES ASSUME IInv, NEW e \in Envs
               PROVE  env_status[e] \in {"RUNNING", "DYING"} <=>
                        \E c \in On(e) : mode[c] # "monitor"
    BY DEF StatusMatchesCpu
  <2>1. e # NULL
    BY ConstFacts
  <2>2. ASSUME env_status[e] \in {"RUNNING", "DYING"}
        PROVE  \E c \in On(e) : mode[c] # "monitor"
    <3>1. PICK c \in CPUs : cpu_env[c] = e
      BY <2>2 DEF IInv, RunningOnCpu
    <3>2. mode[c] # "monitor"
      BY <2>1, <2>2, <3>1 DEF IInv, CpuOK
    <3> QED BY <3>1, <3>2 DEF On
  <2>3. ASSUME NEW c \in On(e), mode[c] # "monitor"
        PROVE  env_status[e] \in {"RUNNING", "DYING"}
    BY <2>1, <2>3 DEF On, IInv, CpuOK
  <2> QED BY <2>2, <2>3
<1> QED BY <1>1, KernelInvariant, PTL

(* The free list is exactly the FREE slots. *)
THEOREM FreeListCorrect == LibSpec => []FreeListExact
<1>1. IInv => FreeListExact
  BY DEF IInv
<1> QED BY <1>1, KernelInvariant, PTL

(* No CPU has the page directory of a dead environment loaded. *)
THEOREM PgdirSafe == LibSpec => []PgdirLive
<1>1. IInv => PgdirLive
  <2> SUFFICES ASSUME IInv, NEW c \in CPUs, cr3[c] # 0
               PROVE  \E e \in Live : env_id[e] = cr3[c]
    BY DEF PgdirLive
  <2>1. cpu_env[c] # NULL /\ cr3[c] = env_id[cpu_env[c]]
    BY DEF IInv, CpuOK
  <2>2. cpu_env[c] \in Envs /\ env_status[cpu_env[c]] # "FREE"
    BY <2>1 DEF IInv, CpuOK, TypeOK
  <2> QED BY <2>1, <2>2 DEF Live
<1> QED BY <1>1, KernelInvariant, PTL

(* A receiver stays off the CPUs until it is sent to. *)
THEOREM ReceiverBlocked == LibSpec => []RecvBlocked
<1>1. IInv => RecvBlocked
  BY DEF IInv
<1> QED BY <1>1, KernelInvariant, PTL

(* sched_halt() enters the monitor only on an idle machine. *)
THEOREM MonitorIdle == LibSpec => []MonitorOnlyWhenIdle
<1>1. IInv => MonitorOnlyWhenIdle
  <2> SUFFICES ASSUME IInv, NEW c \in CPUs, mode[c] = "monitor",
                      NEW d \in CPUs, mode[d] \in ExecModes
               PROVE  FALSE
    BY DEF MonitorOnlyWhenIdle
  <2>1. cpu_env[d] \in Envs /\ env_status[cpu_env[d]] \in {"RUNNING", "DYING"}
    BY DEF IInv, CpuOK, TypeOK, ExecModes
  <2>2. env_status[cpu_env[d]] \in {"FREE", "NOT_RUNNABLE"}
    BY <2>1 DEF IInv, CpuOK
  <2> QED BY <2>1, <2>2
<1> QED BY <1>1, KernelInvariant, PTL

-----------------------------------------------------------------------------
(***************************************************************************)
(* What a step of the kernel may do: Kernel implements CpuAssignment, and  *)
(* its action properties hold, for any number of environments and CPUs.    *)
(* Every step is of one of four kinds, told apart by what happens to the   *)
(* FREE and the DYING environments and to the CPUs' curenv.                *)
(***************************************************************************)

(* The kinds of steps *)

Gone == {"FREE", "DYING"}

(* Outside E nobody is born, nobody is freed, and the dying stay so. *)
KeepsOthers(E) ==
    \A f \in Envs \ E :
        /\ env_status'[f] = "FREE" <=> env_status[f] = "FREE"
        /\ env_status[f] = "DYING" => env_status'[f] = "DYING"

(* CPU c goes on to x, a live environment or none. *)
GoesTo(c, x) ==
    /\ cpu_env' = [cpu_env EXCEPT ![c] = x]
    /\ x \in Envs \cup {NULL}
    /\ x # NULL => env_status'[x] # "FREE"

KeepStep(c) ==
    /\ KeepsOthers({})
    /\ \E x \in Envs \cup {NULL} : GoesTo(c, x)
    /\ env_id' = env_id

ExitStep(c) ==
    /\ cpu_env[c] \in Envs
    /\ env_status[cpu_env[c]] # "FREE"
    /\ env_status'[cpu_env[c]] = "FREE"
    /\ KeepsOthers({cpu_env[c]})
    /\ \E x \in Envs \cup {NULL} : GoesTo(c, x)
    /\ env_id' = env_id

KillStep(e) ==
    /\ env_status[e] \notin Gone
    /\ env_status'[e] = "FREE"
    /\ KeepsOthers({e})
    /\ \A c \in CPUs : cpu_env[c] # e
    /\ cpu_env' = cpu_env
    /\ env_id' = env_id

BirthStep(e) ==
    /\ env_status[e] = "FREE"
    /\ env_status'[e] \notin Gone
    /\ KeepsOthers({e})
    /\ cpu_env' = cpu_env
    /\ env_id' = [env_id EXCEPT ![e] = NextId(e)]

StepKinds ==
    \/ \E c \in CPUs : KeepStep(c) \/ ExitStep(c)
    \/ \E e \in Envs : KillStep(e) \/ BirthStep(e)

-----------------------------------------------------------------------------
(* What the scheduler does *)

(* From the statuses st, CPU c goes on to x; FREE and DYING are not touched. *)
Resched(c, st, x) ==
    /\ cpu_env' = [cpu_env EXCEPT ![c] = x]
    /\ x \in Envs \cup {NULL}
    /\ x # NULL => st[x] \notin Gone
    /\ \A f \in Envs : IF st[f] \in Gone THEN env_status'[f] = st[f]
                       ELSE env_status'[f] \notin Gone

(* env_run() only moves environments between RUNNABLE and RUNNING. *)
LEMMA RunResched ==
    ASSUME NEW c \in CPUs, NEW st \in [Envs -> EnvStatus], NEW cur \in Envs \cup {NULL},
           NEW e \in Envs, st[e] \notin Gone,
           env_run(c, st, cur, e)
    PROVE  Resched(c, st, e)
BY DEF env_run, Resched, Gone, EnvStatus

(* sched_yield() goes to an environment that is neither free nor dying. *)
LEMMA YieldResched ==
    ASSUME NEW c \in CPUs, NEW st \in [Envs -> EnvStatus], NEW cur \in Envs \cup {NULL}, NEW pd,
           cur # NULL => st[cur] \notin Gone,
           sched_yield(c, st, cur, pd)
    PROVE  \E x \in Envs \cup {NULL} : Resched(c, st, x)
<1>1. ASSUME NEW e \in Envs, FirstRunnable(st, SearchStart(cur), e), env_run(c, st, cur, e)
      PROVE  Resched(c, st, e)
  BY <1>1, RunResched DEF FirstRunnable, Gone
<1>2. CASE cur # NULL /\ env_run(c, st, cur, cur)
  BY <1>2, RunResched
<1>3. CASE sched_halt(c, st, cur, pd)
  <2>1. env_status' = st
    BY <1>3 DEF sched_halt
  <2>2. PICK x \in {cur, NULL} : cpu_env' = [cpu_env EXCEPT ![c] = x]
    BY <1>3 DEF sched_halt
  <2>3. Resched(c, st, x)
    BY <2>1, <2>2 DEF Resched
  <2> QED BY <2>2, <2>3
<1> QED BY <1>1, <1>2, <1>3 DEF sched_yield

(* The end of trap() stays with curenv if that is RUNNING. *)
LEMMA TailResched ==
    ASSUME IInv, NEW c \in CPUs, NEW st \in [Envs -> EnvStatus],
           cpu_env[c] \in Envs, st[cpu_env[c]] \notin Gone,
           TrapTail(c, st)
    PROVE  /\ \E x \in Envs \cup {NULL} : Resched(c, st, x)
           /\ st[cpu_env[c]] = "RUNNING" =>
                Resched(c, st, cpu_env[c]) /\ cpu_env' = cpu_env
<1>1. CASE st[cpu_env[c]] = "RUNNING"
  <2>1. Resched(c, st, cpu_env[c])
    BY <1>1, RunResched DEF TrapTail
  <2>2. cpu_env' = cpu_env
    BY <2>1 DEF Resched, IInv, TypeOK
  <2> QED BY <2>1, <2>2
<1>2. CASE st[cpu_env[c]] # "RUNNING"
  BY <1>2, YieldResched DEF TrapTail
<1> QED BY <1>1, <1>2

-----------------------------------------------------------------------------
(* Every action is of one of the kinds *)

(* A handler that does not change who is FREE, and revives no zombie. *)
LEMMA ReschedKeeps ==
    ASSUME NEW c \in CPUs, NEW st, NEW x \in Envs \cup {NULL}, Resched(c, st, x),
           \A f \in Envs : /\ st[f] = "FREE" <=> env_status[f] = "FREE"
                           /\ env_status[f] = "DYING" => st[f] = "DYING",
           env_id' = env_id
    PROVE  StepKinds
<1>1. KeepsOthers({})
  BY DEF Resched, KeepsOthers, Gone
<1>2. GoesTo(c, x)
  BY DEF Resched, GoesTo, Gone
<1> QED BY <1>1, <1>2 DEF StepKinds, KeepStep

(* A step that leaves statuses, ids and curenvs alone. *)
LEMMA IdleKeeps ==
    ASSUME IInv, UNCHANGED <<env_status, env_id, cpu_env>> PROVE StepKinds
<1>1. PICK c \in CPUs : c = BSP
  BY ConstFacts
<1>2. PICK x \in Envs \cup {NULL} : x = cpu_env[c]
  BY DEF IInv, TypeOK
<1>3. CpuOK(c)
  BY DEF IInv
<1>4. GoesTo(c, x)
  BY <1>2, <1>3 DEF GoesTo, IInv, TypeOK, CpuOK
<1>5. KeepsOthers({})
  BY DEF KeepsOthers
<1> QED BY <1>4, <1>5 DEF StepKinds, KeepStep

(* A handler that sets the status of e, dying only to dying, and schedules. *)
LEMMA SetKeeps ==
    ASSUME IInv, NEW c \in CPUs, NEW e \in Envs, NEW s \in EnvStatus \ {"FREE"},
           env_status[e] \notin Gone,
           NEW x \in Envs \cup {NULL}, Resched(c, [env_status EXCEPT ![e] = s], x),
           env_id' = env_id
    PROVE  StepKinds
<1> DEFINE st == [env_status EXCEPT ![e] = s]
<1>1. \A f \in Envs : /\ st[f] = "FREE" <=> env_status[f] = "FREE"
                      /\ env_status[f] = "DYING" => st[f] = "DYING"
  BY DEF Gone, IInv, TypeOK
<1> HIDE DEF st
<1>2. Resched(c, st, x)
  BY DEF st
<1> QED BY <1>1, <1>2, ReschedKeeps

(* A handler that frees its own curenv. *)
LEMMA FreeExits ==
    ASSUME IInv, NEW c \in CPUs, cpu_env[c] \in Envs, env_status[cpu_env[c]] # "FREE",
           NEW pd, sched_yield(c, [env_status EXCEPT ![cpu_env[c]] = "FREE"], NULL, pd),
           env_id' = env_id
    PROVE  StepKinds
<1> DEFINE st == [env_status EXCEPT ![cpu_env[c]] = "FREE"]
<1>1. /\ st \in [Envs -> EnvStatus]
      /\ st[cpu_env[c]] = "FREE"
      /\ \A f \in Envs \ {cpu_env[c]} : st[f] = env_status[f]
  BY DEF IInv, TypeOK, EnvStatus
<1> HIDE DEF st
<1>2. sched_yield(c, st, NULL, pd)
  BY DEF st
<1>3. PICK x \in Envs \cup {NULL} : Resched(c, st, x)
  BY <1>1, <1>2, YieldResched
<1>4. env_status'[cpu_env[c]] = "FREE"
  BY <1>1, <1>3 DEF Resched, Gone
<1>5. KeepsOthers({cpu_env[c]})
  BY <1>1, <1>3 DEF Resched, Gone, KeepsOthers
<1>6. GoesTo(c, x)
  BY <1>1, <1>3 DEF Resched, GoesTo, Gone
<1> QED BY <1>4, <1>5, <1>6 DEF StepKinds, ExitStep

(* env_destroy() of a live environment that is not dying. *)
LEMMA DestroyKind ==
    ASSUME IInv, NEW c \in CPUs, UserTrap(c, "other"),
           NEW e \in Envs, env_status[e] \notin Gone,
           env_destroy(c, e), env_id' = env_id
    PROVE  StepKinds
<1>0. /\ kernel_lock = NULL /\ mode[c] = "trap"
      /\ cpu_env[c] \in Envs /\ env_status[cpu_env[c]] = "RUNNING"
  BY UserTrapFacts
<1>1. CASE cpu_env[c] # e /\ TrapTail(c, [env_status EXCEPT ![e] = "DYING"])
  <2>1. PICK s \in EnvStatus \ {"FREE"} : s = "DYING"
    BY DEF EnvStatus
  <2> DEFINE st == [env_status EXCEPT ![e] = s]
  <2>2. st \in [Envs -> EnvStatus] /\ st[cpu_env[c]] = "RUNNING"
    BY <1>0, <1>1 DEF IInv, TypeOK
  <2>3. TrapTail(c, st)
    BY <1>1, <2>1
  <2> HIDE DEF st
  <2>4. PICK x \in Envs \cup {NULL} : Resched(c, st, x)
    BY <1>0, <2>2, <2>3, TailResched DEF Gone
  <2> QED BY <2>1, <2>4, SetKeeps DEF st
<1>2. CASE cpu_env[c] = e /\ sched_yield(c, [env_status EXCEPT ![e] = "FREE"], NULL, 0)
  BY <1>0, <1>2, FreeExits
<1>3. CASE /\ cpu_env[c] # e /\ env_status[e] # "RUNNING"
           /\ TrapTail(c, [env_status EXCEPT ![e] = "FREE"])
  <2> DEFINE st == [env_status EXCEPT ![e] = "FREE"]
  <2>1. /\ st \in [Envs -> EnvStatus] /\ st[cpu_env[c]] = "RUNNING" /\ st[e] = "FREE"
        /\ \A f \in Envs \ {e} : st[f] = env_status[f]
    BY <1>0, <1>3 DEF IInv, TypeOK, EnvStatus
  <2>2. TrapTail(c, st)
    BY <1>3
  <2> HIDE DEF st
  <2>3. Resched(c, st, cpu_env[c]) /\ cpu_env' = cpu_env
    BY <1>0, <2>1, <2>2, TailResched DEF Gone
  <2>4. env_status'[e] = "FREE" /\ KeepsOthers({e})
    BY <2>1, <2>3 DEF Resched, Gone, KeepsOthers
  <2>5. \A d \in CPUs : cpu_env[d] # e
    BY <1>0, <1>3, Others, ConstFacts DEF Gone
  <2> QED BY <2>3, <2>4, <2>5 DEF StepKinds, KillStep
<1> QED BY <1>1, <1>2, <1>3 DEF env_destroy, Gone

(* A handler that changes no status before it schedules. *)
LEMMA UnchangedKind ==
    ASSUME IInv, NEW c \in CPUs, cpu_env[c] # NULL => env_status[cpu_env[c]] \notin Gone,
           \/ sched_yield(c, env_status, cpu_env[c], cr3[c])
           \/ cpu_env[c] \in Envs /\ TrapTail(c, env_status),
           env_id' = env_id
    PROVE  StepKinds
<1>1. env_status \in [Envs -> EnvStatus] /\ cpu_env[c] \in Envs \cup {NULL}
  BY DEF IInv, TypeOK
<1>2. PICK x \in Envs \cup {NULL} : Resched(c, env_status, x)
  BY <1>1, YieldResched, TailResched, ConstFacts
<1> QED BY <1>2, ReschedKeeps

(* A handler that sets one status, not to or from FREE, and returns. *)
LEMMA SetKind ==
    ASSUME IInv, NEW c \in CPUs, UserTrap(c, "other"),
           NEW e \in Envs, env_status[e] \notin Gone,
           NEW s \in EnvStatus \ Gone,
           \/ TrapTail(c, [env_status EXCEPT ![e] = s])
           \/ sched_yield(c, [env_status EXCEPT ![e] = s], cpu_env[c], cr3[c]),
           env_id' = env_id
    PROVE  StepKinds
<1> DEFINE st == [env_status EXCEPT ![e] = s]
<1>1. cpu_env[c] \in Envs /\ env_status[cpu_env[c]] = "RUNNING"
  BY UserTrapFacts
<1>2. st \in [Envs -> EnvStatus] /\ st[cpu_env[c]] \notin Gone
  BY <1>1 DEF IInv, TypeOK, Gone
<1>3. TrapTail(c, st) \/ sched_yield(c, st, cpu_env[c], cr3[c])
  OBVIOUS
<1> HIDE DEF st
<1>4. PICK x \in Envs \cup {NULL} : Resched(c, st, x)
  BY <1>1, <1>2, <1>3, TailResched, YieldResched
<1>5. s \in EnvStatus \ {"FREE"}
  BY DEF Gone
<1> QED BY <1>4, <1>5, SetKeeps DEF st

(* env_create() is a birth, or panics. *)
LEMMA CreateKind ==
    ASSUME IInv, NEW c \in CPUs, env_create(c) PROVE StepKinds
<1>1. CASE Panic(c, c) /\ UNCHANGED envVars
  BY <1>1, IdleKeeps DEF env_create, envVars
<1>2. ASSUME NEW e \in Envs, env_alloc(e, 0),
             env_status' = [env_status EXCEPT ![e] = "RUNNABLE"]
      PROVE  StepKinds
  <2>1. 0 \in EnvIds /\ "RUNNABLE" \in EnvStatus \ {"FREE"}
    BY ConstFacts DEF EnvIds, EnvStatus
  <2>2. env_status[e] = "FREE"
    BY <1>2, <2>1, AllocFacts
  <2>3. /\ env_status'[e] = "RUNNABLE"
        /\ \A f \in Envs \ {e} : env_status'[f] = env_status[f]
    BY <1>2 DEF IInv, TypeOK
  <2>4. cpu_env' = cpu_env /\ env_id' = [env_id EXCEPT ![e] = NextId(e)]
    BY <1>2 DEF env_create, env_alloc
  <2> QED BY <2>2, <2>3, <2>4 DEF StepKinds, BirthStep, KeepsOthers, Gone
<1> QED BY <1>1, <1>2 DEF env_create

(* sys_exofork() is a birth after which its caller goes on. *)
LEMMA ForkKind ==
    ASSUME IInv, NEW c \in CPUs, sys_exofork(c) PROVE StepKinds
<1>1. PICK e \in Envs : /\ env_alloc(e, env_id[cpu_env[c]])
                        /\ TrapTail(c, [env_status EXCEPT ![e] = "NOT_RUNNABLE"])
  BY DEF sys_exofork
<1>2. cpu_env[c] \in Envs /\ env_status[cpu_env[c]] = "RUNNING"
  BY UserTrapFacts DEF sys_exofork
<1>3. /\ env_id[cpu_env[c]] \in EnvIds
      /\ "NOT_RUNNABLE" \in EnvStatus \ {"FREE"}
  BY <1>2 DEF IInv, TypeOK, EnvStatus
<1>4. env_status[e] = "FREE"
  BY <1>1, <1>3, AllocFacts
<1> DEFINE st == [env_status EXCEPT ![e] = "NOT_RUNNABLE"]
<1>5. /\ st \in [Envs -> EnvStatus] /\ st[cpu_env[c]] = "RUNNING" /\ st[e] = "NOT_RUNNABLE"
      /\ \A f \in Envs \ {e} : st[f] = env_status[f]
  BY <1>2, <1>3, <1>4 DEF IInv, TypeOK
<1>6. TrapTail(c, st)
  BY <1>1
<1> HIDE DEF st
<1>7. Resched(c, st, cpu_env[c]) /\ cpu_env' = cpu_env
  BY <1>2, <1>5, <1>6, TailResched DEF Gone
<1>8. env_status'[e] \notin Gone /\ KeepsOthers({e})
  BY <1>5, <1>7 DEF Resched, Gone, KeepsOthers
<1>9. env_id' = [env_id EXCEPT ![e] = NextId(e)]
  BY <1>1 DEF env_alloc
<1> QED BY <1>4, <1>7, <1>8, <1>9 DEF StepKinds, BirthStep

(* Every step of a CPU other than sys_env_set_status() and sys_env_destroy(). *)
LEMMA CpuStepKind ==
    ASSUME IInv, NEW c \in CPUs, CpuStep(c) PROVE StepKinds
<1>0. CpuOK(c) /\ cpu_env[c] \in Envs \cup {NULL}
  BY DEF IInv, TypeOK
<1>1. CASE \/ mp_main(c) \/ env_pop_tf(c) \/ Breakpoint(c) \/ MonitorLoop(c)
           \/ \E t \in {"timer", "other"} : TrapEntry(c, t) \/ HaltIntr(c, t)
  <2>1. UNCHANGED <<env_status, env_id, cpu_env>>
    BY <1>1 DEF mp_main, env_pop_tf, Breakpoint, MonitorLoop, TrapEntry, HaltIntr,
                vars, envVars, cpuVars
  <2> QED BY <2>1, IdleKeeps
<1>2. CASE env_create(c)
  BY <1>2, CreateKind
<1>3. CASE BootYield(c) \/ StartYield(c)
  <2>1. cpu_env[c] = NULL /\ cr3[c] = 0
    BY <1>0, <1>3 DEF BootYield, BootReady, StartYield, CpuOK
  <2>2. sched_yield(c, env_status, cpu_env[c], cr3[c]) /\ env_id' = env_id
    BY <1>3, <2>1 DEF BootYield, StartYield
  <2> QED BY <2>1, <2>2, UnchangedKind
<1>4. CASE IrqTimer(c) \/ IrqOther(c)
  <2>1. cpu_env[c] = NULL
    BY <1>0, <1>4 DEF IrqTimer, IrqOther, IrqLocked, CpuOK
  <2>2. CASE sched_yield(c, env_status, cpu_env[c], cr3[c])
    BY <1>4, <2>1, <2>2, UnchangedKind DEF IrqTimer, IrqOther
  <2>3. CASE UNCHANGED <<env_status, cpu_env>> /\ env_id' = env_id
    BY <2>3, IdleKeeps
  <2> QED BY <1>4, <2>2, <2>3 DEF IrqTimer, IrqOther
<1>5. CASE ZombieTrap(c)
  <2>1. cpu_env[c] \in Envs /\ env_status[cpu_env[c]] = "DYING"
    BY <1>0, <1>5 DEF ZombieTrap, UserLocked
  <2> QED BY <1>5, <2>1, FreeExits DEF ZombieTrap
<1>6. CASE TimerTrap(c) \/ PlainTrap(c) \/ sys_yield(c)
  <2>1. cpu_env[c] \in Envs /\ env_status[cpu_env[c]] = "RUNNING"
    BY <1>6, UserTrapFacts DEF TimerTrap, PlainTrap, sys_yield
  <2>2. CASE \/ sched_yield(c, env_status, cpu_env[c], cr3[c])
             \/ TrapTail(c, env_status)
    BY <1>6, <2>1, <2>2, UnchangedKind DEF TimerTrap, PlainTrap, sys_yield, Gone
  <2>3. CASE UNCHANGED <<env_status, cpu_env>> /\ env_id' = env_id
    BY <2>3, IdleKeeps
  <2> QED BY <1>6, <2>2, <2>3 DEF TimerTrap, PlainTrap, sys_yield
<1>7. CASE UserFault(c)
  <2>1. cpu_env[c] \in Envs /\ env_status[cpu_env[c]] = "RUNNING"
    BY <1>7, UserTrapFacts DEF UserFault
  <2> QED BY <1>7, <2>1, DestroyKind DEF UserFault, Gone
<1>8. CASE sys_exofork(c)
  BY <1>8, ForkKind
<1>9. CASE sys_ipc_recv(c)
  <2>1. cpu_env[c] \in Envs /\ env_status[cpu_env[c]] = "RUNNING" /\ UserTrap(c, "other")
    BY <1>9, UserTrapFacts DEF sys_ipc_recv
  <2>2. PICK s \in EnvStatus \ Gone : s = "NOT_RUNNABLE"
    BY DEF EnvStatus, Gone
  <2>3. /\ sched_yield(c, [env_status EXCEPT ![cpu_env[c]] = s], cpu_env[c], cr3[c])
        /\ env_id' = env_id
    BY <1>9, <2>2 DEF sys_ipc_recv
  <2>4. PICK e \in Envs : e = cpu_env[c]
    BY <2>1
  <2> QED BY <2>1, <2>3, <2>4, SetKind DEF Gone
<1>10. ASSUME NEW envid \in EnvIds, sys_ipc_try_send(c, envid) PROVE StepKinds
  <2> DEFINE e == envid2env(c, envid, FALSE)
  <2>1. /\ UserTrap(c, "other") /\ e # NULL /\ env_ipc_recving[e]
        /\ TrapTail(c, [env_status EXCEPT ![e] = "RUNNABLE"])
        /\ env_id' = env_id
    BY <1>10 DEF sys_ipc_try_send
  <2>2. cpu_env[c] \in Envs /\ env_status[cpu_env[c]] = "RUNNING"
    BY <2>1, UserTrapFacts
  <2>3. e \in Envs /\ env_status[e] # "FREE"
    BY <2>1, <2>2, LookupLive
  <2> HIDE DEF e
  <2>4. env_status[e] \notin Gone
    BY <2>1, <2>3 DEF IInv, RecvBlocked, Gone
  <2>5. PICK s \in EnvStatus \ Gone : s = "RUNNABLE"
    BY DEF EnvStatus, Gone
  <2> QED BY <2>1, <2>3, <2>4, <2>5, SetKind
<1> QED BY <1>1, <1>2, <1>3, <1>4, <1>5, <1>6, <1>7, <1>8, <1>9, <1>10 DEF CpuStep, BootStep

(* sys_env_set_status() as the library uses it. *)
LEMMA SetStatusKind ==
    ASSUME IInv, NEW c \in CPUs, LibSetStatus(c) PROVE StepKinds
<1>0. PICK envid \in EnvIds, s \in {"RUNNABLE", "NOT_RUNNABLE"} :
        LET e == envid2env(c, envid, TRUE) IN
        /\ UserTrap(c, "other")
        /\ e # NULL
        /\ e # cpu_env[c] => /\ env_status[e] \in {"RUNNABLE", "NOT_RUNNABLE"}
                             /\ ~env_ipc_recving[e]
        /\ sys_env_set_status(c, envid, s)
  BY DEF LibSetStatus
<1> DEFINE e == envid2env(c, envid, TRUE)
<1>1. cpu_env[c] \in Envs /\ env_status[cpu_env[c]] = "RUNNING"
  BY <1>0, UserTrapFacts
<1>2. e \in Envs /\ env_status[e] # "FREE"
  BY <1>0, <1>1, LookupLive
<1>3. /\ e # cpu_env[c] => env_status[e] \in {"RUNNABLE", "NOT_RUNNABLE"}
      /\ TrapTail(c, [env_status EXCEPT ![e] = s])
      /\ env_id' = env_id
  BY <1>0 DEF sys_env_set_status
<1> HIDE DEF e
<1>4. env_status[e] \notin Gone /\ s \in EnvStatus \ Gone
  BY <1>1, <1>3 DEF Gone, EnvStatus
<1> QED BY <1>0, <1>2, <1>3, <1>4, SetKind

(* sys_env_destroy() as the library uses it. *)
LEMMA LibDestroyKind ==
    ASSUME IInv, NEW c \in CPUs, LibDestroy(c) PROVE StepKinds
<1>0. PICK envid \in EnvIds :
        LET e == envid2env(c, envid, TRUE) IN
        /\ UserTrap(c, "other")
        /\ e # NULL
        /\ env_status[e] # "DYING"
        /\ sys_env_destroy(c, envid)
  BY DEF LibDestroy
<1> DEFINE e == envid2env(c, envid, TRUE)
<1>1. cpu_env[c] \in Envs /\ env_status[cpu_env[c]] = "RUNNING"
  BY <1>0, UserTrapFacts
<1>2. e \in Envs /\ env_status[e] \notin Gone
  BY <1>0, <1>1, LookupLive DEF Gone
<1>3. env_destroy(c, e) /\ env_id' = env_id
  BY <1>0 DEF sys_env_destroy
<1> QED BY <1>0, <1>2, <1>3, DestroyKind

(* Every step of LibSpec is of one of the four kinds. *)
LEMMA NextKinds == IInv /\ [LibNext]_vars => StepKinds
<1> SUFFICES ASSUME IInv, [LibNext]_vars PROVE StepKinds
  OBVIOUS
<1>1. CASE UNCHANGED vars
  BY <1>1, IdleKeeps DEF vars, envVars, cpuVars
<1> QED BY <1>1, CpuStepKind, SetStatusKind, LibDestroyKind DEF LibNext

-----------------------------------------------------------------------------
(* Theorems *)

(***************************************************************************)
(* A zombie leaves the DYING state only by being freed, on the CPU that    *)
(* runs it and gives it up in the same step: trap()'s collection is the    *)
(* only way out, whatever the other CPUs do meanwhile.                     *)
(***************************************************************************)
THEOREM ZombieFreed == LibSpec => ZombieFreedByItsCpu
<1> DEFINE Way == \A e \in Envs :
        env_status[e] = "DYING" /\ env_status'[e] # "DYING" =>
            /\ env_status'[e] = "FREE"
            /\ \E c \in On(e) : cpu_env'[c] # e
<1>1. ASSUME IInv, StepKinds PROVE Way
  <2> SUFFICES ASSUME NEW e \in Envs, env_status[e] = "DYING", env_status'[e] # "DYING"
               PROVE  env_status'[e] = "FREE" /\ \E c \in On(e) : cpu_env'[c] # e
    OBVIOUS
  <2>1. ASSUME NEW c \in CPUs, ExitStep(c)
        PROVE  env_status'[e] = "FREE" /\ \E d \in On(e) : cpu_env'[d] # e
    <3>1. e = cpu_env[c] /\ env_status'[e] = "FREE"
      BY <2>1 DEF ExitStep, KeepsOthers
    <3>2. cpu_env'[c] # e
      <4>1. PICK x \in Envs \cup {NULL} : GoesTo(c, x)
        BY <2>1 DEF ExitStep
      <4>2. cpu_env'[c] = x
        BY <1>1, <4>1 DEF GoesTo, IInv, TypeOK
      <4> QED BY <3>1, <4>1, <4>2, ConstFacts DEF GoesTo
    <3> QED BY <3>1, <3>2 DEF On
  <2>2. ~\E c \in CPUs : KeepStep(c)
    BY DEF KeepStep, KeepsOthers
  <2>3. ~\E f \in Envs : KillStep(f) \/ BirthStep(f)
    BY DEF KillStep, BirthStep, KeepsOthers, Gone
  <2> QED BY <1>1, <2>1, <2>2, <2>3 DEF StepKinds
<1>2. IInv /\ [LibNext]_vars => [Way]_vars
  BY <1>1, NextKinds
<1> QED BY <1>2, KernelInvariant, PTL DEF LibSpec, ZombieFreedByItsCpu

(* The next id of a slot differs from its present one. *)
LEMMA NextIdDiffers ==
    ASSUME TypeOK, IDLIM >= 3 * GENINC, NEW e \in Envs PROVE NextId(e) # env_id[e]
<1> DEFINE next == env_id[e] + GENINC
           gen == next - (next % NENV)
<1>1. env_id[e] \in Nat /\ e \in Nat /\ e < NENV
  BY ConstFacts DEF TypeOK, EnvIds, Envs
<1>2. GENINC >= NENV
  <2>1. GENINC % NENV = 0 /\ 0 % NENV = 0
    BY ConfigAssumption, ConstFacts
  <2> QED BY <2>1, MultipleGap, ConstFacts
<1>3. gen \in Int /\ gen > env_id[e] /\ gen <= next
  <2>1. next \in Nat /\ next % NENV \in 0..(NENV - 1)
    BY <1>1, ConstFacts
  <2> QED BY <1>1, <1>2, <2>1, ConstFacts
<1>4. CASE gen >= IDLIM
  <2>1. NextId(e) = GENINC + e
    BY <1>4 DEF NextId
  <2> QED BY <1>1, <1>2, <1>3, <1>4, <2>1, ConstFacts
<1>5. CASE ~(gen >= IDLIM)
  <2>1. NextId(e) = gen + e
    BY <1>5 DEF NextId
  <2> QED BY <1>1, <1>3, <2>1
<1> QED BY <1>4, <1>5

(***************************************************************************)
(* Successive occupants of a slot have different, positive ids, through    *)
(* the wrap of the generation counter, if there is room for two            *)
(* generations (2^31 against 2^12 in the code): an id a program kept from  *)
(* an environment that died does not designate the one that took its slot. *)
(***************************************************************************)
THEOREM FreshIds == IDLIM >= 3 * GENINC => (LibSpec => NewIdDiffers)
<1> SUFFICES ASSUME IDLIM >= 3 * GENINC PROVE LibSpec => NewIdDiffers
  OBVIOUS
<1> DEFINE Differs == \A e \in Envs :
        env_status[e] = "FREE" /\ env_status'[e] # "FREE" =>
            env_id'[e] # env_id[e] /\ env_id'[e] > 0
<1>1. ASSUME IInv, StepKinds PROVE Differs
  <2> SUFFICES ASSUME NEW e \in Envs, env_status[e] = "FREE", env_status'[e] # "FREE"
               PROVE  env_id'[e] # env_id[e] /\ env_id'[e] > 0
    OBVIOUS
  <2>1. BirthStep(e)
    BY <1>1 DEF StepKinds, KeepStep, ExitStep, KillStep, BirthStep, KeepsOthers, Gone
  <2>2. env_id'[e] = NextId(e)
    BY <2>1, <1>1 DEF BirthStep, IInv, TypeOK
  <2> QED BY <2>2, <1>1, NextIdDiffers, NextIdRange DEF IInv
<1>2. IInv /\ [LibNext]_vars => [Differs]_vars
  BY <1>1, NextKinds
<1> QED BY <1>2, KernelInvariant, PTL DEF LibSpec, NewIdDiffers

(***************************************************************************)
(* The kernel implements CpuAssignment: what Memory relies on.             *)
(***************************************************************************)
THEOREM Refinement == LibSpec => ImplementsCpuAssignment
<1>1. Init => Assignment!Init
  BY DEF Init, Assignment!Init, Live
<1>2. ASSUME IInv, IInv', StepKinds
      PROVE  [Assignment!Next]_<<Live, cpu_env>>
  <2>0. /\ OneCpuPerEnv /\ OneCpuPerEnv'
        /\ cpu_env \in [CPUs -> Envs \cup {NULL}]
        /\ NULL \notin Envs
    BY <1>2, ConstFacts DEF IInv, TypeOK
  <2>1. ASSUME NEW c \in CPUs, KeepStep(c) PROVE [Assignment!Next]_<<Live, cpu_env>>
    <3>1. PICK x \in Envs \cup {NULL} : GoesTo(c, x)
      BY <2>1 DEF KeepStep
    <3>2. Live' = Live
      BY <2>1 DEF KeepStep, KeepsOthers, Live
    <3>3. x \in Live \cup {NULL}
      BY <3>1, <3>2 DEF GoesTo, Live
    <3>4. x \in Live => \A d \in CPUs \ {c} : cpu_env[d] # x
      BY <2>0, <3>1 DEF GoesTo, OneCpuPerEnv, Live
    <3>5. Assignment!Switch(c, x)
      BY <3>1, <3>2, <3>3, <3>4 DEF GoesTo, Assignment!Switch, Assignment!FreeFor
    <3> QED BY <3>5 DEF Assignment!Next
  <2>2. ASSUME NEW c \in CPUs, ExitStep(c) PROVE Assignment!Next
    <3>1. PICK x \in Envs \cup {NULL} : GoesTo(c, x)
      BY <2>2 DEF ExitStep
    <3>2. Live' = Live \ {cpu_env[c]} /\ cpu_env[c] \in Live
      BY <2>2 DEF ExitStep, KeepsOthers, Live
    <3>3. x \in (Live \ {cpu_env[c]}) \cup {NULL}
      BY <3>1, <3>2 DEF GoesTo, Live
    <3>4. x \in Live => \A d \in CPUs \ {c} : cpu_env[d] # x
      BY <2>0, <3>1 DEF GoesTo, OneCpuPerEnv, Live
    <3>5. \A d \in CPUs \ {c} : cpu_env[d] # cpu_env[c]
      BY <2>0, <2>2 DEF OneCpuPerEnv, ExitStep
    <3>6. Assignment!Exit(c, x)
      BY <3>1, <3>2, <3>3, <3>4, <3>5 DEF GoesTo, Assignment!Exit, Assignment!FreeFor
    <3> QED BY <3>6 DEF Assignment!Next
  <2>3. ASSUME NEW e \in Envs, KillStep(e) PROVE Assignment!Next
    <3>1. Live' = Live \ {e} /\ e \in Live
      BY <2>3 DEF KillStep, KeepsOthers, Live, Gone
    <3>2. Assignment!Kill(e)
      BY <2>3, <3>1 DEF KillStep, Assignment!Kill
    <3> QED BY <3>2 DEF Assignment!Next
  <2>4. ASSUME NEW e \in Envs, BirthStep(e) PROVE Assignment!Next
    <3>1. Live' = Live \cup {e} /\ e \notin Live
      BY <2>4 DEF BirthStep, KeepsOthers, Live, Gone
    <3>2. Assignment!Create(e)
      BY <2>4, <3>1 DEF BirthStep, Assignment!Create
    <3> QED BY <3>2 DEF Assignment!Next
  <2> QED BY <1>2, <2>1, <2>2, <2>3, <2>4 DEF StepKinds
<1>3. IInv /\ IInv' /\ [LibNext]_vars => [Assignment!Next]_<<Live, cpu_env>>
  BY <1>2, NextKinds
<1> QED BY <1>1, <1>3, KernelInvariant, PTL DEF LibSpec, ImplementsCpuAssignment,
           Assignment!Spec
=============================================================================
