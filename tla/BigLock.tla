------------------------------ MODULE BigLock ------------------------------
(***************************************************************************)
(* What the big kernel lock promises: one CPU at a time has it, and only   *)
(* that CPU gives it up.  Kernel takes the lock to be this.                *)
(***************************************************************************)
CONSTANTS CPUs, NULL

VARIABLE holder

Init == holder = NULL

Acquire(c) == holder = NULL /\ holder' = c
Release(c) == holder = c /\ holder' = NULL

Next == \E c \in CPUs : Acquire(c) \/ Release(c)

Spec == Init /\ [][Next]_holder
=============================================================================
