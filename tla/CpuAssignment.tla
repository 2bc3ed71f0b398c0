--------------------------- MODULE CpuAssignment ---------------------------
(***************************************************************************)
(* What the kernel promises about environments and CPUs, without saying    *)
(* how: an environment is on one CPU at most, a CPU only takes one that is *)
(* alive, and an environment dies only while no other CPU has it.          *)
(***************************************************************************)
CONSTANTS Envs, CPUs, NULL

VARIABLES live,  \* the environments that exist
          on     \* per CPU: the environment it runs, or NULL

Init == live = {} /\ on = [c \in CPUs |-> NULL]

FreeFor(c, e) == \A d \in CPUs \ {c} : on[d] # e

Create(e) ==
    /\ e \notin live
    /\ live' = live \cup {e}
    /\ UNCHANGED on

(* CPU c takes e, or goes idle. *)
Switch(c, e) ==
    /\ e \in live => FreeFor(c, e)
    /\ e \in live \cup {NULL}
    /\ on' = [on EXCEPT ![c] = e]
    /\ UNCHANGED live

(* An environment that no CPU has is destroyed. *)
Kill(e) ==
    /\ e \in live
    /\ \A c \in CPUs : on[c] # e
    /\ live' = live \ {e}
    /\ UNCHANGED on

(* The environment of CPU c dies and c takes another one, or goes idle. *)
Exit(c, e) ==
    /\ on[c] \in live
    /\ FreeFor(c, on[c])
    /\ e \in (live \ {on[c]}) \cup {NULL}
    /\ e \in live => FreeFor(c, e)
    /\ live' = live \ {on[c]}
    /\ on' = [on EXCEPT ![c] = e]

Next ==
    \/ \E e \in Envs : Create(e) \/ Kill(e)
    \/ \E c \in CPUs, e \in Envs \cup {NULL} : Switch(c, e) \/ Exit(c, e)

Spec == Init /\ [][Next]_<<live, on>>
=============================================================================
