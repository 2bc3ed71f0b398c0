-------------------------------- MODULE Ipc --------------------------------
(***************************************************************************)
(* Inter-process communication: the system calls sys_ipc_try_send() and    *)
(* sys_ipc_recv() (kern/syscall.c), the library loops ipc_send() and       *)
(* ipc_recv() around them (lib/ipc.c), and the IPC fields of struct Env    *)
(* across the death of an environment and the reuse of its slot            *)
(* (kern/env.c).                                                           *)
(*                                                                         *)
(* A system call is one action, as in Kernel.  The library runs in user    *)
(* mode: it can be interrupted between a failed try and the next, and      *)
(* between its three reads of the fields that the kernel wrote.            *)
(***************************************************************************)
EXTENDS Naturals, FiniteSets

CONSTANTS Envs,      \* slots of envs[]
          MAXGEN,    \* bound, per slot: its occupants
          MAXSEND,   \* bound: calls of ipc_send()
          Senders,   \* slots whose programs call ipc_send()
          Receivers, \* slots whose programs call ipc_recv()
          Offers,    \* pairs of an address and a permission passed to ipc_send()
          Targets,   \* addresses passed to ipc_recv()
          Text,      \* a page every program has mapped read-only
          NULL

(* An environment's id names its slot and which occupant of it it is. *)
Ids == UNION {{e} \X (1..MAXGEN[e]) : e \in Envs}

ASSUME IpcAssumption ==
    /\ MAXGEN \in [Envs -> Nat \ {0}]
    /\ MAXSEND \in Nat
    /\ Senders \subseteq Envs /\ Receivers \subseteq Envs
    /\ NULL \notin Ids
    /\ NULL # Text /\ Text \notin Ids
    /\ NULL \notin Nat
    /\ NULL \notin [to : Ids, value : Nat] \cup [from : Ids, value : Nat]

(***************************************************************************)
(* Addresses: A holds a page of the program's own, R a read-only page, U   *)
(* is in a region without a page table, M is not page-aligned and inside   *)
(* A's page, and none is not below UTOP: what a null pg is turned into.    *)
(***************************************************************************)
VAs == {"A", "R", "U"}
Addrs == VAs \cup {"M", "none"}
PageAt(a) == IF a = "M" THEN "A" ELSE a

(* Permissions: read (PTE_P|PTE_U), with PTE_W, or not valid for a user page. *)
Perms == {"r", "w"}

ASSUME AddressAssumption ==
    /\ Offers \subseteq Addrs \X (Perms \cup {NULL})
    /\ Targets \subseteq Addrs

(* The page a program starts with at A is named after the program. *)
Pages == Ids \cup {Text}
NoMap == [page |-> NULL, w |-> FALSE]
Mappings == {NoMap} \cup [page : Pages, w : BOOLEAN]

(* Messages are numbered, to tell them apart. *)
Values == 1..MAXSEND

VARIABLES
    env_status,       \* per slot: FREE, RUNNABLE (running included), NOT_RUNNABLE
    gen,              \* per slot: its present or last occupant
    env_ipc_recving, env_ipc_dstva, env_ipc_from, env_ipc_value, env_ipc_perm,
    map,              \* per slot and address: the page mapped
    pc,               \* per slot: where in the library its program is
    req,              \* per slot: the arguments of ipc_send()
    from_store, perm_store,  \* per slot: what ipc_recv() has read so far
    result,           \* per slot: what its last ipc_recv() returned
    shipped,          \* history, per slot: the mapping transferred with the last
                      \*   message sent to it, NoMap if there was none
    nsend             \* calls of ipc_send() made, for MAXSEND

fields == <<env_ipc_recving, env_ipc_dstva, env_ipc_from, env_ipc_value, env_ipc_perm>>
ipcVars == <<env_status, gen, fields, map, pc, req, from_store, perm_store, result,
             shipped, nsend>>

(***************************************************************************)
(* idle: in its own code; try: about to call sys_ipc_try_send(); yield:    *)
(* the receiver was not ready, about to call sys_yield(); recv: in         *)
(* sys_ipc_recv(); from, perm, value: ipc_recv() about to read that field; *)
(* panic: ipc_send() has panicked.                                         *)
(***************************************************************************)
Steps == {"idle", "try", "yield", "recv", "from", "perm", "value", "panic"}

Results == [from : Ids \cup {NULL}, perm : Perms \cup {NULL}, value : Values \cup {NULL}]
NoResult == [from |-> NULL, perm |-> NULL, value |-> NULL]
NoReq == [to |-> NULL, value |-> NULL, pg |-> "none", perm |-> NULL]

TypeOK ==
    /\ env_status \in [Envs -> {"FREE", "RUNNABLE", "NOT_RUNNABLE"}]
    /\ gen \in [Envs -> Nat] /\ \A e \in Envs : gen[e] <= MAXGEN[e]
    /\ env_ipc_recving \in [Envs -> BOOLEAN]
    /\ env_ipc_dstva \in [Envs -> Addrs \ {"M"}]
    /\ env_ipc_from \in [Envs -> Ids \cup {NULL}]
    /\ env_ipc_value \in [Envs -> Values \cup {NULL}]
    /\ env_ipc_perm \in [Envs -> Perms \cup {NULL}]
    /\ map \in [Envs -> [VAs -> Mappings]]
    /\ pc \in [Envs -> Steps]
    /\ req \in [Envs -> [to : Ids \cup {NULL}, value : Values \cup {NULL},
                         pg : Addrs, perm : Perms \cup {NULL}]]
    /\ from_store \in [Envs -> Ids \cup {NULL}]
    /\ perm_store \in [Envs -> Perms \cup {NULL}]
    /\ result \in [Envs -> Results]
    /\ shipped \in [Envs -> Mappings]
    /\ nsend \in 0..MAXSEND

Id(e) == <<e, gen[e]>>
Alive(e) == env_status[e] # "FREE"

(* Mutant: the id is not compared with the one of the slot's occupant. *)
Exists_AnyOccupant(i) == Alive(i[1])

(* envid2env() without the permission check. *)
Exists(i) == Alive(i[1]) /\ gen[i[1]] = i[2]

-----------------------------------------------------------------------------
(* Environments *)

(* The address space a program starts with. *)
Loaded(i) == [a \in VAs |->
    CASE a = "A" -> [page |-> i, w |-> TRUE]
      [] a = "R" -> [page |-> Text, w |-> FALSE]
      [] OTHER -> NoMap]

(* Every slot has been filled once; the fields are zero, as all of envs[]. *)
Init ==
    /\ env_status = [e \in Envs |-> "RUNNABLE"]
    /\ gen = [e \in Envs |-> 1]
    /\ env_ipc_recving = [e \in Envs |-> FALSE]
    /\ env_ipc_dstva = [e \in Envs |-> "A"]
    /\ env_ipc_from = [e \in Envs |-> NULL]
    /\ env_ipc_value = [e \in Envs |-> NULL]
    /\ env_ipc_perm = [e \in Envs |-> NULL]
    /\ map = [e \in Envs |-> Loaded(<<e, 1>>)]
    /\ pc = [e \in Envs |-> "idle"]
    /\ req = [e \in Envs |-> NoReq]
    /\ from_store = [e \in Envs |-> NULL]
    /\ perm_store = [e \in Envs |-> NULL]
    /\ result = [e \in Envs |-> NoResult]
    /\ shipped = [e \in Envs |-> NoMap]
    /\ nsend = 0

(* env_alloc() and the load of a program: of the IPC fields only            *)
(* env_ipc_recving is reset.                                                *)
env_alloc(e) ==
    /\ env_status[e] = "FREE"
    /\ gen[e] < MAXGEN[e]
    /\ gen' = [gen EXCEPT ![e] = @ + 1]
    /\ env_status' = [env_status EXCEPT ![e] = "RUNNABLE"]
    /\ env_ipc_recving' = [env_ipc_recving EXCEPT ![e] = FALSE]
    /\ map' = [map EXCEPT ![e] = Loaded(<<e, gen[e] + 1>>)]
    /\ UNCHANGED <<env_ipc_dstva, env_ipc_from, env_ipc_value, env_ipc_perm, pc, req,
                   from_store, perm_store, result, shipped, nsend>>

(* env_free(): an exit, or a kill at any moment.  The kernel's fields stay,  *)
(* the program's own memory is gone.                                         *)
env_free(e) ==
    /\ Alive(e)
    /\ env_status' = [env_status EXCEPT ![e] = "FREE"]
    /\ map' = [map EXCEPT ![e] = [a \in VAs |-> NoMap]]
    /\ pc' = [pc EXCEPT ![e] = "idle"]
    /\ req' = [req EXCEPT ![e] = NoReq]
    /\ from_store' = [from_store EXCEPT ![e] = NULL]
    /\ perm_store' = [perm_store EXCEPT ![e] = NULL]
    /\ result' = [result EXCEPT ![e] = NoResult]
    /\ UNCHANGED <<gen, fields, shipped, nsend>>

-----------------------------------------------------------------------------
(* Sending *)

(* A program calls ipc_send(); it can name any environment there has been,  *)
(* itself included.                                                          *)
ipc_send(e, to, pg, perm) ==
    /\ env_status[e] = "RUNNABLE"
    /\ pc[e] = "idle"
    /\ nsend < MAXSEND
    /\ to[2] <= gen[to[1]]
    /\ nsend' = nsend + 1
    /\ req' = [req EXCEPT ![e] = [to |-> to, value |-> nsend + 1, pg |-> pg, perm |-> perm]]
    /\ pc' = [pc EXCEPT ![e] = "try"]
    /\ UNCHANGED <<env_status, gen, fields, map, from_store, perm_store, result, shipped>>

Trying(e) == env_status[e] = "RUNNABLE" /\ pc[e] = "try"

(* The tests on the page of the sender, made when it offers one. *)
WithPage(e) == req[e].pg # "none"

PageOk(e) ==
    LET pte == map[e][PageAt(req[e].pg)] IN
    /\ pte # NoMap
    /\ req[e].perm \in Perms
    /\ req[e].perm = "w" => pte.w
    /\ req[e].pg # "M"

(* page_insert() of the page offered, if the receiver r wants one. *)
Transfers(e, r) == WithPage(e) /\ env_ipc_dstva[r] # "none"
Shipment(e) == [page |-> map[e][PageAt(req[e].pg)].page, w |-> req[e].perm = "w"]

(* Mutant: the page is mapped at the sender's address. *)
sys_ipc_try_send_SrcAddress(e) ==
    LET r == req[e].to[1] IN
    /\ Trying(e)
    /\ Exists(req[e].to)
    /\ env_ipc_recving[r]
    /\ WithPage(e) => PageOk(e)
    /\ \/ /\ Transfers(e, r)
          /\ map' = [map EXCEPT ![r][PageAt(req[e].pg)] = Shipment(e)]
          /\ env_ipc_perm' = [env_ipc_perm EXCEPT ![r] = req[e].perm]
          /\ shipped' = [shipped EXCEPT ![r] = Shipment(e)]
       \/ /\ ~Transfers(e, r)
          /\ shipped' = [shipped EXCEPT ![r] = NoMap]
          /\ UNCHANGED <<map, env_ipc_perm>>
    /\ env_ipc_recving' = [env_ipc_recving EXCEPT ![r] = FALSE]
    /\ env_ipc_from' = [env_ipc_from EXCEPT ![r] = Id(e)]
    /\ env_ipc_value' = [env_ipc_value EXCEPT ![r] = req[e].value]
    /\ env_status' = [env_status EXCEPT ![r] = "RUNNABLE"]
    /\ pc' = [pc EXCEPT ![e] = "idle", ![r] = "from"]
    /\ req' = [req EXCEPT ![e] = NoReq]
    /\ UNCHANGED <<gen, env_ipc_dstva, from_store, perm_store, result, nsend>>

(* sys_ipc_try_send() that succeeds: the receiver returns from its system   *)
(* call with the value 0 in eax.                                            *)
sys_ipc_try_send(e) ==
    LET r == req[e].to[1] IN
    /\ Trying(e)
    /\ Exists(req[e].to)
    /\ env_ipc_recving[r]
    /\ WithPage(e) => PageOk(e)
    /\ \/ /\ Transfers(e, r)
          /\ map' = [map EXCEPT ![r][env_ipc_dstva[r]] = Shipment(e)]
          /\ env_ipc_perm' = [env_ipc_perm EXCEPT ![r] = req[e].perm]
          /\ shipped' = [shipped EXCEPT ![r] = Shipment(e)]
       \/ /\ ~Transfers(e, r)
          /\ shipped' = [shipped EXCEPT ![r] = NoMap]
          /\ UNCHANGED <<map, env_ipc_perm>>
    /\ env_ipc_recving' = [env_ipc_recving EXCEPT ![r] = FALSE]
    /\ env_ipc_from' = [env_ipc_from EXCEPT ![r] = Id(e)]
    /\ env_ipc_value' = [env_ipc_value EXCEPT ![r] = req[e].value]
    /\ env_status' = [env_status EXCEPT ![r] = "RUNNABLE"]
    /\ pc' = [pc EXCEPT ![e] = "idle", ![r] = "from"]
    /\ req' = [req EXCEPT ![e] = NoReq]
    /\ UNCHANGED <<gen, env_ipc_dstva, from_store, perm_store, result, nsend>>

(* -E_IPC_NOT_RECV: ipc_send() yields and tries again. *)
NotReceiving(e) ==
    /\ Trying(e)
    /\ Exists(req[e].to)
    /\ ~env_ipc_recving[req[e].to[1]]
    /\ pc' = [pc EXCEPT ![e] = "yield"]
    /\ UNCHANGED <<env_status, gen, fields, map, req, from_store, perm_store, result,
                   shipped, nsend>>

(* Mutant: the caller is marked not runnable, as in sys_ipc_recv(). *)
sys_yield_NotRunnable(e) ==
    /\ env_status[e] = "RUNNABLE"
    /\ pc[e] = "yield"
    /\ pc' = [pc EXCEPT ![e] = "try"]
    /\ env_status' = [env_status EXCEPT ![e] = "NOT_RUNNABLE"]
    /\ UNCHANGED <<gen, fields, map, req, from_store, perm_store, result, shipped, nsend>>

sys_yield(e) ==
    /\ env_status[e] = "RUNNABLE"
    /\ pc[e] = "yield"
    /\ pc' = [pc EXCEPT ![e] = "try"]
    /\ UNCHANGED <<env_status, gen, fields, map, req, from_store, perm_store, result,
                   shipped, nsend>>

(* Mutant: any failure counts as "not receiving" and is retried. *)
SendFails_Retried(e) ==
    /\ Trying(e)
    /\ ~Exists(req[e].to)
    /\ pc' = [pc EXCEPT ![e] = "yield"]
    /\ UNCHANGED <<env_status, gen, fields, map, req, from_store, perm_store, result,
                   shipped, nsend>>

(* Any other failure, -E_BAD_ENV, -E_INVAL, or -E_NO_MEM from page_insert(): *)
(* nothing was changed, and ipc_send() panics.                               *)
SendFails(e) ==
    LET r == req[e].to[1] IN
    /\ Trying(e)
    /\ \/ ~Exists(req[e].to)
       \/ env_ipc_recving[r] /\ WithPage(e) /\ ~PageOk(e)
       \/ env_ipc_recving[r] /\ WithPage(e) /\ PageOk(e) /\ Transfers(e, r)
    /\ pc' = [pc EXCEPT ![e] = "panic"]
    /\ req' = [req EXCEPT ![e] = NoReq]
    /\ UNCHANGED <<env_status, gen, fields, map, from_store, perm_store, result, shipped,
                   nsend>>

-----------------------------------------------------------------------------
(* Receiving *)

(* ipc_recv() of an address that is not page-aligned: 0, 0 and the error. *)
RecvFails(e, dstva) ==
    /\ env_status[e] = "RUNNABLE"
    /\ pc[e] = "idle"
    /\ dstva = "M"
    /\ result' = [result EXCEPT ![e] = NoResult]
    /\ UNCHANGED <<env_status, gen, fields, map, pc, req, from_store, perm_store, shipped,
                   nsend>>

sys_ipc_recv(e, dstva) ==
    /\ env_status[e] = "RUNNABLE"
    /\ pc[e] = "idle"
    /\ dstva # "M"
    /\ env_ipc_recving' = [env_ipc_recving EXCEPT ![e] = TRUE]
    /\ env_status' = [env_status EXCEPT ![e] = "NOT_RUNNABLE"]
    /\ env_ipc_dstva' = [env_ipc_dstva EXCEPT ![e] = dstva]
    /\ pc' = [pc EXCEPT ![e] = "recv"]
    /\ UNCHANGED <<gen, env_ipc_from, env_ipc_value, env_ipc_perm, map, req, from_store,
                   perm_store, result, shipped, nsend>>

(* ipc_recv() reads the fields, one after the other, outside the kernel. *)
ReadFrom(e) ==
    /\ env_status[e] = "RUNNABLE"
    /\ pc[e] = "from"
    /\ from_store' = [from_store EXCEPT ![e] = env_ipc_from[e]]
    /\ pc' = [pc EXCEPT ![e] = "perm"]
    /\ UNCHANGED <<env_status, gen, fields, map, req, perm_store, result, shipped, nsend>>
ReadPerm(e) ==
    /\ env_status[e] = "RUNNABLE"
    /\ pc[e] = "perm"
    /\ perm_store' = [perm_store EXCEPT ![e] = env_ipc_perm[e]]
    /\ pc' = [pc EXCEPT ![e] = "value"]
    /\ UNCHANGED <<env_status, gen, fields, map, req, from_store, result, shipped, nsend>>
ReadValue(e) ==
    /\ env_status[e] = "RUNNABLE"
    /\ pc[e] = "value"
    /\ result' = [result EXCEPT ![e] = [from |-> from_store[e], perm |-> perm_store[e],
                                        value |-> env_ipc_value[e]]]
    /\ pc' = [pc EXCEPT ![e] = "idle"]
    /\ from_store' = [from_store EXCEPT ![e] = NULL]
    /\ perm_store' = [perm_store EXCEPT ![e] = NULL]
    /\ UNCHANGED <<env_status, gen, fields, map, req, shipped, nsend>>

-----------------------------------------------------------------------------
(* What ipc_send() and ipc_recv() do once they are called. *)
Library(e) ==
    \/ sys_ipc_try_send(e) \/ NotReceiving(e) \/ sys_yield(e) \/ SendFails(e)
    \/ ReadFrom(e) \/ ReadPerm(e) \/ ReadValue(e)

Next ==
    \E e \in Envs :
        \/ env_alloc(e)
        \/ env_free(e)
        \/ e \in Senders /\ \E to \in Ids, o \in Offers : ipc_send(e, to, o[1], o[2])
        \/ e \in Receivers /\ \E dstva \in Targets : RecvFails(e, dstva) \/ sys_ipc_recv(e, dstva)
        \/ Library(e)

(* The scheduler gives every environment that can run its turn, and each    *)
(* system call finishes.                                                     *)
Spec == Init /\ [][Next]_ipcVars /\ \A e \in Envs : WF_ipcVars(Library(e))

-----------------------------------------------------------------------------
(* Properties *)

(* i is the present occupant of its slot. *)
Present(i) == Alive(i[1]) /\ gen[i[1]] = i[2]

(* The boxes: what Mailbox sees of the present occupants. *)
BoxReq == [i \in Ids |->
    IF Present(i) /\ pc[i[1]] \in {"try", "yield"}
    THEN [to |-> req[i[1]].to, value |-> req[i[1]].value] ELSE NULL]
BoxWaiting == {i \in Ids : Present(i) /\ env_ipc_recving[i[1]]}
BoxInbox == [i \in Ids |->
    IF Present(i) /\ pc[i[1]] \in {"from", "perm", "value"}
    THEN [from |-> env_ipc_from[i[1]], value |-> env_ipc_value[i[1]]] ELSE NULL]
BoxOut == [i \in Ids |->
    IF Present(i) /\ result[i[1]].from # NULL
    THEN [from |-> result[i[1]].from, value |-> result[i[1]].value] ELSE NULL]

Box == INSTANCE Mailbox WITH
    req <- BoxReq, waiting <- BoxWaiting, inbox <- BoxInbox, out <- BoxOut

(***************************************************************************)
(* IPC is a rendezvous: every message is put into the box of the           *)
(* environment it was sent to, never of a later occupant of its slot, only *)
(* while that environment waits, at most once and never over a message not *)
(* yet taken; and what ipc_recv() returns after its three reads is that    *)
(* message, the right sender with the right value.                         *)
(***************************************************************************)
ImplementsMailbox == Box!BoxSpec

(***************************************************************************)
(* While ipc_recv() returns, the page that came with the message is mapped *)
(* where the receiver asked for it, with the permission it is told, even   *)
(* when the sender has died since.                                         *)
(***************************************************************************)
PageArrived ==
    \A e \in Envs :
        Alive(e) /\ pc[e] \in {"from", "perm", "value"} /\ shipped[e] # NoMap
        => /\ map[e][env_ipc_dstva[e]] = shipped[e]
           /\ env_ipc_perm[e] = IF shipped[e].w THEN "w" ELSE "r"

(***************************************************************************)
(* A page that was never writable in any environment does not become so by *)
(* being sent: a sender cannot grant PTE_W on a page it has read-only.     *)
(***************************************************************************)
TextReadOnly == \A e \in Envs, a \in VAs : map[e][a].page = Text => ~map[e][a].w

(***************************************************************************)
(* A receiver that waits while some environment that can send is trying to *)
(* send to it does not wait for ever: the retry loop of ipc_send() finds   *)
(* it, or it dies, or every such sender has died or failed.                *)
(***************************************************************************)
Pending(r) ==
    \E e \in Envs : Alive(e) /\ pc[e] \in {"try", "yield"} /\ req[e].to = Id(r)
ReceiverServed ==
    \A r \in Envs :
        (Alive(r) /\ env_ipc_recving[r] /\ Pending(r))
        ~> ~(Alive(r) /\ env_ipc_recving[r] /\ Pending(r))

(***************************************************************************)
(* A sender whose receiver has died learns of it: it does not retry for    *)
(* ever, not even when the slot has a new occupant that receives.          *)
(***************************************************************************)
SenderReleased ==
    \A e \in Envs :
        (Alive(e) /\ pc[e] \in {"try", "yield"} /\ ~Present(req[e].to))
        ~> (~Alive(e) \/ pc[e] \notin {"try", "yield"})

(***************************************************************************)
(* The state of IPC keeps its type, and a page sent is the page the        *)
(* receiver gets, where it asked for it, with no more than the rights of   *)
(* the sender (sys_ipc_try_send(), ipc_recv()).                            *)
(***************************************************************************)
PagesSound == TypeOK /\ PageArrived /\ TextReadOnly
=============================================================================
