----------------------------- MODULE IpcProofs -----------------------------
(***************************************************************************)
(* Proofs about Ipc, for any number of environments, occupants and         *)
(* messages: what is sent arrives where it was wanted, with no more rights *)
(* than the sender had, and IPC implements the rendezvous of Mailbox.      *)
(***************************************************************************)
EXTENDS Ipc, TLAPS

Sending == {"try", "yield"}
Reading == {"from", "perm", "value"}

(* The status of a slot, the flag env_ipc_recving and the place of the      *)
(* program agree, and a free slot holds nothing of its last program.        *)
SlotInv ==
    \A e \in Envs :
        /\ gen[e] >= 1
        /\ env_status[e] = "FREE" => pc[e] = "idle" /\ result[e] = NoResult
        /\ env_status[e] = "RUNNABLE" => ~env_ipc_recving[e] /\ pc[e] # "recv"
        /\ env_status[e] = "NOT_RUNNABLE" => env_ipc_recving[e] /\ pc[e] = "recv"

(* A program in ipc_send() has a message, one about to read a message has   *)
(* one, and what it has read so far is of that message.                     *)
MessageInv ==
    \A e \in Envs :
        /\ pc[e] \in Sending => req[e].to \in Ids /\ req[e].value \in Values
        /\ pc[e] \in Reading => env_ipc_from[e] \in Ids /\ env_ipc_value[e] \in Values
        /\ pc[e] \in {"perm", "value"} => from_store[e] = env_ipc_from[e]

(* A page transferred to a program that has not read its message yet is at  *)
(* an address that can be mapped.                                           *)
TargetInv ==
    \A e \in Envs : pc[e] \in Reading /\ shipped[e] # NoMap => env_ipc_dstva[e] \in VAs

IInv == PagesSound /\ SlotInv /\ MessageInv /\ TargetInv

(* An id is a slot of envs[] and one of the occupants it may have. *)
LEMMA IdFacts ==
  /\ \A e \in Envs : \A n \in 1..MAXGEN[e] : <<e, n>> \in Ids
  /\ \A i \in Ids : i[1] \in Envs /\ i[2] \in 1..MAXGEN[i[1]] /\ i = <<i[1], i[2]>>
BY DEF Ids

(* What a program is loaded with has its type, and Text is read-only in it. *)
LEMMA LoadedFacts ==
  ASSUME NEW i \in Ids
  PROVE  /\ Loaded(i) \in [VAs -> Mappings]
         /\ \A a \in VAs : Loaded(i)[a].page = Text => ~Loaded(i)[a].w
BY IpcAssumption DEF Loaded, VAs, Mappings, NoMap, Pages

(* env_alloc() keeps the invariant: the new program is loaded and not yet waiting. *)
LEMMA AllocStep ==
  ASSUME IInv, NEW e \in Envs, env_alloc(e)
  PROVE  IInv'
<1>0. /\ gen' = [gen EXCEPT ![e] = gen[e] + 1]
      /\ gen[e] + 1 \in 1..MAXGEN[e]
      /\ Loaded(<<e, gen[e] + 1>>) \in [VAs -> Mappings]
      /\ \A a \in VAs : Loaded(<<e, gen[e] + 1>>)[a].page = Text =>
                          ~Loaded(<<e, gen[e] + 1>>)[a].w
  <2>1. gen[e] + 1 \in 1..MAXGEN[e]
    <3>1. gen[e] \in Nat /\ MAXGEN[e] \in Nat /\ gen[e] < MAXGEN[e]
      BY IpcAssumption DEF IInv, PagesSound, TypeOK, env_alloc
    <3>2. QED
      BY <3>1
  <2>2. <<e, gen[e] + 1>> \in Ids
    BY <2>1, IdFacts
  <2>3. QED
    BY <2>1, <2>2, LoadedFacts DEF env_alloc
<1>1. TypeOK'
  <2>1. gen' \in [Envs -> Nat] /\ \A f \in Envs : gen'[f] <= MAXGEN[f]
    BY <1>0, IpcAssumption DEF IInv, PagesSound, TypeOK
  <2>2. QED
    BY <1>0, <2>1, IpcAssumption DEF IInv, PagesSound, TypeOK, env_alloc
<1>2. PageArrived'
  BY <1>0, IpcAssumption DEF IInv, PagesSound, TypeOK, env_alloc, fields, PageArrived,
     TargetInv, SlotInv, Alive, Reading
<1>3. TextReadOnly'
  BY <1>0, IpcAssumption DEF IInv, PagesSound, TypeOK, env_alloc, TextReadOnly, fields
<1>4. SlotInv'
  BY <1>0, IpcAssumption DEF IInv, PagesSound, TypeOK, env_alloc, SlotInv, fields
<1>5. MessageInv'
  BY <1>0, IpcAssumption DEF IInv, PagesSound, TypeOK, env_alloc, MessageInv, fields,
     Sending, Reading, SlotInv
<1>6. TargetInv'
  BY <1>0, IpcAssumption DEF IInv, PagesSound, TypeOK, env_alloc, TargetInv, fields,
     Reading, SlotInv
<1>7. QED
  BY <1>1, <1>2, <1>3, <1>4, <1>5, <1>6 DEF IInv, PagesSound

(* env_free() keeps the invariant. *)
LEMMA FreeStep ==
  ASSUME IInv, NEW e \in Envs, env_free(e)
  PROVE  IInv'
<1>1. TypeOK'
  BY IpcAssumption, AddressAssumption DEF IInv, PagesSound, TypeOK, env_free, fields, Steps,
     SlotInv, MessageInv, NoResult, NoReq, NoMap, Mappings, Results, Addrs
<1>2. PageArrived'
  BY IpcAssumption DEF IInv, PagesSound, TypeOK, env_free, fields, PageArrived, TargetInv,
     SlotInv, Alive, Reading, NoMap
<1>3. TextReadOnly'
  BY IpcAssumption DEF IInv, PagesSound, TypeOK, env_free, TextReadOnly, fields, NoMap
<1>4. SlotInv'
  BY IpcAssumption DEF IInv, PagesSound, TypeOK, env_free, SlotInv, fields, NoResult
<1>5. MessageInv'
  BY IpcAssumption DEF IInv, PagesSound, TypeOK, env_free, MessageInv, fields, Sending,
     Reading, SlotInv, NoResult
<1>6. TargetInv'
  BY IpcAssumption DEF IInv, PagesSound, TypeOK, env_free, TargetInv, fields, Reading,
     SlotInv, NoResult
<1>7. QED
  BY <1>1, <1>2, <1>3, <1>4, <1>5, <1>6 DEF IInv, PagesSound

(* ipc_send() keeps the invariant. *)
LEMMA SendStep ==
  ASSUME IInv, NEW e \in Envs, NEW to \in Ids, NEW o \in Offers, ipc_send(e, to, o[1], o[2])
  PROVE  IInv'
<1>0. /\ o[1] \in Addrs /\ o[2] \in Perms \cup {NULL}
      /\ nsend + 1 \in Values /\ nsend + 1 \in 0..MAXSEND
  BY IpcAssumption, AddressAssumption DEF IInv, PagesSound, TypeOK, Values, ipc_send
<1>1. TypeOK'
  BY <1>0, IpcAssumption DEF IInv, PagesSound, TypeOK, ipc_send, fields, Steps, SlotInv,
     MessageInv
<1>2. PageArrived'
  BY <1>0, IpcAssumption DEF IInv, PagesSound, TypeOK, ipc_send, fields, PageArrived,
     TargetInv, SlotInv, Alive, Reading
<1>3. TextReadOnly'
  BY <1>0, IpcAssumption DEF IInv, PagesSound, TypeOK, ipc_send, TextReadOnly, fields
<1>4. SlotInv'
  BY <1>0, IpcAssumption DEF IInv, PagesSound, TypeOK, ipc_send, SlotInv, fields
<1>5. MessageInv'
  BY <1>0, IpcAssumption DEF IInv, PagesSound, TypeOK, ipc_send, MessageInv, fields,
     Sending, Reading, SlotInv
<1>6. TargetInv'
  BY <1>0, IpcAssumption DEF IInv, PagesSound, TypeOK, ipc_send, TargetInv, fields, Reading,
     SlotInv
<1>7. QED
  BY <1>1, <1>2, <1>3, <1>4, <1>5, <1>6 DEF IInv, PagesSound

(* A try that finds no receiver keeps the invariant. *)
LEMMA NotReceivingStep ==
  ASSUME IInv, NEW e \in Envs, NotReceiving(e)
  PROVE  IInv'
<1>1. TypeOK'
  BY IpcAssumption, AddressAssumption DEF IInv, PagesSound, TypeOK, NotReceiving, Trying,
     fields, Steps, SlotInv, MessageInv
<1>2. PageArrived'
  BY IpcAssumption DEF IInv, PagesSound, TypeOK, NotReceiving, Trying, fields, PageArrived,
     TargetInv, SlotInv, Alive, Reading
<1>3. TextReadOnly'
  BY IpcAssumption DEF IInv, PagesSound, TypeOK, NotReceiving, Trying, TextReadOnly, fields
<1>4. SlotInv'
  BY IpcAssumption DEF IInv, PagesSound, TypeOK, NotReceiving, Trying, SlotInv, fields
<1>5. MessageInv'
  BY IpcAssumption DEF IInv, PagesSound, TypeOK, NotReceiving, Trying, MessageInv, fields,
     Sending, Reading, SlotInv
<1>6. TargetInv'
  BY IpcAssumption DEF IInv, PagesSound, TypeOK, NotReceiving, Trying, TargetInv, fields,
     Reading, SlotInv
<1>7. QED
  BY <1>1, <1>2, <1>3, <1>4, <1>5, <1>6 DEF IInv, PagesSound

(* sys_yield() keeps the invariant. *)
LEMMA YieldStep ==
  ASSUME IInv, NEW e \in Envs, sys_yield(e)
  PROVE  IInv'
<1>1. TypeOK'
  BY IpcAssumption, AddressAssumption DEF IInv, PagesSound, TypeOK, sys_yield, fields,
     Steps, SlotInv, MessageInv
<1>2. PageArrived'
  BY IpcAssumption DEF IInv, PagesSound, TypeOK, sys_yield, fields, PageArrived, TargetInv,
     SlotInv, Alive, Reading
<1>3. TextReadOnly'
  BY IpcAssumption DEF IInv, PagesSound, TypeOK, sys_yield, TextReadOnly, fields
<1>4. SlotInv'
  BY IpcAssumption DEF IInv, PagesSound, TypeOK, sys_yield, SlotInv, fields
<1>5. MessageInv'
  BY IpcAssumption DEF IInv, PagesSound, TypeOK, sys_yield, MessageInv, fields, Sending,
     Reading, SlotInv
<1>6. TargetInv'
  BY IpcAssumption DEF IInv, PagesSound, TypeOK, sys_yield, TargetInv, fields, Reading, SlotInv
<1>7. QED
  BY <1>1, <1>2, <1>3, <1>4, <1>5, <1>6 DEF IInv, PagesSound

(* A send that fails keeps the invariant. *)
LEMMA FailStep ==
  ASSUME IInv, NEW e \in Envs, SendFails(e)
  PROVE  IInv'
<1>1. TypeOK'
  BY IpcAssumption, AddressAssumption DEF IInv, PagesSound, TypeOK, SendFails, Trying,
     fields, Steps, SlotInv, MessageInv, NoReq, Addrs
<1>2. PageArrived'
  BY IpcAssumption DEF IInv, PagesSound, TypeOK, SendFails, Trying, fields, PageArrived,
     TargetInv, SlotInv, Alive, Reading
<1>3. TextReadOnly'
  BY IpcAssumption DEF IInv, PagesSound, TypeOK, SendFails, Trying, TextReadOnly, fields
<1>4. SlotInv'
  BY IpcAssumption DEF IInv, PagesSound, TypeOK, SendFails, Trying, SlotInv, fields
<1>5. MessageInv'
  BY IpcAssumption DEF IInv, PagesSound, TypeOK, SendFails, Trying, MessageInv, fields,
     Sending, Reading, SlotInv
<1>6. TargetInv'
  BY IpcAssumption DEF IInv, PagesSound, TypeOK, SendFails, Trying, TargetInv, fields,
     Reading, SlotInv
<1>7. QED
  BY <1>1, <1>2, <1>3, <1>4, <1>5, <1>6 DEF IInv, PagesSound

(* The read of env_ipc_from keeps the invariant. *)
LEMMA ReadFromStep ==
  ASSUME IInv, NEW e \in Envs, ReadFrom(e)
  PROVE  IInv'
<1>1. TypeOK'
  BY IpcAssumption, AddressAssumption DEF IInv, PagesSound, TypeOK, ReadFrom, fields, Steps,
     SlotInv, MessageInv
<1>2. PageArrived'
  BY IpcAssumption DEF IInv, PagesSound, TypeOK, ReadFrom, fields, PageArrived, TargetInv,
     SlotInv, Alive, Reading
<1>3. TextReadOnly'
  BY IpcAssumption DEF IInv, PagesSound, TypeOK, ReadFrom, TextReadOnly, fields
<1>4. SlotInv'
  BY IpcAssumption DEF IInv, PagesSound, TypeOK, ReadFrom, SlotInv, fields
<1>5. MessageInv'
  BY IpcAssumption DEF IInv, PagesSound, TypeOK, ReadFrom, MessageInv, fields, Sending,
     Reading, SlotInv
<1>6. TargetInv'
  BY IpcAssumption DEF IInv, PagesSound, TypeOK, ReadFrom, TargetInv, fields, Reading, SlotInv
<1>7. QED
  BY <1>1, <1>2, <1>3, <1>4, <1>5, <1>6 DEF IInv, PagesSound

(* The read of env_ipc_perm keeps the invariant. *)
LEMMA ReadPermStep ==
  ASSUME IInv, NEW e \in Envs, ReadPerm(e)
  PROVE  IInv'
<1>1. TypeOK'
  BY IpcAssumption, AddressAssumption DEF IInv, PagesSound, TypeOK, ReadPerm, fields, Steps,
     SlotInv, MessageInv
<1>2. PageArrived'
  BY IpcAssumption DEF IInv, PagesSound, TypeOK, ReadPerm, fields, PageArrived, TargetInv,
     SlotInv, Alive, Reading
<1>3. TextReadOnly'
  BY IpcAssumption DEF IInv, PagesSound, TypeOK, ReadPerm, TextReadOnly, fields
<1>4. SlotInv'
  BY IpcAssumption DEF IInv, PagesSound, TypeOK, ReadPerm, SlotInv, fields
<1>5. MessageInv'
  BY IpcAssumption DEF IInv, PagesSound, TypeOK, ReadPerm, MessageInv, fields, Sending,
     Reading, SlotInv
<1>6. TargetInv'
  BY IpcAssumption DEF IInv, PagesSound, TypeOK, ReadPerm, TargetInv, fields, Reading, SlotInv
<1>7. QED
  BY <1>1, <1>2, <1>3, <1>4, <1>5, <1>6 DEF IInv, PagesSound

(* The read of env_ipc_value keeps the invariant. *)
LEMMA ReadValueStep ==
  ASSUME IInv, NEW e \in Envs, ReadValue(e)
  PROVE  IInv'
<1>1. TypeOK'
  BY IpcAssumption, AddressAssumption DEF IInv, PagesSound, TypeOK, ReadValue, fields,
     Steps, SlotInv, MessageInv, Results, Reading
<1>2. PageArrived'
  BY IpcAssumption DEF IInv, PagesSound, TypeOK, ReadValue, fields, PageArrived, TargetInv,
     SlotInv, Alive, Reading
<1>3. TextReadOnly'
  BY IpcAssumption DEF IInv, PagesSound, TypeOK, ReadValue, TextReadOnly, fields
<1>4. SlotInv'
  BY IpcAssumption DEF IInv, PagesSound, TypeOK, ReadValue, SlotInv, fields
<1>5. MessageInv'
  BY IpcAssumption DEF IInv, PagesSound, TypeOK, ReadValue, MessageInv, fields, Sending,
     Reading, SlotInv
<1>6. TargetInv'
  BY IpcAssumption DEF IInv, PagesSound, TypeOK, ReadValue, TargetInv, fields, Reading, SlotInv
<1>7. QED
  BY <1>1, <1>2, <1>3, <1>4, <1>5, <1>6 DEF IInv, PagesSound

(* A receive that fails keeps the invariant. *)
LEMMA RecvFailsStep ==
  ASSUME IInv, NEW e \in Envs, NEW d \in Targets, RecvFails(e, d)
  PROVE  IInv'
<1>1. TypeOK'
  BY IpcAssumption, AddressAssumption DEF IInv, PagesSound, TypeOK, RecvFails, fields,
     Steps, SlotInv, MessageInv, NoResult, Results
<1>2. PageArrived'
  BY IpcAssumption DEF IInv, PagesSound, TypeOK, RecvFails, fields, PageArrived, TargetInv,
     SlotInv, Alive, Reading
<1>3. TextReadOnly'
  BY IpcAssumption DEF IInv, PagesSound, TypeOK, RecvFails, TextReadOnly, fields
<1>4. SlotInv'
  BY IpcAssumption DEF IInv, PagesSound, TypeOK, RecvFails, SlotInv, fields
<1>5. MessageInv'
  BY IpcAssumption DEF IInv, PagesSound, TypeOK, RecvFails, MessageInv, fields, Sending,
     Reading, SlotInv
<1>6. TargetInv'
  BY IpcAssumption DEF IInv, PagesSound, TypeOK, RecvFails, TargetInv, fields, Reading, SlotInv
<1>7. QED
  BY <1>1, <1>2, <1>3, <1>4, <1>5, <1>6 DEF IInv, PagesSound

(* sys_ipc_recv() keeps the invariant. *)
LEMMA RecvStep ==
  ASSUME IInv, NEW e \in Envs, NEW d \in Targets, sys_ipc_recv(e, d)
  PROVE  IInv'
<1>1. TypeOK'
  BY IpcAssumption, AddressAssumption DEF IInv, PagesSound, TypeOK, sys_ipc_recv, fields,
     Steps, SlotInv, MessageInv
<1>2. PageArrived'
  BY IpcAssumption DEF IInv, PagesSound, TypeOK, sys_ipc_recv, fields, PageArrived,
     TargetInv, SlotInv, Alive, Reading
<1>3. TextReadOnly'
  BY IpcAssumption DEF IInv, PagesSound, TypeOK, sys_ipc_recv, TextReadOnly, fields
<1>4. SlotInv'
  BY IpcAssumption DEF IInv, PagesSound, TypeOK, sys_ipc_recv, SlotInv, fields
<1>5. MessageInv'
  BY IpcAssumption DEF IInv, PagesSound, TypeOK, sys_ipc_recv, MessageInv, fields, Sending,
     Reading, SlotInv
<1>6. TargetInv'
  BY IpcAssumption DEF IInv, PagesSound, TypeOK, sys_ipc_recv, TargetInv, fields, Reading,
     SlotInv
<1>7. QED
  BY <1>1, <1>2, <1>3, <1>4, <1>5, <1>6 DEF IInv, PagesSound

(* The present occupant of a slot has an id. *)
LEMMA IdIsId ==
  ASSUME TypeOK, SlotInv, NEW e \in Envs
  PROVE  Id(e) \in Ids
<1>1. gen[e] \in Nat /\ MAXGEN[e] \in Nat /\ gen[e] <= MAXGEN[e] /\ gen[e] >= 1
  BY IpcAssumption DEF TypeOK, SlotInv
<1>2. gen[e] \in 1..MAXGEN[e]
  BY <1>1
<1>3. QED
  BY <1>2, IdFacts DEF Id

(* What the sender offers, if the tests on it succeed, is a page, and not   *)
(* writable if it is Text.                                                  *)
LEMMA ShipmentFacts ==
  ASSUME TypeOK, TextReadOnly, NEW e \in Envs, WithPage(e), PageOk(e)
  PROVE  /\ Shipment(e) \in Mappings
         /\ Shipment(e).page = Text => ~Shipment(e).w
         /\ Shipment(e).w <=> req[e].perm = "w"
         /\ req[e].perm \in Perms
<1> DEFINE a == PageAt(req[e].pg)
<1>1. a \in VAs
  BY DEF TypeOK, WithPage, PageAt, Addrs, VAs
<1>2. map[e][a] \in [page : Pages, w : BOOLEAN]
  BY <1>1 DEF TypeOK, PageOk, Mappings
<1>3. map[e][a].page = Text => ~map[e][a].w
  BY <1>1 DEF TextReadOnly
<1>4. QED
  BY <1>2, <1>3 DEF Shipment, PageOk, Mappings

(* The effect of page_insert() on the mappings. *)
LEMMA Inserted ==
  ASSUME NEW m \in [Envs -> [VAs -> Mappings]], NEW n,
         NEW r \in Envs, NEW v \in VAs, NEW p \in Mappings, n = [m EXCEPT ![r][v] = p]
  PROVE  /\ n \in [Envs -> [VAs -> Mappings]]
         /\ \A f \in Envs, a \in VAs : n[f][a] = IF f = r /\ a = v THEN p ELSE m[f][a]
OBVIOUS

(***************************************************************************)
(* sys_ipc_try_send() keeps the invariant: the receiver is not the sender, *)
(* which is running, and both slots are changed.                           *)
(***************************************************************************)
LEMMA TrySendStep ==
  ASSUME IInv, NEW e \in Envs, sys_ipc_try_send(e)
  PROVE  IInv'
<1> DEFINE r == req[e].to[1]
<1> USE DEF Trying
<1>1. /\ req[e].to \in Ids /\ r \in Envs /\ req[e].value \in Values
      /\ env_status[e] = "RUNNABLE" /\ pc[e] = "try" /\ env_ipc_recving[r] /\ r # e
      /\ env_status[r] = "NOT_RUNNABLE"
  <2>1. req[e].to \in Ids /\ r \in Envs /\ req[e].value \in Values
    BY IdFacts DEF IInv, MessageInv, Sending, sys_ipc_try_send
  <2>2. QED
    BY <2>1 DEF IInv, PagesSound, TypeOK, SlotInv, sys_ipc_try_send, Exists, Alive
<1>2. Id(e) \in Ids
  BY IdIsId DEF IInv, PagesSound
<1>3. /\ env_ipc_recving' = [env_ipc_recving EXCEPT ![r] = FALSE]
      /\ env_ipc_from' = [env_ipc_from EXCEPT ![r] = Id(e)]
      /\ env_ipc_value' = [env_ipc_value EXCEPT ![r] = req[e].value]
      /\ env_status' = [env_status EXCEPT ![r] = "RUNNABLE"]
      /\ pc' = [pc EXCEPT ![e] = "idle", ![r] = "from"]
      /\ req' = [req EXCEPT ![e] = NoReq]
      /\ UNCHANGED <<gen, env_ipc_dstva, from_store, perm_store, result, nsend>>
  BY DEF sys_ipc_try_send
<1>4. \/ /\ env_ipc_dstva[r] \in VAs
         /\ Shipment(e) \in Mappings
         /\ Shipment(e).page = Text => ~Shipment(e).w
         /\ Shipment(e).w <=> req[e].perm = "w"
         /\ req[e].perm \in Perms
         /\ map' \in [Envs -> [VAs -> Mappings]]
         /\ \A f \in Envs, a \in VAs : map'[f][a] =
               IF f = r /\ a = env_ipc_dstva[r] THEN Shipment(e) ELSE map[f][a]
         /\ env_ipc_perm' = [env_ipc_perm EXCEPT ![r] = req[e].perm]
         /\ shipped' = [shipped EXCEPT ![r] = Shipment(e)]
      \/ /\ shipped' = [shipped EXCEPT ![r] = NoMap]
         /\ UNCHANGED <<map, env_ipc_perm>>
  <2>1. CASE Transfers(e, r)
    <3>1. WithPage(e) /\ PageOk(e) /\ env_ipc_dstva[r] \in VAs
      BY <1>1, <2>1 DEF sys_ipc_try_send, Transfers, IInv, PagesSound, TypeOK, Addrs
    <3>2. /\ map' = [map EXCEPT ![r][env_ipc_dstva[r]] = Shipment(e)]
          /\ env_ipc_perm' = [env_ipc_perm EXCEPT ![r] = req[e].perm]
          /\ shipped' = [shipped EXCEPT ![r] = Shipment(e)]
      BY <2>1 DEF sys_ipc_try_send
    <3>3. /\ Shipment(e) \in Mappings
          /\ Shipment(e).page = Text => ~Shipment(e).w
          /\ Shipment(e).w <=> req[e].perm = "w"
          /\ req[e].perm \in Perms
      BY <3>1, ShipmentFacts DEF IInv, PagesSound
    <3>4. map \in [Envs -> [VAs -> Mappings]]
      BY DEF IInv, PagesSound, TypeOK
    <3>5. /\ map' \in [Envs -> [VAs -> Mappings]]
          /\ \A f \in Envs, a \in VAs : map'[f][a] =
                IF f = r /\ a = env_ipc_dstva[r] THEN Shipment(e) ELSE map[f][a]
      BY <1>1, <3>1, <3>2, <3>3, <3>4, Inserted
    <3>6. QED
      BY <3>1, <3>2, <3>3, <3>5
  <2>2. CASE ~Transfers(e, r)
    BY <2>2 DEF sys_ipc_try_send
  <2>3. QED
    BY <2>1, <2>2
<1>5. TypeOK'
  <2>1. /\ map' \in [Envs -> [VAs -> Mappings]]
        /\ env_ipc_perm' \in [Envs -> Perms \cup {NULL}]
        /\ shipped' \in [Envs -> Mappings]
    <3>1. NoMap \in Mappings
      BY DEF Mappings
    <3>2. /\ map \in [Envs -> [VAs -> Mappings]]
          /\ env_ipc_perm \in [Envs -> Perms \cup {NULL}]
          /\ shipped \in [Envs -> Mappings]
      BY DEF IInv, PagesSound, TypeOK
    <3>3. QED
      BY <1>1, <1>4, <3>1, <3>2
  <2>2. QED
    BY <1>1, <1>2, <1>3, <2>1 DEF IInv, PagesSound, TypeOK, Steps, NoReq, Addrs
<1>6. PageArrived'
  <2>1. ASSUME NEW f \in Envs, f # r, Alive(f)', pc'[f] \in Reading, shipped'[f] # NoMap
        PROVE  /\ map'[f][env_ipc_dstva'[f]] = shipped'[f]
               /\ env_ipc_perm'[f] = IF shipped'[f].w THEN "w" ELSE "r"
    BY <1>1, <1>3, <1>4, <2>1 DEF IInv, PagesSound, TypeOK, PageArrived, TargetInv, Alive,
       Reading
  <2>2. ASSUME shipped'[r] # NoMap
        PROVE  /\ map'[r][env_ipc_dstva'[r]] = shipped'[r]
               /\ env_ipc_perm'[r] = IF shipped'[r].w THEN "w" ELSE "r"
    BY <1>1, <1>3, <1>4, <2>2 DEF IInv, PagesSound, TypeOK, Perms
  <2>3. QED
    BY <2>1, <2>2 DEF PageArrived, Reading
<1>7. TextReadOnly'
  <2>1. SUFFICES ASSUME NEW f \in Envs, NEW a \in VAs, map'[f][a].page = Text
                 PROVE  ~map'[f][a].w
    BY DEF TextReadOnly
  <2>2. map'[f][a] = map[f][a] \/ (map'[f][a] = Shipment(e) /\ (Shipment(e).page = Text => ~Shipment(e).w))
    BY <1>1, <1>4 DEF IInv, PagesSound, TypeOK
  <2>3. QED
    BY <2>1, <2>2 DEF IInv, PagesSound, TextReadOnly
<1>8. SlotInv'
  BY <1>1, <1>3 DEF IInv, PagesSound, TypeOK, SlotInv
<1>9. MessageInv'
  BY <1>1, <1>2, <1>3 DEF IInv, PagesSound, TypeOK, MessageInv, Sending, Reading
<1>10. TargetInv'
  BY <1>1, <1>3, <1>4 DEF IInv, PagesSound, TypeOK, TargetInv, Reading
<1>11. QED
  BY <1>5, <1>6, <1>7, <1>8, <1>9, <1>10 DEF IInv, PagesSound

(* The initial states satisfy the invariant. *)
LEMMA InitInv == Init => IInv
<1> SUFFICES ASSUME Init PROVE IInv
  OBVIOUS
<1>1. \A e \in Envs : /\ <<e, 1>> \in Ids
                      /\ Loaded(<<e, 1>>) \in [VAs -> Mappings]
                      /\ \A a \in VAs : Loaded(<<e, 1>>)[a].page = Text => ~Loaded(<<e, 1>>)[a].w
  <2>1. \A e \in Envs : 1 \in 1..MAXGEN[e]
    BY IpcAssumption
  <2>2. QED
    BY <2>1, IdFacts, LoadedFacts
<1>2. TypeOK
  BY <1>1, IpcAssumption DEF Init, TypeOK, Steps, Addrs, VAs, NoReq, NoResult, Results, Mappings
<1>3. PageArrived /\ TextReadOnly
  BY <1>1 DEF Init, PageArrived, TextReadOnly
<1>4. SlotInv /\ MessageInv /\ TargetInv
  BY DEF Init, SlotInv, MessageInv, TargetInv, Sending, Reading, NoResult
<1>5. QED
  BY <1>2, <1>3, <1>4 DEF IInv, PagesSound

(* Every step of Next keeps the invariant. *)
LEMMA NextInv ==
  ASSUME IInv, [Next]_ipcVars
  PROVE  IInv'
<1>1. CASE Next
  <2>1. PICK e \in Envs :
            \/ env_alloc(e)
            \/ env_free(e)
            \/ \E to \in Ids, o \in Offers : ipc_send(e, to, o[1], o[2])
            \/ \E d \in Targets : RecvFails(e, d) \/ sys_ipc_recv(e, d)
            \/ Library(e)
    BY <1>1 DEF Next
  <2>2. QED
    BY <2>1, AllocStep, FreeStep, SendStep, RecvFailsStep, RecvStep, TrySendStep,
       NotReceivingStep,
       YieldStep, FailStep, ReadFromStep, ReadPermStep, ReadValueStep DEF Library
<1>2. CASE UNCHANGED ipcVars
  BY <1>2 DEF ipcVars, fields, IInv, PagesSound, TypeOK, PageArrived, TextReadOnly, SlotInv,
     MessageInv, TargetInv, Alive
<1>3. QED
  BY <1>1, <1>2

(* The inductive invariant holds in every state of the specification. *)
THEOREM IpcInvariant == Spec => []IInv
BY InitInv, NextInv, PTL DEF Spec

(***************************************************************************)
(* In every state the fields have their types, a page that came with a     *)
(* message is where the receiver wanted it, with the permission it is      *)
(* told, and a page that was read-only everywhere still is.                *)
(***************************************************************************)
THEOREM PagesAreSound == Spec => []PagesSound
BY IpcInvariant, PTL DEF IInv

-----------------------------------------------------------------------------
(* The refinement. *)

(* A slot, and a box, that a step leaves alone. *)
SameSlot(f) ==
    /\ env_status'[f] = env_status[f] /\ pc'[f] = pc[f]
    /\ req'[f] = req[f] /\ result'[f] = result[f]
    /\ env_ipc_recving'[f] = env_ipc_recving[f]
    /\ env_ipc_from'[f] = env_ipc_from[f] /\ env_ipc_value'[f] = env_ipc_value[f]
SameBox(i) ==
    /\ BoxReq'[i] = BoxReq[i]
    /\ i \in BoxWaiting' <=> i \in BoxWaiting
    /\ BoxInbox'[i] = BoxInbox[i]
    /\ BoxOut'[i] = BoxOut[i]

(* The boxes of the occupant of a slot, before and after a step. *)
BoxesOf(e) ==
    /\ BoxReq[Id(e)] = IF Alive(e) /\ pc[e] \in Sending
                       THEN [to |-> req[e].to, value |-> req[e].value] ELSE NULL
    /\ Id(e) \in BoxWaiting <=> Alive(e) /\ env_ipc_recving[e]
    /\ BoxInbox[Id(e)] = IF Alive(e) /\ pc[e] \in Reading
                         THEN [from |-> env_ipc_from[e], value |-> env_ipc_value[e]] ELSE NULL
    /\ BoxOut[Id(e)] = IF Alive(e) /\ result[e].from # NULL
                       THEN [from |-> result[e].from, value |-> result[e].value] ELSE NULL
LEMMA AtId ==
  ASSUME NEW e \in Envs, Id(e) \in Ids
  PROVE  BoxesOf(e)
BY DEF BoxesOf, BoxReq, BoxWaiting, BoxInbox, BoxOut, Present, Id, Sending, Reading
LEMMA AtIdNext ==
  ASSUME NEW e \in Envs, Id(e)' \in Ids
  PROVE  BoxesOf(e)'
BY DEF BoxesOf, BoxReq, BoxWaiting, BoxInbox, BoxOut, Present, Id, Sending, Reading

(* The boxes of an id that is not the present occupant of its slot. *)
LEMMA AbsentBox ==
  ASSUME NEW i \in Ids, ~Present(i)
  PROVE  BoxReq[i] = NULL /\ i \notin BoxWaiting /\ BoxInbox[i] = NULL /\ BoxOut[i] = NULL
BY DEF BoxReq, BoxWaiting, BoxInbox, BoxOut

(* A step of one slot, whose occupant stays the same, leaves the boxes of   *)
(* all others alone.                                                        *)
LEMMA OtherBoxes ==
  ASSUME TypeOK, NEW e \in Envs, gen' = gen, \A f \in Envs \ {e} : SameSlot(f)
  PROVE  \A i \in Ids \ {Id(e)} : SameBox(i)
<1> SUFFICES ASSUME NEW i \in Ids, i # Id(e) PROVE SameBox(i)
  OBVIOUS
<1>1. i[1] \in Envs /\ i = <<i[1], i[2]>>
  BY IdFacts
<1>2. CASE i[1] = e
  <2>1. ~Present(i) /\ ~Present(i)'
    BY <1>1, <1>2 DEF Present, Id
  <2>2. QED
    BY <2>1, AbsentBox DEF SameBox, BoxReq, BoxWaiting, BoxInbox, BoxOut
<1>3. CASE i[1] # e
  BY <1>1, <1>3 DEF SameBox, SameSlot, BoxReq, BoxWaiting, BoxInbox, BoxOut, Present, Alive
<1>4. QED
  BY <1>2, <1>3

(* The boxes as functions, when a step changes those of one id only. *)
LEMMA OneBox ==
  ASSUME NEW j \in Ids, \A i \in Ids \ {j} : SameBox(i)
  PROVE  /\ BoxReq' = [BoxReq EXCEPT ![j] = BoxReq'[j]]
         /\ BoxInbox' = [BoxInbox EXCEPT ![j] = BoxInbox'[j]]
         /\ BoxOut' = [BoxOut EXCEPT ![j] = BoxOut'[j]]
         /\ BoxWaiting' = IF j \in BoxWaiting' THEN BoxWaiting \cup {j} ELSE BoxWaiting \ {j}
         /\ BoxReq'[j] = BoxReq[j] => BoxReq' = BoxReq
         /\ BoxInbox'[j] = BoxInbox[j] => BoxInbox' = BoxInbox
         /\ BoxOut'[j] = BoxOut[j] => BoxOut' = BoxOut
         /\ (j \in BoxWaiting' <=> j \in BoxWaiting) => BoxWaiting' = BoxWaiting
<1>1. /\ BoxReq = [i \in Ids |-> BoxReq[i]] /\ BoxReq' = [i \in Ids |-> BoxReq'[i]]
      /\ BoxInbox = [i \in Ids |-> BoxInbox[i]] /\ BoxInbox' = [i \in Ids |-> BoxInbox'[i]]
      /\ BoxOut = [i \in Ids |-> BoxOut[i]] /\ BoxOut' = [i \in Ids |-> BoxOut'[i]]
      /\ BoxWaiting \subseteq Ids /\ BoxWaiting' \subseteq Ids
  BY DEF BoxReq, BoxInbox, BoxOut, BoxWaiting
<1>2. /\ BoxReq' = [BoxReq EXCEPT ![j] = BoxReq'[j]]
      /\ BoxInbox' = [BoxInbox EXCEPT ![j] = BoxInbox'[j]]
      /\ BoxOut' = [BoxOut EXCEPT ![j] = BoxOut'[j]]
  BY <1>1 DEF SameBox
<1>3. /\ BoxWaiting' = IF j \in BoxWaiting' THEN BoxWaiting \cup {j} ELSE BoxWaiting \ {j}
      /\ (j \in BoxWaiting' <=> j \in BoxWaiting) => BoxWaiting' = BoxWaiting
  BY <1>1 DEF SameBox
<1>4. QED
  BY <1>1, <1>2, <1>3 DEF SameBox

(* ipc_send() posts a message. *)
LEMMA SendPosts ==
  ASSUME IInv, NEW e \in Envs, NEW to \in Ids, NEW o \in Offers, ipc_send(e, to, o[1], o[2])
  PROVE  \E v \in Values : Box!Post(Id(e), to, v)
<1>1. Id(e) \in Ids /\ Id(e)' = Id(e)
  BY IdIsId DEF IInv, PagesSound, Id, ipc_send
<1>2. gen' = gen /\ \A f \in Envs \ {e} : SameSlot(f)
  BY DEF IInv, PagesSound, TypeOK, SameSlot, fields, ipc_send
<1>3. \A i \in Ids \ {Id(e)} : SameBox(i)
  BY <1>2, OtherBoxes DEF IInv, PagesSound
<1>4. BoxesOf(e) /\ BoxesOf(e)'
  BY <1>1, AtId, AtIdNext
<1>5. /\ BoxReq[Id(e)] = NULL
      /\ BoxReq'[Id(e)] = [to |-> to, value |-> nsend + 1]
      /\ nsend + 1 \in Values
      /\ (Id(e) \in BoxWaiting' <=> Id(e) \in BoxWaiting)
      /\ BoxInbox'[Id(e)] = BoxInbox[Id(e)]
      /\ BoxOut'[Id(e)] = BoxOut[Id(e)]
  BY <1>1, <1>4, IpcAssumption DEF BoxesOf, IInv, PagesSound, TypeOK, SlotInv, MessageInv,
     Sending, Reading, fields, Alive, ipc_send, Values
<1>6. QED
  BY <1>1, <1>3, <1>5, OneBox DEF Box!Post

(* A send that fails is refused. *)
LEMMA FailRefuses ==
  ASSUME IInv, NEW e \in Envs, SendFails(e)
  PROVE  Box!Refuse(Id(e))
<1>1. Id(e) \in Ids /\ Id(e)' = Id(e)
  BY IdIsId DEF IInv, PagesSound, Id, SendFails, Trying
<1>2. gen' = gen /\ \A f \in Envs \ {e} : SameSlot(f)
  BY DEF IInv, PagesSound, TypeOK, SameSlot, fields, SendFails, Trying
<1>3. \A i \in Ids \ {Id(e)} : SameBox(i)
  BY <1>2, OtherBoxes DEF IInv, PagesSound
<1>4. BoxesOf(e) /\ BoxesOf(e)'
  BY <1>1, AtId, AtIdNext
<1>5. /\ BoxReq[Id(e)] # NULL
      /\ BoxReq'[Id(e)] = NULL
      /\ (Id(e) \in BoxWaiting' <=> Id(e) \in BoxWaiting)
      /\ BoxInbox'[Id(e)] = BoxInbox[Id(e)]
      /\ BoxOut'[Id(e)] = BoxOut[Id(e)]
  BY <1>1, <1>4, IpcAssumption DEF BoxesOf, IInv, PagesSound, TypeOK, SlotInv, MessageInv,
     Sending, Reading, fields, Alive, SendFails, Trying, Values
<1>6. QED
  BY <1>1, <1>3, <1>5, OneBox DEF Box!Refuse

(* sys_ipc_recv() waits. *)
LEMMA RecvWaits ==
  ASSUME IInv, NEW e \in Envs, NEW d \in Targets, sys_ipc_recv(e, d)
  PROVE  Box!Wait(Id(e))
<1>1. Id(e) \in Ids /\ Id(e)' = Id(e)
  BY IdIsId DEF IInv, PagesSound, Id, sys_ipc_recv
<1>2. gen' = gen /\ \A f \in Envs \ {e} : SameSlot(f)
  BY DEF IInv, PagesSound, TypeOK, SameSlot, fields, sys_ipc_recv
<1>3. \A i \in Ids \ {Id(e)} : SameBox(i)
  BY <1>2, OtherBoxes DEF IInv, PagesSound
<1>4. BoxesOf(e) /\ BoxesOf(e)'
  BY <1>1, AtId, AtIdNext
<1>5. /\ Id(e) \notin BoxWaiting /\ Id(e) \in BoxWaiting'
      /\ BoxInbox[Id(e)] = NULL
      /\ BoxReq'[Id(e)] = BoxReq[Id(e)]
      /\ BoxInbox'[Id(e)] = BoxInbox[Id(e)]
      /\ BoxOut'[Id(e)] = BoxOut[Id(e)]
  BY <1>1, <1>4, IpcAssumption DEF BoxesOf, IInv, PagesSound, TypeOK, SlotInv, MessageInv,
     Sending, Reading, fields, Alive, sys_ipc_recv
<1>6. QED
  BY <1>1, <1>3, <1>5, OneBox DEF Box!Wait

(* A receive that fails returns an error. *)
LEMMA RecvErrs ==
  ASSUME IInv, NEW e \in Envs, NEW d \in Targets, RecvFails(e, d)
  PROVE  Box!NoWait(Id(e))
<1>1. Id(e) \in Ids /\ Id(e)' = Id(e)
  BY IdIsId DEF IInv, PagesSound, Id, RecvFails
<1>2. gen' = gen /\ \A f \in Envs \ {e} : SameSlot(f)
  BY DEF IInv, PagesSound, TypeOK, SameSlot, fields, RecvFails
<1>3. \A i \in Ids \ {Id(e)} : SameBox(i)
  BY <1>2, OtherBoxes DEF IInv, PagesSound
<1>4. BoxesOf(e) /\ BoxesOf(e)'
  BY <1>1, AtId, AtIdNext
<1>5. /\ BoxOut'[Id(e)] = NULL
      /\ BoxReq'[Id(e)] = BoxReq[Id(e)]
      /\ (Id(e) \in BoxWaiting' <=> Id(e) \in BoxWaiting)
      /\ BoxInbox'[Id(e)] = BoxInbox[Id(e)]
  BY <1>1, <1>4, IpcAssumption DEF BoxesOf, IInv, PagesSound, TypeOK, SlotInv, MessageInv,
     Sending, Reading, fields, Alive, RecvFails, NoResult
<1>6. QED
  BY <1>1, <1>3, <1>5, OneBox DEF Box!NoWait

(* The last read of ipc_recv() takes the message. *)
LEMMA ValueTakes ==
  ASSUME IInv, NEW e \in Envs, ReadValue(e)
  PROVE  Box!Take(Id(e))
<1>1. Id(e) \in Ids /\ Id(e)' = Id(e)
  BY IdIsId DEF IInv, PagesSound, Id, ReadValue
<1>2. gen' = gen /\ \A f \in Envs \ {e} : SameSlot(f)
  BY DEF IInv, PagesSound, TypeOK, SameSlot, fields, ReadValue
<1>3. \A i \in Ids \ {Id(e)} : SameBox(i)
  BY <1>2, OtherBoxes DEF IInv, PagesSound
<1>4. BoxesOf(e) /\ BoxesOf(e)'
  BY <1>1, AtId, AtIdNext
<1>5. /\ BoxInbox[Id(e)] # NULL
      /\ BoxInbox'[Id(e)] = NULL
      /\ BoxOut'[Id(e)] = BoxInbox[Id(e)]
      /\ BoxReq'[Id(e)] = BoxReq[Id(e)]
      /\ (Id(e) \in BoxWaiting' <=> Id(e) \in BoxWaiting)
  BY <1>1, <1>4, IpcAssumption DEF BoxesOf, IInv, PagesSound, TypeOK, SlotInv, MessageInv,
     Sending, Reading, fields, Alive, ReadValue, Values
<1>6. QED
  BY <1>1, <1>3, <1>5, OneBox DEF Box!Take

(* The boxes of an environment that dies are emptied. *)
LEMMA FreeGoes ==
  ASSUME IInv, NEW e \in Envs, env_free(e)
  PROVE  Box!Gone(Id(e))
<1>1. Id(e) \in Ids /\ Id(e)' = Id(e)
  BY IdIsId DEF IInv, PagesSound, Id, env_free
<1>2. gen' = gen /\ \A f \in Envs \ {e} : SameSlot(f)
  BY DEF IInv, PagesSound, TypeOK, SameSlot, fields, env_free
<1>3. \A i \in Ids \ {Id(e)} : SameBox(i)
  BY <1>2, OtherBoxes DEF IInv, PagesSound
<1>4. BoxesOf(e) /\ BoxesOf(e)'
  BY <1>1, AtId, AtIdNext
<1>5. /\ BoxReq'[Id(e)] = NULL
      /\ BoxInbox'[Id(e)] = NULL
      /\ BoxOut'[Id(e)] = NULL
      /\ Id(e) \notin BoxWaiting'
  BY <1>1, <1>4, IpcAssumption DEF BoxesOf, IInv, PagesSound, TypeOK, SlotInv, MessageInv,
     Sending, Reading, fields, Alive, env_free, NoResult
<1>6. QED
  BY <1>1, <1>3, <1>5, OneBox DEF Box!Gone

(* A retry, and the first two reads, change no box. *)
LEMMA RetryStutters ==
  ASSUME IInv, NEW e \in Envs, NotReceiving(e) \/ sys_yield(e) \/ ReadFrom(e) \/ ReadPerm(e)
  PROVE  UNCHANGED Box!boxVars
<1>1. Id(e) \in Ids /\ Id(e)' = Id(e)
  BY IdIsId DEF IInv, PagesSound, Id, NotReceiving, sys_yield, ReadFrom, ReadPerm, Trying
<1>2. gen' = gen /\ \A f \in Envs \ {e} : SameSlot(f)
  BY DEF IInv, PagesSound, TypeOK, SameSlot, fields, NotReceiving, sys_yield, ReadFrom,
     ReadPerm, Trying
<1>3. \A i \in Ids \ {Id(e)} : SameBox(i)
  BY <1>2, OtherBoxes DEF IInv, PagesSound
<1>4. BoxesOf(e) /\ BoxesOf(e)'
  BY <1>1, AtId, AtIdNext
<1>5. /\ BoxReq'[Id(e)] = BoxReq[Id(e)]
      /\ (Id(e) \in BoxWaiting' <=> Id(e) \in BoxWaiting)
      /\ BoxInbox'[Id(e)] = BoxInbox[Id(e)]
      /\ BoxOut'[Id(e)] = BoxOut[Id(e)]
  BY <1>1, <1>4, IpcAssumption DEF BoxesOf, IInv, PagesSound, TypeOK, SlotInv, MessageInv,
     Sending, Reading, fields, Alive, NotReceiving, sys_yield, ReadFrom, ReadPerm, Trying
<1>6. QED
  BY <1>1, <1>3, <1>5, OneBox DEF Box!boxVars

(* A new occupant of a slot has empty boxes, and so had the id before. *)
LEMMA AllocStutters ==
  ASSUME IInv, NEW e \in Envs, env_alloc(e)
  PROVE  UNCHANGED Box!boxVars
<1>1. \A i \in Ids : SameBox(i)
  <2> SUFFICES ASSUME NEW i \in Ids PROVE SameBox(i)
    OBVIOUS
  <2>1. i[1] \in Envs /\ i[2] \in Nat
    BY IdFacts, IpcAssumption
  <2>2. CASE i[1] # e
    BY <2>1, <2>2 DEF SameBox, BoxReq, BoxWaiting, BoxInbox, BoxOut, Present, Alive, env_alloc,
       IInv, PagesSound, TypeOK
  <2>3. CASE i[1] = e
    <3>1. ~Present(i)
      BY <2>3 DEF Present, Alive, env_alloc
    <3>2. /\ pc'[e] = "idle" /\ result'[e].from = NULL /\ ~env_ipc_recving'[e]
      BY DEF env_alloc, IInv, PagesSound, TypeOK, SlotInv, NoResult
    <3>3. BoxReq'[i] = NULL /\ i \notin BoxWaiting' /\ BoxInbox'[i] = NULL /\ BoxOut'[i] = NULL
      BY <2>3, <3>2 DEF BoxReq, BoxWaiting, BoxInbox, BoxOut
    <3>4. QED
      BY <3>1, <3>3, AbsentBox DEF SameBox
  <2>4. QED
    BY <2>2, <2>3
<1>2. BoxReq' = BoxReq /\ BoxInbox' = BoxInbox /\ BoxOut' = BoxOut
  BY <1>1 DEF SameBox, BoxReq, BoxInbox, BoxOut
<1>3. BoxWaiting' = BoxWaiting
  <2>1. BoxWaiting \subseteq Ids /\ BoxWaiting' \subseteq Ids
    BY DEF BoxWaiting
  <2>2. QED
    BY <1>1, <2>1 DEF SameBox
<1>4. QED
  BY <1>2, <1>3 DEF Box!boxVars

(***************************************************************************)
(* A try that succeeds puts the message into the box of the environment    *)
(* whose id the sender gave.                                               *)
(***************************************************************************)
LEMMA TrySendPuts ==
  ASSUME IInv, NEW e \in Envs, sys_ipc_try_send(e)
  PROVE  Box!Put(Id(e))
<1>j. PICK j : j = Id(e)
  OBVIOUS
<1>k. PICK k : k = req[e].to
  OBVIOUS
<1>r. PICK r : r = k[1]
  OBVIOUS
<1>1. /\ k \in Ids /\ r \in Envs /\ req[e].value \in Values /\ k = Id(r)
      /\ env_status[e] = "RUNNABLE" /\ pc[e] = "try" /\ env_ipc_recving[r] /\ r # e
      /\ env_status[r] = "NOT_RUNNABLE" /\ pc[r] = "recv"
  <2>1. k \in Ids /\ r \in Envs /\ req[e].value \in Values /\ k = <<k[1], k[2]>>
    BY <1>k, <1>r, IdFacts DEF IInv, MessageInv, Sending, sys_ipc_try_send, Trying
  <2>2. QED
    BY <1>k, <1>r, <2>1 DEF IInv, PagesSound, TypeOK, SlotInv, sys_ipc_try_send, Trying,
       Exists, Alive, Id
<1>2. j \in Ids /\ j # k /\ Id(e)' = j /\ Id(r)' = k
  <2>1. j \in Ids
    BY <1>j, IdIsId DEF IInv, PagesSound
  <2>2. gen' = gen
    BY DEF sys_ipc_try_send
  <2>3. QED
    BY <1>j, <1>1, <2>1, <2>2 DEF Id
<1>3. /\ gen' = gen /\ \A f \in Envs \ {e, r} : SameSlot(f)
      /\ env_ipc_from'[r] = j /\ env_ipc_value'[r] = req[e].value /\ ~env_ipc_recving'[r]
      /\ pc'[r] = "from" /\ pc'[e] = "idle" /\ Alive(e)' /\ Alive(r)'
      /\ result' = result /\ env_ipc_recving'[e] = env_ipc_recving[e]
      /\ env_ipc_from'[e] = env_ipc_from[e] /\ env_ipc_value'[e] = env_ipc_value[e]
  BY <1>j, <1>k, <1>r, <1>1 DEF IInv, PagesSound, TypeOK, SameSlot, Alive, sys_ipc_try_send
<1>4. BoxesOf(e) /\ BoxesOf(e)' /\ BoxesOf(r) /\ BoxesOf(r)'
  BY <1>j, <1>1, <1>2, AtId, AtIdNext
<1>5. /\ BoxReq[j] = [to |-> k, value |-> req[e].value] /\ BoxReq'[j] = NULL
      /\ BoxInbox'[j] = BoxInbox[j] /\ BoxOut'[j] = BoxOut[j]
      /\ j \in BoxWaiting' <=> j \in BoxWaiting
  BY <1>j, <1>k, <1>1, <1>2, <1>3, <1>4 DEF BoxesOf, Alive, Sending, Reading
<1>6. /\ BoxReq[k] = NULL /\ BoxReq'[k] = NULL
      /\ BoxInbox'[k] = [from |-> j, value |-> req[e].value]
      /\ k \in BoxWaiting /\ k \notin BoxWaiting'
      /\ BoxOut'[k] = BoxOut[k]
  BY <1>j, <1>k, <1>1, <1>2, <1>3, <1>4 DEF BoxesOf, Alive, Sending, Reading
<1>7. \A i \in Ids \ {j, k} : SameBox(i)
  <2> SUFFICES ASSUME NEW i \in Ids, i # j, i # k PROVE SameBox(i)
    OBVIOUS
  <2>1. i[1] \in Envs /\ i = <<i[1], i[2]>>
    BY IdFacts
  <2>2. CASE i[1] \in {e, r}
    <3>1. ~Present(i)
      BY <1>j, <1>1, <2>1, <2>2 DEF Present, Id
    <3>2. ~Present(i)'
      BY <1>j, <1>1, <1>3, <2>1, <2>2 DEF Present, Id
    <3>3. QED
      BY <3>1, <3>2 DEF SameBox, BoxReq, BoxWaiting, BoxInbox, BoxOut
  <2>3. CASE i[1] \notin {e, r}
    BY <1>3, <2>1, <2>3 DEF SameBox, SameSlot, BoxReq, BoxWaiting, BoxInbox, BoxOut,
       Present, Alive
  <2>4. QED
    BY <2>2, <2>3
<1>8. BoxReq[j] # NULL /\ BoxReq[j].to = k /\ BoxReq[j].value = req[e].value
  BY <1>1, <1>5, IpcAssumption DEF Values
<1>9. /\ BoxReq = [i \in Ids |-> BoxReq[i]] /\ BoxReq' = [i \in Ids |-> BoxReq'[i]]
      /\ BoxInbox = [i \in Ids |-> BoxInbox[i]] /\ BoxInbox' = [i \in Ids |-> BoxInbox'[i]]
      /\ BoxOut = [i \in Ids |-> BoxOut[i]] /\ BoxOut' = [i \in Ids |-> BoxOut'[i]]
      /\ BoxWaiting \subseteq Ids /\ BoxWaiting' \subseteq Ids
  BY DEF BoxReq, BoxInbox, BoxOut, BoxWaiting
<1>10. BoxReq' = [BoxReq EXCEPT ![j] = NULL]
  BY <1>1, <1>2, <1>5, <1>6, <1>7, <1>9 DEF SameBox
<1>11. BoxInbox' = [BoxInbox EXCEPT ![k] = [from |-> j, value |-> req[e].value]]
  BY <1>1, <1>2, <1>5, <1>6, <1>7, <1>9 DEF SameBox
<1>12. BoxOut' = BoxOut /\ BoxWaiting' = BoxWaiting \ {k}
  BY <1>1, <1>2, <1>5, <1>6, <1>7, <1>9 DEF SameBox
<1>13. QED
  BY <1>j, <1>6, <1>8, <1>10, <1>11, <1>12 DEF Box!Put

(***************************************************************************)
(* ipc_send() and ipc_recv() implement the rendezvous of Mailbox: every    *)
(* step changes the boxes as one of its actions does, or not at all.       *)
(***************************************************************************)
THEOREM MailboxRefinement == Spec => ImplementsMailbox
<1>1. Init => Box!BoxInit
  BY IdFacts DEF Init, Box!BoxInit, BoxReq, BoxWaiting, BoxInbox, BoxOut, NoResult
<1>2. ASSUME IInv, Next PROVE [Box!BoxNext]_Box!boxVars
  <2>1. PICK e \in Envs :
            \/ env_alloc(e)
            \/ env_free(e)
            \/ \E to \in Ids, o \in Offers : ipc_send(e, to, o[1], o[2])
            \/ \E d \in Targets : RecvFails(e, d) \/ sys_ipc_recv(e, d)
            \/ Library(e)
    BY <1>2 DEF Next
  <2>2. Id(e) \in Ids
    BY <1>2, IdIsId DEF IInv, PagesSound
  <2>3. CASE env_alloc(e) \/ NotReceiving(e) \/ sys_yield(e) \/ ReadFrom(e) \/ ReadPerm(e)
    BY <1>2, <2>3, AllocStutters, RetryStutters
  <2>4. CASE \E to \in Ids, o \in Offers : ipc_send(e, to, o[1], o[2])
    BY <1>2, <2>2, <2>4, SendPosts DEF Box!BoxNext
  <2>5. CASE sys_ipc_try_send(e) \/ SendFails(e)
    BY <1>2, <2>2, <2>5, TrySendPuts, FailRefuses DEF Box!BoxNext
  <2>6. CASE \E d \in Targets : RecvFails(e, d) \/ sys_ipc_recv(e, d)
    BY <1>2, <2>2, <2>6, RecvErrs, RecvWaits DEF Box!BoxNext
  <2>7. CASE ReadValue(e) \/ env_free(e)
    BY <1>2, <2>2, <2>7, ValueTakes, FreeGoes DEF Box!BoxNext
  <2>8. QED
    BY <2>1, <2>3, <2>4, <2>5, <2>6, <2>7 DEF Library
<1>3. UNCHANGED ipcVars => UNCHANGED Box!boxVars
  BY DEF ipcVars, fields, Box!boxVars, BoxReq, BoxWaiting, BoxInbox, BoxOut, Present, Alive
<1>4. IInv /\ [Next]_ipcVars => [Box!BoxNext]_Box!boxVars
  BY <1>2, <1>3
<1>5. QED
  BY <1>1, <1>4, IpcInvariant, PTL DEF Spec, ImplementsMailbox, Box!BoxSpec
=============================================================================
