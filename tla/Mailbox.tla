------------------------------ MODULE Mailbox ------------------------------
(***************************************************************************)
(* What IPC promises: a rendezvous.  A sender has one message pending at a *)
(* time and keeps it until it is put into the box of a receiver that was   *)
(* waiting for one, or until it is told that it cannot be; a receiver that *)
(* has a message takes that message, sender and value together, once.      *)
(***************************************************************************)
CONSTANTS Ids,    \* names of environments, never used twice
          Values, \* what is sent
          NULL

VARIABLES req,      \* per id: the message it is trying to send, or NULL
          waiting,  \* the ids blocked in a receive
          inbox,    \* per id: the message put and not yet taken, or NULL
          out       \* per id: what its last receive returned, NULL for an error

boxVars == <<req, waiting, inbox, out>>

BoxInit ==
    /\ req = [i \in Ids |-> NULL]
    /\ waiting = {}
    /\ inbox = [i \in Ids |-> NULL]
    /\ out = [i \in Ids |-> NULL]

Post(s, t, v) ==
    /\ req[s] = NULL
    /\ req' = [req EXCEPT ![s] = [to |-> t, value |-> v]]
    /\ UNCHANGED <<waiting, inbox, out>>

Put(s) ==
    /\ req[s] # NULL
    /\ req[s].to \in waiting
    /\ inbox' = [inbox EXCEPT ![req[s].to] = [from |-> s, value |-> req[s].value]]
    /\ waiting' = waiting \ {req[s].to}
    /\ req' = [req EXCEPT ![s] = NULL]
    /\ UNCHANGED out

Refuse(s) ==
    /\ req[s] # NULL
    /\ req' = [req EXCEPT ![s] = NULL]
    /\ UNCHANGED <<waiting, inbox, out>>

Wait(i) ==
    /\ i \notin waiting
    /\ inbox[i] = NULL
    /\ waiting' = waiting \cup {i}
    /\ UNCHANGED <<req, inbox, out>>

NoWait(i) ==
    /\ out' = [out EXCEPT ![i] = NULL]
    /\ UNCHANGED <<req, waiting, inbox>>

Take(i) ==
    /\ inbox[i] # NULL
    /\ out' = [out EXCEPT ![i] = inbox[i]]
    /\ inbox' = [inbox EXCEPT ![i] = NULL]
    /\ UNCHANGED <<req, waiting>>

Gone(i) ==
    /\ req' = [req EXCEPT ![i] = NULL]
    /\ waiting' = waiting \ {i}
    /\ inbox' = [inbox EXCEPT ![i] = NULL]
    /\ out' = [out EXCEPT ![i] = NULL]

BoxNext ==
    \E i \in Ids :
        \/ \E t \in Ids, v \in Values : Post(i, t, v)
        \/ Put(i) \/ Refuse(i) \/ Wait(i) \/ NoWait(i) \/ Take(i) \/ Gone(i)

BoxSpec == BoxInit /\ [][BoxNext]_boxVars
=============================================================================
