------------------------------- MODULE MCIpc -------------------------------
(* A message without a page, with a page of the sender's own, and with a    *)
(* page it has read-only and offers for writing.                            *)
EXTENDS Ipc

CONSTANTS e1, e2, e3
MCGen == [e \in Envs |-> IF e = e1 THEN 2 ELSE 1]
MCOffers == {<<"none", NULL>>, <<"A", "w">>, <<"R", "w">>}
=============================================================================
