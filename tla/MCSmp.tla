------------------------------- MODULE MCSmp -------------------------------
(* Machines with fewer, as many and more processors than cpus[] has room    *)
(* for, with an entry the kernel does not know, and with a table that fails *)
(* one of the tests.                                                        *)
EXTENDS Smp

Good(e) == [default |-> FALSE, signature |-> TRUE, checksum |-> TRUE, version |-> 4,
            xchecksum |-> TRUE, entries |-> e]

MCTables ==
    LET t == Good(<<"boot", "proc">>) IN
    { Good(<<"boot", "proc", "other">> \o e) :
         e \in {<<>>, <<"proc">>, <<"proc", "proc">>, <<"unknown", "proc">>} }
    \cup { [t EXCEPT !.default = TRUE], [t EXCEPT !.signature = FALSE],
           [t EXCEPT !.checksum = FALSE], [t EXCEPT !.version = 2],
           [t EXCEPT !.xchecksum = FALSE] }
=============================================================================
