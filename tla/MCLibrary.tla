----------------------------- MODULE MCLibrary -----------------------------
EXTENDS Library

MCMoves == {[m |-> [a \in 0..7 |-> a], dst |-> d, src |-> s, n |-> n] :
               d \in 0..4, s \in 0..4, n \in 0..4}

(* Numbers of every width and padding, and texts around the buffer's size.  *)
Fmts == {<<"%", "d">>, <<"%", "0", "4", "d">>, <<"%", "u">>, <<"%", "1", "0", "u">>,
         <<"%", "4", "d">>, <<"%", "x">>, <<"%", "0", "2", "x">>, <<"%", "l", "x">>, <<"%", "p">>,
         <<"%", "4", "p">>, <<"%", "0", "4", "p">>}
LLFmts == {<<"%", "l", "l", "d">>, <<"%", "0", "3", "l", "l", "x">>,
           <<"%", "l", "l", "u">>, <<"%", "l", "l", "p">>}
Strings == {[i \in 1..n |-> <<"a", "b", "\n">>[(i % 3) + 1]] : n \in 0..9}
StringFmts == {<<"%", "s">>, <<"%", "-", "5", "s">>, <<"%", "5", "s", "c">>,
               <<"a", "%", "5", ".", "2", "s">>, <<"%", "#", "s", "%", "%">>,
               <<"%", "s", "%", "7", "k">>,
               <<"%", "s", "%", "o", "%", "0">>}
MCPrints ==
    {[fmt |-> f, args |-> <<v>>] : f \in Fmts, v \in -8..15}
      \cup {[fmt |-> f, args |-> <<v>>] : f \in LLFmts, v \in -128..255}
      \cup {[fmt |-> <<"a", "%", "e">>, args |-> <<v>>] : v \in -7..7}
      \cup {[fmt |-> f, args |-> <<s>>] : f \in StringFmts, s \in Strings}
      \cup {[fmt |-> <<"%", "*", "p", "%", "c">>, args |-> <<w, v, "c">>] : w \in 0..3, v \in 0..15}

StabSets == {[m \in 0..4 |-> [n_type |-> IF f[m] = 0 THEN "N_SLINE" ELSE "N_SO", n_value |-> f[m]]] :
               f \in {g \in [0..4 -> 0..4] :
                        \A i, j \in 0..4 : i < j /\ g[i] > 0 /\ g[j] > 0 => g[i] < g[j]}}
MCSearches == {[stabs |-> s, l |-> l, r |-> r, addr |-> x] :
                  s \in StabSets, l \in 0..1, r \in 3..4, x \in 0..5}

MCLines == UNION {[1..n -> {" ", "a", "b"}] : n \in 0..5}
MCCommands == {<<"a">>, <<"a", "b">>}

(* Two segments whose addresses and offsets agree within a sector; where    *)
(* they share a sector they are as far apart in the file as in memory.      *)
MCImages ==
    {im \in [1..2 -> [pa : 0..9, memsz : 0..4, offset : 0..9]] :
        /\ \A n \in 1..2 : im[n].pa % SECTSIZE = im[n].offset % SECTSIZE
        /\ im[1].pa + im[1].memsz <= im[2].pa
        /\ (im[1].pa + im[1].memsz - 1) \div SECTSIZE = im[2].pa \div SECTSIZE =>
              im[2].pa - im[1].pa = im[2].offset - im[1].offset}
=============================================================================
