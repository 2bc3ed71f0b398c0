----------------------------- MODULE MCConsole -----------------------------
(* The console on a screen of two rows, with a one-character prompt. *)
EXTENDS Console

MCPrompt == <<">">>
=============================================================================
