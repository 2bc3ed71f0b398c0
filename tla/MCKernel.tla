------------------------------ MODULE MCKernel ------------------------------
(* Small machines for TLC: the constants are given by each configuration.   *)
EXTENDS Kernel
=============================================================================
