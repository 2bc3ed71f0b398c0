------------------------------ MODULE MCMemory ------------------------------
(* A few pages, two environments (e1 the parent of e2) and one or two CPUs. *)
EXTENDS Memory, TLC

CONSTANTS e1, e2

MCManages == {<<e1, e1>>, <<e2, e2>>, <<e1, e2>>}
MCSymmetry == Permutations(Pages \ {Page0}) \cup Permutations(CPUs)

(* Allocation, and unmapping left to any program.                           *)
AnyUnmapSpec == MemInit /\ [][KernelMove \/ LibAlloc \/ AnyUnmap]_memVars
=============================================================================
