------------------------------- MODULE MCBoot -------------------------------
(* A machine with pages of 8 bytes and tables of 32 entries.  The memory of *)
(* every machine exceeds what the first page table maps and is enough for   *)
(* the program, so that region_alloc() does not panic.                      *)
EXTENDS Boot

MCMachines == {3, 4} \X (29..37)
MCKernelEnds == {88, 89, 96, 97}
MCPrograms ==
    {<<[va |-> 520, memsz |-> 9]>>,
     <<[va |-> 515, memsz |-> 8], [va |-> 540, memsz |-> 20]>>,
     <<[va |-> 519, memsz |-> 2], [va |-> 528, memsz |-> 0]>>}
=============================================================================
