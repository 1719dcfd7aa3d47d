--------------------------- MODULE MCSharedMemory ---------------------------
(***************************************************************************)
(* Instances of the shared memory library for TLC.  The processes, slots,  *)
(* contents and semaphores are model values, and interchangeable.          *)
(***************************************************************************)
EXTENDS SharedMemoryRegister, TLC

Symmetry ==
  Permutations(Proc) \cup Permutations(Slot) \cup Permutations(Event) \cup Permutations(Sem)

NoFaults == {}
Unlinked == {"unlinked"}
Interruptions == {"interrupted"}
Churn == {"unlinked", "crashed"}
Signals == {"unlinked", "interrupted"}
=============================================================================
