--------------------------- MODULE MCInstanceLock ---------------------------
(* Small instances of InstanceLock for TLC. *)
EXTENDS InstanceLock, TLC

CONSTANTS run1, run2, run3, run4

\* Runs of the same kind are interchangeable.
Symmetry == Permutations(Trays) \cup Permutations(Procs \ (Trays \cup Killed))
=============================================================================
