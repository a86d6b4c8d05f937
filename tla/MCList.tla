------------------------------- MODULE MCList -------------------------------
(* Instances of SuperblockList for TLC. *)
EXTENDS SuperblockList, TLC

(* Superblocks, mount points and processes are interchangeable. *)
Symmetry == Permutations(Mounts) \cup Permutations(Points) \cup Permutations(Procs)
=============================================================================
