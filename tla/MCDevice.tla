------------------------------ MODULE MCDevice ------------------------------
(* Instances of CvsfsDevice for TLC. *)
EXTENDS CvsfsDevice, TLC

(* Requesters are interchangeable: a call's number tells them apart. *)
Symmetry == Permutations(Requesters)
=============================================================================
