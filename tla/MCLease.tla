------------------------------- MODULE MCLease -------------------------------
(***************************************************************************)
(* The lease model on small instances.                                     *)
(***************************************************************************)
EXTENDS Lease, TLC

Symmetry == Permutations(Owner)
=============================================================================
