----------------------------- MODULE MCDispatch -----------------------------
(***************************************************************************)
(* The dispatch model on small instances.                                  *)
(***************************************************************************)
EXTENDS Dispatch, TLC

CONSTANTS i1, i2, v1, v2

Symmetry == Permutations({i1, i2})

SameVacancy == i1 :> v1 @@ i2 :> v1
=============================================================================
