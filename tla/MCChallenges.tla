---------------------------- MODULE MCChallenges ----------------------------
(***************************************************************************)
(* Runs and the operator's desk on small instances.                        *)
(***************************************************************************)
EXTENDS Challenges, TLC

CONSTANTS i1, i2, v1, v2

OneItem == i1 :> v1
TwoVacancies == i1 :> v1 @@ i2 :> v2
PairSymmetry == {i1 :> i2 @@ i2 :> i1 @@ v1 :> v2 @@ v2 :> v1}
=============================================================================
