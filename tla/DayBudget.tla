----------------------------- MODULE DayBudget ------------------------------
(***************************************************************************)
(* What the quota promises: for each local date a budget of slots.  A slot *)
(* is taken only while slots and outside applications together stay below  *)
(* the limit, and comes back to the date it was taken from.  Applications  *)
(* made by hand only add up.  Quota.tla implements it.                     *)
(***************************************************************************)
EXTENDS Integers

CONSTANTS Day, Limit

VARIABLES taken, outside

vars == <<taken, outside>>

Init == /\ taken = [d \in Day |-> 0]
        /\ outside = [d \in Day |-> 0]

Take(d) == /\ taken[d] + outside[d] < Limit
           /\ taken' = [taken EXCEPT ![d] = @ + 1]
           /\ UNCHANGED outside

Give(d) == /\ taken[d] > 0
           /\ taken' = [taken EXCEPT ![d] = @ - 1]
           /\ UNCHANGED outside

\* Reconciliation gives a slot back in the step that finds the
\* application made by hand.
GiveAndOutside(d, e) == /\ taken[d] > 0
                        /\ taken' = [taken EXCEPT ![d] = @ - 1]
                        /\ outside' = [outside EXCEPT ![e] = @ + 1]

Next == \E d \in Day : Take(d) \/ Give(d) \/ \E e \in Day : GiveAndOutside(d, e)

Spec == Init /\ [][Next]_vars
=============================================================================
