------------------------------ MODULE PromptFit -----------------------------
(***************************************************************************)
(* How the ranking trims what it tells the model to the budget of a prompt *)
(* (StructuredAIRanker._fit_prompt_payload): as long as the payload is too *)
(* large, the field with most to spare loses a part of its end.  A field   *)
(* is its length in characters; a character takes Bytes bytes.             *)
(***************************************************************************)
EXTENDS Naturals, FiniteSets, FiniteSetsExt, Folds

CONSTANTS
    Fields,         \* the text fields, in the order of their paths: numbers
    Description,    \* the field of the vacancy's description
    Lengths,        \* lengths that a field may have
    Budgets,        \* sizes that a prompt may have
    Bytes,          \* bytes per character
    Frame           \* the size of the payload around the fields

PromptFitAssumption ==
    /\ Fields \subseteq Nat /\ Description \in Fields
    /\ Lengths \subseteq Nat /\ Budgets \subseteq Nat /\ Bytes \in Nat \ {0} /\ Frame \in Nat

VARIABLES length, given, budget, outcome
vars == <<length, given, budget, outcome>>

Init ==
    /\ given \in [Fields -> Lengths] /\ length = given
    /\ budget \in Budgets /\ outcome = "trimming"

Size(l) == Frame + Bytes * MapThenSumSet(LAMBDA f : l[f], Fields)

\* A quarter of the budget stays with the description.
Floor(f) == IF f = Description THEN Min({length[f], budget \div 4}) ELSE 0
Spare(f) == length[f] - Floor(f)

Trimmable == {f \in Fields : length[f] > Floor(f)}

\* The field with most to spare, the first of them.
Longest == CHOOSE f \in Trimmable :
              \A g \in Trimmable : Spare(g) < Spare(f) \/ (Spare(g) = Spare(f) /\ f <= g)

Removed(f) == Min({Size(length) - budget, Max({1, length[f] \div 4}), length[f] - Floor(f)})

\* The trimmed end loses its last spaces too: every fifth character is one.
Stripped(n) == IF n > 0 /\ n % 5 = 0 THEN n - 1 ELSE n

Trim ==
    /\ outcome = "trimming" /\ Size(length) > budget /\ Trimmable # {}
    /\ length' = [length EXCEPT ![Longest] = Stripped(@ - Removed(Longest))]
    /\ UNCHANGED <<given, budget, outcome>>

Finish ==
    /\ outcome = "trimming"
    /\ \/ Size(length) <= budget /\ outcome' = "fits"
       \/ Size(length) > budget /\ Trimmable = {} /\ outcome' = "cannot fit"
    /\ UNCHANGED <<length, given, budget>>

Next == Trim \/ Finish
Spec == Init /\ [][Next]_vars /\ WF_vars(Next)

----------------------------------------------------------------------------
\* The trimming ends.
Decided == outcome # "trimming"
TrimmingEnds == <>Decided

\* The payload is refused only when the frame and the part that is kept of the
\* description alone exceed the budget.
RefusedOnlyForTheFrame ==
    outcome = "cannot fit" => Frame + Bytes * (budget \div 4) > budget

\* The description keeps a quarter of the budget, but for spaces at its end,
\* and no field that had less to spare is trimmed before one that had more.
DescriptionIsKept ==
    length[Description] + 1 >= Min({given[Description], budget \div 4})

FairTrim ==
    \A f, g \in Fields \ {Description} :
          length'[f] < length[f] => length[g] <= length[f]
=============================================================================
