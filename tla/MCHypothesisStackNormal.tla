----------------------- MODULE MCHypothesisStackNormal -----------------------
(***************************************************************************)
(* Hypotheses of four classes, three of them of one coverage: a stack of   *)
(* two without diversity and with four scores; stacks of one and two with  *)
(* diversity, where lazy pruning happens once all classes are there and    *)
(* the diverse ones alone fill the stack; a stack of one with diversity    *)
(* two; and a stack of one with arcs for n-best lists, offered so many     *)
(* hypotheses that the arc lists are cleaned.                              *)
(***************************************************************************)
EXTENDS HypothesisStackNormal, TLC

CONSTANTS a, b, c, d

MCClasses == {a, b, c, d}
MCCoverageOf == (a :> 1) @@ (b :> 1) @@ (c :> 1) @@ (d :> 2)

Beam == -2

MCSettings ==
  {[maxHypoStackSize |-> 2, diversity |-> 0, nBest |-> FALSE,
    offers |-> MCClasses \X {0, 1, 2, 4}, maxOffers |-> 5],
   [maxHypoStackSize |-> 1, diversity |-> 1, nBest |-> TRUE,
    offers |-> MCClasses \X {0, 1, 3}, maxOffers |-> 5],
   [maxHypoStackSize |-> 2, diversity |-> 1, nBest |-> FALSE,
    offers |-> MCClasses \X {0, 1}, maxOffers |-> 5],
   [maxHypoStackSize |-> 1, diversity |-> 2, nBest |-> FALSE,
    offers |-> MCClasses \X {0, 1}, maxOffers |-> 5],
   [maxHypoStackSize |-> 1, diversity |-> 0, nBest |-> TRUE,
    offers |-> {a, b} \X {0, 3}, maxOffers |-> 7]}

\* a and b have one coverage and are always offered alike.
ClassSymmetry == Permutations({a, b})
=============================================================================
