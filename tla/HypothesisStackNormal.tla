------------------------ MODULE HypothesisStackNormal ------------------------
(***************************************************************************)
(* moses/HypothesisStackNormal.{h,cpp}, with Hypothesis::AddArc,           *)
(* CleanupArcList and the destructor: one stack of the decoder.            *)
(*                                                                         *)
(* Hypotheses are offered one after the other and known by their number.   *)
(* A hypothesis has a recombination class (two of a class compare equal in *)
(* the set m_hypos), which fixes its coverage, and a total score.  Once    *)
(* the search comes to the stack, it is pruned a last time and no          *)
(* hypothesis is offered to it again.                                      *)
(***************************************************************************)
EXTENDS Integers, Sequences, SequencesExt, FiniteSets, FiniteSetsExt

CONSTANTS
  Classes,           \* recombination classes
  CoverageOf,        \* the coverage of each class
  BeamWidth,         \* m_beamWidth, negative
  MaxDistortion,     \* GetMaxDistortion, room for diversity
  NBestSize,         \* GetNBestSize
  Settings           \* what a stack may be made with, and bounds on what is offered to it

\* -std::numeric_limits<float>::infinity()
NegInfinity == -1000

Coverages == {CoverageOf[c] : c \in Classes}

ASSUME StackAssumption ==
  /\ MaxDistortion \in Nat /\ BeamWidth \in Int /\ BeamWidth < 0 /\ NBestSize \in Nat \ {0}
  /\ \A s \in Settings :
       /\ s.maxHypoStackSize \in Nat \ {0} /\ s.diversity \in Nat /\ s.nBest \in BOOLEAN
       /\ s.offers \subseteq Classes \X Int /\ s.maxOffers \in Nat

\* -infinity stays below every score, also when the beam width is added to it.
ASSUME ScoreAssumption ==
  \A s \in Settings : \A offer \in s.offers : offer[2] + BeamWidth > NegInfinity

\* What the room for diversity in the tolerated size is made for: the hypotheses of a stack cover
\* the same number of words and, behind the first gap, only words within the distortion limit.
ASSUME CoverageAssumption ==
  (\E s \in Settings : s.diversity > 0) =>
    IsFiniteSet(Coverages) /\ Cardinality(Coverages) <= 2^MaxDistortion

VARIABLES
  offered,   \* the hypotheses created, each [class, score]
  st,        \* the stack: m_hypos, m_bestScore, m_worstScore and
             \* m_diversityWorstScore; the arc list of each hypothesis; how
             \* often each one has been freed
  expanded,  \* whether the search has come to the stack
  setting    \* how the stack has been made

vars == <<offered, st, expanded, setting>>

MaxHypoStackSize == setting.maxHypoStackSize
Diversity == setting.diversity      \* m_minHypoStackDiversity
NBest == setting.nBest              \* m_nBestIsEnabled
MaxOffers == setting.maxOffers      \* bound: how many hypotheses are offered

Id == 1 .. MaxOffers

\* Attributes of a hypothesis; off is the sequence offered.
Score(off, h) == off[h].score
Coverage(off, h) == CoverageOf[off[h].class]

\* The hypotheses in the set H are deleted, each with its arcs.
FreeHypo(s, H) ==
  [s EXCEPT
     !.freed = [h \in Id |->
        @[h] + (IF h \in H THEN 1 ELSE 0) + Cardinality({w \in H : h \in s.arcs[w]})],
     !.arcs = [h \in Id |-> IF h \in H THEN {} ELSE @[h]]]

\* winner->AddArc(loser): the arc list of the loser is taken over.
AddArc(s, winner, loser) ==
  [s EXCEPT !.arcs[winner] = @ \cup s.arcs[loser] \cup {loser},
            !.arcs[loser] = {}]

-----------------------------------------------------------------------------
(***************************************************************************)
(* PruneToSize.                                                            *)
(***************************************************************************)

\* Mutant of SortedLists: the hypotheses in the order of the set.
UnsortedLists(off, H) == SetToSeqs(H)

\* GetSortedListNOTCONST: by descending score, equal scores in any order.
SortedLists(off, H) ==
  {list \in SetToSeqs(H) :
     \A i, j \in DOMAIN list : i < j => Score(off, list[i]) >= Score(off, list[j])}

\* How many better hypotheses of the list have the coverage of the i-th.
Rank(off, list, i) ==
  Cardinality({j \in 1 .. i - 1 : Coverage(off, list[j]) = Coverage(off, list[i])})

Pruned(off, s, newSize, list) ==
  LET diverse == {i \in DOMAIN list : Rank(off, list, i) < Diversity}
      inBeam  == {i \in DOMAIN list \ diverse :
                    Score(off, list[i]) > s.bestScore + BeamWidth}
      rest    == {i \in inBeam : Cardinality({j \in inBeam : j <= i})
                                   <= newSize - Cardinality(diverse)}
      kept    == {list[i] : i \in diverse \cup rest}
      full    == Cardinality(kept) = newSize /\ rest # {}
      Threshold(v) == {i \in DOMAIN list : Coverage(off, list[i]) = v
                                        /\ Rank(off, list, i) = Diversity - 1}
  IN  [FreeHypo(s, s.hypos \ kept) EXCEPT
         !.hypos = kept,
         !.worstScore = IF full THEN Score(off, list[Max(rest)]) ELSE @,
         !.diversityWorst = [v \in Coverages |->
            IF Threshold(v) = {} THEN @[v] ELSE Score(off, list[Max(Threshold(v))])]]

PruneToSize(off, s, newSize) ==
  IF Cardinality(s.hypos) <= newSize THEN {s}
  ELSE {Pruned(off, s, newSize, list) : list \in SortedLists(off, s.hypos)}

-----------------------------------------------------------------------------
(***************************************************************************)
(* Add and AddPrune.                                                       *)
(***************************************************************************)

\* Lazy pruning: twice the size, and room for diversity.
ToleratedSize ==
  2 * MaxHypoStackSize - 1
    + (IF Diversity > 0 THEN Diversity * 2^MaxDistortion ELSE 0)

\* Add, for a hypothesis that no equivalent of is in the stack.
Inserted(off, s, h) ==
  LET score == Score(off, h)
      v     == Coverage(off, h)
      best  == score > s.bestScore
  IN  [s EXCEPT
         !.hypos = @ \cup {h},
         !.bestScore = IF best THEN score ELSE @,
         !.worstScore = IF best /\ score + BeamWidth > @ THEN score + BeamWidth ELSE @,
         !.diversityWorst[v] = IF Diversity = 1 /\ score > @ THEN score ELSE @]

Add(off, s, h) ==
  LET after == Inserted(off, s, h)
  IN  IF Cardinality(after.hypos) > ToleratedSize
      THEN PruneToSize(off, after, MaxHypoStackSize) ELSE {after}

\* Mutant of TooBad: the coverage is not asked for.
TooBadForStack(off, s, h) == Score(off, h) < s.worstScore

TooBad(off, s, h) ==
  /\ Score(off, h) < s.worstScore
  /\ ~(Diversity > 0 /\ Score(off, h) >= s.diversityWorst[Coverage(off, h)])

\* Mutant of Equivalent: hypotheses of a coverage are not told apart.
EquivalentByCoverage(off, s, h) ==
  {x \in s.hypos : Coverage(off, x) = Coverage(off, h)}

\* What m_hypos.insert() compares equal, see Hypothesis::RecombineCompare.
Equivalent(off, s, h) == {x \in s.hypos : off[x].class = off[h].class}

\* Mutant of Replace: the one replaced is not deleted.
ReplaceLeaking(off, s, h, existing) ==
  LET detached == [s EXCEPT !.hypos = @ \ {existing}]
  IN  Add(off, IF NBest THEN AddArc(detached, h, existing) ELSE detached, h)

\* The incoming hypothesis replaces an equivalent one that is worse.
Replace(off, s, h, existing) ==
  LET detached == [s EXCEPT !.hypos = @ \ {existing}]
  IN  Add(off, IF NBest THEN AddArc(detached, h, existing)
               ELSE FreeHypo(detached, {existing}), h)

\* Mutant of AddPrune: a better hypothesis is dropped like a worse one.
AddPruneKeepingExisting(off, s, h) ==
  IF TooBad(off, s, h) THEN {FreeHypo(s, {h})}
  ELSE IF Equivalent(off, s, h) = {} THEN Add(off, s, h)
  ELSE {FreeHypo(s, {h})}

AddPrune(off, s, h) ==
  IF TooBad(off, s, h) THEN {FreeHypo(s, {h})}
  ELSE IF Equivalent(off, s, h) = {} THEN Add(off, s, h)
  ELSE UNION {
    IF Score(off, h) > Score(off, existing) THEN Replace(off, s, h, existing)
    ELSE {IF NBest THEN AddArc(s, existing, h) ELSE FreeHypo(s, {h})} :
      existing \in Equivalent(off, s, h)}

-----------------------------------------------------------------------------
(***************************************************************************)
(* CleanupArcList: more than 5 * NBestSize arcs are pruned to the best     *)
(* NBestSize.                                                              *)
(***************************************************************************)
CleanArcs(off, arcs) ==
  IF Cardinality(arcs) <= NBestSize * 5 THEN {arcs}
  ELSE {kept \in kSubset(NBestSize, arcs) :
          \A x \in kept : \A y \in arcs \ kept : Score(off, x) >= Score(off, y)}

\* Every way to clean up all the arc lists of the stack.
Cleanings(off, s) ==
  {f \in [s.hypos -> UNION {CleanArcs(off, s.arcs[h]) : h \in s.hypos}] :
     \A h \in s.hypos : f[h] \in CleanArcs(off, s.arcs[h])}

CleanupArcList(off, s) ==
  {[s EXCEPT
      !.arcs = [h \in Id |-> IF h \in s.hypos THEN clean[h] ELSE @[h]],
      !.freed = [x \in Id |->
        IF \E h \in s.hypos : x \in s.arcs[h] \ clean[h] THEN @[x] + 1 ELSE @[x]]] :
    clean \in Cleanings(off, s)}

-----------------------------------------------------------------------------
Init ==
  /\ setting \in Settings
  /\ offered = <<>>
  /\ st = [hypos |-> {}, bestScore |-> NegInfinity, worstScore |-> NegInfinity,
           diversityWorst |-> [v \in Coverages |-> NegInfinity],
           arcs |-> [h \in Id |-> {}], freed |-> [h \in Id |-> 0]]
  /\ expanded = FALSE

\* The search makes a hypothesis and calls AddPrune.
Offer ==
  /\ ~expanded /\ Len(offered) < MaxOffers
  /\ \E offer \in setting.offers :
       /\ offered' = Append(offered, [class |-> offer[1], score |-> offer[2]])
       /\ st' \in AddPrune(offered', st, Len(offered'))
  /\ UNCHANGED <<expanded, setting>>

\* The search comes to the stack.
Expand ==
  /\ ~expanded
  /\ \E pruned \in PruneToSize(offered, st, MaxHypoStackSize) :
       st' \in IF NBest THEN CleanupArcList(offered, pruned) ELSE {pruned}
  /\ expanded' = TRUE
  /\ UNCHANGED <<offered, setting>>

Next == Offer \/ Expand

Spec == Init /\ [][Next]_vars

-----------------------------------------------------------------------------
Offers == DOMAIN offered

\* The best score that a class was offered with.
ClassBest(c) == Max({offered[h].score : h \in {x \in Offers : offered[x].class = c}})

OfferedClasses == {offered[h].class : h \in Offers}

\* The classes of which the stack does not hold the best hypothesis that was offered.  It may
\* hold a worse one of the class: one that has fallen out of the beam and is not pruned, as the
\* stack is not full, or one that came back after the diverse hypotheses alone had filled it.
LostClasses ==
  {c \in OfferedClasses :
     \A h \in st.hypos : offered[h].class = c => offered[h].score < ClassBest(c)}

\* Lazy pruning loses nothing that pruning at once would have kept: without stack diversity, a
\* class is lost only if its best hypothesis is outside the beam, or as many hypotheses as the
\* stack is meant to hold are at least as good.
LossOnlyBelowRankOrBeam ==
  Diversity = 0 =>
    \A c \in LostClasses :
      \/ ClassBest(c) <= st.bestScore + BeamWidth
      \/ Cardinality({h \in st.hypos : offered[h].score >= ClassBest(c)}) >= MaxHypoStackSize

\* Stack diversity: of each coverage, the stack keeps as many of the best hypotheses as
\* m_minHypoStackDiversity says, whatever the other coverages score: a class is lost only when so
\* many of its coverage are at least as good.
DiversityKept ==
  \A c \in LostClasses :
    Cardinality({h \in st.hypos : /\ CoverageOf[offered[h].class] = CoverageOf[c]
                                  /\ offered[h].score >= ClassBest(c)})
      >= Diversity

\* What SearchNormal relies on: a stack that was offered something is never emptied, holds the
\* best hypothesis offered, and stays within the tolerated size; once it is expanded and diversity
\* is off, within its size.  By recombination, a class is on the stack at most once.
StackContract ==
  /\ \A h, x \in st.hypos : offered[x].class = offered[h].class => x = h
  /\ offered # <<>> =>
       /\ \E h \in st.hypos : \A x \in Offers : offered[h].score >= offered[x].score
       /\ st.bestScore = Max({offered[x].score : x \in Offers})
  /\ Cardinality(st.hypos) <= ToleratedSize
  /\ expanded /\ Diversity = 0 => Cardinality(st.hypos) <= MaxHypoStackSize

\* Every hypothesis has one owner, the stack or the arc list of a hypothesis
\* on the stack, until it is freed, and it is freed once: no leak, no double
\* delete, no arc of a deleted hypothesis.
OneOwner ==
  \A h \in Offers :
    Cardinality({w \in st.hypos : h \in st.arcs[w]})
      + (IF h \in st.hypos THEN 1 ELSE 0) + st.freed[h] = 1

\* The arcs of a hypothesis are alternatives of it: in its recombination
\* class, and none better than the hypothesis that stands for the class.
ArcsAreWorseAlternatives ==
  \A w \in st.hypos : \A x \in st.arcs[w] :
    /\ offered[x].class = offered[w].class
    /\ offered[x].score <= offered[w].score
=============================================================================
