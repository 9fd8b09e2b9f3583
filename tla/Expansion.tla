------------------------------ MODULE Expansion ------------------------------
(***************************************************************************)
(* How the stack decoder extends a hypothesis: the conditions of           *)
(* SearchNormal::ProcessOneHypothesis and the hypothesis that CreateNext   *)
(* makes.                                                                  *)
(*                                                                         *)
(* A hypothesis is what the search tells apart: its coverage and the       *)
(* source span of its last phrase (NoRange where it has none).  A sentence *)
(* is a record                                                             *)
(*   completed   m_sourceCompleted, what a partial translation begins with *)
(*   options     the spans with at least one translation option            *)
(*   constraint  its ReorderingConstraint                                  *)
(***************************************************************************)
EXTENDS ReorderingConstraint

CONSTANTS
  Size,              \* number of words of the source sentence
  MaxDistortion,     \* GetMaxDistortion, negative for no limit
  MaxPhraseLength    \* GetMaxPhraseLength

ASSUME ExpansionAssumption ==
  /\ Size \in Nat /\ Size < NOT_FOUND
  /\ MaxDistortion \in Int
  /\ MaxPhraseLength \in Nat \ {0}

NoRange == <<-1, -1>>

Spans == {span \in Positions(Size) \X Positions(Size) : span[1] <= span[2]}

\* What the seed of an empty sentence, which has no gap, gets for a range.
EmptySentenceRange == <<0, NOT_FOUND - 1>>

Hypotheses ==
  [cov : SUBSET Positions(Size), last : Spans \cup {NoRange, EmptySentenceRange}]

FirstGap(hypo) == GetFirstGapPos(Size, hypo.cov)

Abs(n) == IF n < 0 THEN -n ELSE n

\* InputType::ComputeDistortionDistance, from the span prev to a phrase that
\* starts at startPos.
ComputeDistortionDistance(prev, startPos) ==
  IF prev = NoRange THEN startPos ELSE Abs(prev[2] - startPos + 1)

-----------------------------------------------------------------------------
\* Mutant: no look at the jump back to the first gap.
CanExtendWithoutLookahead(source, hypo, startPos, endPos) ==
  /\ FirstGap(hypo) <= startPos /\ endPos - startPos < MaxPhraseLength
  /\ <<startPos, endPos>> \in source.options
  /\ ~Overlap(hypo.cov, startPos, endPos)
  /\ ComputeDistortionDistance(hypo.last, startPos) <= MaxDistortion

\* The spans ProcessOneHypothesis gives to ExpandAllHypotheses.  The first
\* three conjuncts and Check hold in both branches; with a distortion limit,
\* the jump to the span must be within it and, unless the span fills the
\* first gap, so must the jump back from its end to that gap.
CanExtend(source, hypo, startPos, endPos) ==
  /\ FirstGap(hypo) <= startPos /\ endPos - startPos < MaxPhraseLength
  /\ <<startPos, endPos>> \in source.options
  /\ ~Overlap(hypo.cov, startPos, endPos)
  /\ Check(source.constraint, Size, hypo.cov, startPos, endPos, MaxDistortion)
  /\ MaxDistortion >= 0 =>
       /\ ComputeDistortionDistance(hypo.last, startPos) <= MaxDistortion
       /\ \/ startPos = FirstGap(hypo)
          \/ ComputeDistortionDistance(<<startPos, endPos>>, FirstGap(hypo))
               <= MaxDistortion

\* CreateNext: the hypothesis that continues hypo over a span.
Extend(hypo, span) ==
  [cov |-> SetValue(hypo.cov, span[1], span[2]), last |-> span]

Extensions(source, hypo) ==
  {Extend(hypo, span) : span \in {s \in Spans : CanExtend(source, hypo, s[1], s[2])}}

\* The seed: nothing translated, or what the input says is translated.
InitialHypothesis(completed) ==
  LET gap == GetFirstGapPos(Size, completed)
  IN  [cov  |-> completed,
       last |-> IF gap > 0 THEN <<0, gap - 1>> ELSE NoRange]
==============================================================================
