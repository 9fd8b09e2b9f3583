-------------------------- MODULE SearchNormal_proofs --------------------------
(***************************************************************************)
(* What SearchNormal guarantees for every sentence, distortion limit,      *)
(* phrase length and stack size.                                           *)
(***************************************************************************)
EXTENDS SearchNormal, FiniteSetTheorems, NaturalsInduction, TLAPS

(***************************************************************************)
(* The first gap.                                                          *)
(***************************************************************************)

\* A set of natural numbers that is not empty has a least element.
LEMMA LeastElement ==
  ASSUME NEW S, S \subseteq Nat, S # {}
  PROVE  \E m \in S : \A other \in S : m <= other
<1>1. IsWellFoundedOn(OpToRel(<, Nat), Nat)
  BY NatLessThanWellFounded
<1>2. PICK m \in S : \A y \in S : ~(<<y, m>> \in OpToRel(<, Nat))
  BY <1>1, WFMin
<1>3. \A y \in S : <<y, m>> \in Nat \X Nat
  BY Zenon
<1>4. \A y \in S : ~(y < m)
  BY <1>2, <1>3, Zenon DEF OpToRel
<1>5. \A y \in S : m <= y
  BY <1>4
<1> QED BY <1>5

\* GetFirstGapPos is a word not yet translated and all words before it are,
\* unless no word is left to translate.
LEMMA FirstGapIsFirst ==
  ASSUME NEW bm, Gaps(Size, bm) # {}
  PROVE  /\ GetFirstGapPos(Size, bm) \in Positions(Size)
         /\ GetFirstGapPos(Size, bm) \notin bm
         /\ \A pos \in Positions(Size) :
              pos < GetFirstGapPos(Size, bm) => pos \in bm
<1> DEFINE G == Gaps(Size, bm)
           g == GetFirstGapPos(Size, bm)
<1>1. G \subseteq Nat /\ G # {}
  BY ExpansionAssumption DEF Gaps, Positions
<1>2. \E pos \in G : \A other \in G : pos <= other
  BY <1>1, LeastElement
<1>3. g \in G /\ \A other \in G : g <= other
  BY <1>1, <1>2 DEF GetFirstGapPos
<1>4. \A pos \in Positions(Size) : pos < g => pos \in bm
  <2> SUFFICES ASSUME NEW pos \in Positions(Size), pos < g, pos \notin bm
               PROVE  FALSE
    OBVIOUS
  <2>1. pos \in G
    BY DEF Gaps
  <2>2. pos \in Nat /\ g \in Nat
    BY <1>1, <1>3, <2>1
  <2> QED BY <1>3, <2>1, <2>2
<1> QED BY <1>3, <1>4 DEF Gaps

\* Conversely, a position that GetFirstGapPos returns is not translated.
LEMMA FirstGapIsGap ==
  ASSUME NEW bm, GetFirstGapPos(Size, bm) \in Positions(Size)
  PROVE  Gaps(Size, bm) # {}
BY ExpansionAssumption DEF GetFirstGapPos, Positions, NOT_FOUND

(***************************************************************************)
(* The stacks: nothing is in a stack that was not offered to it, and what  *)
(* is offered never leaves it empty.                                       *)
(***************************************************************************)

\* PruneToSize only removes hypotheses, and never all of them.
LEMMA PruneToSizeSubset ==
  ASSUME NEW S, NEW kept \in PruneToSize(S)
  PROVE  kept \subseteq S /\ (S # {} => kept # {})
BY DEF PruneToSize

\* AddPrune puts no hypothesis on a stack but the one it is given, and never
\* leaves the stack empty.
LEMMA AddPruneSubset ==
  ASSUME NEW S, NEW hypo, NEW result \in AddPrune(S, hypo)
  PROVE  result \subseteq S \cup {hypo} /\ result # {}
<1>1. CASE result \in (IF S = {} THEN {} ELSE {S})
  BY <1>1
<1>2. CASE \E worse \in S : result = (S \ {worse}) \cup {hypo}
  BY <1>2
<1>3. CASE result = S \cup {hypo}
  BY <1>3
<1>4. CASE result \in PruneToSize(S \cup {hypo})
  BY <1>4, PruneToSizeSubset
<1> QED BY <1>1, <1>2, <1>3, <1>4 DEF AddPrune

(***************************************************************************)
(* The seed and the extensions are hypotheses.                             *)
(***************************************************************************)

\* A partial translation begins with a prefix, and the first gap follows it.
LEMMA SeedPrefix ==
  ASSUME NEW s \in Sources
  PROVE  \E n \in Nat : /\ n = 0 \/ n < Size
                        /\ s.completed = 0 .. n - 1
                        /\ n < Size => GetFirstGapPos(Size, s.completed) = n
<1>1. PICK n \in Nat : (n = 0 \/ n < Size) /\ s.completed = 0 .. n - 1
  BY SourcesAssumption, ExpansionAssumption
<1>2. ASSUME n < Size
      PROVE  GetFirstGapPos(Size, s.completed) = n
  <2> DEFINE g == GetFirstGapPos(Size, s.completed)
  <2>1. n \in Positions(Size) /\ n \notin s.completed
    BY <1>1, <1>2, ExpansionAssumption DEF Positions
  <2>2. Gaps(Size, s.completed) # {}
    BY <2>1 DEF Gaps
  <2>3. /\ g \in Positions(Size) /\ g \notin s.completed
        /\ \A pos \in Positions(Size) : pos < g => pos \in s.completed
    BY <2>2, FirstGapIsFirst
  <2>4. g \in Nat /\ ~(n < g) /\ ~(g < n)
    BY <1>1, <2>1, <2>3, ExpansionAssumption DEF Positions
  <2> QED BY <2>4
<1> QED BY <1>1, <1>2

\* The seed is a hypothesis.
LEMMA SeedIsHypothesis ==
  ASSUME NEW s \in Sources
  PROVE  InitialHypothesis(s.completed) \in Hypotheses
<1> DEFINE g == GetFirstGapPos(Size, s.completed)
<1>1. PICK n \in Nat : /\ n = 0 \/ n < Size
                       /\ s.completed = 0 .. n - 1
                       /\ n < Size => g = n
  BY SeedPrefix
<1>2. s.completed \subseteq Positions(Size)
  BY <1>1, ExpansionAssumption DEF Positions
<1>3. n = 0 => g = 0 \/ g = NOT_FOUND
  BY <1>1, ExpansionAssumption, FirstGapIsGap
     DEF GetFirstGapPos, Gaps, Positions
<1>4. n > 0 => g = n /\ n < Size /\ <<0, g - 1>> \in Spans
  BY <1>1, ExpansionAssumption DEF Spans, Positions
<1>5. (IF g > 0 THEN <<0, g - 1>> ELSE NoRange)
        \in Spans \cup {NoRange, EmptySentenceRange}
  BY <1>1, <1>3, <1>4 DEF EmptySentenceRange
<1> QED BY <1>2, <1>5 DEF InitialHypothesis, Hypotheses

\* What ProcessOneHypothesis makes of a hypothesis are hypotheses.
LEMMA ExtensionsAreHypotheses ==
  ASSUME NEW s, NEW hypo \in Hypotheses
  PROVE  Extensions(s, hypo) \subseteq Hypotheses
<1> SUFFICES ASSUME NEW span \in Spans
             PROVE  Extend(hypo, span) \in Hypotheses
  BY DEF Extensions
<1>1. span[1] .. span[2] \subseteq Positions(Size)
  BY ExpansionAssumption DEF Spans, Positions
<1> QED BY <1>1 DEF Extend, Hypotheses, SetValue

(***************************************************************************)
(* Type correctness.                                                       *)
(***************************************************************************)

\* The variables have their types; above all, every hypothesis on a stack
\* covers words of the sentence and ends with a span of it.
THEOREM TypeCorrect == Spec => []TypeOK
<1>1. Init => TypeOK
  <2> SUFFICES ASSUME Init PROVE TypeOK
    OBVIOUS
  <2>1. InitialHypothesis(source.completed) \in Hypotheses
    BY SeedIsHypothesis DEF Init
  <2>2. stack \in [0 .. Size -> SUBSET Hypotheses]
    BY <2>1 DEF Init
  <2>3. cur \in 0 .. Size + 1 /\ (phase # "done" => cur <= Size)
    BY ExpansionAssumption DEF Init
  <2> QED BY <2>2, <2>3 DEF Init, TypeOK
<1>2. TypeOK /\ [Next]_vars => TypeOK'
  <2> SUFFICES ASSUME TypeOK, [Next]_vars PROVE TypeOK'
    OBVIOUS
  <2>1. CASE OutOfTime
    BY <2>1 DEF OutOfTime, TypeOK
  <2>2. CASE BeginStack
    <3>1. cur \in 0 .. Size /\ stack[cur] \subseteq Hypotheses
      BY <2>2, ExpansionAssumption DEF BeginStack, TypeOK
    <3>2. PICK kept \in PruneToSize(stack[cur]) :
            stack' = [stack EXCEPT ![cur] = kept] /\ todo' = kept
      BY <2>2 DEF BeginStack
    <3>3. kept \subseteq Hypotheses
      BY <3>1, <3>2, PruneToSizeSubset
    <3>4. stack' \in [0 .. Size -> SUBSET Hypotheses] /\ todo' \subseteq Hypotheses
      BY <3>2, <3>3 DEF TypeOK
    <3> QED BY <2>2, <3>1, <3>4 DEF BeginStack, TypeOK
  <2>3. CASE ProcessOneHypothesis
    BY <2>3, ExtensionsAreHypotheses DEF ProcessOneHypothesis, TypeOK
  <2>4. CASE ExpandHypothesis
    <3>1. PICK next \in built :
            /\ \E S \in AddPrune(stack[GetNumWordsCovered(next.cov)], next) :
                 stack' = [stack EXCEPT ![GetNumWordsCovered(next.cov)] = S]
            /\ built' = built \ {next}
      BY <2>4, Zenon DEF ExpandHypothesis
    <3> DEFINE k == GetNumWordsCovered(next.cov)
    <3>2. PICK S \in AddPrune(stack[k], next) :
            stack' = [stack EXCEPT ![k] = S]
      BY <3>1, Zenon
    <3>3. k \in 0 .. Size => S \subseteq Hypotheses
      BY <3>2, AddPruneSubset DEF TypeOK
    <3>4. stack' \in [0 .. Size -> SUBSET Hypotheses]
      BY <3>2, <3>3 DEF TypeOK
    <3> QED BY <2>4, <3>1, <3>4 DEF ExpandHypothesis, TypeOK
  <2>5. CASE EndStack
    BY <2>5, ExpansionAssumption DEF EndStack, TypeOK, Uninitialized
  <2>6. CASE UNCHANGED vars
    BY <2>6 DEF vars, TypeOK
  <2> QED BY <2>1, <2>2, <2>3, <2>4, <2>5, <2>6 DEF Next
<1> QED BY <1>1, <1>2, PTL DEF Spec

(***************************************************************************)
(* Distortion.  GapWithinReach holds of the seed, and an extension keeps   *)
(* it: filling the first gap moves it to the right, next to words that     *)
(* were within the limit of the old gap; any other span leaves the gap,    *)
(* and ProcessOneHypothesis has checked the jump back from its end.        *)
(***************************************************************************)

\* The first gap of the seed is within reach: it follows the last phrase.
LEMMA SeedGapWithinReach ==
  ASSUME MaxDistortion >= 0, NEW s \in Sources
  PROVE  GapWithinReach(InitialHypothesis(s.completed))
<1> DEFINE seed == InitialHypothesis(s.completed)
           g == GetFirstGapPos(Size, s.completed)
<1>1. PICK n \in Nat : /\ n = 0 \/ n < Size
                       /\ s.completed = 0 .. n - 1
                       /\ n < Size => g = n
  BY SeedPrefix
<1> SUFFICES ASSUME NEW gap \in Positions(Size), gap = FirstGap(seed)
             PROVE  /\ ComputeDistortionDistance(seed.last, gap) <= MaxDistortion
                    /\ \A pos \in seed.cov : pos + 1 - gap <= MaxDistortion
  BY DEF GapWithinReach
<1>2. seed.cov = 0 .. n - 1 /\ gap = g /\ gap = n
  BY <1>1, ExpansionAssumption DEF InitialHypothesis, FirstGap, Positions
<1>3. seed.last = IF gap > 0 THEN <<0, gap - 1>> ELSE NoRange
  BY <1>2, ExpansionAssumption DEF InitialHypothesis, Positions, NOT_FOUND
<1>4. ComputeDistortionDistance(seed.last, gap) = 0
  <2>1. CASE gap > 0
    BY <1>2, <1>3, <2>1 DEF ComputeDistortionDistance, NoRange, Abs
  <2>2. CASE ~(gap > 0)
    BY <1>2, <1>3, <2>2 DEF ComputeDistortionDistance
  <2> QED BY <2>1, <2>2
<1> QED BY <1>2, <1>4, ExpansionAssumption

\* Every extension that the look-ahead at the distortion limit lets through
\* keeps its first gap within reach.
LEMMA ExtendKeepsGapWithinReach ==
  ASSUME MaxDistortion >= 0, NEW s, NEW hypo \in Hypotheses,
         GapWithinReach(hypo), NEW span \in Spans,
         CanExtend(s, hypo, span[1], span[2])
  PROVE  GapWithinReach(Extend(hypo, span))
<1> DEFINE start == span[1]
           end == span[2]
           new == Extend(hypo, span)
           old == FirstGap(hypo)
<1> SUFFICES ASSUME NEW gap \in Positions(Size), gap = FirstGap(new)
             PROVE  /\ ComputeDistortionDistance(new.last, gap) <= MaxDistortion
                    /\ \A pos \in new.cov : pos + 1 - gap <= MaxDistortion
  BY DEF GapWithinReach
<1>1. /\ start \in Positions(Size) /\ end \in Positions(Size) /\ start <= end
      /\ span = <<start, end>>
      /\ Positions(Size) \subseteq Nat /\ MaxDistortion \in Nat
  BY ExpansionAssumption DEF Spans, Positions
<1>2. /\ start .. end \cap hypo.cov = {}
      /\ old <= start
      /\ \/ start = old
         \/ ComputeDistortionDistance(<<start, end>>, old) <= MaxDistortion
  BY DEF CanExtend, Overlap
<1>3. new.cov = hypo.cov \cup (start .. end) /\ new.last = <<start, end>>
  BY <1>1 DEF Extend, SetValue
<1>4. /\ old \in Positions(Size) /\ old \notin hypo.cov
      /\ \A pos \in Positions(Size) : pos < old => pos \in hypo.cov
  <2>1. start \notin hypo.cov
    BY <1>1, <1>2
  <2>2. Gaps(Size, hypo.cov) # {}
    BY <1>1, <2>1 DEF Gaps
  <2> QED BY <2>2, FirstGapIsFirst DEF FirstGap
<1>5. /\ gap \notin new.cov
      /\ \A pos \in Positions(Size) : pos < gap => pos \in new.cov
  BY FirstGapIsFirst, FirstGapIsGap DEF FirstGap
<1>6. \A pos \in hypo.cov : pos \in Nat /\ pos + 1 - old <= MaxDistortion
  BY <1>1, <1>4 DEF GapWithinReach, Hypotheses
<1>7. old <= gap
  BY <1>1, <1>3, <1>4, <1>5
<1>8. ComputeDistortionDistance(new.last, gap) = Abs(end - gap + 1)
  BY <1>1, <1>3 DEF ComputeDistortionDistance, NoRange
<1>9. CASE start = old
  <2>1. end < gap
    BY <1>1, <1>3, <1>5, <1>7, <1>9
  <2>2. gap - end - 1 <= MaxDistortion
    <3>1. CASE gap = end + 1
      BY <1>1, <3>1
    <3>2. CASE gap # end + 1
      <4>1. gap - 1 \in Positions(Size) /\ gap - 1 > end
        BY <1>1, <2>1, <3>2, ExpansionAssumption DEF Positions
      <4>2. gap - 1 \in hypo.cov
        BY <1>1, <1>3, <1>5, <4>1
      <4> QED BY <1>1, <1>4, <1>6, <1>9, <4>2
    <3> QED BY <3>1, <3>2
  <2>3. Abs(end - gap + 1) <= MaxDistortion
    BY <1>1, <2>1, <2>2 DEF Abs
  <2>4. ASSUME NEW pos \in new.cov
        PROVE  pos + 1 - gap <= MaxDistortion
    <3>1. CASE pos \in hypo.cov
      BY <1>1, <1>4, <1>6, <1>7, <3>1
    <3>2. CASE pos \in start .. end
      BY <1>1, <2>1, <3>2
    <3> QED BY <1>3, <3>1, <3>2
  <2> QED BY <1>8, <2>3, <2>4
<1>10. CASE start # old
  <2>1. gap = old
    <3>1. old \notin new.cov
      BY <1>1, <1>2, <1>3, <1>4, <1>10
    <3> QED BY <1>1, <1>4, <1>5, <1>7, <3>1
  <2>2. ComputeDistortionDistance(<<start, end>>, old) = end - old + 1
    BY <1>1, <1>2, <1>4 DEF ComputeDistortionDistance, NoRange, Abs
  <2>3. end - old + 1 <= MaxDistortion
    BY <1>2, <1>10, <2>2
  <2>4. ASSUME NEW pos \in new.cov
        PROVE  pos + 1 - gap <= MaxDistortion
    <3>1. CASE pos \in hypo.cov
      BY <1>6, <2>1, <3>1
    <3>2. CASE pos \in start .. end
      BY <1>1, <1>4, <2>1, <2>3, <3>2
    <3> QED BY <1>3, <3>1, <3>2
  <2> QED BY <1>3, <2>1, <2>2, <2>3, <2>4
<1> QED BY <1>9, <1>10

\* A member of the union of a family of sets is a member of one of them.
LEMMA UnionOfRange ==
  ASSUME NEW F, NEW I, NEW x
  PROVE  x \in UNION {F[k] : k \in I} <=> \E k \in I : x \in F[k]
<1>1. ASSUME NEW k \in I, x \in F[k]
      PROVE  x \in UNION {F[j] : j \in I}
  <2>1. F[k] \in {F[j] : j \in I}
    OBVIOUS
  <2> QED BY <1>1, <2>1, Zenon
<1>2. ASSUME x \in UNION {F[k] : k \in I}
      PROVE  \E k \in I : x \in F[k]
  <2>1. PICK X \in {F[k] : k \in I} : x \in X
    BY <1>2, Zenon
  <2>2. PICK k \in I : X = F[k]
    BY <2>1
  <2> QED BY <2>1, <2>2
<1> QED BY <1>1, <1>2

\* A live hypothesis is in a stack, waiting to be expanded, or just built.
LEMMA LiveMembers ==
  ASSUME NEW hypo
  PROVE  hypo \in Live <=> \/ \E k \in 0 .. Size : hypo \in stack[k]
                           \/ hypo \in todo
                           \/ hypo \in built
BY UnionOfRange, Zenon DEF Live

\* The same for the next state.
LEMMA LiveMembersNext ==
  ASSUME NEW hypo
  PROVE  hypo \in Live' <=> \/ \E k \in 0 .. Size : hypo \in stack'[k]
                            \/ hypo \in todo'
                            \/ hypo \in built'
BY UnionOfRange, Zenon DEF Live

\* Live hypotheses are hypotheses.
LEMMA LiveAreHypotheses ==
  ASSUME TypeOK, NEW hypo \in Live PROVE hypo \in Hypotheses
BY LiveMembers DEF TypeOK

\* Every live hypothesis of a next state was live before, or extends one.
LEMMA LiveStep ==
  ASSUME TypeOK, [Next]_vars, NEW hypo \in Live'
  PROVE  \/ hypo \in Live
         \/ \E old \in todo : hypo \in Extensions(source, old)
<1> DEFINE InStack(st) == \E k \in 0 .. Size : hypo \in st[k]
<1>1. InStack(stack') \/ hypo \in todo' \/ hypo \in built'
  BY LiveMembersNext
<1>2. InStack(stack) \/ hypo \in todo \/ hypo \in built => hypo \in Live
  BY LiveMembers
<1>3. CASE OutOfTime \/ EndStack \/ UNCHANGED vars
  BY <1>1, <1>2, <1>3 DEF OutOfTime, EndStack, vars
<1>4. CASE BeginStack
  <2>1. cur \in 0 .. Size
    BY <1>4, ExpansionAssumption DEF BeginStack, TypeOK
  <2>2. PICK kept \in PruneToSize(stack[cur]) :
          stack' = [stack EXCEPT ![cur] = kept] /\ todo' = kept
    BY <1>4 DEF BeginStack
  <2>3. kept \subseteq stack[cur]
    BY <2>2, PruneToSizeSubset
  <2>4. hypo \in todo' => InStack(stack)
    BY <2>1, <2>2, <2>3
  <2>5. InStack(stack') => InStack(stack)
    BY <2>1, <2>2, <2>3 DEF TypeOK
  <2> QED BY <1>1, <1>2, <1>4, <2>4, <2>5 DEF BeginStack
<1>5. CASE ProcessOneHypothesis
  BY <1>1, <1>2, <1>5 DEF ProcessOneHypothesis
<1>6. CASE ExpandHypothesis
  <2>1. PICK next \in built :
          /\ \E S \in AddPrune(stack[GetNumWordsCovered(next.cov)], next) :
               stack' = [stack EXCEPT ![GetNumWordsCovered(next.cov)] = S]
          /\ built' = built \ {next}
    BY <1>6, Zenon DEF ExpandHypothesis
  <2> DEFINE k == GetNumWordsCovered(next.cov)
  <2>2. PICK S \in AddPrune(stack[k], next) :
          stack' = [stack EXCEPT ![k] = S]
    BY <2>1, Zenon
  <2>3. S \subseteq stack[k] \cup {next}
    BY <2>2, AddPruneSubset
  <2> HIDE DEF k
  <2>4. InStack(stack') => InStack(stack) \/ hypo = next
    BY <2>2, <2>3 DEF TypeOK
  <2> QED BY <1>1, <1>2, <1>6, <2>1, <2>4 DEF ExpandHypothesis
<1> QED BY <1>3, <1>4, <1>5, <1>6 DEF Next

\* SearchNormal never makes a hypothesis whose first gap the distortion limit
\* would keep from being filled.
THEOREM DistortionReachable == Spec => []DistortionReachability
<1>1. Init => DistortionReachability
  <2> SUFFICES ASSUME Init, MaxDistortion >= 0, NEW hypo \in Live
               PROVE  GapWithinReach(hypo)
    BY DEF DistortionReachability
  <2>1. hypo = InitialHypothesis(source.completed)
    BY DEF Init, Live
  <2> QED BY <2>1, SeedGapWithinReach DEF Init
<1>2. TypeOK /\ DistortionReachability /\ [Next]_vars
        => DistortionReachability'
  <2> SUFFICES ASSUME TypeOK, DistortionReachability, [Next]_vars,
                      MaxDistortion >= 0, NEW hypo \in Live'
               PROVE  GapWithinReach(hypo)
    BY DEF DistortionReachability
  <2>1. CASE hypo \in Live
    BY <2>1 DEF DistortionReachability
  <2>2. ASSUME NEW old \in todo, hypo \in Extensions(source, old)
        PROVE  GapWithinReach(hypo)
    <3>1. old \in Hypotheses /\ GapWithinReach(old)
      BY LiveMembers, LiveAreHypotheses DEF DistortionReachability
    <3>2. PICK span \in Spans : /\ CanExtend(source, old, span[1], span[2])
                                /\ hypo = Extend(old, span)
      BY <2>2 DEF Extensions
    <3> QED BY <3>1, <3>2, ExtendKeepsGapWithinReach
  <2> QED BY <2>1, <2>2, LiveStep
<1> QED BY <1>1, <1>2, TypeCorrect, PTL DEF Spec

(***************************************************************************)
(* What FinalizeWalls makes of the walls and zones of the input: no wall   *)
(* is left inside a zone, and a local one belongs to the innermost zone    *)
(* around it.                                                              *)
(***************************************************************************)

\* Induction over the natural numbers, for a set of them.
LEMMA AllNumbers ==
  ASSUME NEW S, 0 \in S, \A n \in Nat : n \in S => n + 1 \in S
  PROVE  Nat \subseteq S
<1> SUFFICES ASSUME Nat \ S # {} PROVE FALSE
  OBVIOUS
<1>1. PICK m \in Nat \ S : \A other \in Nat \ S : m <= other
  <2>1. Nat \ S \subseteq Nat
    OBVIOUS
  <2> QED BY <2>1, LeastElement, Zenon
<1>2. m # 0 /\ m - 1 \in Nat /\ m - 1 < m /\ (m - 1) + 1 = m
  BY <1>1
<1>3. m - 1 \in S
  BY <1>1, <1>2
<1> QED BY <1>1, <1>2, <1>3

\* The rounds of FinalizeWalls up to zone n: g[z] is the constraint behind zone z.
Rounds(rc, g, n) ==
  g = [z \in 0 .. n |-> IF z = 0 THEN rc ELSE FinalizeZone(g[z - 1], z)]

\* The loop over the zones has a result, as each round needs the one before only.
LEMMA RoundsExist ==
  ASSUME NEW rc, NEW n \in Nat
  PROVE  \E g : Rounds(rc, g, n)
<1> DEFINE S == {k \in Nat : \E g : Rounds(rc, g, k)}
<1>1. 0 \in S
  <2> DEFINE g == [z \in 0 .. 0 |-> rc]
  <2>1. g = [z \in 0 .. 0 |-> IF z = 0 THEN rc ELSE FinalizeZone(g[z - 1], z)]
    OBVIOUS
  <2> QED BY <2>1 DEF Rounds
<1>2. ASSUME NEW k \in Nat, k \in S PROVE k + 1 \in S
  <2>1. PICK g : Rounds(rc, g, k)
    BY <1>2
  <2> DEFINE Round(f, z) == IF z = 0 THEN rc ELSE FinalizeZone(f[z - 1], z)
             h == [z \in 0 .. k + 1 |-> Round(g, z)]
  <2>2. \A z \in 0 .. k : g[z] = Round(g, z)
    BY <2>1, Zenon DEF Rounds
  <2>3. \A z \in 0 .. k : z \in 0 .. k + 1
    OBVIOUS
  <2>4. \A z \in 0 .. k : h[z] = g[z]
    BY <2>2, <2>3
  <2>5. \A z \in 0 .. k + 1 : z = 0 \/ z - 1 \in 0 .. k
    OBVIOUS
  <2>6. ASSUME NEW z \in 0 .. k + 1 PROVE Round(h, z) = Round(g, z)
    <3> HIDE DEF h
    <3>1. z # 0 => h[z - 1] = g[z - 1]
      BY <2>4, <2>5
    <3> QED BY <3>1
  <2>7. h = [z \in 0 .. k + 1 |-> Round(h, z)]
    BY <2>6
  <2>8. Rounds(rc, h, k + 1)
    BY <2>7, Zenon DEF Rounds
  <2> QED BY <2>8
<1> HIDE DEF S
<1>3. n \in S
  BY <1>1, <1>2, AllNumbers
<1> QED BY <1>3 DEF S

\* FinalizeWalls is the last round.
LEMMA LastRound ==
  ASSUME NEW rc, Len(rc.zone) \in Nat
  PROVE  \E g : Rounds(rc, g, Len(rc.zone)) /\ FinalizeWalls(rc) = g[Len(rc.zone)]
<1> DEFINE N == Len(rc.zone)
           after == CHOOSE g : g = [z \in 0 .. N |-> IF z = 0 THEN rc ELSE FinalizeZone(g[z - 1], z)]
<1>1. \E g : g = [z \in 0 .. N |-> IF z = 0 THEN rc ELSE FinalizeZone(g[z - 1], z)]
  <2>1. PICK g : Rounds(rc, g, N)
    BY RoundsExist
  <2> QED BY <2>1, Zenon DEF Rounds
<1>2. after = [z \in 0 .. N |-> IF z = 0 THEN rc ELSE FinalizeZone(after[z - 1], z)]
  BY <1>1, Zenon
<1>3. FinalizeWalls(rc) = after[N]
  BY Zenon DEF FinalizeWalls
<1>4. Rounds(rc, after, N)
  BY <1>2, Zenon DEF Rounds
<1> QED BY <1>3, <1>4, Zenon

\* The words of a zone behind which a wall is local to it.
Inside(s, z) == s.zones[z][1] .. s.zones[z][2] - 1

\* Of the first n zones around a position, zone y is the innermost.
Innermost(s, n, y, pos) ==
  /\ pos \in Inside(s, y)
  /\ \A z \in 1 .. n : pos \in Inside(s, z) =>
       s.zones[z][1] <= s.zones[y][1] /\ s.zones[y][2] <= s.zones[z][2]

Constraints(s) ==
  [active : {s.walls # {} \/ s.zones # <<>>}, wall : SUBSET s.walls,
   localWall : [Positions(Size) -> Nat], zone : {s.zones}]

\* The constraint behind round n.
Settled(s, rc, n) ==
  /\ rc \in Constraints(s)
  /\ \A z \in 1 .. n : rc.wall \cap Inside(s, z) = {}
  /\ \A pos \in Positions(Size) :
       \/ rc.localWall[pos] = NOT_A_ZONE
       \/ rc.localWall[pos] \in 1 .. n /\ Innermost(s, n, rc.localWall[pos], pos)

\* The zones of the input, and where they lie.
LEMMA ZonesOfInput ==
  ASSUME NEW s \in Sources
  PROVE  /\ Len(s.zones) \in Nat /\ Len(s.zones) < NOT_A_ZONE
         /\ DOMAIN s.zones = 1 .. Len(s.zones)
         /\ \A z \in DOMAIN s.zones :
              /\ s.zones[z][1] \in Positions(Size) /\ s.zones[z][2] \in Positions(Size)
              /\ s.zones[z][1] <= s.zones[z][2]
              /\ Inside(s, z) \subseteq Positions(Size)
         /\ \A y, z \in DOMAIN s.zones : Nested(s.zones[y], s.zones[z])
<1>1. s.zones \in Seq(Spans) /\ Len(s.zones) < NOT_A_ZONE
  BY ConstraintAssumption
<1>2. Len(s.zones) \in Nat /\ DOMAIN s.zones = 1 .. Len(s.zones)
  BY <1>1
<1>3. \A z \in DOMAIN s.zones : s.zones[z] \in Spans
  BY <1>1
<1>4. \A z \in DOMAIN s.zones :
        /\ s.zones[z][1] \in Positions(Size) /\ s.zones[z][2] \in Positions(Size)
        /\ s.zones[z][1] <= s.zones[z][2]
  BY <1>3 DEF Spans
<1>5. \A z \in DOMAIN s.zones : Inside(s, z) \subseteq Positions(Size)
  BY <1>4, ExpansionAssumption DEF Inside, Positions
<1> QED BY <1>1, <1>2, <1>4, <1>5, ConstraintAssumption

\* Zone y lies around zone z.
Around(s, z, y) == s.zones[y][1] <= s.zones[z][1] /\ s.zones[z][2] <= s.zones[y][2]

\* Of two zones that have a word inside in common, the one that reaches out of the other lies
\* around it.
LEMMA InnerOfTwo ==
  ASSUME NEW s \in Sources, NEW y \in DOMAIN s.zones, NEW z \in DOMAIN s.zones,
         NEW pos, pos \in Inside(s, y), pos \in Inside(s, z),
         s.zones[y][1] < s.zones[z][1] \/ s.zones[y][2] > s.zones[z][2]
  PROVE  Around(s, z, y)
<1>1. /\ s.zones[y][1] \in Int /\ s.zones[y][2] \in Int
      /\ s.zones[z][1] \in Int /\ s.zones[z][2] \in Int
      /\ Nested(s.zones[y], s.zones[z])
  BY ZonesOfInput, ExpansionAssumption DEF Positions
<1>2. /\ s.zones[z][1] <= pos /\ pos < s.zones[z][2]
      /\ s.zones[y][1] <= pos /\ pos < s.zones[y][2] /\ pos \in Int
  BY <1>1 DEF Inside
<1> QED BY <1>1, <1>2 DEF Nested, Around

\* A round settles its zone: the walls inside become local, and those of zones around it
\* change hands.
LEMMA RoundSettles ==
  ASSUME NEW s \in Sources, NEW rc, NEW n \in Nat, n + 1 <= Len(s.zones), Settled(s, rc, n)
  PROVE  Settled(s, FinalizeZone(rc, n + 1), n + 1)
<1> DEFINE z == n + 1
           new == FinalizeZone(rc, z)
           inside == Inside(s, z)
           Outer(y) == s.zones[y][1] < s.zones[z][1] \/ s.zones[y][2] > s.zones[z][2]
           Taken(pos) == /\ pos \in inside
                         /\ \/ pos \in rc.wall
                            \/ rc.localWall[pos] # NOT_A_ZONE /\ Outer(rc.localWall[pos])
<1>1. /\ rc \in Constraints(s) /\ rc.zone = s.zones
      /\ z \in DOMAIN s.zones /\ DOMAIN s.zones = 1 .. Len(s.zones)
  BY ZonesOfInput DEF Settled, Constraints
<1>2. new = [rc EXCEPT
               !.wall = rc.wall \ inside,
               !.localWall = [pos \in Positions(Size) |->
                                IF Taken(pos) THEN z ELSE rc.localWall[pos]]]
  BY <1>1 DEF FinalizeZone, Inside, Constraints
<1>3. /\ new.wall = rc.wall \ inside /\ new.zone = rc.zone /\ new.active = rc.active
      /\ \A pos \in Positions(Size) :
           new.localWall[pos] = IF Taken(pos) THEN z ELSE rc.localWall[pos]
      /\ new \in Constraints(s)
  <2> DEFINE lw == [pos \in Positions(Size) |-> IF Taken(pos) THEN z ELSE rc.localWall[pos]]
  <2>1. /\ rc.localWall \in [Positions(Size) -> Nat] /\ rc.wall \subseteq s.walls
        /\ rc.active = (s.walls # {} \/ s.zones # <<>>)
    BY <1>1 DEF Constraints
  <2>2. lw \in [Positions(Size) -> Nat]
    <3> HIDE DEF Taken
    <3> QED BY <2>1
  <2>3. \A pos \in Positions(Size) : lw[pos] = IF Taken(pos) THEN z ELSE rc.localWall[pos]
    <3> HIDE DEF Taken
    <3> QED OBVIOUS
  <2>4. new = [rc EXCEPT !.wall = rc.wall \ inside, !.localWall = lw]
    BY <1>2, Zenon
  <2> HIDE DEF lw, new
  <2>5. new = [active |-> rc.active, wall |-> rc.wall \ inside, localWall |-> lw, zone |-> rc.zone]
    BY <1>1, <2>4 DEF Constraints
  <2>6. /\ new.wall = rc.wall \ inside /\ new.zone = rc.zone /\ new.active = rc.active
        /\ new.localWall = lw
    BY <2>5
  <2>7. new \in Constraints(s)
    BY <1>1, <2>1, <2>2, <2>5 DEF Constraints
  <2> QED BY <2>3, <2>6, <2>7
<1>4. \A y \in 1 .. z : new.wall \cap Inside(s, y) = {}
  <2>1. \A y \in 1 .. z : y \in 1 .. n \/ y = z
    OBVIOUS
  <2> QED BY <1>3, <2>1 DEF Settled
<1>5. ASSUME NEW pos \in Positions(Size)
      PROVE  \/ new.localWall[pos] = NOT_A_ZONE
             \/ new.localWall[pos] \in 1 .. z /\ Innermost(s, z, new.localWall[pos], pos)
  <2> DEFINE y == rc.localWall[pos]
  <2>1. \/ y = NOT_A_ZONE
        \/ y \in 1 .. n /\ Innermost(s, n, y, pos)
    BY DEF Settled
  <2>2. \A x \in 1 .. z : x \in 1 .. n \/ x = z
    OBVIOUS
  <2>3. \A x \in 1 .. z : x \in DOMAIN s.zones /\ s.zones[x][1] \in Int /\ s.zones[x][2] \in Int
    BY <1>1, ZonesOfInput, ExpansionAssumption DEF Positions
  <2>4. CASE ~Taken(pos) /\ pos \notin inside
    <3>1. new.localWall[pos] = y
      BY <1>3, <2>4
    <3>2. y \in 1 .. n /\ Innermost(s, n, y, pos) => y \in 1 .. z /\ Innermost(s, z, y, pos)
      BY <2>2, <2>4 DEF Innermost
    <3> QED BY <2>1, <3>1, <3>2
  <2>5. CASE ~Taken(pos) /\ pos \in inside
    <3>1. new.localWall[pos] = y /\ (y = NOT_A_ZONE \/ ~Outer(y))
      BY <1>3, <2>5
    <3>2. ASSUME y \in 1 .. n, Innermost(s, n, y, pos), ~Outer(y)
          PROVE  y \in 1 .. z /\ Innermost(s, z, y, pos)
      <4>1. y \in 1 .. z
        BY <3>2
      <4>2. s.zones[z][1] <= s.zones[y][1] /\ s.zones[y][2] <= s.zones[z][2]
        <5>1. \A a, b \in Int : (~(a < b) => b <= a) /\ (~(a > b) => a <= b)
          OBVIOUS
        <5>2. z \in 1 .. z
          BY <1>1
        <5>3. /\ s.zones[z][1] \in Int /\ s.zones[z][2] \in Int
              /\ s.zones[y][1] \in Int /\ s.zones[y][2] \in Int
          BY <2>3, <4>1, <5>2, Zenon
        <5>4. ~(s.zones[y][1] < s.zones[z][1]) /\ ~(s.zones[y][2] > s.zones[z][2])
          BY <3>2, Zenon
        <5> QED BY <5>1, <5>3, <5>4, Zenon
      <4>3. \A x \in 1 .. z : pos \in Inside(s, x)
              => s.zones[x][1] <= s.zones[y][1] /\ s.zones[y][2] <= s.zones[x][2]
        BY <2>2, <3>2, <4>1, <4>2 DEF Innermost
      <4> QED BY <3>2, <4>1, <4>3, Zenon DEF Innermost
    <3> QED BY <2>1, <3>1, <3>2
  <2>6. CASE Taken(pos)
    <3>1. new.localWall[pos] = z /\ pos \in inside /\ z \in 1 .. z
      BY <1>3, <2>6
    <3>2. ASSUME NEW x \in 1 .. n, pos \in Inside(s, x)
          PROVE  s.zones[x][1] <= s.zones[z][1] /\ s.zones[z][2] <= s.zones[x][2]
      <4>1. pos \notin rc.wall
        BY <3>2 DEF Settled
      <4>2. y \in 1 .. n /\ Innermost(s, n, y, pos) /\ Outer(y)
        BY <2>1, <2>6, <4>1
      <4>3. /\ s.zones[x][1] <= s.zones[y][1] /\ s.zones[y][2] <= s.zones[x][2]
            /\ pos \in Inside(s, y)
        BY <3>2, <4>2 DEF Innermost
      <4>4. Nested(s.zones[y], s.zones[z])
        BY <2>3, <4>2, ZonesOfInput
      <4>5. x \in 1 .. z /\ y \in 1 .. z
        BY <4>2
      <4>6. Around(s, z, y)
        <5>1. /\ y \in DOMAIN s.zones /\ z \in DOMAIN s.zones
              /\ pos \in Inside(s, y) /\ pos \in Inside(s, z)
          BY <1>1, <2>3, <3>1, <4>3, <4>5
        <5>2. s.zones[y][1] < s.zones[z][1] \/ s.zones[y][2] > s.zones[z][2]
          BY <4>2
        <5> HIDE DEF y, z
        <5> QED BY <5>1, <5>2, InnerOfTwo
      <4>7. /\ s.zones[x][1] \in Int /\ s.zones[x][2] \in Int
            /\ s.zones[y][1] \in Int /\ s.zones[y][2] \in Int
            /\ s.zones[z][1] \in Int /\ s.zones[z][2] \in Int
        BY <2>3, <3>1, <4>5
      <4>8. s.zones[y][1] <= s.zones[z][1] /\ s.zones[z][2] <= s.zones[y][2]
        BY <4>6 DEF Around
      <4>9. s.zones[x][1] <= s.zones[y][1] /\ s.zones[y][2] <= s.zones[x][2]
        BY <4>3
      <4>10. \A a, b, c \in Int : a <= b /\ b <= c => a <= c
        OBVIOUS
      <4> QED BY <4>7, <4>8, <4>9, <4>10, Zenon
    <3>3. Innermost(s, z, z, pos)
      BY <2>2, <2>3, <3>1, <3>2 DEF Innermost
    <3> QED BY <3>1, <3>3
  <2> QED BY <2>4, <2>5, <2>6
<1> QED BY <1>3, <1>4, <1>5 DEF Settled

\* The constraint of a sentence is settled.
LEMMA ConstraintSettled ==
  ASSUME NEW s \in Sources
  PROVE  Settled(s, s.constraint, Len(s.zones))
<1> DEFINE N == Len(s.zones)
           raw == RawConstraint(Size, s.walls, s.zones)
<1>1. N \in Nat /\ N < NOT_A_ZONE
  BY ZonesOfInput
<1>2. raw.zone = s.zones /\ Settled(s, raw, 0)
  BY DEF RawConstraint, Settled, Constraints, NOT_A_ZONE
<1>3. PICK g : Rounds(raw, g, N) /\ s.constraint = g[N]
  <2>1. s.constraint = FinalizeWalls(raw)
    BY ConstraintAssumption
  <2>2. \E g : Rounds(raw, g, Len(raw.zone)) /\ FinalizeWalls(raw) = g[Len(raw.zone)]
    BY <1>1, <1>2, LastRound
  <2> QED BY <1>2, <2>1, <2>2
<1>4. \A z \in 0 .. N : g[z] = IF z = 0 THEN raw ELSE FinalizeZone(g[z - 1], z)
  BY <1>3, Zenon DEF Rounds
<1> DEFINE S == {n \in Nat : n <= N => Settled(s, g[n], n)}
<1>5. 0 \in S
  BY <1>1, <1>2, <1>4
<1>6. ASSUME NEW n \in Nat, n \in S PROVE n + 1 \in S
  <2>1. n + 1 <= N => g[n + 1] = FinalizeZone(g[n], n + 1)
    BY <1>1, <1>4
  <2> QED BY <1>1, <1>6, <2>1, RoundSettles
<1> HIDE DEF S
<1>7. N \in S
  BY <1>1, <1>5, <1>6, AllNumbers
<1> QED BY <1>1, <1>3, <1>7 DEF S

Start(s, z) == s.constraint.zone[z][1]

End(s, z) == s.constraint.zone[z][2]

\* What the search needs to know of a constraint.
LEMMA ZoneFacts ==
  ASSUME NEW s \in Sources, NEW z \in Zones(s)
  PROVE  /\ Start(s, z) \in Positions(Size) /\ End(s, z) \in Positions(Size)
         /\ Start(s, z) \in Nat /\ End(s, z) \in Nat /\ Start(s, z) <= End(s, z)
         /\ ZoneWords(s, z) = Start(s, z) .. End(s, z)
         /\ ZoneWords(s, z) \subseteq Positions(Size)
         /\ s.constraint.active
<1>1. s.constraint \in Constraints(s)
  BY ConstraintSettled DEF Settled
<1>2. s.constraint.zone = s.zones /\ z \in DOMAIN s.zones
  BY <1>1 DEF Constraints, Zones
<1>3. s.zones # <<>> => s.constraint.active
  BY <1>1 DEF Constraints
<1>4. s.zones # <<>>
  BY <1>2
<1> QED BY <1>2, <1>3, <1>4, ZonesOfInput, ExpansionAssumption
        DEF Start, End, ZoneWords, Positions

LEMMA WallFacts ==
  ASSUME NEW s \in Sources, NEW wall \in s.constraint.wall
  PROVE  /\ wall \in Positions(Size) /\ s.constraint.active
         /\ \A z \in Zones(s) : wall \in ZoneWords(s, z) => wall = End(s, z)
<1>1. /\ s.constraint \in Constraints(s)
      /\ \A z \in 1 .. Len(s.zones) : s.constraint.wall \cap Inside(s, z) = {}
  BY ConstraintSettled DEF Settled
<1>2. /\ s.constraint.zone = s.zones /\ s.constraint.wall \subseteq s.walls
  BY <1>1 DEF Constraints
<1>3. wall \in Positions(Size) /\ s.constraint.active /\ wall \in Int
  <2>1. wall \in s.walls /\ s.walls \subseteq Positions(Size)
    BY <1>2, ConstraintAssumption
  <2>2. s.walls # {} => s.constraint.active
    BY <1>1 DEF Constraints
  <2> QED BY <2>1, <2>2, ExpansionAssumption DEF Positions
<1>4. ASSUME NEW z \in Zones(s), wall \in ZoneWords(s, z)
      PROVE  wall = End(s, z)
  <2>1. wall \notin Inside(s, z) /\ z \in DOMAIN s.zones
    BY <1>1, <1>2, ZonesOfInput DEF Zones
  <2> QED BY <1>2, <1>3, <1>4, <2>1, ZoneFacts DEF Inside, End, Start, ZoneWords
<1> QED BY <1>3, <1>4

LEMMA LocalWallFacts ==
  ASSUME NEW s \in Sources, NEW y \in Zones(s), NEW pos \in Positions(Size),
         s.constraint.localWall[pos] = y
  PROVE  /\ pos \in ZoneWords(s, y)
         /\ \A z \in Zones(s) : pos \in ZoneWords(s, z) /\ pos < End(s, z)
              => ZoneWords(s, y) \subseteq ZoneWords(s, z)
<1>1. /\ s.constraint \in Constraints(s)
      /\ \/ s.constraint.localWall[pos] = NOT_A_ZONE
         \/ Innermost(s, Len(s.zones), s.constraint.localWall[pos], pos)
  BY ConstraintSettled DEF Settled
<1>2. s.constraint.zone = s.zones
  BY <1>1 DEF Constraints
<1>3. Zones(s) = 1 .. Len(s.zones) /\ y # NOT_A_ZONE
  BY <1>2, ZonesOfInput DEF Zones, NOT_A_ZONE
<1>4. Innermost(s, Len(s.zones), y, pos)
  BY <1>1, <1>3
<1>5. pos \in Int
  BY ExpansionAssumption DEF Positions
<1>6. pos \in ZoneWords(s, y)
  BY <1>2, <1>4, <1>5, ZoneFacts DEF Innermost, Inside, ZoneWords, Start, End
<1>7. ASSUME NEW z \in Zones(s), pos \in ZoneWords(s, z), pos < End(s, z)
      PROVE  ZoneWords(s, y) \subseteq ZoneWords(s, z)
  <2>1. pos \in Inside(s, z)
    BY <1>2, <1>5, <1>7, ZoneFacts DEF Inside, ZoneWords, Start, End
  <2>2. s.zones[z][1] <= s.zones[y][1] /\ s.zones[y][2] <= s.zones[z][2]
    BY <1>3, <1>4, <2>1 DEF Innermost
  <2>3. Start(s, z) <= Start(s, y) /\ End(s, y) <= End(s, z)
    BY <1>2, <2>2 DEF Start, End
  <2> QED BY <2>3, ZoneFacts
<1> QED BY <1>6, <1>7

\* Zones lie one in the other, or they have no word in common.
LEMMA ZonesNest ==
  ASSUME NEW s \in Sources, NEW y \in Zones(s), NEW z \in Zones(s)
  PROVE  \/ ZoneWords(s, y) \cap ZoneWords(s, z) = {}
         \/ ZoneWords(s, y) \subseteq ZoneWords(s, z)
         \/ ZoneWords(s, z) \subseteq ZoneWords(s, y)
<1>1. s.constraint \in Constraints(s)
  BY ConstraintSettled DEF Settled
<1>2. s.constraint.zone = s.zones
  BY <1>1 DEF Constraints
<1>3. Nested(s.zones[y], s.zones[z])
  BY <1>2, ZonesOfInput DEF Zones
<1>4. \/ End(s, y) < Start(s, z) \/ End(s, z) < Start(s, y)
      \/ Start(s, z) <= Start(s, y) /\ End(s, y) <= End(s, z)
      \/ Start(s, y) <= Start(s, z) /\ End(s, z) <= End(s, y)
  BY <1>2, <1>3 DEF Nested, Start, End
<1> QED BY <1>4, ZoneFacts

(***************************************************************************)
(* What Check allows.                                                      *)
(***************************************************************************)

\* GetLastPos is the last word translated, if any is.
LEMMA LastPosIsLast ==
  ASSUME NEW bm, bm \subseteq Positions(Size)
  PROVE  /\ bm = {} => GetLastPos(bm) = NOT_FOUND
         /\ bm # {} => /\ GetLastPos(bm) \in bm
                       /\ \A pos \in bm : pos <= GetLastPos(bm)
<1> SUFFICES ASSUME bm # {}
             PROVE  /\ GetLastPos(bm) \in bm
                    /\ \A pos \in bm : pos <= GetLastPos(bm)
  BY DEF GetLastPos
<1> DEFINE S == {n \in Nat : Size - n \in bm}
<1>1. S \subseteq Nat /\ S # {}
  <2>1. PICK pos \in bm : TRUE
    OBVIOUS
  <2>2. Size - pos \in Nat /\ Size - (Size - pos) = pos
    BY ExpansionAssumption DEF Positions
  <2>3. Size - pos \in S
    BY <2>1, <2>2
  <2> QED BY <2>3
<1>2. PICK n \in S : \A other \in S : n <= other
  <2> HIDE DEF S
  <2> QED BY <1>1, LeastElement, Zenon
<1>3. ASSUME NEW pos \in bm PROVE pos <= Size - n
  <2>1. Size - pos \in Nat /\ Size - (Size - pos) = pos /\ pos \in Int
    BY ExpansionAssumption DEF Positions
  <2>2. Size - pos \in S
    BY <2>1
  <2>3. n <= Size - pos
    BY <1>2, <2>2
  <2> QED BY <2>1, <2>3, <1>2, ExpansionAssumption
<1>4. Size - n \in bm
  BY <1>2
<1>5. \E pos \in bm : \A other \in bm : other <= pos
  BY <1>3, <1>4
<1>6. GetLastPos(bm) = CHOOSE pos \in bm : \A other \in bm : other <= pos
  BY DEF GetLastPos
<1> QED BY <1>5, <1>6, Zenon

\* With a distortion limit of at most 17 words, GetID fails its CHECK for no live hypothesis: its last
\* word is at most 16 behind its first gap, so that the pattern fits its 16 bits.
THEOREM PatternsFit ==
  ASSUME MaxDistortion \in 0 .. 17
  PROVE  Spec => [](\A hypo \in Live : IDCheck(IDStart(Size, hypo.cov), IDEnd(hypo.cov)))
<1> DEFINE Fits(hypo) == IDCheck(IDStart(Size, hypo.cov), IDEnd(hypo.cov))
<1>1. ASSUME NEW hypo \in Hypotheses, GapWithinReach(hypo)
      PROVE  Fits(hypo)
  <2> DEFINE cov == hypo.cov
             start == IDStart(Size, cov)
             end == IDEnd(cov)
  <2>1. cov \subseteq Positions(Size) /\ Positions(Size) \subseteq Int
    BY ExpansionAssumption DEF Hypotheses, Positions
  <2>2. CASE Gaps(Size, cov) = {}
    <3>1. start = Size
      BY <2>2 DEF IDStart
    <3>2. CASE cov = {}
      <4>1. end = 0
        BY <3>2 DEF IDEnd
      <4>2. Size = 0
        BY <2>2, <3>2, ExpansionAssumption DEF Gaps, Positions
      <4> QED BY <3>1, <4>1, <4>2 DEF IDCheck
    <3>3. CASE cov # {}
      <4>1. end \in Positions(Size)
        BY <2>1, <3>3, LastPosIsLast DEF IDEnd
      <4> QED BY <3>1, <4>1, ExpansionAssumption DEF IDCheck, Positions
    <3> QED BY <3>2, <3>3
  <2>3. CASE Gaps(Size, cov) # {}
    <3>1. start = FirstGap(hypo) /\ start \in Positions(Size)
      BY <2>3, FirstGapIsFirst DEF IDStart, FirstGap
    <3>2. CASE cov = {}
      <4>1. end = 0
        BY <3>2 DEF IDEnd
      <4> QED BY <3>1, <4>1, ExpansionAssumption DEF IDCheck, Positions
    <3>3. CASE cov # {}
      <4>1. end \in cov
        BY <2>1, <3>3, LastPosIsLast DEF IDEnd
      <4>2. end + 1 - start <= MaxDistortion
        BY <1>1, <3>1, <4>1 DEF GapWithinReach
      <4>3. start \in Int /\ end \in Int
        BY <2>1, <3>1, <4>1
      <4> QED BY <4>2, <4>3 DEF IDCheck
    <3> QED BY <3>2, <3>3
  <2> QED BY <2>2, <2>3
<1>2. TypeOK /\ DistortionReachability => \A hypo \in Live : Fits(hypo)
  <2> SUFFICES ASSUME TypeOK, DistortionReachability, NEW hypo \in Live
               PROVE  Fits(hypo)
    OBVIOUS
  <2>1. hypo \in Hypotheses /\ GapWithinReach(hypo)
    BY LiveAreHypotheses DEF DistortionReachability
  <2> QED BY <1>1, <2>1
<1> QED BY <1>2, TypeCorrect, DistortionReachable, PTL

\* An extension leaves what is translated alone and comes behind the first gap.
LEMMA ExtensionFacts ==
  ASSUME NEW s, NEW hypo \in Hypotheses, NEW span \in Spans,
         CanExtend(s, hypo, span[1], span[2])
  PROVE  /\ span = <<span[1], span[2]>> /\ span[1] <= span[2]
         /\ span[1] \in Positions(Size) /\ span[2] \in Positions(Size)
         /\ span[1] \in Nat /\ span[2] \in Nat
         /\ hypo.cov \subseteq Positions(Size)
         /\ span[1] .. span[2] \cap hypo.cov = {}
         /\ Extend(hypo, span).cov = hypo.cov \cup (span[1] .. span[2])
         /\ Extend(hypo, span).last = span
         /\ FirstGap(hypo) \in Positions(Size) /\ FirstGap(hypo) \in Nat
         /\ FirstGap(hypo) \notin hypo.cov /\ FirstGap(hypo) <= span[1]
         /\ \A pos \in Positions(Size) : pos < FirstGap(hypo) => pos \in hypo.cov
<1>1. /\ span[1] \in Positions(Size) /\ span[2] \in Positions(Size) /\ span[1] <= span[2]
      /\ span = <<span[1], span[2]>> /\ Positions(Size) \subseteq Nat
  BY ExpansionAssumption DEF Spans, Positions
<1>2. span[1] .. span[2] \cap hypo.cov = {} /\ FirstGap(hypo) <= span[1]
  BY DEF CanExtend, Overlap
<1>3. span[1] \notin hypo.cov
  BY <1>1, <1>2
<1>4. Gaps(Size, hypo.cov) # {}
  BY <1>1, <1>3 DEF Gaps
<1>5. hypo.cov \subseteq Positions(Size)
  BY DEF Hypotheses
<1> QED BY <1>1, <1>2, <1>4, <1>5, FirstGapIsFirst DEF FirstGap, Extend, SetValue

Touches(s, span, z) == (span[1] .. span[2]) \cap ZoneWords(s, z) # {}

\* A phrase that leaves the first gap open does not reach over a wall.
LEMMA NoWallCrossed ==
  ASSUME NEW s \in Sources, NEW hypo \in Hypotheses, NEW span \in Spans,
         CanExtend(s, hypo, span[1], span[2]),
         NEW wall \in s.constraint.wall, FirstGap(hypo) # span[1], FirstGap(hypo) <= wall
  PROVE  span[2] <= wall
<1>1. ~HitsWall(s.constraint, FirstGap(hypo), span[1], span[2])
  BY WallFacts DEF CanExtend, Check, FirstGap
<1>2. FirstGap(hypo) \in Int /\ span[2] \in Int /\ wall \in Int
  BY ExtensionFacts, WallFacts, ExpansionAssumption DEF Positions
<1> QED BY <1>1, <1>2 DEF HitsWall

\* The number of words of a zone that are translated, as Check counts them.
LEMMA TranslatedInZone ==
  ASSUME NEW s \in Sources, NEW hypo \in Hypotheses, NEW z \in Zones(s)
  PROVE  LET words == ZoneWords(s, z)
             count == Cardinality(hypo.cov \cap words)
         IN  /\ count = IF GetLastPos(hypo.cov) >= Start(s, z) THEN count ELSE 0
             /\ count \in Nat /\ (count = 0 <=> hypo.cov \cap words = {})
             /\ count = End(s, z) - Start(s, z) + 1 <=> words \subseteq hypo.cov
             /\ \A n \in words : n > Start(s, z) /\ (n .. End(s, z)) \cap hypo.cov = {}
                  /\ End(s, z) - n + 1 >= End(s, z) - Start(s, z) + 1 - count
                => Start(s, z) .. n - 1 \subseteq hypo.cov
<1> DEFINE words == ZoneWords(s, z)
           in == hypo.cov \cap words
           a == Start(s, z)
           b == End(s, z)
<1>1. /\ a \in Nat /\ b \in Nat /\ a <= b /\ words = a .. b
      /\ hypo.cov \subseteq Positions(Size) /\ Positions(Size) \subseteq Nat
      /\ a < NOT_FOUND
  BY ZoneFacts, ExpansionAssumption DEF Hypotheses, Positions, NOT_FOUND
<1>2. IsFiniteSet(words) /\ Cardinality(words) = b - a + 1
  BY <1>1, FS_Interval
<1>3. /\ IsFiniteSet(in) /\ Cardinality(in) \in Nat
      /\ (Cardinality(in) = 0 <=> in = {})
      /\ (Cardinality(in) = b - a + 1 <=> in = words)
  <2>1. in \subseteq words
    OBVIOUS
  <2>2. IsFiniteSet(in) /\ (Cardinality(in) = Cardinality(words) => in = words)
    BY <1>2, <2>1, FS_Subset
  <2> QED BY <1>2, <2>2, FS_CardinalityType, FS_EmptySet
<1>4. ~(GetLastPos(hypo.cov) >= a) => in = {}
  <2> SUFFICES ASSUME ~(GetLastPos(hypo.cov) >= a), NEW pos \in in PROVE FALSE
    OBVIOUS
  <2>1. hypo.cov # {} /\ pos \in hypo.cov /\ pos \in Nat /\ a <= pos
    BY <1>1
  <2>2. GetLastPos(hypo.cov) \in hypo.cov /\ pos <= GetLastPos(hypo.cov)
    BY <1>1, <2>1, LastPosIsLast
  <2>3. GetLastPos(hypo.cov) \in Nat
    BY <1>1, <2>2
  <2> QED BY <1>1, <2>1, <2>2, <2>3
<1>5. ASSUME NEW n \in words, n > a, (n .. b) \cap hypo.cov = {},
             b - n + 1 >= b - a + 1 - Cardinality(in)
      PROVE  a .. n - 1 \subseteq hypo.cov
  <2>1. n \in Nat /\ n - 1 \in Int /\ a \in Int
    BY <1>1
  <2>2. in \subseteq a .. n - 1
    BY <1>1, <1>5, <2>1
  <2>3. /\ IsFiniteSet(a .. n - 1)
        /\ Cardinality(a .. n - 1) = IF a > n - 1 THEN 0 ELSE n - 1 - a + 1
    BY <2>1, FS_Interval
  <2>4. /\ Cardinality(in) <= Cardinality(a .. n - 1)
        /\ Cardinality(in) = Cardinality(a .. n - 1) => in = a .. n - 1
    BY <2>2, <2>3, FS_Subset
  <2>5. Cardinality(in) = n - a
    BY <1>1, <1>3, <1>5, <2>1, <2>3, <2>4
  <2> QED BY <1>1, <1>5, <2>1, <2>3, <2>4, <2>5
<1>6. in = words <=> words \subseteq hypo.cov
  OBVIOUS
<1> QED BY <1>3, <1>4, <1>5, <1>6

\* The shortcut of Check for monotone translation: nothing is translated behind the phrase, and
\* everything before it is.
LEMMA MonotoneMeans ==
  ASSUME NEW s \in Sources, NEW hypo \in Hypotheses, NEW span \in Spans,
         CanExtend(s, hypo, span[1], span[2]),
         Monotone(FirstGap(hypo), GetLastPos(hypo.cov), span[1])
  PROVE  /\ span[1] = FirstGap(hypo)
         /\ \A pos \in hypo.cov : pos < span[1]
         /\ \A pos \in Positions(Size) : pos <= span[2] => pos \in Extend(hypo, span).cov
<1>1. /\ span[1] \in Nat /\ span[2] \in Nat /\ FirstGap(hypo) \in Nat
      /\ FirstGap(hypo) <= span[1] /\ hypo.cov \subseteq Positions(Size)
      /\ Positions(Size) \subseteq Nat
  BY ExtensionFacts, ExpansionAssumption DEF Positions
<1>2. hypo.cov # {} => /\ GetLastPos(hypo.cov) \in hypo.cov
                       /\ GetLastPos(hypo.cov) # NOT_FOUND
                       /\ \A pos \in hypo.cov : pos <= GetLastPos(hypo.cov)
  <2>1. \A pos \in hypo.cov : pos # NOT_FOUND
    BY <1>1, ExpansionAssumption DEF Positions, NOT_FOUND
  <2> QED BY <1>1, <2>1, LastPosIsLast
<1>3. span[1] = FirstGap(hypo)
  BY <1>1 DEF Monotone
<1>4. \A pos \in hypo.cov : pos < span[1]
  BY <1>1, <1>2 DEF Monotone
<1>5. ASSUME NEW pos \in Positions(Size), pos <= span[2]
      PROVE  pos \in Extend(hypo, span).cov
  BY <1>1, <1>3, <1>5, ExtensionFacts
<1> QED BY <1>3, <1>4, <1>5

\* What the tests of Check for one zone mean for a phrase that they let pass, zone z being zs .. ze.
LEMMA ZoneAllowsMeans ==
  ASSUME NEW s \in Sources, NEW hypo \in Hypotheses, NEW span \in Spans, NEW z \in Zones(s),
         CanExtend(s, hypo, span[1], span[2]),
         ZoneAllows(s.constraint, Size, hypo.cov, span[1], span[2], MaxDistortion, z)
  PROVE  /\ Entered(s, hypo, z) => Touches(s, span, z)
         /\ Touches(s, span, z) =>
              /\ span[1] # FirstGap(hypo) =>
                   End(s, z) - FirstGap(hypo) < DistortionLimit(MaxDistortion)
              /\ \/ span[1] <= Start(s, z)
                 \/ /\ span[2] > End(s, z) /\ span[1] > Start(s, z)
                    /\ Start(s, z) .. span[1] - 1 \subseteq hypo.cov
                 \/ /\ span[2] <= End(s, z)
                    /\ ~HitsLocalWall(s.constraint, hypo.cov, span[1], span[2], z)
<1> DEFINE words == ZoneWords(s, z)
           a == Start(s, z)
           b == End(s, z)
           g == FirstGap(hypo)
           count == Cardinality(hypo.cov \cap words)
           outside == span[2] < a \/ span[1] > b
<1>1. /\ span[1] \in Nat /\ span[2] \in Nat /\ g \in Nat /\ a \in Nat /\ b \in Nat
      /\ span[1] <= span[2] /\ a <= b /\ words = a .. b /\ g <= span[1]
      /\ span[1] .. span[2] \cap hypo.cov = {}
      /\ hypo.cov \subseteq Positions(Size) /\ words \subseteq Positions(Size)
      /\ \A pos \in Positions(Size) : pos < g => pos \in hypo.cov
  BY ExtensionFacts, ZoneFacts
<1>2. outside <=> ~Touches(s, span, z)
  <2>1. outside => ~Touches(s, span, z)
    BY <1>1 DEF Touches
  <2>2. ~outside => (IF span[1] <= a THEN a ELSE span[1]) \in (span[1] .. span[2]) \cap words
    BY <1>1
  <2> QED BY <2>1, <2>2 DEF Touches
<1>3. Touches(s, span, z) => ~(words \subseteq hypo.cov)
  BY <1>1 DEF Touches
<1>4. /\ count = IF GetLastPos(hypo.cov) >= a THEN count ELSE 0
      /\ count \in Nat /\ (count = 0 <=> hypo.cov \cap words = {})
      /\ (count = b - a + 1 <=> words \subseteq hypo.cov)
  BY TranslatedInZone
<1>5. g > b => words \subseteq hypo.cov
  BY <1>1
<1>6. GetLastPos(hypo.cov) < a => hypo.cov \cap words = {}
  <2> SUFFICES ASSUME GetLastPos(hypo.cov) < a, NEW pos \in hypo.cov \cap words PROVE FALSE
    OBVIOUS
  <2>1. GetLastPos(hypo.cov) \in hypo.cov /\ pos <= GetLastPos(hypo.cov)
    BY <1>1, LastPosIsLast
  <2>2. GetLastPos(hypo.cov) \in Int /\ pos \in Int /\ a <= pos
    BY <1>1, <2>1, ExpansionAssumption DEF Positions
  <2> QED BY <1>1, <2>1, <2>2
<1>7. \/ GetLastPos(hypo.cov) < a /\ outside
      \/ g > b
      \/ count = b - a + 1
      \/ count = 0 /\ outside
      \/ /\ ~outside
         /\ ~(span[1] # g /\ b - g >= DistortionLimit(MaxDistortion))
         /\ \/ span[1] <= a
            \/ span[2] > b /\ b - span[1] + 1 >= b - a + 1 - count
            \/ span[2] <= b /\ ~HitsLocalWall(s.constraint, hypo.cov, span[1], span[2], z)
  <2> DEFINE counted == IF GetLastPos(hypo.cov) >= a
                        THEN Cardinality(hypo.cov \cap (a .. b)) ELSE 0
  <2>1. \/ GetLastPos(hypo.cov) < a /\ outside
        \/ g > b
        \/ counted = b - a + 1
        \/ counted = 0 /\ outside
        \/ /\ ~outside
           /\ ~(span[1] # g /\ b - g >= DistortionLimit(MaxDistortion))
           /\ \/ span[1] <= a
              \/ span[2] > b /\ b - span[1] + 1 >= (b - a + 1) - counted
              \/ span[2] <= b /\ ~HitsLocalWall(s.constraint, hypo.cov, span[1], span[2], z)
    BY DEF ZoneAllows, Start, End, FirstGap
  <2>2. counted = count
    BY <1>1, <1>4, Zenon
  <2> HIDE DEF counted, count
  <2> QED BY <1>1, <1>4, <2>1, <2>2
<1>8. Entered(s, hypo, z) => Touches(s, span, z)
  BY <1>2, <1>4, <1>5, <1>6, <1>7 DEF Entered
<1>9. ASSUME Touches(s, span, z)
      PROVE  /\ ~(span[1] # g /\ b - g >= DistortionLimit(MaxDistortion))
             /\ \/ span[1] <= a
                \/ span[2] > b /\ b - span[1] + 1 >= b - a + 1 - count
                \/ span[2] <= b /\ ~HitsLocalWall(s.constraint, hypo.cov, span[1], span[2], z)
  BY <1>2, <1>3, <1>4, <1>5, <1>7, <1>9
<1>10. DistortionLimit(MaxDistortion) \in Int
  BY ExpansionAssumption DEF DistortionLimit, NOT_FOUND
<1>11. ASSUME Touches(s, span, z), ~(span[1] <= a), span[2] > b,
              b - span[1] + 1 >= b - a + 1 - count
       PROVE  a .. span[1] - 1 \subseteq hypo.cov
  <2>1. span[1] \in words /\ span[1] > a /\ (span[1] .. b) \cap hypo.cov = {}
    BY <1>1, <1>2, <1>11
  <2> QED BY <1>11, <2>1, TranslatedInZone
<1> QED BY <1>1, <1>8, <1>9, <1>10, <1>11

\* What Check means for a zone: a phrase that touches it completes it, or ends in it and
\* completes what is in front of each local wall that it reaches over.
LEMMA ZoneOfExtension ==
  ASSUME NEW s \in Sources, NEW hypo \in Hypotheses, NEW span \in Spans, NEW z \in Zones(s),
         CanExtend(s, hypo, span[1], span[2])
  PROVE  /\ Entered(s, hypo, z) => Touches(s, span, z)
         /\ Touches(s, span, z) =>
              /\ span[1] # FirstGap(hypo) =>
                   End(s, z) - FirstGap(hypo) < DistortionLimit(MaxDistortion)
              /\ \/ ZoneWords(s, z) \subseteq Extend(hypo, span).cov
                 \/ span[2] <= End(s, z)
              /\ \A wall \in ZoneWords(s, z) :
                   s.constraint.localWall[wall] = z /\ wall < span[2] /\ wall < End(s, z) =>
                     {pos \in ZoneWords(s, z) : pos <= wall} \subseteq Extend(hypo, span).cov
<1> DEFINE words == ZoneWords(s, z)
           a == Start(s, z)
           b == End(s, z)
           g == FirstGap(hypo)
           new == Extend(hypo, span)
<1>1. /\ span[1] \in Nat /\ span[2] \in Nat /\ g \in Nat /\ a \in Nat /\ b \in Nat
      /\ span[1] <= span[2] /\ a <= b /\ words = a .. b /\ g <= span[1]
      /\ new.cov = hypo.cov \cup (span[1] .. span[2])
      /\ hypo.cov \subseteq Positions(Size) /\ words \subseteq Positions(Size)
      /\ \A pos \in Positions(Size) : pos < g => pos \in hypo.cov
  <2>1. /\ a \in Nat /\ b \in Nat /\ a <= b /\ words = a .. b /\ words \subseteq Positions(Size)
    BY ZoneFacts
  <2> QED BY <2>1, ExtensionFacts, Zenon
<1>2. \/ Monotone(g, GetLastPos(hypo.cov), span[1])
      \/ ZoneAllows(s.constraint, Size, hypo.cov, span[1], span[2], MaxDistortion, z)
  BY ZoneFacts DEF CanExtend, Check, Zones, FirstGap
<1>3. CASE Monotone(g, GetLastPos(hypo.cov), span[1])
  <2>1. /\ span[1] = g /\ \A pos \in hypo.cov : pos < span[1]
        /\ \A pos \in Positions(Size) : pos <= span[2] => pos \in new.cov
    BY <1>3, MonotoneMeans
  <2>2. Entered(s, hypo, z) => span[1] \in words
    <3> SUFFICES ASSUME Entered(s, hypo, z) PROVE span[1] \in words
      OBVIOUS
    <3>1. PICK in \in words : in \in hypo.cov
      BY DEF Entered
    <3>2. PICK out \in words : out \notin hypo.cov
      BY DEF Entered
    <3>3. in < span[1] /\ ~(out < g)
      BY <1>1, <2>1, <3>1, <3>2
    <3> QED BY <1>1, <2>1, <3>3
  <2>3. Entered(s, hypo, z) => Touches(s, span, z)
    BY <1>1, <2>2 DEF Touches
  <2>4. words \subseteq new.cov \/ span[2] <= b
    BY <1>1, <2>1
  <2> QED BY <1>1, <2>1, <2>3, <2>4
<1>4. CASE ZoneAllows(s.constraint, Size, hypo.cov, span[1], span[2], MaxDistortion, z)
  <2>1. /\ Entered(s, hypo, z) => Touches(s, span, z)
        /\ Touches(s, span, z) /\ span[1] # g => b - g < DistortionLimit(MaxDistortion)
    BY <1>4, ZoneAllowsMeans
  <2>2. ASSUME Touches(s, span, z)
        PROVE  /\ words \subseteq new.cov \/ span[2] <= b
               /\ \A wall \in words :
                    s.constraint.localWall[wall] = z /\ wall < span[2] /\ wall < b =>
                      {pos \in words : pos <= wall} \subseteq new.cov
    <3>1. CASE span[1] <= a
      BY <1>1, <3>1
    <3>2. CASE span[2] > b /\ span[1] > a /\ a .. span[1] - 1 \subseteq hypo.cov
      BY <1>1, <3>2
    <3>3. CASE span[2] <= b /\ ~HitsLocalWall(s.constraint, hypo.cov, span[1], span[2], z)
      <4>1. ASSUME NEW wall \in words, s.constraint.localWall[wall] = z, wall < span[2],
                   NEW pos \in words, pos <= wall, pos \notin new.cov
            PROVE  FALSE
        <5>1. wall \in a .. b - 1 /\ pos \in a .. wall /\ pos \notin hypo.cov /\ pos < span[1]
          BY <1>1, <3>3, <4>1
        <5> QED BY <3>3, <4>1, <5>1 DEF HitsLocalWall, Start, End
      <4> QED BY <3>3, <4>1
    <3> QED BY <1>4, <2>2, <3>1, <3>2, <3>3, ZoneAllowsMeans
  <2> QED BY <2>1, <2>2
<1> QED BY <1>2, <1>3, <1>4

(***************************************************************************)
(* An extension keeps walls and zones.                                     *)
(***************************************************************************)

\* The phrase ends in every zone that is entered and not finished after it.
LEMMA EnteredAfter ==
  ASSUME NEW s \in Sources, NEW hypo \in Hypotheses, NEW span \in Spans, NEW z \in Zones(s),
         CanExtend(s, hypo, span[1], span[2]), Entered(s, Extend(hypo, span), z)
  PROVE  /\ Touches(s, span, z)
         /\ Start(s, z) <= span[2] /\ span[2] <= End(s, z) /\ span[2] \in ZoneWords(s, z)
<1> DEFINE words == ZoneWords(s, z)
           new == Extend(hypo, span)
<1>1. /\ span[1] \in Nat /\ span[2] \in Nat /\ new.cov = hypo.cov \cup (span[1] .. span[2])
      /\ words = Start(s, z) .. End(s, z) /\ Start(s, z) \in Nat /\ End(s, z) \in Nat
  <2>1. words = Start(s, z) .. End(s, z) /\ Start(s, z) \in Nat /\ End(s, z) \in Nat
    BY ZoneFacts
  <2> QED BY <2>1, ExtensionFacts, Zenon
<1>2. new.cov \cap words # {} /\ ~(words \subseteq new.cov)
  BY DEF Entered
<1>3. Touches(s, span, z)
  <2>1. hypo.cov \cap words # {} => Entered(s, hypo, z)
    BY <1>1, <1>2 DEF Entered
  <2>2. hypo.cov \cap words = {} => Touches(s, span, z)
    BY <1>1, <1>2 DEF Touches
  <2> QED BY <2>1, <2>2, ZoneOfExtension
<1>4. span[2] <= End(s, z)
  BY <1>2, <1>3, ZoneOfExtension
<1>5. Start(s, z) <= span[2]
  BY <1>1, <1>3 DEF Touches
<1> QED BY <1>1, <1>3, <1>4, <1>5

\* A wall is reached over only by a phrase that fills the first gap, or when all in front of it
\* is translated; a local wall, when all of the zone in front of it is.
LEMMA ExtendKeepsWalls ==
  ASSUME NEW s \in Sources, NEW hypo \in Hypotheses, NEW span \in Spans,
         CanExtend(s, hypo, span[1], span[2]), KeepsWalls(s, hypo)
  PROVE  KeepsWalls(s, Extend(hypo, span))
<1> DEFINE new == Extend(hypo, span)
           g == FirstGap(hypo)
<1>1. /\ span[1] \in Nat /\ span[2] \in Nat /\ new.cov = hypo.cov \cup (span[1] .. span[2])
      /\ hypo.cov \subseteq Positions(Size) /\ g \in Nat /\ g <= span[1]
      /\ \A pos \in Positions(Size) : pos < g => pos \in hypo.cov
      /\ Positions(Size) = 0 .. Size - 1 /\ Size \in Nat
  BY ExtensionFacts, ExpansionAssumption DEF Positions
<1>2. ASSUME NEW wall \in s.constraint.wall, NEW pos \in new.cov, pos > wall
      PROVE  0 .. wall \subseteq new.cov
  <2>1. wall \in Positions(Size)
    BY WallFacts
  <2>2. CASE pos \in hypo.cov
    BY <1>1, <1>2, <2>2 DEF KeepsWalls
  <2>3. CASE pos \in span[1] .. span[2]
    <3>1. CASE wall < g
      BY <1>1, <2>1, <3>1
    <3>2. CASE g <= wall
      <4>1. g = span[1]
        BY <1>1, <1>2, <2>1, <2>3, <3>2, NoWallCrossed
      <4> QED BY <1>1, <1>2, <2>1, <2>3, <4>1
    <3> QED BY <1>1, <2>1, <3>1, <3>2
  <2> QED BY <1>1, <2>2, <2>3
<1>3. ASSUME NEW z \in Zones(s), NEW wall \in ZoneWords(s, z),
             s.constraint.localWall[wall] = z,
             NEW pos \in new.cov \cap ZoneWords(s, z), pos > wall
      PROVE  {word \in ZoneWords(s, z) : word <= wall} \subseteq new.cov
  <2>1. /\ ZoneWords(s, z) = Start(s, z) .. End(s, z)
        /\ Start(s, z) \in Nat /\ End(s, z) \in Nat
    BY ZoneFacts
  <2>2. CASE pos \in hypo.cov
    BY <1>1, <1>3, <2>2, Zenon DEF KeepsWalls
  <2>3. CASE pos \in span[1] .. span[2]
    <3>1. Touches(s, span, z) /\ wall < span[2] /\ wall < End(s, z)
      BY <1>1, <1>3, <2>1, <2>3 DEF Touches
    <3> QED BY <1>3, <3>1, ZoneOfExtension
  <2> QED BY <1>1, <1>3, <2>2, <2>3
<1> QED BY <1>2, <1>3 DEF KeepsWalls

\* Of two zones with no word in common, the one behind is entered only once the other is finished.
LEMMA ExtendKeepsNesting ==
  ASSUME NEW s \in Sources, NEW hypo \in Hypotheses, NEW span \in Spans,
         CanExtend(s, hypo, span[1], span[2])
  PROVE  EnteredZonesNest(s, Extend(hypo, span))
<1> SUFFICES ASSUME NEW y \in Zones(s), NEW z \in Zones(s),
                    Entered(s, Extend(hypo, span), y), Entered(s, Extend(hypo, span), z)
             PROVE  \/ ZoneWords(s, y) \subseteq ZoneWords(s, z)
                    \/ ZoneWords(s, z) \subseteq ZoneWords(s, y)
  BY DEF EnteredZonesNest
<1>1. span[2] \in ZoneWords(s, y) /\ span[2] \in ZoneWords(s, z)
  BY EnteredAfter
<1> QED BY <1>1, ZonesNest

\* The last phrase ends in every zone that has been entered.
LEMMA ExtendEndsInZones ==
  ASSUME NEW s \in Sources, NEW hypo \in Hypotheses, NEW span \in Spans,
         CanExtend(s, hypo, span[1], span[2])
  PROVE  LastInEnteredZones(s, Extend(hypo, span))
<1>1. Extend(hypo, span).last[2] = span[2]
  BY ExtensionFacts
<1> QED BY <1>1, EnteredAfter DEF LastInEnteredZones

\* A gap that is left open in front of a zone can be reached from the end of every zone around it.
LEMMA ExtendKeepsGapInReach ==
  ASSUME NEW s \in Sources, NEW hypo \in Hypotheses, NEW span \in Spans,
         CanExtend(s, hypo, span[1], span[2])
  PROVE  GapWithinReachOfZones(s, Extend(hypo, span))
<1> DEFINE new == Extend(hypo, span)
           g == FirstGap(hypo)
           gap == FirstGap(new)
<1> SUFFICES ASSUME NEW z \in Zones(s), Entered(s, new, z), gap \notin ZoneWords(s, z),
                    NEW y \in Zones(s), ZoneWords(s, z) \subseteq ZoneWords(s, y)
             PROVE  s.constraint.zone[y][2] - gap < DistortionLimit(MaxDistortion)
  BY DEF GapWithinReachOfZones
<1>1. /\ span[1] \in Nat /\ span[2] \in Nat /\ span[1] <= span[2]
      /\ new.cov = hypo.cov \cup (span[1] .. span[2])
      /\ hypo.cov \subseteq Positions(Size) /\ g \in Nat /\ g <= span[1] /\ g \notin hypo.cov
      /\ g \in Positions(Size)
      /\ \A pos \in Positions(Size) : pos < g => pos \in hypo.cov
      /\ Positions(Size) \subseteq Nat
  <2>1. Positions(Size) \subseteq Nat
    BY ExpansionAssumption DEF Positions
  <2> QED BY <2>1, ExtensionFacts
<1>2. /\ ZoneWords(s, z) = Start(s, z) .. End(s, z) /\ ZoneWords(s, z) \subseteq Positions(Size)
      /\ Start(s, z) \in Nat /\ End(s, z) \in Nat
  BY ZoneFacts
<1>3. Touches(s, span, z) /\ Start(s, z) <= span[2] /\ span[2] <= End(s, z)
  BY EnteredAfter
<1>4. /\ gap \in Nat /\ gap \notin new.cov /\ gap \in Positions(Size)
      /\ \A pos \in Positions(Size) : pos < gap => pos \in new.cov
      /\ gap < Start(s, z)
  <2>1. PICK out \in ZoneWords(s, z) : out \notin new.cov
    BY DEF Entered
  <2>2. out \in Gaps(Size, new.cov)
    BY <1>2, <2>1 DEF Gaps
  <2>3. /\ gap \notin new.cov /\ gap \in Positions(Size)
        /\ \A pos \in Positions(Size) : pos < gap => pos \in new.cov
    BY <2>2, FirstGapIsFirst DEF FirstGap
  <2>4. gap <= out
    BY <1>1, <1>2, <2>1, <2>3
  <2> QED BY <1>1, <1>2, <2>1, <2>3, <2>4
<1>5. span[1] # g
  <2> SUFFICES ASSUME span[1] = g PROVE FALSE
    OBVIOUS
  <2>1. gap < g \/ gap > span[2]
    BY <1>1, <1>4
  <2>2. gap < g => FALSE
    BY <1>1, <1>4
  <2>3. gap > span[2] => FALSE
    BY <1>1, <1>2, <1>3, <1>4
  <2> QED BY <2>1, <2>2, <2>3
<1>6. gap = g
  BY <1>1, <1>4, <1>5
<1>7. Touches(s, span, y)
  BY <1>3 DEF Touches
<1>8. End(s, y) - g < DistortionLimit(MaxDistortion)
  BY <1>5, <1>7, ZoneOfExtension
<1> QED BY <1>6, <1>8 DEF End

\* All four parts of ConstraintKept at once.
LEMMA ExtendKeepsConstraint ==
  ASSUME NEW s \in Sources, NEW hypo \in Hypotheses, NEW span \in Spans,
         CanExtend(s, hypo, span[1], span[2]), ConstraintKept(s, hypo)
  PROVE  ConstraintKept(s, Extend(hypo, span))
BY ExtendKeepsWalls, ExtendKeepsNesting, ExtendEndsInZones, ExtendKeepsGapInReach
   DEF ConstraintKept

\* The seed has translated a prefix of the sentence and its last phrase is that prefix.
LEMMA SeedKeepsConstraint ==
  ASSUME NEW s \in Sources
  PROVE  ConstraintKept(s, InitialHypothesis(s.completed))
<1> DEFINE seed == InitialHypothesis(s.completed)
<1>1. PICK n \in Nat : /\ n = 0 \/ n < Size
                       /\ s.completed = 0 .. n - 1
                       /\ n < Size => GetFirstGapPos(Size, s.completed) = n
  BY SeedPrefix
<1>2. seed.cov = 0 .. n - 1
  BY <1>1 DEF InitialHypothesis
<1>3. KeepsWalls(s, seed)
  <2>1. ASSUME NEW wall \in s.constraint.wall, NEW pos \in seed.cov, pos > wall
        PROVE  0 .. wall \subseteq seed.cov
    <3>1. wall \in Int
      BY WallFacts, ExpansionAssumption DEF Positions
    <3> QED BY <1>2, <2>1, <3>1
  <2>2. ASSUME NEW z \in Zones(s), NEW wall \in ZoneWords(s, z),
               NEW pos \in seed.cov \cap ZoneWords(s, z), pos > wall
        PROVE  {word \in ZoneWords(s, z) : word <= wall} \subseteq seed.cov
    BY <1>2, <2>2, ZoneFacts
  <2> QED BY <2>1, <2>2 DEF KeepsWalls
<1>4. ASSUME NEW z \in Zones(s), Entered(s, seed, z)
      PROVE  n - 1 \in ZoneWords(s, z) /\ n \in ZoneWords(s, z) /\ n > 0 /\ n < Size
  <2>1. PICK in \in ZoneWords(s, z) : in \in 0 .. n - 1
    BY <1>2, <1>4 DEF Entered
  <2>2. PICK out \in ZoneWords(s, z) : out \notin 0 .. n - 1
    BY <1>2, <1>4 DEF Entered
  <2>3. /\ ZoneWords(s, z) = Start(s, z) .. End(s, z) /\ ZoneWords(s, z) \subseteq Positions(Size)
        /\ Start(s, z) \in Nat /\ End(s, z) \in Nat /\ Positions(Size) \subseteq Nat
    BY ZoneFacts, ExpansionAssumption DEF Positions
  <2>4. in \in Nat /\ out \in Nat /\ in <= n - 1 /\ n <= out
    BY <2>1, <2>2, <2>3
  <2> QED BY <1>1, <2>1, <2>2, <2>3, <2>4
<1>5. LastInEnteredZones(s, seed)
  <2> SUFFICES ASSUME NEW z \in Zones(s), Entered(s, seed, z)
               PROVE  seed.last[2] \in ZoneWords(s, z)
    BY DEF LastInEnteredZones
  <2>1. n - 1 \in ZoneWords(s, z) /\ n > 0 /\ GetFirstGapPos(Size, s.completed) = n
    BY <1>1, <1>4
  <2>2. seed.last[2] = n - 1
    BY <2>1 DEF InitialHypothesis
  <2> QED BY <2>1, <2>2
<1>6. GapWithinReachOfZones(s, seed)
  <2> SUFFICES ASSUME NEW z \in Zones(s), Entered(s, seed, z)
               PROVE  FirstGap(seed) \in ZoneWords(s, z)
    BY DEF GapWithinReachOfZones
  <2>1. n \in ZoneWords(s, z) /\ GetFirstGapPos(Size, s.completed) = n
    BY <1>1, <1>4
  <2> QED BY <2>1 DEF FirstGap, InitialHypothesis
<1>7. EnteredZonesNest(s, seed)
  <2> SUFFICES ASSUME NEW y \in Zones(s), NEW z \in Zones(s),
                      Entered(s, seed, y), Entered(s, seed, z)
               PROVE  \/ ZoneWords(s, y) \subseteq ZoneWords(s, z)
                      \/ ZoneWords(s, z) \subseteq ZoneWords(s, y)
    BY DEF EnteredZonesNest
  <2>1. n \in ZoneWords(s, y) \cap ZoneWords(s, z)
    BY <1>4
  <2> QED BY <2>1, ZonesNest
<1> QED BY <1>3, <1>5, <1>6, <1>7 DEF ConstraintKept

\* The sentence stays the same.
LEMMA SourceKept ==
  ASSUME [Next]_vars PROVE source' = source
BY DEF Next, vars, OutOfTime, BeginStack, ProcessOneHypothesis, ExpandHypothesis, EndStack

\* Whatever Check has let through, walls are kept, and the zones entered lie one in the other,
\* around the end of the last phrase, with the first gap within reach.
THEOREM ConstraintsKept == Spec => []ConstraintInv
<1>1. Init => ConstraintInv
  <2> SUFFICES ASSUME Init, NEW hypo \in Live
               PROVE  ConstraintKept(source, hypo)
    BY DEF ConstraintInv
  <2>1. hypo = InitialHypothesis(source.completed)
    BY DEF Init, Live
  <2> QED BY <2>1, SeedKeepsConstraint DEF Init
<1>2. TypeOK /\ ConstraintInv /\ [Next]_vars => ConstraintInv'
  <2> SUFFICES ASSUME TypeOK, ConstraintInv, [Next]_vars, NEW hypo \in Live'
               PROVE  ConstraintKept(source, hypo)
    BY SourceKept DEF ConstraintInv
  <2>1. CASE hypo \in Live
    BY <2>1 DEF ConstraintInv
  <2>2. ASSUME NEW old \in todo, hypo \in Extensions(source, old)
        PROVE  ConstraintKept(source, hypo)
    <3>1. old \in Hypotheses /\ source \in Sources /\ ConstraintKept(source, old)
      BY LiveMembers, LiveAreHypotheses DEF ConstraintInv, TypeOK
    <3>2. PICK span \in Spans : /\ CanExtend(source, old, span[1], span[2])
                                /\ hypo = Extend(old, span)
      BY <2>2 DEF Extensions
    <3> QED BY <3>1, <3>2, ExtendKeepsConstraint
  <2> QED BY <2>1, <2>2, LiveStep
<1> QED BY <1>1, <1>2, TypeCorrect, PTL DEF Spec

\* No word behind a wall is translated before all words in front of it are.
THEOREM WallsAreKept == Spec => []WallsKept
<1>1. ConstraintInv => WallsKept
  BY DEF ConstraintInv, ConstraintKept, WallsKept
<1> QED BY <1>1, ConstraintsKept, PTL

\* Once a zone is entered, every phrase that is added to the hypothesis translates words of the
\* zone, until all of them are translated.
THEOREM ZonesFinished == Spec => ZoneFinishedOnceEntered
<1> DEFINE Finishes ==
      \A hypo \in todo \ todo', next \in built' \ built : \A z \in Zones(source) :
        Entered(source, hypo, z) => (next.cov \ hypo.cov) \cap ZoneWords(source, z) # {}
<1>1. TypeOK /\ [Next]_vars => [Finishes]_vars
  <2> SUFFICES ASSUME TypeOK, Next,
                      NEW hypo \in todo \ todo', NEW next \in built' \ built,
                      NEW z \in Zones(source), Entered(source, hypo, z)
               PROVE  (next.cov \ hypo.cov) \cap ZoneWords(source, z) # {}
    OBVIOUS
  <2>1. ProcessOneHypothesis
    BY DEF Next, OutOfTime, BeginStack, ExpandHypothesis, EndStack
  <2>2. next \in Extensions(source, hypo)
    BY <2>1 DEF ProcessOneHypothesis
  <2>3. PICK span \in Spans : /\ CanExtend(source, hypo, span[1], span[2])
                              /\ next = Extend(hypo, span)
    BY <2>2 DEF Extensions
  <2>4. hypo \in Hypotheses /\ source \in Sources
    BY DEF TypeOK
  <2>5. /\ (span[1] .. span[2]) \cap ZoneWords(source, z) # {}
        /\ (span[1] .. span[2]) \cap hypo.cov = {}
        /\ next.cov = hypo.cov \cup (span[1] .. span[2])
    <3>1. (span[1] .. span[2]) \cap ZoneWords(source, z) # {}
      BY <2>3, <2>4, ZoneOfExtension, Zenon DEF Touches
    <3> QED BY <2>3, <2>4, <3>1, ExtensionFacts, Zenon
  <2> QED BY <2>5
<1> QED BY <1>1, TypeCorrect, PTL DEF Spec, ZoneFinishedOnceEntered

(***************************************************************************)
(* No dead end: the first gap can be translated next or, in a zone that    *)
(* has been entered, the first gap of the innermost one.                   *)
(***************************************************************************)

\* What it takes to translate one word next.
LEMMA WordExtends ==
  ASSUME NEW s \in Sources, NEW hypo \in Hypotheses,
         NEW word \in Positions(Size), word \notin hypo.cov,
         word # FirstGap(hypo) =>
           \A wall \in s.constraint.wall : ~(FirstGap(hypo) <= wall /\ wall < word),
         \A z \in Zones(s) :
           \/ ZoneWords(s, z) \subseteq hypo.cov
           \/ word \notin ZoneWords(s, z) /\ ZoneWords(s, z) \cap hypo.cov = {}
           \/ /\ word \in ZoneWords(s, z)
              /\ word # FirstGap(hypo) =>
                   End(s, z) - FirstGap(hypo) < DistortionLimit(MaxDistortion)
              /\ \/ word = Start(s, z)
                 \/ ~HitsLocalWall(s.constraint, hypo.cov, word, word, z),
         MaxDistortion >= 0 =>
           /\ ComputeDistortionDistance(hypo.last, word) <= MaxDistortion
           /\ \/ word = FirstGap(hypo)
              \/ word - FirstGap(hypo) + 1 <= MaxDistortion
  PROVE  CanExtend(s, hypo, word, word)
<1> DEFINE g == FirstGap(hypo)
<1>1. /\ word \in Nat /\ word .. word = {word} /\ g \in Positions(Size) /\ g \in Nat /\ g <= word
      /\ hypo.cov \subseteq Positions(Size)
  <2>1. Gaps(Size, hypo.cov) # {} /\ hypo.cov \subseteq Positions(Size)
    BY DEF Gaps, Hypotheses
  <2>2. /\ g \in Positions(Size)
        /\ \A pos \in Positions(Size) : pos < g => pos \in hypo.cov
    BY <2>1, FirstGapIsFirst DEF FirstGap
  <2> QED BY <2>1, <2>2, ExpansionAssumption DEF Positions
<1>2. /\ word - word < MaxPhraseLength /\ <<word, word>> \in s.options
      /\ ~Overlap(hypo.cov, word, word)
  BY <1>1, ExpansionAssumption, SourcesAssumption DEF Overlap
<1>3. ~HitsWall(s.constraint, g, word, word)
  BY <1>1 DEF HitsWall
<1>4. ASSUME NEW z \in Zones(s)
      PROVE  ZoneAllows(s.constraint, Size, hypo.cov, word, word, MaxDistortion, z)
  <2> DEFINE words == ZoneWords(s, z)
             a == Start(s, z)
             b == End(s, z)
             count == Cardinality(hypo.cov \cap words)
             counted == IF GetLastPos(hypo.cov) >= a
                        THEN Cardinality(hypo.cov \cap (a .. b)) ELSE 0
             outside == word < a \/ word > b
  <2>1. /\ words = a .. b /\ a \in Nat /\ b \in Nat /\ a <= b
    BY ZoneFacts
  <2>2. /\ counted = count /\ (count = 0 <=> hypo.cov \cap words = {})
        /\ (count = b - a + 1 <=> words \subseteq hypo.cov)
    <3>1. /\ count = IF GetLastPos(hypo.cov) >= a THEN count ELSE 0
          /\ (count = 0 <=> hypo.cov \cap words = {})
          /\ (count = b - a + 1 <=> words \subseteq hypo.cov)
      BY TranslatedInZone
    <3> QED BY <2>1, <3>1, Zenon
  <2>3. \/ counted = b - a + 1
        \/ counted = 0 /\ outside
        \/ /\ ~outside
           /\ word # g => b - g < DistortionLimit(MaxDistortion)
           /\ \/ word <= a
              \/ word <= b /\ ~HitsLocalWall(s.constraint, hypo.cov, word, word, z)
    <3>1. \/ words \subseteq hypo.cov
          \/ word \notin words /\ words \cap hypo.cov = {}
          \/ /\ word \in words
             /\ word # g => b - g < DistortionLimit(MaxDistortion)
             /\ word = a \/ ~HitsLocalWall(s.constraint, hypo.cov, word, word, z)
      OBVIOUS
    <3>2. (word \in words <=> ~outside) /\ (word \in words => word <= b) /\ a <= a
      BY <1>1, <2>1
    <3>3. hypo.cov \cap words = words \cap hypo.cov
      OBVIOUS
    <3> HIDE DEF counted, count, words, outside
    <3> QED BY <2>1, <2>2, <3>1, <3>2, <3>3
  <2>4. DistortionLimit(MaxDistortion) \in Int
    BY ExpansionAssumption DEF DistortionLimit, NOT_FOUND
  <2>5. word # g => ~(b - g >= DistortionLimit(MaxDistortion)) \/ ~(b - g < DistortionLimit(MaxDistortion))
    BY <1>1, <2>1, <2>4
  <2> QED BY <2>3, <2>5 DEF ZoneAllows, Start, End, FirstGap
<1>5. Check(s.constraint, Size, hypo.cov, word, word, MaxDistortion)
  BY <1>3, <1>4 DEF Check, Zones, FirstGap
<1>6. MaxDistortion >= 0 =>
        /\ ComputeDistortionDistance(hypo.last, word) <= MaxDistortion
        /\ \/ word = g
           \/ ComputeDistortionDistance(<<word, word>>, g) <= MaxDistortion
  BY <1>1 DEF ComputeDistortionDistance, NoRange, Abs
<1> QED BY <1>1, <1>2, <1>5, <1>6 DEF CanExtend

\* While no zone is entered, it is the first gap.
LEMMA FirstGapExtends ==
  ASSUME NEW s \in Sources, NEW hypo \in Hypotheses, hypo.cov # Positions(Size),
         MaxDistortion >= 0 => GapWithinReach(hypo),
         \A z \in Zones(s) : ~Entered(s, hypo, z)
  PROVE  FirstGap(hypo) \in Positions(Size) \ hypo.cov
         /\ CanExtend(s, hypo, FirstGap(hypo), FirstGap(hypo))
<1> DEFINE g == FirstGap(hypo)
<1>1. Gaps(Size, hypo.cov) # {}
  BY DEF Gaps, Hypotheses
<1>2. /\ g \in Positions(Size) /\ g \notin hypo.cov
      /\ \A pos \in Positions(Size) : pos < g => pos \in hypo.cov
  BY <1>1, FirstGapIsFirst DEF FirstGap
<1>3. ASSUME NEW z \in Zones(s)
      PROVE  \/ ZoneWords(s, z) \subseteq hypo.cov
             \/ g \notin ZoneWords(s, z) /\ ZoneWords(s, z) \cap hypo.cov = {}
             \/ g \in ZoneWords(s, z) /\ g = Start(s, z)
  <2>1. ZoneWords(s, z) \subseteq hypo.cov \/ ZoneWords(s, z) \cap hypo.cov = {}
    BY DEF Entered
  <2>2. /\ ZoneWords(s, z) = Start(s, z) .. End(s, z) /\ Start(s, z) \in Positions(Size)
        /\ Start(s, z) \in Nat /\ End(s, z) \in Nat /\ Start(s, z) <= End(s, z)
    BY ZoneFacts
  <2>3. ASSUME g \in ZoneWords(s, z), ZoneWords(s, z) \cap hypo.cov = {}
        PROVE  g = Start(s, z)
    BY <1>2, <2>2, <2>3
  <2> QED BY <2>1, <2>3
<1>4. MaxDistortion >= 0 => ComputeDistortionDistance(hypo.last, g) <= MaxDistortion
  BY <1>2 DEF GapWithinReach
<1> QED BY <1>2, <1>3, <1>4, WordExtends

\* Of the zones that are entered one lies in all others.
LEMMA InnermostEntered ==
  ASSUME NEW s \in Sources, NEW hypo \in Hypotheses, EnteredZonesNest(s, hypo),
         \E z \in Zones(s) : Entered(s, hypo, z)
  PROVE  \E z \in Zones(s) :
           /\ Entered(s, hypo, z)
           /\ \A y \in Zones(s) : Entered(s, hypo, y) => ZoneWords(s, z) \subseteq ZoneWords(s, y)
<1> DEFINE In == {z \in Zones(s) : Entered(s, hypo, z)}
           S == {End(s, z) - Start(s, z) : z \in In}
<1>1. S \subseteq Nat /\ S # {}
  BY ZoneFacts
<1>2. PICK m \in S : \A other \in S : m <= other
  <2> HIDE DEF S
  <2> QED BY <1>1, LeastElement, Zenon
<1>3. PICK z \in In : m = End(s, z) - Start(s, z)
  BY <1>2
<1>4. ASSUME NEW y \in Zones(s), Entered(s, hypo, y)
      PROVE  ZoneWords(s, z) \subseteq ZoneWords(s, y)
  <2>1. End(s, y) - Start(s, y) \in S
    BY <1>4
  <2>2. End(s, z) - Start(s, z) <= End(s, y) - Start(s, y)
    BY <1>2, <1>3, <2>1
  <2>3. /\ ZoneWords(s, z) = Start(s, z) .. End(s, z) /\ ZoneWords(s, y) = Start(s, y) .. End(s, y)
        /\ Start(s, z) \in Nat /\ End(s, z) \in Nat /\ Start(s, z) <= End(s, z)
        /\ Start(s, y) \in Nat /\ End(s, y) \in Nat /\ Start(s, y) <= End(s, y)
    BY ZoneFacts
  <2>4. \/ ZoneWords(s, y) \subseteq ZoneWords(s, z)
        \/ ZoneWords(s, z) \subseteq ZoneWords(s, y)
    BY <1>4 DEF EnteredZonesNest
  <2>5. CASE ZoneWords(s, y) \subseteq ZoneWords(s, z)
    <3>1. Start(s, y) \in ZoneWords(s, z) /\ End(s, y) \in ZoneWords(s, z)
      BY <2>3, <2>5
    <3>2. Start(s, z) <= Start(s, y) /\ End(s, y) <= End(s, z)
      BY <2>3, <3>1
    <3>3. Start(s, z) = Start(s, y) /\ End(s, y) = End(s, z)
      BY <2>2, <2>3, <3>2
    <3> QED BY <2>3, <3>3
  <2> QED BY <2>4, <2>5
<1> QED BY <1>3, <1>4

\* Otherwise it is the first gap of the innermost zone.
LEMMA FirstGapOfZoneExtends ==
  ASSUME NEW s \in Sources, NEW hypo \in Hypotheses, ConstraintKept(s, hypo),
         MaxDistortion >= 0 => GapWithinReach(hypo),
         NEW z \in Zones(s), Entered(s, hypo, z),
         \A y \in Zones(s) : Entered(s, hypo, y) => ZoneWords(s, z) \subseteq ZoneWords(s, y)
  PROVE  \E word \in Positions(Size) \ hypo.cov : CanExtend(s, hypo, word, word)
<1> DEFINE g == FirstGap(hypo)
           words == ZoneWords(s, z)
           open == words \ hypo.cov
<1>1. /\ words = Start(s, z) .. End(s, z) /\ words \subseteq Positions(Size)
      /\ Start(s, z) \in Nat /\ End(s, z) \in Nat /\ Start(s, z) <= End(s, z)
      /\ Positions(Size) \subseteq Nat /\ MaxDistortion \in Int /\ NOT_FOUND \in Int
      /\ hypo.cov \subseteq Positions(Size)
  <2>1. Positions(Size) \subseteq Nat /\ NOT_FOUND \in Int
    BY ExpansionAssumption DEF Positions, NOT_FOUND
  <2> QED BY <2>1, ZoneFacts, ExpansionAssumption DEF Hypotheses
<1>2. PICK in \in words : in \in hypo.cov
  BY DEF Entered
<1>3. PICK word \in open : \A other \in open : word <= other
  <2>1. open \subseteq Nat /\ open # {}
    BY <1>1 DEF Entered
  <2> HIDE DEF open
  <2> QED BY <2>1, LeastElement, Zenon
<1>4. /\ word \in Nat /\ word \in Positions(Size) \ hypo.cov
      /\ Start(s, z) <= word /\ word <= End(s, z)
      /\ \A pos \in words : pos < word => pos \in hypo.cov
  <2>1. word \in words /\ word \notin hypo.cov
    BY <1>3
  <2>2. ASSUME NEW pos \in words, pos < word PROVE pos \in hypo.cov
    <3>1. pos \in Nat /\ word \in Nat
      BY <1>1, <2>1
    <3>2. pos \notin open
      BY <1>3, <2>2, <3>1
    <3> QED BY <3>2
  <2> QED BY <1>1, <2>1, <2>2
<1>5. /\ g \in Nat /\ g \in Positions(Size) /\ g \notin hypo.cov /\ g <= word
      /\ \A pos \in Positions(Size) : pos < g => pos \in hypo.cov
  <2>1. Gaps(Size, hypo.cov) # {}
    BY <1>4 DEF Gaps
  <2>2. /\ g \in Positions(Size) /\ g \notin hypo.cov
        /\ \A pos \in Positions(Size) : pos < g => pos \in hypo.cov
    BY <2>1, FirstGapIsFirst DEF FirstGap
  <2> QED BY <1>1, <1>4, <2>2
<1>6. g \in words => g = word
  BY <1>4, <1>5
<1>7. ASSUME word # g, NEW y \in Zones(s), words \subseteq ZoneWords(s, y)
      PROVE  End(s, y) - g < DistortionLimit(MaxDistortion)
  BY <1>6, <1>7, Zenon DEF ConstraintKept, GapWithinReachOfZones, End
<1>8. ASSUME word # g, NEW wall \in s.constraint.wall, g <= wall, wall < word
      PROVE  FALSE
  <2>1. wall \in Nat /\ (wall \in words => wall = End(s, z))
    BY <1>1, WallFacts
  <2>2. wall < Start(s, z)
    BY <1>1, <1>4, <1>8, <2>1
  <2>3. in \in hypo.cov /\ in > wall
    BY <1>1, <1>2, <2>1, <2>2
  <2>4. 0 .. wall \subseteq hypo.cov
    BY <2>3 DEF ConstraintKept, KeepsWalls
  <2> QED BY <1>5, <1>8, <2>1, <2>4
<1>9. ASSUME NEW y \in Zones(s)
      PROVE  \/ ZoneWords(s, y) \subseteq hypo.cov
             \/ word \notin ZoneWords(s, y) /\ ZoneWords(s, y) \cap hypo.cov = {}
             \/ /\ word \in ZoneWords(s, y)
                /\ word # g => End(s, y) - g < DistortionLimit(MaxDistortion)
                /\ \/ word = Start(s, y)
                   \/ ~HitsLocalWall(s.constraint, hypo.cov, word, word, y)
  <2>1. /\ ZoneWords(s, y) = Start(s, y) .. End(s, y) /\ ZoneWords(s, y) \subseteq Positions(Size)
        /\ Start(s, y) \in Nat /\ End(s, y) \in Nat /\ Start(s, y) <= End(s, y)
    BY ZoneFacts
  <2>2. ASSUME ZoneWords(s, y) \cap hypo.cov = {}, word \in ZoneWords(s, y)
        PROVE  word = Start(s, y) /\ (word # g => End(s, y) - g < DistortionLimit(MaxDistortion))
    <3>1. ZoneWords(s, y) \subseteq words
      BY <1>2, <1>3, <2>2, ZonesNest
    <3>2. Start(s, y) \in words /\ Start(s, y) \notin hypo.cov /\ End(s, y) \in words
      BY <2>1, <2>2, <3>1
    <3>3. word = Start(s, y)
      BY <1>4, <2>1, <2>2, <3>2
    <3>4. End(s, y) <= End(s, z)
      BY <1>1, <3>2
    <3>5. word # g => End(s, z) - g < DistortionLimit(MaxDistortion)
      BY <1>7
    <3>6. DistortionLimit(MaxDistortion) \in Int
      BY <1>1 DEF DistortionLimit
    <3> QED BY <1>1, <1>5, <2>1, <3>3, <3>4, <3>5, <3>6
  <2>3. ASSUME Entered(s, hypo, y)
        PROVE  /\ word \in ZoneWords(s, y)
               /\ word # g => End(s, y) - g < DistortionLimit(MaxDistortion)
               /\ ~HitsLocalWall(s.constraint, hypo.cov, word, word, y)
    <3>1. words \subseteq ZoneWords(s, y)
      BY <2>3
    <3>2. ASSUME NEW wall \in Start(s, y) .. End(s, y) - 1, wall < word,
                 s.constraint.localWall[wall] = y,
                 NEW gap \in Start(s, y) .. wall, gap \notin hypo.cov
          PROVE  FALSE
      <4>1. wall \in ZoneWords(s, y) /\ wall \in Positions(Size) /\ wall \in Nat
            /\ gap \in ZoneWords(s, y) /\ gap <= wall
        BY <2>1, <3>2
      <4>2. \A pos \in hypo.cov \cap ZoneWords(s, y) : ~(pos > wall)
        BY <3>2, <4>1 DEF ConstraintKept, KeepsWalls
      <4>3. ~(in > wall) /\ in \in Nat
        BY <1>1, <1>2, <3>1, <4>2
      <4>4. wall \in words /\ wall < End(s, z)
        BY <1>1, <1>2, <1>4, <3>2, <4>1, <4>3
      <4>5. ZoneWords(s, y) \subseteq words
        BY <3>2, <4>1, <4>4, LocalWallFacts
      <4>6. gap \in words /\ gap < word
        BY <1>4, <3>2, <4>1, <4>5
      <4> QED BY <1>4, <3>2, <4>6
    <3>3. ~HitsLocalWall(s.constraint, hypo.cov, word, word, y)
      BY <3>2, Zenon DEF HitsLocalWall, Start, End
    <3> QED BY <1>3, <1>7, <3>1, <3>3
  <2> QED BY <2>2, <2>3 DEF Entered
<1>10. MaxDistortion >= 0 =>
         /\ ComputeDistortionDistance(hypo.last, word) <= MaxDistortion
         /\ word = g \/ word - g + 1 <= MaxDistortion
  <2> SUFFICES ASSUME MaxDistortion >= 0
               PROVE  /\ ComputeDistortionDistance(hypo.last, word) <= MaxDistortion
                      /\ word = g \/ word - g + 1 <= MaxDistortion
    OBVIOUS
  <2>1. CASE word = g
    BY <1>5, <2>1 DEF GapWithinReach
  <2>2. CASE word # g
    <3>1. End(s, z) - g < MaxDistortion /\ g < Start(s, z)
      <4>1. End(s, z) - g < DistortionLimit(MaxDistortion)
        BY <1>7, <2>2
      <4> QED BY <1>1, <1>4, <1>5, <1>6, <2>2, <4>1 DEF DistortionLimit
    <3>2. hypo.last[2] \in words /\ hypo.last # NoRange
      BY <1>1 DEF ConstraintKept, LastInEnteredZones, NoRange
    <3>3. ComputeDistortionDistance(hypo.last, word) = Abs(hypo.last[2] - word + 1)
      BY <3>2 DEF ComputeDistortionDistance
    <3>4. hypo.last[2] \in Nat /\ Start(s, z) <= hypo.last[2] /\ hypo.last[2] <= End(s, z)
      BY <1>1, <3>2
    <3>5. word - g + 1 <= MaxDistortion
      BY <1>1, <1>4, <1>5, <3>1
    <3>6. \A end \in Nat : Start(s, z) <= end /\ end <= End(s, z)
            => /\ end - word + 1 <= MaxDistortion
               /\ 0 - (end - word + 1) <= MaxDistortion /\ end - word + 1 \in Int
      BY <1>1, <1>4, <1>5, <3>1
    <3>7. \A n \in Int : n <= MaxDistortion /\ 0 - n <= MaxDistortion => Abs(n) <= MaxDistortion
      BY DEF Abs
    <3> QED BY <3>3, <3>4, <3>5, <3>6, <3>7
  <2> QED BY <2>1, <2>2
<1> QED BY <1>4, <1>8, <1>9, <1>10, WordExtends

\* Whatever the walls and zones, there is a word that can be translated next.
LEMMA NextWord ==
  ASSUME NEW s \in Sources, NEW hypo \in Hypotheses, hypo.cov # Positions(Size),
         MaxDistortion >= 0 => GapWithinReach(hypo), ConstraintKept(s, hypo)
  PROVE  \E word \in Positions(Size) :
           word \notin hypo.cov /\ CanExtend(s, hypo, word, word)
<1>1. CASE \E z \in Zones(s) : Entered(s, hypo, z)
  <2>1. PICK z \in Zones(s) :
          /\ Entered(s, hypo, z)
          /\ \A y \in Zones(s) : Entered(s, hypo, y) => ZoneWords(s, z) \subseteq ZoneWords(s, y)
    BY <1>1, InnermostEntered DEF ConstraintKept
  <2> QED BY <2>1, FirstGapOfZoneExtends
<1>2. CASE ~\E z \in Zones(s) : Entered(s, hypo, z)
  BY <1>2, FirstGapExtends
<1> QED BY <1>1, <1>2

\* A hypothesis that keeps its first gap within reach, the walls and the zones is no dead end.
LEMMA NoDeadEndFromReach ==
  ASSUME TypeOK, DistortionReachability, ConstraintInv PROVE NoDeadEnd
<1> SUFFICES ASSUME NEW hypo \in Live, hypo.cov # Positions(Size)
             PROVE  Extensions(source, hypo) # {}
  BY DEF NoDeadEnd
<1>1. /\ hypo \in Hypotheses /\ source \in Sources
      /\ MaxDistortion >= 0 => GapWithinReach(hypo)
  BY LiveAreHypotheses DEF TypeOK, DistortionReachability
<1>2. PICK gap \in Positions(Size) : CanExtend(source, hypo, gap, gap)
  BY <1>1, NextWord DEF ConstraintInv
<1>3. <<gap, gap>> \in Spans
  BY ExpansionAssumption DEF Spans, Positions
<1>4. Extend(hypo, <<gap, gap>>) \in Extensions(source, hypo)
  BY <1>2, <1>3 DEF Extensions
<1> QED BY <1>4

\* Whatever the stacks prune, and whatever walls and zones the sentence has, every hypothesis they
\* keep can be completed word by word.
THEOREM NoDeadEnds == Spec => []NoDeadEnd
BY NoDeadEndFromReach, TypeCorrect, DistortionReachable, ConstraintsKept, PTL

(***************************************************************************)
(* The stacks fill up one after the other: ResultInv is inductive.         *)
(***************************************************************************)

\* The number of translated words is at most the sentence length, is the
\* length only if all are translated, and grows by one with every word.
LEMMA CoverageCardinality ==
  ASSUME NEW bm, bm \subseteq Positions(Size)
  PROVE  /\ GetNumWordsCovered(bm) \in 0 .. Size
         /\ bm # Positions(Size) => GetNumWordsCovered(bm) < Size
         /\ \A pos \in Positions(Size) \ bm :
              GetNumWordsCovered(bm \cup {pos}) = GetNumWordsCovered(bm) + 1
         /\ bm # {} => GetNumWordsCovered(bm) > 0
<1>1. IsFiniteSet(Positions(Size)) /\ Cardinality(Positions(Size)) = Size
  <2>1. 0 \in Int /\ Size - 1 \in Int
    BY ExpansionAssumption
  <2>2. /\ IsFiniteSet(0 .. Size - 1)
        /\ Cardinality(0 .. Size - 1) = IF 0 > Size - 1 THEN 0 ELSE Size - 1 - 0 + 1
    BY <2>1, FS_Interval
  <2> QED BY <2>2, ExpansionAssumption DEF Positions
<1>2. IsFiniteSet(bm) /\ Cardinality(bm) <= Size
  BY <1>1, FS_Subset
<1>3. Cardinality(bm) \in Nat /\ (bm # {} => Cardinality(bm) > 0)
  BY <1>2, FS_CardinalityType, FS_EmptySet
<1>4. bm # Positions(Size) => Cardinality(bm) # Size
  BY <1>1, FS_Subset
<1>5. \A pos \in Positions(Size) \ bm : Cardinality(bm \cup {pos}) = Cardinality(bm) + 1
  BY <1>2, FS_AddElement
<1> QED BY <1>2, <1>3, <1>4, <1>5, ExpansionAssumption DEF GetNumWordsCovered

\* An extension has translated a word.
LEMMA ExtensionCovers ==
  ASSUME NEW s, NEW hypo \in Hypotheses, NEW next \in Extensions(s, hypo)
  PROVE  GetNumWordsCovered(next.cov) > 0
<1>1. PICK span \in Spans : next = Extend(hypo, span)
  BY DEF Extensions
<1>2. span[1] \in next.cov
  BY <1>1, ExpansionAssumption DEF Extend, SetValue, Spans, Positions
<1>3. next.cov \subseteq Positions(Size)
  BY ExtensionsAreHypotheses DEF Hypotheses
<1> QED BY <1>2, <1>3, CoverageCardinality

\* The seed has translated what the input says is translated.
LEMMA SeedCoverage ==
  ASSUME NEW s \in Sources
  PROVE  /\ s.completed \subseteq Positions(Size)
         /\ InitialHypothesis(s.completed).cov = s.completed
         /\ Size > 0 => s.completed # Positions(Size)
BY SourcesAssumption, ExpansionAssumption DEF Positions, InitialHypothesis

\* The hypotheses of the stack being expanded reach the next stack.
LEMMA ReachesNextStack ==
  ASSUME TypeOK, DistortionReachability, ConstraintInv, TodoFromCurrentStack,
         NEW hypo \in todo, NextStack <= Size
  PROVE  \E next \in Extensions(source, hypo) :
           GetNumWordsCovered(next.cov) = NextStack
<1>1. /\ hypo \in Hypotheses /\ source \in Sources
      /\ MaxDistortion >= 0 => GapWithinReach(hypo)
  BY LiveMembers, LiveAreHypotheses DEF TypeOK, DistortionReachability
<1>2. hypo.cov \subseteq Positions(Size)
  BY <1>1 DEF Hypotheses
<1>3. GetNumWordsCovered(hypo.cov) + 1 = NextStack
  BY <1>1, SeedCoverage DEF TodoFromCurrentStack, NextStack, FirstStack
<1>4. GetNumWordsCovered(hypo.cov) \in Nat
  BY <1>2, CoverageCardinality
<1>5. hypo.cov # Positions(Size)
  <2> SUFFICES ASSUME hypo.cov = Positions(Size) PROVE FALSE
    OBVIOUS
  <2>1. Cardinality(Positions(Size)) = Size
    BY FS_Interval, ExpansionAssumption DEF Positions
  <2> QED BY <1>3, <1>4, <2>1, ExpansionAssumption DEF GetNumWordsCovered
<1>6. PICK gap \in Positions(Size) :
        gap \notin hypo.cov /\ CanExtend(source, hypo, gap, gap)
  BY <1>1, <1>5, LiveMembers, NextWord DEF ConstraintInv
<1> DEFINE next == Extend(hypo, <<gap, gap>>)
<1>7. <<gap, gap>> \in Spans /\ gap .. gap = {gap}
  BY ExpansionAssumption DEF Spans, Positions
<1>8. next \in Extensions(source, hypo)
  BY <1>6, <1>7 DEF Extensions
<1>9. next.cov = hypo.cov \cup {gap}
  BY <1>7 DEF Extend, SetValue
<1> QED BY <1>2, <1>3, <1>6, <1>8, <1>9, CoverageCardinality

\* The invariant holds before the first stack is looked at ...
LEMMA ResultInvInit == Init => ResultInv
<1> SUFFICES ASSUME Init PROVE ResultInv
  OBVIOUS
<1>1. stack[0] = {InitialHypothesis(source.completed)}
  BY ExpansionAssumption DEF Init
<1>2. \A k \in 0 .. Size : k # 0 => stack[k] = {}
  BY DEF Init
<1>3. TodoFromCurrentStack /\ SeedAlone
  BY <1>1 DEF Init, TodoFromCurrentStack, SeedAlone
<1>4. StackOfCoverage
  BY <1>1, <1>2 DEF StackOfCoverage
<1>5. StacksFilled
  BY <1>1, ExpansionAssumption DEF Init, StacksFilled
<1>6. NextStackFilled /\ PhaseEnd
  BY DEF Init, NextStackFilled, PhaseEnd
<1> QED BY <1>3, <1>4, <1>5, <1>6 DEF ResultInv

\* ... is kept when a stack is pruned and its expansion begins ...
LEMMA ResultInvBeginStack ==
  ASSUME TypeOK, ResultInv, BeginStack PROVE ResultInv'
<1> USE DEF ResultInv
<1>1. cur \in 0 .. Size /\ Size \in Nat
  BY ExpansionAssumption DEF BeginStack, TypeOK
<1>2. PICK kept \in PruneToSize(stack[cur]) :
        stack' = [stack EXCEPT ![cur] = kept] /\ todo' = kept
  BY DEF BeginStack
<1>3. kept \subseteq stack[cur] /\ (stack[cur] # {} => kept # {})
  BY <1>2, PruneToSizeSubset
<1>4. /\ \A k \in 0 .. Size : stack'[k] = IF k = cur THEN kept ELSE stack[k]
      /\ UNCHANGED <<source, cur, built, interrupted, actual>>
      /\ phase = "prune" /\ phase' = "expand"
  BY <1>1, <1>2 DEF BeginStack, TypeOK
<1>5. SeedAlone'
  BY <1>1, <1>3, <1>4 DEF SeedAlone
<1>6. StackOfCoverage'
  BY <1>1, <1>3, <1>4 DEF StackOfCoverage
<1>7. TodoFromCurrentStack'
  BY <1>1, <1>2, <1>3, <1>4 DEF TodoFromCurrentStack, StackOfCoverage, SeedAlone
<1>8. StacksFilled'
  <2>1. FirstStack \in Nat /\ FirstStack' = FirstStack
    BY <1>4, SeedCoverage, CoverageCardinality DEF TypeOK, FirstStack
  <2>2. \A k \in 0 .. Size : stack[k] # {} => stack'[k] # {}
    BY <1>3, <1>4
  <2> QED BY <1>1, <1>4, <2>1, <2>2 DEF StacksFilled, Reached
<1>9. NextStackFilled'
  <2>1. Reached(cur) => kept # {}
    BY <1>3, <1>4 DEF StacksFilled
  <2> QED BY <1>2, <1>4, <2>1 DEF NextStackFilled, Reached, FirstStack
<1>10. PhaseEnd'
  BY <1>4 DEF PhaseEnd
<1> QED BY <1>5, <1>6, <1>7, <1>8, <1>9, <1>10

\* ... when a hypothesis is extended ...
LEMMA ResultInvProcess ==
  ASSUME TypeOK, DistortionReachability, ConstraintInv, ResultInv,
         ProcessOneHypothesis
  PROVE  ResultInv'
<1> USE DEF ResultInv
<1>1. PICK hypo \in todo :
        todo' = todo \ {hypo} /\ built' = Extensions(source, hypo)
  BY DEF ProcessOneHypothesis
<1>2. UNCHANGED <<source, stack, cur, phase, interrupted, actual>>
  BY DEF ProcessOneHypothesis
<1>3. \A next \in built' : GetNumWordsCovered(next.cov) > 0
  BY <1>1, ExtensionCovers DEF TypeOK
<1>4. SeedAlone' /\ TodoFromCurrentStack' /\ StackOfCoverage'
  BY <1>1, <1>2, <1>3 DEF SeedAlone, TodoFromCurrentStack, StackOfCoverage
<1>5. StacksFilled' /\ PhaseEnd'
  BY <1>2 DEF StacksFilled, PhaseEnd, Reached, FirstStack
<1>6. NextStackFilled'
  <2>1. NextStack <= Size
          => \E next \in built' : GetNumWordsCovered(next.cov) = NextStack
    BY <1>1, ReachesNextStack
  <2> QED BY <1>2, <2>1 DEF NextStackFilled, NextStack, FirstStack
<1> QED BY <1>4, <1>5, <1>6

\* ... when an extension is added to its stack ...
LEMMA ResultInvExpand ==
  ASSUME TypeOK, ResultInv, ExpandHypothesis PROVE ResultInv'
<1> USE DEF ResultInv
<1>1. PICK next \in built :
        /\ \E S \in AddPrune(stack[GetNumWordsCovered(next.cov)], next) :
             stack' = [stack EXCEPT ![GetNumWordsCovered(next.cov)] = S]
        /\ built' = built \ {next}
  BY Zenon DEF ExpandHypothesis
<1> DEFINE k == GetNumWordsCovered(next.cov)
<1>2. PICK S \in AddPrune(stack[k], next) :
        stack' = [stack EXCEPT ![k] = S]
  BY <1>1, Zenon
<1>3. S \subseteq stack[k] \cup {next} /\ S # {}
  BY <1>2, AddPruneSubset
<1>4. k \in 0 .. Size /\ k > 0
  BY CoverageCardinality DEF TypeOK, Hypotheses, SeedAlone
<1>5. UNCHANGED <<source, cur, todo, phase, interrupted, actual>>
  BY DEF ExpandHypothesis
<1>6. /\ stack'[k] = S
      /\ \A j \in 0 .. Size : j # k => stack'[j] = stack[j]
  BY <1>2, <1>4 DEF TypeOK
<1>7. \A j \in 0 .. Size : stack[j] # {} => stack'[j] # {}
  BY <1>3, <1>6
<1>8. SeedAlone'
  BY <1>1, <1>4, <1>5, <1>6, ExpansionAssumption DEF SeedAlone
<1>9. StackOfCoverage'
  <2> SUFFICES ASSUME NEW j \in 0 .. Size, NEW hypo \in stack'[j]
               PROVE  \/ GetNumWordsCovered(hypo.cov) = j
                      \/ j = 0 /\ hypo = InitialHypothesis(source.completed)
    BY <1>5 DEF StackOfCoverage
  <2>1. CASE j = k
    BY <1>3, <1>4, <1>6, <2>1 DEF StackOfCoverage
  <2>2. CASE j # k
    BY <1>6, <2>2 DEF StackOfCoverage
  <2> QED BY <2>1, <2>2
<1>10. TodoFromCurrentStack' /\ PhaseEnd'
  BY <1>5 DEF TodoFromCurrentStack, PhaseEnd
<1>11. FirstStack \in Nat /\ FirstStack > 0 /\ cur \in Nat
  BY SeedCoverage, CoverageCardinality, ExpansionAssumption DEF TypeOK, FirstStack
<1>12. StacksFilled'
  BY <1>5, <1>7, <1>11, ExpansionAssumption
     DEF StacksFilled, Reached, FirstStack, TypeOK
<1>13. NextStackFilled'
  <2> SUFFICES ASSUME phase = "expand", Reached(cur), NextStack <= Size, todo = {}
               PROVE  \/ stack'[NextStack] # {}
                      \/ \E hypo \in built' :
                           GetNumWordsCovered(hypo.cov) = NextStack
    BY <1>5 DEF NextStackFilled, Reached, NextStack, FirstStack
  <2>1. NextStack \in 0 .. Size
    BY <1>11, ExpansionAssumption DEF NextStack
  <2>2. CASE stack[NextStack] # {}
    BY <1>7, <2>1, <2>2
  <2>3. ASSUME NEW hypo \in built, GetNumWordsCovered(hypo.cov) = NextStack
        PROVE  \/ stack'[NextStack] # {}
               \/ \E other \in built' :
                    GetNumWordsCovered(other.cov) = NextStack
    BY <1>1, <1>3, <1>6, <2>3
  <2> QED BY <2>2, <2>3 DEF NextStackFilled
<1> QED BY <1>8, <1>9, <1>10, <1>12, <1>13

\* ... when a stack is fully expanded ...
LEMMA ResultInvEndStack ==
  ASSUME TypeOK, ResultInv, EndStack PROVE ResultInv'
<1> USE DEF ResultInv
<1>1. /\ phase = "expand" /\ todo = {} /\ built = {}
      /\ actual' = cur /\ cur' = cur + 1
      /\ phase' = IF cur = Size THEN "done" ELSE "prune"
      /\ UNCHANGED <<source, stack, todo, built, interrupted>>
      /\ cur \in 0 .. Size /\ Size \in Nat
  BY ExpansionAssumption DEF EndStack, TypeOK
<1>2. FirstStack \in Nat /\ FirstStack > 0 /\ FirstStack' = FirstStack
  BY <1>1, SeedCoverage, CoverageCardinality DEF TypeOK, FirstStack
<1>3. SeedAlone' /\ TodoFromCurrentStack' /\ StackOfCoverage' /\ PhaseEnd'
  BY <1>1 DEF SeedAlone, TodoFromCurrentStack, StackOfCoverage, PhaseEnd
<1>4. Reached(cur) /\ NextStack <= Size => stack[NextStack] # {}
  BY <1>1 DEF NextStackFilled
<1>5. StacksFilled'
  <2>1. Reached(cur) => stack[cur] # {}
    BY <1>1 DEF StacksFilled
  <2>2. Reached(cur + 1) /\ cur + 1 <= Size => stack[cur + 1] # {}
    BY <1>1, <1>2, <1>4 DEF StacksFilled, Reached, NextStack
  <2>3. FirstStack <= Size => stack[FirstStack] # {}
    BY <1>1, <1>4 DEF StacksFilled, Reached, NextStack
  <2>4. \A k \in 0 .. Size : Reached(k) /\ k < cur + 1 => stack[k] # {}
    BY <1>1, <2>1 DEF StacksFilled
  <2> QED BY <1>1, <1>2, <2>2, <2>3, <2>4 DEF StacksFilled, Reached
<1>6. NextStackFilled'
  BY <1>1 DEF NextStackFilled
<1> QED BY <1>3, <1>5, <1>6

\* ... and by every step.
LEMMA ResultInvStep ==
  ASSUME TypeOK, DistortionReachability, ConstraintInv, ResultInv, [Next]_vars
  PROVE  ResultInv'
<1>1. CASE OutOfTime
  BY <1>1
     DEF OutOfTime, ResultInv, TodoFromCurrentStack, SeedAlone, StackOfCoverage,
         StacksFilled, NextStackFilled, PhaseEnd, Reached, FirstStack, NextStack
<1>2. CASE UNCHANGED vars
  BY <1>2
     DEF vars, ResultInv, TodoFromCurrentStack, SeedAlone, StackOfCoverage,
         StacksFilled, NextStackFilled, PhaseEnd, Reached, FirstStack, NextStack
<1> QED
  BY <1>1, <1>2, ResultInvBeginStack, ResultInvProcess, ResultInvExpand,
     ResultInvEndStack DEF Next

\* From the invariant there is a hypothesis to output at the end.
LEMMA ResultFromInv ==
  ASSUME TypeOK, ResultInv PROVE ResultAvailable
<1> SUFFICES ASSUME phase = "done",
                    interrupted => source.completed = {} /\ actual # Uninitialized
             PROVE  stack[ResultStack] # {}
  BY DEF ResultAvailable
<1>1. Size \in Nat /\ cur \in Nat
  BY ExpansionAssumption DEF TypeOK
<1>2. CASE interrupted
  <2>1. FirstStack = 1
    BY <1>2, FS_EmptySet DEF FirstStack, GetNumWordsCovered
  <2>2. actual \in 0 .. Size /\ actual < cur /\ ResultStack = actual
    BY <1>2 DEF TypeOK, ResultInv, PhaseEnd, ResultStack
  <2> QED BY <2>1, <2>2 DEF ResultInv, StacksFilled, Reached
<1>3. CASE ~interrupted
  <2>1. ResultStack = Size /\ cur = Size + 1
    BY <1>3 DEF ResultInv, PhaseEnd, ResultStack
  <2>2. Reached(Size)
    <3>1. CASE Size = 0
      BY <3>1 DEF Reached
    <3>2. CASE Size > 0
      <4>1. /\ source.completed \subseteq Positions(Size)
            /\ source.completed # Positions(Size)
        BY <3>2, SeedCoverage DEF TypeOK
      <4>2. FirstStack <= Size
        BY <1>1, <4>1, CoverageCardinality DEF FirstStack
      <4> QED BY <4>2 DEF Reached
    <3> QED BY <1>1, <3>1, <3>2
  <2> QED BY <1>1, <2>1, <2>2 DEF ResultInv, StacksFilled
<1> QED BY <1>2, <1>3

\* Every sentence is translated: when the search ends, or falls back on the last expanded stack,
\* there is a hypothesis to output, and every hypothesis is in the stack of its coverage.
THEOREM AlwaysAResult == Spec => [](ResultAvailable /\ StackOfCoverage)
<1>1. Init => ResultInv
  BY ResultInvInit
<1>2. TypeOK /\ DistortionReachability /\ ConstraintInv /\ ResultInv /\ [Next]_vars
        => ResultInv'
  BY ResultInvStep
<1>3. TypeOK /\ ResultInv => ResultAvailable /\ StackOfCoverage
  BY ResultFromInv DEF ResultInv
<1> QED BY <1>1, <1>2, <1>3, TypeCorrect, DistortionReachable, ConstraintsKept, PTL DEF Spec
=============================================================================
