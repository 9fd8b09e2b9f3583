---------------------- MODULE HypothesisStackNormal_proofs ----------------------
(***************************************************************************)
(* The stack keeps its contract, loses no more than its size, its beam and *)
(* its diversity allow, and has one owner for every hypothesis: for any    *)
(* classes, scores, stack sizes, beams and diversities, and any number of  *)
(* hypotheses offered.                                                     *)
(***************************************************************************)
EXTENDS HypothesisStackNormal, FiniteSetTheorems, NaturalsInduction, SequenceTheorems, TLAPS

(***************************************************************************)
(* Counting the first members of a set of positions.                       *)
(***************************************************************************)

\* A set of natural numbers that is not empty has a least element.
LEMMA LeastNumber ==
  ASSUME NEW S, \A j \in S : j \in Nat, S # {}
  PROVE  \E m \in S : \A other \in S : m <= other
<1>1. IsWellFoundedOn(OpToRel(<, Nat), Nat)
  BY NatLessThanWellFounded
<1>2. PICK m \in S : \A y \in S : ~(<<y, m>> \in OpToRel(<, Nat))
  BY <1>1, WFMin
<1>3. \A y \in S : <<y, m>> \in Nat \X Nat
  BY Zenon
<1>4. \A y \in S : ~(y < m)
  BY <1>2, <1>3, Zenon DEF OpToRel
<1> QED BY <1>4

\* A bounded one has a greatest, which Max gives.
LEMMA GreatestPosition ==
  ASSUME NEW n \in Nat, NEW S, \A j \in S : j \in 1 .. n, S # {}
  PROVE  Max(S) \in S /\ \A other \in S : other <= Max(S)
<1> DEFINE T == {n - x : x \in S}
<1>1. PICK m \in T : \A other \in T : m <= other
  <2>1. (\A y \in T : y \in Nat) /\ T # {}
    OBVIOUS
  <2> HIDE DEF T
  <2> QED BY <2>1, LeastNumber
<1>2. PICK x \in S : m = n - x
  BY <1>1
<1>3. \A other \in S : x >= other
  <2> TAKE other \in S
  <2>1. n - other \in T
    OBVIOUS
  <2> QED BY <1>1, <1>2, <2>1
<1>4. Max(S) \in S /\ \A other \in S : Max(S) >= other
  BY <1>2, <1>3 DEF Max
<1> QED BY <1>4

\* The members of B in front of position i.
Before(B, i) == {j \in B : j < i}

LEMMA BeforeCounted ==
  ASSUME NEW n \in Nat, NEW B, \A j \in B : j \in 1 .. n
  PROVE  /\ IsFiniteSet(B) /\ Cardinality(B) \in Nat
         /\ \A i : IsFiniteSet(Before(B, i)) /\ Cardinality(Before(B, i)) \in Nat
<1>1. IsFiniteSet(1 .. n)
  BY FS_Interval
<1>2. IsFiniteSet(B)
  BY <1>1, FS_Subset
<1>3. ASSUME NEW i PROVE IsFiniteSet(Before(B, i))
  BY <1>2, FS_Subset DEF Before
<1> QED BY <1>2, <1>3, FS_CardinalityType

LEMMA BeforeNext ==
  ASSUME NEW n \in Nat, NEW B, \A j \in B : j \in 1 .. n, NEW i \in B
  PROVE  /\ {j \in B : j <= i} = Before(B, i) \cup {i}
         /\ Cardinality({j \in B : j <= i}) = Cardinality(Before(B, i)) + 1
<1>1. {j \in B : j <= i} = Before(B, i) \cup {i}
  BY DEF Before
<1>2. i \notin Before(B, i) /\ IsFiniteSet(Before(B, i))
  BY BeforeCounted DEF Before
<1> QED BY <1>1, <1>2, FS_AddElement

LEMMA BeforeGrows ==
  ASSUME NEW n \in Nat, NEW B, \A j \in B : j \in 1 .. n, NEW i \in B, NEW j \in B, i < j
  PROVE  Cardinality(Before(B, i)) < Cardinality(Before(B, j))
<1>1. Before(B, i) \cup {i} \in SUBSET Before(B, j)
  BY DEF Before
<1>2. i \notin Before(B, i) /\ IsFiniteSet(Before(B, i)) /\ IsFiniteSet(Before(B, j))
  BY BeforeCounted DEF Before
<1>3. Cardinality(Before(B, i) \cup {i}) = Cardinality(Before(B, i)) + 1
  BY <1>2, FS_AddElement
<1>4. Cardinality(Before(B, i) \cup {i}) <= Cardinality(Before(B, j))
  BY <1>1, <1>2, FS_Subset
<1>5. Cardinality(Before(B, i)) \in Nat /\ Cardinality(Before(B, j)) \in Nat
  BY BeforeCounted
<1> QED BY <1>3, <1>4, <1>5

\* The first k members of B: all of them, or k of which the last is the k-th.
FirstOf(B, k) == {i \in B : Cardinality(Before(B, i)) < k}

LEMMA FirstOnes ==
  ASSUME NEW n \in Nat, NEW B, \A j \in B : j \in 1 .. n, NEW k \in Nat, FirstOf(B, k) # B
  PROVE  /\ Cardinality(FirstOf(B, k)) = k
         /\ k > 0 => /\ FirstOf(B, k) # {}
                     /\ Cardinality(Before(B, Max(FirstOf(B, k)))) = k - 1
         /\ \A i \in FirstOf(B, k), j \in B \ FirstOf(B, k) : i < j
<1> DEFINE F == FirstOf(B, k)
<1>1. F \subseteq B /\ \A j \in F : j \in 1 .. n
  BY DEF FirstOf
<1>2. PICK out \in B \ F : \A other \in B \ F : out <= other
  <2>1. (\A j \in B \ F : j \in Nat) /\ B \ F # {}
    BY <1>1
  <2> QED BY <2>1, LeastNumber
<1>3. \A i \in F, j \in B \ F : i < j
  <2> SUFFICES ASSUME NEW i \in F, NEW j \in B \ F, ~(i < j) PROVE FALSE
    OBVIOUS
  <2>1. i \in 1 .. n /\ j \in 1 .. n /\ i # j /\ j < i
    BY <1>1
  <2>2. Cardinality(Before(B, j)) < Cardinality(Before(B, i))
    BY <1>1, <2>1, BeforeGrows
  <2> QED BY <2>2, BeforeCounted DEF FirstOf
<1>4. F = Before(B, out)
  BY <1>1, <1>2, <1>3 DEF Before
<1>5. Cardinality(F) >= k /\ Cardinality(F) \in Nat /\ IsFiniteSet(F)
  BY <1>2, <1>4, BeforeCounted DEF FirstOf
<1>6. ASSUME F # {}
      PROVE  Cardinality(F) = Cardinality(Before(B, Max(F))) + 1 /\ Cardinality(F) <= k
  <2>1. Max(F) \in F /\ \A other \in F : other <= Max(F)
    BY <1>1, <1>6, GreatestPosition
  <2>2. \A j \in B : j <= Max(F) => j \in F
    BY <1>1, <1>3, <2>1
  <2>3. F = {j \in B : j <= Max(F)}
    BY <1>1, <2>1, <2>2
  <2>4. Cardinality(F) = Cardinality(Before(B, Max(F))) + 1
    BY <1>1, <2>1, <2>3, BeforeNext
  <2>5. Cardinality(Before(B, Max(F))) < k
    BY <2>1 DEF FirstOf
  <2> QED BY <2>4, <2>5, BeforeCounted
<1>7. F = {} => Cardinality(F) = 0
  BY FS_EmptySet
<1>8. Cardinality(F) = k
  BY <1>5, <1>6, <1>7
<1>9. k > 0 => F # {} /\ Cardinality(Before(B, Max(F))) = k - 1
  BY <1>6, <1>7, <1>8, BeforeCounted
<1> QED BY <1>3, <1>8, <1>9

\* Never more than k.
LEMMA FirstBound ==
  ASSUME NEW n \in Nat, NEW B, \A j \in B : j \in 1 .. n, NEW k \in Nat
  PROVE  Cardinality(FirstOf(B, k)) <= k /\ IsFiniteSet(FirstOf(B, k))
<1> DEFINE F == FirstOf(B, k)
<1>1. \A j \in F : j \in B /\ j \in 1 .. n
  BY DEF FirstOf
<1>2. IsFiniteSet(F)
  BY <1>1, BeforeCounted
<1>3. CASE F # B
  <2>1. Cardinality(F) = k
    BY <1>3, FirstOnes
  <2> QED BY <1>2, <2>1
<1>4. CASE F = {}
  BY <1>2, <1>4, FS_EmptySet
<1>5. CASE F = B /\ F # {}
  <2>1. Max(B) \in B /\ \A other \in B : other <= Max(B)
    BY <1>1, <1>5, GreatestPosition
  <2>2. Cardinality({j \in B : j <= Max(B)}) = Cardinality(Before(B, Max(B))) + 1
    BY <2>1, BeforeNext
  <2>3. {j \in B : j <= Max(B)} = B
    BY <2>1
  <2>4. Cardinality(Before(B, Max(B))) < k /\ Cardinality(Before(B, Max(B))) \in Nat
    BY <1>5, <2>1, BeforeCounted DEF FirstOf
  <2>5. Cardinality(B) = Cardinality(Before(B, Max(B))) + 1
    BY <2>2, <2>3
  <2> QED BY <1>2, <1>5, <2>4, <2>5
<1> QED BY <1>3, <1>4, <1>5

\* A set does not become smaller when at most one member e is left out and h comes in.
LEMMA Exchanged ==
  ASSUME NEW S, NEW T, IsFiniteSet(T), NEW e, NEW h, h \notin S,
         \A x \in S : x \in T \/ (x = e /\ h \in T)
  PROVE  IsFiniteSet(S) /\ Cardinality(S) <= Cardinality(T)
<1> DEFINE f == [x \in S |-> IF x \in T THEN x ELSE h]
<1>1. f \in Injection(S, T)
  BY DEF Injection, IsInjective
<1> QED BY <1>1, FS_Injection

\* The same by the number of members up to a position, and for any number.
LEMMA FirstByCount ==
  ASSUME NEW n \in Nat, NEW B, \A j \in B : j \in 1 .. n, NEW k \in Int
  PROVE  /\ k < 0 => {i \in B : Cardinality({j \in B : j <= i}) <= k} = {}
         /\ k >= 0 => {i \in B : Cardinality({j \in B : j <= i}) <= k} = FirstOf(B, k)
<1>1. \A i \in B : /\ Cardinality({j \in B : j <= i}) = Cardinality(Before(B, i)) + 1
                   /\ Cardinality(Before(B, i)) \in Nat
  BY BeforeNext, BeforeCounted
<1>2. \A i \in B : Cardinality({j \in B : j <= i}) <= k <=> Cardinality(Before(B, i)) < k
  BY <1>1
<1>3. k < 0 => \A i \in B : ~(Cardinality(Before(B, i)) < k)
  <2> SUFFICES ASSUME k < 0, NEW i \in B PROVE ~(Cardinality(Before(B, i)) < k)
    OBVIOUS
  <2>1. Cardinality(Before(B, i)) \in Nat
    BY <1>1
  <2> QED BY <2>1
<1>4. {i \in B : Cardinality({j \in B : j <= i}) <= k} = FirstOf(B, k)
  BY <1>2, Zenon DEF FirstOf
<1>5. k < 0 => FirstOf(B, k) = {}
  BY <1>3, Zenon DEF FirstOf
<1> QED BY <1>4, <1>5, Zenon
-----------------------------------------------------------------------------
(***************************************************************************)
(* Types.                                                                  *)
(***************************************************************************)

\* A score is above -infinity by more than the beam.
Hypotheses == [class : Classes, score : {x \in Int : x + BeamWidth > NegInfinity}]

OffersOK(off) == setting \in Settings /\ off \in Seq(Hypotheses) /\ Len(off) <= MaxOffers

Stacks ==
  [hypos : SUBSET Id, bestScore : Int, worstScore : Int, diversityWorst : [Coverages -> Int],
   arcs : [Id -> SUBSET Id], freed : [Id -> Nat]]

StackOK(off, s) == s \in Stacks /\ \A h \in s.hypos : h \in DOMAIN off

TypeOK == OffersOK(offered) /\ StackOK(offered, st) /\ expanded \in BOOLEAN

LEMMA SettingTypes ==
  ASSUME setting \in Settings
  PROVE  /\ MaxHypoStackSize \in Nat \ {0} /\ Diversity \in Nat /\ NBest \in BOOLEAN
         /\ MaxOffers \in Nat /\ BeamWidth \in Int /\ BeamWidth < 0 /\ NegInfinity \in Int
         /\ NBestSize \in Nat \ {0} /\ IsFiniteSet(Id)
BY StackAssumption, FS_Interval
   DEF MaxHypoStackSize, Diversity, NBest, MaxOffers, NegInfinity, Id

LEMMA OfferTypes ==
  ASSUME NEW off, OffersOK(off), NEW h \in DOMAIN off
  PROVE  /\ off[h].class \in Classes /\ off[h].score \in Int
         /\ Score(off, h) = off[h].score /\ Score(off, h) \in Int
         /\ Score(off, h) > NegInfinity /\ off[h].score + BeamWidth > NegInfinity
         /\ Coverage(off, h) \in Coverages /\ h \in Id /\ h \in 1 .. Len(off)
<1>1. h \in 1 .. Len(off) /\ off[h] \in Hypotheses
  BY LenProperties, ElementOfSeq DEF OffersOK
<1>2. off[h].class \in Classes /\ off[h].score \in Int /\ off[h].score + BeamWidth > NegInfinity
  BY <1>1 DEF Hypotheses
<1>3. h \in Id
  BY <1>1, SettingTypes, LenProperties DEF OffersOK, Id
<1> QED BY <1>1, <1>2, <1>3, SettingTypes DEF Score, Coverage, Coverages, OffersOK
-----------------------------------------------------------------------------
(***************************************************************************)
(* PruneToSize.                                                            *)
(***************************************************************************)

\* A sorted list holds each hypothesis once.
LEMMA SortedList ==
  ASSUME NEW off, OffersOK(off), NEW H, \A h \in H : h \in DOMAIN off,
         NEW list \in SortedLists(off, H)
  PROVE  /\ IsFiniteSet(H) /\ Cardinality(H) \in Nat
         /\ DOMAIN list = 1 .. Cardinality(H)
         /\ \A i \in DOMAIN list : list[i] \in H
         /\ \A i, j \in DOMAIN list : list[i] = list[j] => i = j
         /\ \A h \in H : \E i \in DOMAIN list : list[i] = h
         /\ \A i, j \in DOMAIN list : i < j => Score(off, list[i]) >= Score(off, list[j])
<1>1. IsFiniteSet(H) /\ Cardinality(H) \in Nat
  <2>1. H \in SUBSET Id
    BY OfferTypes
  <2>2. IsFiniteSet(H)
    BY <2>1, SettingTypes, FS_Subset DEF OffersOK
  <2> QED BY <2>2, FS_CardinalityType
<1> DEFINE D == 1 .. Cardinality(H)
<1>2. /\ list \in [D -> H]
      /\ \A i, j \in D : i # j => list[i] # list[j]
      /\ \A i, j \in D : i < j => Score(off, list[i]) >= Score(off, list[j])
  BY DEF SortedLists, SetToSeqs
<1>3. list \in Injection(D, H)
  BY <1>2 DEF Injection, IsInjective
<1>4. IsFiniteSet(D) /\ Cardinality(D) = Cardinality(H)
  BY <1>1, FS_Interval
<1>5. list \in Surjection(D, H)
  BY <1>1, <1>3, <1>4, FS_Injection
<1>6. \A h \in H : \E i \in D : list[i] = h
  BY <1>5 DEF Surjection
<1> QED BY <1>1, <1>2, <1>6

\* What Pruned keeps.
Diverse(off, list) == {i \in DOMAIN list : Rank(off, list, i) < Diversity}
InBeam(off, s, list) ==
  {i \in DOMAIN list \ Diverse(off, list) : Score(off, list[i]) > s.bestScore + BeamWidth}
Rest(off, s, n, list) ==
  {i \in InBeam(off, s, list) :
     Cardinality({j \in InBeam(off, s, list) : j <= i}) <= n - Cardinality(Diverse(off, list))}
Kept(off, s, n, list) == {list[i] : i \in Diverse(off, list) \cup Rest(off, s, n, list)}
Full(off, s, n, list) ==
  Cardinality(Kept(off, s, n, list)) = n /\ Rest(off, s, n, list) # {}
Threshold(off, list, v) ==
  {i \in DOMAIN list : Coverage(off, list[i]) = v /\ Rank(off, list, i) = Diversity - 1}

FreedOnce(s, H) ==
  [h \in Id |-> s.freed[h] + (IF h \in H THEN 1 ELSE 0) + Cardinality({w \in H : h \in s.arcs[w]})]
Bared(s, H) == [h \in Id |-> IF h \in H THEN {} ELSE s.arcs[h]]

LEMMA FreeFields ==
  ASSUME NEW s \in Stacks, NEW H
  PROVE  LET p == FreeHypo(s, H) IN
         /\ DOMAIN p = DOMAIN s
         /\ p.hypos = s.hypos /\ p.bestScore = s.bestScore /\ p.worstScore = s.worstScore
         /\ p.diversityWorst = s.diversityWorst
         /\ p.arcs = Bared(s, H) /\ p.freed = FreedOnce(s, H)
BY DEF Stacks, FreeHypo, Bared, FreedOnce

LEMMA FreeTypes ==
  ASSUME setting \in Settings, NEW s \in Stacks, NEW H \in SUBSET Id
  PROVE  FreeHypo(s, H) \in Stacks
<1> DEFINE p == FreeHypo(s, H)
<1>1. \A x : Cardinality({w \in H : x \in s.arcs[w]}) \in Nat
  <2> TAKE x
  <2>1. {w \in H : x \in s.arcs[w]} \in SUBSET Id /\ IsFiniteSet(Id)
    BY SettingTypes
  <2> QED BY <2>1, FS_Subset, FS_CardinalityType
<1>2. FreedOnce(s, H) \in [Id -> Nat]
  <2>1. ASSUME NEW x \in Id
        PROVE  s.freed[x] + (IF x \in H THEN 1 ELSE 0) + Cardinality({w \in H : x \in s.arcs[w]})
                 \in Nat
    <3> DEFINE held == Cardinality({w \in H : x \in s.arcs[w]})
    <3>1. s.freed[x] \in Nat /\ held \in Nat
      BY <1>1 DEF Stacks
    <3> HIDE DEF held
    <3>2. s.freed[x] + (IF x \in H THEN 1 ELSE 0) + held \in Nat
      BY <3>1
    <3> QED BY <3>2 DEF held
  <2> QED BY <2>1, Zenon DEF FreedOnce
<1>3. Bared(s, H) \in [Id -> SUBSET Id]
  BY DEF Bared, Stacks
<1>4. p = [s EXCEPT !.freed = FreedOnce(s, H), !.arcs = Bared(s, H)]
  BY Zenon DEF FreeHypo, FreedOnce, Bared
<1> QED BY <1>2, <1>3, <1>4 DEF Stacks

Gone(off, s, n, list) == s.hypos \ Kept(off, s, n, list)
NewWorst(off, s, n, list) ==
  IF Full(off, s, n, list) THEN Score(off, list[Max(Rest(off, s, n, list))]) ELSE s.worstScore
NewDiversityWorst(off, s, list) ==
  [v \in Coverages |-> IF Threshold(off, list, v) = {} THEN s.diversityWorst[v]
                       ELSE Score(off, list[Max(Threshold(off, list, v))])]

LEMMA PrunedFields ==
  ASSUME NEW s \in Stacks, NEW off, NEW n, NEW list, NEW p, p = Pruned(off, s, n, list)
  PROVE  /\ /\ FreeHypo(s, Gone(off, s, n, list)) \in Stacks /\ Kept(off, s, n, list) \in SUBSET Id
            /\ NewWorst(off, s, n, list) \in Int
            /\ NewDiversityWorst(off, s, list) \in [Coverages -> Int]
            => p \in Stacks
         /\ p.hypos = Kept(off, s, n, list) /\ p.bestScore = s.bestScore
         /\ p.worstScore = NewWorst(off, s, n, list)
         /\ p.diversityWorst = NewDiversityWorst(off, s, list)
         /\ p.arcs = Bared(s, Gone(off, s, n, list)) /\ p.freed = FreedOnce(s, Gone(off, s, n, list))
<1> DEFINE f == FreeHypo(s, Gone(off, s, n, list))
<1>1. /\ f.diversityWorst = s.diversityWorst /\ f.worstScore = s.worstScore
      /\ f.bestScore = s.bestScore
      /\ f.arcs = Bared(s, Gone(off, s, n, list)) /\ f.freed = FreedOnce(s, Gone(off, s, n, list))
      /\ DOMAIN f = {"hypos", "bestScore", "worstScore", "diversityWorst", "arcs", "freed"}
  <2>1. DOMAIN s = {"hypos", "bestScore", "worstScore", "diversityWorst", "arcs", "freed"}
    BY DEF Stacks
  <2> QED BY <2>1, FreeFields
<1>2. p = [f EXCEPT !.hypos = Kept(off, s, n, list), !.worstScore = NewWorst(off, s, n, list),
                    !.diversityWorst = NewDiversityWorst(off, s, list)]
  BY <1>1, Zenon DEF Pruned, Kept, Rest, InBeam, Diverse, Full, Threshold, Gone, NewWorst,
                     NewDiversityWorst
<1> HIDE DEF f
<1>3. /\ p.hypos = Kept(off, s, n, list) /\ p.bestScore = s.bestScore
      /\ p.worstScore = NewWorst(off, s, n, list)
      /\ p.diversityWorst = NewDiversityWorst(off, s, list)
      /\ p.arcs = f.arcs /\ p.freed = f.freed
  BY <1>1, <1>2
<1>4. /\ f \in Stacks /\ Kept(off, s, n, list) \in SUBSET Id /\ NewWorst(off, s, n, list) \in Int
      /\ NewDiversityWorst(off, s, list) \in [Coverages -> Int]
      => p \in Stacks
  BY <1>2 DEF Stacks
<1> QED BY <1>1, <1>3, <1>4, Zenon DEF f

Pruning(off, s, list) ==
  /\ OffersOK(off) /\ StackOK(off, s) /\ list \in SortedLists(off, s.hypos)
  /\ Cardinality(s.hypos) > MaxHypoStackSize

\* The places of a coverage in a list.
Places(off, list, v) == {i \in DOMAIN list : Coverage(off, list[i]) = v}

LEMMA ListTypes ==
  ASSUME NEW off, NEW s, NEW list, Pruning(off, s, list)
  PROVE  /\ \A i \in DOMAIN list : /\ list[i] \in s.hypos /\ list[i] \in DOMAIN off
                                   /\ i \in 1 .. Cardinality(s.hypos)
                                   /\ Score(off, list[i]) \in Int
                                   /\ Coverage(off, list[i]) \in Coverages
         /\ Cardinality(s.hypos) \in Nat /\ DOMAIN list = 1 .. Cardinality(s.hypos)
<1>1. \A h \in s.hypos : h \in DOMAIN off
  BY DEF Pruning, StackOK
<1> QED BY <1>1, SortedList, OfferTypes DEF Pruning

\* The rank of a hypothesis counts the places of its coverage in front of it.
LEMMA RankCounts ==
  ASSUME NEW off, NEW s, NEW list, Pruning(off, s, list), NEW i \in DOMAIN list
  PROVE  /\ Rank(off, list, i)
              = Cardinality(Before(Places(off, list, Coverage(off, list[i])), i))
         /\ Rank(off, list, i) \in Nat
<1> DEFINE P == Places(off, list, Coverage(off, list[i]))
           n == Cardinality(s.hypos)
<1>1. n \in Nat /\ DOMAIN list = 1 .. n /\ \A j \in P : j \in 1 .. n
  BY ListTypes DEF Places
<1>2. Before(P, i) = {j \in 1 .. i - 1 : Coverage(off, list[j]) = Coverage(off, list[i])}
  BY <1>1 DEF Before, Places
<1>3. Cardinality(Before(P, i)) \in Nat
  BY <1>1, BeforeCounted
<1> QED BY <1>2, <1>3 DEF Rank

\* Of each coverage, the first places are the diverse ones.
LEMMA DiverseFirst ==
  ASSUME NEW off, NEW s, NEW list, Pruning(off, s, list), NEW v
  PROVE  Diverse(off, list) \cap Places(off, list, v) = FirstOf(Places(off, list, v), Diversity)
BY RankCounts DEF Diverse, FirstOf, Places

LEMMA KeptCounted ==
  ASSUME NEW off, NEW s, NEW list, Pruning(off, s, list), NEW n
  PROVE  /\ IsFiniteSet(Diverse(off, list)) /\ Cardinality(Diverse(off, list)) \in Nat
         /\ \A i \in InBeam(off, s, list) : i \in 1 .. Cardinality(s.hypos)
         /\ IsFiniteSet(Rest(off, s, n, list)) /\ Cardinality(Rest(off, s, n, list)) \in Nat
         /\ Cardinality(Kept(off, s, n, list))
              = Cardinality(Diverse(off, list)) + Cardinality(Rest(off, s, n, list))
         /\ IsFiniteSet(Kept(off, s, n, list))
<1> DEFINE A == Diverse(off, list)
           R == Rest(off, s, n, list)
           K == Kept(off, s, n, list)
           f == [i \in A \cup R |-> list[i]]
<1>1. /\ A \in SUBSET DOMAIN list /\ R \in SUBSET DOMAIN list /\ A \cap R = {}
      /\ \A i \in InBeam(off, s, list) : i \in DOMAIN list
  BY DEF Diverse, Rest, InBeam
<1>2. IsFiniteSet(DOMAIN list) /\ \A i \in DOMAIN list : i \in 1 .. Cardinality(s.hypos)
  BY ListTypes, FS_Interval
<1>3. IsFiniteSet(A) /\ IsFiniteSet(R)
  BY <1>1, <1>2, FS_Subset
<1>4. Cardinality(A) \in Nat /\ Cardinality(R) \in Nat
  BY <1>3, FS_CardinalityType
<1>5. Cardinality(A \cup R) = Cardinality(A) + Cardinality(R) /\ IsFiniteSet(A \cup R)
  BY <1>1, <1>3, <1>4, FS_Union, FS_EmptySet
<1>6. \A i, j \in DOMAIN list : list[i] = list[j] => i = j
  <2>1. \A h \in s.hypos : h \in DOMAIN off
    BY DEF Pruning, StackOK
  <2> QED BY <2>1, SortedList DEF Pruning
<1>7. f \in Surjection(A \cup R, K)
  BY DEF Surjection, Kept
<1>8. f \in Injection(A \cup R, K)
  BY <1>1, <1>6, <1>7 DEF Injection, IsInjective, Surjection
<1>9. Cardinality(K) = Cardinality(A \cup R) /\ IsFiniteSet(K)
  BY <1>5, <1>7, <1>8, FS_Surjection
<1> QED BY <1>1, <1>2, <1>3, <1>4, <1>5, <1>9

\* The rest are the first in the beam, as many as there is room for.
LEMMA RestFirst ==
  ASSUME NEW off, NEW s, NEW list, Pruning(off, s, list), NEW n \in Nat
  PROVE  LET room == n - Cardinality(Diverse(off, list)) IN
         /\ room < 0 => Rest(off, s, n, list) = {}
         /\ room >= 0 => Rest(off, s, n, list) = FirstOf(InBeam(off, s, list), room)
<1>1. /\ Cardinality(s.hypos) \in Nat /\ n - Cardinality(Diverse(off, list)) \in Int
      /\ \A i \in InBeam(off, s, list) : i \in 1 .. Cardinality(s.hypos)
  BY ListTypes, KeptCounted
<1> QED BY <1>1, FirstByCount, Zenon DEF Rest

LEMMA NoDiversity ==
  ASSUME NEW off, NEW s, NEW list, Pruning(off, s, list), Diversity = 0
  PROVE  Diverse(off, list) = {} /\ Cardinality(Diverse(off, list)) = 0
<1>1. \A i \in DOMAIN list : ~(Rank(off, list, i) < 0)
  <2> TAKE i \in DOMAIN list
  <2>1. Rank(off, list, i) \in Nat
    BY RankCounts
  <2> QED BY <2>1
<1> QED BY <1>1, FS_EmptySet DEF Diverse

\* The threshold of a coverage is its last diverse place; without one, all its places are diverse.
LEMMA ThresholdFound ==
  ASSUME NEW off, NEW s, NEW list, Pruning(off, s, list), NEW v, Diversity > 0
  PROVE  LET P == Places(off, list, v)
             m == Max(Threshold(off, list, v)) IN
         /\ Threshold(off, list, v) = {} => P \subseteq Diverse(off, list)
         /\ Threshold(off, list, v) # {} =>
              /\ m \in P
              /\ \A i \in P : i <= m <=> i \in Diverse(off, list)
              /\ Cardinality({i \in P : i <= m}) = Diversity
<1> DEFINE P == Places(off, list, v)
           T == Threshold(off, list, v)
           n == Cardinality(s.hypos)
<1>1. /\ n \in Nat /\ (\A i \in P : i \in 1 .. n) /\ (\A i \in T : i \in 1 .. n)
      /\ Diversity \in Nat
  BY ListTypes, SettingTypes DEF Places, Threshold, Pruning, OffersOK
<1>2. \A i \in P : /\ Rank(off, list, i) = Cardinality(Before(P, i)) /\ Rank(off, list, i) \in Nat
                   /\ i \in DOMAIN list
  BY RankCounts DEF Places
<1>3. T = {i \in P : Cardinality(Before(P, i)) = Diversity - 1}
  BY <1>2 DEF Threshold, Places
<1>4. \A i \in P : i \in Diverse(off, list) <=> Cardinality(Before(P, i)) < Diversity
  BY <1>2 DEF Diverse
<1>5. ASSUME ~(P \subseteq Diverse(off, list)) PROVE T # {}
  <2>1. FirstOf(P, Diversity) # P
    BY <1>4, <1>5 DEF FirstOf
  <2>2. /\ FirstOf(P, Diversity) # {} /\ \A i \in FirstOf(P, Diversity) : i \in P /\ i \in 1 .. n
        /\ Cardinality(Before(P, Max(FirstOf(P, Diversity)))) = Diversity - 1
    <3> HIDE DEF P, n
    <3>1. \A i \in FirstOf(P, Diversity) : i \in P /\ i \in 1 .. n
      BY <1>1 DEF FirstOf
    <3> QED BY <1>1, <2>1, <3>1, FirstOnes
  <2>3. Max(FirstOf(P, Diversity)) \in FirstOf(P, Diversity)
    BY <1>1, <2>2, GreatestPosition
  <2> QED BY <1>3, <2>2, <2>3
<1>6. ASSUME T # {}
      PROVE  /\ Max(T) \in P /\ \A i \in P : i <= Max(T) <=> i \in Diverse(off, list)
             /\ Cardinality({i \in P : i <= Max(T)}) = Diversity
  <2> DEFINE m == Max(T)
  <2>1. m \in T
    BY <1>1, <1>6, GreatestPosition
  <2>2. m \in P /\ Cardinality(Before(P, m)) = Diversity - 1
    BY <1>3, <2>1
  <2>3. Cardinality({i \in P : i <= m}) = Diversity
    <3> HIDE DEF P, m, n
    <3>1. Cardinality({i \in P : i <= m}) = Cardinality(Before(P, m)) + 1
      BY <1>1, <2>2, BeforeNext
    <3> QED BY <1>1, <2>2, <3>1
  <2>4. ASSUME NEW i \in P PROVE i <= m <=> Cardinality(Before(P, i)) < Diversity
    <3> HIDE DEF P, m, n
    <3>1. /\ i < m => Cardinality(Before(P, i)) < Cardinality(Before(P, m))
          /\ m < i => Cardinality(Before(P, m)) < Cardinality(Before(P, i))
      BY <1>1, <2>2, BeforeGrows
    <3>2. Cardinality(Before(P, i)) \in Nat
      BY <1>1, <2>2, BeforeCounted
    <3>3. i < m \/ i = m \/ m < i
      BY <1>1, <2>2
    <3>4. i <= m <=> ~(m < i)
      BY <1>1, <2>2
    <3>5. Diversity \in Nat /\ Cardinality(Before(P, m)) = Diversity - 1
      BY <1>1, <2>2
    <3>6. m < i => ~(Cardinality(Before(P, i)) < Diversity)
      BY <3>1, <3>2, <3>5
    <3>7. i < m \/ i = m => Cardinality(Before(P, i)) < Diversity
      BY <3>1, <3>2, <3>5
    <3> QED BY <3>3, <3>4, <3>6, <3>7
  <2> QED BY <1>4, <2>2, <2>3, <2>4
<1> QED BY <1>5, <1>6

\* 2^m counts the subsets of a set of m elements.
LEMMA NaturalPower ==
  ASSUME NEW m \in Nat
  PROVE  2^m \in Nat
<1>1. IsFiniteSet(1 .. m) /\ Cardinality(1 .. m) = m
  BY FS_Interval
<1>2. IsFiniteSet(SUBSET (1 .. m)) /\ Cardinality(SUBSET (1 .. m)) = 2^Cardinality(1 .. m)
  BY <1>1, FS_SUBSET
<1>3. Cardinality(SUBSET (1 .. m)) \in Nat
  BY <1>2, FS_CardinalityType
<1> QED BY <1>1, <1>2, <1>3

\* Room for diversity: no more diverse hypotheses are kept than the tolerated size has room for.
LEMMA DiverseBound ==
  ASSUME NEW off, NEW s, NEW list, Pruning(off, s, list), Diversity > 0
  PROVE  /\ 2^MaxDistortion \in Nat
         /\ Cardinality(Diverse(off, list)) <= Diversity * 2^MaxDistortion
<1> DEFINE A == Diverse(off, list)
           T == Coverages \X (0 .. Diversity - 1)
           f == [i \in A |-> <<Coverage(off, list[i]), Rank(off, list, i)>>]
<1>1. /\ Diversity \in Nat /\ IsFiniteSet(Coverages) /\ Cardinality(Coverages) <= 2^MaxDistortion
      /\ Cardinality(Coverages) \in Nat
  <2>1. setting \in Settings /\ setting.diversity > 0
    BY DEF Pruning, OffersOK, Diversity
  <2> QED BY <2>1, CoverageAssumption, FS_CardinalityType, SettingTypes
<1>2. 2^MaxDistortion \in Nat
  BY StackAssumption, NaturalPower
<1>3. f \in Injection(A, T)
  <2>1. \A i \in A : f[i] \in T
    BY <1>1, ListTypes, RankCounts DEF Diverse
  <2>2. ASSUME NEW i \in A, NEW j \in A, f[i] = f[j], i < j PROVE FALSE
    <3> DEFINE P == Places(off, list, Coverage(off, list[i]))
               n == Cardinality(s.hypos)
    <3>1. /\ i \in P /\ j \in P /\ n \in Nat /\ \A k \in P : k \in 1 .. n
          /\ Coverage(off, list[i]) = Coverage(off, list[j])
          /\ Rank(off, list, i) = Rank(off, list, j)
      BY <2>2, ListTypes DEF Diverse, Places
    <3>2. /\ Rank(off, list, i) = Cardinality(Before(P, i))
          /\ Rank(off, list, j) = Cardinality(Before(P, j))
          /\ Rank(off, list, i) \in Nat
      BY <3>1, RankCounts DEF Diverse
    <3>3. Cardinality(Before(P, i)) < Cardinality(Before(P, j))
      <4> HIDE DEF P, n
      <4> QED BY <2>2, <3>1, BeforeGrows
    <3>4. Cardinality(Before(P, i)) = Cardinality(Before(P, j))
          /\ Cardinality(Before(P, i)) \in Nat
      BY <3>1, <3>2, Zenon
    <3> QED BY <3>3, <3>4
  <2>3. \A i \in A : i \in Int
    BY ListTypes DEF Diverse
  <2>4. \A i, j \in A : f[i] = f[j] => i = j
    <3> HIDE DEF f, A
    <3> QED BY <2>2, <2>3
  <2>5. f \in [A -> T]
    BY <2>1
  <2> HIDE DEF f, T, A
  <2> QED BY <2>4, <2>5 DEF Injection, IsInjective
<1>4. IsFiniteSet(T) /\ Cardinality(T) = Cardinality(Coverages) * Diversity
  <2>1. IsFiniteSet(0 .. Diversity - 1) /\ Cardinality(0 .. Diversity - 1) = Diversity
    BY <1>1, FS_Interval
  <2> QED BY <1>1, <2>1, FS_Product
<1>5. Cardinality(A) <= Cardinality(T)
  BY <1>3, <1>4, FS_Injection
<1>6. Cardinality(Coverages) * Diversity <= Diversity * 2^MaxDistortion
  <2>1. \A x, y, d \in Nat : x <= y => x * d <= d * y
    BY Z3
  <2> QED BY <1>1, <1>2, <2>1
<1>7. Cardinality(A) \in Nat /\ Diversity * 2^MaxDistortion \in Nat
  BY <1>1, <1>2, KeptCounted
<1> QED BY <1>1, <1>2, <1>4, <1>5, <1>6, <1>7
-----------------------------------------------------------------------------
(***************************************************************************)
(* The inductive invariant.  O is the set of hypotheses the stack has been *)
(* given: all that were offered, but for the one AddPrune works on.        *)
(***************************************************************************)

\* A hypothesis of x's class that is at least as good is on the stack.
Represented(off, s, x) ==
  \E h \in s.hypos : off[h].class = off[x].class /\ off[h].score >= off[x].score

Unique(off, s) == \A x, y \in s.hypos : off[x].class = off[y].class => x = y

\* The best hypothesis is on the stack, and the thresholds lie between its score and the beam.
BestHeld(off, O, s) ==
  /\ s.bestScore + BeamWidth <= s.worstScore /\ s.worstScore <= s.bestScore
  /\ \A x \in O : off[x].score <= s.bestScore
  /\ O # {} => \E h \in s.hypos : off[h].score = s.bestScore
  /\ O = {} => s.hypos = {} /\ s.bestScore = NegInfinity

AtLeast(off, s, score) == {h \in s.hypos : off[h].score >= score}

\* Without diversity, m_worstScore is the edge of the beam or the score of the last hypothesis that
\* fills the stack, and nothing better than it is lost.
RankKept(off, O, s) ==
  Diversity = 0 =>
    /\ \A h \in s.hypos :
         off[h].score > s.bestScore + BeamWidth => off[h].score >= s.worstScore
    /\ O # {} /\ s.worstScore > s.bestScore + BeamWidth
         => Cardinality(AtLeast(off, s, s.worstScore)) >= MaxHypoStackSize
    /\ \A x \in O : off[x].score <= s.worstScore \/ Represented(off, s, x)

OfCoverage(off, s, v, score) ==
  {h \in s.hypos : Coverage(off, h) = v /\ off[h].score >= score}

\* With diversity, m_diversityWorstScore of a coverage is a score that enough of its hypotheses
\* reach, and nothing better than it is lost.
CoverageKept(off, O, s) ==
  Diversity > 0 =>
    /\ \A v \in Coverages : s.diversityWorst[v] > NegInfinity
         => Cardinality(OfCoverage(off, s, v, s.diversityWorst[v])) >= Diversity
    /\ \A x \in O : \/ off[x].score <= s.diversityWorst[Coverage(off, x)]
                    \/ Represented(off, s, x)

\* Every hypothesis has one owner until it is freed; arcs belong to hypotheses on the stack.
Owned(O, s) ==
  /\ \A w \in Id \ s.hypos : s.arcs[w] = {}
  /\ \A x \in s.hypos : x \in O /\ \A w \in Id : x \notin s.arcs[w]
  /\ \A v, w \in Id : \A x \in s.arcs[v] \cap s.arcs[w] : v = w
  /\ \A w \in Id : s.arcs[w] \subseteq O
  /\ \A x \in Id \ O : s.freed[x] = 0
  /\ \A x \in O : s.freed[x] = IF x \in s.hypos \/ \E w \in Id : x \in s.arcs[w] THEN 0 ELSE 1

ArcsWorse(off, s) ==
  \A w \in Id : \A x \in s.arcs[w] :
    off[x].class = off[w].class /\ off[x].score <= off[w].score

StackInv(off, O, s) ==
  /\ StackOK(off, s) /\ O \subseteq DOMAIN off
  /\ Unique(off, s) /\ BestHeld(off, O, s) /\ RankKept(off, O, s) /\ CoverageKept(off, O, s)
  /\ Owned(O, s) /\ ArcsWorse(off, s)

Inv ==
  /\ TypeOK /\ StackInv(offered, Offers, st) /\ Cardinality(st.hypos) <= ToleratedSize
  /\ expanded /\ Diversity = 0 => Cardinality(st.hypos) <= MaxHypoStackSize
-----------------------------------------------------------------------------
(***************************************************************************)
(* What PruneToSize keeps of the invariant.                                *)
(***************************************************************************)

LEMMA PrunedTypes ==
  ASSUME NEW off, NEW s, NEW list, Pruning(off, s, list),
         NEW p, p = Pruned(off, s, MaxHypoStackSize, list)
  PROVE  StackOK(off, p) /\ p.hypos \subseteq s.hypos
<1> DEFINE n == MaxHypoStackSize
           gone == Gone(off, s, n, list)
           R == Rest(off, s, n, list)
<1>1. s \in Stacks /\ gone \in SUBSET Id /\ setting \in Settings /\ \A h \in s.hypos : h \in DOMAIN off
  BY DEF Pruning, StackOK, Stacks, OffersOK, Gone
<1>2. \A i \in Diverse(off, list) \cup R : i \in DOMAIN list
  BY DEF Diverse, Rest, InBeam
<1>3. Kept(off, s, n, list) \subseteq s.hypos
  BY <1>2, ListTypes DEF Kept
<1>4. FreeHypo(s, gone) \in Stacks
  BY <1>1, FreeTypes
<1>5. Cardinality(s.hypos) \in Nat /\ \A i \in DOMAIN list : i \in 1 .. Cardinality(s.hypos)
  BY ListTypes
<1>6. R # {} => Score(off, list[Max(R)]) \in Int
  <2> HAVE R # {}
  <2>1. Max(R) \in R
    BY <1>2, <1>5, GreatestPosition
  <2> QED BY <1>2, <2>1, ListTypes
<1>7. \A v : Threshold(off, list, v) # {} => Score(off, list[Max(Threshold(off, list, v))]) \in Int
  <2> SUFFICES ASSUME NEW v, Threshold(off, list, v) # {}
               PROVE  Score(off, list[Max(Threshold(off, list, v))]) \in Int
    OBVIOUS
  <2>1. \A i \in Threshold(off, list, v) : i \in DOMAIN list
    BY DEF Threshold
  <2>2. Max(Threshold(off, list, v)) \in Threshold(off, list, v)
    BY <1>5, <2>1, GreatestPosition
  <2> QED BY <2>1, <2>2, ListTypes
<1>8. /\ Kept(off, s, n, list) \in SUBSET Id /\ NewWorst(off, s, n, list) \in Int
      /\ NewDiversityWorst(off, s, list) \in [Coverages -> Int]
  <2>1. s.hypos \in SUBSET Id /\ s.worstScore \in Int /\ s.diversityWorst \in [Coverages -> Int]
    BY <1>1 DEF Stacks
  <2>2. NewWorst(off, s, n, list) \in Int
    BY <1>6, <2>1 DEF Full, NewWorst
  <2>3. NewDiversityWorst(off, s, list) \in [Coverages -> Int]
    BY <1>7, <2>1 DEF NewDiversityWorst
  <2> QED BY <1>3, <2>1, <2>2, <2>3
<1>9. p.hypos = Kept(off, s, n, list) /\ p \in Stacks
  BY <1>1, <1>4, <1>8, PrunedFields
<1> QED BY <1>1, <1>3, <1>9 DEF StackOK

\* The places of the hypotheses in the sorted list.
LEMMA ListSorted ==
  ASSUME NEW off, NEW s, NEW list, Pruning(off, s, list)
  PROVE  /\ \A h \in s.hypos : \E i \in DOMAIN list : list[i] = h
         /\ \A i, j \in DOMAIN list : list[i] = list[j] => i = j
         /\ \A i, j \in DOMAIN list : i <= j => off[list[i]].score >= off[list[j]].score
         /\ \A i \in DOMAIN list : /\ off[list[i]].score = Score(off, list[i])
                                  /\ off[list[i]].score \in Int /\ i \in Int
<1>1. \A h \in s.hypos : h \in DOMAIN off
  BY DEF Pruning, StackOK
<1>2. \A i \in DOMAIN list : /\ off[list[i]].score = Score(off, list[i])
                            /\ off[list[i]].score \in Int /\ i \in Int
  BY ListTypes, OfferTypes DEF Pruning
<1>3. /\ \A h \in s.hypos : \E i \in DOMAIN list : list[i] = h
      /\ \A i, j \in DOMAIN list : list[i] = list[j] => i = j
      /\ \A i, j \in DOMAIN list : i < j => Score(off, list[i]) >= Score(off, list[j])
  BY <1>1, SortedList DEF Pruning
<1> QED BY <1>2, <1>3

LEMMA KeptPlaces ==
  ASSUME NEW off, NEW s, NEW list, Pruning(off, s, list), NEW n
  PROVE  /\ \A i \in DOMAIN list : list[i] \in Kept(off, s, n, list)
                                <=> i \in Diverse(off, list) \/ i \in Rest(off, s, n, list)
         /\ \A i \in Rest(off, s, n, list) :
              i \in DOMAIN list /\ off[list[i]].score > s.bestScore + BeamWidth
         /\ \A i \in Diverse(off, list) : i \in DOMAIN list
<1>1. /\ \A i \in Rest(off, s, n, list) : i \in DOMAIN list
      /\ \A i \in Diverse(off, list) : i \in DOMAIN list
  BY DEF Rest, InBeam, Diverse
<1>2. \A i \in Rest(off, s, n, list) : off[list[i]].score > s.bestScore + BeamWidth
  BY <1>1, ListSorted DEF Rest, InBeam
<1>3. \A i, j \in DOMAIN list : list[i] = list[j] => i = j
  BY ListSorted
<1> QED BY <1>1, <1>2, <1>3 DEF Kept

\* The new threshold is the score of the last of the rest.
LEMMA WorstFound ==
  ASSUME NEW off, NEW s, NEW list, Pruning(off, s, list), NEW n
  PROVE  /\ Rest(off, s, n, list) # {} =>
              LET m == Max(Rest(off, s, n, list)) IN
              m \in Rest(off, s, n, list) /\ \A i \in Rest(off, s, n, list) : i <= m
         /\ Full(off, s, n, list) => NewWorst(off, s, n, list) = off[list[Max(Rest(off, s, n, list))]].score
         /\ ~Full(off, s, n, list) => NewWorst(off, s, n, list) = s.worstScore
<1>1. Rest(off, s, n, list) # {} =>
        LET m == Max(Rest(off, s, n, list)) IN
        m \in Rest(off, s, n, list) /\ \A i \in Rest(off, s, n, list) : i <= m
  <2>1. Cardinality(s.hypos) \in Nat /\ \A i \in Rest(off, s, n, list) : i \in 1 .. Cardinality(s.hypos)
    BY KeptPlaces, ListTypes
  <2> QED BY <2>1, GreatestPosition
<1>2. Full(off, s, n, list) => NewWorst(off, s, n, list) = off[list[Max(Rest(off, s, n, list))]].score
  BY <1>1, KeptPlaces, ListSorted DEF Full, NewWorst
<1> QED BY <1>1, <1>2 DEF NewWorst

\* Pruning leaves no more hypotheses than the stack is meant to hold, or than are diverse.
LEMMA PrunedSize ==
  ASSUME NEW off, NEW s, NEW list, Pruning(off, s, list),
         NEW p, p = Pruned(off, s, MaxHypoStackSize, list)
  PROVE  /\ Cardinality(p.hypos) <= ToleratedSize
         /\ Diversity = 0 => Cardinality(p.hypos) <= MaxHypoStackSize
<1> DEFINE n == MaxHypoStackSize
           a == Cardinality(Diverse(off, list))
           r == Cardinality(Rest(off, s, n, list))
<1>1. n \in Nat \ {0} /\ Diversity \in Nat /\ s \in Stacks
  BY SettingTypes DEF Pruning, OffersOK, StackOK
<1>2. a \in Nat /\ r \in Nat /\ Cardinality(p.hypos) = a + r
  BY <1>1, KeptCounted, PrunedFields
<1>3. a + r <= n \/ r = 0
  <2>1. Cardinality(s.hypos) \in Nat /\ \A i \in InBeam(off, s, list) : i \in 1 .. Cardinality(s.hypos)
    BY KeptCounted, ListTypes
  <2>2. CASE n - a < 0
    BY <1>1, <2>2, RestFirst, FS_EmptySet
  <2>3. CASE n - a >= 0
    <3>1. Rest(off, s, n, list) = FirstOf(InBeam(off, s, list), n - a)
      BY <1>1, <2>3, RestFirst
    <3>2. n - a \in Nat
      BY <1>1, <1>2, <2>3
    <3>3. Cardinality(FirstOf(InBeam(off, s, list), n - a)) <= n - a
      <4> HIDE DEF a, n
      <4> QED BY <2>1, <3>2, FirstBound
    <3> QED BY <1>1, <1>2, <3>1, <3>3
  <2> HIDE DEF n, a
  <2> QED BY <1>1, <1>2, <2>2, <2>3
<1>4. Diversity = 0 => a = 0
  BY NoDiversity
<1>5. Diversity > 0 => 2^MaxDistortion \in Nat /\ a <= Diversity * 2^MaxDistortion
  BY DiverseBound
<1>6. \A d, k \in Nat : d * k \in Nat
  OBVIOUS
<1> HIDE DEF n, a, r
<1>7. CASE Diversity = 0
  <2>1. ToleratedSize = 2 * n - 1 + 0
    BY <1>7 DEF ToleratedSize, n
  <2>2. Cardinality(p.hypos) <= n
    BY <1>1, <1>2, <1>3, <1>4, <1>7
  <2> QED BY <1>1, <1>2, <2>1, <2>2 DEF n
<1>8. CASE Diversity > 0
  <2> DEFINE room == Diversity * 2^MaxDistortion
  <2>1. ToleratedSize = 2 * n - 1 + room /\ room \in Nat /\ a <= room
    BY <1>1, <1>5, <1>6, <1>8 DEF ToleratedSize, n
  <2> HIDE DEF room
  <2> QED BY <1>1, <1>2, <1>3, <1>8, <2>1
<1> QED BY <1>1, <1>7, <1>8

\* The best hypothesis is kept, and the thresholds stay between its score and the beam.
LEMMA PrunedBest ==
  ASSUME NEW off, NEW O, NEW s, NEW list, Pruning(off, s, list), StackInv(off, O, s),
         NEW p, p = Pruned(off, s, MaxHypoStackSize, list)
  PROVE  BestHeld(off, O, p)
<1> DEFINE n == MaxHypoStackSize
           A == Diverse(off, list)
           R == Rest(off, s, n, list)
           B == InBeam(off, s, list)
<1>1. /\ n \in Nat \ {0} /\ Diversity \in Nat /\ s \in Stacks /\ BestHeld(off, O, s)
      /\ BeamWidth \in Int /\ BeamWidth < 0 /\ s.bestScore \in Int /\ s.worstScore \in Int
      /\ \A h \in s.hypos : h \in O
  BY SettingTypes DEF Pruning, OffersOK, StackOK, StackInv, Owned, Stacks
<1>2. /\ p.hypos = Kept(off, s, n, list) /\ p.bestScore = s.bestScore
      /\ p.worstScore = NewWorst(off, s, n, list)
  BY <1>1, PrunedFields
<1>3. /\ p.hypos \subseteq s.hypos
      /\ \A i \in DOMAIN list : list[i] \in s.hypos /\ off[list[i]].score \in Int
  BY PrunedTypes, ListTypes, ListSorted
<1>4. p.bestScore + BeamWidth <= p.worstScore /\ p.worstScore <= p.bestScore
  <2>1. CASE Full(off, s, n, list)
    <3>1. Max(R) \in R /\ p.worstScore = off[list[Max(R)]].score
      BY <1>2, <2>1, WorstFound DEF Full
    <3>2. /\ Max(R) \in DOMAIN list /\ off[list[Max(R)]].score > s.bestScore + BeamWidth
      BY <3>1, KeptPlaces
    <3>3. list[Max(R)] \in O /\ off[list[Max(R)]].score \in Int
      BY <1>1, <1>3, <3>2
    <3>4. off[list[Max(R)]].score <= s.bestScore
      BY <1>1, <3>3 DEF BestHeld
    <3> HIDE DEF R, n
    <3> QED BY <1>1, <1>2, <3>1, <3>2, <3>3, <3>4
  <2>2. CASE ~Full(off, s, n, list)
    <3>1. p.worstScore = s.worstScore
      BY <1>2, <2>2, WorstFound
    <3> QED BY <1>1, <1>2, <3>1 DEF BestHeld
  <2> QED BY <2>1, <2>2
<1>5. ASSUME O # {} PROVE \E h \in p.hypos : off[h].score = p.bestScore
  <2>1. PICK h \in s.hypos : off[h].score = s.bestScore
    BY <1>1, <1>5 DEF BestHeld
  <2>2. PICK i \in DOMAIN list : list[i] = h
    BY ListSorted
  <2>3. /\ DOMAIN list = 1 .. Cardinality(s.hypos) /\ Cardinality(s.hypos) \in Nat
        /\ i \in 1 .. Cardinality(s.hypos)
    BY <2>2, ListTypes
  <2>4. 1 \in DOMAIN list /\ 1 <= i
    BY <2>3
  <2>5. off[list[1]].score >= s.bestScore
    BY <2>1, <2>2, <2>4, ListSorted
  <2>6. off[list[1]].score = s.bestScore
    <3>1. list[1] \in O /\ off[list[1]].score \in Int
      BY <1>1, <1>3, <2>4
    <3>2. off[list[1]].score <= s.bestScore
      BY <1>1, <3>1 DEF BestHeld
    <3> QED BY <1>1, <2>5, <3>1, <3>2
  <2>7. list[1] \in Kept(off, s, n, list)
    <3>1. CASE Diversity > 0
      <4>1. {j \in 1 .. 1 - 1 : Coverage(off, list[j]) = Coverage(off, list[1])} = {}
        OBVIOUS
      <4>2. Rank(off, list, 1) = 0
        BY <4>1, FS_EmptySet DEF Rank
      <4>3. 1 \in A
        BY <2>4, <3>1, <4>2 DEF Diverse
      <4> QED BY <2>4, <4>3, KeptPlaces
    <3>2. CASE Diversity = 0
      <4>1. A = {} /\ Cardinality(A) = 0
        BY <3>2, NoDiversity
      <4>2. off[list[1]].score > s.bestScore + BeamWidth
        BY <1>1, <2>6
      <4>3. Score(off, list[1]) = off[list[1]].score
        BY <2>4, ListSorted
      <4>4. 1 \in B
        BY <2>4, <4>1, <4>2, <4>3 DEF InBeam
      <4>5. Before(B, 1) = {}
        <5>1. \A j \in B : j \in 1 .. Cardinality(s.hypos)
          BY KeptCounted
        <5> HIDE DEF B
        <5> QED BY <2>3, <5>1 DEF Before
      <4>6. 1 \in FirstOf(B, n)
        <5>1. Cardinality(Before(B, 1)) = 0
          BY <4>5, FS_EmptySet
        <5> QED BY <1>1, <4>4, <5>1 DEF FirstOf
      <4>7. R = FirstOf(B, n)
        <5>1. n - Cardinality(A) = n /\ n >= 0
          BY <1>1, <4>1
        <5>2. n - Cardinality(A) >= 0 => R = FirstOf(B, n - Cardinality(A))
          BY <1>1, RestFirst
        <5> HIDE DEF n, A, B, R
        <5> QED BY <5>1, <5>2
      <4> QED BY <2>4, <4>6, <4>7, KeptPlaces
    <3> HIDE DEF n
    <3> QED BY <1>1, <3>1, <3>2
  <2> QED BY <1>2, <2>6, <2>7
<1>6. O = {} => p.hypos = {} /\ p.bestScore = NegInfinity
  BY <1>1, <1>2, <1>3 DEF BestHeld
<1>7. \A x \in O : off[x].score <= p.bestScore
  BY <1>1, <1>2 DEF BestHeld
<1> QED BY <1>4, <1>5, <1>6, <1>7 DEF BestHeld

\* Without diversity, the first in the beam are kept, as many as the stack is meant to hold.
LEMMA PrunedRank ==
  ASSUME NEW off, NEW O, NEW s, NEW list, Pruning(off, s, list), StackInv(off, O, s),
         NEW p, p = Pruned(off, s, MaxHypoStackSize, list)
  PROVE  RankKept(off, O, p)
<1> DEFINE n == MaxHypoStackSize
           R == Rest(off, s, n, list)
           B == InBeam(off, s, list)
           edge == s.bestScore + BeamWidth
<1> SUFFICES ASSUME Diversity = 0 PROVE RankKept(off, O, p)
  BY DEF RankKept
<1>1. /\ n \in Nat \ {0} /\ s \in Stacks /\ BestHeld(off, O, s) /\ RankKept(off, O, s)
      /\ edge \in Int /\ s.worstScore \in Int /\ edge <= s.worstScore
      /\ \A h \in s.hypos : h \in O
      /\ \A x \in O : off[x].score \in Int
  <2>1. setting \in Settings /\ StackOK(off, s) /\ OffersOK(off) /\ O \subseteq DOMAIN off
    BY DEF Pruning, OffersOK, StackInv
  <2>2. s \in Stacks
    BY <2>1 DEF StackOK
  <2>3. s.bestScore \in Int /\ s.worstScore \in Int
    BY ONLY <2>2 DEF Stacks
  <2>4. n \in Nat \ {0} /\ BeamWidth \in Int
    BY <2>1, SettingTypes
  <2>5. \A x \in O : off[x].score \in Int
    BY <2>1, OfferTypes
  <2>6. /\ BestHeld(off, O, s) /\ RankKept(off, O, s) /\ edge <= s.worstScore
        /\ \A h \in s.hypos : h \in O
    BY DEF StackInv, Owned, BestHeld
  <2> QED BY <2>2, <2>3, <2>4, <2>5, <2>6
<1>2. /\ p.hypos = Kept(off, s, n, list) /\ p.bestScore = s.bestScore
      /\ p.worstScore = NewWorst(off, s, n, list)
  BY <1>1, PrunedFields
<1>3. /\ p.hypos \subseteq s.hypos
      /\ \A i \in DOMAIN list : /\ list[i] \in s.hypos /\ off[list[i]].score \in Int
                                /\ i \in Int /\ i \in 1 .. Cardinality(s.hypos)
      /\ \A h \in s.hypos : \E i \in DOMAIN list : list[i] = h
      /\ Cardinality(s.hypos) \in Nat
  BY PrunedTypes, ListTypes, ListSorted
<1>4. \A i \in DOMAIN list : list[i] \in p.hypos <=> i \in R
  BY <1>2, KeptPlaces, NoDiversity
<1>5. R = FirstOf(B, n) /\ Cardinality(p.hypos) = Cardinality(R)
  <2>1. Cardinality(Diverse(off, list)) = 0 /\ Cardinality(R) \in Nat
    BY NoDiversity, KeptCounted
  <2>2. n - Cardinality(Diverse(off, list)) >= 0 => R = FirstOf(B, n - Cardinality(Diverse(off, list)))
    BY <1>1, RestFirst
  <2>3. Cardinality(p.hypos) = Cardinality(Diverse(off, list)) + Cardinality(R)
    BY <1>2, KeptCounted
  <2>4. n - Cardinality(Diverse(off, list)) = n /\ n >= 0
    BY <1>1, <2>1
  <2> HIDE DEF n, R, B
  <2> QED BY <2>1, <2>2, <2>3, <2>4
<1>6. ASSUME NEW i \in B, i \notin R
      PROVE  Full(off, s, n, list) /\ Max(R) < i
  <2>1. (\A j \in B : j \in 1 .. Cardinality(s.hypos)) /\ FirstOf(B, n) # B
    BY <1>5, <1>6, KeptCounted
  <2>2. Cardinality(R) = n /\ \A j \in R : j < i
    <3> HIDE DEF R, B, n
    <3> QED BY <1>1, <1>3, <1>5, <1>6, <2>1, FirstOnes
  <2>3. R # {}
    BY <1>1, <2>2, FS_EmptySet
  <2> QED BY <1>2, <1>5, <2>2, <2>3, WorstFound DEF Full
<1>7. ASSUME Full(off, s, n, list)
      PROVE  /\ Max(R) \in DOMAIN list /\ list[Max(R)] \in s.hypos
             /\ p.worstScore = off[list[Max(R)]].score /\ p.worstScore > edge
             /\ \A i \in R : i <= Max(R)
  <2>1. Max(R) \in R /\ (\A i \in R : i <= Max(R)) /\ p.worstScore = off[list[Max(R)]].score
    BY <1>2, <1>7, WorstFound DEF Full
  <2> QED BY <1>3, <2>1, KeptPlaces
<1>8. p.worstScore \in Int /\ s.worstScore <= p.worstScore
  <2>1. CASE Full(off, s, n, list)
    <3>1. s.worstScore <= off[list[Max(R)]].score
      BY <1>1, <1>7, <2>1 DEF RankKept
    <3> QED BY <1>3, <1>7, <2>1, <3>1
  <2>2. CASE ~Full(off, s, n, list)
    <3>1. p.worstScore = s.worstScore
      BY <1>2, <2>2, WorstFound
    <3> QED BY <1>1, <3>1
  <2> QED BY <2>1, <2>2
<1>9. \A h \in p.hypos :
        off[h].score > p.bestScore + BeamWidth => off[h].score >= p.worstScore
  <2> TAKE h \in p.hypos
  <2>1. PICK i \in DOMAIN list : list[i] = h
    BY <1>3
  <2>2. CASE Full(off, s, n, list)
    <3>1. i <= Max(R) /\ Max(R) \in DOMAIN list
      BY <1>4, <1>7, <2>1, <2>2
    <3> QED BY <1>7, <2>1, <2>2, <3>1, ListSorted
  <2>3. CASE ~Full(off, s, n, list)
    <3>1. p.worstScore = s.worstScore
      BY <1>2, <2>3, WorstFound
    <3> QED BY <1>1, <1>2, <1>3, <3>1 DEF RankKept
  <2> QED BY <2>2, <2>3
<1>10. ASSUME O # {}, p.worstScore > p.bestScore + BeamWidth
       PROVE  Cardinality(AtLeast(off, p, p.worstScore)) >= MaxHypoStackSize
  <2>1. CASE Full(off, s, n, list)
    <3>1. AtLeast(off, p, p.worstScore) = p.hypos
      <4>1. \A h \in p.hypos : off[h].score >= p.worstScore
        <5> TAKE h \in p.hypos
        <5>1. PICK i \in DOMAIN list : list[i] = h
          BY <1>3
        <5>2. i <= Max(R) /\ Max(R) \in DOMAIN list
          BY <1>4, <1>7, <2>1, <5>1
        <5> QED BY <1>7, <2>1, <5>1, <5>2, ListSorted
      <4> QED BY <4>1 DEF AtLeast
    <3>2. Cardinality(p.hypos) = n
      BY <1>2, <2>1 DEF Full
    <3> QED BY <1>1, <3>1, <3>2
  <2>2. CASE ~Full(off, s, n, list)
    <3>1. p.worstScore = s.worstScore /\ s.worstScore > edge
      BY <1>2, <1>10, <2>2, WorstFound
    <3>2. AtLeast(off, s, s.worstScore) = AtLeast(off, p, p.worstScore)
      <4>1. ASSUME NEW h \in s.hypos, off[h].score >= s.worstScore PROVE h \in p.hypos
        <5>1. PICK i \in DOMAIN list : list[i] = h
          BY <1>3
        <5>2. off[list[i]].score > edge /\ Score(off, list[i]) = off[list[i]].score
          <6>1. off[list[i]].score \in Int /\ off[list[i]].score >= s.worstScore
            BY <1>3, <4>1, <5>1
          <6> HIDE DEF edge
          <6> QED BY <1>1, <3>1, <6>1, ListSorted
        <5>3. i \in B
          BY <5>2, NoDiversity DEF InBeam
        <5> QED BY <1>4, <1>6, <2>2, <5>1, <5>3
      <4> QED BY <1>3, <3>1, <4>1 DEF AtLeast
    <3>3. Cardinality(AtLeast(off, s, s.worstScore)) >= MaxHypoStackSize
      BY <1>1, <1>10, <3>1 DEF RankKept
    <3> QED BY <3>2, <3>3
  <2> QED BY <2>1, <2>2
<1>11. ASSUME NEW x \in O
       PROVE  off[x].score <= p.worstScore \/ Represented(off, p, x)
  <2>1. CASE off[x].score <= s.worstScore
    BY <1>1, <1>8, <2>1
  <2>2. CASE Represented(off, s, x)
    <3>1. PICK h \in s.hypos : off[h].class = off[x].class /\ off[h].score >= off[x].score
      BY <2>2 DEF Represented
    <3>2. PICK i \in DOMAIN list : list[i] = h
      BY <1>3
    <3>3. CASE i \in R
      BY <1>4, <3>1, <3>2, <3>3 DEF Represented
    <3>4. CASE i \in B /\ i \notin R
      <4>1. Full(off, s, n, list) /\ Max(R) < i
        BY <1>6, <3>4
      <4>2. Max(R) \in DOMAIN list /\ p.worstScore = off[list[Max(R)]].score /\ Max(R) \in Int
        BY <1>3, <1>7, <4>1
      <4>3. off[list[Max(R)]].score >= off[list[i]].score
        BY <1>3, <4>1, <4>2, ListSorted
      <4> QED BY <1>1, <1>3, <1>8, <3>1, <3>2, <4>2, <4>3
    <3>5. CASE i \notin B
      <4>1. ~(off[h].score > edge)
        BY <3>2, <3>5, NoDiversity, ListSorted DEF InBeam
      <4>2. off[h].score \in Int /\ off[x].score \in Int
        BY <1>1, <1>3, <3>2
      <4> HIDE DEF edge
      <4> QED BY <1>1, <1>8, <3>1, <4>1, <4>2
    <3> QED BY <3>3, <3>4, <3>5
  <2> QED BY <1>1, <2>1, <2>2 DEF RankKept
<1> QED BY <1>9, <1>10, <1>11 DEF RankKept

\* The hypotheses at some places are as many as the places.
LEMMA PlacesCounted ==
  ASSUME NEW off, NEW s, NEW list, Pruning(off, s, list), NEW S, \A i \in S : i \in DOMAIN list
  PROVE  /\ IsFiniteSet({list[i] : i \in S})
         /\ Cardinality({list[i] : i \in S}) = Cardinality(S) /\ Cardinality(S) \in Nat
<1> DEFINE T == {list[i] : i \in S}
           f == [i \in S |-> list[i]]
<1>1. IsFiniteSet(S) /\ Cardinality(S) \in Nat
  <2>1. Cardinality(s.hypos) \in Nat /\ \A i \in S : i \in 1 .. Cardinality(s.hypos)
    BY ListTypes
  <2> QED BY <2>1, BeforeCounted
<1>2. \A i, j \in S : list[i] = list[j] => i = j
  BY ListSorted
<1>3. f \in Surjection(S, T)
  BY DEF Surjection
<1>4. f \in Injection(S, T)
  BY <1>2, <1>3 DEF Injection, IsInjective, Surjection
<1>5. Cardinality(T) = Cardinality(S) /\ IsFiniteSet(T)
  BY <1>1, <1>3, <1>4, FS_Surjection
<1> QED BY <1>1, <1>5

\* With diversity, the first of each coverage are kept.
LEMMA PrunedCoverage ==
  ASSUME NEW off, NEW O, NEW s, NEW list, Pruning(off, s, list), StackInv(off, O, s),
         NEW p, p = Pruned(off, s, MaxHypoStackSize, list)
  PROVE  CoverageKept(off, O, p)
<1> DEFINE n == MaxHypoStackSize
           A == Diverse(off, list)
           P(v) == Places(off, list, v)
           T(v) == Threshold(off, list, v)
           m(v) == Max(T(v))
           was(v) == s.diversityWorst[v]
           now(v) == p.diversityWorst[v]
<1> SUFFICES ASSUME Diversity > 0 PROVE CoverageKept(off, O, p)
  BY DEF CoverageKept
<1>1. /\ Diversity \in Nat /\ s \in Stacks /\ CoverageKept(off, O, s) /\ StackOK(off, p)
      /\ \A x \in O : off[x].score \in Int /\ Coverage(off, x) \in Coverages
      /\ \A v \in Coverages : was(v) \in Int /\ now(v) \in Int
  <2>1. setting \in Settings /\ StackOK(off, s) /\ OffersOK(off) /\ O \subseteq DOMAIN off
    BY DEF Pruning, OffersOK, StackInv
  <2>2. StackOK(off, p)
    BY PrunedTypes
  <2>3. \A v \in Coverages : was(v) \in Int /\ now(v) \in Int
    BY <2>1, <2>2 DEF StackOK, Stacks
  <2>4. s \in Stacks
    BY <2>1 DEF StackOK
  <2> QED BY <2>1, <2>2, <2>3, <2>4, SettingTypes, OfferTypes DEF StackInv
<1>2. p.hypos = Kept(off, s, n, list) /\ p.diversityWorst = NewDiversityWorst(off, s, list)
  BY <1>1, PrunedFields
<1>3. /\ p.hypos \subseteq s.hypos
      /\ \A i \in DOMAIN list : /\ list[i] \in s.hypos /\ off[list[i]].score \in Int
                                /\ i \in Int
      /\ \A h \in s.hypos : /\ \E i \in DOMAIN list : list[i] = h
                            /\ Coverage(off, h) \in Coverages /\ off[h].score \in Int
  BY PrunedTypes, ListTypes, ListSorted
<1>4. \A v : \A i \in P(v) : i \in DOMAIN list /\ Coverage(off, list[i]) = v
  BY DEF Places
<1>5. \A i \in A : i \in DOMAIN list /\ list[i] \in p.hypos
  BY <1>2, KeptPlaces
<1>6. \A v \in Coverages : /\ T(v) = {} => now(v) = was(v) /\ \A i \in P(v) : i \in A
                           /\ T(v) # {} => /\ m(v) \in P(v) /\ now(v) = off[list[m(v)]].score
                                           /\ \A i \in P(v) : i <= m(v) <=> i \in A
                                           /\ Cardinality({i \in P(v) : i <= m(v)}) = Diversity
  <2> TAKE v \in Coverages
  <2>1. /\ T(v) = {} => P(v) \subseteq A
        /\ T(v) # {} => /\ m(v) \in P(v)
                        /\ \A i \in P(v) : i <= m(v) <=> i \in A
                        /\ Cardinality({i \in P(v) : i <= m(v)}) = Diversity
    BY ThresholdFound
  <2>2. now(v) = IF T(v) = {} THEN was(v) ELSE Score(off, list[m(v)])
    BY <1>2 DEF NewDiversityWorst
  <2>3. T(v) # {} => Score(off, list[m(v)]) = off[list[m(v)]].score
    BY <1>4, <2>1, ListSorted
  <2> HIDE DEF T, P, A, m, now, was
  <2> QED BY <2>1, <2>2, <2>3
<1>7. \A v \in Coverages : \A h \in s.hypos :
        Coverage(off, h) = v => \E i \in P(v) : list[i] = h
  BY <1>3 DEF Places
<1> HIDE DEF n, A, P, T, m, was, now
<1>8. ASSUME NEW v \in Coverages, now(v) > NegInfinity
      PROVE  Cardinality(OfCoverage(off, p, v, now(v))) >= Diversity
  <2> DEFINE after == OfCoverage(off, p, v, now(v))
  <2>1. CASE T(v) = {}
    <3>1. \A h \in s.hypos : Coverage(off, h) = v => h \in p.hypos
      <4> SUFFICES ASSUME NEW h \in s.hypos, Coverage(off, h) = v PROVE h \in p.hypos
        OBVIOUS
      <4>1. PICK i \in P(v) : list[i] = h
        BY <1>7
      <4>2. i \in A
        BY <1>6, <2>1
      <4> QED BY <1>5, <4>1, <4>2
    <3>2. after = OfCoverage(off, s, v, was(v))
      BY <1>3, <1>6, <2>1, <3>1 DEF OfCoverage
    <3>3. Cardinality(OfCoverage(off, s, v, was(v))) >= Diversity
      BY <1>1, <1>6, <1>8, <2>1 DEF CoverageKept, was
    <3> QED BY <3>2, <3>3
  <2>2. CASE T(v) # {}
    <3> DEFINE F == {i \in P(v) : i <= m(v)}
               H == {list[i] : i \in F}
    <3>1. Cardinality(F) = Diversity /\ \A i \in F : i \in DOMAIN list
      BY <1>4, <1>6, <2>2
    <3>2. Cardinality(H) = Diversity
      <4> HIDE DEF F
      <4> QED BY <3>1, PlacesCounted
    <3>3. \A i \in F : /\ list[i] \in p.hypos /\ Coverage(off, list[i]) = v
                       /\ off[list[i]].score >= now(v)
      <4> TAKE i \in F
      <4>1. /\ i \in P(v) /\ i <= m(v) /\ m(v) \in P(v) /\ now(v) = off[list[m(v)]].score /\ i \in A
        BY <1>6, <2>2
      <4>2. i \in DOMAIN list /\ m(v) \in DOMAIN list /\ Coverage(off, list[i]) = v
        BY <1>4, <4>1
      <4>3. off[list[i]].score >= off[list[m(v)]].score
        BY <4>1, <4>2, ListSorted
      <4> QED BY <1>5, <4>1, <4>2, <4>3
    <3>4. H \in SUBSET after
      BY <3>3 DEF OfCoverage
    <3>5. IsFiniteSet(after)
      <4>1. after \in SUBSET Id /\ setting \in Settings
        BY <1>1 DEF OfCoverage, StackOK, Stacks, Pruning, OffersOK
      <4> QED BY <4>1, SettingTypes, FS_Subset
    <3>6. Cardinality(H) <= Cardinality(after)
      BY <3>4, <3>5, FS_Subset
    <3> QED BY <3>2, <3>6
  <2> QED BY <2>1, <2>2
<1>9. \A v \in Coverages : was(v) <= now(v)
  <2> SUFFICES ASSUME NEW v \in Coverages, ~(was(v) <= now(v)) PROVE FALSE
    OBVIOUS
  <2>1. T(v) # {}
    <3>1. was(v) \in Int /\ (T(v) = {} => now(v) = was(v))
      BY <1>1, <1>6
    <3> QED BY <3>1
  <2>2. now(v) > NegInfinity /\ was(v) > now(v) /\ was(v) > NegInfinity /\ m(v) \in DOMAIN list
    <3>1. m(v) \in DOMAIN list /\ now(v) = off[list[m(v)]].score
      BY <1>4, <1>6, <2>1
    <3>2. list[m(v)] \in DOMAIN off /\ OffersOK(off)
      BY <3>1, ListTypes DEF Pruning
    <3>3. off[list[m(v)]].score > NegInfinity /\ NegInfinity \in Int
      BY <3>2, OfferTypes, SettingTypes DEF OffersOK
    <3> QED BY <1>1, <3>1, <3>3
  <2> DEFINE before == OfCoverage(off, s, v, was(v))
             F == Before(P(v), m(v))
             H == {list[i] : i \in F}
  <2>3. Cardinality(before) >= Diversity
    BY <1>1, <2>2 DEF CoverageKept, was
  <2>4. before \in SUBSET H
    <3>1. ASSUME NEW h \in before PROVE h \in H
      <4>1. h \in s.hypos /\ Coverage(off, h) = v /\ off[h].score >= was(v)
        BY DEF OfCoverage
      <4>2. PICK i \in P(v) : list[i] = h
        BY <1>7, <4>1
      <4>3. i < m(v)
        <5>1. i \in DOMAIN list /\ i \in Int /\ m(v) \in Int /\ off[list[i]].score \in Int
          BY <1>3, <1>4, <2>2
        <5>2. m(v) <= i => off[list[m(v)]].score >= off[list[i]].score
          BY <2>2, <5>1, ListSorted
        <5>3. now(v) = off[list[m(v)]].score /\ now(v) \in Int /\ was(v) \in Int
          BY <1>1, <1>6, <2>1
        <5>4. ~(off[list[m(v)]].score >= off[list[i]].score)
          BY <2>2, <4>1, <4>2, <5>1, <5>3
        <5> QED BY <5>1, <5>2, <5>4
      <4> QED BY <4>2, <4>3 DEF Before
    <3> HIDE DEF before, H
    <3> QED BY <3>1
  <2>5. \A i \in F : i \in DOMAIN list
    BY <1>4 DEF Before
  <2>6. IsFiniteSet(H) /\ Cardinality(H) = Cardinality(F) /\ Cardinality(F) \in Nat
    <3> HIDE DEF F
    <3> QED BY <2>5, PlacesCounted
  <2>7. Cardinality(F) = Diversity - 1
    <3>1. Cardinality(s.hypos) \in Nat /\ m(v) \in P(v)
          /\ \A i \in P(v) : i \in 1 .. Cardinality(s.hypos)
      BY <1>4, <1>6, <2>1, ListTypes
    <3>2. Cardinality({i \in P(v) : i <= m(v)}) = Cardinality(F) + 1
      BY <3>1, BeforeNext
    <3>3. Cardinality({i \in P(v) : i <= m(v)}) = Diversity
      BY <1>6, <2>1
    <3> QED BY <2>6, <3>2, <3>3
  <2>8. Cardinality(before) <= Cardinality(H) /\ Cardinality(before) \in Nat
    <3> HIDE DEF H, before
    <3> QED BY <2>4, <2>6, FS_Subset, FS_CardinalityType
  <2> QED BY <1>1, <2>3, <2>6, <2>7, <2>8
<1>10. ASSUME NEW x \in O
       PROVE  off[x].score <= now(Coverage(off, x)) \/ Represented(off, p, x)
  <2> DEFINE v == Coverage(off, x)
  <2>1. v \in Coverages /\ off[x].score \in Int
    BY <1>1
  <2>2. CASE off[x].score <= was(v)
    BY <1>1, <1>9, <2>1, <2>2
  <2>3. CASE Represented(off, s, x)
    <3>1. PICK h \in s.hypos : off[h].class = off[x].class /\ off[h].score >= off[x].score
      BY <2>3 DEF Represented
    <3>2. Coverage(off, h) = v
      BY <3>1 DEF Coverage
    <3>3. PICK i \in P(v) : list[i] = h
      BY <1>7, <2>1, <3>2
    <3>4. CASE i \in A
      BY <1>5, <3>1, <3>3, <3>4 DEF Represented
    <3>5. CASE i \notin A
      <4> HIDE DEF v
      <4>1. T(v) # {} /\ m(v) \in DOMAIN list /\ i \in DOMAIN list /\ m(v) \in Int /\ i \in Int
            /\ now(v) = off[list[m(v)]].score /\ ~(i <= m(v))
        BY <1>3, <1>4, <1>6, <2>1, <3>3, <3>5
      <4>2. off[list[m(v)]].score >= off[list[i]].score
        BY <4>1, ListSorted
      <4>3. off[h].score \in Int /\ now(v) \in Int
        BY <1>1, <1>3, <2>1
      <4>4. off[x].score <= now(v)
        BY <2>1, <3>1, <3>3, <4>1, <4>2, <4>3
      <4> QED BY <4>4 DEF v
    <3> QED BY <3>4, <3>5
  <2>4. off[x].score <= was(v) \/ Represented(off, s, x)
    BY <1>1 DEF CoverageKept, was
  <2> QED BY <2>2, <2>3, <2>4
<1> QED BY <1>8, <1>10 DEF CoverageKept, now

-----------------------------------------------------------------------------
(***************************************************************************)
(* Owners and arcs.                                                        *)
(***************************************************************************)

\* How many of the hypotheses in H have x in their arc list: one at most, and x is not an arc of
\* another hypothesis then.
LEMMA ArcCounted ==
  ASSUME NEW O, NEW s \in Stacks, Owned(O, s), NEW H \in SUBSET Id, NEW x
  PROVE  Cardinality({w \in H : x \in s.arcs[w]}) = IF \E w \in H : x \in s.arcs[w] THEN 1 ELSE 0
<1>1. CASE \E w \in H : x \in s.arcs[w]
  <2>1. PICK w \in H : x \in s.arcs[w]
    BY <1>1
  <2>2. \A v \in H : x \in s.arcs[v] => v = w
    BY <2>1 DEF Owned
  <2>3. {v \in H : x \in s.arcs[v]} = {w}
    BY <2>1, <2>2
  <2> QED BY <1>1, <2>3, FS_Singleton
<1>2. CASE ~ \E w \in H : x \in s.arcs[w]
  <2>1. {v \in H : x \in s.arcs[v]} = {}
    BY <1>2
  <2> QED BY <1>2, <2>1, FS_EmptySet
<1> QED BY <1>1, <1>2

\* Hypotheses that are on the stack, or that are new, are deleted with their arcs.
LEMMA FreedOwned ==
  ASSUME NEW O, NEW s \in Stacks, Owned(O, s), NEW t, NEW H \in SUBSET Id,
         \A x \in O : x \in Id, \A x \in H : x \in s.hypos \/ x \notin O,
         t.hypos = s.hypos \ H, t.arcs = Bared(s, H), t.freed = FreedOnce(s, H)
  PROVE  Owned(O \cup H, t)
<1>1. \A w \in Id : t.arcs[w] = IF w \in H THEN {} ELSE s.arcs[w]
  BY DEF Bared
<1>2. \A x \in Id : t.freed[x] = s.freed[x] + (IF x \in H THEN 1 ELSE 0)
                                   + (IF \E w \in H : x \in s.arcs[w] THEN 1 ELSE 0)
  <2> TAKE x \in Id
  <2> DEFINE held == Cardinality({w \in H : x \in s.arcs[w]})
  <2>1. t.freed[x] = s.freed[x] + (IF x \in H THEN 1 ELSE 0) + held
    BY DEF FreedOnce
  <2>2. held = IF \E w \in H : x \in s.arcs[w] THEN 1 ELSE 0
    BY ArcCounted
  <2> HIDE DEF held
  <2> QED BY <2>1, <2>2, Zenon
<1>3. s.hypos \in SUBSET Id /\ \A x \in Id : s.freed[x] \in Nat
  BY DEF Stacks
<1>4. /\ \A w \in Id \ t.hypos : t.arcs[w] = {}
      /\ \A x \in t.hypos : x \in O \cup H /\ \A w \in Id : x \notin t.arcs[w]
      /\ \A v, w \in Id : \A x \in t.arcs[v] \cap t.arcs[w] : v = w
      /\ \A w \in Id : t.arcs[w] \subseteq O \cup H
  BY <1>1, <1>3 DEF Owned
<1>5. ASSUME NEW x \in Id \ (O \cup H) PROVE t.freed[x] = 0
  <2>1. s.freed[x] = 0 /\ \A w \in Id : x \notin s.arcs[w]
    BY DEF Owned
  <2> QED BY <1>2, <2>1
<1>6. ASSUME NEW x \in O \cup H
      PROVE  t.freed[x] = IF x \in t.hypos \/ \E w \in Id : x \in t.arcs[w] THEN 0 ELSE 1
  <2>1. x \in Id /\ s.freed[x] \in Nat
    BY <1>3
  <2>2. CASE x \in H
    <3>1. s.freed[x] = 0 /\ \A w \in Id : x \notin s.arcs[w]
      BY <2>1, <2>2 DEF Owned
    <3>2. t.freed[x] = 1
      BY <1>2, <2>1, <2>2, <3>1
    <3> QED BY <1>1, <2>2, <3>1, <3>2
  <2>3. CASE x \notin H /\ x \in s.hypos
    <3>1. s.freed[x] = 0 /\ \A w \in Id : x \notin s.arcs[w]
      BY <2>1, <2>3 DEF Owned
    <3>2. t.freed[x] = 0 /\ x \in t.hypos
      BY <1>2, <2>1, <2>3, <3>1
    <3> QED BY <3>2
  <2>4. CASE x \notin H /\ x \notin s.hypos /\ \E w \in H : x \in s.arcs[w]
    <3>1. PICK w \in H : x \in s.arcs[w]
      BY <2>4
    <3>2. x \in O /\ s.freed[x] = 0
      BY <2>1, <2>4, <3>1 DEF Owned
    <3>3. t.freed[x] = 1
      BY <1>2, <2>1, <2>4, <3>2
    <3>4. \A v \in Id : x \notin t.arcs[v]
      BY <1>1, <3>1 DEF Owned
    <3> QED BY <2>4, <3>3, <3>4
  <2>5. CASE x \notin H /\ x \notin s.hypos /\ ~ \E w \in H : x \in s.arcs[w]
    <3>1. t.freed[x] = s.freed[x] /\ x \in O /\ x \notin t.hypos
      BY <1>2, <2>1, <2>5
    <3>2. s.freed[x] = IF \E w \in Id : x \in s.arcs[w] THEN 0 ELSE 1
      BY <2>5, <3>1 DEF Owned
    <3>3. (\E w \in Id : x \in s.arcs[w]) <=> \E w \in Id : x \in t.arcs[w]
      BY <1>1, <2>5
    <3> QED BY <3>1, <3>2, <3>3
  <2> QED BY <2>2, <2>3, <2>4, <2>5
<1> QED BY <1>4, <1>5, <1>6 DEF Owned

\* The arcs left are arcs there were before.
LEMMA BaredWorse ==
  ASSUME NEW off, NEW s, NEW t, NEW H, ArcsWorse(off, s), t.arcs = Bared(s, H)
  PROVE  ArcsWorse(off, t)
<1>1. \A w \in Id : t.arcs[w] \subseteq s.arcs[w]
  BY DEF Bared
<1> QED BY <1>1 DEF ArcsWorse

LEMMA ToleratedTypes ==
  ASSUME setting \in Settings
  PROVE  ToleratedSize \in Int /\ MaxHypoStackSize <= ToleratedSize
<1> DEFINE n == MaxHypoStackSize
           room == Diversity * 2^MaxDistortion
<1>1. n \in Nat \ {0} /\ Diversity \in Nat
  BY SettingTypes
<1>2. room \in Nat
  <2>1. 2^MaxDistortion \in Nat
    BY StackAssumption, NaturalPower
  <2>2. \A d, k \in Nat : d * k \in Nat
    OBVIOUS
  <2> QED BY <1>1, <2>1, <2>2
<1>3. ToleratedSize = 2 * n - 1 + (IF Diversity > 0 THEN room ELSE 0)
  BY DEF ToleratedSize
<1> HIDE DEF n, room
<1> QED BY <1>1, <1>2, <1>3 DEF n

\* PruneToSize keeps the invariant, and leaves no more hypotheses than are tolerated.
LEMMA PruneToSizeOK ==
  ASSUME NEW off, OffersOK(off), NEW O, NEW s, StackInv(off, O, s),
         NEW p \in PruneToSize(off, s, MaxHypoStackSize)
  PROVE  /\ StackInv(off, O, p) /\ Cardinality(p.hypos) <= ToleratedSize
         /\ Diversity = 0 => Cardinality(p.hypos) <= MaxHypoStackSize
<1> DEFINE n == MaxHypoStackSize
<1>1. /\ s \in Stacks /\ setting \in Settings /\ n \in Nat \ {0} /\ Diversity \in Nat
      /\ StackOK(off, s) /\ O \subseteq DOMAIN off /\ Cardinality(s.hypos) \in Nat
  <2>1. s \in Stacks /\ setting \in Settings /\ StackOK(off, s) /\ O \subseteq DOMAIN off
    BY DEF StackInv, StackOK, OffersOK
  <2>2. s.hypos \in SUBSET Id /\ IsFiniteSet(Id)
    BY <2>1, SettingTypes DEF Stacks
  <2> QED BY <2>1, <2>2, SettingTypes, FS_Subset, FS_CardinalityType
<1>2. CASE Cardinality(s.hypos) <= n
  <2>1. p = s
    BY <1>2 DEF PruneToSize
  <2>2. n <= ToleratedSize /\ ToleratedSize \in Int
    BY <1>1, ToleratedTypes
  <2> HIDE DEF n
  <2> QED BY <1>1, <1>2, <2>1, <2>2 DEF n
<1>3. CASE ~(Cardinality(s.hypos) <= n)
  <2>1. PICK list \in SortedLists(off, s.hypos) : p = Pruned(off, s, n, list)
    BY <1>3 DEF PruneToSize
  <2>2. Pruning(off, s, list) /\ p = Pruned(off, s, MaxHypoStackSize, list)
    BY <1>1, <1>3, <2>1 DEF Pruning
  <2>3. StackOK(off, p) /\ p.hypos \subseteq s.hypos
    BY <2>2, PrunedTypes
  <2>4. BestHeld(off, O, p) /\ RankKept(off, O, p) /\ CoverageKept(off, O, p)
    BY <2>2, PrunedBest, PrunedRank, PrunedCoverage
  <2>5. /\ Cardinality(p.hypos) <= ToleratedSize
        /\ Diversity = 0 => Cardinality(p.hypos) <= MaxHypoStackSize
    BY <2>2, PrunedSize
  <2>6. Unique(off, p)
    BY <2>3 DEF StackInv, Unique
  <2>7. p.hypos = Kept(off, s, n, list) /\ p.arcs = Bared(s, Gone(off, s, n, list))
        /\ p.freed = FreedOnce(s, Gone(off, s, n, list))
    BY <1>1, <2>2, PrunedFields
  <2>8. Owned(O, p)
    <3> DEFINE H == s.hypos \ p.hypos
    <3>1. /\ H \in SUBSET Id /\ Owned(O, s)
          /\ \A x \in O : x \in Id
          /\ \A h \in H : h \in s.hypos /\ h \in O
      BY <1>1, OfferTypes DEF Stacks, StackInv, Owned
    <3>2. p.hypos = s.hypos \ H /\ p.arcs = Bared(s, H) /\ p.freed = FreedOnce(s, H)
      BY <2>3, <2>7 DEF Gone
    <3>3. Owned(O \cup H, p)
      <4> HIDE DEF H
      <4> QED BY <1>1, <3>1, <3>2, FreedOwned
    <3>4. O \cup H = O
      <4> HIDE DEF H
      <4> QED BY <3>1
    <3> QED BY <3>3, <3>4
  <2>9. ArcsWorse(off, p)
    BY <2>7, BaredWorse DEF StackInv
  <2> QED BY <1>1, <2>3, <2>4, <2>5, <2>6, <2>8, <2>9 DEF StackInv
<1> QED BY <1>2, <1>3

-----------------------------------------------------------------------------
(***************************************************************************)
(* AddPrune: a hypothesis h is dropped, or inserted instead of the worse   *)
(* ones of its class.                                                      *)
(***************************************************************************)

\* The stack s, the hypotheses O it has been given, and a new hypothesis h.
Adding(off, O, s, h) ==
  OffersOK(off) /\ StackInv(off, O, s) /\ h \in DOMAIN off /\ h \notin O

LEMMA AddingTypes ==
  ASSUME NEW off, NEW O, NEW s, NEW h, Adding(off, O, s, h)
  PROVE  /\ s \in Stacks /\ StackOK(off, s) /\ h \in Id /\ h \notin s.hypos /\ O \subseteq DOMAIN off
         /\ \A x \in O : x \in Id
         /\ s.bestScore \in Int /\ s.worstScore \in Int /\ BeamWidth \in Int /\ BeamWidth < 0
         /\ s.hypos \in SUBSET Id
         /\ \A v \in Coverages : s.diversityWorst[v] \in Int
         /\ Diversity \in Nat /\ MaxHypoStackSize \in Nat \ {0} /\ NegInfinity \in Int
         /\ \A x \in s.hypos : x \in O
         /\ \A x \in O \cup {h} : /\ off[x].score \in Int /\ off[x].score > NegInfinity
                                  /\ Score(off, x) = off[x].score
                                  /\ off[x].score + BeamWidth > NegInfinity
                                  /\ Coverage(off, x) \in Coverages /\ off[x].class \in Classes
         /\ Cardinality(s.hypos) \in Nat /\ IsFiniteSet(Id) /\ setting \in Settings
<1>1. /\ setting \in Settings /\ s \in Stacks /\ StackOK(off, s) /\ O \subseteq DOMAIN off
      /\ OffersOK(off) /\ Owned(O, s) /\ h \in DOMAIN off /\ h \notin O
  BY DEF Adding, StackInv, StackOK, OffersOK
<1>2. /\ s.bestScore \in Int /\ s.worstScore \in Int /\ s.hypos \in SUBSET Id
      /\ \A v \in Coverages : s.diversityWorst[v] \in Int
  BY <1>1 DEF Stacks
<1>3. \A x \in s.hypos : x \in O
  BY <1>1 DEF Owned
<1>4. IsFiniteSet(Id) /\ Cardinality(s.hypos) \in Nat
  BY <1>1, <1>2, SettingTypes, FS_Subset, FS_CardinalityType
<1> QED BY <1>1, <1>2, <1>3, <1>4, SettingTypes, OfferTypes

\* What Add does to the scores of the stack.
Scored(off, s, h, t) ==
  LET score == off[h].score IN
  /\ t.bestScore = IF score > s.bestScore THEN score ELSE s.bestScore
  /\ t.worstScore = IF score > s.bestScore /\ score + BeamWidth > s.worstScore
                    THEN score + BeamWidth ELSE s.worstScore
  /\ \A v \in Coverages :
       t.diversityWorst[v] = IF v = Coverage(off, h) /\ Diversity = 1 /\ score > s.diversityWorst[v]
                             THEN score ELSE s.diversityWorst[v]

\* h is inserted: it takes the place of the worse one of its class, if there is one.
Inserting(off, O, s, h, t) ==
  /\ Adding(off, O, s, h) /\ StackOK(off, t) /\ Scored(off, s, h, t)
  /\ t.hypos = (s.hypos \ Equivalent(off, s, h)) \cup {h}
  /\ ~TooBad(off, s, h) /\ \A e \in Equivalent(off, s, h) : off[h].score > off[e].score

LEMMA InsertingTypes ==
  ASSUME NEW off, NEW O, NEW s, NEW h, NEW t, Inserting(off, O, s, h, t)
  PROVE  /\ t.bestScore \in Int /\ t.worstScore \in Int /\ t.hypos \in SUBSET Id
         /\ \A v \in Coverages : t.diversityWorst[v] \in Int
         /\ s.bestScore <= t.bestScore /\ s.worstScore <= t.worstScore
         /\ \A v \in Coverages : s.diversityWorst[v] <= t.diversityWorst[v]
         /\ \A x \in O \cup {h} : x = h \/ Represented(off, s, x) => Represented(off, t, x)
<1>1. Adding(off, O, s, h) /\ t \in Stacks
  BY DEF Inserting, StackOK
<1>2. /\ t.bestScore \in Int /\ t.worstScore \in Int /\ t.hypos \in SUBSET Id
      /\ \A v \in Coverages : t.diversityWorst[v] \in Int
  BY <1>1 DEF Stacks
<1>3. s.bestScore <= t.bestScore /\ s.worstScore <= t.worstScore
      /\ \A v \in Coverages : s.diversityWorst[v] <= t.diversityWorst[v]
  BY <1>1, <1>2, AddingTypes DEF Inserting, Scored
<1>4. ASSUME NEW x \in O \cup {h}, x = h \/ Represented(off, s, x) PROVE Represented(off, t, x)
  <2>1. h \in t.hypos /\ off[h].score \in Int /\ off[x].score \in Int
        /\ \A y \in s.hypos : off[y].score \in Int
    BY <1>1, AddingTypes DEF Inserting
  <2>2. CASE x = h
    BY <2>1, <2>2 DEF Represented
  <2>3. CASE Represented(off, s, x)
    <3>1. PICK y \in s.hypos : off[y].class = off[x].class /\ off[y].score >= off[x].score
      BY <2>3 DEF Represented
    <3>2. CASE y \in Equivalent(off, s, h)
      <4>1. off[h].score > off[y].score /\ off[y].class = off[h].class
        BY <3>2 DEF Inserting, Equivalent
      <4>2. off[h].score >= off[x].score /\ off[h].class = off[x].class
        BY <2>1, <3>1, <4>1
      <4> QED BY <2>1, <4>2 DEF Represented
    <3>3. CASE y \notin Equivalent(off, s, h)
      BY <3>1, <3>3 DEF Inserting, Represented
    <3> QED BY <3>2, <3>3
  <2> QED BY <1>4, <2>2, <2>3
<1> QED BY <1>2, <1>3, <1>4

LEMMA InsertedUnique ==
  ASSUME NEW off, NEW O, NEW s, NEW h, NEW t, Inserting(off, O, s, h, t)
  PROVE  Unique(off, t)
BY DEF Inserting, Adding, StackInv, Unique, Equivalent

LEMMA InsertedBest ==
  ASSUME NEW off, NEW O, NEW s, NEW h, NEW t, Inserting(off, O, s, h, t)
  PROVE  BestHeld(off, O \cup {h}, t)
<1>1. Adding(off, O, s, h) /\ BestHeld(off, O, s) /\ Scored(off, s, h, t)
  BY DEF Inserting, Adding, StackInv
<1>2. t.bestScore + BeamWidth <= t.worstScore /\ t.worstScore <= t.bestScore
  BY <1>1, AddingTypes, InsertingTypes DEF BestHeld, Scored
<1>3. \A x \in O \cup {h} : off[x].score <= t.bestScore
  BY <1>1, AddingTypes, InsertingTypes DEF BestHeld, Scored
<1>4. \E x \in t.hypos : off[x].score = t.bestScore
  <2>1. CASE off[h].score > s.bestScore
    BY <1>1, <2>1 DEF Scored, Inserting
  <2>2. CASE ~(off[h].score > s.bestScore)
    <3>1. O # {}
      BY <1>1, <2>2, AddingTypes DEF BestHeld
    <3>2. PICK x \in s.hypos : off[x].score = s.bestScore
      BY <1>1, <3>1 DEF BestHeld
    <3>3. x \notin Equivalent(off, s, h)
      BY <2>2, <3>2 DEF Inserting
    <3>4. x \in t.hypos /\ t.bestScore = s.bestScore
      BY <1>1, <2>2, <3>3 DEF Inserting, Scored
    <3> QED BY <3>2, <3>4
  <2> QED BY <2>1, <2>2
<1> QED BY <1>2, <1>3, <1>4 DEF BestHeld

\* The one that h takes the place of is counted no more, but h is.
LEMMA InsertedCount ==
  ASSUME NEW off, NEW O, NEW s, NEW h, NEW t, Inserting(off, O, s, h, t),
         NEW S \in SUBSET s.hypos, NEW T \in SUBSET Id,
         \A x \in S : IF x \in Equivalent(off, s, h) THEN h \in T ELSE x \in T
  PROVE  /\ Cardinality(S) \in Nat /\ Cardinality(T) \in Nat
         /\ Cardinality(S) <= Cardinality(T)
<1>1. Adding(off, O, s, h) /\ Unique(off, s)
  BY DEF Inserting, Adding, StackInv
<1>2. IsFiniteSet(T) /\ h \notin S
  BY <1>1, AddingTypes, FS_Subset
<1>3. PICK e : \A x \in Equivalent(off, s, h) : x = e
  BY <1>1 DEF Unique, Equivalent
<1>4. \A x \in S : x \in T \/ (x = e /\ h \in T)
  BY <1>3
<1>5. IsFiniteSet(S) /\ Cardinality(S) <= Cardinality(T)
  BY <1>2, <1>4, Exchanged
<1> QED BY <1>2, <1>5, FS_CardinalityType

LEMMA InsertedRank ==
  ASSUME NEW off, NEW O, NEW s, NEW h, NEW t, Inserting(off, O, s, h, t)
  PROVE  RankKept(off, O \cup {h}, t)
<1> SUFFICES ASSUME Diversity = 0 PROVE RankKept(off, O \cup {h}, t)
  BY DEF RankKept
<1> DEFINE score == off[h].score
<1>1. /\ Adding(off, O, s, h) /\ Scored(off, s, h, t) /\ RankKept(off, O, s) /\ BestHeld(off, O, s)
      /\ score \in Int /\ BeamWidth \in Int /\ BeamWidth < 0
      /\ s.bestScore \in Int /\ s.worstScore \in Int /\ t.bestScore \in Int /\ t.worstScore \in Int
      /\ s.bestScore <= t.bestScore /\ s.worstScore <= t.worstScore
      /\ \A x \in s.hypos : x \in O
      /\ \A x \in O \cup {h} : off[x].score \in Int
  BY AddingTypes, InsertingTypes DEF Inserting, Adding, StackInv
<1>2. ASSUME NEW x \in t.hypos, off[x].score > t.bestScore + BeamWidth
      PROVE  off[x].score >= t.worstScore
  <2>1. CASE x \in s.hypos
    <3>1. off[x].score \in Int /\ off[x].score > s.bestScore + BeamWidth
      BY <1>1, <1>2, <2>1
    <3>2. off[x].score >= s.worstScore
      BY <1>1, <2>1, <3>1 DEF RankKept
    <3> QED BY <1>1, <1>2, <3>1, <3>2 DEF Scored
  <2>2. CASE x = h
    <3>1. score >= s.worstScore
      BY <1>1, AddingTypes DEF Inserting, TooBad
    <3> QED BY <1>1, <1>2, <2>2, <3>1 DEF Scored
  <2> QED BY <2>1, <2>2 DEF Inserting
<1>3. ASSUME t.worstScore > t.bestScore + BeamWidth
      PROVE  Cardinality(AtLeast(off, t, t.worstScore)) >= MaxHypoStackSize
  <2>1. t.worstScore = s.worstScore /\ s.worstScore > s.bestScore + BeamWidth
    BY <1>1, <1>3 DEF Scored
  <2>2. O # {}
    <3>1. score + BeamWidth > NegInfinity /\ NegInfinity \in Int
      BY <1>1, AddingTypes
    <3>2. ASSUME O = {} PROVE FALSE
      <4>1. s.bestScore = NegInfinity /\ s.worstScore <= NegInfinity
        BY <1>1, <3>2 DEF BestHeld
      <4>2. t.bestScore = score /\ t.worstScore = score + BeamWidth
        BY <1>1, <3>1, <4>1 DEF Scored
      <4> QED BY <1>1, <1>3, <4>2
    <3> QED BY <3>2
  <2>3. Cardinality(AtLeast(off, s, s.worstScore)) >= MaxHypoStackSize
    BY <1>1, <2>1, <2>2 DEF RankKept
  <2> DEFINE S == AtLeast(off, s, s.worstScore)
             T == AtLeast(off, t, t.worstScore)
  <2>4. S \in SUBSET s.hypos /\ T \in SUBSET Id
    BY InsertingTypes DEF AtLeast
  <2>5. \A x \in S : IF x \in Equivalent(off, s, h) THEN h \in T ELSE x \in T
    BY <1>1, <2>1 DEF AtLeast, Inserting
  <2>6. Cardinality(S) \in Nat /\ Cardinality(T) \in Nat /\ Cardinality(S) <= Cardinality(T)
    <3> HIDE DEF S, T
    <3> QED BY <2>4, <2>5, InsertedCount
  <2>7. MaxHypoStackSize \in Nat
    BY <1>1, AddingTypes
  <2> QED BY <2>3, <2>6, <2>7
<1>4. ASSUME NEW x \in O \cup {h}
      PROVE  off[x].score <= t.worstScore \/ Represented(off, t, x)
  <2>1. x = h \/ off[x].score <= s.worstScore \/ Represented(off, s, x)
    BY <1>1 DEF RankKept
  <2> QED BY <1>1, <2>1, InsertingTypes
<1> QED BY <1>2, <1>3, <1>4 DEF RankKept

LEMMA InsertedCoverage ==
  ASSUME NEW off, NEW O, NEW s, NEW h, NEW t, Inserting(off, O, s, h, t)
  PROVE  CoverageKept(off, O \cup {h}, t)
<1> SUFFICES ASSUME Diversity > 0 PROVE CoverageKept(off, O \cup {h}, t)
  BY DEF CoverageKept
<1> DEFINE was(v) == s.diversityWorst[v]
           now(v) == t.diversityWorst[v]
<1>1. /\ Adding(off, O, s, h) /\ CoverageKept(off, O, s) /\ Diversity \in Nat
      /\ \A v \in Coverages : was(v) \in Int /\ now(v) \in Int /\ was(v) <= now(v)
      /\ \A x \in O \cup {h} : off[x].score \in Int /\ Coverage(off, x) \in Coverages
  BY AddingTypes, InsertingTypes DEF Inserting, Adding, StackInv
<1>2. ASSUME NEW v \in Coverages, now(v) > NegInfinity
      PROVE  Cardinality(OfCoverage(off, t, v, now(v))) >= Diversity
  <2> DEFINE S == OfCoverage(off, s, v, was(v))
             T == OfCoverage(off, t, v, now(v))
  <2>1. T \in SUBSET Id /\ IsFiniteSet(T) /\ Cardinality(T) \in Nat
    <3>1. T \in SUBSET Id /\ IsFiniteSet(Id)
      BY <1>1, AddingTypes, InsertingTypes DEF OfCoverage
    <3> HIDE DEF T
    <3> QED BY <3>1, FS_Subset, FS_CardinalityType
  <2>2. CASE v = Coverage(off, h) /\ Diversity = 1 /\ off[h].score > was(v)
    <3>1. now(v) = off[h].score
      BY <2>2 DEF Inserting, Scored
    <3>2. h \in T
      BY <1>1, <2>2, <3>1 DEF OfCoverage, Inserting
    <3>3. Cardinality(T) # 0
      <4> HIDE DEF T
      <4> QED BY <2>1, <3>2, FS_EmptySet
    <3> HIDE DEF T
    <3>4. Cardinality(T) >= Diversity
      BY <2>1, <2>2, <3>3
    <3> QED BY <3>4 DEF T
  <2>3. CASE ~(v = Coverage(off, h) /\ Diversity = 1 /\ off[h].score > was(v))
    <3>1. now(v) = was(v)
      BY <2>3 DEF Inserting, Scored
    <3>2. Cardinality(S) >= Diversity
      BY <1>1, <1>2, <3>1 DEF CoverageKept
    <3>3. S \in SUBSET s.hypos
      BY DEF OfCoverage
    <3>4. ASSUME NEW x \in S PROVE IF x \in Equivalent(off, s, h) THEN h \in T ELSE x \in T
      <4>1. x \in s.hypos /\ Coverage(off, x) = v /\ off[x].score >= was(v)
        BY DEF OfCoverage
      <4>2. CASE x \in Equivalent(off, s, h)
        <5>1. off[h].score > off[x].score /\ Coverage(off, h) = v
          BY <4>1, <4>2 DEF Inserting, Equivalent, Coverage
        <5>2. off[h].score \in Int /\ off[x].score \in Int /\ h \in t.hypos
          BY <1>1, <4>1, AddingTypes DEF Inserting
        <5>3. off[h].score >= now(v)
          BY <1>1, <3>1, <4>1, <5>1, <5>2
        <5> QED BY <4>2, <5>1, <5>2, <5>3 DEF OfCoverage
      <4>3. CASE x \notin Equivalent(off, s, h)
        BY <3>1, <4>1, <4>3 DEF OfCoverage, Inserting
      <4> QED BY <4>2, <4>3
    <3>5. Cardinality(S) \in Nat /\ Cardinality(T) \in Nat /\ Cardinality(S) <= Cardinality(T)
      <4> HIDE DEF S, T
      <4> QED BY <2>1, <3>3, <3>4, InsertedCount
    <3> QED BY <1>1, <3>2, <3>5
  <2> QED BY <2>2, <2>3
<1>3. ASSUME NEW x \in O \cup {h}
      PROVE  off[x].score <= now(Coverage(off, x)) \/ Represented(off, t, x)
  <2>1. x = h \/ off[x].score <= was(Coverage(off, x)) \/ Represented(off, s, x)
    BY <1>1 DEF CoverageKept
  <2>2. Coverage(off, x) \in Coverages /\ off[x].score \in Int
    BY <1>1
  <2>3. x = h \/ Represented(off, s, x) => Represented(off, t, x)
    BY InsertingTypes
  <2>4. off[x].score <= was(Coverage(off, x)) => off[x].score <= now(Coverage(off, x))
    BY <1>1, <2>2
  <2> QED BY <2>1, <2>3, <2>4
<1> QED BY <1>2, <1>3 DEF CoverageKept

\* h is dropped: it is too bad, or the one of its class on the stack is at least as good.
Dropping(off, O, s, h, t) ==
  /\ Adding(off, O, s, h) /\ StackOK(off, t) /\ t.hypos = s.hypos
  /\ t.bestScore = s.bestScore /\ t.worstScore = s.worstScore
  /\ t.diversityWorst = s.diversityWorst
  /\ \/ TooBad(off, s, h)
     \/ \E e \in Equivalent(off, s, h) : off[h].score <= off[e].score

LEMMA DroppedScores ==
  ASSUME NEW off, NEW O, NEW s, NEW h, NEW t, Dropping(off, O, s, h, t)
  PROVE  /\ Unique(off, t) /\ BestHeld(off, O \cup {h}, t)
         /\ RankKept(off, O \cup {h}, t) /\ CoverageKept(off, O \cup {h}, t)
<1>1. /\ Adding(off, O, s, h) /\ Unique(off, s) /\ BestHeld(off, O, s) /\ RankKept(off, O, s)
      /\ CoverageKept(off, O, s)
      /\ off[h].score \in Int /\ s.bestScore \in Int /\ s.worstScore \in Int /\ NegInfinity \in Int
      /\ off[h].score > NegInfinity /\ Score(off, h) = off[h].score
      /\ \A x \in s.hypos : x \in O /\ off[x].score \in Int
      /\ s.diversityWorst[Coverage(off, h)] \in Int /\ Diversity \in Nat
  BY AddingTypes DEF Dropping, Adding, StackInv
<1>2. TooBad(off, s, h) \/ Represented(off, s, h)
  BY <1>1 DEF Dropping, Equivalent, Represented
<1>3. off[h].score <= s.bestScore /\ O # {}
  <2>1. CASE TooBad(off, s, h)
    <3>1. off[h].score < s.worstScore /\ s.worstScore <= s.bestScore
      BY <1>1, <2>1 DEF TooBad, BestHeld
    <3>2. O = {} => s.bestScore = NegInfinity
      BY <1>1 DEF BestHeld
    <3> QED BY <1>1, <3>1, <3>2
  <2>2. CASE Represented(off, s, h)
    <3>1. PICK e \in s.hypos : off[e].score >= off[h].score
      BY <2>2 DEF Represented
    <3>2. e \in O /\ off[e].score <= s.bestScore /\ off[e].score \in Int
      BY <1>1 DEF BestHeld
    <3> QED BY <1>1, <3>1, <3>2
  <2> QED BY <1>2, <2>1, <2>2
<1>4. \A x : Represented(off, s, x) <=> Represented(off, t, x)
  BY DEF Represented, Dropping
<1>5. BestHeld(off, O \cup {h}, t)
  BY <1>1, <1>3 DEF BestHeld, Dropping
<1>6. RankKept(off, O \cup {h}, t)
  <2> SUFFICES ASSUME Diversity = 0 PROVE RankKept(off, O \cup {h}, t)
    BY DEF RankKept
  <2>1. off[h].score <= s.worstScore \/ Represented(off, t, h)
    BY <1>1, <1>2, <1>4 DEF TooBad
  <2>2. \A x \in O : off[x].score <= s.worstScore \/ Represented(off, t, x)
    BY <1>1, <1>4 DEF RankKept
  <2>3. \A v : AtLeast(off, t, v) = AtLeast(off, s, v)
    BY DEF AtLeast, Dropping
  <2> QED BY <1>1, <1>3, <2>1, <2>2, <2>3 DEF RankKept, Dropping
<1>7. CoverageKept(off, O \cup {h}, t)
  <2> SUFFICES ASSUME Diversity > 0 PROVE CoverageKept(off, O \cup {h}, t)
    BY DEF CoverageKept
  <2>1. off[h].score <= s.diversityWorst[Coverage(off, h)] \/ Represented(off, t, h)
    BY <1>1, <1>2, <1>4 DEF TooBad
  <2>2. \A x \in O : off[x].score <= s.diversityWorst[Coverage(off, x)] \/ Represented(off, t, x)
    BY <1>1, <1>4 DEF CoverageKept
  <2>3. \A v, score : OfCoverage(off, t, v, score) = OfCoverage(off, s, v, score)
    BY DEF OfCoverage, Dropping
  <2> QED BY <1>1, <2>1, <2>2, <2>3 DEF CoverageKept, Dropping
<1> QED BY <1>1, <1>5, <1>6, <1>7 DEF Unique, Dropping

-----------------------------------------------------------------------------
(***************************************************************************)
(* The fields of a stack that AddPrune changes.                            *)
(***************************************************************************)

SameScores(s, t) ==
  t.bestScore = s.bestScore /\ t.worstScore = s.worstScore /\ t.diversityWorst = s.diversityWorst

LEMMA DetachFields ==
  ASSUME NEW s \in Stacks, NEW e
  PROVE  LET t == [s EXCEPT !.hypos = @ \ {e}] IN
         /\ t \in Stacks /\ SameScores(s, t)
         /\ t.hypos = s.hypos \ {e} /\ t.arcs = s.arcs /\ t.freed = s.freed
BY DEF Stacks, SameScores

\* Who has which arcs after winner->AddArc(loser).
Taken(s, winner, loser) ==
  [w \in Id |-> IF w = winner THEN s.arcs[winner] \cup s.arcs[loser] \cup {loser}
                ELSE IF w = loser THEN {} ELSE s.arcs[w]]

LEMMA ArcFields ==
  ASSUME NEW s \in Stacks, NEW winner \in Id, NEW loser \in Id, winner # loser
  PROVE  LET t == AddArc(s, winner, loser) IN
         /\ t \in Stacks /\ SameScores(s, t) /\ t.hypos = s.hypos /\ t.freed = s.freed
         /\ t.arcs = Taken(s, winner, loser)
<1> DEFINE t == AddArc(s, winner, loser)
<1>1. s.arcs \in [Id -> SUBSET Id]
  BY DEF Stacks
<1>2. [[s.arcs EXCEPT ![winner] = @ \cup s.arcs[loser] \cup {loser}] EXCEPT ![loser] = {}]
        = Taken(s, winner, loser)
  BY <1>1 DEF Taken
<1>3. Taken(s, winner, loser) \in [Id -> SUBSET Id]
  BY <1>1 DEF Taken
<1>4. t = [s EXCEPT !.arcs = Taken(s, winner, loser)]
  BY <1>2 DEF AddArc, Stacks
<1> HIDE DEF t
<1>5. t \in Stacks
  BY <1>3, <1>4 DEF Stacks
<1>6. SameScores(s, t) /\ t.hypos = s.hypos /\ t.freed = s.freed /\ t.arcs = Taken(s, winner, loser)
  BY <1>4 DEF Stacks, SameScores
<1> QED BY <1>5, <1>6 DEF t

LEMMA InsertedFields ==
  ASSUME NEW off, NEW s \in Stacks, NEW h \in Id, Score(off, h) = off[h].score,
         off[h].score \in Int, Coverage(off, h) \in Coverages, BeamWidth \in Int
  PROVE  LET t == Inserted(off, s, h) IN
         /\ t \in Stacks /\ Scored(off, s, h, t)
         /\ t.hypos = s.hypos \cup {h} /\ t.arcs = s.arcs /\ t.freed = s.freed
<1> DEFINE t == Inserted(off, s, h)
           score == off[h].score
           best == IF score > s.bestScore THEN score ELSE s.bestScore
           worst == IF score > s.bestScore /\ score + BeamWidth > s.worstScore
                    THEN score + BeamWidth ELSE s.worstScore
           dw == [s.diversityWorst EXCEPT ![Coverage(off, h)] =
                    IF Diversity = 1 /\ score > s.diversityWorst[Coverage(off, h)] THEN score
                    ELSE s.diversityWorst[Coverage(off, h)]]
<1>1. t = [s EXCEPT !.hypos = s.hypos \cup {h}, !.bestScore = best, !.worstScore = worst,
                    !.diversityWorst = dw]
  BY DEF Inserted, Stacks
<1>2. best \in Int /\ worst \in Int /\ dw \in [Coverages -> Int]
  BY DEF Stacks
<1>3. \A v \in Coverages :
        dw[v] = IF v = Coverage(off, h) /\ Diversity = 1 /\ score > s.diversityWorst[v]
                THEN score ELSE s.diversityWorst[v]
  BY DEF Stacks
<1> HIDE DEF t, best, worst, dw
<1>4. t \in Stacks
  BY <1>1, <1>2 DEF Stacks
<1>5. /\ t.hypos = s.hypos \cup {h} /\ t.arcs = s.arcs /\ t.freed = s.freed
      /\ t.bestScore = best /\ t.worstScore = worst /\ t.diversityWorst = dw
  BY <1>1 DEF Stacks
<1>6. Scored(off, s, h, t)
  BY <1>3, <1>5 DEF Scored, best, worst
<1> QED BY <1>4, <1>5, <1>6 DEF t

-----------------------------------------------------------------------------
(***************************************************************************)
(* Owners and arcs after AddPrune.                                         *)
(***************************************************************************)

\* What the other lemmas of this section ask of a stack before h is added.
LEMMA AddingOwners ==
  ASSUME NEW off, NEW O, NEW s, NEW h, Adding(off, O, s, h)
  PROVE  /\ Owned(O, s) /\ ArcsWorse(off, s) /\ s \in Stacks /\ h \in Id /\ h \notin O
         /\ s.hypos \in SUBSET Id /\ h \notin s.hypos /\ \A x \in O : x \in Id
         /\ s.arcs[h] = {} /\ s.freed[h] = 0 /\ \A w \in Id : h \notin s.arcs[w]
<1>1. /\ Owned(O, s) /\ ArcsWorse(off, s) /\ s \in Stacks /\ h \in Id /\ h \notin O
      /\ s.hypos \in SUBSET Id /\ h \notin s.hypos /\ \A x \in O : x \in Id
  BY AddingTypes DEF Adding, StackInv
<1> QED BY <1>1 DEF Owned

LEMMA InsertedOwned ==
  ASSUME NEW off, NEW O, NEW s \in Stacks, NEW h \in Id, NEW t,
         Owned(O, s), h \notin O, \A x \in O : x \in Id,
         t.hypos = s.hypos \cup {h}, t.arcs = s.arcs, t.freed = s.freed
  PROVE  Owned(O \cup {h}, t)
<1>1. s.arcs[h] = {} /\ s.freed[h] = 0 /\ \A w \in Id : h \notin s.arcs[w]
  BY DEF Owned
<1>2. ASSUME NEW x \in O \cup {h}
      PROVE  t.freed[x] = IF x \in t.hypos \/ \E w \in Id : x \in t.arcs[w] THEN 0 ELSE 1
  BY <1>1 DEF Owned
<1>3. /\ \A w \in Id \ t.hypos : t.arcs[w] = {}
      /\ \A x \in t.hypos : x \in O \cup {h} /\ \A w \in Id : x \notin t.arcs[w]
      /\ \A v, w \in Id : \A x \in t.arcs[v] \cap t.arcs[w] : v = w
      /\ \A w \in Id : t.arcs[w] \subseteq O \cup {h}
      /\ \A x \in Id \ (O \cup {h}) : t.freed[x] = 0
  BY <1>1 DEF Owned
<1> QED BY <1>2, <1>3 DEF Owned

\* h takes the place of e on the stack, and e and its arcs become arcs of h.
LEMMA TakenOver ==
  ASSUME NEW off, NEW O, NEW s, NEW h, Adding(off, O, s, h), NEW e \in s.hypos, NEW t,
         off[e].class = off[h].class, off[h].score > off[e].score,
         t.hypos = (s.hypos \ {e}) \cup {h}, t.arcs = Taken(s, h, e), t.freed = s.freed
  PROVE  Owned(O \cup {h}, t) /\ ArcsWorse(off, t)
<1>1. /\ Owned(O, s) /\ ArcsWorse(off, s) /\ h \in Id /\ e \in Id /\ e \in O /\ h \notin O /\ e # h
      /\ s.arcs[h] = {} /\ s.freed[h] = 0 /\ \A w \in Id : h \notin s.arcs[w] /\ e \notin s.arcs[w]
      /\ s.hypos \in SUBSET Id /\ \A x \in O : x \in Id
  BY AddingOwners DEF Owned
<1>2. \A w \in Id : t.arcs[w] = IF w = h THEN s.arcs[e] \cup {e}
                                ELSE IF w = e THEN {} ELSE s.arcs[w]
  BY <1>1 DEF Taken
<1>3. /\ \A w \in Id \ t.hypos : t.arcs[w] = {}
      /\ \A w \in Id : t.arcs[w] \subseteq O \cup {h}
      /\ \A x \in Id \ (O \cup {h}) : t.freed[x] = 0
  BY <1>1, <1>2 DEF Owned
<1>4. \A x \in t.hypos : x \in O \cup {h} /\ \A w \in Id : x \notin t.arcs[w]
  BY <1>1, <1>2 DEF Owned
<1>5. \A v, w \in Id : \A x \in t.arcs[v] \cap t.arcs[w] : v = w
  BY <1>1, <1>2 DEF Owned
<1>6. \A x : (\E w \in Id : x \in t.arcs[w]) <=> x = e \/ \E w \in Id : x \in s.arcs[w]
  BY <1>1, <1>2
<1>7. ASSUME NEW x \in O \cup {h}
      PROVE  t.freed[x] = IF x \in t.hypos \/ \E w \in Id : x \in t.arcs[w] THEN 0 ELSE 1
  <2>1. CASE x = h
    BY <1>1, <2>1
  <2>2. CASE x # h
    <3>1. t.freed[x] = IF x \in s.hypos \/ \E w \in Id : x \in s.arcs[w] THEN 0 ELSE 1
      BY <1>1, <2>2 DEF Owned
    <3>2. (x \in t.hypos \/ \E w \in Id : x \in t.arcs[w])
            <=> (x \in s.hypos \/ \E w \in Id : x \in s.arcs[w])
      BY <1>6, <2>2
    <3> QED BY <3>1, <3>2
  <2> QED BY <2>1, <2>2
<1>8. ArcsWorse(off, t)
  <2>1. \A x \in O \cup {h} : off[x].score \in Int
    BY AddingTypes
  <2>2. ASSUME NEW w \in Id, NEW x \in t.arcs[w]
        PROVE  off[x].class = off[w].class /\ off[x].score <= off[w].score
    <3>1. CASE w = h /\ x = e
      BY <1>1, <2>1, <3>1
    <3>2. CASE w = h /\ x \in s.arcs[e]
      <4>1. off[x].class = off[e].class /\ off[x].score <= off[e].score /\ x \in O
        BY <1>1, <3>2 DEF ArcsWorse, Owned
      <4> QED BY <1>1, <2>1, <3>2, <4>1
    <3>3. CASE w # h
      BY <1>1, <1>2, <2>2, <3>3 DEF ArcsWorse
    <3> QED BY <1>2, <2>2, <3>1, <3>2, <3>3
  <2> QED BY <2>2 DEF ArcsWorse
<1> QED BY <1>3, <1>4, <1>5, <1>7, <1>8 DEF Owned

\* h becomes an arc of e.
LEMMA MadeArc ==
  ASSUME NEW off, NEW O, NEW s, NEW h, Adding(off, O, s, h), NEW e \in s.hypos, NEW t,
         off[e].class = off[h].class, off[h].score <= off[e].score,
         t.hypos = s.hypos, t.arcs = Taken(s, e, h), t.freed = s.freed
  PROVE  Owned(O \cup {h}, t) /\ ArcsWorse(off, t)
<1>1. /\ Owned(O, s) /\ ArcsWorse(off, s) /\ h \in Id /\ e \in Id /\ e \in O /\ h \notin O /\ e # h
      /\ s.arcs[h] = {} /\ s.freed[h] = 0 /\ \A w \in Id : h \notin s.arcs[w] /\ e \notin s.arcs[w]
      /\ s.hypos \in SUBSET Id /\ h \notin s.hypos /\ \A x \in O : x \in Id
  BY AddingOwners DEF Owned
<1>2. \A w \in Id : t.arcs[w] = IF w = e THEN s.arcs[e] \cup {h} ELSE s.arcs[w]
  BY <1>1 DEF Taken
<1>3. /\ \A w \in Id \ t.hypos : t.arcs[w] = {}
      /\ \A w \in Id : t.arcs[w] \subseteq O \cup {h}
      /\ \A x \in Id \ (O \cup {h}) : t.freed[x] = 0
  BY <1>1, <1>2 DEF Owned
<1>4. \A x \in t.hypos : x \in O \cup {h} /\ \A w \in Id : x \notin t.arcs[w]
  BY <1>1, <1>2 DEF Owned
<1>5. \A v, w \in Id : \A x \in t.arcs[v] \cap t.arcs[w] : v = w
  BY <1>1, <1>2 DEF Owned
<1>6. \A x : (\E w \in Id : x \in t.arcs[w]) <=> x = h \/ \E w \in Id : x \in s.arcs[w]
  BY <1>1, <1>2
<1>7. ASSUME NEW x \in O \cup {h}
      PROVE  t.freed[x] = IF x \in t.hypos \/ \E w \in Id : x \in t.arcs[w] THEN 0 ELSE 1
  BY <1>1, <1>6 DEF Owned
<1>8. ArcsWorse(off, t)
  BY <1>1, <1>2 DEF ArcsWorse
<1> QED BY <1>3, <1>4, <1>5, <1>7, <1>8 DEF Owned

-----------------------------------------------------------------------------
(***************************************************************************)
(* AddPrune keeps the invariant.                                           *)
(***************************************************************************)

\* h is deleted at once.
LEMMA DropFreed ==
  ASSUME NEW off, NEW O, NEW s, NEW h, Adding(off, O, s, h), NEW t, t = FreeHypo(s, {h}),
         \/ TooBad(off, s, h)
         \/ \E e \in Equivalent(off, s, h) : off[h].score <= off[e].score
  PROVE  StackInv(off, O \cup {h}, t) /\ t.hypos = s.hypos
<1>1. /\ s \in Stacks /\ StackOK(off, s) /\ h \in Id /\ setting \in Settings /\ h \in DOMAIN off
      /\ O \subseteq DOMAIN off /\ Owned(O, s) /\ ArcsWorse(off, s) /\ h \notin O /\ h \notin s.hypos
      /\ \A x \in O : x \in Id
  BY AddingTypes, AddingOwners DEF Adding
<1>2. /\ t.hypos = s.hypos /\ t.bestScore = s.bestScore /\ t.worstScore = s.worstScore
      /\ t.diversityWorst = s.diversityWorst
      /\ t.arcs = Bared(s, {h}) /\ t.freed = FreedOnce(s, {h})
  BY <1>1, FreeFields
<1>3. t \in Stacks /\ StackOK(off, t)
  <2>1. {h} \in SUBSET Id
    BY <1>1
  <2>2. t \in Stacks
    BY <1>1, <2>1, FreeTypes
  <2> QED BY <1>1, <1>2, <2>2 DEF StackOK
<1>4. Dropping(off, O, s, h, t)
  BY <1>2, <1>3 DEF Dropping
<1>5. Owned(O \cup {h}, t)
  <2>1. t.hypos = s.hypos \ {h}
    BY <1>1, <1>2
  <2>2. {h} \in SUBSET Id /\ \A x \in {h} : x \in s.hypos \/ x \notin O
    BY <1>1
  <2> QED BY <1>1, <1>2, <2>1, <2>2, FreedOwned
<1>6. ArcsWorse(off, t)
  BY <1>1, <1>2, BaredWorse
<1> QED BY <1>1, <1>2, <1>3, <1>4, <1>5, <1>6, DroppedScores DEF StackInv

\* h becomes an arc of the one of its class.
LEMMA DropArced ==
  ASSUME NEW off, NEW O, NEW s, NEW h, Adding(off, O, s, h), NEW e \in Equivalent(off, s, h),
         off[h].score <= off[e].score, NEW t, t = AddArc(s, e, h)
  PROVE  StackInv(off, O \cup {h}, t) /\ t.hypos = s.hypos
<1>1. /\ s \in Stacks /\ StackOK(off, s) /\ h \in Id /\ e \in Id /\ e # h /\ h \in DOMAIN off
      /\ O \subseteq DOMAIN off /\ e \in s.hypos /\ off[e].class = off[h].class
  BY AddingTypes DEF Adding, Equivalent
<1>2. /\ t \in Stacks /\ SameScores(s, t) /\ t.hypos = s.hypos /\ t.freed = s.freed
      /\ t.arcs = Taken(s, e, h)
  BY <1>1, ArcFields
<1>3. StackOK(off, t)
  BY <1>1, <1>2 DEF StackOK
<1>4. Dropping(off, O, s, h, t)
  BY <1>2, <1>3 DEF Dropping, SameScores
<1>5. Owned(O \cup {h}, t) /\ ArcsWorse(off, t)
  BY <1>1, <1>2, MadeArc
<1> QED BY <1>1, <1>2, <1>3, <1>4, <1>5, DroppedScores DEF StackInv

\* Add, for the stack m that the worse one of h's class has been taken out of.
LEMMA AddOK ==
  ASSUME NEW off, NEW O, NEW s, NEW h, Adding(off, O, s, h), ~TooBad(off, s, h),
         \A e \in Equivalent(off, s, h) : off[h].score > off[e].score,
         NEW m \in Stacks, SameScores(s, m), m.hypos = s.hypos \ Equivalent(off, s, h),
         ASSUME NEW t, t.hypos = m.hypos \cup {h}, t.arcs = m.arcs, t.freed = m.freed
         PROVE  Owned(O \cup {h}, t) /\ ArcsWorse(off, t),
         NEW p \in Add(off, m, h)
  PROVE  StackInv(off, O \cup {h}, p) /\ Cardinality(p.hypos) <= ToleratedSize
<1> DEFINE t == Inserted(off, m, h)
<1>1. /\ s \in Stacks /\ StackOK(off, s) /\ h \in Id /\ h \in DOMAIN off /\ O \subseteq DOMAIN off
      /\ Score(off, h) = off[h].score /\ off[h].score \in Int /\ Coverage(off, h) \in Coverages
      /\ BeamWidth \in Int /\ OffersOK(off)
  BY AddingTypes DEF Adding
<1>2. /\ t \in Stacks /\ Scored(off, m, h, t)
      /\ t.hypos = m.hypos \cup {h} /\ t.arcs = m.arcs /\ t.freed = m.freed
  BY <1>1, InsertedFields
<1>3. Scored(off, s, h, t)
  BY <1>2 DEF Scored, SameScores
<1>4. StackOK(off, t)
  BY <1>1, <1>2 DEF StackOK
<1>5. Inserting(off, O, s, h, t)
  BY <1>2, <1>3, <1>4 DEF Inserting
<1>6. Owned(O \cup {h}, t) /\ ArcsWorse(off, t)
  BY <1>2
<1>7. StackInv(off, O \cup {h}, t)
  BY <1>1, <1>4, <1>5, <1>6, InsertedUnique, InsertedBest, InsertedRank, InsertedCoverage DEF StackInv
<1>8. CASE Cardinality(t.hypos) > ToleratedSize
  <2>1. p \in PruneToSize(off, t, MaxHypoStackSize)
    BY <1>8 DEF Add
  <2> QED BY <1>1, <1>7, <2>1, PruneToSizeOK
<1>9. CASE ~(Cardinality(t.hypos) > ToleratedSize)
  <2>1. p = t
    BY <1>9 DEF Add
  <2>2. Cardinality(t.hypos) \in Int /\ ToleratedSize \in Int
    <3>1. setting \in Settings /\ t.hypos \in SUBSET Id /\ IsFiniteSet(Id)
      BY <1>1, <1>2, AddingTypes DEF Stacks
    <3>2. Cardinality(t.hypos) \in Nat
      <4> HIDE DEF t
      <4> QED BY <3>1, FS_Subset, FS_CardinalityType
    <3> QED BY <3>1, <3>2, ToleratedTypes
  <2> HIDE DEF t
  <2> QED BY <1>7, <1>9, <2>1, <2>2
<1> QED BY <1>8, <1>9

LEMMA AddPruneOK ==
  ASSUME NEW off, NEW O, NEW s, NEW h, Adding(off, O, s, h), Cardinality(s.hypos) <= ToleratedSize,
         NEW p \in AddPrune(off, s, h)
  PROVE  StackInv(off, O \cup {h}, p) /\ Cardinality(p.hypos) <= ToleratedSize
<1>1. /\ s \in Stacks /\ h \in Id /\ Score(off, h) = off[h].score /\ off[h].score \in Int
      /\ \A x \in s.hypos : x \in O /\ x \in Id /\ Score(off, x) = off[x].score /\ off[x].score \in Int
      /\ Owned(O, s) /\ ArcsWorse(off, s) /\ h \notin O /\ h \notin s.hypos /\ Unique(off, s)
      /\ \A x \in O : x \in Id
  BY AddingTypes, AddingOwners DEF Adding, StackInv
<1>2. CASE TooBad(off, s, h)
  <2>1. p = FreeHypo(s, {h})
    BY <1>2 DEF AddPrune
  <2>2. StackInv(off, O \cup {h}, p) /\ p.hypos = s.hypos
    BY <1>2, <2>1, DropFreed
  <2> QED BY <2>2
<1>3. CASE ~TooBad(off, s, h) /\ Equivalent(off, s, h) = {}
  <2>1. p \in Add(off, s, h)
    BY <1>3 DEF AddPrune
  <2>2. SameScores(s, s) /\ s.hypos = s.hypos \ Equivalent(off, s, h)
    BY <1>3 DEF SameScores
  <2>3. ASSUME NEW t, t.hypos = s.hypos \cup {h}, t.arcs = s.arcs, t.freed = s.freed
        PROVE  Owned(O \cup {h}, t) /\ ArcsWorse(off, t)
    <3>1. Owned(O \cup {h}, t)
      BY <1>1, <2>3, InsertedOwned
    <3> QED BY <1>1, <2>3, <3>1 DEF ArcsWorse
  <2> QED BY <1>1, <1>3, <2>1, <2>2, <2>3, AddOK
<1>4. CASE ~TooBad(off, s, h) /\ Equivalent(off, s, h) # {}
  <2>1. PICK e \in Equivalent(off, s, h) :
          p \in IF Score(off, h) > Score(off, e) THEN Replace(off, s, h, e)
                ELSE {IF NBest THEN AddArc(s, e, h) ELSE FreeHypo(s, {h})}
    BY <1>4 DEF AddPrune
  <2>2. /\ e \in s.hypos /\ off[e].class = off[h].class /\ Equivalent(off, s, h) = {e}
        /\ e \in O /\ e \in Id /\ e # h /\ Score(off, e) = off[e].score /\ off[e].score \in Int
    BY <1>1 DEF Equivalent, Unique
  <2>3. CASE ~(Score(off, h) > Score(off, e)) /\ NBest
    <3>1. p = AddArc(s, e, h) /\ off[h].score <= off[e].score
      BY <1>1, <2>1, <2>2, <2>3
    <3>2. StackInv(off, O \cup {h}, p) /\ p.hypos = s.hypos
      BY <3>1, DropArced
    <3> QED BY <3>2
  <2>4. CASE ~(Score(off, h) > Score(off, e)) /\ ~NBest
    <3>1. p = FreeHypo(s, {h}) /\ off[h].score <= off[e].score
      BY <1>1, <2>1, <2>2, <2>4
    <3>2. StackInv(off, O \cup {h}, p) /\ p.hypos = s.hypos
      BY <3>1, DropFreed
    <3> QED BY <3>2
  <2>5. CASE Score(off, h) > Score(off, e)
    <3> DEFINE d == [s EXCEPT !.hypos = @ \ {e}]
               m == IF NBest THEN AddArc(d, h, e) ELSE FreeHypo(d, {e})
    <3>1. p \in Add(off, m, h)
      BY <2>1, <2>5 DEF Replace
    <3>2. /\ d \in Stacks /\ SameScores(s, d)
          /\ d.hypos = s.hypos \ {e} /\ d.arcs = s.arcs /\ d.freed = s.freed
      BY <1>1, DetachFields
    <3>3. off[h].score > off[e].score
          /\ \A x \in Equivalent(off, s, h) : off[h].score > off[x].score
      BY <1>1, <2>2, <2>5
    <3> HIDE DEF d
    <3>4. CASE NBest
      <4>1. /\ m \in Stacks /\ SameScores(d, m) /\ m.hypos = d.hypos /\ m.freed = d.freed
            /\ m.arcs = Taken(d, h, e)
        BY <1>1, <2>2, <3>2, <3>4, ArcFields
      <4>2. /\ SameScores(s, m) /\ m.hypos = s.hypos \ Equivalent(off, s, h)
            /\ m.arcs = Taken(s, h, e) /\ m.freed = s.freed
        BY <2>2, <3>2, <4>1 DEF SameScores, Taken
      <4>3. ASSUME NEW t, t.hypos = m.hypos \cup {h}, t.arcs = m.arcs, t.freed = m.freed
            PROVE  Owned(O \cup {h}, t) /\ ArcsWorse(off, t)
        BY <2>2, <3>3, <4>2, <4>3, TakenOver
      <4> HIDE DEF m
      <4> QED BY <1>4, <3>1, <3>3, <4>1, <4>2, <4>3, AddOK
    <3>5. CASE ~NBest
      <4>1. /\ m.hypos = d.hypos /\ SameScores(d, m)
            /\ m.arcs = Bared(d, {e}) /\ m.freed = FreedOnce(d, {e})
        BY <3>2, <3>5, FreeFields DEF SameScores
      <4>2. m \in Stacks
        <5>1. {e} \in SUBSET Id /\ setting \in Settings
          BY <2>2, AddingTypes
        <5> QED BY <3>2, <3>5, <5>1, FreeTypes
      <4>3. /\ SameScores(s, m) /\ m.hypos = s.hypos \ {e}
            /\ m.arcs = Bared(s, {e}) /\ m.freed = FreedOnce(s, {e})
        BY <3>2, <4>1 DEF SameScores, Bared, FreedOnce
      <4>4. Owned(O, m)
        <5>1. {e} \in SUBSET Id /\ O \cup {e} = O /\ \A x \in {e} : x \in s.hypos \/ x \notin O
          BY <2>2
        <5>2. Owned(O \cup {e}, m)
          <6> HIDE DEF m
          <6> QED BY <1>1, <4>3, <5>1, FreedOwned
        <5> QED BY <5>1, <5>2
      <4>5. ArcsWorse(off, m)
        BY <1>1, <4>3, BaredWorse
      <4> HIDE DEF m
      <4>6. ASSUME NEW t, t.hypos = m.hypos \cup {h}, t.arcs = m.arcs, t.freed = m.freed
            PROVE  Owned(O \cup {h}, t) /\ ArcsWorse(off, t)
        <5>1. Owned(O \cup {h}, t)
          BY <1>1, <4>2, <4>4, <4>6, InsertedOwned
        <5> QED BY <4>5, <4>6, <5>1 DEF ArcsWorse
      <4>7. m.hypos = s.hypos \ Equivalent(off, s, h)
        BY <2>2, <4>3
      <4> QED BY <1>4, <3>1, <3>3, <4>2, <4>3, <4>6, <4>7, AddOK
    <3> QED BY <3>4, <3>5
  <2> QED BY <2>3, <2>4, <2>5
<1> QED BY <1>2, <1>3, <1>4

-----------------------------------------------------------------------------
(***************************************************************************)
(* CleanupArcList, and a new hypothesis in the sequence.                   *)
(***************************************************************************)

\* The fields after CleanupArcList, for a way to clean the arc lists up.
Cleaned(s, clean, p) ==
  /\ \A h \in s.hypos : clean[h] \subseteq s.arcs[h]
  /\ p \in Stacks /\ SameScores(s, p) /\ p.hypos = s.hypos
  /\ p.arcs = [h \in Id |-> IF h \in s.hypos THEN clean[h] ELSE s.arcs[h]]
  /\ p.freed = [x \in Id |-> IF \E h \in s.hypos : x \in s.arcs[h] \ clean[h]
                             THEN s.freed[x] + 1 ELSE s.freed[x]]

LEMMA CleanFields ==
  ASSUME NEW off, NEW s \in Stacks, NEW p \in CleanupArcList(off, s)
  PROVE  \E clean : Cleaned(s, clean, p)
<1>1. PICK clean \in Cleanings(off, s) :
        p = [s EXCEPT
          !.arcs = [h \in Id |-> IF h \in s.hypos THEN clean[h] ELSE s.arcs[h]],
          !.freed = [x \in Id |-> IF \E h \in s.hypos : x \in s.arcs[h] \ clean[h]
                                  THEN s.freed[x] + 1 ELSE s.freed[x]]]
  BY DEF CleanupArcList, Stacks
<1>2. \A h \in s.hypos : clean[h] \subseteq s.arcs[h]
  <2> TAKE h \in s.hypos
  <2>1. clean[h] \in CleanArcs(off, s.arcs[h])
    BY DEF Cleanings
  <2>2. \A arcs : \A kept \in CleanArcs(off, arcs) : kept \subseteq arcs
    BY DEF CleanArcs, kSubset
  <2> QED BY <2>1, <2>2
<1> DEFINE arcs == [h \in Id |-> IF h \in s.hypos THEN clean[h] ELSE s.arcs[h]]
           freed == [x \in Id |-> IF \E h \in s.hypos : x \in s.arcs[h] \ clean[h]
                                  THEN s.freed[x] + 1 ELSE s.freed[x]]
<1>3. arcs \in [Id -> SUBSET Id]
  BY <1>2 DEF Stacks
<1>4. freed \in [Id -> Nat]
  BY DEF Stacks
<1>5. p = [s EXCEPT !.arcs = arcs, !.freed = freed]
  BY <1>1
<1> HIDE DEF arcs, freed
<1>6. p \in Stacks /\ SameScores(s, p) /\ p.hypos = s.hypos /\ p.arcs = arcs /\ p.freed = freed
  BY <1>3, <1>4, <1>5 DEF Stacks, SameScores
<1>7. Cleaned(s, clean, p)
  BY <1>2, <1>6 DEF arcs, freed, Cleaned
<1> QED BY <1>7

LEMMA CleanupOK ==
  ASSUME NEW off, NEW O, NEW s, StackInv(off, O, s), NEW p \in CleanupArcList(off, s),
         OffersOK(off)
  PROVE  StackInv(off, O, p) /\ p.hypos = s.hypos
<1>1. /\ s \in Stacks /\ StackOK(off, s) /\ O \subseteq DOMAIN off /\ Owned(O, s)
      /\ s.hypos \in SUBSET Id /\ \A x \in O : x \in Id
  BY OfferTypes DEF StackInv, StackOK, Stacks
<1>0. PICK clean : Cleaned(s, clean, p)
  BY <1>1, CleanFields
<1>2. /\ \A h \in s.hypos : clean[h] \subseteq s.arcs[h]
      /\ p \in Stacks /\ SameScores(s, p) /\ p.hypos = s.hypos
      /\ p.arcs = [h \in Id |-> IF h \in s.hypos THEN clean[h] ELSE s.arcs[h]]
      /\ p.freed = [x \in Id |-> IF \E h \in s.hypos : x \in s.arcs[h] \ clean[h]
                                 THEN s.freed[x] + 1 ELSE s.freed[x]]
  BY <1>0, Zenon DEF Cleaned
<1>3. \A w \in Id : /\ p.arcs[w] \subseteq s.arcs[w]
                    /\ w \in s.hypos => p.arcs[w] = clean[w]
                    /\ w \notin s.hypos => p.arcs[w] = {} /\ s.arcs[w] = {}
  BY <1>1, <1>2 DEF Owned
<1>4. /\ \A w \in Id \ p.hypos : p.arcs[w] = {}
      /\ \A x \in p.hypos : x \in O /\ \A w \in Id : x \notin p.arcs[w]
      /\ \A v, w \in Id : \A x \in p.arcs[v] \cap p.arcs[w] : v = w
      /\ \A w \in Id : p.arcs[w] \subseteq O
      /\ \A x \in Id \ O : p.freed[x] = 0
  BY <1>1, <1>2, <1>3 DEF Owned
<1>5. ASSUME NEW x \in O
      PROVE  p.freed[x] = IF x \in p.hypos \/ \E w \in Id : x \in p.arcs[w] THEN 0 ELSE 1
  <2>1. s.freed[x] = IF x \in s.hypos \/ \E w \in Id : x \in s.arcs[w] THEN 0 ELSE 1
    BY <1>1 DEF Owned
  <2>2. CASE \E h \in s.hypos : x \in s.arcs[h] \ clean[h]
    <3>1. PICK h \in s.hypos : x \in s.arcs[h] /\ x \notin clean[h]
      BY <2>2
    <3>2. p.freed[x] = 1
      BY <1>1, <1>2, <2>1, <3>1
    <3>3. \A w \in Id : x \notin p.arcs[w]
      BY <1>1, <1>3, <3>1 DEF Owned
    <3>4. x \notin p.hypos
      BY <1>1, <1>2, <3>1 DEF Owned
    <3> QED BY <3>2, <3>3, <3>4
  <2>3. CASE ~ \E h \in s.hypos : x \in s.arcs[h] \ clean[h]
    <3>1. p.freed[x] = s.freed[x]
      BY <1>1, <1>2, <2>3
    <3>2. (\E w \in Id : x \in p.arcs[w]) <=> \E w \in Id : x \in s.arcs[w]
      BY <1>1, <1>3, <2>3
    <3> QED BY <1>2, <2>1, <3>1, <3>2
  <2> QED BY <2>2, <2>3
<1>6. Owned(O, p)
  BY <1>4, <1>5 DEF Owned
<1>7. ArcsWorse(off, p)
  BY <1>3 DEF ArcsWorse, StackInv
<1>8. StackOK(off, p) /\ Unique(off, p)
  BY <1>1, <1>2 DEF StackOK, StackInv, Unique
<1>9. /\ \A x : Represented(off, p, x) <=> Represented(off, s, x)
      /\ \A v : AtLeast(off, p, v) = AtLeast(off, s, v)
      /\ \A v, score : OfCoverage(off, p, v, score) = OfCoverage(off, s, v, score)
  BY <1>2 DEF Represented, AtLeast, OfCoverage
<1>10. BestHeld(off, O, p) /\ RankKept(off, O, p) /\ CoverageKept(off, O, p)
  <2>1. BestHeld(off, O, p)
    BY <1>2 DEF StackInv, BestHeld, SameScores
  <2>2. RankKept(off, O, p)
    BY <1>2, <1>9 DEF StackInv, RankKept, SameScores
  <2>3. CoverageKept(off, O, p)
    BY <1>2, <1>9 DEF StackInv, CoverageKept, SameScores
  <2> QED BY <2>1, <2>2, <2>3
<1> QED BY <1>1, <1>2, <1>6, <1>7, <1>8, <1>10 DEF StackInv

\* What is known of the hypotheses does not change when one more is made.
LEMMA SameOffers ==
  ASSUME NEW off, NEW longer, NEW O, NEW s, StackInv(off, O, s), OffersOK(off),
         \A x \in O : longer[x] = off[x] /\ x \in DOMAIN longer
  PROVE  StackInv(longer, O, s)
<1>1. /\ StackOK(off, s) /\ O \subseteq DOMAIN longer /\ Owned(O, s) /\ s.hypos \in SUBSET Id
      /\ \A x \in s.hypos : x \in O
      /\ \A w \in Id : s.arcs[w] \subseteq O /\ (s.arcs[w] # {} => w \in s.hypos)
  BY DEF StackInv, StackOK, Stacks, Owned
<1>2. \A x \in O : longer[x] = off[x] /\ Coverage(longer, x) = Coverage(off, x)
  BY DEF Coverage
<1>3. StackOK(longer, s) /\ Unique(longer, s) /\ BestHeld(longer, O, s)
  BY <1>1, <1>2 DEF StackInv, StackOK, Unique, BestHeld
<1>4. /\ \A x \in O : Represented(off, s, x) <=> Represented(longer, s, x)
      /\ \A v : AtLeast(longer, s, v) = AtLeast(off, s, v)
      /\ \A v, score : OfCoverage(longer, s, v, score) = OfCoverage(off, s, v, score)
  BY <1>1, <1>2 DEF Represented, AtLeast, OfCoverage
<1>5. RankKept(longer, O, s)
  BY <1>1, <1>2, <1>4 DEF StackInv, RankKept
<1>6. CoverageKept(longer, O, s)
  BY <1>2, <1>4 DEF StackInv, CoverageKept
<1>7. ArcsWorse(longer, s)
  <2> SUFFICES ASSUME NEW w \in Id, NEW x \in s.arcs[w]
               PROVE  longer[x].class = longer[w].class /\ longer[x].score <= longer[w].score
    BY DEF ArcsWorse
  <2>1. x \in O /\ w \in O
    BY <1>1
  <2> QED BY <1>2, <2>1 DEF StackInv, ArcsWorse
<1> QED BY <1>1, <1>3, <1>5, <1>6, <1>7 DEF StackInv

-----------------------------------------------------------------------------
(***************************************************************************)
(* The invariant is inductive.                                             *)
(***************************************************************************)

LEMMA InitInv == Init => Inv
<1> SUFFICES ASSUME Init PROVE Inv
  OBVIOUS
<1>1. /\ setting \in Settings /\ offered = <<>> /\ DOMAIN offered = {} /\ Offers = {}
      /\ st.hypos = {} /\ st.bestScore = NegInfinity /\ st.worstScore = NegInfinity
      /\ st.diversityWorst = [v \in Coverages |-> NegInfinity]
      /\ st.arcs = [h \in Id |-> {}] /\ st.freed = [h \in Id |-> 0]
  BY DEF Init, Offers
<1>2. /\ NegInfinity \in Int /\ MaxOffers \in Nat /\ BeamWidth \in Int /\ BeamWidth < 0
      /\ MaxHypoStackSize \in Nat \ {0}
  BY <1>1, SettingTypes
<1>3. OffersOK(offered)
  BY <1>1, <1>2 DEF OffersOK
<1>4. StackOK(offered, st)
  BY <1>1, <1>2 DEF StackOK, Stacks, Init
<1>5. /\ Unique(offered, st) /\ BestHeld(offered, Offers, st) /\ RankKept(offered, Offers, st)
      /\ CoverageKept(offered, Offers, st) /\ ArcsWorse(offered, st)
  BY <1>1, <1>2 DEF Unique, BestHeld, RankKept, CoverageKept, ArcsWorse
<1>6. Owned(Offers, st)
  BY <1>1 DEF Owned
<1>7. StackInv(offered, Offers, st)
  BY <1>1, <1>4, <1>5, <1>6 DEF StackInv
<1>8. Cardinality(st.hypos) <= ToleratedSize
  <2>1. Cardinality(st.hypos) = 0
    BY <1>1, FS_EmptySet
  <2> QED BY <1>1, <1>2, <2>1, ToleratedTypes
<1>9. expanded = FALSE
  BY DEF Init
<1> QED BY <1>3, <1>4, <1>7, <1>8, <1>9 DEF Inv, TypeOK

\* How the stack is made does not change: what the invariant says in the next state.
LEMMA InvNext ==
  ASSUME setting' = setting, OffersOK(offered'), StackOK(offered', st'), expanded' \in BOOLEAN,
         StackInv(offered', DOMAIN offered', st'), Cardinality(st'.hypos) <= ToleratedSize,
         expanded' /\ Diversity = 0 => Cardinality(st'.hypos) <= MaxHypoStackSize
  PROVE  Inv'
<1>1. /\ Id' = Id /\ Diversity' = Diversity /\ MaxHypoStackSize' = MaxHypoStackSize
      /\ MaxOffers' = MaxOffers /\ ToleratedSize' = ToleratedSize
  BY DEF Id, Diversity, MaxHypoStackSize, MaxOffers, ToleratedSize
<1>2. Stacks' = Stacks
  BY <1>1 DEF Stacks
<1>3. OffersOK(offered)' /\ StackOK(offered, st)'
  BY <1>1, <1>2 DEF OffersOK, StackOK
<1>4. RankKept(offered, Offers, st)'
  BY <1>1 DEF StackInv, RankKept, Offers
<1>5. CoverageKept(offered, Offers, st)'
  BY <1>1 DEF StackInv, CoverageKept, Offers
<1>6. Owned(Offers, st)' /\ ArcsWorse(offered, st)'
  BY <1>1 DEF StackInv, Owned, ArcsWorse, Offers
<1>7. Unique(offered, st)' /\ BestHeld(offered, Offers, st)' /\ (Offers \subseteq DOMAIN offered)'
  BY DEF StackInv, Unique, BestHeld, Offers
<1>8. StackInv(offered, Offers, st)'
  BY ONLY <1>3, <1>4, <1>5, <1>6, <1>7 DEF StackInv
<1> QED BY <1>1, <1>3, <1>8 DEF Inv, TypeOK

LEMMA OfferKeepsInv ==
  ASSUME Inv, Offer
  PROVE  Inv'
<1> DEFINE h == Len(offered')
<1>1. /\ OffersOK(offered) /\ StackInv(offered, Offers, st) /\ Cardinality(st.hypos) <= ToleratedSize
      /\ ~expanded /\ expanded' = expanded /\ setting' = setting /\ setting \in Settings
      /\ Len(offered) < MaxOffers /\ offered \in Seq(Hypotheses)
  BY DEF Inv, TypeOK, OffersOK, Offer
<1>2. PICK offer \in setting.offers :
        /\ offered' = Append(offered, [class |-> offer[1], score |-> offer[2]])
        /\ st' \in AddPrune(offered', st, h)
  BY DEF Offer
<1>3. [class |-> offer[1], score |-> offer[2]] \in Hypotheses
  <2>1. setting.offers \subseteq Classes \X Int
    BY <1>1, StackAssumption
  <2>2. offer[1] \in Classes /\ offer[2] \in Int
    BY <2>1
  <2>3. offer[2] + BeamWidth > NegInfinity
    BY <1>1, ScoreAssumption
  <2> QED BY <2>2, <2>3 DEF Hypotheses
<1>4. /\ offered' \in Seq(Hypotheses) /\ h = Len(offered) + 1 /\ Len(offered) \in Nat
      /\ DOMAIN offered = 1 .. Len(offered) /\ DOMAIN offered' = 1 .. h
      /\ \A x \in DOMAIN offered : offered'[x] = offered[x]
  BY <1>1, <1>2, <1>3, AppendProperties, LenProperties
<1>5. OffersOK(offered') /\ h \in DOMAIN offered' /\ h \notin Offers
      /\ DOMAIN offered' = Offers \cup {h}
      /\ \A x \in Offers : offered'[x] = offered[x] /\ x \in DOMAIN offered'
  <2>1. MaxOffers \in Nat
    BY <1>1, SettingTypes
  <2> DEFINE n == Len(offered)
  <2>2. /\ DOMAIN offered = 1 .. n /\ DOMAIN offered' = 1 .. h /\ h = n + 1 /\ n \in Nat
        /\ n < MaxOffers
    BY <1>1, <1>4
  <2> HIDE DEF h, n
  <2>3. DOMAIN offered' = DOMAIN offered \cup {h} /\ h \notin DOMAIN offered /\ h <= MaxOffers
    BY ONLY <2>1, <2>2
  <2> QED BY <1>1, <1>4, <2>3 DEF OffersOK, Offers, h
<1>6. /\ OffersOK(offered) /\ StackInv(offered, Offers, st)
      /\ Cardinality(st.hypos) <= ToleratedSize
      /\ setting' = setting /\ setting \in Settings /\ ~expanded' /\ expanded' \in BOOLEAN
      /\ st' \in AddPrune(offered', st, h)
  BY <1>1, <1>2 DEF Inv, TypeOK
<1> HIDE DEF h
<1>7. Adding(offered', Offers, st, h)
  BY ONLY <1>5, <1>6, SameOffers DEF Adding
<1>8. StackInv(offered', Offers \cup {h}, st') /\ Cardinality(st'.hypos) <= ToleratedSize
  BY ONLY <1>6, <1>7, AddPruneOK
<1>9. StackInv(offered', DOMAIN offered', st') /\ StackOK(offered', st')
  <2>1. StackInv(offered', DOMAIN offered', st')
    BY ONLY <1>5, <1>8
  <2> QED BY ONLY <2>1 DEF StackInv
<1> QED BY ONLY <1>5, <1>6, <1>8, <1>9, InvNext

LEMMA ExpandKeepsInv ==
  ASSUME Inv, Expand
  PROVE  Inv'
<1>1. /\ OffersOK(offered) /\ StackInv(offered, Offers, st)
      /\ expanded' = TRUE /\ setting' = setting /\ offered' = offered
  BY DEF Inv, TypeOK, OffersOK, Expand
<1>2. PICK pruned \in PruneToSize(offered, st, MaxHypoStackSize) :
        st' \in IF NBest THEN CleanupArcList(offered, pruned) ELSE {pruned}
  BY DEF Expand
<1>3. /\ StackInv(offered, Offers, pruned) /\ Cardinality(pruned.hypos) <= ToleratedSize
      /\ Diversity = 0 => Cardinality(pruned.hypos) <= MaxHypoStackSize
  BY <1>1, PruneToSizeOK
<1>4. StackInv(offered, Offers, st') /\ st'.hypos = pruned.hypos
  BY <1>1, <1>2, <1>3, CleanupOK
<1>5. StackInv(offered', DOMAIN offered', st') /\ StackOK(offered', st')
  BY <1>1, <1>4 DEF StackInv, Offers
<1> QED BY <1>1, <1>3, <1>4, <1>5, InvNext

LEMMA NextInv == Inv /\ [Next]_vars => Inv'
<1> SUFFICES ASSUME Inv, [Next]_vars PROVE Inv'
  OBVIOUS
<1>1. CASE Offer
  BY <1>1, OfferKeepsInv
<1>2. CASE Expand
  BY <1>2, ExpandKeepsInv
<1>3. CASE UNCHANGED vars
  BY <1>3, InvNext DEF vars, Inv, TypeOK, Offers
<1> QED BY <1>1, <1>2, <1>3 DEF Next

LEMMA Invariance == Spec => []Inv
<1>1. Init => Inv
  BY InitInv
<1>2. Inv /\ [Next]_vars => Inv'
  BY NextInv
<1> QED BY <1>1, <1>2, PTL DEF Spec
-----------------------------------------------------------------------------
(***************************************************************************)
(* What follows from the invariant.                                        *)
(***************************************************************************)

LEMMA InvTypes ==
  ASSUME Inv
  PROVE  /\ setting \in Settings /\ IsFiniteSet(Id) /\ MaxHypoStackSize \in Nat /\ Diversity \in Nat
         /\ BeamWidth \in Int /\ st.hypos \in SUBSET Id /\ st \in Stacks
         /\ st.bestScore \in Int /\ st.worstScore \in Int
         /\ \A v \in Coverages : st.diversityWorst[v] \in Int
         /\ \A h \in st.hypos : h \in Offers
         /\ \A x \in Offers : /\ offered[x].score \in Int /\ offered[x].score > NegInfinity
                              /\ Coverage(offered, x) \in Coverages /\ x \in Id
         /\ NegInfinity \in Int
<1>1. /\ setting \in Settings /\ st \in Stacks /\ OffersOK(offered)
      /\ \A h \in st.hypos : h \in Offers
  BY DEF Inv, TypeOK, OffersOK, StackOK, Offers
<1>2. /\ st.hypos \in SUBSET Id /\ st.bestScore \in Int /\ st.worstScore \in Int
      /\ \A v \in Coverages : st.diversityWorst[v] \in Int
  BY <1>1 DEF Stacks
<1> QED BY <1>1, <1>2, SettingTypes, OfferTypes DEF Offers

\* The best of a class is one that was offered.
LEMMA ClassBestFound ==
  ASSUME Inv, NEW c \in OfferedClasses
  PROVE  \E x \in Offers : /\ offered[x].class = c /\ offered[x].score = ClassBest(c)
                           /\ \A y \in Offers : offered[y].class = c
                                => offered[y].score <= offered[x].score
<1> DEFINE X == {x \in Offers : offered[x].class = c}
           S == {offered[h].score : h \in X}
           T == {st.bestScore - v : v \in S}
<1>1. /\ X # {} /\ \A x \in X : offered[x].score \in Int /\ offered[x].score <= st.bestScore
      /\ st.bestScore \in Int
  BY InvTypes DEF OfferedClasses, Inv, StackInv, BestHeld
<1>2. S # {} /\ \A v \in S : v \in Int /\ v <= st.bestScore
  BY <1>1
<1>3. T # {} /\ \A v \in T : v \in Nat
  <2> HIDE DEF S
  <2> QED BY <1>1, <1>2
<1>4. PICK least \in T : \A v \in T : least <= v
  <2> HIDE DEF T
  <2> QED BY <1>3, LeastNumber
<1>5. PICK best \in S : least = st.bestScore - best
  BY <1>4
<1>6. \A v \in S : best >= v
  <2> TAKE v \in S
  <2>1. st.bestScore - v \in T
    OBVIOUS
  <2>2. v \in Int /\ best \in Int
    BY <1>2
  <2> HIDE DEF S, T
  <2> QED BY <1>1, <1>4, <1>5, <2>1, <2>2
<1>7. Max(S) \in S /\ \A v \in S : Max(S) >= v
  <2> HIDE DEF S
  <2> QED BY <1>5, <1>6 DEF Max
<1>8. ClassBest(c) = Max(S)
  BY DEF ClassBest
<1>9. PICK x \in X : offered[x].score = Max(S)
  BY <1>7
<1>10. \A y \in Offers : offered[y].class = c => offered[y].score <= offered[x].score
  <2> SUFFICES ASSUME NEW y \in Offers, offered[y].class = c
               PROVE  offered[y].score <= offered[x].score
    OBVIOUS
  <2>1. offered[y].score \in S /\ y \in X
    OBVIOUS
  <2> HIDE DEF S
  <2> QED BY <1>1, <1>7, <1>9, <2>1
<1> QED BY <1>8, <1>9, <1>10

\* The best hypothesis of a lost class is not represented on the stack.
LEMMA LostOne ==
  ASSUME Inv, NEW c \in LostClasses
  PROVE  \E x \in Offers : /\ offered[x].class = c /\ offered[x].score = ClassBest(c)
                           /\ ~Represented(offered, st, x)
<1>1. c \in OfferedClasses
  BY DEF LostClasses
<1>2. PICK x \in Offers : offered[x].class = c /\ offered[x].score = ClassBest(c)
  BY <1>1, ClassBestFound
<1>3. ASSUME NEW h \in st.hypos, offered[h].class = c PROVE ~(offered[h].score >= offered[x].score)
  <2>1. offered[h].score < ClassBest(c)
    BY <1>3 DEF LostClasses
  <2>2. offered[h].score \in Int /\ offered[x].score \in Int
    BY InvTypes
  <2> QED BY <1>2, <2>1, <2>2
<1> QED BY <1>2, <1>3 DEF Represented

\* The stack always has its type: the hypotheses on it and in arc lists have been offered
\* (Hypothesis and m_hypos), and so have those that AddPrune and the prunings delete.
THEOREM TypeCorrect == Spec => []TypeOK
<1>1. Inv => TypeOK
  BY DEF Inv
<1> QED BY <1>1, Invariance, PTL

\* What SearchNormal relies on (AddPrune, PruneToSize): a class is on the stack once, the best
\* hypothesis offered is never pruned and m_bestScore is its score, and lazy pruning stays within
\* the tolerated size.
THEOREM StackKeepsContract == Spec => []StackContract
<1>1. ASSUME Inv PROVE StackContract
  <2>1. \A h, x \in st.hypos : offered[x].class = offered[h].class => x = h
    BY <1>1 DEF Inv, StackInv, Unique
  <2>2. ASSUME offered # <<>>
        PROVE  /\ \E h \in st.hypos : \A x \in Offers : offered[h].score >= offered[x].score
               /\ st.bestScore = Max({offered[x].score : x \in Offers})
    <3> DEFINE S == {offered[x].score : x \in Offers}
    <3>1. Offers # {}
      <4>1. offered \in Seq(Hypotheses)
        BY <1>1 DEF Inv, TypeOK, OffersOK
      <4>2. DOMAIN offered = 1 .. Len(offered) /\ Len(offered) \in Nat /\ Len(offered) # 0
        BY <2>2, <4>1, LenProperties, EmptySeq
      <4> QED BY <4>2 DEF Offers
    <3>2. PICK h \in st.hypos : offered[h].score = st.bestScore
      BY <1>1, <3>1 DEF Inv, StackInv, BestHeld
    <3>3. /\ h \in Offers /\ st.bestScore \in Int /\ \A x \in Offers : offered[x].score \in Int
          /\ \A x \in Offers : st.bestScore >= offered[x].score
      BY <1>1, InvTypes DEF Inv, StackInv, BestHeld
    <3>4. st.bestScore \in S /\ \A v \in S : v \in Int /\ st.bestScore >= v
      BY <3>2, <3>3
    <3>5. Max(S) \in S /\ \A v \in S : Max(S) >= v
      <4> HIDE DEF S
      <4> QED BY <3>4 DEF Max
    <3>6. st.bestScore = Max(S)
      <4> HIDE DEF S
      <4> QED BY <3>3, <3>4, <3>5
    <3> QED BY <3>2, <3>3, <3>6
  <2> QED BY <1>1, <2>1, <2>2 DEF Inv, StackContract
<1> QED BY <1>1, Invariance, PTL

\* Lazy pruning loses nothing that pruning at once would have kept: without diversity, what is lost
\* is outside the beam, or behind as many hypotheses as the stack is meant to hold.
THEOREM NothingBetterLost == Spec => []LossOnlyBelowRankOrBeam
<1>1. ASSUME Inv, Diversity = 0, NEW c \in LostClasses
      PROVE  \/ ClassBest(c) <= st.bestScore + BeamWidth
             \/ Cardinality({h \in st.hypos : offered[h].score >= ClassBest(c)}) >= MaxHypoStackSize
  <2> DEFINE edge == st.bestScore + BeamWidth
             H == {h \in st.hypos : offered[h].score >= ClassBest(c)}
             F == AtLeast(offered, st, st.worstScore)
  <2>1. PICK x \in Offers : offered[x].score = ClassBest(c) /\ ~Represented(offered, st, x)
    BY <1>1, LostOne
  <2>2. /\ ClassBest(c) <= st.worstScore /\ ClassBest(c) \in Int /\ st.worstScore \in Int
        /\ edge \in Int /\ edge <= st.worstScore
    BY <1>1, <2>1, InvTypes DEF Inv, StackInv, RankKept, BestHeld
  <2>3. CASE st.worstScore > edge
    <3>1. Cardinality(F) >= MaxHypoStackSize
      BY <1>1, <2>1, <2>3 DEF Inv, StackInv, RankKept
    <3>2. F \in SUBSET H
      <4>1. \A h \in st.hypos : offered[h].score \in Int
        BY <1>1, InvTypes
      <4> QED BY <2>2, <4>1 DEF AtLeast
    <3>3. IsFiniteSet(H)
      <4>1. H \in SUBSET Id /\ IsFiniteSet(Id)
        BY <1>1, InvTypes
      <4> HIDE DEF H
      <4> QED BY <4>1, FS_Subset
    <3>4. /\ Cardinality(F) <= Cardinality(H) /\ Cardinality(F) \in Nat /\ Cardinality(H) \in Nat
          /\ MaxHypoStackSize \in Nat
      <4> HIDE DEF F, H
      <4> QED BY <1>1, <3>2, <3>3, FS_Subset, FS_CardinalityType, InvTypes
    <3> QED BY <3>1, <3>4
  <2>4. CASE ~(st.worstScore > edge)
    <3> HIDE DEF edge
    <3>1. ClassBest(c) <= edge
      BY <2>2, <2>4
    <3> QED BY <3>1 DEF edge
  <2> QED BY <2>3, <2>4
<1>2. Inv => LossOnlyBelowRankOrBeam
  BY <1>1 DEF LossOnlyBelowRankOrBeam
<1> QED BY <1>2, Invariance, PTL

\* Stack diversity: a class is lost only behind m_minHypoStackDiversity hypotheses of its coverage.
THEOREM DiversityIsKept == Spec => []DiversityKept
<1>1. ASSUME Inv, NEW c \in LostClasses
      PROVE  Cardinality({h \in st.hypos : /\ CoverageOf[offered[h].class] = CoverageOf[c]
                                           /\ offered[h].score >= ClassBest(c)}) >= Diversity
  <2> DEFINE H == {h \in st.hypos : /\ CoverageOf[offered[h].class] = CoverageOf[c]
                                    /\ offered[h].score >= ClassBest(c)}
             dw == st.diversityWorst[CoverageOf[c]]
             F == OfCoverage(offered, st, CoverageOf[c], dw)
  <2>1. IsFiniteSet(H) /\ Cardinality(H) \in Nat /\ Diversity \in Nat
    <3>1. H \in SUBSET Id /\ IsFiniteSet(Id) /\ Diversity \in Nat
      BY <1>1, InvTypes
    <3> HIDE DEF H
    <3> QED BY <3>1, FS_Subset, FS_CardinalityType
  <2>2. CASE Diversity > 0
    <3>1. PICK x \in Offers : /\ offered[x].class = c /\ offered[x].score = ClassBest(c)
                              /\ ~Represented(offered, st, x)
      BY <1>1, LostOne
    <3>2. Coverage(offered, x) = CoverageOf[c] /\ CoverageOf[c] \in Coverages
      BY <1>1, <3>1, InvTypes DEF Coverage
    <3>3. /\ ClassBest(c) <= dw /\ ClassBest(c) \in Int /\ dw \in Int
          /\ ClassBest(c) > NegInfinity /\ NegInfinity \in Int
      BY <1>1, <2>2, <3>1, <3>2, InvTypes DEF Inv, StackInv, CoverageKept
    <3>4. dw > NegInfinity
      <4> HIDE DEF dw
      <4> QED BY <3>3
    <3>5. Cardinality(F) >= Diversity
      BY <1>1, <2>2, <3>2, <3>4 DEF Inv, StackInv, CoverageKept
    <3>6. F \in SUBSET H
      <4>1. \A h \in st.hypos : offered[h].score \in Int
        BY <1>1, InvTypes
      <4> HIDE DEF dw
      <4> QED BY <3>3, <4>1 DEF OfCoverage, Coverage
    <3>7. Cardinality(F) <= Cardinality(H) /\ Cardinality(F) \in Nat
      <4> HIDE DEF F, H
      <4> QED BY <2>1, <3>6, FS_Subset, FS_CardinalityType
    <3> HIDE DEF F, H
    <3>8. Cardinality(H) >= Diversity
      BY <2>1, <3>5, <3>7
    <3> QED BY <3>8 DEF H
  <2>3. CASE Diversity = 0
    <3> HIDE DEF H
    <3>1. Cardinality(H) >= Diversity
      BY <2>1, <2>3
    <3> QED BY <3>1 DEF H
  <2> QED BY <2>1, <2>2, <2>3
<1>2. Inv => DiversityKept
  BY <1>1 DEF DiversityKept
<1> QED BY <1>2, Invariance, PTL

\* No leak, no double delete and no arc of a deleted hypothesis: each one is on the stack, in one
\* arc list of a hypothesis on the stack, or has been freed once.
THEOREM OneOwnerEach == Spec => []OneOwner
<1>1. ASSUME Inv, NEW h \in Offers
      PROVE  Cardinality({w \in st.hypos : h \in st.arcs[w]})
               + (IF h \in st.hypos THEN 1 ELSE 0) + st.freed[h] = 1
  <2> DEFINE held == Cardinality({w \in st.hypos : h \in st.arcs[w]})
  <2>1. Owned(Offers, st) /\ st.hypos \in SUBSET Id /\ st \in Stacks /\ h \in Id
    BY <1>1, InvTypes DEF Inv, StackInv
  <2>2. held = IF \E w \in st.hypos : h \in st.arcs[w] THEN 1 ELSE 0
    BY <2>1, ArcCounted
  <2>3. (\E w \in st.hypos : h \in st.arcs[w]) <=> \E w \in Id : h \in st.arcs[w]
    BY <2>1 DEF Owned
  <2>4. st.freed[h] = IF h \in st.hypos \/ \E w \in Id : h \in st.arcs[w] THEN 0 ELSE 1
    BY <1>1, <2>1 DEF Owned
  <2>5. ~(h \in st.hypos /\ \E w \in Id : h \in st.arcs[w])
    BY <2>1 DEF Owned
  <2> HIDE DEF held
  <2>6. held + (IF h \in st.hypos THEN 1 ELSE 0) + st.freed[h] = 1
    BY <2>2, <2>3, <2>4, <2>5
  <2> QED BY <2>6 DEF held
<1>2. Inv => OneOwner
  BY <1>1 DEF OneOwner
<1> QED BY <1>2, Invariance, PTL

\* The arcs of a hypothesis, the alternatives of an n-best list, belong to its recombination class
\* and are no better than it.
THEOREM ArcsAlternatives == Spec => []ArcsAreWorseAlternatives
<1>1. Inv => ArcsAreWorseAlternatives
  BY DEF Inv, StackInv, StackOK, Stacks, ArcsWorse, ArcsAreWorseAlternatives
<1> QED BY <1>1, Invariance, PTL
=============================================================================
