----------------------- MODULE FilterController_proofs -----------------------
(***************************************************************************)
(* Proofs about the n-gram filter's controller: however many threads there *)
(* are, whatever the batch size and the files, a batch is in one place     *)
(* only, and the reader writes the end of a section when no thread holds a *)
(* batch.                                                                  *)
(***************************************************************************)
EXTENDS FilterController, FiniteSetTheorems, SequenceTheorems, WellFoundedInduction,
        TLAPS

BatchesOK ==
    /\ batches = [b \in Batches |-> batches[b]]
    /\ \A b \in Batches : /\ batches[b] = [input |-> batches[b].input,
                                           output |-> batches[b].output,
                                           sequence |-> batches[b].sequence]
                          /\ batches[b].sequence \in Nat

\* What is needed of the types.  The lines in the buffers are left open: the proofs
\* are about who holds a batch, not about what is in it.
TypeOK ==
    /\ local_read_ \in Seq(Batches) /\ to_read_ \in Seq(Batches)
    /\ filter_ \in Seq(Batches \cup {NULL}) /\ output_ \in Seq(Batches \cup {NULL})
    /\ ordering_ \in Seq(Batches \cup {NULL})
    /\ hand \in [Workers -> Batches \cup {NULL, GONE}]
    /\ sequence_ \in Nat /\ base_sequence_ \in Nat
    /\ BatchesOK

\* The batches that the reader has handed over and that have not come back.
InFlight(b) ==
    Occurrences(filter_, b) + Occurrences(hand, b) + Occurrences(output_, b)
        + Occurrences(ordering_, b) > 0

\* The reader has a batch to fill, unless it waits for one.
Filling == main \notin {"renewing", "flushing"}

\* The numbers given out so far to batches in flight end here: while the reader fills a
\* batch, that one has the last number.
Given == IF Filling THEN sequence_ - 1 ELSE sequence_

\* The reader fills the batch on top of its stack, which has the last number.
Reading == Filling => /\ local_read_ # <<>>
                      /\ batches[Last(local_read_)].sequence = sequence_ - 1

\* Batches in flight have different numbers, from base_sequence_ on ...
Numbered ==
    /\ base_sequence_ <= Given
    /\ \A b \in Batches : InFlight(b) => batches[b].sequence \in base_sequence_..(Given - 1)
    /\ \A b, c \in Batches :
           InFlight(b) /\ InFlight(c) /\ b # c => batches[b].sequence # batches[c].sequence

\* ... and those that wait for their turn wait at the place of their number.
Ordered ==
    \A i \in 1..Len(ordering_) :
        ordering_[i] # NULL => batches[ordering_[i]].sequence = base_sequence_ + i - 1

Inv == TypeOK /\ Reading /\ Numbered /\ Ordered /\ BatchInOnePlace

-----------------------------------------------------------------------------
\* Counting the places of a batch.

\* The places of a batch in a finite container are counted by a number, which is not 0 when
\* there is one.
LEMMA Counted ==
    ASSUME NEW f, NEW b, IsFiniteSet(DOMAIN f)
    PROVE  /\ IsFiniteSet({i \in DOMAIN f : f[i] = b})
           /\ Occurrences(f, b) \in Nat
           /\ Occurrences(f, b) > 0 <=> \E i \in DOMAIN f : f[i] = b
<1> DEFINE P == {i \in DOMAIN f : f[i] = b}
<1>1. IsFiniteSet(P)
  BY FS_Subset, P \subseteq DOMAIN f
<1>2. Cardinality(P) \in Nat /\ (Cardinality(P) = 0 <=> P = {})
  BY <1>1, FS_CardinalityType, FS_EmptySet
<1> QED
  BY <1>1, <1>2 DEF Occurrences

\* One place more counts one more, if it was not counted before.
LEMMA OneMore ==
    ASSUME NEW f, NEW g, NEW b, NEW d, IsFiniteSet(DOMAIN f),
           {i \in DOMAIN g : g[i] = b} = {i \in DOMAIN f : f[i] = b} \cup {d},
           d \notin {i \in DOMAIN f : f[i] = b}
    PROVE  Occurrences(g, b) = Occurrences(f, b) + 1
<1>1. IsFiniteSet({i \in DOMAIN f : f[i] = b})
  BY Counted
<1> QED
  BY <1>1, FS_AddElement DEF Occurrences

\* Sequences have finite domains.
LEMMA FiniteDomain ==
    ASSUME NEW S, NEW q \in Seq(S)
    PROVE  IsFiniteSet(DOMAIN q) /\ DOMAIN q = 1..Len(q) /\ Len(q) \in Nat
BY FS_Interval

\* Append counts its element.
LEMMA CountAppend ==
    ASSUME NEW S, NEW q \in Seq(S), NEW x \in S, NEW b
    PROVE  Occurrences(Append(q, x), b) = Occurrences(q, b) + (IF x = b THEN 1 ELSE 0)
<1> DEFINE g == Append(q, x)
<1>1. /\ DOMAIN q = 1..Len(q) /\ Len(q) \in Nat /\ DOMAIN g = 1..(Len(q) + 1)
      /\ \A i \in 1..Len(q) : g[i] = q[i]
      /\ g[Len(q) + 1] = x /\ IsFiniteSet(DOMAIN q)
  BY FiniteDomain
<1> HIDE DEF g
<1>2. Occurrences(q, b) \in Nat
  BY <1>1, Counted
<1>3. CASE x = b
  <2>1. {i \in DOMAIN g : g[i] = b} = {i \in DOMAIN q : q[i] = b} \cup {Len(q) + 1}
    BY <1>1, <1>3
  <2>2. Len(q) + 1 \notin {i \in DOMAIN q : q[i] = b}
    BY <1>1
  <2>3. Occurrences(g, b) = Occurrences(q, b) + 1
    BY <2>1, <2>2, <1>1, OneMore
  <2> QED
    BY <2>3, <1>3 DEF g
<1>4. CASE x # b
  <2>1. {i \in DOMAIN g : g[i] = b} = {i \in DOMAIN q : q[i] = b}
    BY <1>1, <1>4
  <2>2. Occurrences(g, b) = Occurrences(q, b)
    BY <2>1 DEF Occurrences
  <2> QED
    BY <2>2, <1>2, <1>4 DEF g
<1> QED
  BY <1>3, <1>4

\* Tail forgets the head.
LEMMA CountTail ==
    ASSUME NEW S, NEW q \in Seq(S), q # <<>>, NEW b
    PROVE  Occurrences(q, b) = Occurrences(Tail(q), b) + (IF Head(q) = b THEN 1 ELSE 0)
<1> DEFINE g == Tail(q)
           P == {i \in DOMAIN q : q[i] = b}
           T == {i \in DOMAIN g : g[i] = b}
           R == P \ {1}
<1>1. /\ DOMAIN q = 1..Len(q) /\ Len(q) \in Nat \ {0} /\ DOMAIN g = 1..(Len(q) - 1)
      /\ \A i \in 1..(Len(q) - 1) : g[i] = q[i + 1]
      /\ Head(q) = q[1] /\ IsFiniteSet(DOMAIN q)
  BY FiniteDomain
<1>2. IsFiniteSet(P) /\ IsFiniteSet(R)
  BY <1>1, Counted, FS_Subset, R \subseteq P
<1>3. IsFiniteSet(T) /\ Cardinality(T) = Cardinality(R)
  <2> DEFINE F == [i \in R |-> i - 1]
  <2> HIDE DEF g
  <2>1. \A i \in R : i \in 2..Len(q) /\ q[i] = b
    BY <1>1
  <2>2. \A i \in R : i - 1 \in T
    BY <1>1, <2>1
  <2>3. \A k \in T : k + 1 \in R /\ (k + 1) - 1 = k
    BY <1>1
  <2>4. \A i, j \in R : i - 1 = j - 1 => i = j
    BY <1>1, <2>1
  <2> HIDE DEF R, T
  <2>5. F \in Bijection(R, T)
    <3>1. F \in [R -> T]
      BY <2>2
    <3>2. \A i, j \in R : F[i] = F[j] => i = j
      BY <2>4
    <3>3. \A k \in T : \E i \in R : F[i] = k
      BY <2>3
    <3> QED
      BY <3>1, <3>2, <3>3 DEF Bijection, Injection, Surjection, IsInjective
  <2> QED
    BY <1>2, <2>5, FS_Bijection DEF ExistsBijection
<1>4. Cardinality(P) = Cardinality(R) + (IF 1 \in P THEN 1 ELSE 0)
  <2>1. Cardinality(R) = IF 1 \in P THEN Cardinality(P) - 1 ELSE Cardinality(P)
    BY <1>2, FS_RemoveElement
  <2>2. Cardinality(P) \in Nat
    BY <1>2, FS_CardinalityType
  <2> HIDE DEF P, R
  <2> QED
    BY <2>1, <2>2
<1>5. 1 \in P <=> Head(q) = b
  BY <1>1
<1>6. Occurrences(q, b) = Cardinality(P) /\ Occurrences(Tail(q), b) = Cardinality(T)
  BY DEF Occurrences
<1> HIDE DEF P, R, T
<1> QED
  BY <1>3, <1>4, <1>5, <1>6

\* Front forgets the last element.
LEMMA CountFront ==
    ASSUME NEW S, NEW q \in Seq(S), q # <<>>, NEW b
    PROVE  /\ Occurrences(q, b) = Occurrences(Front(q), b) + (IF Last(q) = b THEN 1 ELSE 0)
           /\ Front(q) \in Seq(S) /\ Last(q) \in S /\ Len(Front(q)) = Len(q) - 1
<1> DEFINE n == Len(q) - 1
           g == SubSeq(q, 1, n)
<1>1. n \in Nat /\ Len(q) = n + 1 /\ q[n + 1] \in S
  OBVIOUS
<1>2. g \in Seq(S) /\ Len(g) = n /\ \A i \in 1..n : g[i] = q[i]
  BY <1>1, SubSeqProperties
<1>3. Front(q) = g /\ Last(q) = q[n + 1]
  BY DEF Front, Last
<1> HIDE DEF g, n
<1>4. q = Append(g, q[n + 1])
  <2>1. /\ Append(g, q[n + 1]) \in Seq(S) /\ Len(q) = Len(Append(g, q[n + 1]))
        /\ \A i \in 1..Len(q) : q[i] = Append(g, q[n + 1])[i]
    BY <1>1, <1>2
  <2> QED
    BY <2>1, SeqEqual
<1>5. Occurrences(q, b) = Occurrences(g, b) + (IF q[n + 1] = b THEN 1 ELSE 0)
  <2> DEFINE x == q[n + 1]
  <2>1. x \in S
    BY <1>1
  <2>2. q = Append(g, x)
    BY <1>4
  <2> HIDE DEF x
  <2>3. Occurrences(Append(g, x), b) = Occurrences(g, b) + (IF x = b THEN 1 ELSE 0)
    BY <1>2, <2>1, CountAppend
  <2> QED
    BY <2>2, <2>3 DEF x
<1> QED
  BY <1>1, <1>2, <1>3, <1>5

\* A hand that changes.
LEMMA CountHand ==
    ASSUME NEW f, IsFiniteSet(DOMAIN f), NEW g, DOMAIN g = DOMAIN f, NEW w \in DOMAIN f,
           \A i \in DOMAIN f : i # w => g[i] = f[i], NEW b
    PROVE  Occurrences(g, b) + (IF f[w] = b THEN 1 ELSE 0) =
               Occurrences(f, b) + (IF g[w] = b THEN 1 ELSE 0)
<1> DEFINE P == {i \in DOMAIN f : f[i] = b}
           Q == {i \in DOMAIN g : g[i] = b}
           R == P \ {w}
<1>2. IsFiniteSet(P) /\ IsFiniteSet(R)
  BY Counted, FS_Subset, R \subseteq P
<1>3. Q = IF g[w] = b THEN R \cup {w} ELSE R
  OBVIOUS
<1>4. w \in P <=> f[w] = b
  OBVIOUS
<1>5. w \notin R
  OBVIOUS
<1>6. Cardinality(R) = IF w \in P THEN Cardinality(P) - 1 ELSE Cardinality(P)
  BY <1>2, FS_RemoveElement
<1>7. Cardinality(R \cup {w}) = Cardinality(R) + 1
  BY <1>2, <1>5, FS_AddElement
<1>8. Cardinality(P) \in Nat
  BY <1>2, FS_CardinalityType
<1>9. Occurrences(f, b) = Cardinality(P) /\ Occurrences(g, b) = Cardinality(Q)
  BY DEF Occurrences
<1> HIDE DEF P, Q, R
<1> QED
  BY <1>3, <1>4, <1>6, <1>7, <1>8, <1>9
-----------------------------------------------------------------------------
\* What the actions do to the batches.

SameNumbers == \A b \in Batches : batches'[b].sequence = batches[b].sequence

\* Lines that are added to an input change no number ...
LEMMA InputSet ==
    ASSUME BatchesOK, NEW b \in Batches, NEW x, batches' = [batches EXCEPT ![b].input = x]
    PROVE  BatchesOK' /\ SameNumbers
<1>1. batches'[b] = [input |-> x, output |-> batches[b].output, sequence |-> batches[b].sequence]
  BY DEF BatchesOK
<1>2. \A c \in Batches : c # b => batches'[c] = batches[c]
  BY DEF BatchesOK
<1>3. batches' = [c \in Batches |-> batches'[c]]
  BY DEF BatchesOK
<1> QED
  BY <1>1, <1>2, <1>3 DEF BatchesOK, SameNumbers

\* ... and neither do lines that are added to an output, or written.
LEMMA OutputSet ==
    ASSUME BatchesOK, NEW b \in Batches, NEW x, batches' = [batches EXCEPT ![b].output = x]
    PROVE  BatchesOK' /\ SameNumbers
<1>1. batches'[b] = [input |-> batches[b].input, output |-> x, sequence |-> batches[b].sequence]
  BY DEF BatchesOK
<1>2. \A c \in Batches : c # b => batches'[c] = batches[c]
  BY DEF BatchesOK
<1>3. batches' = [c \in Batches |-> batches'[c]]
  BY DEF BatchesOK
<1> QED
  BY <1>1, <1>2, <1>3 DEF BatchesOK, SameNumbers

\* A batch that is filled anew gets the next number, the others keep theirs.
LEMMA NumberSet ==
    ASSUME BatchesOK, NEW b \in Batches, sequence_ \in Nat, Fill(b)
    PROVE  /\ BatchesOK' /\ batches'[b].sequence = sequence_
           /\ \A c \in Batches : c # b => batches'[c].sequence = batches[c].sequence
<1>1. batches'[b] = [input |-> <<>>, output |-> batches[b].output, sequence |-> sequence_]
  <2> DEFINE r == batches[b]
             cleared == [r EXCEPT !.input = <<>>]
  <2>1. cleared = [input |-> <<>>, output |-> r.output, sequence |-> r.sequence]
    BY DEF BatchesOK
  <2> HIDE DEF cleared, r
  <2>2. [cleared EXCEPT !.sequence = sequence_] =
            [input |-> <<>>, output |-> r.output, sequence |-> sequence_]
    BY <2>1
  <2>3. batches'[b] = [cleared EXCEPT !.sequence = sequence_]
    BY DEF BatchesOK, Fill, cleared, r
  <2> QED
    BY <2>2, <2>3 DEF r
<1>2. \A c \in Batches : c # b => batches'[c] = batches[c]
  BY DEF BatchesOK, Fill
<1>3. batches' = [c \in Batches |-> batches'[c]]
  BY DEF BatchesOK, Fill
<1> QED
  BY <1>1, <1>2, <1>3 DEF BatchesOK

\* The numbers of places of a batch.
LEMMA Places ==
    ASSUME TypeOK, NEW b \in Batches
    PROVE  /\ Occurrences(local_read_, b) \in Nat /\ Occurrences(filter_, b) \in Nat
           /\ Occurrences(hand, b) \in Nat /\ Occurrences(output_, b) \in Nat
           /\ Occurrences(ordering_, b) \in Nat /\ Occurrences(to_read_, b) \in Nat
<1>1. /\ IsFiniteSet(DOMAIN local_read_) /\ IsFiniteSet(DOMAIN to_read_)
      /\ IsFiniteSet(DOMAIN filter_) /\ IsFiniteSet(DOMAIN output_)
      /\ IsFiniteSet(DOMAIN ordering_)
  BY FiniteDomain DEF TypeOK
<1>2. IsFiniteSet(DOMAIN hand)
  BY PoolAssumption DEF TypeOK
<1> QED
  BY <1>1, <1>2, Counted

\* A batch on the reader's stack is not in flight, and neither is one on its way back.
LEMMA NotInFlight ==
    ASSUME TypeOK, BatchInOnePlace, NEW b \in Batches
    PROVE  /\ Occurrences(local_read_, b) > 0 \/ Occurrences(to_read_, b) > 0 => ~InFlight(b)
           /\ Occurrences(local_read_, b) <= 1
BY Places DEF BatchInOnePlace, InFlight

LEMMA IntervalGrows ==
    ASSUME NEW low \in Int, NEW high \in Int, NEW more \in Int, low <= high, more >= high
    PROVE  low <= more /\ \A x \in low..(high - 1) : x \in low..(more - 1)
OBVIOUS

\* What a worker of the filter pool takes up counts, and what it puts down no longer does.
TakesUp(w, x) == hand' = [hand EXCEPT ![w] = x]

LEMMA HandChanges ==
    ASSUME TypeOK, NEW w \in Workers, NEW x, TakesUp(w, x), NEW b
    PROVE  /\ Occurrences(hand', b) \in Nat
           /\ Occurrences(hand', b) + (IF hand[w] = b THEN 1 ELSE 0) =
                  Occurrences(hand, b) + (IF x = b THEN 1 ELSE 0)
<1>1. /\ IsFiniteSet(DOMAIN hand) /\ DOMAIN hand' = DOMAIN hand /\ w \in DOMAIN hand
      /\ \A v \in DOMAIN hand : v # w => hand'[v] = hand[v]
      /\ hand'[w] = x
  BY PoolAssumption DEF TypeOK, TakesUp
<1>2. Occurrences(hand', b) + (IF hand[w] = b THEN 1 ELSE 0) =
          Occurrences(hand, b) + (IF hand'[w] = b THEN 1 ELSE 0)
  BY ONLY <1>1, CountHand
<1>3. Occurrences(hand', b) \in Nat
  BY <1>1, Counted
<1> QED
  BY <1>1, <1>2, <1>3

\* While no batch is handed over, written or renumbered in flight, the numbers stay right.
LEMMA NumberedKept ==
    ASSUME Numbered, base_sequence_ \in Nat, NEW g \in Int, NEW h \in Int,
           Given = g, Given' = h, h >= g, base_sequence_' = base_sequence_,
           \A b \in Batches : InFlight(b)' => /\ InFlight(b)
                                              /\ batches'[b].sequence = batches[b].sequence
    PROVE  Numbered'
<1> DEFINE n(b) == batches[b].sequence
           m(b) == batches'[b].sequence
           F(b) == InFlight(b)
           G(b) == InFlight(b)'
<1>1. /\ base_sequence_ <= g
      /\ \A b \in Batches : F(b) => n(b) \in base_sequence_..(g - 1)
      /\ \A b, c \in Batches : F(b) /\ F(c) /\ b # c => n(b) # n(c)
  BY DEF Numbered
<1>2. \A b \in Batches : G(b) => F(b) /\ m(b) = n(b)
  OBVIOUS
<1>3. base_sequence_ <= h /\ \A x \in base_sequence_..(g - 1) :
                                        x \in base_sequence_..(h - 1)
  BY <1>1, IntervalGrows
<1> HIDE DEF n, m, F, G
<1>4. /\ \A b \in Batches : G(b) => m(b) \in base_sequence_..(h - 1)
      /\ \A b, c \in Batches : G(b) /\ G(c) /\ b # c => m(b) # m(c)
  BY <1>1, <1>2, <1>3
<1> QED
  BY <1>3, <1>4 DEF Numbered, n, m, F, G
\* Batches that wait for their turn keep their places.
LEMMA OrderedKept ==
    ASSUME Ordered, TypeOK, SameNumbers, UNCHANGED <<ordering_, base_sequence_>>
    PROVE  Ordered'
<1>1. \A i \in 1..Len(ordering_) : ordering_[i] # NULL => ordering_[i] \in Batches
  BY DEF TypeOK
<1> QED
  BY <1>1 DEF Ordered, SameNumbers

\* A step that moves no batch to the filter pool, and writes and renumbers none.
LEMMA Moved ==
    ASSUME Inv, TypeOK', SameNumbers, UNCHANGED <<base_sequence_, ordering_, sequence_>>,
           Filling' => Filling /\ local_read_' = local_read_,
           \A b \in Batches : InFlight(b)' => InFlight(b),
           BatchInOnePlace'
    PROVE  Inv'
<1>1. Numbered'
  <2>1. /\ base_sequence_ \in Nat /\ Given \in Int /\ Given' \in Int /\ Given' >= Given
    BY DEF Inv, TypeOK, Given
  <2> QED
    BY <2>1, NumberedKept DEF Inv, SameNumbers
<1>2. Ordered'
  BY OrderedKept DEF Inv
<1>3. Reading'
  <2> SUFFICES ASSUME Filling'
      PROVE  local_read_' # <<>> /\ batches'[Last(local_read_')].sequence = sequence_' - 1
    BY DEF Reading
  <2>1. local_read_ # <<>> /\ batches[Last(local_read_)].sequence = sequence_ - 1
    BY DEF Inv, Reading
  <2>2. Last(local_read_) \in Batches
    BY <2>1, CountFront DEF Inv, TypeOK
  <2> QED
    BY <2>1, <2>2 DEF SameNumbers
<1> QED
  BY <1>1, <1>2, <1>3 DEF Inv

\* A step that leaves every batch where it is.
LEMMA Stay ==
    ASSUME Inv, BatchesOK', SameNumbers,
           UNCHANGED <<local_read_, to_read_, filter_, output_, hand, ordering_,
                       base_sequence_, sequence_>>,
           Filling' => Filling
    PROVE  Inv'
<1>1. TypeOK'
  BY DEF Inv, TypeOK
<1>2. BatchInOnePlace'
  BY DEF Inv, BatchInOnePlace
<1>3. \A b \in Batches : InFlight(b)' => InFlight(b)
  BY DEF InFlight
<1> QED
  BY <1>1, <1>2, <1>3, Moved

\* The reader hands the batch that it has filled to the filter pool.
LEMMA HandOver ==
    ASSUME Inv, Filling, ~Filling', FlushInput(Last(local_read_)),
           BatchesOK', SameNumbers,
           UNCHANGED <<to_read_, output_, hand, ordering_, base_sequence_, sequence_>>
    PROVE  Inv'
<1> DEFINE t == Last(local_read_)
<1>1. local_read_ # <<>> /\ batches[t].sequence = sequence_ - 1
  BY DEF Inv, Reading
<1>2. t \in Batches /\ Front(local_read_) \in Seq(Batches)
  BY <1>1, CountFront DEF Inv, TypeOK
<1>3. filter_' = Append(filter_, t) /\ local_read_' = Front(local_read_)
  BY DEF FlushInput
<1>4. filter_ \in Seq(Batches \cup {NULL}) /\ local_read_ \in Seq(Batches)
  BY DEF Inv, TypeOK
<1> HIDE DEF t
<1>5. TypeOK'
  <2>1. filter_' \in Seq(Batches \cup {NULL}) /\ local_read_' \in Seq(Batches)
    BY <1>2, <1>3, <1>4
  <2> QED
    BY <2>1 DEF Inv, TypeOK
<1>6. \A b \in Batches :
          /\ Occurrences(filter_', b) = Occurrences(filter_, b) + (IF t = b THEN 1 ELSE 0)
          /\ Occurrences(local_read_, b) =
                 Occurrences(local_read_', b) + (IF t = b THEN 1 ELSE 0)
  <2> TAKE b \in Batches
  <2>1. Occurrences(filter_', b) = Occurrences(filter_, b) + (IF t = b THEN 1 ELSE 0)
    <3> DEFINE S == Batches \cup {NULL}
    <3>1. filter_ \in Seq(S) /\ t \in S
      BY <1>2, <1>4
    <3> HIDE DEF S
    <3>2. Occurrences(Append(filter_, t), b) = Occurrences(filter_, b) + (IF t = b THEN 1 ELSE 0)
      BY ONLY <3>1, CountAppend
    <3> QED
      BY <3>2, <1>3
  <2>2. Occurrences(local_read_, b) =
            Occurrences(Front(local_read_), b) + (IF t = b THEN 1 ELSE 0)
    BY <1>1, <1>4, CountFront DEF t
  <2> QED
    BY <2>1, <2>2, <1>3
<1>7. \A b \in Batches : /\ Occurrences(local_read_, b) \in Nat
                         /\ Occurrences(local_read_', b) \in Nat
                         /\ Occurrences(filter_, b) \in Nat /\ Occurrences(hand, b) \in Nat
                         /\ Occurrences(output_, b) \in Nat
                         /\ Occurrences(ordering_, b) \in Nat
                         /\ Occurrences(to_read_, b) \in Nat
  <2>1. \A b \in Batches : Occurrences(local_read_', b) \in Nat
    BY <1>2, <1>3, FiniteDomain, Counted
  <2> QED
    BY <2>1, Places DEF Inv
<1>8. BatchInOnePlace'
  <2> SUFFICES ASSUME NEW b \in Batches
      PROVE  Occurrences(local_read_', b) + Occurrences(filter_', b) + Occurrences(hand, b)
               + Occurrences(output_, b) + Occurrences(ordering_, b)
               + Occurrences(to_read_, b) = 1
    BY DEF BatchInOnePlace
  <2>1. Occurrences(local_read_, b) + Occurrences(filter_, b) + Occurrences(hand, b)
          + Occurrences(output_, b) + Occurrences(ordering_, b) + Occurrences(to_read_, b) = 1
    BY DEF Inv, BatchInOnePlace
  <2> QED
    BY <2>1, <1>6, <1>7
<1>9. \A b \in Batches : InFlight(b)' => InFlight(b) \/ b = t
  <2> SUFFICES ASSUME NEW b \in Batches, InFlight(b)', b # t
      PROVE  InFlight(b)
    OBVIOUS
  <2>1. Occurrences(filter_', b) + Occurrences(hand, b) + Occurrences(output_, b)
          + Occurrences(ordering_, b) > 0
    BY DEF InFlight
  <2> QED
    BY <2>1, <1>6, <1>7 DEF InFlight
<1>10. Numbered'
  <2>1. Given = sequence_ - 1 /\ Given' = sequence_ /\ sequence_ \in Nat
        /\ base_sequence_ \in Nat
    BY DEF Given, Inv, TypeOK
  <2>2. base_sequence_ <= sequence_ - 1
    BY <2>1 DEF Inv, Numbered
  <2>3. ASSUME NEW b \in Batches, InFlight(b)
        PROVE  batches[b].sequence \in base_sequence_..(sequence_ - 2)
    <3>1. batches[b].sequence \in base_sequence_..((sequence_ - 1) - 1)
      BY <2>1, <2>3 DEF Inv, Numbered
    <3> QED
      BY <2>1, <3>1
  <2>4. ASSUME NEW b \in Batches, InFlight(b)'
        PROVE  batches'[b].sequence \in base_sequence_..(sequence_ - 1)
    BY <2>1, <2>2, <2>3, <2>4, <1>1, <1>9 DEF SameNumbers
  <2>5. ASSUME NEW b \in Batches, NEW c \in Batches, InFlight(b)', InFlight(c)', b # c
        PROVE  batches'[b].sequence # batches'[c].sequence
    <3>1. batches'[b].sequence = batches[b].sequence
          /\ batches'[c].sequence = batches[c].sequence
      BY DEF SameNumbers
    <3>2. CASE b = t
      BY <3>1, <3>2, <2>1, <2>3, <2>5, <1>1, <1>9
    <3>3. CASE c = t
      BY <3>1, <3>3, <2>1, <2>3, <2>5, <1>1, <1>9
    <3>4. CASE b # t /\ c # t
      BY <3>1, <3>4, <2>5, <1>9 DEF Inv, Numbered
    <3> QED
      BY <3>2, <3>3, <3>4
  <2> QED
    BY <2>1, <2>2, <2>4, <2>5 DEF Numbered
<1>11. Ordered'
  BY OrderedKept DEF Inv
<1>12. Reading'
  BY DEF Reading
<1> QED
  BY <1>5, <1>8, <1>10, <1>11, <1>12 DEF Inv
-----------------------------------------------------------------------------
\* The actions of the reader.

LEMMA AddNGramInv ==
    ASSUME Inv, AddNGram
    PROVE  Inv'
<1> DEFINE t == Last(local_read_)
           filled == Append(batches[t].input, read + 1)
<1>1. Filling /\ batches' = [batches EXCEPT ![t].input = filled]
      /\ UNCHANGED <<to_read_, output_, hand, ordering_, base_sequence_, sequence_>>
  BY DEF AddNGram, Filling
<1>2. t \in Batches
  BY <1>1, CountFront DEF Inv, Reading, TypeOK
<1>3. \/ UNCHANGED <<main, filter_, local_read_>>
      \/ FlushInput(t) /\ ~Filling'
  BY DEF AddNGram, Filling
<1> HIDE DEF t, filled
<1>4. BatchesOK' /\ SameNumbers
  BY <1>1, <1>2, InputSet DEF Inv, TypeOK
<1>5. CASE UNCHANGED <<main, filter_, local_read_>>
  BY <1>1, <1>4, <1>5, Stay DEF Filling
<1>6. CASE FlushInput(t) /\ ~Filling'
  BY <1>1, <1>4, <1>6, HandOver DEF t
<1> QED
  BY <1>3, <1>5, <1>6

LEMMA BeginFlushInv ==
    ASSUME Inv, BeginFlush
    PROVE  Inv'
<1>1. /\ Filling /\ ~Filling'
      /\ UNCHANGED <<batches, to_read_, output_, hand, ordering_, base_sequence_, sequence_>>
  BY DEF BeginFlush, Filling
<1>2. BatchesOK' /\ SameNumbers
  BY <1>1 DEF Inv, TypeOK, BatchesOK, SameNumbers
<1>3. \/ UNCHANGED <<filter_, local_read_>>
      \/ FlushInput(Last(local_read_))
  BY DEF BeginFlush
<1>4. CASE UNCHANGED <<filter_, local_read_>>
  BY <1>1, <1>2, <1>4, Stay
<1>5. CASE FlushInput(Last(local_read_))
  BY <1>1, <1>2, <1>5, HandOver
<1> QED
  BY <1>3, <1>4, <1>5

LEMMA MoveReadInv ==
    ASSUME Inv, MoveRead
    PROVE  Inv'
<1> DEFINE h == Head(to_read_)
<1>1. /\ to_read_ # <<>> /\ main' = main /\ ~Filling
      /\ local_read_' = Append(local_read_, h) /\ to_read_' = Tail(to_read_)
      /\ UNCHANGED <<batches, filter_, output_, hand, ordering_, base_sequence_, sequence_>>
  BY DEF MoveRead, Short, Filling
<1>2. to_read_ \in Seq(Batches) /\ local_read_ \in Seq(Batches)
  BY DEF Inv, TypeOK
<1>3. h \in Batches /\ Tail(to_read_) \in Seq(Batches)
  BY <1>1, <1>2
<1>4. \A b \in Batches :
          Occurrences(to_read_, b) = Occurrences(Tail(to_read_), b) + (IF h = b THEN 1 ELSE 0)
  BY <1>1, <1>2, CountTail
<1> HIDE DEF h
<1>5. TypeOK'
  BY <1>1, <1>2, <1>3 DEF Inv, TypeOK, BatchesOK
<1>6. \A b \in Batches :
          Occurrences(local_read_', b) = Occurrences(local_read_, b) + (IF h = b THEN 1 ELSE 0)
  BY <1>1, <1>2, <1>3, CountAppend
<1>7. BatchInOnePlace'
  <2> SUFFICES ASSUME NEW b \in Batches
      PROVE  Occurrences(local_read_', b) + Occurrences(filter_, b) + Occurrences(hand, b)
               + Occurrences(output_, b) + Occurrences(ordering_, b)
               + Occurrences(to_read_', b) = 1
    BY <1>1 DEF BatchInOnePlace
  <2>1. Occurrences(local_read_, b) + Occurrences(filter_, b) + Occurrences(hand, b)
          + Occurrences(output_, b) + Occurrences(ordering_, b) + Occurrences(to_read_, b) = 1
    BY DEF Inv, BatchInOnePlace
  <2>2. Occurrences(to_read_', b) \in Nat
    BY <1>1, <1>3, FiniteDomain, Counted
  <2>3. Occurrences(to_read_, b) =
            Occurrences(to_read_', b) + (IF h = b THEN 1 ELSE 0)
    BY <1>1, <1>4
  <2>4. /\ Occurrences(local_read_, b) \in Nat /\ Occurrences(filter_, b) \in Nat
        /\ Occurrences(hand, b) \in Nat /\ Occurrences(output_, b) \in Nat
        /\ Occurrences(ordering_, b) \in Nat
    BY Places DEF Inv
  <2> QED
    BY <2>1, <2>2, <2>3, <2>4, <1>6
<1>8. \A b \in Batches : InFlight(b)' => InFlight(b)
  BY <1>1 DEF InFlight
<1>9. SameNumbers
  BY <1>1 DEF SameNumbers
<1> QED
  BY <1>1, <1>5, <1>7, <1>8, <1>9, Moved DEF Filling

\* The batch on top of the stack is not in flight, so that its new number touches no other
\* thread's.
LEMMA NewInputInv ==
    ASSUME Inv, NewInput
    PROVE  Inv'
<1> DEFINE t == Last(local_read_)
<1>1. /\ ~Filling /\ Filling' /\ Fill(t) /\ sequence_' = sequence_ + 1
      /\ UNCHANGED <<local_read_, to_read_, filter_, output_, hand, ordering_, base_sequence_>>
  BY DEF NewInput, Fill, Filling
<1>2. local_read_ # <<>>
  <2>1. main = "renewing" => local_read_ # <<>>
    BY DEF NewInput, Short
  <2>2. CASE main = "flushing"
    <3>1. ~(Len(local_read_) < Queue)
      BY <2>2 DEF NewInput, Short
    <3>2. Cardinality(Workers) \in Nat /\ Cardinality(Workers) # 0
      BY PoolAssumption, FS_CardinalityType, FS_EmptySet
    <3>3. Len(local_read_) > 0
      BY <3>1, <3>2, QueueAssumption DEF Inv, TypeOK
    <3> QED
      BY <3>3
  <2> QED
    BY <2>1, <2>2 DEF NewInput
<1>3. t \in Batches /\ local_read_ \in Seq(Batches) /\ sequence_ \in Nat
  BY <1>2, CountFront DEF Inv, TypeOK
<1>4. Occurrences(local_read_, t) > 0
  <2>1. \E i \in DOMAIN local_read_ : local_read_[i] = t
    BY <1>2, <1>3 DEF Last
  <2> QED
    BY <2>1, <1>3, FiniteDomain, Counted
<1> HIDE DEF t
<1>5. ~InFlight(t)
  BY <1>3, <1>4, NotInFlight DEF Inv
<1>6. /\ BatchesOK' /\ batches'[t].sequence = sequence_
      /\ \A b \in Batches : b # t => batches'[b].sequence = batches[b].sequence
  BY <1>1, <1>3, NumberSet DEF Inv, TypeOK
<1>7. TypeOK'
  BY <1>1, <1>3, <1>6 DEF Inv, TypeOK
<1>8. BatchInOnePlace'
  BY <1>1 DEF Inv, BatchInOnePlace
<1>9. Reading'
  BY <1>1, <1>2, <1>3, <1>6 DEF Reading, t
<1>10. Numbered'
  <2>1. \A b \in Batches : InFlight(b)' => /\ InFlight(b)
                                           /\ batches'[b].sequence = batches[b].sequence
    BY <1>1, <1>5, <1>6 DEF InFlight
  <2>2. Given = sequence_ /\ Given' = sequence_ /\ base_sequence_ \in Nat
    BY <1>1, <1>3 DEF Given, Inv, TypeOK
  <2> QED
    BY <2>1, <2>2, <1>1, <1>3, NumberedKept DEF Inv
<1>11. Ordered'
  <2> SUFFICES ASSUME NEW i \in 1..Len(ordering_), ordering_[i] # NULL
      PROVE  batches'[ordering_[i]].sequence = base_sequence_ + i - 1
    BY <1>1 DEF Ordered
  <2> DEFINE b == ordering_[i]
  <2>1. b \in Batches
    BY DEF Inv, TypeOK
  <2>2. Occurrences(ordering_, b) > 0
    BY FiniteDomain, Counted DEF Inv, TypeOK
  <2>3. InFlight(b)
    BY <2>1, <2>2, Places DEF Inv, InFlight
  <2>4. batches[b].sequence = base_sequence_ + i - 1
    BY DEF Inv, Ordered
  <2> QED
    BY <2>1, <2>3, <2>4, <1>5, <1>6
<1> QED
  BY <1>7, <1>8, <1>9, <1>10, <1>11 DEF Inv
\* A poison is no batch.
LEMMA PoisonFilterInv ==
    ASSUME Inv, PoisonFilter
    PROVE  Inv'
<1>1. /\ filter_' = Append(filter_, NULL)
      /\ UNCHANGED <<main, local_read_, to_read_, batches, output_, hand, ordering_,
                     base_sequence_, sequence_>>
  BY DEF PoisonFilter
<1>2. TypeOK'
  BY <1>1 DEF Inv, TypeOK, BatchesOK
<1>3. \A b \in Batches : Occurrences(filter_', b) = Occurrences(filter_, b)
  <2> TAKE b \in Batches
  <2>1. Occurrences(filter_', b) = Occurrences(filter_, b) + (IF NULL = b THEN 1 ELSE 0)
    <3>1. filter_ \in Seq(Batches \cup {NULL}) /\ NULL \in Batches \cup {NULL}
      BY DEF Inv, TypeOK
    <3> QED
      BY <3>1, <1>1, CountAppend
  <2>2. NULL # b /\ Occurrences(filter_, b) \in Nat
    BY Places DEF Inv, NULL, Batches
  <2> QED
    BY <2>1, <2>2
<1>4. BatchInOnePlace' /\ \A b \in Batches : InFlight(b)' => InFlight(b)
  BY <1>1, <1>3 DEF Inv, BatchInOnePlace, InFlight
<1>5. SameNumbers
  BY <1>1 DEF SameNumbers
<1> QED
  BY <1>1, <1>2, <1>4, <1>5, Moved DEF Filling

LEMMA PoisonOutputInv ==
    ASSUME Inv, PoisonOutput
    PROVE  Inv'
<1>1. /\ output_' = Append(output_, NULL) /\ main = "closing" /\ main' = "joining"
      /\ UNCHANGED <<local_read_, to_read_, batches, filter_, hand, ordering_,
                     base_sequence_, sequence_>>
  BY DEF PoisonOutput
<1>2. TypeOK'
  BY <1>1 DEF Inv, TypeOK, BatchesOK
<1>3. \A b \in Batches : Occurrences(output_', b) = Occurrences(output_, b)
  <2> TAKE b \in Batches
  <2>1. Occurrences(output_', b) = Occurrences(output_, b) + (IF NULL = b THEN 1 ELSE 0)
    <3>1. output_ \in Seq(Batches \cup {NULL}) /\ NULL \in Batches \cup {NULL}
      BY DEF Inv, TypeOK
    <3> QED
      BY <3>1, <1>1, CountAppend
  <2>2. NULL # b /\ Occurrences(output_, b) \in Nat
    BY Places DEF Inv, NULL, Batches
  <2> QED
    BY <2>1, <2>2
<1>4. BatchInOnePlace' /\ \A b \in Batches : InFlight(b)' => InFlight(b)
  BY <1>1, <1>3 DEF Inv, BatchInOnePlace, InFlight
<1>5. SameNumbers
  BY <1>1 DEF SameNumbers
<1> QED
  BY <1>1, <1>2, <1>4, <1>5, Moved DEF Filling

-----------------------------------------------------------------------------
\* The actions of the filter pool.

LEMMA TakeInv ==
    ASSUME Inv, NEW w \in Workers, Take(w)
    PROVE  Inv'
<1> DEFINE h == Head(filter_)
           x == IF h = NULL THEN GONE ELSE h
<1>1. /\ hand[w] = NULL /\ filter_ # <<>> /\ filter_' = Tail(filter_)
      /\ hand' = [hand EXCEPT ![w] = x]
      /\ UNCHANGED <<main, local_read_, to_read_, batches, output_, ordering_,
                     base_sequence_, sequence_>>
  BY DEF Take, reader
<1>2. /\ filter_ \in Seq(Batches \cup {NULL})
      /\ hand \in [Workers -> Batches \cup {NULL, GONE}]
  BY DEF Inv, TypeOK
<1>3. h \in Batches \cup {NULL} /\ Tail(filter_) \in Seq(Batches \cup {NULL})
  BY <1>1, <1>2
<1>4. \A b \in Batches :
          Occurrences(filter_, b) = Occurrences(Tail(filter_), b) + (IF h = b THEN 1 ELSE 0)
  BY <1>1, <1>2, CountTail
<1>5. \A b \in Batches : b # NULL /\ b # GONE
  BY DEF Batches, NULL, GONE
<1>6. x \in Batches \cup {GONE} /\ \A b \in Batches : x = b <=> h = b
  BY <1>3, <1>5
<1> HIDE DEF h, x
<1>7. TypeOK'
  BY <1>1, <1>2, <1>3, <1>6 DEF Inv, TypeOK, BatchesOK
<1>8. \A b \in Batches :
          Occurrences(hand', b) = Occurrences(hand, b) + (IF h = b THEN 1 ELSE 0)
  <2> TAKE b \in Batches
  <2>1. /\ Occurrences(hand', b) \in Nat
        /\ Occurrences(hand', b) + (IF hand[w] = b THEN 1 ELSE 0) =
               Occurrences(hand, b) + (IF x = b THEN 1 ELSE 0)
    <3>1. TypeOK /\ TakesUp(w, x)
      BY <1>1 DEF Inv, TakesUp
    <3> QED
      BY ONLY <3>1, HandChanges
  <2>2. hand[w] # b /\ Occurrences(hand, b) \in Nat
    BY <1>1, <1>5, Places DEF Inv
  <2> QED
    BY <2>1, <2>2, <1>6
<1>9. \A b \in Batches :
          /\ Occurrences(filter_', b) \in Nat
          /\ Occurrences(filter_', b) + Occurrences(hand', b) =
                 Occurrences(filter_, b) + Occurrences(hand, b)
  <2> TAKE b \in Batches
  <2>1. Occurrences(filter_', b) \in Nat
    BY <1>1, <1>3, FiniteDomain, Counted
  <2>2. Occurrences(filter_, b) \in Nat /\ Occurrences(hand, b) \in Nat
    BY Places DEF Inv
  <2>3. Occurrences(filter_, b) = Occurrences(filter_', b) + (IF h = b THEN 1 ELSE 0)
    BY <1>1, <1>4
  <2> QED
    BY <2>1, <2>2, <2>3, <1>8
<1>10. BatchInOnePlace' /\ \A b \in Batches : InFlight(b)' => InFlight(b)
  <2> SUFFICES ASSUME NEW b \in Batches
      PROVE  /\ Occurrences(local_read_, b) + Occurrences(filter_', b) + Occurrences(hand', b)
                  + Occurrences(output_, b) + Occurrences(ordering_, b)
                  + Occurrences(to_read_, b) = 1
             /\ InFlight(b)' => InFlight(b)
    BY <1>1 DEF BatchInOnePlace
  <2>1. Occurrences(local_read_, b) + Occurrences(filter_, b) + Occurrences(hand, b)
          + Occurrences(output_, b) + Occurrences(ordering_, b) + Occurrences(to_read_, b) = 1
    BY DEF Inv, BatchInOnePlace
  <2>2. Occurrences(filter_', b) + Occurrences(hand', b) =
            Occurrences(filter_, b) + Occurrences(hand, b)
    BY <1>9
  <2>3. /\ Occurrences(local_read_, b) \in Nat /\ Occurrences(output_, b) \in Nat
        /\ Occurrences(ordering_, b) \in Nat /\ Occurrences(to_read_, b) \in Nat
        /\ Occurrences(filter_, b) \in Nat /\ Occurrences(hand, b) \in Nat
    BY Places DEF Inv
  <2>4. Occurrences(filter_', b) \in Nat /\ Occurrences(hand', b) \in Nat
    BY <1>9, <1>8, <2>3
  <2>5. InFlight(b)' <=> Occurrences(filter_', b) + Occurrences(hand', b)
                          + Occurrences(output_, b) + Occurrences(ordering_, b) > 0
    BY <1>1 DEF InFlight
  <2> QED
    BY <2>1, <2>2, <2>3, <2>4, <2>5 DEF InFlight
<1>11. SameNumbers
  BY <1>1 DEF SameNumbers
<1> QED
  BY <1>1, <1>7, <1>10, <1>11, Moved DEF Filling
\* FilterWorker::operator() passes its batch on.
LEMMA FilterInv ==
    ASSUME Inv, NEW w \in Workers, Filter(w)
    PROVE  Inv'
<1> DEFINE h == hand[w]
           lines == batches[h].output
                      \o Selected(batches[h].input, Passes)
<1>1. /\ h \in Batches /\ output_' = Append(output_, h)
      /\ batches' = [batches EXCEPT ![h].output = lines]
      /\ hand' = [hand EXCEPT ![w] = NULL]
      /\ UNCHANGED <<main, local_read_, to_read_, filter_, ordering_, base_sequence_, sequence_>>
  <2>1. h \in Batches /\ h \in DOMAIN batches
    BY DEF Filter, Inv, TypeOK, BatchesOK
  <2>2. batches' = [batches EXCEPT ![h].output =
                        @ \o Selected(batches[h].input, Passes)]
    BY DEF Filter
  <2> QED
    BY <2>1, <2>2 DEF Filter, reader
<1>2. /\ output_ \in Seq(Batches \cup {NULL})
      /\ hand \in [Workers -> Batches \cup {NULL, GONE}]
  BY DEF Inv, TypeOK
<1>3. \A b \in Batches : b # NULL
  BY DEF Batches, NULL
<1>4. \A b \in Batches :
          Occurrences(hand', b) = Occurrences(hand, b) - (IF h = b THEN 1 ELSE 0)
  <2> TAKE b \in Batches
  <2>1. /\ Occurrences(hand', b) \in Nat
        /\ Occurrences(hand', b) + (IF hand[w] = b THEN 1 ELSE 0) =
               Occurrences(hand, b) + (IF NULL = b THEN 1 ELSE 0)
    <3>1. TypeOK /\ TakesUp(w, NULL)
      BY <1>1 DEF Inv, TakesUp
    <3> QED
      BY ONLY <3>1, HandChanges
  <2>2. NULL # b /\ Occurrences(hand, b) \in Nat
    BY <1>3, Places DEF Inv
  <2> QED
    BY <1>1, <2>1, <2>2
<1> HIDE DEF h, lines
<1>5. BatchesOK' /\ SameNumbers
  BY <1>1, OutputSet DEF Inv, TypeOK
<1>6. TypeOK'
  BY <1>1, <1>2, <1>5 DEF Inv, TypeOK
<1>7. \A b \in Batches :
          Occurrences(output_', b) = Occurrences(output_, b) + (IF h = b THEN 1 ELSE 0)
  <2> TAKE b \in Batches
  <2>1. h \in Batches \cup {NULL}
    BY <1>1
  <2> QED
    BY <1>1, <1>2, <2>1, CountAppend
<1>8. BatchInOnePlace' /\ \A b \in Batches : InFlight(b)' => InFlight(b)
  <2> SUFFICES ASSUME NEW b \in Batches
      PROVE  /\ Occurrences(local_read_, b) + Occurrences(filter_, b) + Occurrences(hand', b)
                  + Occurrences(output_', b) + Occurrences(ordering_, b)
                  + Occurrences(to_read_, b) = 1
             /\ InFlight(b)' => InFlight(b)
    BY <1>1 DEF BatchInOnePlace
  <2>1. Occurrences(local_read_, b) + Occurrences(filter_, b) + Occurrences(hand, b)
          + Occurrences(output_, b) + Occurrences(ordering_, b) + Occurrences(to_read_, b) = 1
    BY DEF Inv, BatchInOnePlace
  <2>2. /\ Occurrences(local_read_, b) \in Nat /\ Occurrences(output_, b) \in Nat
        /\ Occurrences(ordering_, b) \in Nat /\ Occurrences(to_read_, b) \in Nat
        /\ Occurrences(filter_, b) \in Nat /\ Occurrences(hand, b) \in Nat
    BY Places DEF Inv
  <2>3. InFlight(b)' <=> Occurrences(filter_, b) + Occurrences(hand', b)
                          + Occurrences(output_', b) + Occurrences(ordering_, b) > 0
    BY <1>1 DEF InFlight
  <2>4. /\ Occurrences(hand', b) = Occurrences(hand, b) - (IF h = b THEN 1 ELSE 0)
        /\ Occurrences(output_', b) = Occurrences(output_, b) + (IF h = b THEN 1 ELSE 0)
    BY <1>4, <1>7
  <2> QED
    BY <2>1, <2>2, <2>3, <2>4 DEF InFlight
<1> QED
  BY <1>1, <1>5, <1>6, <1>8, Moved DEF Filling

-----------------------------------------------------------------------------
\* The actions of the output worker.

LEMMA WriterLeavesInv ==
    ASSUME Inv, WriterLeaves
    PROVE  Inv'
<1>1. /\ output_ # <<>> /\ Head(output_) = NULL /\ output_' = Tail(output_)
      /\ UNCHANGED <<main, local_read_, to_read_, filter_, hand, batches, ordering_,
                     base_sequence_, sequence_>>
  BY DEF WriterLeaves, reader
<1>2. output_ \in Seq(Batches \cup {NULL})
  BY DEF Inv, TypeOK
<1>3. TypeOK'
  BY <1>1, <1>2 DEF Inv, TypeOK, BatchesOK
<1>4. \A b \in Batches : Occurrences(output_', b) = Occurrences(output_, b)
  <2> TAKE b \in Batches
  <2>1. Occurrences(output_, b) =
            Occurrences(Tail(output_), b) + (IF Head(output_) = b THEN 1 ELSE 0)
    BY <1>1, <1>2, CountTail
  <2>2. Tail(output_) \in Seq(Batches \cup {NULL})
    BY <1>1, <1>2
  <2>3. NULL # b
    BY DEF NULL, Batches
  <2>4. Occurrences(Tail(output_), b) \in Nat
    BY <2>2, FiniteDomain, Counted
  <2> QED
    BY <1>1, <2>1, <2>3, <2>4
<1>5. BatchInOnePlace' /\ \A b \in Batches : InFlight(b)' => InFlight(b)
  BY <1>1, <1>4 DEF Inv, BatchInOnePlace, InFlight
<1>6. SameNumbers
  BY <1>1 DEF SameNumbers
<1> QED
  BY <1>1, <1>3, <1>5, <1>6, Moved DEF Filling

\* The number of a batch that comes out of the pool: no batch waits at its place yet.
LEMMA PlaceIsFree ==
    ASSUME Inv, NEW b \in Batches, Occurrences(output_, b) > 0,
           NEW pos, pos = batches[b].sequence - base_sequence_ + 1
    PROVE  pos \in Nat \ {0} /\ (pos <= Len(ordering_) => ordering_[pos] = NULL)
<1>1. InFlight(b) /\ Occurrences(ordering_, b) = 0
  BY Places DEF Inv, InFlight, BatchInOnePlace
<1>2. batches[b].sequence \in base_sequence_..(Given - 1)
  BY <1>1 DEF Inv, Numbered
<1>3. base_sequence_ \in Nat /\ batches[b].sequence \in Nat /\ Given \in Int
  BY DEF Inv, TypeOK, BatchesOK, Given
<1>4. pos \in Nat \ {0}
  BY <1>2, <1>3
<1>5. ASSUME pos <= Len(ordering_), ordering_[pos] # NULL
      PROVE  FALSE
  <2> DEFINE c == ordering_[pos]
  <2>1. ordering_ \in Seq(Batches \cup {NULL})
    BY DEF Inv, TypeOK
  <2>2. pos \in 1..Len(ordering_)
    BY <1>4, <1>5, <2>1
  <2>3. c \in Batches
    BY <1>5, <2>1, <2>2
  <2>4. Occurrences(ordering_, c) > 0
    BY <2>1, <2>2, FiniteDomain, Counted
  <2>5. InFlight(c)
    BY <2>3, <2>4, Places DEF Inv, InFlight
  <2>6. batches[c].sequence = base_sequence_ + pos - 1
    BY <1>5, <2>2 DEF Inv, Ordered
  <2>7. b # c
    BY <1>1, <2>4
  <2>8. batches[b].sequence # batches[c].sequence
    BY <1>1, <2>3, <2>5, <2>7 DEF Inv, Numbered
  <2> HIDE DEF c
  <2> QED
    BY <2>6, <2>8, <1>3, <1>4
<1> QED
  BY <1>4, <1>5
\* g is the queue q with x at the place pos, and none at the places that it has in addition.
IsPlaced(g, q, x, pos, none) ==
    /\ pos \in 1..Len(q) => q[pos] = none
    /\ pos \in 1..Len(g) /\ g[pos] = x
    /\ \A i \in 1..Len(g) : i # pos => g[i] = none \/ (i \in 1..Len(q) /\ g[i] = q[i])
    /\ \A i \in 1..Len(q) : i # pos => i \in 1..Len(g) /\ g[i] = q[i]

\* Putting a batch at a free place behind base_sequence_, which fills the gap with no batches.
LEMMA Placed ==
    ASSUME NEW S, NEW q \in Seq(S), NEW null \in S, NEW x \in S, NEW pos \in Nat \ {0},
           pos <= Len(q) => q[pos] = null, NEW g,
           g = [i \in 1..(IF pos > Len(q) THEN pos ELSE Len(q)) |->
                    IF i = pos THEN x ELSE IF i <= Len(q) THEN q[i] ELSE null]
    PROVE  g \in Seq(S) /\ IsPlaced(g, q, x, pos, null)
<1> DEFINE n == IF pos > Len(q) THEN pos ELSE Len(q)
<1>1. n \in Nat /\ n >= pos /\ n >= Len(q) /\ Len(q) \in Nat
  OBVIOUS
<1>2. \A i \in 1..Len(q) : q[i] \in S
  OBVIOUS
<1>3. DOMAIN g = 1..n /\ \A i \in 1..n : g[i] = IF i = pos THEN x
                                               ELSE IF i <= Len(q) THEN q[i] ELSE null
  OBVIOUS
<1> HIDE DEF n
<1>4. \A i \in 1..n : g[i] \in S
  BY <1>1, <1>2, <1>3
<1>5. g = [i \in 1..n |-> g[i]]
  BY DEF n
<1>6. g \in Seq(S) /\ Len(g) = n
  BY <1>1, <1>4, <1>5
<1>7. pos \in 1..Len(g) /\ g[pos] = x
  BY <1>1, <1>3, <1>6
<1>8. ASSUME NEW i \in 1..Len(g), i # pos
      PROVE  g[i] = null \/ (i \in 1..Len(q) /\ g[i] = q[i])
  <2>1. i \in 1..n
    BY <1>6
  <2>2. g[i] = IF i <= Len(q) THEN q[i] ELSE null
    BY <2>1, <1>3, <1>8
  <2>3. i <= Len(q) => i \in 1..Len(q)
    BY <2>1, <1>1
  <2> QED
    BY <2>2, <2>3
<1>9. \A i \in 1..Len(q) : i # pos => i \in 1..Len(g) /\ g[i] = q[i]
  BY <1>1, <1>3, <1>6
<1> QED
  BY <1>6, <1>7, <1>8, <1>9 DEF IsPlaced

LEMMA CountPlaced ==
    ASSUME NEW S, NEW q \in Seq(S), NEW g \in Seq(S), NEW null, NEW x, NEW pos, NEW b,
           IsPlaced(g, q, x, pos, null), b # null
    PROVE  Occurrences(g, b) = Occurrences(q, b) + (IF x = b THEN 1 ELSE 0)
<1>1. /\ DOMAIN q = 1..Len(q) /\ DOMAIN g = 1..Len(g) /\ IsFiniteSet(DOMAIN q)
  BY FiniteDomain
<1>2. Occurrences(q, b) \in Nat
  BY <1>1, Counted
<1>3. CASE x = b
  <2>1. {i \in DOMAIN g : g[i] = b} = {i \in DOMAIN q : q[i] = b} \cup {pos}
    BY <1>1, <1>3 DEF IsPlaced
  <2>2. pos \notin {i \in DOMAIN q : q[i] = b}
    BY <1>1 DEF IsPlaced
  <2>3. Occurrences(g, b) = Occurrences(q, b) + 1
    BY <2>1, <2>2, <1>1, OneMore
  <2> QED
    BY <2>3, <1>3
<1>4. CASE x # b
  <2>1. {i \in DOMAIN g : g[i] = b} = {i \in DOMAIN q : q[i] = b}
    BY <1>1, <1>4 DEF IsPlaced
  <2>2. Occurrences(g, b) = Occurrences(q, b)
    BY <2>1 DEF Occurrences
  <2> QED
    BY <2>2, <1>2, <1>4
<1> QED
  BY <1>3, <1>4

\* OutputWorker::operator() puts a batch at its place.
LEMMA ArrangeInv ==
    ASSUME Inv, Arrange
    PROVE  Inv'
<1> DEFINE h == Head(output_)
           pos == batches[h].sequence - base_sequence_ + 1
<1>1. /\ output_ # <<>> /\ h # NULL /\ output_' = Tail(output_)
      /\ ordering_' = [i \in 1..(IF pos > Len(ordering_) THEN pos ELSE Len(ordering_)) |->
                          IF i = pos THEN h
                          ELSE IF i <= Len(ordering_) THEN ordering_[i] ELSE NULL]
      /\ UNCHANGED <<main, local_read_, to_read_, filter_, hand, batches, base_sequence_,
                     sequence_>>
  BY DEF Arrange, reader
<1>2. output_ \in Seq(Batches \cup {NULL}) /\ ordering_ \in Seq(Batches \cup {NULL})
  BY DEF Inv, TypeOK
<1>3. h \in Batches /\ Tail(output_) \in Seq(Batches \cup {NULL})
  BY <1>1, <1>2
<1>4. \A b \in Batches :
          Occurrences(output_, b) = Occurrences(Tail(output_), b) + (IF h = b THEN 1 ELSE 0)
  BY <1>1, <1>2, CountTail
<1>5. \A b \in Batches : Occurrences(output_', b) \in Nat
  BY <1>1, <1>3, FiniteDomain, Counted
<1>6. Occurrences(output_, h) > 0
  <2>1. Occurrences(output_, h) = Occurrences(output_', h) + 1
    BY <1>1, <1>3, <1>4
  <2> QED
    BY <2>1, <1>3, <1>5
<1>7. batches[h].sequence = base_sequence_ + pos - 1
  <2>1. batches[h].sequence \in Nat /\ base_sequence_ \in Nat
    BY <1>3 DEF Inv, TypeOK, BatchesOK
  <2> QED
    BY <2>1
<1>8. pos \in Nat \ {0} /\ (pos <= Len(ordering_) => ordering_[pos] = NULL)
  BY <1>3, <1>6, PlaceIsFree
<1> HIDE DEF h, pos
<1>9. ordering_' \in Seq(Batches \cup {NULL}) /\ IsPlaced(ordering_', ordering_, h, pos, NULL)
  <2>1. h \in Batches \cup {NULL} /\ NULL \in Batches \cup {NULL}
    BY <1>3
  <2> QED
    BY <1>1, <1>2, <1>8, <2>1, Placed DEF IsPlaced
<1>10. TypeOK'
  BY <1>1, <1>3, <1>9 DEF Inv, TypeOK, BatchesOK
<1>11. \A b \in Batches :
          Occurrences(ordering_', b) = Occurrences(ordering_, b) + (IF h = b THEN 1 ELSE 0)
  <2> TAKE b \in Batches
  <2>1. b # NULL
    BY DEF Batches, NULL
  <2> QED
    BY ONLY <1>2, <1>9, <2>1, CountPlaced
<1>12. \A b \in Batches :
           /\ Occurrences(local_read_, b) + Occurrences(filter_, b) + Occurrences(hand, b)
                + Occurrences(output_', b) + Occurrences(ordering_', b)
                + Occurrences(to_read_, b) = 1
           /\ InFlight(b)' => InFlight(b)
  <2> TAKE b \in Batches
  <2>1. Occurrences(local_read_, b) + Occurrences(filter_, b) + Occurrences(hand, b)
          + Occurrences(output_, b) + Occurrences(ordering_, b) + Occurrences(to_read_, b) = 1
    BY DEF Inv, BatchInOnePlace
  <2>2. /\ Occurrences(local_read_, b) \in Nat /\ Occurrences(output_', b) \in Nat
        /\ Occurrences(ordering_, b) \in Nat /\ Occurrences(to_read_, b) \in Nat
        /\ Occurrences(filter_, b) \in Nat /\ Occurrences(hand, b) \in Nat
    BY <1>5, Places DEF Inv
  <2>3. InFlight(b)' <=> Occurrences(filter_, b) + Occurrences(hand, b)
                          + Occurrences(output_', b) + Occurrences(ordering_', b) > 0
    BY <1>1 DEF InFlight
  <2>4. Occurrences(output_, b) = Occurrences(output_', b) + (IF h = b THEN 1 ELSE 0)
    BY <1>1, <1>4
  <2>5. Occurrences(ordering_', b) = Occurrences(ordering_, b) + (IF h = b THEN 1 ELSE 0)
    BY <1>11
  <2> QED
    BY <2>1, <2>2, <2>3, <2>4, <2>5 DEF InFlight
<1>13. BatchInOnePlace'
  BY <1>1, <1>12 DEF BatchInOnePlace
<1>14. Numbered'
  <2>1. /\ base_sequence_ \in Nat /\ Given \in Int /\ Given' = Given
        /\ base_sequence_' = base_sequence_ /\ Numbered
    BY <1>1 DEF Inv, TypeOK, Given, Filling
  <2>2. \A b \in Batches : InFlight(b)' => /\ InFlight(b)
                                           /\ batches'[b].sequence = batches[b].sequence
    BY <1>1, <1>12
  <2>3. PICK g \in Int : g = Given
    BY <2>1
  <2>4. g >= g
    OBVIOUS
  <2> QED
    BY ONLY <2>1, <2>2, <2>3, <2>4, NumberedKept
<1>15. Ordered'
  <2> SUFFICES ASSUME NEW i \in 1..Len(ordering_'), ordering_'[i] # NULL
      PROVE  batches[ordering_'[i]].sequence = base_sequence_ + i - 1
    BY <1>1 DEF Ordered
  <2>1. CASE i = pos
    BY <2>1, <1>7, <1>9 DEF IsPlaced
  <2>2. CASE i # pos
    <3>1. i \in 1..Len(ordering_) /\ ordering_'[i] = ordering_[i]
      BY <2>2, <1>9 DEF IsPlaced
    <3> QED
      BY <3>1 DEF Inv, Ordered
  <2> QED
    BY <2>1, <2>2
<1>16. Reading'
  BY <1>1 DEF Inv, Reading, Filling
<1> QED
  BY <1>10, <1>13, <1>14, <1>15, <1>16 DEF Inv
\* The batch that is written has the number base_sequence_, and those in flight have later ones.
LEMMA WriteFrontInv ==
    ASSUME Inv, WriteFront
    PROVE  Inv'
<1> DEFINE h == Head(ordering_)
<1>1. /\ ordering_ # <<>> /\ h # NULL /\ ordering_' = Tail(ordering_)
      /\ batches' = [batches EXCEPT ![h].output = <<>>]
      /\ to_read_' = Append(to_read_, h) /\ base_sequence_' = base_sequence_ + 1
      /\ UNCHANGED <<main, local_read_, filter_, hand, output_, sequence_>>
  BY DEF WriteFront, FrontReady, reader
<1>2. ordering_ \in Seq(Batches \cup {NULL}) /\ to_read_ \in Seq(Batches)
  BY DEF Inv, TypeOK
<1>3. /\ h \in Batches /\ Tail(ordering_) \in Seq(Batches \cup {NULL})
      /\ Len(ordering_) \in Nat \ {0} /\ h = ordering_[1]
      /\ Len(Tail(ordering_)) = Len(ordering_) - 1
      /\ \A i \in 1..(Len(ordering_) - 1) : Tail(ordering_)[i] = ordering_[i + 1]
  BY <1>1, <1>2
<1>4. \A b \in Batches :
          Occurrences(ordering_, b) = Occurrences(Tail(ordering_), b) + (IF h = b THEN 1 ELSE 0)
  BY <1>1, <1>2, CountTail
<1>5. batches[h].sequence = base_sequence_
  <2>1. 1 \in 1..Len(ordering_) /\ ordering_[1] # NULL
    BY <1>1, <1>3
  <2>2. batches[ordering_[1]].sequence = base_sequence_ + 1 - 1
    BY <2>1 DEF Inv, Ordered
  <2> QED
    BY <2>2, <1>3 DEF Inv, TypeOK
<1> HIDE DEF h
<1>6. BatchesOK' /\ SameNumbers
  BY <1>1, <1>3, OutputSet DEF Inv, TypeOK
<1>7. TypeOK'
  BY <1>1, <1>2, <1>3, <1>6 DEF Inv, TypeOK
<1>8. \A b \in Batches :
          /\ Occurrences(ordering_', b) \in Nat
          /\ Occurrences(ordering_, b) = Occurrences(ordering_', b) + (IF h = b THEN 1 ELSE 0)
          /\ Occurrences(to_read_', b) = Occurrences(to_read_, b) + (IF h = b THEN 1 ELSE 0)
  <2> TAKE b \in Batches
  <2>1. Occurrences(ordering_', b) \in Nat
    BY <1>1, <1>3, FiniteDomain, Counted
  <2>2. Occurrences(to_read_', b) = Occurrences(to_read_, b) + (IF h = b THEN 1 ELSE 0)
    BY <1>1, <1>2, <1>3, CountAppend
  <2> QED
    BY <2>1, <2>2, <1>1, <1>4
<1>9. \A b \in Batches :
           /\ Occurrences(local_read_, b) + Occurrences(filter_, b) + Occurrences(hand, b)
                + Occurrences(output_, b) + Occurrences(ordering_', b)
                + Occurrences(to_read_', b) = 1
           /\ InFlight(b)' => InFlight(b) /\ b # h
  <2> TAKE b \in Batches
  <2>1. Occurrences(local_read_, b) + Occurrences(filter_, b) + Occurrences(hand, b)
          + Occurrences(output_, b) + Occurrences(ordering_, b) + Occurrences(to_read_, b) = 1
    BY DEF Inv, BatchInOnePlace
  <2>2. /\ Occurrences(local_read_, b) \in Nat /\ Occurrences(output_, b) \in Nat
        /\ Occurrences(ordering_, b) \in Nat /\ Occurrences(to_read_, b) \in Nat
        /\ Occurrences(filter_, b) \in Nat /\ Occurrences(hand, b) \in Nat
    BY Places DEF Inv
  <2>3. InFlight(b)' <=> Occurrences(filter_, b) + Occurrences(hand, b)
                          + Occurrences(output_, b) + Occurrences(ordering_', b) > 0
    BY <1>1 DEF InFlight
  <2>4. /\ Occurrences(ordering_', b) \in Nat
        /\ Occurrences(ordering_, b) = Occurrences(ordering_', b) + (IF h = b THEN 1 ELSE 0)
        /\ Occurrences(to_read_', b) = Occurrences(to_read_, b) + (IF h = b THEN 1 ELSE 0)
    BY <1>8
  <2> QED
    BY <2>1, <2>2, <2>3, <2>4 DEF InFlight
<1>10. BatchInOnePlace'
  BY <1>1, <1>9 DEF BatchInOnePlace
<1>11. InFlight(h)
  <2>1. Occurrences(ordering_, h) > 0
    BY <1>3, <1>8
  <2> QED
    BY <2>1, <1>3, Places DEF Inv, InFlight
<1>12. Numbered'
  <2> DEFINE g == Given
  <2>1. g \in Int /\ base_sequence_ \in Nat /\ Given' = g
    BY <1>1 DEF Given, Inv, TypeOK, Filling
  <2>2. \A b \in Batches : InFlight(b) => batches[b].sequence \in base_sequence_..(g - 1)
    BY DEF Inv, Numbered
  <2> HIDE DEF g
  <2>3. base_sequence_ + 1 <= g
    <3>1. base_sequence_ \in base_sequence_..(g - 1)
      BY <2>2, <1>3, <1>5, <1>11
    <3> QED
      BY <2>1, <3>1
  <2>4. ASSUME NEW b \in Batches, InFlight(b)'
        PROVE  batches'[b].sequence \in (base_sequence_ + 1)..(g - 1)
    <3>1. InFlight(b) /\ b # h /\ batches'[b].sequence = batches[b].sequence
      BY <2>4, <1>6, <1>9 DEF SameNumbers
    <3>2. batches[b].sequence \in base_sequence_..(g - 1)
      BY <2>2, <3>1
    <3>3. batches[b].sequence # base_sequence_
      BY <3>1, <1>3, <1>5, <1>11 DEF Inv, Numbered
    <3> QED
      BY <3>1, <3>2, <3>3, <2>1
  <2>5. ASSUME NEW b \in Batches, NEW c \in Batches, InFlight(b)', InFlight(c)', b # c
        PROVE  batches'[b].sequence # batches'[c].sequence
    BY <2>5, <1>6, <1>9 DEF SameNumbers, Inv, Numbered
  <2> QED
    BY <2>1, <2>3, <2>4, <2>5, <1>1 DEF Numbered
<1>13. Ordered'
  <2> SUFFICES ASSUME NEW i \in 1..Len(ordering_'), ordering_'[i] # NULL
      PROVE  batches'[ordering_'[i]].sequence = (base_sequence_ + 1) + i - 1
    BY <1>1 DEF Ordered
  <2>1. /\ i \in Nat /\ i + 1 \in 1..Len(ordering_)
        /\ ordering_'[i] = ordering_[i + 1]
    BY <1>1, <1>3
  <2>2. ordering_'[i] \in Batches
    BY <2>1, <1>2
  <2>3. batches[ordering_'[i]].sequence = base_sequence_ + (i + 1) - 1
    BY <2>1 DEF Inv, Ordered
  <2>4. batches'[ordering_'[i]].sequence = base_sequence_ + (i + 1) - 1
    BY <2>2, <2>3, <1>6 DEF SameNumbers
  <2>5. base_sequence_ \in Nat
    BY DEF Inv, TypeOK
  <2> QED
    BY <2>1, <2>4, <2>5
<1>14. Reading'
  <2> SUFFICES ASSUME Filling
      PROVE  /\ local_read_ # <<>>
             /\ batches'[Last(local_read_)].sequence = sequence_ - 1
    BY <1>1 DEF Reading, Filling
  <2>1. local_read_ # <<>> /\ batches[Last(local_read_)].sequence = sequence_ - 1
    BY DEF Inv, Reading
  <2>2. Last(local_read_) \in Batches
    BY <2>1, CountFront DEF Inv, TypeOK
  <2> QED
    BY <2>1, <2>2, <1>6 DEF SameNumbers
<1> QED
  BY <1>7, <1>10, <1>12, <1>13, <1>14 DEF Inv

-----------------------------------------------------------------------------

\* Init => Inv: the reader has all batches.
LEMMA InitInv ==
    ASSUME Init
    PROVE  Inv
<1>1. /\ Filling /\ sequence_ = 1 /\ base_sequence_ = 0
      /\ to_read_ = <<>> /\ filter_ = <<>> /\ output_ = <<>> /\ ordering_ = <<>>
      /\ local_read_ = [i \in Batches |-> i] /\ hand = [w \in Workers |-> NULL]
      /\ batches = [b \in Batches |-> EmptyBatch]
  BY DEF Init, Filling
<1>2. Queue \in Nat \ {0}
  <2>1. Cardinality(Workers) \in Nat /\ Cardinality(Workers) # 0
    BY PoolAssumption, FS_CardinalityType, FS_EmptySet
  <2> QED
    BY <2>1, QueueAssumption
<1>3. /\ local_read_ \in Seq(Batches) /\ Len(local_read_) = Queue /\ local_read_ # <<>>
      /\ DOMAIN local_read_ = Batches /\ \A b \in Batches : local_read_[b] = b
  BY <1>1, <1>2 DEF Batches
<1>4. TypeOK
  <2>1. BatchesOK
    BY <1>1 DEF BatchesOK, EmptyBatch
  <2> QED
    BY <1>1, <1>3, <2>1 DEF TypeOK
<1>5. Reading
  <2>1. Last(local_read_) \in Batches
    BY <1>3, CountFront
  <2> QED
    BY <1>1, <1>3, <2>1 DEF Reading, EmptyBatch
<1>6. \A b \in Batches : /\ Occurrences(filter_, b) = 0 /\ Occurrences(output_, b) = 0
                         /\ Occurrences(ordering_, b) = 0 /\ Occurrences(to_read_, b) = 0
  <2>1. \A b \in Batches : Occurrences(<<>>, b) = 0
    <3>1. \A b : {i \in DOMAIN <<>> : <<>>[i] = b} = {}
      OBVIOUS
    <3> QED
      BY <3>1, FS_EmptySet DEF Occurrences
  <2> QED
    BY <1>1, <2>1
<1>7. \A b \in Batches : Occurrences(hand, b) = 0
  <2>1. \A b \in Batches : {w \in DOMAIN hand : hand[w] = b} = {}
    BY <1>1 DEF Batches, NULL
  <2> QED
    BY <2>1, FS_EmptySet DEF Occurrences
<1>8. \A b \in Batches : Occurrences(local_read_, b) = 1
  <2>1. \A b \in Batches : {i \in DOMAIN local_read_ : local_read_[i] = b} = {b}
    BY <1>3
  <2> QED
    BY <2>1, FS_Singleton DEF Occurrences
<1>9. BatchInOnePlace
  BY <1>6, <1>7, <1>8 DEF BatchInOnePlace
<1>10. \A b \in Batches : ~InFlight(b)
  BY <1>6, <1>7 DEF InFlight
<1>11. Numbered
  BY <1>1, <1>10 DEF Numbered, Given
<1>12. Ordered
  BY <1>1 DEF Ordered
<1> QED
  BY <1>4, <1>5, <1>9, <1>11, <1>12 DEF Inv
\* The steps that leave every batch where it is, besides the reader's.
LEMMA EndInv ==
    ASSUME Inv, EndOfFile \/ Destroyed \/ UNCHANGED vars
    PROVE  Inv'
<1>1. /\ UNCHANGED <<batches, local_read_, to_read_, filter_, output_, hand, ordering_,
                     base_sequence_, sequence_>>
      /\ Filling' => Filling
  BY DEF EndOfFile, Destroyed, vars, reader, Filling
<1>2. BatchesOK' /\ SameNumbers
  BY <1>1 DEF Inv, TypeOK, BatchesOK, SameNumbers
<1> QED
  BY <1>1, <1>2, Stay

\* Inv /\ [Next]_vars => Inv'
LEMMA NextInv ==
    ASSUME Inv, [Next]_vars
    PROVE  Inv'
<1>1. CASE Reader
  BY <1>1, AddNGramInv, BeginFlushInv, MoveReadInv, NewInputInv, PoisonFilterInv,
     PoisonOutputInv, EndInv DEF Reader
<1>2. CASE Writer
  BY <1>2, ArrangeInv, WriteFrontInv, WriterLeavesInv DEF Writer
<1>3. CASE \E w \in Workers : Take(w) \/ Filter(w)
  BY <1>3, TakeInv, FilterInv
<1>4. CASE UNCHANGED vars
  BY <1>4, EndInv
<1> QED
  BY <1>1, <1>2, <1>3, <1>4 DEF Next

LEMMA Invariance == Spec => []Inv
<1>1. Init => Inv
  BY InitInv
<1>2. Inv /\ [Next]_vars => Inv'
  BY NextInv
<1> QED
  BY <1>1, <1>2, PTL DEF Spec

\* Whatever the threads do, no two of them have the same batch, and none is lost: each is on the
\* reader's stack, in one of the queues, in the hand of one worker, or at one place of the output
\* worker's ordering.
THEOREM OnePlace == Spec => []BatchInOnePlace
<1>1. Inv => BatchInOnePlace
  BY DEF Inv
<1> QED
  BY <1>1, Invariance, PTL

\* What the output worker relies on: the batches that wait for their turn wait in the order of
\* their numbers, from base_sequence_ on, and no batch still to come has the number of another.
THEOREM TurnsKept == Spec => [](Numbered /\ Ordered)
<1>1. Inv => Numbered /\ Ordered
  BY DEF Inv
<1> QED
  BY <1>1, Invariance, PTL

\* Flush has waited until the reader has every batch: when EndLength writes the end of a section,
\* from the reading thread, no other thread has a batch that it could write at the same time.
EndOfSectionAlone ==
    main = "flushing" /\ ~Short =>
        \A b \in Batches : Occurrences(local_read_, b) = 1 /\ ~InFlight(b)

\* As many places on the stack as there are batches, none twice, leave none out.
LEMMA AllReturned ==
    ASSUME Inv
    PROVE  EndOfSectionAlone
<1> SUFFICES ASSUME main = "flushing", ~Short, NEW b \in Batches
    PROVE  Occurrences(local_read_, b) = 1 /\ ~InFlight(b)
  BY DEF EndOfSectionAlone
<1> DEFINE D == 1..Len(local_read_)
<1>1. /\ local_read_ \in Seq(Batches) /\ local_read_ \in [D -> Batches]
      /\ Len(local_read_) \in Nat /\ DOMAIN local_read_ = D
  BY DEF Inv, TypeOK
<1>2. Queue \in Nat \ {0} /\ Len(local_read_) >= Queue
  <2>1. Cardinality(Workers) \in Nat /\ Cardinality(Workers) # 0
    BY PoolAssumption, FS_CardinalityType, FS_EmptySet
  <2>2. Queue \in Nat \ {0}
    BY <2>1, QueueAssumption
  <2>3. ~(Len(local_read_) < Queue)
    BY DEF Short
  <2> QED
    BY <2>2, <2>3, <1>1
<1>3. \A i, j \in D : local_read_[i] = local_read_[j] => i = j
  <2> SUFFICES ASSUME NEW i \in D, NEW j \in D, local_read_[i] = local_read_[j], i # j
      PROVE  FALSE
    OBVIOUS
  <2> DEFINE c == local_read_[i]
             P == {k \in DOMAIN local_read_ : local_read_[k] = c}
  <2>1. c \in Batches /\ {i, j} \in SUBSET P
    BY <1>1
  <2>2. Occurrences(local_read_, c) <= 1
    BY <2>1, NotInFlight DEF Inv
  <2>3. IsFiniteSet(P) /\ Cardinality(P) = Occurrences(local_read_, c)
    <3>1. IsFiniteSet(DOMAIN local_read_)
      BY <1>1, FS_Interval
    <3>2. IsFiniteSet(P)
      <4>1. P \subseteq DOMAIN local_read_
        OBVIOUS
      <4> HIDE DEF P
      <4> QED
        BY <3>1, <4>1, FS_Subset
    <3>3. Cardinality(P) = Occurrences(local_read_, c)
      BY DEF Occurrences
    <3> QED
      BY <3>2, <3>3
  <2> HIDE DEF P, c
  <2>4. Cardinality({i, j}) = 2
    <3>1. IsFiniteSet({i}) /\ Cardinality({i}) = 1
      BY FS_Singleton
    <3>2. Cardinality({i} \cup {j}) = 2
      <4> DEFINE one == {i}
      <4>1. j \notin one /\ IsFiniteSet(one) /\ Cardinality(one) = 1
        BY <3>1
      <4> HIDE DEF one
      <4>2. Cardinality(one \cup {j}) = Cardinality(one) + 1
        BY <4>1, FS_AddElement
      <4>3. Cardinality(one \cup {j}) = 2
        BY <4>1, <4>2
      <4> QED
        BY <4>3 DEF one
    <3>3. {i, j} = {i} \cup {j}
      OBVIOUS
    <3> QED
      BY <3>2, <3>3
  <2>5. Cardinality({i, j}) <= Cardinality(P)
    BY <2>1, <2>3, FS_Subset
  <2>6. Cardinality(P) \in Nat
    BY <2>3, FS_CardinalityType
  <2> QED
    BY <2>2, <2>3, <2>4, <2>5, <2>6
<1>4. local_read_ \in Injection(D, Batches)
  BY <1>1, <1>3 DEF Injection, IsInjective
<1>5. /\ Cardinality(D) = Len(local_read_) /\ IsFiniteSet(Batches)
      /\ Cardinality(Batches) = Queue
  <2>1. Cardinality(D) = Len(local_read_)
    <3> DEFINE n == Len(local_read_)
    <3>1. n \in Nat
      BY <1>1
    <3> HIDE DEF n
    <3>2. Cardinality(1..n) = n
      BY <3>1, FS_Interval
    <3> QED
      BY <3>2 DEF n
  <2>2. IsFiniteSet(1..Queue) /\ Cardinality(1..Queue) = Queue
    BY ONLY <1>2, FS_Interval
  <2> QED
    BY <2>1, <2>2 DEF Batches
<1>6. Cardinality(D) <= Cardinality(Batches)
  BY <1>4, <1>5, FS_Injection
<1>7. Cardinality(D) = Cardinality(Batches)
  BY <1>1, <1>2, <1>5, <1>6
<1>8. local_read_ \in Surjection(D, Batches)
  BY <1>4, <1>5, <1>7, FS_Injection
<1>9. \E i \in D : local_read_[i] = b
  BY <1>8 DEF Surjection
<1>10. Occurrences(local_read_, b) > 0
  BY <1>1, <1>9, FiniteDomain, Counted
<1>11. ~InFlight(b) /\ Occurrences(local_read_, b) <= 1
  BY <1>10, NotInFlight DEF Inv
<1>12. Occurrences(local_read_, b) \in Nat
  BY Places DEF Inv
<1> QED
  BY <1>10, <1>11, <1>12

THEOREM SectionEndsAlone == Spec => []EndOfSectionAlone
<1>1. Inv => EndOfSectionAlone
  BY AllReturned
<1> QED
  BY <1>1, Invariance, PTL
-----------------------------------------------------------------------------
\* Sequences of line numbers.

Elements(q) == {q[i] : i \in 1..Len(q)}
Ascending(q) == \A i, j \in 1..Len(q) : i < j => q[i] < q[j]

\* A later line at the end.
LEMMA AppendAscends ==
    ASSUME NEW q \in Seq(Nat), NEW x \in Nat
    PROVE  /\ Append(q, x) \in Seq(Nat) /\ Elements(Append(q, x)) = Elements(q) \cup {x}
           /\ Ascending(q) /\ (\A y \in Elements(q) : y < x) => Ascending(Append(q, x))
<1> DEFINE g == Append(q, x)
           n == Len(q)
<1>1. /\ g \in Seq(Nat) /\ Len(g) = n + 1 /\ n \in Nat
      /\ \A i \in 1..n : g[i] = q[i]
      /\ g[n + 1] = x
  OBVIOUS
<1> HIDE DEF g, n
<1>2. Elements(g) = Elements(q) \cup {x}
  BY <1>1 DEF Elements, n
<1>3. ASSUME Ascending(q), \A y \in Elements(q) : y < x
      PROVE  Ascending(g)
  <2> SUFFICES ASSUME NEW i \in 1..(n + 1), NEW j \in 1..(n + 1), i < j
      PROVE  g[i] < g[j]
    BY <1>1 DEF Ascending
  <2>1. i \in 1..n /\ g[i] = q[i]
    BY <1>1
  <2>2. CASE j = n + 1
    BY <2>1, <2>2, <1>1, <1>3 DEF Elements, n
  <2>3. CASE j # n + 1
    <3>1. j \in 1..n /\ g[j] = q[j]
      BY <2>3, <1>1
    <3> QED
      BY <2>1, <3>1, <1>3 DEF Ascending, n
  <2> QED
    BY <2>2, <2>3
<1> QED
  BY <1>1, <1>2, <1>3 DEF g

\* Later lines at the end.
LEMMA ConcatAscends ==
    ASSUME NEW p \in Seq(Nat), NEW q \in Seq(Nat)
    PROVE  /\ p \o q \in Seq(Nat) /\ Elements(p \o q) = Elements(p) \cup Elements(q)
           /\ /\ Ascending(p) /\ Ascending(q)
              /\ \A x \in Elements(p), y \in Elements(q) : x < y
              => Ascending(p \o q)
<1> DEFINE g == p \o q
           m == Len(p)
           n == Len(q)
<1>1. /\ g \in Seq(Nat) /\ Len(g) = m + n /\ m \in Nat /\ n \in Nat
      /\ \A i \in 1..m : g[i] = p[i]
      /\ \A i \in (m + 1)..(m + n) : g[i] = q[i - m]
  OBVIOUS
<1> HIDE DEF g, m, n
<1>2. Elements(g) = Elements(p) \cup Elements(q)
  <2>1. ASSUME NEW i \in 1..Len(g)
        PROVE  g[i] \in Elements(p) \cup Elements(q)
    <3>1. CASE i <= m
      <4>1. i \in 1..m /\ g[i] = p[i]
        BY <3>1, <1>1
      <4>2. p[i] \in Elements(p)
        BY <4>1, Zenon DEF Elements, m
      <4> QED
        BY <4>1, <4>2
    <3>2. CASE i > m
      <4>1. i - m \in 1..n /\ g[i] = q[i - m]
        BY <3>2, <1>1
      <4> QED
        BY <4>1 DEF Elements, m, n
    <3> QED
      BY <3>1, <3>2, <1>1
  <2>2. ASSUME NEW i \in 1..m
        PROVE  p[i] \in Elements(g)
    <3>1. i \in 1..Len(g) /\ g[i] = p[i]
      BY <1>1
    <3> QED
      BY <3>1 DEF Elements, m, n
  <2>3. ASSUME NEW i \in 1..n
        PROVE  q[i] \in Elements(g)
    <3>1. m + i \in (m + 1)..(m + n) /\ m + i \in 1..Len(g) /\ (m + i) - m = i
      BY <1>1
    <3>2. g[m + i] = q[i]
      BY <3>1, <1>1
    <3> QED
      BY <3>1, <3>2 DEF Elements, m, n
  <2> QED
    BY <2>1, <2>2, <2>3 DEF Elements, m, n
<1>3. ASSUME Ascending(p), Ascending(q), \A x \in Elements(p), y \in Elements(q) : x < y
      PROVE  Ascending(g)
  <2> SUFFICES ASSUME NEW i \in 1..Len(g), NEW j \in 1..Len(g), i < j
      PROVE  g[i] < g[j]
    BY DEF Ascending
  <2>1. CASE j <= m
    <3>1. i \in 1..m /\ j \in 1..m
      BY <2>1, <1>1
    <3> QED
      BY <3>1, <1>1, <1>3 DEF Ascending, m, n
  <2>2. CASE i <= m /\ j > m
    <3>1. /\ i \in 1..m /\ g[i] = p[i]
          /\ j - m \in 1..n /\ g[j] = q[j - m]
      BY <2>2, <1>1
    <3>2. g[i] \in Elements(p) /\ g[j] \in Elements(q)
      BY <3>1 DEF Elements, m, n
    <3> QED
      BY <3>2, <1>3
  <2>3. CASE i > m
    <3>1. /\ i - m \in 1..n /\ g[i] = q[i - m]
          /\ j - m \in 1..n /\ g[j] = q[j - m] /\ i - m < j - m
      <4>1. i \in (m + 1)..(m + n) /\ j \in (m + 1)..(m + n)
        BY <2>3, <1>1
      <4>2. g[i] = q[i - m] /\ g[j] = q[j - m]
        BY <4>1, <1>1
      <4>3. i - m \in 1..n /\ j - m \in 1..n /\ i - m < j - m
        BY <4>1, <1>1
      <4> QED
        BY <4>2, <4>3
    <3> QED
      BY <3>1, <1>3 DEF Ascending, m, n
  <2> QED
    BY <2>1, <2>2, <2>3, <1>1
<1> QED
  BY <1>1, <1>2, <1>3 DEF g
\* A set of numbers that is not empty has a least one ...
LEMMA Least ==
    ASSUME NEW S, S \subseteq Nat, S # {}
    PROVE  \E m \in S : \A k \in S : m <= k
<1>1. IsWellFoundedOn(OpToRel(<, Nat), Nat)
  BY NatLessThanWellFounded, Zenon
<1>2. PICK m \in S : \A k \in S : ~(<<k, m>> \in OpToRel(<, Nat))
  BY <1>1, WFMin, Zenon
<1>3. \A k \in S : <<k, m>> \in Nat \X Nat
  BY Zenon
<1>4. \A k \in S : ~(k < m)
  BY <1>2, <1>3, Zenon DEF OpToRel
<1> QED
  BY <1>4

\* ... so that a set with 0 and, with each number, the next one, has them all.
LEMMA Induction ==
    ASSUME NEW S, 0 \in S, \A n \in Nat : n \in S => n + 1 \in S
    PROVE  \A n \in Nat : n \in S
<1> SUFFICES ASSUME NEW n \in Nat, n \notin S
    PROVE  FALSE
  OBVIOUS
<1> DEFINE Rest == Nat \ S
<1>1. PICK m \in Rest : \A k \in Rest : m <= k
  <2>1. Rest \subseteq Nat /\ Rest # {}
    OBVIOUS
  <2> QED
    BY <2>1, Least, Zenon
<1>2. m - 1 \in Nat /\ (m - 1) + 1 = m /\ ~(m <= m - 1)
  BY <1>1
<1> QED
  BY <1>1, <1>2

\* Two sequences in ascending order: the one whose lines are the first ones of the other is a
\* prefix of it.
LEMMA PrefixByElements ==
    ASSUME NEW p \in Seq(Nat), NEW q \in Seq(Nat), Ascending(p), Ascending(q),
           Elements(p) \subseteq Elements(q),
           \A x \in Elements(p), y \in Elements(q) : y < x => y \in Elements(p)
    PROVE  IsPrefix(p, q)
<1> DEFINE m == Len(p)
           n == Len(q)
           S == {k \in Nat : \A i \in 1..k : i <= m => i <= n /\ p[i] = q[i]}
<1>1. /\ m \in Nat /\ n \in Nat
      /\ \A i \in 1..m : p[i] \in Nat /\ p[i] \in Elements(p)
      /\ \A i \in 1..n : q[i] \in Nat /\ q[i] \in Elements(q)
      /\ \A x \in Elements(p) : \E i \in 1..m : p[i] = x
      /\ \A x \in Elements(q) : \E i \in 1..n : q[i] = x
      /\ \A i, j \in 1..m : i < j => p[i] < p[j]
      /\ \A i, j \in 1..n : i < j => q[i] < q[j]
  BY DEF Elements, Ascending
<1> HIDE DEF m, n
<1>2. 0 \in S
  OBVIOUS
<1>3. ASSUME NEW k \in Nat, k \in S
      PROVE  k + 1 \in S
  <2>1. \A i \in 1..k : i <= m => i <= n /\ p[i] = q[i]
    BY <1>3
  <2> HIDE DEF S
  <2>2. ASSUME k + 1 <= m
        PROVE  k + 1 <= n /\ p[k + 1] = q[k + 1]
    <3>1. k + 1 \in 1..m
      BY <2>2, <1>1
    <3>2. PICK j \in 1..n : q[j] = p[k + 1]
      BY <3>1, <1>1
    <3>3. \A i \in 1..k : i \in 1..m /\ i \in 1..n /\ p[i] = q[i] /\ p[i] < p[k + 1]
      BY <2>1, <2>2, <3>1, <1>1
    <3>4. k + 1 <= j
      <4> SUFFICES ASSUME j \in 1..k
          PROVE  FALSE
        BY <3>2, <1>1
      <4> QED
        BY <3>2, <3>3, <1>1
    <3>5. k + 1 \in 1..n
      BY <3>2, <3>4, <1>1
    <3>6. j = k + 1
      <4> SUFFICES ASSUME k + 1 < j
          PROVE  FALSE
        BY <3>2, <3>4, <1>1
      <4>1. q[k + 1] < p[k + 1]
        BY <3>2, <3>5, <1>1
      <4>2. q[k + 1] \in Elements(p)
        BY <4>1, <3>1, <3>5, <1>1
      <4>3. PICK i \in 1..m : p[i] = q[k + 1]
        BY <4>2, <1>1
      <4>4. i \in 1..k
        <5> SUFFICES ASSUME k + 1 <= i
            PROVE  FALSE
          BY <4>3, <1>1
        <5>1. k + 1 < i => p[k + 1] < p[i]
          BY <3>1, <4>3, <1>1
        <5>2. p[k + 1] <= p[i]
          BY <5>1, <3>1, <4>3, <1>1
        <5> QED
          BY <5>2, <4>1, <4>3, <3>1, <3>5, <1>1
      <4>5. q[i] < q[k + 1] /\ q[i] = q[k + 1]
        BY <4>3, <4>4, <3>3, <3>5, <1>1
      <4> QED
        BY <4>5, <3>5, <1>1
    <3> QED
      BY <3>2, <3>5, <3>6, <1>1
  <2>3. \A i \in 1..(k + 1) : i <= m => i <= n /\ p[i] = q[i]
    BY <2>1, <2>2
  <2> QED
    BY <2>3 DEF S
<1>4. m \in S
  <2> HIDE DEF S
  <2> QED
    BY <1>1, <1>2, <1>3, Induction
<1>5. m <= n /\ \A i \in 1..m : p[i] = q[i]
  <2>1. \A i \in 1..m : i <= m => i <= n /\ p[i] = q[i]
    BY <1>4
  <2> HIDE DEF S
  <2>2. \A i \in 1..m : i <= m
    BY <1>1
  <2>3. m # 0 => m \in 1..m
    BY <1>1
  <2>4. m # 0 => m <= n
    BY <2>1, <2>2, <2>3
  <2>5. m <= n
    BY <2>4, <1>1
  <2> QED
    BY <2>1, <2>2, <2>5
<1>6. /\ SubSeq(p, 1, m) \in Seq(Nat) /\ Len(SubSeq(p, 1, m)) = m
      /\ \A i \in 1..m : SubSeq(p, 1, m)[i] = p[i]
  BY <1>1, SubSeqProperties DEF m
<1>7. /\ SubSeq(q, 1, m) \in Seq(Nat) /\ Len(SubSeq(q, 1, m)) = m
      /\ \A i \in 1..m : SubSeq(q, 1, m)[i] = q[i]
  BY <1>1, <1>5, SubSeqProperties DEF n
<1>8. SubSeq(p, 1, m) = SubSeq(q, 1, m)
  <2> DEFINE u == SubSeq(p, 1, m)
             v == SubSeq(q, 1, m)
  <2>1. /\ u \in Seq(Nat) /\ v \in Seq(Nat) /\ Len(u) = Len(v)
        /\ \A i \in 1..Len(u) : u[i] = v[i]
    BY <1>5, <1>6, <1>7
  <2> HIDE DEF u, v
  <2>2. u = v
    BY <2>1, SeqEqual
  <2> QED
    BY <2>2 DEF u, v
<1> QED
  BY <1>5, <1>8 DEF IsPrefix, m, n
\* The steps of Selected: s[n] are the lines kept of the first n.
Selection(s, lines, keep, n) ==
    s = [k \in 0..n |-> IF k = 0 THEN <<>>
                        ELSE IF lines[k] \in keep THEN Append(s[k - 1], lines[k])
                        ELSE s[k - 1]]

\* Each step needs the one before only, so that there is such a function.
LEMMA SelectionExists ==
    ASSUME NEW lines, NEW keep, NEW n \in Nat
    PROVE  \E s : Selection(s, lines, keep, n)
<1> DEFINE Step(s, k) == IF k = 0 THEN <<>>
                         ELSE IF lines[k] \in keep THEN Append(s[k - 1], lines[k])
                         ELSE s[k - 1]
           S == {k \in Nat : \E s : s = [i \in 0..k |-> Step(s, i)]}
<1>1. 0 \in S
  <2> DEFINE s == [i \in 0..0 |-> <<>>]
  <2>1. s = [i \in 0..0 |-> Step(s, i)]
    OBVIOUS
  <2> HIDE DEF s
  <2>2. \E r : r = [i \in 0..0 |-> Step(r, i)]
    BY <2>1, Zenon
  <2> QED
    BY <2>2
<1>2. ASSUME NEW k \in Nat, k \in S
      PROVE  k + 1 \in S
  <2>1. PICK s : s = [i \in 0..k |-> Step(s, i)]
    BY <1>2, Zenon
  <2> DEFINE r == [i \in 0..(k + 1) |-> Step(s, i)]
  <2>2. \A i \in 0..k : i \in 0..(k + 1) /\ s[i] = Step(s, i)
    <3>1. \A i \in 0..k : s[i] = Step(s, i)
      BY <2>1, Zenon
    <3>2. \A i \in 0..k : i \in 0..(k + 1)
      OBVIOUS
    <3> QED
      BY <3>1, <3>2, Zenon
  <2>3. \A i \in 0..k : r[i] = s[i]
    BY <2>2, Zenon
  <2>4. \A i \in 0..(k + 1) : i = 0 \/ i - 1 \in 0..k
    OBVIOUS
  <2>5. ASSUME NEW i \in 0..(k + 1)
        PROVE  Step(r, i) = Step(s, i)
    <3> HIDE DEF r
    <3>1. i # 0 => r[i - 1] = s[i - 1]
      BY <2>3, <2>4
    <3> QED
      BY <3>1
  <2>6. r = [i \in 0..(k + 1) |-> Step(r, i)]
    <3> HIDE DEF Step
    <3> QED
      BY <2>5
  <2> HIDE DEF r
  <2>7. \E f : f = [i \in 0..(k + 1) |-> Step(f, i)]
    BY <2>6, Zenon
  <2>8. k + 1 \in Nat
    OBVIOUS
  <2> QED
    BY <2>7, <2>8, Zenon
<1>3. n \in S
  <2> HIDE DEF S
  <2> QED
    BY <1>1, <1>2, Induction
<1> QED
  BY <1>3, Zenon DEF Selection

\* Selected returns the last step.
LEMMA SelectedIsLast ==
    ASSUME NEW lines, NEW keep, Len(lines) \in Nat
    PROVE  \E s : Selection(s, lines, keep, Len(lines)) /\ Selected(lines, keep) = s[Len(lines)]
<1> DEFINE N == Len(lines)
           select == CHOOSE s : s = [n \in 0..N |-> IF n = 0 THEN <<>>
                         ELSE IF lines[n] \in keep THEN Append(s[n - 1], lines[n])
                         ELSE s[n - 1]]
<1>1. \E s : s = [n \in 0..N |-> IF n = 0 THEN <<>>
                         ELSE IF lines[n] \in keep THEN Append(s[n - 1], lines[n])
                         ELSE s[n - 1]]
  <2>1. PICK s : Selection(s, lines, keep, N)
    BY SelectionExists
  <2> QED
    BY <2>1, Zenon DEF Selection
<1>2. Selection(select, lines, keep, N)
  BY <1>1, Zenon DEF Selection
<1>3. Selected(lines, keep) = select[N]
  BY Zenon DEF Selected
<1> QED
  BY <1>2, <1>3, Zenon

\* Selecting from lines in order gives those that are kept, in order.
LEMMA SelectedLines ==
    ASSUME NEW lines \in Seq(Nat), Ascending(lines), NEW keep
    PROVE  /\ Selected(lines, keep) \in Seq(Nat) /\ Ascending(Selected(lines, keep))
           /\ Elements(Selected(lines, keep)) = Elements(lines) \cap keep
<1> DEFINE N == Len(lines)
           First(k) == {lines[i] : i \in 1..k}
<1>1. N \in Nat /\ \A i \in 1..N : lines[i] \in Nat
  OBVIOUS
<1>2. PICK s : Selection(s, lines, keep, N) /\ Selected(lines, keep) = s[N]
  BY <1>1, SelectedIsLast, Zenon
<1>3. \A k \in 0..N : s[k] = IF k = 0 THEN <<>>
                             ELSE IF lines[k] \in keep THEN Append(s[k - 1], lines[k])
                             ELSE s[k - 1]
  BY <1>2, Zenon DEF Selection
<1> DEFINE Good(k) == /\ s[k] \in Seq(Nat) /\ Ascending(s[k])
                      /\ Elements(s[k]) = First(k) \cap keep
           S == {k \in Nat : k <= N => Good(k)}
<1> HIDE DEF N
<1>4. 0 \in S
  <2>1. s[0] = <<>>
    BY <1>1, <1>3
  <2>2. <<>> \in Seq(Nat) /\ Ascending(<<>>) /\ Elements(<<>>) = {}
    BY DEF Ascending, Elements
  <2>3. First(0) = {}
    OBVIOUS
  <2> QED
    BY <2>1, <2>2, <2>3
<1>5. ASSUME NEW k \in Nat, k \in S
      PROVE  k + 1 \in S
  <2> SUFFICES ASSUME k + 1 <= N
      PROVE  Good(k + 1)
    OBVIOUS
  <2> DEFINE x == lines[k + 1]
  <2>1. k + 1 \in 0..N /\ k + 1 # 0 /\ (k + 1) - 1 = k /\ k + 1 \in 1..N
    BY <1>1
  <2>2. Good(k)
    BY <1>1, <1>5
  <2>3. x \in Nat /\ s[k + 1] = IF x \in keep THEN Append(s[k], x) ELSE s[k]
    BY <1>1, <1>3, <2>1
  <2>4. First(k + 1) = First(k) \cup {x}
    OBVIOUS
  <2>5. \A y \in First(k) : y < x
    <3>1. \A i \in 1..k : i \in 1..N /\ i < k + 1
      BY <1>1
    <3> QED
      BY <2>1, <3>1 DEF Ascending, N
  <2> HIDE DEF First, x
  <2>6. CASE x \in keep
    <3>1. \A y \in Elements(s[k]) : y < x
      BY <2>2, <2>5
    <3>2. /\ Append(s[k], x) \in Seq(Nat) /\ Ascending(Append(s[k], x))
          /\ Elements(Append(s[k], x)) = Elements(s[k]) \cup {x}
      BY <2>2, <2>3, <3>1, AppendAscends
    <3> QED
      BY <2>2, <2>3, <2>4, <2>6, <3>2
  <2>7. CASE x \notin keep
    BY <2>2, <2>3, <2>4, <2>7
  <2> QED
    BY <2>6, <2>7
<1>6. N \in S
  <2> HIDE DEF S
  <2> QED
    BY <1>1, <1>4, <1>5, Induction
<1>7. Good(N) /\ First(N) = Elements(lines)
  BY <1>1, <1>6 DEF Elements, N
<1> QED
  BY <1>2, <1>7
-----------------------------------------------------------------------------
\* The lines on their way through the filter.

\* The batches that have lines to come: handed over, or being filled.
Busy(b) == InFlight(b) \/ (Filling /\ b = Last(local_read_))

\* The batches that a worker of the filter pool has passed on.
Filtered(b) == Occurrences(output_, b) + Occurrences(ordering_, b) > 0

LinesOK ==
    /\ in \in Seq({"ngram", "end"}) /\ read \in 0..Len(in) /\ written \in Seq(Nat)
    /\ \A b \in Batches : batches[b].input \in Seq(Nat) /\ batches[b].output \in Seq(Nat)
    /\ main = "flushing" => NextLineIs("end")

\* A batch holds n-grams that have been read, in their order, behind what has been written.
LinesToCome ==
    \A b \in Batches : Busy(b) =>
        /\ Ascending(batches[b].input)
        /\ \A y \in Elements(batches[b].input) : y \in 1..read /\ in[y] = "ngram"
        /\ \A x \in Elements(written), y \in Elements(batches[b].input) : x < y

\* Batches have the order of their numbers.
BatchesInOrder ==
    \A b, c \in Batches :
        Busy(b) /\ Busy(c) /\ batches[b].sequence < batches[c].sequence =>
            \A x \in Elements(batches[b].input), y \in Elements(batches[c].input) : x < y

\* The buffer of a batch is empty until it has been filtered, and then has the lines that pass.
OutputBuffers ==
    \A b \in Batches :
        /\ Filtered(b) => /\ Ascending(batches[b].output)
                          /\ Elements(batches[b].output) = Elements(batches[b].input) \cap Passes
        /\ ~Filtered(b) => batches[b].output = <<>>

\* What has been written is in order ...
WrittenSoFar ==
    Ascending(written) /\ \A x \in Elements(written) : x \in ToWrite /\ x <= read

\* ... and what is missing of the lines read is in a batch.
NothingLost ==
    \A y \in ToWrite : y <= read =>
        y \in Elements(written) \/ \E b \in Batches : Busy(b) /\ y \in Elements(batches[b].input)

LineInv ==
    LinesOK /\ LinesToCome /\ BatchesInOrder /\ OutputBuffers /\ WrittenSoFar /\ NothingLost

\* The batches that the reader has got back, and those that the filter pool works on.
Returned(b) == Occurrences(local_read_, b) + Occurrences(to_read_, b)
InPool(b) == Occurrences(filter_, b) + Occurrences(hand, b)

\* Who has a batch, by what the reader and the filter pool do not have.
Holders ==
    \A b \in Batches : /\ Returned(b) \in Nat /\ InPool(b) \in Nat
                       /\ InFlight(b) <=> Returned(b) = 0
                       /\ Filtered(b) <=> Returned(b) + InPool(b) = 0

LEMMA HoldersFound == Inv => Holders
<1> SUFFICES ASSUME Inv, NEW b \in Batches
    PROVE  /\ Returned(b) \in Nat /\ InPool(b) \in Nat
           /\ InFlight(b) <=> Returned(b) = 0
           /\ Filtered(b) <=> Returned(b) + InPool(b) = 0
  BY DEF Holders
<1>1. /\ Occurrences(local_read_, b) \in Nat /\ Occurrences(filter_, b) \in Nat
      /\ Occurrences(hand, b) \in Nat /\ Occurrences(output_, b) \in Nat
      /\ Occurrences(ordering_, b) \in Nat /\ Occurrences(to_read_, b) \in Nat
  BY Places DEF Inv
<1>2. Occurrences(local_read_, b) + Occurrences(filter_, b) + Occurrences(hand, b)
        + Occurrences(output_, b) + Occurrences(ordering_, b) + Occurrences(to_read_, b) = 1
  BY DEF Inv, BatchInOnePlace
<1> QED
  BY <1>1, <1>2 DEF Returned, InPool, InFlight, Filtered

LEMMA HoldersFoundThen == Inv' => Holders'
BY HoldersFound, PTL

\* No batch changes hands between the reader and the others, nor comes out of the filter pool.
LEMMA HoldersKept ==
    ASSUME Inv, Inv', \A b \in Batches : Returned(b)' = Returned(b),
           UNCHANGED <<filter_, hand>> \/ UNCHANGED <<output_, ordering_>>,
           Filling' <=> Filling, Filling => UNCHANGED local_read_
    PROVE  \A b \in Batches : (Busy(b)' <=> Busy(b)) /\ (Filtered(b)' <=> Filtered(b))
<1>1. Holders /\ Holders'
  BY HoldersFound, HoldersFoundThen
<1>2. \A b \in Batches : /\ InFlight(b) <=> Returned(b) = 0
                         /\ InFlight(b)' <=> Returned(b)' = 0
  BY <1>1 DEF Holders
<1>3. \A b \in Batches : Busy(b)' <=> Busy(b)
  BY <1>2 DEF Busy
<1>4. CASE UNCHANGED <<filter_, hand>>
  <2>1. \A b \in Batches : InPool(b)' = InPool(b)
    BY <1>4 DEF InPool
  <2>2. \A b \in Batches : /\ Filtered(b) <=> Returned(b) + InPool(b) = 0
                           /\ Filtered(b)' <=> Returned(b)' + InPool(b)' = 0
    BY <1>1 DEF Holders
  <2> QED
    BY <1>3, <2>1, <2>2
<1>5. CASE UNCHANGED <<output_, ordering_>>
  BY <1>3, <1>5 DEF Filtered
<1> QED
  BY <1>4, <1>5

\* The reader hands over the batch that it has filled.
LEMMA HoldersAtHandOver ==
    ASSUME Inv, Inv', Filling, ~Filling', FlushInput(Last(local_read_)),
           UNCHANGED <<to_read_, output_, ordering_>>
    PROVE  \A b \in Batches : (Busy(b)' <=> Busy(b)) /\ (Filtered(b)' <=> Filtered(b))
<1> DEFINE t == Last(local_read_)
<1>1. Holders /\ Holders'
  BY HoldersFound, HoldersFoundThen
<1>2. \A b \in Batches :
          Occurrences(local_read_, b) = Occurrences(local_read_', b) + (IF t = b THEN 1 ELSE 0)
  <2>1. local_read_ \in Seq(Batches) /\ local_read_ # <<>>
    BY DEF Inv, TypeOK, Reading
  <2>2. local_read_' = Front(local_read_)
    BY DEF FlushInput
  <2> QED
    BY <2>1, <2>2, CountFront
<1> HIDE DEF t
<1>3. TypeOK /\ TypeOK'
  BY DEF Inv
<1>4. \A b \in Batches : /\ Occurrences(local_read_', b) \in Nat
                         /\ Occurrences(to_read_, b) \in Nat
                         /\ Occurrences(local_read_, b) <= 1
  <2>1. \A b \in Batches : Occurrences(local_read_', b) \in Nat
    BY <1>3, FiniteDomain, Counted DEF TypeOK
  <2> QED
    BY <2>1, <1>3, Places, NotInFlight DEF Inv
<1>5. \A b \in Batches : /\ InFlight(b) <=> Returned(b) = 0
                         /\ InFlight(b)' <=> Returned(b)' = 0
  BY <1>1 DEF Holders
<1>6. ASSUME NEW b \in Batches
      PROVE  Busy(b)' <=> Busy(b)
  <2>1. /\ Returned(b) = Occurrences(local_read_, b) + Occurrences(to_read_, b)
        /\ Returned(b)' = Occurrences(local_read_', b) + Occurrences(to_read_, b)
    BY DEF Returned
  <2>2. (Busy(b)' <=> InFlight(b)') /\ (Busy(b) <=> InFlight(b) \/ b = t)
    BY DEF Busy, t
  <2>3. t = b => Returned(b)' = 0
    <3> SUFFICES ASSUME t = b
        PROVE  Returned(b)' = 0
      OBVIOUS
    <3>1. Occurrences(local_read_, b) = 1 /\ Occurrences(local_read_', b) = 0
      BY <1>2, <1>4
    <3>2. Occurrences(to_read_, b) = 0
      <4>1. Occurrences(local_read_, b) + Occurrences(filter_, b) + Occurrences(hand, b)
              + Occurrences(output_, b) + Occurrences(ordering_, b) + Occurrences(to_read_, b) = 1
        BY DEF Inv, BatchInOnePlace
      <4> QED
        BY <3>1, <4>1, <1>3, Places
    <3> QED
      BY <2>1, <3>1, <3>2
  <2>4. t # b => Returned(b)' = Returned(b)
    BY <2>1, <1>2, <1>4
  <2> QED
    BY <2>2, <2>3, <2>4, <1>5
<1>7. \A b \in Batches : Filtered(b)' <=> Filtered(b)
  BY DEF Filtered
<1> QED
  BY <1>6, <1>7

-----------------------------------------------------------------------------
\* Every step keeps the lines.

\* A step that reads, writes and filters nothing.  A batch without lines may leave the busy ones.
LEMMA QuietLines ==
    ASSUME LineInv, UNCHANGED <<in, read, written, batches>>,
           \A b \in Batches : /\ Busy(b)' => Busy(b)
                              /\ Busy(b) /\ batches[b].input # <<>> => Busy(b)'
                              /\ Filtered(b)' <=> Filtered(b),
           main' = "flushing" => NextLineIs("end")
    PROVE  LineInv'
<1>1. LinesOK'
  BY DEF LineInv, LinesOK, NextLineIs
<1>2. LinesToCome' /\ BatchesInOrder'
  BY DEF LineInv, LinesToCome, BatchesInOrder
<1>3. OutputBuffers'
  BY DEF LineInv, OutputBuffers
<1>4. WrittenSoFar'
  BY DEF LineInv, WrittenSoFar, ToWrite
<1>5. NothingLost'
  <2> SUFFICES ASSUME NEW y \in ToWrite, y <= read, y \notin Elements(written)
      PROVE  \E b \in Batches : Busy(b)' /\ y \in Elements(batches[b].input)
    BY DEF NothingLost, ToWrite
  <2>1. PICK b \in Batches : Busy(b) /\ y \in Elements(batches[b].input)
    BY DEF LineInv, NothingLost
  <2>2. batches[b].input # <<>>
    BY <2>1 DEF Elements
  <2> QED
    BY <2>1, <2>2
<1> QED
  BY <1>1, <1>2, <1>3, <1>4, <1>5 DEF LineInv

\* No batch changes hands between the reader and the others either.
LEMMA QuietStep ==
    ASSUME Inv, Inv', LineInv, UNCHANGED <<in, read, written, batches>>,
           \A b \in Batches : Returned(b)' = Returned(b),
           UNCHANGED <<filter_, hand>> \/ UNCHANGED <<output_, ordering_>>,
           Filling' <=> Filling, Filling => UNCHANGED local_read_,
           main' = "flushing" => main = "flushing"
    PROVE  LineInv'
<1>1. \A b \in Batches : (Busy(b)' <=> Busy(b)) /\ (Filtered(b)' <=> Filtered(b))
  BY HoldersKept
<1>2. main' = "flushing" => NextLineIs("end")
  BY DEF LineInv, LinesOK
<1> QED
  BY <1>1, <1>2, QuietLines

LEMMA BeginFlushLines ==
    ASSUME Inv, Inv', LineInv, BeginFlush
    PROVE  LineInv'
<1> DEFINE t == Last(local_read_)
<1>1. /\ Filling /\ ~Filling' /\ NextLineIs("end")
      /\ UNCHANGED <<in, read, written, batches, to_read_, hand, output_, ordering_>>
  BY DEF BeginFlush, Filling
<1>2. \/ batches[t].input = <<>> /\ UNCHANGED <<filter_, local_read_>>
      \/ FlushInput(t)
  BY DEF BeginFlush
<1>3. CASE FlushInput(t)
  <2>1. \A b \in Batches : (Busy(b)' <=> Busy(b)) /\ (Filtered(b)' <=> Filtered(b))
    BY <1>1, <1>3, HoldersAtHandOver
  <2> QED
    BY <1>1, <2>1, QuietLines
<1>4. CASE batches[t].input = <<>> /\ UNCHANGED <<filter_, local_read_>>
  <2> HIDE DEF t
  <2>1. \A b \in Batches : (InFlight(b)' <=> InFlight(b)) /\ (Filtered(b)' <=> Filtered(b))
    BY <1>1, <1>4 DEF InFlight, Filtered
  <2>2. \A b \in Batches : (Busy(b)' <=> InFlight(b)) /\ (Busy(b) <=> InFlight(b) \/ b = t)
    BY <1>1, <2>1 DEF Busy, t
  <2>3. \A b \in Batches : Busy(b) /\ batches[b].input # <<>> => Busy(b)'
    BY <1>4, <2>2
  <2> QED
    BY <1>1, <2>1, <2>2, <2>3, QuietLines
<1> QED
  BY <1>2, <1>3, <1>4

LEMMA MoveReadLines ==
    ASSUME Inv, Inv', LineInv, MoveRead
    PROVE  LineInv'
<1> DEFINE h == Head(to_read_)
<1>1. /\ to_read_ # <<>> /\ main' = main /\ ~Filling
      /\ local_read_' = Append(local_read_, h) /\ to_read_' = Tail(to_read_)
      /\ UNCHANGED <<in, read, written, batches, filter_, hand>>
  BY DEF MoveRead, Short, Filling
<1>2. to_read_ \in Seq(Batches) /\ local_read_ \in Seq(Batches)
  BY DEF Inv, TypeOK
<1>3. h \in Batches /\ Tail(to_read_) \in Seq(Batches)
  BY <1>1, <1>2
<1>4. \A b \in Batches :
          Occurrences(to_read_, b) = Occurrences(Tail(to_read_), b) + (IF h = b THEN 1 ELSE 0)
  BY <1>1, <1>2, CountTail
<1> HIDE DEF h
<1>5. \A b \in Batches :
          Occurrences(local_read_', b) = Occurrences(local_read_, b) + (IF h = b THEN 1 ELSE 0)
  BY <1>1, <1>2, <1>3, CountAppend
<1>6. ASSUME NEW b \in Batches
      PROVE  Returned(b)' = Returned(b)
  <2>1. /\ Occurrences(to_read_', b) \in Nat /\ Occurrences(local_read_, b) \in Nat
        /\ Occurrences(to_read_, b) = Occurrences(to_read_', b) + (IF h = b THEN 1 ELSE 0)
    BY <1>1, <1>2, <1>3, <1>4, FiniteDomain, Counted
  <2> QED
    BY <2>1, <1>5 DEF Returned
<1>7. Filling' <=> Filling
  BY <1>1 DEF Filling
<1> QED
  BY <1>1, <1>6, <1>7, QuietStep

\* The reader and the writer leave, the workers take up a batch, and the output worker arranges one.
LEMMA OtherLines ==
    ASSUME Inv, Inv', LineInv,
           \/ EndOfFile \/ PoisonFilter \/ PoisonOutput \/ Destroyed
           \/ Arrange \/ WriterLeaves \/ \E w \in Workers : Take(w)
           \/ UNCHANGED vars
    PROVE  LineInv'
<1>1. /\ UNCHANGED <<in, read, written, batches, local_read_, to_read_>>
      /\ Filling' <=> Filling
      /\ main' = "flushing" => main = "flushing"
      /\ UNCHANGED <<filter_, hand>> \/ UNCHANGED <<output_, ordering_>>
  <2>1. CASE EndOfFile \/ PoisonFilter \/ PoisonOutput \/ Destroyed
    BY <2>1 DEF EndOfFile, PoisonFilter, PoisonOutput, Destroyed, Filling
  <2>2. CASE Arrange \/ WriterLeaves \/ \E w \in Workers : Take(w)
    BY <2>2 DEF Arrange, WriterLeaves, Take, reader, Filling
  <2>3. CASE UNCHANGED vars
    BY <2>3 DEF vars, reader, Filling
  <2> QED
    BY <2>1, <2>2, <2>3
<1>2. \A b \in Batches : Returned(b)' = Returned(b)
  BY <1>1 DEF Returned
<1> QED
  BY <1>1, <1>2, QuietStep

\* What a step does to the lines of one batch, when it leaves those of the others alone.
LEMMA InputLines ==
    ASSUME BatchesOK, NEW b \in Batches, NEW x, batches' = [batches EXCEPT ![b].input = x]
    PROVE  /\ batches'[b].input = x
           /\ \A c \in Batches : /\ c # b => batches'[c].input = batches[c].input
                                 /\ batches'[c].output = batches[c].output
                                 /\ batches'[c].sequence = batches[c].sequence
<1>1. batches'[b] = [input |-> x, output |-> batches[b].output, sequence |-> batches[b].sequence]
  BY DEF BatchesOK
<1>2. \A c \in Batches : c # b => batches'[c] = batches[c]
  BY DEF BatchesOK
<1> QED
  BY <1>1, <1>2

LEMMA OutputLines ==
    ASSUME BatchesOK, NEW b \in Batches, NEW x, batches' = [batches EXCEPT ![b].output = x]
    PROVE  /\ batches'[b].output = x
           /\ \A c \in Batches : /\ c # b => batches'[c].output = batches[c].output
                                 /\ batches'[c].input = batches[c].input
                                 /\ batches'[c].sequence = batches[c].sequence
<1>1. batches'[b] = [input |-> batches[b].input, output |-> x, sequence |-> batches[b].sequence]
  BY DEF BatchesOK
<1>2. \A c \in Batches : c # b => batches'[c] = batches[c]
  BY DEF BatchesOK
<1> QED
  BY <1>1, <1>2

LEMMA FillLines ==
    ASSUME BatchesOK, NEW b \in Batches, Fill(b)
    PROVE  /\ batches'[b].input = <<>> /\ batches'[b].output = batches[b].output
           /\ \A c \in Batches : c # b => batches'[c] = batches[c]
<1> DEFINE r == batches[b]
           cleared == [r EXCEPT !.input = <<>>]
<1>1. r = [input |-> r.input, output |-> r.output, sequence |-> r.sequence]
  BY DEF BatchesOK
<1>2. /\ batches'[b] = [cleared EXCEPT !.sequence = sequence_]
      /\ \A c \in Batches : c # b => batches'[c] = batches[c]
  BY DEF BatchesOK, Fill
<1> HIDE DEF r
<1>3. cleared = [input |-> <<>>, output |-> r.output, sequence |-> r.sequence]
  BY <1>1
<1> HIDE DEF cleared
<1>4. [cleared EXCEPT !.sequence = sequence_] =
          [input |-> <<>>, output |-> r.output, sequence |-> sequence_]
  BY <1>3
<1> QED
  BY <1>2, <1>4 DEF r

\* The batch that the reader fills has no filtered lines, and the last number of all.
LEMMA TopIsLast ==
    ASSUME Inv, Filling
    PROVE  LET t == Last(local_read_) IN
           /\ t \in Batches /\ ~InFlight(t) /\ ~Filtered(t) /\ Busy(t)
           /\ \A b \in Batches : Busy(b) /\ b # t => batches[b].sequence < batches[t].sequence
<1> DEFINE t == Last(local_read_)
<1>1. local_read_ \in Seq(Batches) /\ local_read_ # <<>>
  BY DEF Inv, TypeOK, Reading
<1>2. batches[t].sequence = sequence_ - 1 /\ sequence_ \in Nat /\ base_sequence_ \in Nat
  BY DEF Inv, TypeOK, Reading
<1>3. t \in Batches
  BY <1>1, CountFront
<1>4. Occurrences(local_read_, t) > 0
  <2>1. \E i \in DOMAIN local_read_ : local_read_[i] = t
    BY <1>1, <1>3 DEF Last
  <2> QED
    BY <2>1, <1>1, <1>3, FiniteDomain, Counted
<1>5. Busy(t)
  BY DEF Busy
<1> HIDE DEF t
<1>6. ~InFlight(t)
  BY <1>3, <1>4, NotInFlight DEF Inv
<1>7. ~Filtered(t)
  BY <1>3, <1>6, Places DEF Inv, InFlight, Filtered
<1>8. ASSUME NEW b \in Batches, Busy(b), b # t
      PROVE  batches[b].sequence < batches[t].sequence
  <2>1. InFlight(b)
    BY <1>8 DEF Busy, t
  <2>2. batches[b].sequence \in base_sequence_..((sequence_ - 1) - 1)
    BY <2>1 DEF Inv, Numbered, Given
  <2> QED
    BY <2>2, <1>2
<1> QED
  BY <1>3, <1>5, <1>6, <1>7, <1>8 DEF t

\* The reader's batch is not in flight.
TopIsFree == Filling => LET t == Last(local_read_) IN
                            t \in Batches /\ ~InFlight(t) /\ ~Filtered(t)

LEMMA TopFree == Inv => TopIsFree
BY TopIsLast DEF TopIsFree

LEMMA TopFreeThen == Inv' => TopIsFree'
BY TopFree, PTL

\* A line that is read is behind all others, and the batch that gets it behind all batches.
LEMMA AddNGramLines ==
    ASSUME Inv, Inv', LineInv, AddNGram
    PROVE  LineInv'
<1> DEFINE t == Last(local_read_)
           x == read + 1
           filled == Append(batches[t].input, x)
<1>1. /\ Filling /\ NextLineIs("ngram") /\ main' # "flushing"
      /\ batches' = [batches EXCEPT ![t].input = filled]
      /\ read' = x
      /\ UNCHANGED <<in, written, to_read_, output_, hand, ordering_>>
  BY DEF AddNGram, Filling
<1>2. /\ t \in Batches /\ ~Filtered(t) /\ Busy(t)
      /\ \A b \in Batches : Busy(b) /\ b # t => batches[b].sequence < batches[t].sequence
  BY <1>1, TopIsLast
<1>3. \A b \in Batches : (Busy(b)' <=> Busy(b)) /\ (Filtered(b)' <=> Filtered(b))
  <2>1. \/ UNCHANGED <<main, filter_, local_read_>>
        \/ FlushInput(t) /\ ~Filling'
    BY DEF AddNGram, Filling
  <2>2. CASE UNCHANGED <<main, filter_, local_read_>>
    <3>1. \A b \in Batches : Returned(b)' = Returned(b)
      BY <2>2, <1>1 DEF Returned
    <3>2. Filling' <=> Filling
      BY <2>2 DEF Filling
    <3> QED
      BY <2>2, <3>1, <3>2, <1>1, HoldersKept
  <2>3. CASE FlushInput(t) /\ ~Filling'
    BY <2>3, <1>1, HoldersAtHandOver
  <2> QED
    BY <2>1, <2>2, <2>3
<1> HIDE DEF t, filled
<1>4. /\ batches'[t].input = filled
      /\ \A c \in Batches : /\ c # t => batches'[c].input = batches[c].input
                            /\ batches'[c].output = batches[c].output
                            /\ batches'[c].sequence = batches[c].sequence
  BY <1>1, <1>2, InputLines DEF Inv, TypeOK
<1>5. /\ in \in Seq({"ngram", "end"}) /\ Len(in) \in Nat /\ read \in 0..Len(in)
      /\ read + 1 \in 1..Len(in) /\ in[read + 1] = "ngram"
      /\ written \in Seq(Nat)
      /\ \A b \in Batches : batches[b].input \in Seq(Nat) /\ batches[b].output \in Seq(Nat)
  BY <1>1 DEF LineInv, LinesOK, NextLineIs
<1>6. \A b \in Batches : Busy(b) =>
          \A y \in Elements(batches[b].input) : y \in Nat /\ y < x
  <2>1. \A b \in Batches : Busy(b) => \A y \in Elements(batches[b].input) : y \in 1..read
    BY DEF LineInv, LinesToCome
  <2>2. \A y \in 1..read : y \in Nat /\ y < x
    BY <1>5
  <2> QED
    BY <2>1, <2>2, Zenon
<1>7. \A y \in Elements(written) : y \in 1..Len(in) /\ y < x
  <2>1. \A y \in Elements(written) : y \in ToWrite /\ y <= read
    BY DEF LineInv, WrittenSoFar
  <2> QED
    BY <2>1, <1>5 DEF ToWrite
<1>8. /\ filled \in Seq(Nat) /\ Ascending(filled)
      /\ Elements(filled) = Elements(batches[t].input) \cup {x}
  <2>1. Ascending(batches[t].input)
    BY <1>2 DEF LineInv, LinesToCome
  <2>2. batches[t].input \in Seq(Nat) /\ x \in Nat
    BY <1>2, <1>5
  <2>3. \A y \in Elements(batches[t].input) : y < x
    BY <1>2, <1>6
  <2> HIDE DEF x
  <2> QED
    BY <2>1, <2>2, <2>3, AppendAscends DEF filled
<1>9. ASSUME NEW b \in Batches
      PROVE  \A y \in Elements(batches'[b].input) :
                 y \in Elements(batches[b].input) \/ (b = t /\ y = x)
  <2>1. b = t => Elements(batches'[b].input) = Elements(batches[b].input) \cup {x}
    BY <1>4, <1>8
  <2>2. b # t => Elements(batches'[b].input) = Elements(batches[b].input)
    BY <1>4
  <2>3. ASSUME NEW y \in Elements(batches'[b].input), b = t
        PROVE  y \in Elements(batches[b].input) \/ y = x
    <3>1. y \in Elements(batches[b].input) \cup {x}
      BY <2>1, <2>3, Zenon
    <3> QED
      BY <3>1
  <2> QED
    BY <2>2, <2>3, Zenon
<1>10. LinesOK'
  <2>1. \A b \in Batches : batches'[b].input \in Seq(Nat) /\ batches'[b].output \in Seq(Nat)
    BY <1>4, <1>5, <1>8
  <2> QED
    BY <2>1, <1>1, <1>5 DEF LinesOK
<1>11. LinesToCome'
  <2> SUFFICES ASSUME NEW b \in Batches, Busy(b)
      PROVE  /\ Ascending(batches'[b].input)
             /\ \A y \in Elements(batches'[b].input) : y \in 1..read' /\ in[y] = "ngram"
             /\ \A z \in Elements(written), y \in Elements(batches'[b].input) : z < y
    BY <1>1, <1>3 DEF LinesToCome
  <2>1. /\ Ascending(batches[b].input)
        /\ \A y \in Elements(batches[b].input) : y \in 1..read /\ in[y] = "ngram"
        /\ \A z \in Elements(written), y \in Elements(batches[b].input) : z < y
    BY DEF LineInv, LinesToCome
  <2>2. Ascending(batches'[b].input)
    BY <2>1, <1>4, <1>8
  <2>3. ASSUME NEW y \in Elements(batches'[b].input)
        PROVE  y \in 1..read' /\ in[y] = "ngram"
    <3>1. y \in Elements(batches[b].input) \/ y = x
      BY <1>9
    <3>2. CASE y = x
      BY <3>2, <1>1, <1>5
    <3>3. CASE y \in Elements(batches[b].input)
      <4>1. y \in 1..read /\ in[y] = "ngram"
        BY <3>3, <2>1
      <4> QED
        BY <4>1, <1>1, <1>5
    <3> QED
      BY <3>1, <3>2, <3>3
  <2>4. \A z \in Elements(written), y \in Elements(batches'[b].input) : z < y
    BY <2>1, <1>7, <1>9
  <2> QED
    BY <2>2, <2>3, <2>4
<1>12. BatchesInOrder'
  <2> SUFFICES ASSUME NEW b \in Batches, NEW c \in Batches, Busy(b), Busy(c),
                      batches[b].sequence < batches[c].sequence,
                      NEW y \in Elements(batches'[b].input), NEW z \in Elements(batches'[c].input)
      PROVE  y < z
    BY <1>3, <1>4 DEF BatchesInOrder
  <2>1. b # t
    <3>1. batches[t].sequence \in Nat /\ batches[c].sequence \in Nat
      BY <1>2 DEF Inv, TypeOK, BatchesOK
    <3>2. b = t => c # t
      BY <3>1
    <3>3. b = t => batches[c].sequence < batches[t].sequence
      BY <3>2, <1>2
    <3> QED
      BY <3>1, <3>3
  <2>2. y \in Elements(batches[b].input)
    BY <2>1, <1>9
  <2>3. z \in Elements(batches[c].input) \/ z = x
    BY <1>9
  <2> QED
    BY <2>2, <2>3, <1>6 DEF LineInv, BatchesInOrder
<1>13. OutputBuffers'
  <2> SUFFICES ASSUME NEW b \in Batches
      PROVE  /\ Filtered(b) =>
                    /\ Ascending(batches'[b].output)
                    /\ Elements(batches'[b].output) = Elements(batches'[b].input) \cap Passes
             /\ ~Filtered(b) => batches'[b].output = <<>>
    BY <1>3 DEF OutputBuffers
  <2> QED
    BY <1>2, <1>4 DEF LineInv, OutputBuffers
<1>14. WrittenSoFar'
  <2>1. Ascending(written) /\ \A y \in Elements(written) : y \in ToWrite /\ y <= read
    BY DEF LineInv, WrittenSoFar
  <2>2. ToWrite' = ToWrite
    BY <1>1 DEF ToWrite
  <2> QED
    BY <2>1, <2>2, <1>1, <1>5, <1>7 DEF WrittenSoFar
<1>15. NothingLost'
  <2> SUFFICES ASSUME NEW y \in ToWrite, y <= x, y \notin Elements(written)
      PROVE  \E b \in Batches : Busy(b) /\ y \in Elements(batches'[b].input)
    BY <1>1, <1>3 DEF NothingLost, ToWrite
  <2>1. CASE y = x
    BY <2>1, <1>2, <1>4, <1>8
  <2>2. CASE y # x
    <3>1. y <= read
      BY <2>2, <1>5 DEF ToWrite
    <3>2. PICK b \in Batches : Busy(b) /\ y \in Elements(batches[b].input)
      BY <3>1 DEF LineInv, NothingLost
    <3> QED
      BY <3>2, <1>4, <1>8
  <2> QED
    BY <2>1, <2>2
<1> QED
  BY <1>10, <1>11, <1>12, <1>13, <1>14, <1>15 DEF LineInv

\* An empty batch comes in; and at the end of a section, when no batch is on its way, the end
\* is written.
LEMMA NewInputLines ==
    ASSUME Inv, Inv', LineInv, NewInput
    PROVE  LineInv'
<1> DEFINE t == Last(local_read_)
           x == read + 1
<1>1. /\ ~Filling /\ Filling' /\ Fill(t) /\ main' # "flushing" /\ local_read_' = local_read_
      /\ UNCHANGED <<in, filter_, output_, hand, ordering_>>
      /\ \/ UNCHANGED <<read, written>>
         \/ /\ main = "flushing" /\ ~Short
            /\ read' = x /\ written' = Append(written, x)
  BY DEF NewInput, Filling
<1>2. t \in Batches /\ ~InFlight(t) /\ ~Filtered(t)
  <2>1. TopIsFree'
    BY TopFreeThen
  <2> QED
    BY <2>1, <1>1 DEF TopIsFree, InFlight, Filtered
<1>3. \A b \in Batches : /\ Busy(b)' <=> InFlight(b) \/ b = t
                         /\ Busy(b) <=> InFlight(b)
                         /\ Filtered(b)' <=> Filtered(b)
  BY <1>1 DEF Busy, InFlight, Filtered
<1> HIDE DEF t
<1>4. /\ batches'[t].input = <<>> /\ batches'[t].output = batches[t].output
      /\ \A c \in Batches : c # t => batches'[c] = batches[c]
  BY <1>1, <1>2, FillLines DEF Inv, TypeOK
<1>5. /\ in \in Seq({"ngram", "end"}) /\ Len(in) \in Nat /\ read \in 0..Len(in)
      /\ written \in Seq(Nat)
      /\ \A b \in Batches : batches[b].input \in Seq(Nat) /\ batches[b].output \in Seq(Nat)
  BY DEF LineInv, LinesOK
<1>6. Ascending(<<>>) /\ Elements(<<>>) = {} /\ <<>> \in Seq(Nat)
  BY DEF Ascending, Elements
<1>7. \A b \in Batches : Busy(b)' =>
          \/ Elements(batches'[b].input) = {}
          \/ /\ Busy(b) /\ batches'[b] = batches[b]
  BY <1>3, <1>4, <1>6
<1>8. BatchesInOrder'
  BY <1>7 DEF LineInv, BatchesInOrder
<1>9. OutputBuffers'
  <2> SUFFICES ASSUME NEW b \in Batches
      PROVE  /\ Filtered(b) =>
                    /\ Ascending(batches'[b].output)
                    /\ Elements(batches'[b].output) = Elements(batches'[b].input) \cap Passes
             /\ ~Filtered(b) => batches'[b].output = <<>>
    BY <1>3 DEF OutputBuffers
  <2> QED
    BY <1>2, <1>4 DEF LineInv, OutputBuffers
<1>10. \A b \in Batches : batches'[b].input \in Seq(Nat) /\ batches'[b].output \in Seq(Nat)
  BY <1>4, <1>5, <1>6
<1>11. \A b \in Batches : Busy(b)' => Ascending(batches'[b].input)
  BY <1>3, <1>4, <1>6 DEF LineInv, LinesToCome
<1>12. CASE UNCHANGED <<read, written>>
  <2>1. LinesOK'
    BY <1>1, <1>5, <1>10, <1>12 DEF LinesOK
  <2>2. LinesToCome'
    BY <1>1, <1>7, <1>11, <1>12 DEF LineInv, LinesToCome
  <2>3. WrittenSoFar'
    BY <1>1, <1>12 DEF LineInv, WrittenSoFar, ToWrite
  <2>4. NothingLost'
    <3> SUFFICES ASSUME NEW y \in ToWrite, y <= read, y \notin Elements(written)
        PROVE  \E b \in Batches : Busy(b)' /\ y \in Elements(batches'[b].input)
      BY <1>1, <1>12 DEF NothingLost, ToWrite
    <3>1. PICK b \in Batches : Busy(b) /\ y \in Elements(batches[b].input)
      BY DEF LineInv, NothingLost
    <3> QED
      BY <3>1, <1>2, <1>3, <1>4
  <2> QED
    BY <2>1, <2>2, <2>3, <2>4, <1>8, <1>9 DEF LineInv
<1>13. CASE /\ main = "flushing" /\ ~Short
            /\ read' = x /\ written' = Append(written, x)
  <2>1. \A b \in Batches : ~InFlight(b)
    BY <1>13, AllReturned DEF EndOfSectionAlone
  <2>2. \A b \in Batches : ~Busy(b)
    BY <2>1, <1>3
  <2>3. \A b \in Batches : Busy(b)' => Elements(batches'[b].input) = {}
    BY <2>2, <1>7
  <2>4. in[x] = "end" /\ x \in 1..Len(in)
    BY <1>5, <1>13 DEF LineInv, LinesOK, NextLineIs
  <2>5. ToWrite' = ToWrite /\ x \in ToWrite
    BY <2>4, <1>1 DEF ToWrite
  <2>6. \A y \in Elements(written) : y \in ToWrite /\ y <= read
    BY DEF LineInv, WrittenSoFar
  <2>7. \A y \in ToWrite : y \in Nat /\ (y <= read => y < x) /\ (y <= x => y <= read \/ y = x)
    BY <1>5 DEF ToWrite
  <2>8. /\ written' \in Seq(Nat) /\ Ascending(written')
        /\ Elements(written') = Elements(written) \cup {x}
    <3>1. \A y \in Elements(written) : y < x
      BY <2>6, <2>7
    <3>2. x \in Nat /\ Ascending(written)
      BY <2>4 DEF LineInv, WrittenSoFar
    <3> HIDE DEF x
    <3> QED
      BY <3>1, <3>2, <1>5, <1>13, AppendAscends
  <2>9. LinesOK'
    BY <1>1, <1>5, <1>10, <1>13, <2>4, <2>8 DEF LinesOK
  <2>10. LinesToCome'
    BY <2>3, <1>11 DEF LinesToCome
  <2>11. WrittenSoFar'
    <3>1. \A y \in Elements(written') : y \in ToWrite /\ y <= x
      BY <2>5, <2>6, <2>7, <2>8
    <3> QED
      BY <3>1, <2>5, <2>8, <1>13 DEF WrittenSoFar
  <2>12. NothingLost'
    <3> SUFFICES ASSUME NEW y \in ToWrite, y <= x
        PROVE  y \in Elements(written')
      BY <2>5, <1>13 DEF NothingLost
    <3>1. y <= read => y \in Elements(written)
      BY <2>2 DEF LineInv, NothingLost
    <3> QED
      BY <3>1, <2>7, <2>8
  <2> QED
    BY <2>9, <2>10, <2>11, <2>12, <1>8, <1>9 DEF LineInv
<1> QED
  BY <1>1, <1>12, <1>13

\* A worker fills the empty buffer of its batch with the lines that pass.
LEMMA FilterLines ==
    ASSUME Inv, Inv', LineInv, NEW w \in Workers, Filter(w)
    PROVE  LineInv'
<1> DEFINE h == hand[w]
           passing == Selected(batches[h].input, Passes)
           lines == batches[h].output \o passing
<1>1. /\ h \in Batches /\ output_' = Append(output_, h)
      /\ batches' = [batches EXCEPT ![h].output = lines]
      /\ hand' = [hand EXCEPT ![w] = NULL]
      /\ UNCHANGED <<in, read, written, main, local_read_, to_read_, filter_, ordering_>>
  <2>1. h \in Batches /\ h \in DOMAIN batches
    BY DEF Filter, Inv, TypeOK, BatchesOK
  <2>2. batches' = [batches EXCEPT ![h].output = @ \o passing]
    BY DEF Filter
  <2> QED
    BY <2>1, <2>2 DEF Filter, reader
<1>2. Occurrences(hand, h) > 0
  <2>1. IsFiniteSet(DOMAIN hand) /\ w \in DOMAIN hand
    BY PoolAssumption DEF Inv, TypeOK
  <2> QED
    BY <2>1, Counted
<1>3. Filling' <=> Filling
  BY <1>1 DEF Filling
<1> HIDE DEF h, passing
<1>4. TypeOK /\ \A b \in Batches : /\ Occurrences(filter_, b) \in Nat
                                   /\ Occurrences(hand, b) \in Nat
                                   /\ Occurrences(output_, b) \in Nat
                                   /\ Occurrences(ordering_, b) \in Nat
  BY Places DEF Inv
<1>5. InFlight(h) /\ ~Filtered(h)
  <2>1. InFlight(h)
    BY <1>1, <1>2, <1>4 DEF InFlight
  <2>2. Holders
    BY HoldersFound
  <2>3. InPool(h) > 0
    BY <1>1, <1>2, <1>4 DEF InPool
  <2> QED
    BY <2>1, <2>2, <2>3, <1>1 DEF Holders
<1>6. Busy(h)
  BY <1>5 DEF Busy
<1>7. \A b \in Batches : Filtered(b)' <=> Filtered(b) \/ b = h
  <2>1. output_ \in Seq(Batches \cup {NULL}) /\ h \in Batches \cup {NULL}
    BY <1>1, <1>4 DEF TypeOK
  <2>2. \A b \in Batches :
            Occurrences(output_', b) = Occurrences(output_, b) + (IF h = b THEN 1 ELSE 0)
    <3> DEFINE S == Batches \cup {NULL}
    <3>1. output_ \in Seq(S) /\ h \in S
      BY <2>1
    <3> HIDE DEF S
    <3>2. \A b : Occurrences(Append(output_, h), b) =
                     Occurrences(output_, b) + (IF h = b THEN 1 ELSE 0)
      BY ONLY <3>1, CountAppend
    <3> QED
      BY <3>2, <1>1
  <2> QED
    BY <2>2, <1>1, <1>4 DEF Filtered
<1>8. \A b \in Batches : Busy(b)' <=> Busy(b)
  <2>1. \A b \in Batches : Returned(b)' = Returned(b)
    BY <1>1 DEF Returned
  <2>2. Holders /\ Holders'
    BY HoldersFound, HoldersFoundThen
  <2>3. \A b \in Batches : InFlight(b)' <=> InFlight(b)
    BY <2>1, <2>2 DEF Holders
  <2> QED
    BY <2>3, <1>1, <1>3 DEF Busy
<1>9. /\ batches'[h].output = lines
      /\ \A c \in Batches : /\ c # h => batches'[c].output = batches[c].output
                            /\ batches'[c].input = batches[c].input
                            /\ batches'[c].sequence = batches[c].sequence
  <2> HIDE DEF lines
  <2> QED
    BY <1>1, <1>4, OutputLines DEF TypeOK
<1>10. /\ lines \in Seq(Nat) /\ Ascending(lines)
       /\ Elements(lines) = Elements(batches[h].input) \cap Passes
  <2>1. /\ batches[h].input \in Seq(Nat) /\ Ascending(batches[h].input)
        /\ batches[h].output = <<>>
    BY <1>1, <1>5, <1>6 DEF LineInv, LinesOK, LinesToCome, OutputBuffers
  <2>2. /\ passing \in Seq(Nat) /\ Ascending(passing)
        /\ Elements(passing) = Elements(batches[h].input) \cap Passes
    BY <2>1, SelectedLines DEF passing
  <2>3. lines = passing
    BY <2>1, <2>2
  <2> QED
    BY <2>2, <2>3
<1> HIDE DEF lines
<1>11. LinesOK'
  <2>1. \A b \in Batches : batches'[b].input \in Seq(Nat) /\ batches'[b].output \in Seq(Nat)
    BY <1>9, <1>10 DEF LineInv, LinesOK
  <2> QED
    BY <2>1, <1>1 DEF LineInv, LinesOK, NextLineIs
<1>12. LinesToCome' /\ BatchesInOrder'
  BY <1>1, <1>8, <1>9 DEF LineInv, LinesToCome, BatchesInOrder
<1>13. OutputBuffers'
  <2> SUFFICES ASSUME NEW b \in Batches
      PROVE  /\ Filtered(b)' =>
                    /\ Ascending(batches'[b].output)
                    /\ Elements(batches'[b].output) = Elements(batches'[b].input) \cap Passes
             /\ ~Filtered(b)' => batches'[b].output = <<>>
    BY DEF OutputBuffers
  <2>1. CASE b = h
    BY <2>1, <1>7, <1>9, <1>10
  <2>2. CASE b # h
    BY <2>2, <1>7, <1>9 DEF LineInv, OutputBuffers
  <2> QED
    BY <2>1, <2>2
<1>14. WrittenSoFar' /\ NothingLost'
  BY <1>1, <1>8, <1>9 DEF LineInv, WrittenSoFar, NothingLost, ToWrite
<1> QED
  BY <1>11, <1>12, <1>13, <1>14 DEF LineInv

\* The batch whose turn it is has the least number, and so the lines that are next.
LEMMA WriteFrontLines ==
    ASSUME Inv, Inv', LineInv, WriteFront
    PROVE  LineInv'
<1> DEFINE h == Head(ordering_)
<1>1. /\ ordering_ # <<>> /\ h # NULL /\ ordering_' = Tail(ordering_)
      /\ batches' = [batches EXCEPT ![h].output = <<>>]
      /\ to_read_' = Append(to_read_, h) /\ written' = written \o batches[h].output
      /\ UNCHANGED <<in, read, main, local_read_, filter_, hand, output_>>
  BY DEF WriteFront, FrontReady, reader
<1>2. /\ ordering_ \in Seq(Batches \cup {NULL}) /\ to_read_ \in Seq(Batches)
      /\ base_sequence_ \in Nat /\ sequence_ \in Nat /\ BatchesOK
  BY DEF Inv, TypeOK
<1>3. h \in Batches /\ Len(ordering_) \in Nat \ {0} /\ h = ordering_[1]
  BY <1>1, <1>2
<1>4. \A b \in Batches :
          Occurrences(ordering_, b) = Occurrences(Tail(ordering_), b) + (IF h = b THEN 1 ELSE 0)
  BY <1>1, <1>2, CountTail
<1>5. batches[h].sequence = base_sequence_
  <2>1. 1 \in 1..Len(ordering_) /\ ordering_[1] # NULL
    BY <1>1, <1>3
  <2>2. batches[ordering_[1]].sequence = base_sequence_ + 1 - 1
    BY <2>1 DEF Inv, Ordered
  <2> QED
    BY <2>2, <1>2, <1>3
<1> HIDE DEF h
<1>6. \A b \in Batches : /\ Occurrences(filter_, b) \in Nat /\ Occurrences(hand, b) \in Nat
                         /\ Occurrences(output_, b) \in Nat
                         /\ Occurrences(ordering_, b) \in Nat
                         /\ Occurrences(ordering_', b) \in Nat
                         /\ Occurrences(to_read_, b) \in Nat
                         /\ Occurrences(local_read_, b) \in Nat
  <2>1. TypeOK /\ TypeOK'
    BY DEF Inv
  <2>2. \A b \in Batches : Occurrences(ordering_', b) \in Nat
    BY <2>1, FiniteDomain, Counted DEF TypeOK
  <2> QED
    BY <2>1, <2>2, Places
<1>7. Filtered(h) /\ InFlight(h) /\ Busy(h)
  <2>1. Occurrences(ordering_, h) > 0
    BY <1>1, <1>3, <1>4, <1>6
  <2> QED
    BY <2>1, <1>3, <1>6 DEF Filtered, InFlight, Busy
<1>8. \A b \in Batches : b = h => ~InFlight(b)' /\ ~Filtered(b)'
  <2>1. Occurrences(local_read_, h) + Occurrences(filter_, h) + Occurrences(hand, h)
          + Occurrences(output_, h) + Occurrences(ordering_, h) + Occurrences(to_read_, h) = 1
    BY <1>3 DEF Inv, BatchInOnePlace
  <2>2. Occurrences(ordering_, h) = Occurrences(ordering_', h) + 1
    BY <1>1, <1>3, <1>4
  <2>3. /\ Occurrences(filter_, h) = 0 /\ Occurrences(hand, h) = 0
        /\ Occurrences(output_, h) = 0 /\ Occurrences(ordering_', h) = 0
    <3> DEFINE l == Occurrences(local_read_, h)
               f == Occurrences(filter_, h)
               g == Occurrences(hand, h)
               u == Occurrences(output_, h)
               o == Occurrences(ordering_, h)
               p == Occurrences(ordering_', h)
               r == Occurrences(to_read_, h)
    <3>1. /\ l \in Nat /\ f \in Nat /\ g \in Nat /\ u \in Nat /\ p \in Nat /\ r \in Nat
      BY <1>3, <1>6
    <3>2. l + f + g + u + o + r = 1 /\ o = p + 1
      BY <2>1, <2>2
    <3> HIDE DEF l, f, g, u, o, p, r
    <3>3. f = 0 /\ g = 0 /\ u = 0 /\ p = 0
      BY <3>1, <3>2
    <3> QED
      BY <3>3 DEF f, g, u, p
  <2> QED
    BY <2>3, <1>1 DEF InFlight, Filtered
<1>9. \A b \in Batches : b # h => (InFlight(b)' <=> InFlight(b)) /\ (Filtered(b)' <=> Filtered(b))
  <2>1. \A b \in Batches : b # h => Occurrences(ordering_', b) = Occurrences(ordering_, b)
    BY <1>1, <1>4, <1>6
  <2> QED
    BY <2>1, <1>1 DEF InFlight, Filtered
<1>10. \A b \in Batches : Busy(b)' <=> Busy(b) /\ b # h
  <2>1. Filling' <=> Filling
    BY <1>1 DEF Filling
  <2>2. Filling => h # Last(local_read_)
    BY <1>7, TopIsLast
  <2> QED
    BY <2>1, <2>2, <1>1, <1>8, <1>9 DEF Busy
<1>11. ASSUME NEW b \in Batches, Busy(b), b # h
       PROVE  batches[h].sequence < batches[b].sequence
  <2>1. CASE InFlight(b)
    <3>1. batches[b].sequence \in base_sequence_..(Given - 1)
      BY <2>1 DEF Inv, Numbered
    <3>2. batches[b].sequence # batches[h].sequence
      BY <2>1, <1>3, <1>7, <1>11 DEF Inv, Numbered
    <3>3. Given \in Int
      BY <1>2 DEF Given
    <3> QED
      BY <3>1, <3>2, <3>3, <1>2, <1>5
  <2>2. CASE Filling /\ b = Last(local_read_)
    BY <2>2, <1>3, <1>7, <1>11, TopIsLast
  <2> QED
    BY <2>1, <2>2, <1>11 DEF Busy
<1>12. /\ batches'[h].output = <<>>
       /\ \A c \in Batches : /\ c # h => batches'[c].output = batches[c].output
                             /\ batches'[c].input = batches[c].input
                             /\ batches'[c].sequence = batches[c].sequence
  BY <1>1, <1>2, <1>3, OutputLines
<1> DEFINE out == batches[h].output
<1>13. /\ out \in Seq(Nat) /\ Ascending(out) /\ written \in Seq(Nat) /\ Ascending(written)
       /\ Elements(out) = Elements(batches[h].input) \cap Passes
  BY <1>3, <1>7 DEF LineInv, LinesOK, OutputBuffers, WrittenSoFar
<1>14. /\ \A y \in Elements(batches[h].input) : y \in 1..read /\ in[y] = "ngram"
       /\ \A x \in Elements(written), y \in Elements(batches[h].input) : x < y
  BY <1>3, <1>7 DEF LineInv, LinesToCome
<1>15. /\ written' \in Seq(Nat) /\ Ascending(written')
       /\ Elements(written') = Elements(written) \cup Elements(out)
  <2>1. \A x \in Elements(written), y \in Elements(out) : x < y
    BY <1>13, <1>14
  <2>2. written' = written \o out
    BY <1>1
  <2> HIDE DEF out
  <2> QED
    BY <2>1, <2>2, <1>13, ConcatAscends
<1> HIDE DEF out
<1>16. LinesOK'
  <2>1. ASSUME NEW b \in Batches
        PROVE  batches'[b].input \in Seq(Nat) /\ batches'[b].output \in Seq(Nat)
    <3>1. batches[b].input \in Seq(Nat) /\ batches[b].output \in Seq(Nat)
      BY DEF LineInv, LinesOK
    <3>2. <<>> \in Seq(Nat)
      OBVIOUS
    <3> QED
      BY <3>1, <3>2, <1>12
  <2> QED
    BY <2>1, <1>1, <1>15 DEF LineInv, LinesOK, NextLineIs
<1>17. LinesToCome'
  <2> SUFFICES ASSUME NEW b \in Batches, Busy(b), b # h
      PROVE  /\ Ascending(batches[b].input)
             /\ \A y \in Elements(batches[b].input) : y \in 1..read /\ in[y] = "ngram"
             /\ \A x \in Elements(written'), y \in Elements(batches[b].input) : x < y
    BY <1>1, <1>10, <1>12 DEF LinesToCome
  <2>1. /\ Ascending(batches[b].input)
        /\ \A y \in Elements(batches[b].input) : y \in 1..read /\ in[y] = "ngram"
        /\ \A x \in Elements(written), y \in Elements(batches[b].input) : x < y
    BY DEF LineInv, LinesToCome
  <2>2. \A x \in Elements(batches[h].input), y \in Elements(batches[b].input) : x < y
    BY <1>3, <1>7, <1>11 DEF LineInv, BatchesInOrder
  <2> QED
    BY <2>1, <2>2, <1>13, <1>15
<1>18. BatchesInOrder'
  BY <1>10, <1>12 DEF LineInv, BatchesInOrder
<1>19. OutputBuffers'
  <2> SUFFICES ASSUME NEW b \in Batches
      PROVE  /\ Filtered(b)' =>
                    /\ Ascending(batches'[b].output)
                    /\ Elements(batches'[b].output) = Elements(batches'[b].input) \cap Passes
             /\ ~Filtered(b)' => batches'[b].output = <<>>
    BY DEF OutputBuffers
  <2>1. CASE b = h
    BY <2>1, <1>8, <1>12
  <2>2. CASE b # h
    BY <2>2, <1>9, <1>12 DEF LineInv, OutputBuffers
  <2> QED
    BY <2>1, <2>2
<1>20. WrittenSoFar'
  <2>1. \A x \in Elements(written) : x \in ToWrite /\ x <= read
    BY DEF LineInv, WrittenSoFar
  <2>2. ASSUME NEW x \in Elements(out)
        PROVE  x \in ToWrite /\ x <= read
    <3>1. x \in Passes /\ x \in 1..read
      BY <1>13, <1>14
    <3>2. x \in 1..Len(in) /\ x <= read
      BY <3>1 DEF LineInv, LinesOK
    <3> QED
      BY <3>1, <3>2 DEF ToWrite
  <2>3. ToWrite' = ToWrite
    BY <1>1 DEF ToWrite
  <2> QED
    BY <2>1, <2>2, <2>3, <1>1, <1>15 DEF WrittenSoFar
<1>21. NothingLost'
  <2> SUFFICES ASSUME NEW y \in ToWrite, y <= read, y \notin Elements(written')
      PROVE  \E b \in Batches : Busy(b)' /\ y \in Elements(batches'[b].input)
    BY <1>1 DEF NothingLost, ToWrite
  <2>1. PICK b \in Batches : Busy(b) /\ y \in Elements(batches[b].input)
    BY <1>15 DEF LineInv, NothingLost
  <2>2. b # h
    <3> SUFFICES ASSUME b = h
        PROVE  FALSE
      OBVIOUS
    <3>1. in[y] = "ngram"
      BY <2>1, <1>14
    <3>2. y \in Passes
      BY <3>1 DEF ToWrite
    <3> QED
      BY <2>1, <3>2, <1>13, <1>15
  <2> QED
    BY <2>1, <2>2, <1>10, <1>12
<1> QED
  BY <1>16, <1>17, <1>18, <1>19, <1>20, <1>21 DEF LineInv

LEMMA InitLines ==
    ASSUME Init
    PROVE  LineInv
<1>1. /\ in \in Seq({"ngram", "end"}) /\ Len(in) \in Nat /\ read = 0 /\ main = "reading"
      /\ written = <<>>
      /\ \A b \in Batches : batches[b].input = <<>> /\ batches[b].output = <<>>
  BY InputsAssumption DEF Init, EmptyBatch
<1>2. <<>> \in Seq(Nat) /\ Ascending(<<>>) /\ Elements(<<>>) = {}
  BY DEF Ascending, Elements
<1>3. LinesOK
  <2>1. read \in 0..Len(in) /\ main # "flushing"
    BY <1>1
  <2>2. \A b \in Batches : batches[b].input \in Seq(Nat) /\ batches[b].output \in Seq(Nat)
    BY <1>1, <1>2
  <2> QED
    BY <1>1, <1>2, <2>1, <2>2 DEF LinesOK
<1>4. LinesToCome /\ BatchesInOrder
  BY <1>1, <1>2 DEF LinesToCome, BatchesInOrder
<1>5. OutputBuffers
  BY <1>1, <1>2 DEF OutputBuffers
<1>6. WrittenSoFar /\ NothingLost
  BY <1>1, <1>2 DEF WrittenSoFar, NothingLost, ToWrite
<1> QED
  BY <1>3, <1>4, <1>5, <1>6 DEF LineInv

LEMMA NextLines ==
    ASSUME Inv, Inv', LineInv, [Next]_vars
    PROVE  LineInv'
<1>1. CASE Reader
  BY <1>1, AddNGramLines, BeginFlushLines, MoveReadLines, NewInputLines, OtherLines DEF Reader
<1>2. CASE Writer
  BY <1>2, WriteFrontLines, OtherLines DEF Writer
<1>3. CASE \E w \in Workers : Take(w) \/ Filter(w)
  BY <1>3, FilterLines, OtherLines
<1>4. CASE UNCHANGED vars
  BY <1>4, OtherLines
<1> QED
  BY <1>1, <1>2, <1>3, <1>4 DEF Next

LEMMA LineInvariance == Spec => [](Inv /\ LineInv)
<1>1. Init => Inv /\ LineInv
  BY InitInv, InitLines
<1>2. Inv /\ LineInv /\ [Next]_vars => Inv' /\ LineInv'
  BY NextInv, NextLines
<1> QED
  BY <1>1, <1>2, PTL DEF Spec

\* The lines written are in order, they are to be written, and none of those before them is
\* missing: such a line would be in a busy batch, behind all that is written.
LEMMA LinesInOrder ==
    ASSUME LineInv
    PROVE  WrittenInOrder
<1> DEFINE all == [i \in 1..Len(in) |-> i]
<1>1. Len(in) \in Nat /\ written \in Seq(Nat) /\ Ascending(written)
  BY DEF LineInv, LinesOK, WrittenSoFar
<1>2. all \in Seq(Nat) /\ Ascending(all) /\ Elements(all) = 1..Len(in)
  <2>1. all \in Seq(Nat) /\ Len(all) = Len(in) /\ \A i \in 1..Len(in) : all[i] = i
    BY <1>1
  <2> HIDE DEF all
  <2> QED
    BY <2>1, <1>1 DEF Ascending, Elements
<1> HIDE DEF all
<1>3. /\ Selected(all, ToWrite) \in Seq(Nat) /\ Ascending(Selected(all, ToWrite))
      /\ Elements(Selected(all, ToWrite)) = ToWrite
  <2>1. (1..Len(in)) \cap ToWrite = ToWrite
    BY DEF ToWrite
  <2> QED
    BY <2>1, <1>2, SelectedLines
<1>4. Expected = Selected(all, ToWrite)
  BY DEF Expected, all
<1>5. \A x \in Elements(written) : x \in ToWrite /\ x <= read
  BY DEF LineInv, WrittenSoFar
<1>6. ASSUME NEW x \in Elements(written), NEW y \in ToWrite, y < x
      PROVE  y \in Elements(written)
  <2>1. x \in Int /\ y \in Int /\ read \in Int
    BY <1>5 DEF ToWrite, LineInv, LinesOK
  <2>2. y <= read /\ ~(x < y)
    BY <2>1, <1>5, <1>6
  <2> QED
    BY <2>2 DEF LineInv, NothingLost, LinesToCome
<1> QED
  BY <1>1, <1>3, <1>4, <1>5, <1>6, PrefixByElements DEF WrittenInOrder

\* However the filter workers overtake each other, and whatever the file, the batch size and the
\* number of threads, the output is at any time the beginning of what a filter on one thread
\* writes: no line is lost, repeated or out of order, and a section ends behind all of its lines.
THEOREM OutputInOrder == Spec => []WrittenInOrder
<1>1. Inv /\ LineInv => WrittenInOrder
  BY LinesInOrder
<1> QED
  BY <1>1, LineInvariance, PTL
=============================================================================
