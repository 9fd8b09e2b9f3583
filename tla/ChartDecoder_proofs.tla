-------------------------- MODULE ChartDecoder_proofs --------------------------
(***************************************************************************)
(* What the pool and the collectors guarantee when moses-chart-cmd puts    *)
(* them together, for any number of threads and sentences: no task is lost *)
(* or run twice, and, if the sentences are numbered from 0, both outputs   *)
(* come out in the order of the input, and all of them when main() ends.   *)
(*                                                                         *)
(* First the collector alone: it writes what it is given in the order of   *)
(* the ids, from 0, if every id is given to it once, in any order of       *)
(* arrival.  The output of id n - 1 is n.  Then the decoder: every step of *)
(* it is one of the pool, or none, so that the invariants of               *)
(* ThreadPool_proofs hold; with them, every task writes to a collector     *)
(* once, which is what the collector asks for.                             *)
(***************************************************************************)
EXTENDS ChartDecoder, ThreadPool_proofs, FiniteSetTheorems, FunctionTheorems,
        NaturalsInduction, SequenceTheorems, TLAPS

\* The outputs in given have been written from the first to the first that is missing, and the
\* others are saved.
Ordered(collector, given) ==
  /\ collector \in [nextOutput : Nat, outputs : SUBSET [id : Nat, output : Nat],
                    stream : Seq(Nat)]
  /\ collector.stream = [i \in 1 .. collector.nextOutput |-> i]
  /\ collector.outputs = {[id |-> n - 1, output |-> n] :
                            n \in {m \in given : m > collector.nextOutput}}
  /\ 1 .. collector.nextOutput \subseteq given
  /\ collector.nextOutput + 1 \notin given
-----------------------------------------------------------------------------
\* A set of natural numbers that is not empty has a least element.
LEMMA LeastOf ==
  ASSUME NEW S, S \subseteq Nat, S # {}
  PROVE  \E m \in S : \A other \in S : m <= other
<1>1. IsWellFoundedOn(OpToRel(<, Nat), Nat)
  BY NatLessThanWellFounded
<1>2. PICK m \in S : \A y \in S : ~(<<y, m>> \in OpToRel(<, Nat))
  BY <1>1, WFMin
<1>3. \A y \in S : <<y, m>> \in Nat \X Nat
  BY Zenon
<1>4. \A y \in S : ~(y < m)
  BY <1>2, <1>3, Zenon DEF OpToRel
<1> QED BY <1>4

\* There are no more ids than saved outputs.
LEMMA FewIds ==
  ASSUME NEW collector, IsFiniteSet(collector.outputs)
  PROVE  /\ IsFiniteSet(SavedIds(collector))
         /\ Cardinality(SavedIds(collector)) <= Cardinality(collector.outputs)
<1> DEFINE f == [saved \in collector.outputs |-> saved.id]
<1>1. f \in Surjection(collector.outputs, SavedIds(collector))
  BY DEF Surjection, SavedIds
<1> QED BY <1>1, FS_Surjection

\* So the search for the first missing one finds it.
LEMMA FirstMissingFound ==
  ASSUME NEW collector, IsFiniteSet(collector.outputs), NEW sourceId \in Nat
  PROVE  /\ FirstMissing(collector, sourceId) \in Nat
         /\ FirstMissing(collector, sourceId) > sourceId
         /\ FirstMissing(collector, sourceId) \notin SavedIds(collector)
         /\ sourceId + 1 .. FirstMissing(collector, sourceId) - 1 \subseteq SavedIds(collector)
<1> DEFINE last == sourceId + 1 + Cardinality(collector.outputs)
           ids == sourceId + 1 .. last
<1>1. Cardinality(collector.outputs) \in Nat
  BY FS_CardinalityType
<1>2. IsFiniteSet(ids) /\ Cardinality(ids) = Cardinality(collector.outputs) + 1
  <2>1. last \in Int /\ sourceId + 1 \in Int /\ last >= sourceId + 1
    BY <1>1
  <2> HIDE DEF last
  <2>2. IsFiniteSet(ids) /\ Cardinality(ids) = last - (sourceId + 1) + 1
    BY <2>1, FS_Interval
  <2> USE DEF last
  <2> QED BY <1>1, <2>2
<1>3. ids \ SavedIds(collector) # {}
  <2>1. Cardinality(SavedIds(collector)) <= Cardinality(collector.outputs)
        /\ IsFiniteSet(SavedIds(collector)) /\ Cardinality(SavedIds(collector)) \in Nat
    BY FewIds, FS_CardinalityType
  <2>2. ~(ids \in SUBSET SavedIds(collector))
    BY <1>1, <1>2, <2>1, FS_Subset
  <2> QED BY <2>2
<1>4. PICK next \in ids \ SavedIds(collector) :
        \A other \in ids \ SavedIds(collector) : next <= other
  <2>1. ids \ SavedIds(collector) \subseteq Nat
    BY <1>1
  <2> QED BY <1>3, <2>1, LeastOf
<1>5. \A between \in sourceId + 1 .. next - 1 : between \in SavedIds(collector)
  BY <1>1, <1>4
<1>6. /\ FirstMissing(collector, sourceId) \in ids
      /\ FirstMissing(collector, sourceId) \notin SavedIds(collector)
      /\ \A between \in sourceId + 1 .. FirstMissing(collector, sourceId) - 1 :
           between \in SavedIds(collector)
  BY <1>4, <1>5 DEF FirstMissing
<1> QED BY <1>1, <1>6
-----------------------------------------------------------------------------
LEMMA NewIsOrdered == Ordered(NewCollector, {})
<1>1. <<>> = [i \in 1 .. 0 |-> i] /\ <<>> \in Seq(Nat)
  OBVIOUS
<1> QED BY <1>1 DEF Ordered, NewCollector

LEMMA SaveKeepsOrder ==
  ASSUME NEW given \in SUBSET (Nat \ {0}), NEW collector, Ordered(collector, given),
         NEW n \in Nat \ {0}, n \notin given, n - 1 # collector.nextOutput
  PROVE  Ordered(Save(collector, n - 1, n), given \cup {n})
<1> DEFINE new == Save(collector, n - 1, n)
           saved == {[id |-> m - 1, output |-> m] : m \in {k \in given : k > collector.nextOutput}}
<1>1. /\ new.nextOutput = collector.nextOutput /\ new.stream = collector.stream
      /\ new.outputs = {s \in collector.outputs : s.id # n - 1} \cup {[id |-> n - 1, output |-> n]}
      /\ new \in [nextOutput : Nat, outputs : SUBSET [id : Nat, output : Nat], stream : Seq(Nat)]
  BY DEF Ordered, Save
<1>2. n > collector.nextOutput
  BY DEF Ordered
<1>3. \A s \in collector.outputs : s.id # n - 1
  BY DEF Ordered
<1> HIDE DEF new
<1>4. new.outputs = {[id |-> m - 1, output |-> m] :
                       m \in {k \in given \cup {n} : k > new.nextOutput}}
  <2>1. {k \in given \cup {n} : k > new.nextOutput}
          = {k \in given : k > collector.nextOutput} \cup {n}
    BY <1>1, <1>2
  <2>2. new.outputs = collector.outputs \cup {[id |-> n - 1, output |-> n]}
    BY <1>1, <1>3
  <2>3. collector.outputs = saved
    BY DEF Ordered
  <2> QED BY <2>1, <2>2, <2>3
<1>5. /\ new.stream = [i \in 1 .. new.nextOutput |-> i]
      /\ 1 .. new.nextOutput \subseteq given \cup {n}
      /\ new.nextOutput + 1 \notin given \cup {n}
  <2>1. new.nextOutput + 1 # n
    BY <1>1 DEF Ordered
  <2> QED BY <1>1, <2>1 DEF Ordered
<1>6. Ordered(new, given \cup {n})
  BY <1>1, <1>4, <1>5 DEF Ordered
<1> QED BY <1>6 DEF new

\* What is saved: the given outputs behind the written ones, each under its id.
LEMMA SavedOnes ==
  ASSUME NEW given \in SUBSET (Nat \ {0}), IsFiniteSet(given), NEW collector,
         Ordered(collector, given)
  PROVE  /\ IsFiniteSet(collector.outputs)
         /\ \A m \in Nat : m > collector.nextOutput => (m - 1 \in SavedIds(collector) <=> m \in given)
         /\ \A m \in given : m > collector.nextOutput => SavedOutput(collector, m - 1) = m
<1> DEFINE D == {m \in given : m > collector.nextOutput}
           f == [m \in D |-> [id |-> m - 1, output |-> m]]
<1>1. collector.outputs = {[id |-> m - 1, output |-> m] : m \in D} /\ collector.nextOutput \in Nat
  BY DEF Ordered
<1>2. IsFiniteSet(collector.outputs)
  <2>1. IsFiniteSet(D)
    BY FS_Subset
  <2>2. f \in Surjection(D, collector.outputs)
    BY <1>1 DEF Surjection
  <2> HIDE DEF D, f
  <2> QED BY <2>1, <2>2, FS_Surjection
<1>3. \A m \in Nat : m > collector.nextOutput => (m - 1 \in SavedIds(collector) <=> m \in given)
  <2>1. ASSUME NEW m \in D PROVE m - 1 \in SavedIds(collector)
    <3>1. [id |-> m - 1, output |-> m] \in collector.outputs
      BY <1>1
    <3> QED BY <3>1 DEF SavedIds
  <2>2. ASSUME NEW m \in Nat, m > collector.nextOutput, m - 1 \in SavedIds(collector)
        PROVE  m \in given
    <3>1. PICK saved \in collector.outputs : saved.id = m - 1
      BY <2>2 DEF SavedIds
    <3>2. PICK l \in D : saved = [id |-> l - 1, output |-> l]
      BY <1>1
    <3>3. l = m
      BY <3>1, <3>2
    <3> QED BY <3>3
  <2> QED BY <2>1, <2>2
<1>4. ASSUME NEW m \in given, m > collector.nextOutput PROVE SavedOutput(collector, m - 1) = m
  <2>1. [id |-> m - 1, output |-> m] \in collector.outputs
    BY <1>1, <1>4
  <2>2. \A saved \in collector.outputs : saved.id = m - 1 => saved = [id |-> m - 1, output |-> m]
    BY <1>1
  <2> QED BY <2>1, <2>2 DEF SavedOutput
<1> QED BY <1>2, <1>3, <1>4

\* The numbers up to k, the next one, and those behind it up to next, are those up to next.
LEMMA NumbersInOrder ==
  ASSUME NEW k \in Nat, NEW next \in Nat, next > k
  PROVE  Append([i \in 1 .. k |-> i], k + 1) \o [i \in 1 .. next - k - 1 |-> k + i + 1]
           = [i \in 1 .. next |-> i]
<1> DEFINE s == [i \in 1 .. k |-> i]
           t == [i \in 1 .. next - k - 1 |-> k + i + 1]
           r == [i \in 1 .. next |-> i]
<1>1. s \in Seq(Nat) /\ Len(s) = k /\ \A i \in 1 .. k : s[i] = i
  OBVIOUS
<1>2. t \in Seq(Nat) /\ Len(t) = next - k - 1 /\ \A i \in 1 .. next - k - 1 : t[i] = k + i + 1
  <2>1. next - k - 1 \in Nat
    OBVIOUS
  <2> QED BY <2>1
<1>3. r \in Seq(Nat) /\ Len(r) = next /\ \A i \in 1 .. next : r[i] = i
  OBVIOUS
<1> HIDE DEF s, t, r
<1>4. /\ Append(s, k + 1) \in Seq(Nat) /\ Len(Append(s, k + 1)) = k + 1
      /\ \A i \in 1 .. k + 1 : Append(s, k + 1)[i] = i
  BY <1>1
<1>5. /\ Append(s, k + 1) \o t \in Seq(Nat) /\ Len(Append(s, k + 1) \o t) = next
      /\ \A i \in 1 .. next : (Append(s, k + 1) \o t)[i] = i
  <2>1. /\ Append(s, k + 1) \o t \in Seq(Nat)
        /\ Len(Append(s, k + 1) \o t) = Len(Append(s, k + 1)) + Len(t)
        /\ \A i \in 1 .. Len(Append(s, k + 1)) + Len(t) :
             (Append(s, k + 1) \o t)[i] = IF i <= Len(Append(s, k + 1)) THEN Append(s, k + 1)[i]
                                          ELSE t[i - Len(Append(s, k + 1))]
    BY <1>2, <1>4, ConcatProperties
  <2>2. Len(Append(s, k + 1)) + Len(t) = next
    BY <1>2, <1>4
  <2>3. ASSUME NEW i \in 1 .. next PROVE (Append(s, k + 1) \o t)[i] = i
    <3>1. CASE i <= k + 1
      BY <1>4, <2>1, <2>2, <3>1
    <3>2. CASE i > k + 1
      <4>1. i - (k + 1) \in 1 .. next - k - 1 /\ k + (i - (k + 1)) + 1 = i
        BY <3>2
      <4>2. t[i - (k + 1)] = i
        BY <1>2, <4>1
      <4>3. Len(Append(s, k + 1)) = k + 1 /\ ~(i <= k + 1)
        BY <1>4, <3>2
      <4>4. (Append(s, k + 1) \o t)[i] = t[i - (k + 1)]
        BY <2>1, <2>2, <4>3
      <4> QED BY <4>2, <4>4
    <3>3. i <= k + 1 \/ i > k + 1
      OBVIOUS
    <3> QED BY Zenon, <3>1, <3>2, <3>3
  <2> QED BY <2>1, <2>2, <2>3
<1>6. Append(s, k + 1) \o t = r
  BY <1>3, <1>5, SeqEqual
<1> QED BY <1>6 DEF s, t, r

LEMMA WriteExpectedKeepsOrder ==
  ASSUME NEW given \in SUBSET (Nat \ {0}), IsFiniteSet(given), NEW collector,
         Ordered(collector, given), NEW n \in Nat \ {0}, n \notin given,
         n - 1 = collector.nextOutput
  PROVE  Ordered(WriteExpected(collector, n - 1, n), given \cup {n})
<1> DEFINE new == WriteExpected(collector, n - 1, n)
           k == n - 1
           next == FirstMissing(collector, k)
<1>1. /\ IsFiniteSet(collector.outputs)
      /\ \A m \in Nat : m > k => (m - 1 \in SavedIds(collector) <=> m \in given)
      /\ \A m \in given : m > k => SavedOutput(collector, m - 1) = m
      /\ k \in Nat
  BY SavedOnes
<1> HIDE DEF k
<1>2. /\ next \in Nat /\ next > k /\ next \notin SavedIds(collector)
      /\ k + 1 .. next - 1 \subseteq SavedIds(collector)
  BY <1>1, FirstMissingFound
<1> HIDE DEF next
<1>3. n = k + 1
  BY DEF k
<1>4. \A m \in k + 2 .. next : m \in given
  <2> TAKE m \in k + 2 .. next
  <2>1. m \in Nat /\ m > k /\ m - 1 \in k + 1 .. next - 1
    BY <1>1, <1>2
  <2> QED BY <1>1, <1>2, <2>1
<1>5. next + 1 \notin given \cup {n}
  BY <1>1, <1>2, <1>3
<1>6. \A i \in 1 .. next - k - 1 : SavedOutput(collector, k + i) = k + i + 1
  <2> TAKE i \in 1 .. next - k - 1
  <2>1. k + i + 1 \in k + 2 .. next /\ (k + i + 1) - 1 = k + i /\ k + i + 1 > k
    BY <1>1, <1>2
  <2> QED BY <1>1, <1>4, <2>1
<1>7. /\ new.nextOutput = next
      /\ new.outputs = {saved \in collector.outputs : saved.id \notin k + 1 .. next - 1}
      /\ new.stream = Append(collector.stream, n)
                        \o [i \in 1 .. next - k - 1 |-> SavedOutput(collector, k + i)]
      /\ new = [nextOutput |-> new.nextOutput, outputs |-> new.outputs, stream |-> new.stream]
  BY DEF WriteExpected, k, next
<1> HIDE DEF new
<1>8. new.stream = [i \in 1 .. next |-> i]
  <2>1. collector.stream = [i \in 1 .. k |-> i]
    BY DEF Ordered, k
  <2>2. new.stream = Append([i \in 1 .. k |-> i], k + 1)
                       \o [i \in 1 .. next - k - 1 |-> k + i + 1]
    BY <1>3, <1>6, <1>7, <2>1
  <2> QED BY <1>1, <1>2, <2>2, NumbersInOrder
<1>9. new.outputs = {[id |-> m - 1, output |-> m] : m \in {l \in given \cup {n} : l > next}}
  <2>1. collector.outputs = {[id |-> m - 1, output |-> m] : m \in {l \in given : l > k}}
    BY DEF Ordered, k
  <2>2. {l \in given \cup {n} : l > next} = {l \in given : l > k /\ l - 1 \notin k + 1 .. next - 1}
    <3>1. ASSUME NEW l \in Nat, l # next + 1
          PROVE  l > next <=> l > k /\ l # n /\ l - 1 \notin k + 1 .. next - 1
      BY <1>1, <1>2, <1>3, <3>1
    <3>2. \A l \in given \cup {n} : l \in Nat /\ l # next + 1
      BY <1>5
    <3> QED BY <3>1, <3>2
  <2> QED BY <1>7, <2>1, <2>2
<1>10. 1 .. next \subseteq given \cup {n}
  <2>1. 1 .. k \subseteq given
    BY DEF Ordered, k
  <2> QED BY <1>1, <1>2, <1>3, <1>4, <2>1
<1>11. new \in [nextOutput : Nat, outputs : SUBSET [id : Nat, output : Nat], stream : Seq(Nat)]
  <2>1. new.stream \in Seq(Nat)
    BY <1>2, <1>8
  <2>2. new.outputs \in SUBSET [id : Nat, output : Nat]
    BY <1>7 DEF Ordered
  <2> QED BY <1>2, <1>7, <2>1, <2>2
<1>12. Ordered(new, given \cup {n})
  BY <1>5, <1>7, <1>8, <1>9, <1>10, <1>11 DEF Ordered
<1> QED BY <1>12 DEF new
-----------------------------------------------------------------------------
\* Whatever the order in which the outputs arrive (moses/OutputCollector.h): after each Write the
\* stream holds them from the first to the first that has not arrived, in order, and the others
\* wait; so once all have arrived, all are written.
THEOREM WriteKeepsOrder ==
  ASSUME NEW given \in SUBSET (Nat \ {0}), IsFiniteSet(given), NEW collector,
         Ordered(collector, given), NEW n \in Nat \ {0}, n \notin given
  PROVE  Ordered(Write(collector, n - 1, n), given \cup {n})
BY WriteExpectedKeepsOrder, SaveKeepsOrder DEF Write
-----------------------------------------------------------------------------
\* The decoder.

LEMMA StepOfThePool == [DecoderNext]_decoderVars => [Next]_poolVars
BY DEF DecoderNext, DecoderThread, Main, ReadInput, OutputBestHypo, OutputNBestList,
       Next, Execute, Client, decoderVars, poolVars

\* The invariants of the pool are those of the decoder.
LEMMA PoolInvariants == DecoderSpec => [](PoolTypeOK /\ TasksPlaced)
<1>1. DecoderInit => PoolTypeOK /\ TasksPlaced
  BY TypeInit, PlacedInit DEF DecoderInit
<1>2. PoolTypeOK /\ TasksPlaced /\ [DecoderNext]_decoderVars => (PoolTypeOK /\ TasksPlaced)'
  BY StepOfThePool, TypeStep, PlacedStep
<1> QED BY <1>1, <1>2, PTL DEF DecoderSpec

\* As TasksInOnePlace, with the tasks of the decoder.
THEOREM DecoderTasksInOnePlace == DecoderSpec => []EveryJobInOnePlace
BY PoolInvariants, PlacedOnce, PTL

\* As StopCompletes, with the main() of the decoder as the client.
THEOREM DecoderStops == ProcessRemainingJobs => (DecoderSpec => []AllRunWhenStopped)
<1> SUFFICES ASSUME ProcessRemainingJobs PROVE DecoderSpec => []AllRunWhenStopped
  OBVIOUS
<1>1. DecoderInit => Progress
  BY ProgressInit DEF DecoderInit
<1>2. PoolTypeOK /\ Progress /\ [DecoderNext]_decoderVars => Progress'
  BY StepOfThePool, ProgressStep
<1>3. PoolTypeOK /\ TasksPlaced /\ Progress => AllRunWhenStopped
  BY AllRunAtTheEnd
<1> QED BY <1>1, <1>2, <1>3, PoolInvariants, PTL DEF DecoderSpec
-----------------------------------------------------------------------------
\* The sentences are numbered from 0: the default of -start-translation-id, and no <seg> tags.
NumberedFromZero == StartTranslationId = 0 /\ \A n \in 1 .. NumTasks : SegId[n] = 0

\* The sentences that main() has read, and those whose best translation has been written.
ReadCount == IF client \in {"submitLoop", "submitWait"} THEN submitted + 1 ELSE submitted
BestGiven == finished \cup {job[t] : t \in bestWritten}

\* What has been given to the collectors, and how the sentences are numbered.
Numbering ==
  /\ nextTranslationId = ReadCount
  /\ translationId = [n \in 1 .. ReadCount |-> n - 1]
  /\ client \in {"submitLoop", "submitWait"} => submitted < NumTasks

OutputsGiven ==
  /\ \A t \in bestWritten : t \in Threads /\ thread[t] = "run"
  /\ Ordered(best, BestGiven)
  /\ Ordered(nBest, finished)
\* Nothing is taken back from a collector.
GivenGrow == BestGiven \subseteq BestGiven' /\ finished \subseteq finished'
-----------------------------------------------------------------------------
LEMMA NumberingInit == ASSUME NumberedFromZero, DecoderInit PROVE Numbering
<1>1. <<>> = [n \in 1 .. 0 |-> n - 1]
  OBVIOUS
<1> QED BY <1>1 DEF NumberedFromZero, DecoderInit, Init, Numbering, ReadCount

\* Only main() reads, one sentence before each Submit.
LEMMA NumberingStep ==
  ASSUME NumberedFromZero, PoolTypeOK, Numbering, [DecoderNext]_decoderVars
  PROVE  Numbering'
<1>1. CASE ReadInput
  <2>1. CASE submitted < NumTasks
    <3>1. /\ client = "call" /\ client' = "submitLoop" /\ submitted' = submitted
          /\ SegId[submitted + 1] = 0 /\ submitted \in Nat
      BY <1>1, <2>1, ThreadPoolAssumption
      DEF ReadInput, Call, NumberedFromZero, PoolTypeOK
    <3>2. /\ translationId' = Append(translationId, nextTranslationId)
          /\ nextTranslationId' = nextTranslationId + 1
      BY <1>1, <2>1, <3>1 DEF ReadInput, GetInput
    <3>3. Append([n \in 1 .. submitted |-> n - 1], submitted)
            = [n \in 1 .. submitted + 1 |-> n - 1]
      <4>1. [n \in 1 .. submitted |-> n - 1] \in Seq(Int)
        BY <3>1
      <4> QED BY <3>1, <4>1
    <3> QED BY <2>1, <3>1, <3>2, <3>3 DEF Numbering, ReadCount
  <2>2. CASE ~(submitted < NumTasks)
    BY <1>1, <2>2 DEF ReadInput, Call, Numbering, ReadCount
  <2> QED BY <2>1, <2>2
<1>2. CASE Submit /\ UNCHANGED ioVars
  BY <1>2 DEF Submit, ioVars, Numbering, ReadCount, PoolTypeOK
<1>3. CASE (BeginStop \/ Drain \/ SetStopped \/ NotifyStopped \/ JoinAll) /\ UNCHANGED ioVars
  BY <1>3 DEF BeginStop, Drain, SetStopped, NotifyStopped, JoinAll, ioVars, Numbering, ReadCount
<1>4. ASSUME NEW t \in Threads, DecoderThread(t) PROVE Numbering'
  <2>1. /\ UNCHANGED <<nextTranslationId, translationId, submitted>>
        /\ client' \in {"submitLoop", "submitWait"} <=> client \in {"submitLoop", "submitWait"}
    BY <1>4 DEF DecoderThread, OutputBestHypo, OutputNBestList, FindJob, Woken, RunTask,
                NotifyThreadAvailable, CheckStopped, ioVars, poolVars
  <2> QED BY <2>1 DEF Numbering, ReadCount
<1>5. CASE SpuriousWakeup /\ UNCHANGED ioVars
  BY <1>5 DEF SpuriousWakeup, ioVars, Numbering, ReadCount
<1>6. CASE UNCHANGED decoderVars
  BY <1>6 DEF decoderVars, poolVars, ioVars, Numbering, ReadCount
<1> QED BY <1>1, <1>2, <1>3, <1>4, <1>5, <1>6 DEF DecoderNext, Main

\* What has been given to a collector are sentences that were submitted.
LEMMA GivenWereSubmitted ==
  ASSUME PoolTypeOK, TasksPlaced, OutputsGiven
  PROVE  /\ finished \in SUBSET (Nat \ {0}) /\ BestGiven \in SUBSET (Nat \ {0})
         /\ finished \subseteq 1 .. submitted /\ BestGiven \subseteq 1 .. submitted
         /\ IsFiniteSet(finished) /\ IsFiniteSet(BestGiven)
<1>1. finished \subseteq 1 .. submitted /\ submitted \in Nat
  BY DEF TasksPlaced, PoolTypeOK
<1>2. \A t \in bestWritten : job[t] \in 1 .. submitted
  BY DEF OutputsGiven, TasksPlaced, PoolTypeOK, WithAThread
<1>3. BestGiven \subseteq 1 .. submitted
  BY <1>1, <1>2 DEF BestGiven
<1>4. IsFiniteSet(1 .. submitted)
  BY <1>1, FS_Interval
<1>5. IsFiniteSet(finished) /\ IsFiniteSet(BestGiven)
  BY <1>1, <1>3, <1>4, FS_Subset
<1> QED BY <1>1, <1>3, <1>5

\* The steps that neither write nor end a task.
LEMMA OutputsStay ==
  ASSUME OutputsGiven, UNCHANGED <<best, nBest, bestWritten, finished>>,
         \A t \in bestWritten : job'[t] = job[t] /\ thread'[t] = thread[t]
  PROVE  OutputsGiven' /\ GivenGrow
<1>1. BestGiven' = BestGiven
  BY DEF BestGiven
<1> QED BY <1>1 DEF OutputsGiven, GivenGrow

\* A task gives its best translation to the collector once, and under its number.
LEMMA BestWrittenOnce ==
  ASSUME PoolTypeOK, TasksPlaced, Numbering, OutputsGiven, NEW t \in Threads, OutputBestHypo(t)
  PROVE  OutputsGiven' /\ GivenGrow
<1>1. /\ thread[t] = "run" /\ t \notin bestWritten /\ job[t] \in Nat \ {0}
      /\ best' = Write(best, translationId[job[t]], job[t])
      /\ bestWritten' = bestWritten \cup {t}
      /\ UNCHANGED <<job, thread, finished, nBest>>
  BY DEF OutputBestHypo, TasksPlaced, PoolTypeOK, poolVars
<1>2. job[t] \in 1 .. submitted /\ job[t] \notin finished
  BY <1>1 DEF TasksPlaced, WithAThread
<1>3. translationId[job[t]] = job[t] - 1
  BY <1>2 DEF Numbering, ReadCount, PoolTypeOK
<1>4. job[t] \notin BestGiven
  BY <1>1, <1>2 DEF BestGiven, OutputsGiven, TasksPlaced
<1>5. BestGiven' = BestGiven \cup {job[t]}
  BY <1>1 DEF BestGiven
<1>6. Ordered(best', BestGiven')
  BY <1>1, <1>3, <1>4, <1>5, GivenWereSubmitted, WriteKeepsOrder DEF OutputsGiven
<1> QED BY <1>1, <1>5, <1>6 DEF OutputsGiven, GivenGrow

LEMMA NBestWrittenOnce ==
  ASSUME PoolTypeOK, TasksPlaced, Numbering, OutputsGiven, NEW t \in Threads, OutputNBestList(t)
  PROVE  OutputsGiven' /\ GivenGrow
<1>1. /\ t \in bestWritten /\ thread[t] = "run" /\ job[t] \in Nat \ {0}
      /\ nBest' = Write(nBest, translationId[job[t]], job[t])
      /\ bestWritten' = bestWritten \ {t} /\ finished' = finished \cup {job[t]}
      /\ job' = [job EXCEPT ![t] = 0] /\ thread' = [thread EXCEPT ![t] = "notify"]
      /\ best' = best
  BY DEF OutputNBestList, RunTask, Goto, TasksPlaced, PoolTypeOK
<1>2. job[t] \in 1 .. submitted /\ job[t] \notin finished
  BY <1>1 DEF TasksPlaced, WithAThread
<1>3. translationId[job[t]] = job[t] - 1
  BY <1>2 DEF Numbering, ReadCount, PoolTypeOK
<1>4. BestGiven' = BestGiven
  BY <1>1 DEF BestGiven, OutputsGiven, PoolTypeOK
<1>5. Ordered(nBest', finished')
  BY <1>1, <1>2, <1>3, GivenWereSubmitted, WriteKeepsOrder DEF OutputsGiven
<1>6. \A u \in bestWritten' : u \in Threads /\ thread'[u] = "run"
  BY <1>1 DEF OutputsGiven, PoolTypeOK
<1> QED BY <1>1, <1>4, <1>5, <1>6 DEF OutputsGiven, GivenGrow

LEMMA OutputsInit == DecoderInit => OutputsGiven
<1> SUFFICES ASSUME DecoderInit PROVE OutputsGiven
  OBVIOUS
<1>1. bestWritten = {} /\ finished = {} /\ best = NewCollector /\ nBest = NewCollector
  BY DEF DecoderInit, Init
<1>2. BestGiven = {}
  BY <1>1 DEF BestGiven
<1> QED BY <1>1, <1>2, NewIsOrdered DEF OutputsGiven

LEMMA OutputsStep ==
  ASSUME PoolTypeOK, TasksPlaced, Numbering, OutputsGiven, [DecoderNext]_decoderVars
  PROVE  OutputsGiven' /\ GivenGrow
<1>1. ASSUME NEW t \in Threads, OutputBestHypo(t) PROVE OutputsGiven' /\ GivenGrow
  BY <1>1, BestWrittenOnce
<1>2. ASSUME NEW t \in Threads, OutputNBestList(t) PROVE OutputsGiven' /\ GivenGrow
  BY <1>2, NBestWrittenOnce
<1>3. ASSUME NEW t \in Threads,
             FindJob(t) \/ Woken(t) \/ NotifyThreadAvailable(t) \/ CheckStopped(t),
             UNCHANGED ioVars
      PROVE  OutputsGiven' /\ GivenGrow
  <2>1. thread[t] # "run" /\ UNCHANGED finished
    BY <1>3 DEF FindJob, Woken, NotifyThreadAvailable, CheckStopped
  <2>2. \A u \in Threads : u # t => job'[u] = job[u] /\ thread'[u] = thread[u]
    BY <1>3 DEF FindJob, Woken, TakeJob, NotifyThreadAvailable, CheckStopped, Goto, PoolTypeOK
  <2>3. \A u \in bestWritten : u \in Threads /\ u # t
    BY <2>1 DEF OutputsGiven
  <2> QED BY <1>3, <2>1, <2>2, <2>3, OutputsStay DEF ioVars
<1>4. CASE Main
  <2>1. UNCHANGED <<best, nBest, bestWritten, finished, job>>
    BY <1>4 DEF Main, ReadInput, Call, Submit, BeginStop, Drain, SetStopped, NotifyStopped, JoinAll,
                ioVars
  <2>2. \A t \in Threads : thread[t] = "run" => thread'[t] = thread[t]
    BY <1>4 DEF Main, ReadInput, Call, Submit, BeginStop, Drain, SetStopped, NotifyStopped, JoinAll,
                NotifyThreadNeeded
  <2> QED BY <2>1, <2>2, OutputsStay DEF OutputsGiven
<1>5. CASE SpuriousWakeup /\ UNCHANGED ioVars
  <2>1. UNCHANGED <<best, nBest, bestWritten, finished, job>>
    BY <1>5 DEF SpuriousWakeup, ioVars
  <2>2. \A t \in Threads : thread[t] = "run" => thread'[t] = thread[t]
    BY <1>5 DEF SpuriousWakeup, Goto, PoolTypeOK
  <2> QED BY <2>1, <2>2, OutputsStay DEF OutputsGiven
<1>6. CASE UNCHANGED decoderVars
  BY <1>6, OutputsStay DEF decoderVars, poolVars, ioVars
<1> QED BY <1>1, <1>2, <1>3, <1>4, <1>5, <1>6 DEF DecoderNext, DecoderThread

LEMMA DecoderInvariants ==
  NumberedFromZero => (DecoderSpec => [](PoolTypeOK /\ TasksPlaced /\ Numbering /\ OutputsGiven))
<1> SUFFICES ASSUME NumberedFromZero
             PROVE  DecoderSpec => [](PoolTypeOK /\ TasksPlaced /\ Numbering /\ OutputsGiven)
  OBVIOUS
<1>1. DecoderInit => Numbering /\ OutputsGiven
  BY NumberingInit, OutputsInit
<1>2. PoolTypeOK /\ TasksPlaced /\ Numbering /\ OutputsGiven /\ [DecoderNext]_decoderVars
        => (Numbering /\ OutputsGiven)'
  BY NumberingStep, OutputsStep
<1> QED BY <1>1, <1>2, PoolInvariants, PTL DEF DecoderSpec
-----------------------------------------------------------------------------
\* A collector c becomes d when it is given more of the first count outputs.
Fed(c, given, d, more, count) ==
  /\ Ordered(c, given) /\ Ordered(d, more)
  /\ given \subseteq more /\ more \subseteq 1 .. count /\ count \in Nat

Extended(c, d, count) ==
  \E last \in Len(c.stream) + 1 .. count : d.stream = [i \in 1 .. last |-> i]

\* It only ever writes more, and never more than there are.
LEMMA WritesInOrder ==
  ASSUME NEW given, NEW more, NEW c, NEW d, NEW count, Fed(c, given, d, more, count)
  PROVE  d.stream = c.stream \/ Extended(c, d, count)
<1> SUFFICES ASSUME d.stream # c.stream PROVE Extended(c, d, count)
  OBVIOUS
<1> DEFINE k == c.nextOutput
           last == d.nextOutput
<1>1. k \in Nat /\ last \in Nat /\ c.stream = [i \in 1 .. k |-> i] /\ d.stream = [i \in 1 .. last |-> i]
      /\ 1 .. k \subseteq more /\ last + 1 \notin more /\ 1 .. last \subseteq more
  BY DEF Ordered, Fed
<1>2. last \notin 0 .. k - 1
  BY <1>1
<1>3. k # last
  BY <1>1
<1>4. Len(c.stream) = k
  BY <1>1
<1>5. last <= count
  <2>1. last \in 1 .. last
    BY <1>1, <1>2, <1>3
  <2> QED BY <1>1, <2>1 DEF Fed
<1> QED BY <1>1, <1>2, <1>3, <1>4, <1>5 DEF Fed, Extended

\* What has been given to a collector has been read; this holds behind every step, too.
GivenRead ==
  /\ Len(translationId) \in Nat
  /\ BestGiven \subseteq 1 .. Len(translationId) /\ finished \subseteq 1 .. Len(translationId)

LEMMA GivenWereRead == PoolTypeOK /\ TasksPlaced /\ Numbering /\ OutputsGiven => GivenRead
<1> SUFFICES ASSUME PoolTypeOK, TasksPlaced, OutputsGiven, Numbering PROVE GivenRead
  OBVIOUS
<1>1. Len(translationId) = ReadCount /\ ReadCount \in Nat /\ submitted <= ReadCount
  BY DEF Numbering, ReadCount, PoolTypeOK
<1> QED BY <1>1, GivenWereSubmitted DEF PoolTypeOK, GivenRead

\* The step of OrderedOutput that a step of the decoder is.
LEMMA EmitOrRead ==
  ASSUME NumberedFromZero, PoolTypeOK, TasksPlaced, Numbering, OutputsGiven,
         GivenRead', Numbering', OutputsGiven', [DecoderNext]_decoderVars
  PROVE  /\ [BestOrdered!Next]_BestOrdered!outputVars
         /\ [NBestOrdered!Next]_NBestOrdered!outputVars
<1>1. /\ Len(translationId) = ReadCount /\ ReadCount \in Nat /\ submitted <= ReadCount
      /\ submitted \in Nat
  BY DEF Numbering, ReadCount, PoolTypeOK
<1>2. CASE ReadInput
  <2>1. UNCHANGED <<best, nBest>>
    BY <1>2 DEF ReadInput
  <2>2. CASE submitted < NumTasks
    <3>1. client = "call" /\ client' = "submitLoop" /\ submitted' = submitted
      BY <1>2, <2>2 DEF ReadInput, Call
    <3>2. Len(translationId) = submitted /\ Len(translationId)' = submitted + 1
      BY <1>1, <3>1 DEF Numbering, ReadCount
    <3> QED BY <2>1, <2>2, <3>2 DEF BestOrdered!Next, BestOrdered!Read, NBestOrdered!Next,
                                    NBestOrdered!Read
  <2>3. CASE ~(submitted < NumTasks)
    BY <1>2, <2>1, <2>3 DEF ReadInput, BestOrdered!outputVars, NBestOrdered!outputVars
  <2> QED BY <2>2, <2>3
<1>3. CASE ~ReadInput
  <2>1. UNCHANGED translationId
    BY <1>3 DEF DecoderNext, DecoderThread, Main, OutputBestHypo, OutputNBestList, decoderVars,
                ioVars
  <2>2. /\ BestGiven \subseteq BestGiven' /\ finished \subseteq finished'
    BY OutputsStep DEF GivenGrow
  <2>3. BestGiven' \subseteq 1 .. Len(translationId) /\ finished' \subseteq 1 .. Len(translationId)
    BY <2>1 DEF GivenRead
  <2>4. Len(translationId) \in Nat
    BY <1>1
  <2>5. best'.stream = best.stream \/ BestOrdered!Emit
    <3>1. Ordered(best, BestGiven) /\ Ordered(best', BestGiven')
      BY DEF OutputsGiven
    <3>2. Fed(best, BestGiven, best', BestGiven', Len(translationId))
      BY <2>2, <2>3, <2>4, <3>1 DEF Fed
    <3>3. best'.stream = best.stream \/ Extended(best, best', Len(translationId))
      BY <3>2, WritesInOrder
    <3> QED BY <2>1, <3>3 DEF Extended, BestOrdered!Emit
  <2>6. nBest'.stream = nBest.stream \/ NBestOrdered!Emit
    <3>1. Ordered(nBest, finished) /\ Ordered(nBest', finished')
      BY DEF OutputsGiven
    <3>2. Fed(nBest, finished, nBest', finished', Len(translationId))
      BY <2>2, <2>3, <2>4, <3>1 DEF Fed
    <3>3. nBest'.stream = nBest.stream \/ Extended(nBest, nBest', Len(translationId))
      BY <3>2, WritesInOrder
    <3> QED BY <2>1, <3>3 DEF Extended, NBestOrdered!Emit
  <2> QED BY <2>1, <2>5, <2>6 DEF BestOrdered!Next, NBestOrdered!Next, BestOrdered!outputVars,
                                  NBestOrdered!outputVars
<1> QED BY <1>2, <1>3

\* The safety of OutputsInOrder: the best translations and the n-best lists come out in the order
\* of the input, with no sentence left out, whatever the order in which the threads finish.  (That
\* all of them come out in the end is left to the run chart_decoder.)
THEOREM DecoderOrdersOutput ==
  NumberedFromZero =>
    (DecoderSpec => /\ BestOrdered!Init /\ [][BestOrdered!Next]_BestOrdered!outputVars
                    /\ NBestOrdered!Init /\ [][NBestOrdered!Next]_NBestOrdered!outputVars)
<1> SUFFICES ASSUME NumberedFromZero
             PROVE  DecoderSpec => /\ BestOrdered!Init /\ [][BestOrdered!Next]_BestOrdered!outputVars
                                   /\ NBestOrdered!Init
                                   /\ [][NBestOrdered!Next]_NBestOrdered!outputVars
  OBVIOUS
<1>1. DecoderInit => BestOrdered!Init /\ NBestOrdered!Init
  BY DEF DecoderInit, NewCollector, BestOrdered!Init, NBestOrdered!Init
<1> DEFINE I == PoolTypeOK /\ TasksPlaced /\ Numbering /\ OutputsGiven
<1>2. I /\ I' /\ GivenRead' /\ [DecoderNext]_decoderVars =>
        /\ [BestOrdered!Next]_BestOrdered!outputVars
        /\ [NBestOrdered!Next]_NBestOrdered!outputVars
  BY EmitOrRead
<1>3. DecoderSpec => []I
  BY DecoderInvariants
<1>4. I => GivenRead
  BY GivenWereRead
<1> HIDE DEF I
<1> QED BY <1>1, <1>2, <1>3, <1>4, PTL DEF DecoderSpec

\* Numbered from 0, every sentence has been written when main() is through (with another start id
\* none is: run chart_start_id).
THEOREM DecoderWritesAll ==
  NumberedFromZero /\ ProcessRemainingJobs => (DecoderSpec => []NothingLeftUnwritten)
<1> SUFFICES ASSUME NumberedFromZero, ProcessRemainingJobs
             PROVE  DecoderSpec => []NothingLeftUnwritten
  OBVIOUS
<1>1. PoolTypeOK /\ TasksPlaced /\ OutputsGiven /\ AllRunWhenStopped => NothingLeftUnwritten
  <2> SUFFICES ASSUME PoolTypeOK, TasksPlaced, OutputsGiven, AllRunWhenStopped, client = "done",
                      NEW n \in Jobs
               PROVE  \E i \in DOMAIN best.stream : best.stream[i] = n
    BY DEF NothingLeftUnwritten
  <2>1. n \in finished /\ finished = 1 .. NumTasks /\ NumTasks \in Nat
    BY ThreadPoolAssumption DEF AllRunWhenStopped, Jobs
  <2>2. finished \subseteq BestGiven /\ BestGiven \subseteq 1 .. submitted
    BY GivenWereSubmitted DEF BestGiven
  <2>3. bestWritten = {}
    BY ThreadPoolAssumption DEF OutputsGiven, AllRunWhenStopped
  <2>4. BestGiven = 1 .. NumTasks
    BY <2>1, <2>3 DEF BestGiven
  <2>5. best.nextOutput \in Nat /\ best.nextOutput + 1 \notin 1 .. NumTasks
    BY <2>4 DEF OutputsGiven, Ordered
  <2>6. best.nextOutput >= NumTasks
    BY <2>1, <2>5
  <2>7. best.stream = [i \in 1 .. best.nextOutput |-> i]
    BY DEF OutputsGiven, Ordered
  <2> QED BY <2>1, <2>5, <2>6, <2>7
<1>2. DecoderSpec => [](PoolTypeOK /\ TasksPlaced /\ Numbering /\ OutputsGiven)
  BY DecoderInvariants
<1>3. DecoderSpec => []AllRunWhenStopped
  BY DecoderStops
<1> QED BY <1>1, <1>2, <1>3, PTL
=============================================================================
