---------------------------- MODULE PCQueue_proofs ----------------------------
(***************************************************************************)
(* The ring of PCQueue keeps its account of slots, for any number of       *)
(* producers and consumers, any size and any throwing copies; therefore no *)
(* slot is read while it is written.  The account, with the types, is an   *)
(* inductive invariant: each step moves one thread from one of the counted *)
(* sets to another, or a semaphore by one, and the two cancel out.         *)
(***************************************************************************)
EXTENDS PCQueue, FiniteSetTheorems, SequenceTheorems, TLAPS

\* A thread that joins or leaves one of the counted sets changes its count by one.
LEMMA Joined ==
  ASSUME NEW A, IsFiniteSet(A), NEW t, t \notin A
  PROVE  Cardinality(A \cup {t}) = Cardinality(A) + 1
BY FS_AddElement

LEMMA Gone ==
  ASSUME NEW A, IsFiniteSet(A), NEW t \in A
  PROVE  /\ Cardinality(A \ {t}) = Cardinality(A) - 1
         /\ Cardinality(A) >= 1
<1>1. Cardinality(A \ {t}) = Cardinality(A) - 1 /\ IsFiniteSet(A \ {t})
  BY FS_RemoveElement
<1>2. Cardinality(A) \in Nat /\ Cardinality(A \ {t}) \in Nat
  BY <1>1, FS_CardinalityType
<1> QED BY <1>1, <1>2

\* The counted sets are finite, and their counts are numbers.
LEMMA Counted ==
  /\ IsFiniteSet(Filling) /\ IsFiniteSet(Filled) /\ IsFiniteSet(Emptying) /\ IsFiniteSet(Emptied)
  /\ Cardinality(Filling) \in Nat /\ Cardinality(Filled) \in Nat
  /\ Cardinality(Emptying) \in Nat /\ Cardinality(Emptied) \in Nat
<1>1. IsFiniteSet(Producers) /\ IsFiniteSet(Consumers)
  BY ThreadAssumption
<1>2. /\ Filling \in SUBSET Producers /\ Filled \in SUBSET Producers
      /\ Emptying \in SUBSET Consumers /\ Emptied \in SUBSET Consumers
  BY DEF Filling, Filled, Emptying, Emptied
<1>3. IsFiniteSet(Filling) /\ IsFiniteSet(Filled) /\ IsFiniteSet(Emptying) /\ IsFiniteSet(Emptied)
  BY <1>1, <1>2, FS_Subset
<1> QED BY <1>3, FS_CardinalityType
-----------------------------------------------------------------------------
\* Every reachable state has the types that the declarations of PCQueue give its members.
THEOREM TypeCorrect == Spec => []TypeOK
<1>1. Init => TypeOK
  BY SizeAssumption, MaxThrowsAssumption, ThreadAssumption DEF Init, TypeOK, Slots, Threads
<1>2. TypeOK /\ [Next]_vars => TypeOK'
  <2> SUFFICES ASSUME TypeOK, [Next]_vars PROVE TypeOK'
    OBVIOUS
  <2> USE SizeAssumption, MaxThrowsAssumption, ThreadAssumption
  <2>1. ASSUME NEW p \in Producers, ClaimEmpty(p) PROVE TypeOK'
    BY <2>1 DEF ClaimEmpty, Move, TypeOK, Threads
  <2>2. ASSUME NEW p \in Producers, BeginWrite(p) PROVE TypeOK'
    BY <2>2 DEF BeginWrite, Move, TypeOK, Threads
  <2>3. ASSUME NEW p \in Producers, EndWrite(p) PROVE TypeOK'
    <3>1. Following(produce_at_) \in Slots
      BY DEF Following, Slots, TypeOK
    <3> QED BY <2>3, <3>1 DEF EndWrite, Move, TypeOK, Threads
  <2>4. ASSUME NEW p \in Producers, WriteThrows(p) PROVE TypeOK'
    BY <2>4 DEF WriteThrows, Move, TypeOK, Threads
  <2>5. ASSUME NEW p \in Producers, PostUsed(p) PROVE TypeOK'
    BY <2>5 DEF PostUsed, Move, TypeOK, Threads
  <2>6. ASSUME NEW c \in Consumers, ClaimUsed(c) PROVE TypeOK'
    BY <2>6 DEF ClaimUsed, Move, TypeOK, Threads
  <2>7. ASSUME NEW c \in Consumers, BeginRead(c) PROVE TypeOK'
    BY <2>7 DEF BeginRead, Move, TypeOK, Threads
  <2>8. ASSUME NEW c \in Consumers, EndRead(c) PROVE TypeOK'
    <3>1. Following(consume_at_) \in Slots
      BY DEF Following, Slots, TypeOK
    <3> QED BY <2>8, <3>1 DEF EndRead, Move, TypeOK, Threads
  <2>9. ASSUME NEW c \in Consumers, ReadThrows(c) PROVE TypeOK'
    BY <2>9 DEF ReadThrows, Move, TypeOK, Threads
  <2>10. ASSUME NEW c \in Consumers, PostEmpty(c) PROVE TypeOK'
    BY <2>10 DEF PostEmpty, Move, TypeOK, Threads
  <2>11. CASE UNCHANGED vars
    BY <2>11 DEF vars, TypeOK
  <2> QED
    BY <2>1, <2>2, <2>3, <2>4, <2>5, <2>6, <2>7, <2>8, <2>9, <2>10, <2>11
    DEF Next, Produce, Consume
<1> QED BY <1>1, <1>2, PTL DEF Spec
-----------------------------------------------------------------------------
\* One place further round the ring.
LEMMA OneFurther ==
  ASSUME TypeOK, NEW n \in Nat, n < Size
  PROVE  Following(SlotBehind(n)) = SlotBehind(n + 1)
BY SizeAssumption DEF TypeOK, Slots, Following, SlotBehind

\* What a step of one producer, or of one consumer, does to the counts.
LEMMA ProducerMoves ==
  ASSUME TypeOK, NEW p \in Producers, NEW from, NEW to, Move(p, from, to)
  PROVE  /\ Emptying' = Emptying /\ Emptied' = Emptied
         /\ from = "outside" /\ to = "claimed" =>
              Cardinality(Filling') = Cardinality(Filling) + 1 /\ Filled' = Filled
         /\ from = "claimed" /\ to = "writing" => Filling' = Filling /\ Filled' = Filled
         /\ from = "writing" /\ to = "outside" =>
              Cardinality(Filling') = Cardinality(Filling) - 1 /\ Filled' = Filled
         /\ from = "writing" /\ to = "written" =>
              /\ Cardinality(Filling') = Cardinality(Filling) - 1
              /\ Cardinality(Filling) >= 1
              /\ Cardinality(Filled') = Cardinality(Filled) + 1
         /\ from = "written" /\ to = "outside" =>
              Filling' = Filling /\ Cardinality(Filled') = Cardinality(Filled) - 1
<1>1. Emptying' = Emptying /\ Emptied' = Emptied
  BY ThreadAssumption DEF TypeOK, Threads, Move, Filling, Filled, Emptying, Emptied
<1>2. CASE from = "outside" /\ to = "claimed"
  <2>1. p \notin Filling /\ Filling' = Filling \cup {p} /\ Filled' = Filled
    BY <1>2, ThreadAssumption
    DEF TypeOK, Threads, Move, Filling, Filled, Emptying, Emptied
  <2> QED BY <1>1, <1>2, <2>1, Counted, Joined
<1>3. CASE from = "claimed" /\ to = "writing"
  BY <1>1, <1>3, ThreadAssumption DEF TypeOK, Threads, Move, Filling, Filled, Emptying, Emptied
<1>4. CASE from = "writing" /\ to = "outside"
  <2>1. p \in Filling /\ Filling' = Filling \ {p} /\ Filled' = Filled
    BY <1>4, ThreadAssumption
    DEF TypeOK, Threads, Move, Filling, Filled, Emptying, Emptied
  <2> QED BY <1>1, <1>4, <2>1, Counted, Gone
<1>5. CASE from = "writing" /\ to = "written"
  <2>1. p \in Filling /\ Filling' = Filling \ {p}
    BY <1>5, ThreadAssumption
    DEF TypeOK, Threads, Move, Filling, Filled, Emptying, Emptied
  <2>2. p \notin Filled /\ Filled' = Filled \cup {p}
    BY <1>5, ThreadAssumption
    DEF TypeOK, Threads, Move, Filling, Filled, Emptying, Emptied
  <2>3. Cardinality(Filling') = Cardinality(Filling) - 1 /\ Cardinality(Filling) >= 1
    BY <2>1, Counted, Gone
  <2>4. Cardinality(Filled') = Cardinality(Filled) + 1
    BY <2>2, Counted, Joined
  <2> QED BY <1>1, <1>5, <2>3, <2>4
<1>6. CASE from = "written" /\ to = "outside"
  <2>1. p \in Filled /\ Filled' = Filled \ {p} /\ Filling' = Filling
    BY <1>6, ThreadAssumption
    DEF TypeOK, Threads, Move, Filling, Filled, Emptying, Emptied
  <2> QED BY <1>1, <1>6, <2>1, Counted, Gone
<1> QED BY <1>1, <1>2, <1>3, <1>4, <1>5, <1>6

LEMMA ConsumerMoves ==
  ASSUME TypeOK, NEW c \in Consumers, NEW from, NEW to, Move(c, from, to)
  PROVE  /\ Filling' = Filling /\ Filled' = Filled
         /\ from = "outside" /\ to = "claimed" =>
              Cardinality(Emptying') = Cardinality(Emptying) + 1 /\ Emptied' = Emptied
         /\ from = "claimed" /\ to = "reading" => Emptying' = Emptying /\ Emptied' = Emptied
         /\ from = "reading" /\ to = "outside" =>
              Cardinality(Emptying') = Cardinality(Emptying) - 1 /\ Emptied' = Emptied
         /\ from = "reading" /\ to = "read" =>
              /\ Cardinality(Emptying') = Cardinality(Emptying) - 1
              /\ Cardinality(Emptying) >= 1
              /\ Cardinality(Emptied') = Cardinality(Emptied) + 1
         /\ from = "read" /\ to = "outside" =>
              Emptying' = Emptying /\ Cardinality(Emptied') = Cardinality(Emptied) - 1
<1>1. Filling' = Filling /\ Filled' = Filled
  BY ThreadAssumption DEF TypeOK, Threads, Move, Filling, Filled, Emptying, Emptied
<1>2. CASE from = "outside" /\ to = "claimed"
  <2>1. c \notin Emptying /\ Emptying' = Emptying \cup {c} /\ Emptied' = Emptied
    BY <1>2, ThreadAssumption
    DEF TypeOK, Threads, Move, Filling, Filled, Emptying, Emptied
  <2> QED BY <1>1, <1>2, <2>1, Counted, Joined
<1>3. CASE from = "claimed" /\ to = "reading"
  BY <1>1, <1>3, ThreadAssumption DEF TypeOK, Threads, Move, Filling, Filled, Emptying, Emptied
<1>4. CASE from = "reading" /\ to = "outside"
  <2>1. c \in Emptying /\ Emptying' = Emptying \ {c} /\ Emptied' = Emptied
    BY <1>4, ThreadAssumption
    DEF TypeOK, Threads, Move, Filling, Filled, Emptying, Emptied
  <2> QED BY <1>1, <1>4, <2>1, Counted, Gone
<1>5. CASE from = "reading" /\ to = "read"
  <2>1. c \in Emptying /\ Emptying' = Emptying \ {c}
    BY <1>5, ThreadAssumption
    DEF TypeOK, Threads, Move, Filling, Filled, Emptying, Emptied
  <2>2. c \notin Emptied /\ Emptied' = Emptied \cup {c}
    BY <1>5, ThreadAssumption
    DEF TypeOK, Threads, Move, Filling, Filled, Emptying, Emptied
  <2>3. Cardinality(Emptying') = Cardinality(Emptying) - 1 /\ Cardinality(Emptying) >= 1
    BY <2>1, Counted, Gone
  <2>4. Cardinality(Emptied') = Cardinality(Emptied) + 1
    BY <2>2, Counted, Joined
  <2> QED BY <1>1, <1>5, <2>3, <2>4
<1>6. CASE from = "read" /\ to = "outside"
  <2>1. c \in Emptied /\ Emptied' = Emptied \ {c} /\ Emptying' = Emptying
    BY <1>6, ThreadAssumption
    DEF TypeOK, Threads, Move, Filling, Filled, Emptying, Emptied
  <2> QED BY <1>1, <1>6, <2>1, Counted, Gone
<1> QED BY <1>1, <1>2, <1>3, <1>4, <1>5, <1>6
-----------------------------------------------------------------------------
\* The account does not change when no end of the ring moves and each side of it balances.
LEMMA Balanced ==
  ASSUME TypeOK, SlotsAccounted, Occupied' = Occupied,
         UNCHANGED <<produce_at_, consume_at_>>,
         used_' + Cardinality(Emptying') + Cardinality(Filled')
           = used_ + Cardinality(Emptying) + Cardinality(Filled)
  PROVE  SlotsAccounted'
<1>1. SlotBehind(Occupied)' = SlotBehind(Occupied)
  BY DEF SlotBehind
<1> QED BY <1>1 DEF SlotsAccounted

LEMMA AccountInit == Init => SlotsAccounted
<1> SUFFICES ASSUME Init PROVE SlotsAccounted
  OBVIOUS
<1>1. Filling = {} /\ Filled = {} /\ Emptying = {} /\ Emptied = {}
  BY DEF Init, Threads, Filling, Filled, Emptying, Emptied
<1>2. Cardinality({}) = 0
  BY FS_EmptySet
<1> QED BY <1>1, <1>2, SizeAssumption DEF Init, SlotsAccounted, Occupied, SlotBehind

\* All steps of a producer but the end of a copy leave the two ends, and what lies between, alone.
LEMMA ProducerStays ==
  ASSUME TypeOK, NEW p \in Producers,
         ClaimEmpty(p) \/ BeginWrite(p) \/ WriteThrows(p) \/ PostUsed(p)
  PROVE  /\ Occupied' = Occupied /\ UNCHANGED <<produce_at_, consume_at_>>
         /\ used_' + Cardinality(Emptying') + Cardinality(Filled')
              = used_ + Cardinality(Emptying) + Cardinality(Filled)
<1>1. CASE ClaimEmpty(p)
  <2>1. Move(p, "outside", "claimed") /\ empty_' = empty_ - 1
        /\ UNCHANGED <<used_, produce_at_, consume_at_>>
    BY <1>1 DEF ClaimEmpty
  <2>2. Occupied' = Occupied
    BY <2>1, ProducerMoves, Counted, SizeAssumption DEF Occupied, TypeOK
  <2> QED BY <2>1, <2>2, ProducerMoves
<1>2. CASE BeginWrite(p)
  <2>1. Move(p, "claimed", "writing") /\ UNCHANGED <<empty_, used_, produce_at_, consume_at_>>
    BY <1>2 DEF BeginWrite
  <2>2. Occupied' = Occupied
    BY <2>1, ProducerMoves DEF Occupied
  <2> QED BY <2>1, <2>2, ProducerMoves
<1>3. CASE WriteThrows(p)
  <2>1. Move(p, "writing", "outside") /\ empty_' = empty_ + 1
        /\ UNCHANGED <<used_, produce_at_, consume_at_>>
    BY <1>3 DEF WriteThrows
  <2>2. Occupied' = Occupied
    BY <2>1, ProducerMoves, Counted, SizeAssumption DEF Occupied, TypeOK
  <2> QED BY <2>1, <2>2, ProducerMoves
<1>4. CASE PostUsed(p)
  <2>1. Move(p, "written", "outside") /\ used_' = used_ + 1
        /\ UNCHANGED <<empty_, produce_at_, consume_at_>>
    BY <1>4 DEF PostUsed
  <2>2. Occupied' = Occupied
    BY <2>1, ProducerMoves DEF Occupied
  <2>3. used_' + Cardinality(Emptying') + Cardinality(Filled')
          = used_ + Cardinality(Emptying) + Cardinality(Filled)
    BY <2>1, ProducerMoves, Counted DEF TypeOK
  <2> QED BY <2>1, <2>2, <2>3
<1> QED BY <1>1, <1>2, <1>3, <1>4

\* The same for a consumer.
LEMMA ConsumerStays ==
  ASSUME TypeOK, NEW c \in Consumers,
         ClaimUsed(c) \/ BeginRead(c) \/ ReadThrows(c) \/ PostEmpty(c)
  PROVE  /\ Occupied' = Occupied /\ UNCHANGED <<produce_at_, consume_at_>>
         /\ used_' + Cardinality(Emptying') + Cardinality(Filled')
              = used_ + Cardinality(Emptying) + Cardinality(Filled)
<1>1. CASE ClaimUsed(c)
  <2>1. Move(c, "outside", "claimed") /\ used_' = used_ - 1
        /\ UNCHANGED <<empty_, produce_at_, consume_at_>>
    BY <1>1 DEF ClaimUsed
  <2>2. Occupied' = Occupied
    BY <2>1, ConsumerMoves DEF Occupied
  <2>3. used_' + Cardinality(Emptying') + Cardinality(Filled')
          = used_ + Cardinality(Emptying) + Cardinality(Filled)
    BY <2>1, ConsumerMoves, Counted DEF TypeOK
  <2> QED BY <2>1, <2>2, <2>3
<1>2. CASE BeginRead(c)
  <2>1. Move(c, "claimed", "reading") /\ UNCHANGED <<empty_, used_, produce_at_, consume_at_>>
    BY <1>2 DEF BeginRead
  <2>2. Occupied' = Occupied
    BY <2>1, ConsumerMoves DEF Occupied
  <2> QED BY <2>1, <2>2, ConsumerMoves
<1>3. CASE ReadThrows(c)
  <2>1. Move(c, "reading", "outside") /\ used_' = used_ + 1
        /\ UNCHANGED <<empty_, produce_at_, consume_at_>>
    BY <1>3 DEF ReadThrows
  <2>2. Occupied' = Occupied
    BY <2>1, ConsumerMoves DEF Occupied
  <2>3. used_' + Cardinality(Emptying') + Cardinality(Filled')
          = used_ + Cardinality(Emptying) + Cardinality(Filled)
    BY <2>1, ConsumerMoves, Counted DEF TypeOK
  <2> QED BY <2>1, <2>2, <2>3
<1>4. CASE PostEmpty(c)
  <2>1. Move(c, "read", "outside") /\ empty_' = empty_ + 1
        /\ UNCHANGED <<used_, produce_at_, consume_at_>>
    BY <1>4 DEF PostEmpty
  <2>2. Occupied' = Occupied
    BY <2>1, ConsumerMoves, Counted, SizeAssumption DEF Occupied, TypeOK
  <2> QED BY <2>1, <2>2, ConsumerMoves
<1> QED BY <1>1, <1>2, <1>3, <1>4

\* The end of a copy into the ring, and of one out of it.
LEMMA Written ==
  ASSUME TypeOK, SlotsAccounted, NEW p \in Producers, EndWrite(p)
  PROVE  /\ Occupied' = Occupied + 1 /\ Occupied \in Nat /\ Occupied < Size
         /\ Occupied' = used_' + Cardinality(Emptying') + Cardinality(Filled')
         /\ consume_at_' = consume_at_ /\ produce_at_' = Following(produce_at_)
<1>1. /\ Move(p, "writing", "written") /\ produce_at_' = Following(produce_at_)
      /\ UNCHANGED <<empty_, used_, consume_at_>>
  BY DEF EndWrite
<1>2. /\ Emptying' = Emptying /\ Emptied' = Emptied
      /\ Cardinality(Filling') = Cardinality(Filling) - 1 /\ Cardinality(Filling) >= 1
      /\ Cardinality(Filled') = Cardinality(Filled) + 1
  BY <1>1, ProducerMoves
<1>3. Occupied' = Occupied + 1 /\ Occupied < Size /\ Occupied \in Nat
  BY <1>1, <1>2, Counted, SizeAssumption DEF Occupied, SlotsAccounted, TypeOK
<1> QED BY <1>1, <1>2, <1>3, Counted DEF SlotsAccounted, TypeOK

LEMMA WasRead ==
  ASSUME TypeOK, SlotsAccounted, NEW c \in Consumers, EndRead(c)
  PROVE  /\ Occupied' = Occupied - 1 /\ Occupied \in Nat /\ Occupied >= 1 /\ Occupied <= Size
         /\ Occupied' = used_' + Cardinality(Emptying') + Cardinality(Filled')
         /\ produce_at_' = produce_at_ /\ consume_at_' = Following(consume_at_)
<1>1. /\ Move(c, "reading", "read") /\ consume_at_' = Following(consume_at_)
      /\ UNCHANGED <<empty_, used_, produce_at_>>
  BY DEF EndRead
<1>2. /\ Filling' = Filling /\ Filled' = Filled
      /\ Cardinality(Emptying') = Cardinality(Emptying) - 1 /\ Cardinality(Emptying) >= 1
      /\ Cardinality(Emptied') = Cardinality(Emptied) + 1
  BY <1>1, ConsumerMoves
<1>3. Occupied' = Occupied - 1 /\ Occupied >= 1 /\ Occupied \in Nat /\ Occupied <= Size
  BY <1>1, <1>2, Counted, SizeAssumption DEF Occupied, SlotsAccounted, TypeOK
<1> QED BY <1>1, <1>2, <1>3, Counted DEF SlotsAccounted, TypeOK

\* Nothing that the account is about has changed.
LEMMA NothingMoves ==
  ASSUME UNCHANGED vars
  PROVE  /\ Occupied' = Occupied /\ UNCHANGED <<used_, produce_at_, consume_at_, storage_>>
         /\ Emptying' = Emptying /\ Filled' = Filled
<1>1. /\ Filling' = Filling /\ Filled' = Filled /\ Emptying' = Emptying /\ Emptied' = Emptied
      /\ UNCHANGED <<empty_, used_, produce_at_, consume_at_, storage_>>
  BY DEF vars, Filling, Filled, Emptying, Emptied
<1> QED BY <1>1 DEF Occupied

LEMMA AccountStep ==
  ASSUME TypeOK, SlotsAccounted, [Next]_vars
  PROVE  SlotsAccounted'
<1>1. ASSUME NEW p \in Producers, Produce(p), ~EndWrite(p) PROVE SlotsAccounted'
  BY <1>1, ProducerStays, Balanced DEF Produce
<1>2. ASSUME NEW p \in Producers, EndWrite(p) PROVE SlotsAccounted'
  <2>1. /\ Occupied' = Occupied + 1 /\ Occupied \in Nat /\ Occupied < Size
        /\ Occupied' = used_' + Cardinality(Emptying') + Cardinality(Filled')
        /\ consume_at_' = consume_at_ /\ produce_at_' = Following(produce_at_)
    BY <1>2, Written
  <2>2. produce_at_' = SlotBehind(Occupied')
    BY <2>1, OneFurther DEF SlotsAccounted
  <2>3. SlotBehind(Occupied)' = SlotBehind(Occupied')
    BY <2>1 DEF SlotBehind
  <2> QED BY <2>1, <2>2, <2>3, SizeAssumption DEF SlotsAccounted
<1>3. ASSUME NEW c \in Consumers, Consume(c), ~EndRead(c) PROVE SlotsAccounted'
  BY <1>3, ConsumerStays, Balanced DEF Consume
<1>4. ASSUME NEW c \in Consumers, EndRead(c) PROVE SlotsAccounted'
  <2>1. /\ Occupied' = Occupied - 1 /\ Occupied \in Nat /\ Occupied >= 1 /\ Occupied <= Size
        /\ Occupied' = used_' + Cardinality(Emptying') + Cardinality(Filled')
        /\ produce_at_' = produce_at_ /\ consume_at_' = Following(consume_at_)
    BY <1>4, WasRead
  <2>2. SlotBehind(Occupied)' = SlotBehind(Occupied)
    BY <2>1, SizeAssumption DEF TypeOK, Slots, Following, SlotBehind
  <2> QED BY <2>1, <2>2, SizeAssumption DEF SlotsAccounted
<1>5. CASE UNCHANGED vars
  BY <1>5, NothingMoves, Balanced
<1> QED BY <1>1, <1>2, <1>3, <1>4, <1>5 DEF Next

\* No interleaving and no throwing copy makes the semaphores lose count of a slot, and the two
\* ends of the ring stay as far apart as there are occupied slots (util/pcqueue.hh).
THEOREM SlotsKept == Spec => []SlotsAccounted
<1>1. Init => SlotsAccounted
  BY AccountInit
<1>2. TypeOK /\ SlotsAccounted /\ [Next]_vars => SlotsAccounted'
  BY AccountStep
<1> QED BY <1>1, <1>2, TypeCorrect, PTL DEF Spec

\* Producers and consumers lock different mutexes; by the account alone, a slot that is written
\* is not one that is read: between them lie 1 to Size - 1 occupied slots.
THEOREM NoTornRead == Spec => []NoSlotReadWhileWritten
<1>1. TypeOK /\ SlotsAccounted => NoSlotReadWhileWritten
  <2> SUFFICES ASSUME TypeOK, SlotsAccounted,
                      NEW p \in Producers, NEW c \in Consumers,
                      at[p] = "writing", at[c] = "reading"
               PROVE  produce_at_ # consume_at_
    BY DEF NoSlotReadWhileWritten
  <2>1. p \in Filling /\ c \in Emptying
    BY DEF Filling, Emptying
  <2>2. Cardinality(Filling) >= 1 /\ Cardinality(Emptying) >= 1
    BY <2>1, Counted, Gone
  <2>3. Occupied >= 1 /\ Occupied <= Size - 1 /\ Occupied \in Nat
    BY <2>2, Counted, SizeAssumption DEF SlotsAccounted, Occupied, TypeOK
  <2> QED BY <2>3, SizeAssumption DEF SlotsAccounted, SlotBehind, TypeOK, Slots
<1> QED BY <1>1, TypeCorrect, SlotsKept, PTL
-----------------------------------------------------------------------------
\* A thread that is about to produce has something to produce.
CallsLeft == \A p \in Producers : at[p] \in {"claimed", "writing"} => calls[p] < Len(Items[p])

LEMMA CallsLeftAlways == Spec => []CallsLeft
<1>1. Init => CallsLeft
  BY DEF Init, CallsLeft, Threads
<1>2. TypeOK /\ CallsLeft /\ [Next]_vars => CallsLeft'
  BY ThreadAssumption
  DEF CallsLeft, TypeOK, Threads, Next, vars, Produce, Consume, Move, ClaimEmpty, BeginWrite,
      EndWrite, WriteThrows, PostUsed, ClaimUsed, BeginRead, EndRead, ReadThrows, PostEmpty
<1> QED BY <1>1, <1>2, TypeCorrect, PTL DEF Spec

\* The places of the ring are its slots, and different for different distances.
LEMMA PlacesAreSlots ==
  ASSUME TypeOK
  PROVE  /\ \A n \in 0..Size - 1 : SlotBehind(n) \in Slots
         /\ \A n, m \in 0..Size - 1 : SlotBehind(n) = SlotBehind(m) => n = m
BY SizeAssumption DEF TypeOK, Slots, SlotBehind

\* The contents are a sequence, and as long as there are occupied slots.
LEMMA ContentsAreASequence ==
  ASSUME TypeOK, Occupied \in 0..Size, NEW S, \A slot \in Slots : storage_[slot] \in S
  PROVE  /\ Contents \in Seq(S)
         /\ Len(Contents) = Occupied
         /\ \A i \in 1..Occupied : Contents[i] = storage_[SlotBehind(i - 1)]
<1>1. \A i \in 1..Occupied : SlotBehind(i - 1) \in Slots
  BY PlacesAreSlots, SizeAssumption
<1>2. Contents \in [1..Occupied -> S]
  BY <1>1 DEF Contents
<1>3. Contents \in Seq(S)
  BY <1>2, SizeAssumption
<1>4. Len(Contents) = Occupied
  BY <1>2, <1>3, SizeAssumption
<1> QED BY <1>3, <1>4 DEF Contents

\* They stay what they are if their slots do.
LEMMA SameContents ==
  ASSUME TypeOK, SlotsAccounted, Occupied' = Occupied, consume_at_' = consume_at_,
         \A slot \in Slots : slot # SlotBehind(Occupied) \/ Occupied = Size
                             => storage_'[slot] = storage_[slot]
  PROVE  Contents' = Contents
<1>1. Occupied \in 0..Size
  BY DEF SlotsAccounted
<1>2. \A n \in 0..Size : SlotBehind(n)' = SlotBehind(n)
  BY DEF SlotBehind
<1>3. ASSUME NEW i \in 1..Occupied
      PROVE  storage_'[SlotBehind(i - 1)] = storage_[SlotBehind(i - 1)]
  <2>1. i - 1 \in 0..Size - 1 /\ i - 1 < Occupied
    BY <1>1, SizeAssumption
  <2>2. SlotBehind(i - 1) \in Slots
    BY <2>1, PlacesAreSlots
  <2>3. SlotBehind(i - 1) # SlotBehind(Occupied) \/ Occupied = Size
    BY <1>1, <2>1, PlacesAreSlots, SizeAssumption
  <2> QED BY <2>2, <2>3
<1>4. ASSUME NEW i \in 1..Occupied PROVE SlotBehind(i - 1)' = SlotBehind(i - 1)
  BY <1>1, <1>2, SizeAssumption
<1> QED BY <1>3, <1>4 DEF Contents

\* Writing behind the last occupied slot appends to them ...
LEMMA ContentsAppended ==
  ASSUME TypeOK, SlotsAccounted, NEW p \in Producers, EndWrite(p)
  PROVE  Contents' = Append(Contents, Items[p][calls[p] + 1]) /\ Len(Contents) < Size
<1> DEFINE value == Items[p][calls[p] + 1]
           S == {storage_[slot] : slot \in Slots} \cup {value}
<1>1. /\ Occupied' = Occupied + 1 /\ Occupied \in Nat /\ Occupied < Size
      /\ consume_at_' = consume_at_ /\ produce_at_ = SlotBehind(Occupied)
  BY Written DEF SlotsAccounted
<1>2. /\ DOMAIN storage_ = Slots /\ produce_at_ \in Slots
      /\ storage_' = [storage_ EXCEPT ![produce_at_] = value]
  BY DEF EndWrite, TypeOK
<1>3. ASSUME NEW i \in 1..Occupied PROVE storage_'[SlotBehind(i - 1)] = storage_[SlotBehind(i - 1)]
  <2>1. i - 1 \in 0..Size - 1 /\ Occupied \in 0..Size - 1 /\ i - 1 # Occupied
    BY <1>1, SizeAssumption
  <2>2. SlotBehind(i - 1) \in Slots /\ SlotBehind(i - 1) # produce_at_
    BY <1>1, <2>1, PlacesAreSlots
  <2> QED BY <1>2, <2>2
<1>4. storage_'[SlotBehind(Occupied)] = value
  BY <1>1, <1>2
<1>5. /\ Contents \in Seq(S) /\ Len(Contents) = Occupied
      /\ \A i \in 1..Occupied : Contents[i] = storage_[SlotBehind(i - 1)]
  <2>1. Occupied \in 0..Size /\ \A slot \in Slots : storage_[slot] \in S
    BY <1>1, SizeAssumption
  <2> HIDE DEF S
  <2> QED BY <2>1, ContentsAreASequence
<1>6. \A i \in 1..Occupied + 1 : SlotBehind(i - 1)' = SlotBehind(i - 1)
  BY <1>1 DEF SlotBehind
<1>7. Contents' = [i \in 1..Occupied + 1 |-> storage_'[SlotBehind(i - 1)]]
  BY <1>1, <1>6 DEF Contents
<1>8. Contents' = [i \in 1..Occupied + 1 |-> IF i = Occupied + 1 THEN value ELSE Contents[i]]
  BY <1>1, <1>3, <1>4, <1>5, <1>7
<1>9. Append(Contents, value) \in Seq(S) /\ Len(Append(Contents, value)) = Occupied + 1
  BY <1>1, <1>5
<1>10. Append(Contents, value)
         = [i \in 1..Occupied + 1 |-> IF i = Occupied + 1 THEN value ELSE Contents[i]]
  BY <1>1, <1>5, <1>9
<1> QED BY <1>1, <1>5, <1>8, <1>10

\* ... and reading the first one leaves the others.
LEMMA ContentsConsumed ==
  ASSUME TypeOK, SlotsAccounted, NEW c \in Consumers, EndRead(c)
  PROVE  /\ Contents # <<>> /\ storage_[consume_at_] = Head(Contents)
         /\ Contents' = Tail(Contents)
<1> DEFINE S == {storage_[slot] : slot \in Slots}
<1>1. /\ Occupied' = Occupied - 1 /\ Occupied \in Nat /\ Occupied >= 1 /\ Occupied <= Size
      /\ consume_at_' = Following(consume_at_) /\ storage_' = storage_
  BY WasRead DEF EndRead
<1>2. /\ Contents \in Seq(S) /\ Len(Contents) = Occupied
      /\ \A i \in 1..Occupied : Contents[i] = storage_[SlotBehind(i - 1)]
  BY <1>1, ContentsAreASequence, SizeAssumption
<1>3. SlotBehind(0) = consume_at_
  BY SizeAssumption DEF SlotBehind, TypeOK, Slots
<1>4. Contents # <<>> /\ Head(Contents) = Contents[1]
  BY <1>1, <1>2
<1>5. \A i \in 1..Occupied - 1 : SlotBehind(i - 1)' = SlotBehind(i)
  BY <1>1, SizeAssumption DEF TypeOK, Slots, Following, SlotBehind
<1>6. Contents' = [i \in 1..Occupied - 1 |-> storage_[SlotBehind(i)]]
  BY <1>1, <1>5 DEF Contents
<1>7. Contents' = [i \in 1..Occupied - 1 |-> Contents[i + 1]]
  BY <1>1, <1>2, <1>6
<1>8. Tail(Contents) = [i \in 1..Occupied - 1 |-> Contents[i + 1]]
  <2>1. /\ Tail(Contents) \in Seq(S) /\ Len(Tail(Contents)) = Occupied - 1
        /\ \A i \in 1..Occupied - 1 : Tail(Contents)[i] = Contents[i + 1]
    BY <1>1, <1>2, <1>4, HeadTailProperties
  <2>2. Tail(Contents) \in [1..Occupied - 1 -> S]
    BY <2>1, LenProperties
  <2> QED BY <2>1, <2>2
<1> QED BY <1>1, <1>2, <1>3, <1>4, <1>7, <1>8
-----------------------------------------------------------------------------
\* The ring begins as the empty queue of BoundedFIFO ...
LEMMA InitMaps == Init => FIFO!Init
<1> SUFFICES ASSUME Init PROVE FIFO!Init
  OBVIOUS
<1>1. Filling = {} /\ Emptied = {}
  BY DEF Init, Threads, Filling, Emptied
<1>2. Occupied = 0
  BY <1>1, FS_EmptySet, SizeAssumption DEF Init, Occupied
<1>3. Contents = <<>>
  BY <1>2 DEF Contents
<1> QED BY <1>3 DEF Init, FIFO!Init

\* ... and each of its steps is one of BoundedFIFO, or none.
LEMMA StepMaps ==
  ASSUME TypeOK, SlotsAccounted, CallsLeft, [Next]_vars
  PROVE  [FIFO!Next]_FIFO!vars
<1> USE DEF FIFO!vars
<1>1. ASSUME NEW p \in Producers, EndWrite(p) PROVE FIFO!Produce(p)
  <2>1. Contents' = Append(Contents, Items[p][calls[p] + 1]) /\ Len(Contents) < Size
    BY <1>1, ContentsAppended
  <2>2. calls[p] < Len(Items[p]) /\ calls' = [calls EXCEPT ![p] = @ + 1] /\ got' = got
    BY <1>1 DEF EndWrite, Move, CallsLeft
  <2> QED BY <2>1, <2>2 DEF FIFO!Produce, FIFO!Returns
<1>2. ASSUME NEW p \in Producers, WriteThrows(p) PROVE FIFO!Throw(p)
  <2>1. Contents' = Contents
    BY <1>2, ProducerStays, SameContents DEF WriteThrows
  <2>2. calls[p] < Len(Items[p]) /\ calls' = [calls EXCEPT ![p] = @ + 1] /\ got' = got
    BY <1>2 DEF WriteThrows, Move, CallsLeft
  <2> QED BY <2>1, <2>2 DEF FIFO!Throw, FIFO!Returns
<1>3. ASSUME NEW p \in Producers, BeginWrite(p) PROVE UNCHANGED FIFO!vars
  <2>1. /\ storage_' = [storage_ EXCEPT ![produce_at_] = Torn]
        /\ produce_at_ = SlotBehind(Occupied) /\ DOMAIN storage_ = Slots
    BY <1>3 DEF BeginWrite, SlotsAccounted, TypeOK
  <2>2. Contents' = Contents
    <3>1. \A slot \in Slots : slot # SlotBehind(Occupied) => storage_'[slot] = storage_[slot]
      BY <2>1
    <3>2. Occupied < Size
      <4>1. p \in Filling
        BY <1>3 DEF BeginWrite, Move, Filling
      <4>2. Cardinality(Filling) >= 1
        BY <4>1, Counted, Gone
      <4> QED BY <4>2, Counted, SizeAssumption DEF Occupied, TypeOK
    <3>3. Occupied' = Occupied /\ consume_at_' = consume_at_
      BY <1>3, ProducerStays
    <3>4. Occupied # Size
      BY <3>2, SizeAssumption DEF SlotsAccounted
    <3> QED BY <3>1, <3>3, <3>4, SameContents
  <2> QED BY <1>3, <2>2 DEF BeginWrite
<1>4. ASSUME NEW p \in Producers, ClaimEmpty(p) \/ PostUsed(p) PROVE UNCHANGED FIFO!vars
  <2>1. UNCHANGED <<storage_, calls, got>>
    BY <1>4 DEF ClaimEmpty, PostUsed
  <2>2. Contents' = Contents
    BY <1>4, <2>1, ProducerStays, SameContents
  <2> QED BY <2>1, <2>2
<1>5. ASSUME NEW c \in Consumers, EndRead(c) PROVE FIFO!Consume(c)
  <2>1. /\ Contents # <<>> /\ storage_[consume_at_] = Head(Contents)
        /\ Contents' = Tail(Contents)
    BY <1>5, ContentsConsumed
  <2> QED BY <1>5, <2>1 DEF EndRead, FIFO!Consume
<1>6. ASSUME NEW c \in Consumers, ClaimUsed(c) \/ BeginRead(c) \/ ReadThrows(c) \/ PostEmpty(c)
      PROVE  UNCHANGED FIFO!vars
  <2>1. UNCHANGED <<storage_, calls, got>>
    BY <1>6 DEF ClaimUsed, BeginRead, ReadThrows, PostEmpty
  <2>2. Contents' = Contents
    BY <1>6, <2>1, ConsumerStays, SameContents
  <2> QED BY <2>1, <2>2
<1>7. ASSUME UNCHANGED vars PROVE UNCHANGED FIFO!vars
  <2>1. UNCHANGED <<storage_, calls, got>>
    BY <1>7 DEF vars
  <2>2. Contents' = Contents
    BY <1>7, <2>1, NothingMoves, SameContents
  <2> QED BY <2>1, <2>2
<1> QED
  BY <1>1, <1>2, <1>3, <1>4, <1>5, <1>6, <1>7 DEF Next, Produce, Consume, FIFO!Next

\* The ring implements the bounded queue: each call of Produce and of Consume takes effect at
\* once, at the end of its copy, whatever the other threads are doing and whichever copies throw.
\* (What BoundedFIFO says of progress is left to the run pcqueue.)
THEOREM RefinesFIFO == Spec => FIFO!Init /\ [][FIFO!Next]_FIFO!vars
<1>1. Init => FIFO!Init
  BY InitMaps
<1>2. TypeOK /\ SlotsAccounted /\ CallsLeft /\ [Next]_vars => [FIFO!Next]_FIFO!vars
  BY StepMaps
<1> QED BY <1>1, <1>2, TypeCorrect, SlotsKept, CallsLeftAlways, PTL DEF Spec
=============================================================================
