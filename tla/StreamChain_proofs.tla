-------------------------- MODULE StreamChain_proofs --------------------------
(***************************************************************************)
(* Proofs about the chain of workers: for any number of workers, blocks    *)
(* and entries, and however the workers delete entries, no block is shared *)
(* or lost, except the one that the source poisons, and the poison stays   *)
(* behind all blocks.  In a chain of one writer, what the source puts into *)
(* blocks is written, once and in order.                                   *)
(***************************************************************************)
EXTENDS StreamChain, FiniteSetTheorems, SequenceTheorems, TLAPS

Mems == Memory \cup {NULL}

\* A sequence, whatever its elements are: the size of a block is of no account here.
IsSeq(q) == q \in Seq({q[k] : k \in DOMAIN q})

\* What is needed of the types while the chain runs.
QueuesOK ==
    /\ queues_ = [i \in Places |-> queues_[i]]
    /\ \A i \in Places : /\ IsSeq(queues_[i])
                         /\ \A k \in 1..Len(queues_[i]) : queues_[i][k].mem \in Mems
LinkOK ==
    /\ link = [i \in Places |-> link[i]]
    /\ \A i \in Places : /\ link[i] = [at |-> link[i].at, current_ |-> link[i].current_]
                         /\ link[i].current_.mem \in Mems

\* A block is in a queue once ...
NoneTwice ==
    \A i \in Places : \A j, k \in 1..Len(queues_[i]) :
        queues_[i][j].mem = queues_[i][k].mem => j = k

\* ... and in one queue, or in one hand.
OneHolder == \A m \in Mems : \A g, h \in Holders(m) : g = h

\* The poison is the last that a worker puts into the queue behind it.
PoisonLast ==
    \A i \in Places : \A k \in 1..Len(queues_[Out(i)]) :
        IsPoison(queues_[Out(i)][k]) => k = Len(queues_[Out(i)]) /\ link[i].at = "ended"

\* The source ends with the poison: it makes one, of one block.  Nothing else gets lost.
Lost == {m \in Memory : Holders(m) = {}}
Accounted ==
    /\ link[1].at = "ended" => (\E m \in Memory : Lost = {m}) /\ Holders(NULL) # {}
    /\ link[1].at # "ended" => Lost = {} /\ Holders(NULL) = {}

Running == QueuesOK /\ LinkOK /\ NoneTwice /\ OneHolder /\ PoisonLast /\ Accounted

Inv ==
    /\ plan \in [1..Len(Rounds) -> Chains] /\ round \in 0..Len(Rounds)
    /\ main = "building" => round # 0 /\ Running

-----------------------------------------------------------------------------
\* Sequences of whatever elements.

LEMMA SeqFacts ==
    ASSUME NEW q, IsSeq(q)
    PROVE  Len(q) \in Nat /\ DOMAIN q = 1..Len(q) /\ (Len(q) = 0 => q = <<>>)
<1> DEFINE S == {q[k] : k \in DOMAIN q}
<1>1. q \in Seq(S)
  BY DEF IsSeq
<1> HIDE DEF S
<1> QED
  BY <1>1

LEMMA AppendFacts ==
    ASSUME NEW q, IsSeq(q), NEW x
    PROVE  /\ IsSeq(Append(q, x)) /\ Len(Append(q, x)) = Len(q) + 1
           /\ \A k \in 1..Len(q) : Append(q, x)[k] = q[k]
           /\ Append(q, x)[Len(q) + 1] = x
<1> DEFINE S == {q[k] : k \in DOMAIN q}
           a == Append(q, x)
<1>1. q \in Seq(S \cup {x})
  BY SeqMonotonic DEF IsSeq
<1>2. /\ a \in Seq(S \cup {x}) /\ Len(a) = Len(q) + 1
      /\ \A k \in 1..Len(q) : a[k] = q[k]
      /\ a[Len(q) + 1] = x /\ Len(q) \in Nat /\ DOMAIN q = 1..Len(q)
  BY <1>1
<1> HIDE DEF a
<1>3. IsSeq(a)
  <2>1. DOMAIN a = 1..(Len(q) + 1) /\ Len(a) \in Nat
    BY <1>2
  <2>2. a = [k \in 1..Len(a) |-> a[k]]
    BY <1>2
  <2>3. \A k \in 1..Len(a) : a[k] \in {a[l] : l \in DOMAIN a}
    BY <1>2, <2>1
  <2> QED
    BY <2>1, <2>2, <2>3 DEF IsSeq
<1> QED
  BY <1>2, <1>3 DEF a

LEMMA TailFacts ==
    ASSUME NEW q, IsSeq(q), q # <<>>
    PROVE  /\ IsSeq(Tail(q)) /\ Len(q) \in Nat \ {0} /\ Len(Tail(q)) = Len(q) - 1
           /\ \A k \in 1..(Len(q) - 1) : Tail(q)[k] = q[k + 1]
           /\ Head(q) = q[1]
<1> DEFINE S == {q[k] : k \in DOMAIN q}
           a == Tail(q)
<1>1. q \in Seq(S)
  BY DEF IsSeq
<1> HIDE DEF S
<1>2. /\ a \in Seq(S) /\ Len(q) \in Nat \ {0} /\ Len(a) = Len(q) - 1
      /\ \A k \in 1..(Len(q) - 1) : a[k] = q[k + 1]
      /\ Head(q) = q[1]
  BY <1>1
<1> HIDE DEF a
<1>3. IsSeq(a)
  <2>1. DOMAIN a = 1..Len(a) /\ Len(a) \in Nat
    BY <1>2
  <2>2. a = [k \in 1..Len(a) |-> a[k]]
    BY <1>2
  <2>3. \A k \in 1..Len(a) : a[k] \in {a[l] : l \in DOMAIN a}
    BY <2>1
  <2> QED
    BY <2>1, <2>2, <2>3 DEF IsSeq
<1> QED
  BY <1>2, <1>3 DEF a

-----------------------------------------------------------------------------
\* The places of a chain.

\* The queue behind a worker is that of the next one, and each queue is behind one worker.
LEMMA OutFacts ==
    ASSUME plan \in [1..Len(Rounds) -> Chains], round \in 0..Len(Rounds), round # 0
    PROVE  /\ workers \in Chains /\ Len(workers) \in Nat \ {0} /\ 1 \in Places
           /\ \A i \in Places : Out(i) \in Places
           /\ \A i, j \in Places : Out(i) = Out(j) => i = j
           /\ \A j \in Places : \E i \in Places : Out(i) = j
           /\ \A i \in Places : workers[i] \in Sources => i = 1
<1>1. Len(Rounds) \in Nat /\ round \in 1..Len(Rounds)
  BY RoundsAssumption
<1>2. workers \in Chains
  BY <1>1 DEF workers
<1>3. workers \in Seq(Kinds) /\ workers # <<>> /\ \A i \in 2..Len(workers) : workers[i] \notin Sources
  BY <1>2, ChainsAssumption
<1>4. Len(workers) \in Nat \ {0}
  BY <1>3
<1>5. 1 \in Places /\ \A i \in Places : i \in Nat /\ 1 <= i /\ i <= Len(workers)
  BY <1>4 DEF Places
<1>6. \A i \in Places : workers[i] \in Sources => i = 1
  BY <1>3, <1>4 DEF Places
<1>7. \A j \in Places : \E i \in Places : Out(i) = j
  <2> TAKE j \in Places
  <2>1. CASE j = 1
    <3>1. Len(workers) \in Places /\ Out(Len(workers)) = 1
      BY <1>4 DEF Places, Out
    <3> QED
      BY <2>1, <3>1
  <2>2. CASE j # 1
    <3>1. j - 1 \in Places /\ Out(j - 1) = j
      BY <1>4, <2>2 DEF Places, Out
    <3> QED
      BY <3>1
  <2> QED
    BY <2>1, <2>2
<1>8. \A i \in Places : Out(i) \in Places
  BY <1>4 DEF Places, Out
<1>9. \A i, j \in Places : Out(i) = Out(j) => i = j
  BY <1>4 DEF Places, Out
<1> QED
  BY <1>2, <1>4, <1>5, <1>6, <1>7, <1>8, <1>9

LEMMA OutNext ==
    (plan \in [1..Len(Rounds) -> Chains] /\ round \in 0..Len(Rounds) /\ round # 0)' =>
        (\A i \in Places : Out(i) \in Places)'
<1>1. plan \in [1..Len(Rounds) -> Chains] /\ round \in 0..Len(Rounds) /\ round # 0 =>
          \A i \in Places : Out(i) \in Places
  BY OutFacts
<1> QED
  BY <1>1, PTL

\* Who holds a block.
HoldersAre ==
    \A m \in Mems :
        /\ \A i \in Places : <<"queue", i>> \in Holders(m) <=>
               \E k \in 1..Len(queues_[i]) : queues_[i][k].mem = m
        /\ \A i \in Places : <<"link", i>> \in Holders(m) <=>
               link[i].at = "working" /\ link[i].current_.mem = m
        /\ \A h \in Holders(m) : \E i \in Places : h = <<"queue", i>> \/ h = <<"link", i>>

LEMMA Held == QueuesOK => HoldersAre
<1> SUFFICES ASSUME QueuesOK PROVE HoldersAre
  OBVIOUS
<1>1. \A i \in Places : DOMAIN queues_[i] = 1..Len(queues_[i])
  BY SeqFacts DEF QueuesOK
<1>2. \A m \in Mems : \A i \in Places : <<"queue", i>> \in Holders(m) <=> m \in InQueue(i)
  BY DEF Holders
<1>3. \A m \in Mems : \A i \in Places : <<"link", i>> \in Holders(m) <=> m \in InHand(i)
  BY DEF Holders
<1>4. \A m \in Mems : \A h \in Holders(m) :
          \E i \in Places : h = <<"queue", i>> \/ h = <<"link", i>>
  BY DEF Holders
<1> QED
  BY <1>1, <1>2, <1>3, <1>4 DEF InQueue, InHand, HoldersAre

LEMMA HeldNext == QueuesOK' => HoldersAre'
BY Held, PTL

-----------------------------------------------------------------------------
\* The steps of a worker.

SamePlan == UNCHANGED <<main, round, plan>>

LEMMA SamePlaces ==
    ASSUME SamePlan
    PROVE  workers' = workers /\ Places' = Places /\ \A i \in Places : Out(i)' = Out(i)
BY DEF SamePlan, workers, Places, Out

\* A worker takes the block at the head of its queue: the queue lets it go, and nothing else
\* changes hands.
LEMMA ConsumeRunning ==
    ASSUME Inv, main = "building", NEW i \in Places, Consume(i)
    PROVE  Running'
<1> DEFINE q == queues_[i]
           h == Head(q)
<1>1. /\ link[i].at \in {"init", "passed"} /\ q # <<>> /\ SamePlan
      /\ link' = [link EXCEPT ![i] = [at |-> "working", current_ |-> h]]
      /\ queues_' = [queues_ EXCEPT ![i] = Tail(q)]
  BY DEF Consume, SamePlan, Inv, Running, QueuesOK
<1>2. /\ QueuesOK /\ LinkOK /\ NoneTwice /\ OneHolder /\ PoisonLast /\ Accounted
      /\ plan \in [1..Len(Rounds) -> Chains] /\ round \in 0..Len(Rounds) /\ round # 0
  BY DEF Inv, Running
<1>3. IsSeq(q) /\ \A k \in 1..Len(q) : q[k].mem \in Mems
  BY <1>2 DEF QueuesOK
<1>4. /\ IsSeq(Tail(q)) /\ Len(q) \in Nat \ {0} /\ Len(Tail(q)) = Len(q) - 1
      /\ \A k \in 1..(Len(q) - 1) : Tail(q)[k] = q[k + 1]
      /\ h = q[1]
  BY <1>1, <1>3, TailFacts
<1>5. PICK c \in Mems : h.mem = c
  BY <1>3, <1>4
<1>6. Places' = Places /\ \A j \in Places : Out(j)' = Out(j)
  BY <1>1, SamePlaces
<1>7. /\ \A j \in Places : j # i => queues_'[j] = queues_[j] /\ link'[j] = link[j]
      /\ queues_'[i] = Tail(q) /\ link'[i] = [at |-> "working", current_ |-> h]
      /\ queues_' = [j \in Places |-> queues_'[j]] /\ link' = [j \in Places |-> link'[j]]
  BY <1>1, <1>2 DEF QueuesOK, LinkOK
<1> HIDE DEF h
<1>8. \A k \in 1..Len(queues_'[i]) : k + 1 \in 1..Len(q) /\ queues_'[i][k] = q[k + 1]
  <2>1. Len(queues_'[i]) = Len(q) - 1 /\ queues_'[i] = Tail(q)
    BY <1>4, <1>7
  <2> TAKE k \in 1..Len(queues_'[i])
  <2>2. k \in 1..(Len(q) - 1)
    BY <2>1
  <2>3. k + 1 \in 1..Len(q)
    BY <2>2, <1>4
  <2>4. Tail(q)[k] = q[k + 1]
    BY <2>2, <1>4
  <2>5. queues_'[i][k] = Tail(q)[k]
    BY <2>1
  <2>6. queues_'[i][k] = q[k + 1]
    BY <2>4, <2>5
  <2> QED
    BY <2>3, <2>6
<1>9. QueuesOK'
  <2> SUFFICES ASSUME NEW n \in Places
      PROVE  /\ IsSeq(queues_'[n])
             /\ \A k \in 1..Len(queues_'[n]) : queues_'[n][k].mem \in Mems
    BY <1>6, <1>7 DEF QueuesOK, Mems, Memory
  <2>1. CASE n # i
    BY <2>1, <1>2, <1>7 DEF QueuesOK
  <2>2. CASE n = i
    BY <2>2, <1>3, <1>4, <1>7, <1>8
  <2> QED
    BY <2>1, <2>2
<1>10. LinkOK'
  BY <1>2, <1>5, <1>6, <1>7 DEF LinkOK
<1>11. NoneTwice'
  <2> SUFFICES ASSUME NEW n \in Places, NEW j \in 1..Len(queues_'[n]),
                      NEW k \in 1..Len(queues_'[n]),
                      queues_'[n][j].mem = queues_'[n][k].mem
      PROVE  j = k
    BY <1>6 DEF NoneTwice
  <2>1. CASE n # i
    BY <2>1, <1>2, <1>7 DEF NoneTwice
  <2>2. CASE n = i
    <3>1. j + 1 \in 1..Len(q) /\ k + 1 \in 1..Len(q) /\ q[j + 1].mem = q[k + 1].mem
      BY <2>2, <1>8
    <3>2. j + 1 = k + 1
      BY <3>1, <1>2 DEF NoneTwice
    <3> QED
      BY <2>2, <3>2, <1>4, <1>7
  <2> QED
    BY <2>1, <2>2
<1>12. HoldersAre /\ HoldersAre'
  BY <1>2, <1>9, Held, HeldNext
<1>13. Holders(c) = {<<"queue", i>>} /\ Holders(c)' = {<<"link", i>>}
  <2>1. <<"queue", i>> \in Holders(c)
    BY <1>4, <1>5, <1>12 DEF HoldersAre
  <2>2. Holders(c) = {<<"queue", i>>}
    BY <2>1, <1>2, <1>5 DEF OneHolder
  <2>3. <<"link", i>> \in Holders(c)'
    BY <1>5, <1>6, <1>7, <1>12 DEF HoldersAre
  <2>4. ASSUME NEW g \in Holders(c)' PROVE g = <<"link", i>>
    <3>1. PICK n \in Places : g = <<"queue", n>> \/ g = <<"link", n>>
      BY <1>5, <1>6, <1>12 DEF HoldersAre
    <3>2. ASSUME g = <<"queue", n>> PROVE FALSE
      <4>1. PICK k \in 1..Len(queues_'[n]) : queues_'[n][k].mem = c
        BY <3>2, <1>5, <1>6, <1>12 DEF HoldersAre
      <4>2. CASE n = i
        <5>1. k + 1 \in 1..Len(q) /\ q[k + 1].mem = q[1].mem /\ 1 \in 1..Len(q)
          BY <4>1, <4>2, <1>4, <1>5, <1>8
        <5>2. k + 1 = 1
          BY <5>1, <1>2 DEF NoneTwice
        <5> QED
          BY <4>1, <4>2, <5>2, <1>4, <1>7
      <4>3. CASE n # i
        <5>1. <<"queue", n>> \in Holders(c)
          BY <4>1, <4>3, <1>5, <1>7, <1>12 DEF HoldersAre
        <5> QED
          BY <5>1, <4>3, <2>2
      <4> QED
        BY <4>2, <4>3
    <3>3. ASSUME g = <<"link", n>>, n # i PROVE FALSE
      <4>1. link'[n].at = "working" /\ link'[n].current_.mem = c
        BY <3>3, <1>5, <1>6, <1>12 DEF HoldersAre
      <4>2. <<"link", n>> \in Holders(c)
        BY <4>1, <3>3, <1>5, <1>7, <1>12 DEF HoldersAre
      <4> QED
        BY <4>2, <2>2
    <3> QED
      BY <3>1, <3>2, <3>3
  <2> QED
    BY <2>2, <2>3, <2>4
<1>14. ASSUME NEW m \in Mems, m # c
       PROVE  Holders(m)' = Holders(m)
  <2>1. ASSUME NEW n \in Places
        PROVE  /\ <<"queue", n>> \in Holders(m)' <=> <<"queue", n>> \in Holders(m)
               /\ <<"link", n>> \in Holders(m)' <=> <<"link", n>> \in Holders(m)
    <3>1. CASE n # i
      BY <3>1, <1>6, <1>7, <1>12 DEF HoldersAre
    <3>2. CASE n = i
      <4>1. <<"link", n>> \notin Holders(m) /\ <<"link", n>> \notin Holders(m)'
        BY <3>2, <1>1, <1>5, <1>6, <1>7, <1>12, <1>14 DEF HoldersAre
      <4>2. ASSUME NEW k \in 1..Len(q), q[k].mem = m
            PROVE  \E l \in 1..Len(queues_'[i]) : queues_'[i][l].mem = m
        <5>1. k # 1
          BY <4>2, <1>4, <1>5, <1>14
        <5>2. k - 1 \in 1..(Len(q) - 1) /\ Tail(q)[k - 1] = q[(k - 1) + 1] /\ (k - 1) + 1 = k
          BY <5>1, <1>4
        <5> QED
          BY <4>2, <5>2, <1>4, <1>7
      <4>3. <<"queue", n>> \in Holders(m)' => <<"queue", n>> \in Holders(m)
        BY <3>2, <1>6, <1>8, <1>12 DEF HoldersAre
      <4>4. <<"queue", n>> \in Holders(m) => <<"queue", n>> \in Holders(m)'
        BY <3>2, <4>2, <1>6, <1>12 DEF HoldersAre
      <4> QED
        BY <4>1, <4>3, <4>4
    <3> QED
      BY <3>1, <3>2
  <2>2. /\ \A g \in Holders(m) : \E n \in Places : g = <<"queue", n>> \/ g = <<"link", n>>
        /\ \A g \in Holders(m)' : \E n \in Places : g = <<"queue", n>> \/ g = <<"link", n>>
    BY <1>6, <1>12 DEF HoldersAre
  <2>3. \A g : g \in Holders(m)' <=> g \in Holders(m)
    BY <2>1, <2>2
  <2> QED
    BY <2>3
<1>15. OneHolder'
  BY <1>2, <1>13, <1>14 DEF OneHolder, Mems, Memory
<1>16. Accounted'
  <2>1. link'[1].at = "ended" <=> link[1].at = "ended"
    <3>1. 1 \in Places
      BY <1>2, OutFacts
    <3>2. CASE i = 1
      BY <3>2, <1>1, <1>7
    <3>3. CASE i # 1
      BY <3>1, <3>3, <1>7
    <3> QED
      BY <3>2, <3>3
  <2>2. \A m \in Mems : Holders(m)' = {} <=> Holders(m) = {}
    BY <1>13, <1>14
  <2>3. Lost' = Lost
    BY <2>2 DEF Lost, Mems, Memory
  <2> QED
    BY <2>1, <2>2, <2>3, <1>2 DEF Accounted, Mems, Memory
<1>17. PoisonLast'
  <2> SUFFICES ASSUME NEW n \in Places, NEW k \in 1..Len(queues_'[Out(n)]),
                      IsPoison(queues_'[Out(n)][k])
      PROVE  k = Len(queues_'[Out(n)]) /\ link'[n].at = "ended"
    BY <1>6 DEF PoisonLast, IsPoison
  <2>1. Out(n) \in Places
    BY <1>2, OutFacts
  <2>2. CASE Out(n) # i
    <3>1. k = Len(queues_'[Out(n)]) /\ link[n].at = "ended"
      BY <2>1, <2>2, <1>2, <1>7 DEF PoisonLast
    <3> QED
      BY <3>1, <1>1, <1>7
  <2>3. CASE Out(n) = i
    <3>1. k + 1 \in 1..Len(q) /\ IsPoison(q[k + 1])
      BY <2>3, <1>8
    <3>2. k + 1 = Len(q) /\ link[n].at = "ended"
      BY <2>3, <3>1, <1>2 DEF PoisonLast
    <3>3. k = Len(queues_'[Out(n)])
      BY <2>3, <3>2, <1>4, <1>7
    <3> QED
      BY <3>2, <3>3, <1>1, <1>7
  <2> QED
    BY <2>2, <2>3
<1> QED
  BY <1>9, <1>10, <1>11, <1>15, <1>16, <1>17 DEF Running

\* A worker puts a block, which is not there yet, into the queue behind it.
LEMMA PassKeeps ==
    ASSUME Inv, main = "building", NEW i \in Places, NEW block, Pass(i, block),
           block.mem \in Mems, <<"queue", Out(i)>> \notin Holders(block.mem)
    PROVE  /\ QueuesOK' /\ LinkOK' /\ NoneTwice' /\ PoisonLast'
           /\ Holders(block.mem)' =
                  (Holders(block.mem) \ {<<"link", i>>}) \cup {<<"queue", Out(i)>>}
           /\ \A m \in Mems : m # block.mem => Holders(m)' = Holders(m) \ {<<"link", i>>}
<1>1. /\ QueuesOK /\ LinkOK /\ NoneTwice /\ OneHolder /\ PoisonLast /\ Accounted
      /\ plan \in [1..Len(Rounds) -> Chains] /\ round \in 0..Len(Rounds) /\ round # 0
  BY DEF Inv, Running
<1>2. PICK o \in Places : o = Out(i)
  BY <1>1, OutFacts
<1> DEFINE q == queues_[o]
           at == IF IsPoison(block) THEN "ended" ELSE "passed"
<1>3. /\ link[i].at = "working" /\ SamePlan
      /\ link' = [link EXCEPT ![i].at = at]
      /\ queues_' = [queues_ EXCEPT ![o] = Append(q, block)]
  BY <1>1, <1>2 DEF Pass, SamePlan, QueuesOK
<1>4. IsSeq(q) /\ Len(q) \in Nat /\ \A k \in 1..Len(q) : q[k].mem \in Mems
  BY <1>1, SeqFacts DEF QueuesOK
<1>5. /\ IsSeq(Append(q, block)) /\ Len(Append(q, block)) = Len(q) + 1
      /\ \A k \in 1..Len(q) : Append(q, block)[k] = q[k]
      /\ Append(q, block)[Len(q) + 1] = block
  BY <1>4, AppendFacts
<1>6. Places' = Places /\ \A j \in Places : Out(j)' = Out(j)
  BY <1>3, SamePlaces
<1>7. /\ \A j \in Places : j # i => link'[j] = link[j]
      /\ link'[i] = [at |-> at, current_ |-> link[i].current_]
      /\ link' = [j \in Places |-> link'[j]]
  <2> HIDE DEF at
  <2> QED
    BY <1>1, <1>3 DEF LinkOK
<1>8. /\ \A j \in Places : j # o => queues_'[j] = queues_[j]
      /\ queues_' = [j \in Places |-> queues_'[j]]
      /\ Len(queues_'[o]) = Len(q) + 1 /\ IsSeq(queues_'[o])
      /\ \A k \in 1..Len(q) : queues_'[o][k] = q[k]
      /\ queues_'[o][Len(q) + 1] = block
  <2>1. queues_'[o] = Append(q, block) /\ queues_' = [j \in Places |-> queues_'[j]]
        /\ \A j \in Places : j # o => queues_'[j] = queues_[j]
    BY <1>1, <1>3 DEF QueuesOK
  <2> QED
    BY <2>1, <1>5
<1>9. QueuesOK'
  <2> SUFFICES ASSUME NEW n \in Places
      PROVE  /\ IsSeq(queues_'[n])
             /\ \A k \in 1..Len(queues_'[n]) : queues_'[n][k].mem \in Mems
    BY <1>6, <1>8 DEF QueuesOK, Mems, Memory
  <2>1. CASE n # o
    BY <2>1, <1>1, <1>8 DEF QueuesOK
  <2>2. CASE n = o
    <3>1. \A k \in 1..(Len(q) + 1) : k \in 1..Len(q) \/ k = Len(q) + 1
      BY <1>4
    <3> QED
      BY <2>2, <3>1, <1>4, <1>8
  <2> QED
    BY <2>1, <2>2
<1>10. LinkOK'
  BY <1>1, <1>6, <1>7 DEF LinkOK, Mems, Memory
<1>11. HoldersAre /\ HoldersAre'
  BY <1>1, <1>9, Held, HeldNext
<1>12. \A k \in 1..Len(q) : q[k].mem # block.mem
  BY <1>2, <1>11 DEF HoldersAre
<1>13. NoneTwice'
  <2> SUFFICES ASSUME NEW n \in Places, NEW j \in 1..Len(queues_'[n]),
                      NEW k \in 1..Len(queues_'[n]),
                      queues_'[n][j].mem = queues_'[n][k].mem
      PROVE  j = k
    BY <1>6 DEF NoneTwice
  <2>1. CASE n # o
    BY <2>1, <1>1, <1>8 DEF NoneTwice
  <2>2. CASE n = o
    <3>1. /\ j \in 1..Len(q) \/ j = Len(q) + 1
          /\ k \in 1..Len(q) \/ k = Len(q) + 1
      BY <2>2, <1>4, <1>8
    <3>2. j \in 1..Len(q) /\ k \in 1..Len(q) => j = k
      BY <2>2, <1>1, <1>8 DEF NoneTwice
    <3>3. ~(j \in 1..Len(q) /\ k = Len(q) + 1) /\ ~(k \in 1..Len(q) /\ j = Len(q) + 1)
      BY <2>2, <1>8, <1>12
    <3> QED
      BY <3>1, <3>2, <3>3
  <2> QED
    BY <2>1, <2>2
<1>14. PoisonLast'
  <2> SUFFICES ASSUME NEW n \in Places, NEW k \in 1..Len(queues_'[Out(n)]),
                      IsPoison(queues_'[Out(n)][k])
      PROVE  k = Len(queues_'[Out(n)]) /\ link'[n].at = "ended"
    BY <1>6 DEF PoisonLast, IsPoison
  <2>1. CASE n # i
    <3>1. Out(n) \in Places /\ Out(n) # o
      BY <2>1, <1>1, <1>2, OutFacts
    <3> QED
      BY <2>1, <3>1, <1>1, <1>7, <1>8 DEF PoisonLast
  <2>2. CASE n = i
    <3>1. k \in 1..Len(q) \/ k = Len(q) + 1
      BY <2>2, <1>2, <1>4, <1>8
    <3>2. k \notin 1..Len(q)
      BY <2>2, <1>1, <1>2, <1>3, <1>8 DEF PoisonLast
    <3> QED
      BY <2>2, <3>1, <3>2, <1>2, <1>7, <1>8
  <2> QED
    BY <2>1, <2>2
<1>15. ASSUME NEW m \in Mems, NEW n \in Places
       PROVE  /\ <<"link", n>> \in Holders(m)' <=> n # i /\ <<"link", n>> \in Holders(m)
              /\ <<"queue", n>> \in Holders(m)' <=>
                     <<"queue", n>> \in Holders(m) \/ (n = o /\ m = block.mem)
  <2>1. <<"link", n>> \in Holders(m)' <=> n # i /\ <<"link", n>> \in Holders(m)
    BY <1>6, <1>7, <1>11 DEF HoldersAre
  <2>2. CASE n # o
    BY <2>1, <2>2, <1>6, <1>8, <1>11 DEF HoldersAre
  <2>3. CASE n = o
    <3>1. /\ Len(q) + 1 \in 1..(Len(q) + 1)
          /\ \A k \in 1..Len(q) : k \in 1..(Len(q) + 1)
          /\ \A k \in 1..(Len(q) + 1) : k \in 1..Len(q) \/ k = Len(q) + 1
      BY <1>4
    <3>2. (\E k \in 1..Len(queues_'[o]) : queues_'[o][k].mem = m) <=>
              (\E k \in 1..Len(q) : q[k].mem = m) \/ m = block.mem
      BY <3>1, <1>8
    <3> QED
      BY <2>1, <2>3, <3>2, <1>6, <1>11 DEF HoldersAre
  <2> QED
    BY <2>2, <2>3
<1>16. ASSUME NEW m \in Mems
       PROVE  /\ \A g \in Holders(m) : \E n \in Places : g = <<"queue", n>> \/ g = <<"link", n>>
              /\ \A g \in Holders(m)' :
                     \E n \in Places : g = <<"queue", n>> \/ g = <<"link", n>>
  BY <1>6, <1>11 DEF HoldersAre
<1>17. ASSUME NEW m \in Mems
       PROVE  Holders(m)' = (Holders(m) \ {<<"link", i>>})
                                \cup (IF m = block.mem THEN {<<"queue", o>>} ELSE {})
  <2>1. \A n \in Places : <<"queue", n>> # <<"link", i>>
    OBVIOUS
  <2>2. \A n \in Places : <<"link", n>> = <<"link", i>> <=> n = i
    OBVIOUS
  <2>3. \A n \in Places : <<"queue", n>> = <<"queue", o>> <=> n = o
    OBVIOUS
  <2>4. \A n \in Places : <<"link", n>> # <<"queue", o>>
    OBVIOUS
  <2>5. \A g : g \in Holders(m)' <=>
                   g \in (Holders(m) \ {<<"link", i>>})
                             \cup (IF m = block.mem THEN {<<"queue", o>>} ELSE {})
    <3> DEFINE after == (Holders(m) \ {<<"link", i>>})
                            \cup (IF m = block.mem THEN {<<"queue", o>>} ELSE {})
    <3>1. ASSUME NEW n \in Places
          PROVE  /\ <<"link", n>> \in after <=> n # i /\ <<"link", n>> \in Holders(m)
                 /\ <<"queue", n>> \in after <=>
                        <<"queue", n>> \in Holders(m) \/ (n = o /\ m = block.mem)
      BY <2>1, <2>2, <2>3, <2>4
    <3>2. \A g \in after : \E n \in Places : g = <<"queue", n>> \/ g = <<"link", n>>
      BY <1>2, <1>16
    <3> HIDE DEF after
    <3>3. \A g : g \in Holders(m)' <=> g \in after
      <4>1. ASSUME NEW n \in Places
            PROVE  /\ <<"link", n>> \in Holders(m)' <=> <<"link", n>> \in after
                   /\ <<"queue", n>> \in Holders(m)' <=> <<"queue", n>> \in after
        BY <1>15, <3>1
      <4>2. \A g \in Holders(m)' : \E n \in Places : g = <<"queue", n>> \/ g = <<"link", n>>
        BY <1>16
      <4> QED
        BY <4>1, <4>2, <3>2
    <3> QED
      BY <3>3 DEF after
  <2> QED
    BY <2>5
<1> QED
  BY <1>2, <1>9, <1>10, <1>13, <1>14, <1>17

\* The block passed on is the one in hand, or the source poisons it.
LEMMA PassRunning ==
    ASSUME Inv, main = "building", NEW i \in Places, NEW block, Pass(i, block),
           \/ block.mem = link[i].current_.mem
           \/ block.mem = NULL /\ i = 1
    PROVE  Running'
<1>1. /\ QueuesOK /\ LinkOK /\ NoneTwice /\ OneHolder /\ PoisonLast /\ Accounted
      /\ plan \in [1..Len(Rounds) -> Chains] /\ round \in 0..Len(Rounds) /\ round # 0
  BY DEF Inv, Running
<1>2. PICK c \in Mems : c = link[i].current_.mem
  BY <1>1 DEF LinkOK
<1>3. /\ link[i].at = "working"
      /\ link'[i].at = IF IsPoison(block) THEN "ended" ELSE "passed"
      /\ \A n \in Places : n # i => link'[n] = link[n]
  <2> DEFINE at == IF IsPoison(block) THEN "ended" ELSE "passed"
  <2>1. link[i].at = "working" /\ link' = [link EXCEPT ![i].at = at]
    BY DEF Pass
  <2> HIDE DEF at
  <2>2. link'[i].at = at /\ \A n \in Places : n # i => link'[n] = link[n]
    BY <2>1, <1>1 DEF LinkOK
  <2> QED
    BY <2>1, <2>2 DEF at
<1>4. HoldersAre
  BY <1>1, Held
<1>5. Holders(c) = {<<"link", i>>}
  <2>1. <<"link", i>> \in Holders(c)
    BY <1>2, <1>3, <1>4 DEF HoldersAre
  <2> QED
    BY <2>1, <1>1 DEF OneHolder
<1>6. \A m \in Mems : m # c => <<"link", i>> \notin Holders(m)
  BY <1>2, <1>4 DEF HoldersAre
<1>7. PICK o \in Places : o = Out(i)
  BY <1>1, OutFacts
<1>8. 1 \in Places /\ NULL \in Mems /\ \A m \in Memory : m \in Mems /\ m # NULL
  BY <1>1, OutFacts DEF Mems, Memory, NULL
<1>9. i = 1 => Lost = {} /\ Holders(NULL) = {} /\ c # NULL
  BY <1>1, <1>3, <1>5 DEF Accounted
<1>10. CASE block.mem = c
  <2>1. <<"queue", Out(i)>> \notin Holders(block.mem)
    BY <1>5, <1>10
  <2>2. /\ QueuesOK' /\ LinkOK' /\ NoneTwice' /\ PoisonLast'
        /\ Holders(c)' = {<<"queue", o>>}
        /\ \A m \in Mems : m # c => Holders(m)' = Holders(m)
    <3>1. /\ QueuesOK' /\ LinkOK' /\ NoneTwice' /\ PoisonLast'
          /\ Holders(c)' = (Holders(c) \ {<<"link", i>>}) \cup {<<"queue", o>>}
          /\ \A m \in Mems : m # c => Holders(m)' = Holders(m) \ {<<"link", i>>}
      BY <2>1, <1>7, <1>10, PassKeeps
    <3> QED
      BY <3>1, <1>5, <1>6
  <2>3. OneHolder'
    BY <2>2, <1>1 DEF OneHolder, Mems, Memory
  <2>4. \A m \in Mems : Holders(m)' = {} <=> Holders(m) = {}
    BY <2>2, <1>5
  <2>5. Lost' = Lost
    BY <2>4 DEF Lost, Mems, Memory
  <2>6. link'[1].at = "ended" <=> link[1].at = "ended"
    <3>1. CASE i = 1
      BY <3>1, <1>3, <1>9, <1>10 DEF IsPoison
    <3>2. CASE i # 1
      BY <3>2, <1>3, <1>8
    <3> QED
      BY <3>1, <3>2
  <2>7. Accounted'
    BY <2>4, <2>5, <2>6, <1>1, <1>8 DEF Accounted, Memory
  <2> QED
    BY <2>2, <2>3, <2>7 DEF Running
<1>11. CASE block.mem = NULL /\ i = 1
  <2>1. <<"queue", Out(i)>> \notin Holders(block.mem)
    BY <1>9, <1>11
  <2>2. /\ QueuesOK' /\ LinkOK' /\ NoneTwice' /\ PoisonLast'
        /\ Holders(NULL)' = (Holders(NULL) \ {<<"link", i>>}) \cup {<<"queue", o>>}
        /\ \A m \in Mems : m # NULL => Holders(m)' = Holders(m) \ {<<"link", i>>}
    <3>1. /\ QueuesOK' /\ LinkOK' /\ NoneTwice' /\ PoisonLast'
          /\ Holders(block.mem)' =
                 (Holders(block.mem) \ {<<"link", i>>}) \cup {<<"queue", o>>}
          /\ \A m \in Mems : m # block.mem => Holders(m)' = Holders(m) \ {<<"link", i>>}
      BY <2>1, <1>7, <1>8, <1>11, PassKeeps
    <3> QED
      BY <3>1, <1>11
  <2>3. Holders(NULL)' = {<<"queue", o>>} /\ Holders(c)' = {}
        /\ \A m \in Mems : m # NULL /\ m # c => Holders(m)' = Holders(m)
    <3>1. Holders(NULL)' = {<<"queue", o>>}
      BY <2>2, <1>9, <1>11
    <3>2. c # NULL
      BY <1>9, <1>11
    <3>3. Holders(c)' = {}
      <4>1. Holders(c)' = Holders(c) \ {<<"link", i>>}
        BY <2>2, <3>2
      <4> QED
        BY <4>1, <1>5
    <3>4. ASSUME NEW m \in Mems, m # NULL, m # c
          PROVE  Holders(m)' = Holders(m)
      <4>1. Holders(m)' = Holders(m) \ {<<"link", i>>}
        BY <2>2, <3>4
      <4>2. <<"link", i>> \notin Holders(m)
        BY <1>6, <3>4
      <4> QED
        BY <4>1, <4>2
    <3> QED
      BY <3>1, <3>3, <3>4
  <2>4. OneHolder'
    BY <2>3, <1>1 DEF OneHolder, Mems, Memory
  <2>5. \A m \in Memory : Holders(m) # {}
    BY <1>9, <1>11 DEF Lost
  <2>6. c \in Memory /\ Lost' = {c}
    <3>1. c \in Memory
      BY <1>2, <1>9, <1>11 DEF Mems
    <3>2. \A m \in Memory : Holders(m)' = {} <=> m = c
      BY <2>3, <2>5, <1>8
    <3> QED
      BY <3>1, <3>2 DEF Lost, Memory
  <2>7. link'[1].at = "ended"
    BY <1>3, <1>11 DEF IsPoison
  <2>8. Accounted'
    BY <2>3, <2>6, <2>7 DEF Accounted, Memory
  <2> QED
    BY <2>2, <2>4, <2>8 DEF Running
<1> QED
  BY <1>2, <1>10, <1>11

\* What a worker passes on is the block it has in hand; or it is the source, and poisons it.
LEMMA PassesOn ==
    ASSUME Inv, main = "building", NEW i \in Places, Worker(i)
    PROVE  \/ Consume(i)
           \/ \E block : Pass(i, block) /\ (\/ block.mem = link[i].current_.mem
                                            \/ block.mem = NULL /\ i = 1)
<1>1. \A mem, size : Block(mem, size).mem = mem
  BY DEF Block
<1>2. Poison.mem = NULL
  BY <1>1 DEF Poison
<1>3. workers[i] \in Sources => i = 1
  BY OutFacts DEF Inv
<1>4. CASE PassPoison(i)
  BY <1>2, <1>4 DEF PassPoison, IsPoison
<1>5. CASE Read(i)
  <2>1. i = 1
    BY <1>3, <1>5 DEF Read, Has, Sources
  <2>2. PICK block : /\ Pass(i, block)
                     /\ block = Poison \/ \E size : block = Block(link[i].current_.mem, size)
    BY <1>5 DEF Read
  <2> QED
    BY <2>1, <2>2, <1>1, <1>2
<1>6. CASE Stream(i)
  <2>1. i = 1
    BY <1>3, <1>6 DEF Stream, Has, Sources
  <2>2. PICK block : /\ Pass(i, block)
                     /\ block = Poison \/ \E size : block = Block(link[i].current_.mem, size)
    BY <1>6 DEF Stream
  <2> QED
    BY <2>1, <2>2, <1>1, <1>2
<1>7. CASE Collapse(i)
  BY <1>1, <1>7 DEF Collapse
<1>8. CASE Write(i)
  BY <1>1, <1>8 DEF Write
<1>9. CASE Recycle(i)
  BY <1>1, <1>9 DEF Recycle
<1> QED
  BY <1>4, <1>5, <1>6, <1>7, <1>8, <1>9 DEF Worker

LEMMA WorkerRunning ==
    ASSUME Inv, main = "building", NEW i \in Places, Worker(i)
    PROVE  Running' /\ SamePlan
<1>1. CASE Consume(i)
  BY <1>1, ConsumeRunning DEF Consume, SamePlan
<1>2. ASSUME NEW block, Pass(i, block),
             \/ block.mem = link[i].current_.mem
             \/ block.mem = NULL /\ i = 1
      PROVE  Running' /\ SamePlan
  BY <1>2, PassRunning DEF Pass, SamePlan
<1>3. CASE \E block : Pass(i, block) /\ (\/ block.mem = link[i].current_.mem
                                         \/ block.mem = NULL /\ i = 1)
  BY <1>2, <1>3
<1> QED
  BY <1>1, <1>3, PassesOn

-----------------------------------------------------------------------------
\* The steps of the owner.

\* Start: all blocks are in the first queue.
LEMMA StartRunning ==
    ASSUME Inv, Start
    PROVE  Running' /\ plan' = plan /\ round' \in 1..Len(Rounds)
<1> DEFINE n == Len(plan[round + 1])
           first == [m \in Memory |-> Block(m, BlockSize)]
<1>1. Len(Rounds) \in Nat /\ BlockCount \in Nat \ {0}
  BY RoundsAssumption, BlockAssumption
<1>2. /\ round' = round + 1 /\ plan' = plan /\ round' \in 1..Len(Rounds)
      /\ plan' \in [1..Len(Rounds) -> Chains] /\ round' # 0
  BY <1>1 DEF Start, Inv
<1>3. workers' = plan[round + 1] /\ Places' = 1..n /\ Len(workers') = n
  BY <1>1, <1>2 DEF workers, Places
<1>4. n \in Nat \ {0} /\ 1 \in 1..n
  <2>1. plan[round + 1] \in Chains
    BY <1>2
  <2>2. plan[round + 1] \in Seq(Kinds) /\ plan[round + 1] # <<>>
    BY <2>1, ChainsAssumption
  <2> QED
    BY <2>2
<1>5. /\ queues_' = [i \in 1..n |-> IF i = 1 THEN first ELSE <<>>]
      /\ link' = [i \in 1..n |-> [at |-> "init", current_ |-> Poison]]
  BY DEF Start
<1>6. /\ IsSeq(first) /\ Len(first) = BlockCount
      /\ \A m \in Memory : first[m].mem = m
      /\ Memory = 1..BlockCount /\ NULL \notin Memory
  <2>1. \A m \in Memory : first[m] = Block(m, BlockSize) /\ first[m].mem = m
    BY DEF Block
  <2>2. first \in Seq({first[m] : m \in Memory}) /\ DOMAIN first = Memory /\ Len(first) = BlockCount
    BY <1>1 DEF Memory
  <2>3. IsSeq(first)
    BY <2>2 DEF IsSeq
  <2> QED
    BY <2>1, <2>2, <2>3, <1>1 DEF Memory, NULL
<1>7. IsSeq(<<>>) /\ Len(<<>>) = 0
  BY DEF IsSeq
<1>8. Poison.mem = NULL
  BY DEF Poison, Block
<1> HIDE DEF n, first
<1>9. /\ queues_'[1] = first
      /\ \A i \in 1..n : i # 1 => queues_'[i] = <<>>
      /\ \A i \in 1..n : link'[i] = [at |-> "init", current_ |-> Poison]
      /\ \A i \in 1..n : link'[i].at = "init"
      /\ queues_' = [i \in 1..n |-> queues_'[i]] /\ link' = [i \in 1..n |-> link'[i]]
  BY <1>4, <1>5
<1>10. \A i \in 1..n : \A k \in 1..Len(queues_'[i]) :
           i = 1 /\ k \in Memory /\ queues_'[i][k].mem = k
  BY <1>6, <1>7, <1>9
<1>11. QueuesOK'
  <2>1. \A i \in 1..n : IsSeq(queues_'[i])
    BY <1>6, <1>7, <1>9
  <2> QED
    BY <2>1, <1>3, <1>9, <1>10 DEF QueuesOK, Mems, Memory
<1>12. LinkOK'
  BY <1>3, <1>8, <1>9 DEF LinkOK, Mems, Memory
<1>13. NoneTwice'
  BY <1>3, <1>10 DEF NoneTwice
<1>14. HoldersAre'
  BY <1>11, HeldNext
<1>15. \A m \in Memory : Holders(m)' = {<<"queue", 1>>}
  <2> TAKE m \in Memory
  <2>1. m \in Mems /\ m \in 1..Len(queues_'[1]) /\ queues_'[1][m].mem = m
    BY <1>6, <1>9 DEF Mems
  <2>2. <<"queue", 1>> \in Holders(m)'
    BY <2>1, <1>3, <1>4, <1>14 DEF HoldersAre, Mems, Memory
  <2>3. ASSUME NEW h \in Holders(m)' PROVE h = <<"queue", 1>>
    BY <2>1, <2>3, <1>3, <1>9, <1>10, <1>14 DEF HoldersAre, Mems, Memory
  <2> QED
    BY <2>2, <2>3
<1>16. Holders(NULL)' = {}
  BY <1>3, <1>6, <1>9, <1>10, <1>14 DEF HoldersAre, Mems, Memory
<1>17. OneHolder'
  BY <1>15, <1>16 DEF OneHolder, Mems, Memory
<1>18. PoisonLast'
  <2>1. \A i \in 1..n : Out(i)' \in 1..n
    BY <1>3, <1>4 DEF Out
  <2> QED
    BY <2>1, <1>3, <1>6, <1>10 DEF PoisonLast, IsPoison
<1>19. Accounted'
  <2>1. link'[1].at # "ended"
    BY <1>4, <1>9
  <2>2. Lost' = {}
    BY <1>15 DEF Lost, Memory
  <2> QED
    BY <2>1, <2>2, <1>16 DEF Accounted, NULL
<1> QED
  BY <1>2, <1>11, <1>12, <1>13, <1>17, <1>18, <1>19 DEF Running

LEMMA StayRunning ==
    ASSUME Running, UNCHANGED <<main, round, plan, queues_, link>>
    PROVE  Running'
<1>1. workers' = workers /\ Places' = Places /\ \A i : Out(i)' = Out(i)
  BY DEF workers, Places, Out
<1>2. \A m : Holders(m)' = Holders(m)
  BY <1>1 DEF Holders, InQueue, InHand
<1>3. QueuesOK' /\ LinkOK' /\ NoneTwice'
  BY <1>1 DEF Running, QueuesOK, LinkOK, NoneTwice, Mems, Memory
<1>4. OneHolder' /\ Accounted'
  <2>1. Lost' = Lost
    BY <1>2 DEF Lost, Memory
  <2> QED
    BY <2>1, <1>2 DEF Running, OneHolder, Accounted, Mems, Memory
<1>5. PoisonLast'
  BY <1>1 DEF Running, PoisonLast, IsPoison
<1> QED
  BY <1>3, <1>4, <1>5 DEF Running

-----------------------------------------------------------------------------
\* The invariant, and what follows from it.

LEMMA InitInv == Init => Inv
BY RoundsAssumption DEF Init, Inv

LEMMA NextInv == Inv /\ [Next]_vars => Inv'
<1> SUFFICES ASSUME Inv, [Next]_vars PROVE Inv'
  OBVIOUS
<1>1. Len(Rounds) \in Nat
  BY RoundsAssumption
<1>2. CASE Start
  <2>1. Running' /\ plan' = plan /\ round' \in 1..Len(Rounds)
    BY <1>2, StartRunning
  <2> QED
    BY <2>1, <1>1 DEF Inv
<1>3. CASE Add
  <2>1. main = "building" /\ UNCHANGED <<main, round, plan, queues_, link>>
    BY <1>3 DEF Add
  <2> QED
    BY <2>1, StayRunning DEF Inv
<1>4. CASE Join
  BY <1>4 DEF Join, Inv
<1>5. CASE Drain
  BY <1>5 DEF Drain, Inv
<1>6. ASSUME NEW i \in Places, Worker(i)
      PROVE  Inv'
  <2>1. CASE main = "building"
    BY <2>1, <1>6, WorkerRunning DEF Inv, SamePlan
  <2>2. CASE main # "building"
    BY <2>2, <1>6 DEF Inv, Worker, Consume, PassPoison, Read, Stream, Collapse, Write,
                      Recycle, Pass
  <2> QED
    BY <2>1, <2>2
<1>7. CASE UNCHANGED vars
  <2>1. UNCHANGED <<main, round, plan, queues_, link>>
    BY <1>7 DEF vars
  <2> QED
    BY <2>1, StayRunning DEF Inv
<1> QED
  BY <1>2, <1>3, <1>4, <1>5, <1>6, <1>7 DEF Next, Owner

THEOREM Invariance == Spec => []Inv
BY InitInv, NextInv, PTL DEF Spec

LEMMA KeptApart == Inv => BlocksKeptApart
<1> SUFFICES ASSUME Inv, main = "building" PROVE BlocksKeptApart
  BY DEF BlocksKeptApart
<1>1. /\ QueuesOK /\ LinkOK /\ NoneTwice /\ OneHolder /\ PoisonLast /\ Accounted
      /\ plan \in [1..Len(Rounds) -> Chains] /\ round \in 0..Len(Rounds) /\ round # 0
  BY DEF Inv, Running
<1>2. \A S : (\A g, h \in S : g = h) => S = {} \/ \E h : S = {h}
  OBVIOUS
<1>3. /\ Cardinality({}) = 0 /\ \A h : Cardinality({h}) = 1
  BY FS_EmptySet, FS_Singleton
<1>4. \A m \in Mems : Cardinality(Holders(m)) <= 1
  <2> TAKE m \in Mems
  <2>1. Holders(m) = {} \/ \E h : Holders(m) = {h}
    <3>1. \A g, h \in Holders(m) : g = h
      BY <1>1 DEF OneHolder
    <3> DEFINE S == Holders(m)
    <3> HIDE DEF S
    <3>2. S = {} \/ \E h : S = {h}
      BY <3>1, <1>2 DEF S
    <3> QED
      BY <3>2 DEF S
  <2> DEFINE n == Cardinality(Holders(m))
  <2>2. n = 0 \/ n = 1
    BY <2>1, <1>3
  <2> HIDE DEF n
  <2>3. n <= 1
    BY <2>2
  <2> QED
    BY <2>3 DEF n
<1>5. \A i \in Places : \A k \in DOMAIN queues_[i] :
          IsPoison(queues_[i][k]) => k = Len(queues_[i])
  <2> TAKE i \in Places
  <2>1. DOMAIN queues_[i] = 1..Len(queues_[i])
    BY <1>1, SeqFacts DEF QueuesOK
  <2>2. PICK j \in Places : Out(j) = i
    BY <1>1, OutFacts
  <2> QED
    BY <2>1, <2>2, <1>1 DEF PoisonLast
<1>6. Cardinality(Lost) = Cardinality(Holders(NULL))
  <2>1. CASE link[1].at = "ended"
    <3>1. Holders(NULL) # {} /\ \E m \in Memory : Lost = {m}
      BY <2>1, <1>1 DEF Accounted
    <3>2. \E h : Holders(NULL) = {h}
      BY <3>1, <1>1, <1>2 DEF OneHolder, Mems
    <3> QED
      BY <3>1, <3>2, <1>3
  <2>2. CASE link[1].at # "ended"
    BY <2>2, <1>1 DEF Accounted
  <2> QED
    BY <2>1, <2>2
<1> QED
  BY <1>4, <1>5, <1>6 DEF BlocksKeptApart, Mems, Lost

\* In every chain, whatever its workers, blocks and entries: no block is in two places; the poison
\* is behind all blocks of its queue; and the chain has lost one block exactly when there is a
\* poison, the one the source makes of its block when it ends (Read::Run, Stream::Poison).
THEOREM BlocksApart == Spec => []BlocksKeptApart
BY Invariance, KeptApart, PTL

-----------------------------------------------------------------------------
\* Room in the queues.

\* A worker that has a block to pass on finds room for it: a queue has a slot for every block, so
\* that Produce never makes a worker of a closed chain wait for the one behind it.
RoomToPass ==
    main = "building" =>
        \A i \in Places : link[i].at = "working" => Len(queues_[Out(i)]) < BlockCount

\* In the queue are blocks that differ from each other, from the one in hand, and from the one the
\* source has poisoned; before it has, there is no poison.
LEMMA Room == Inv => RoomToPass
<1> SUFFICES ASSUME Inv, main = "building", NEW i \in Places, link[i].at = "working"
    PROVE  Len(queues_[Out(i)]) < BlockCount
  BY DEF RoomToPass
<1>1. /\ QueuesOK /\ LinkOK /\ NoneTwice /\ OneHolder /\ Accounted
      /\ plan \in [1..Len(Rounds) -> Chains] /\ round \in 0..Len(Rounds) /\ round # 0
  BY DEF Inv, Running
<1>2. PICK o \in Places : o = Out(i)
  BY <1>1, OutFacts
<1> DEFINE q == queues_[o]
           n == Len(q)
<1>3. n \in Nat /\ \A k \in 1..n : q[k].mem \in Mems
  BY <1>1, SeqFacts DEF QueuesOK
<1>4. HoldersAre
  BY <1>1, Held
<1>5. PICK c \in Mems : c = link[i].current_.mem
  BY <1>1 DEF LinkOK
<1>6. <<"link", i>> \in Holders(c)
  BY <1>4, <1>5 DEF HoldersAre
<1>7. PICK l \in Mems : Holders(l) = {}
  <2>1. CASE link[1].at = "ended"
    BY <2>1, <1>1 DEF Accounted, Lost, Mems
  <2>2. CASE link[1].at # "ended"
    BY <2>2, <1>1 DEF Accounted, Mems
  <2> QED
    BY <2>1, <2>2
<1> DEFINE T == (Mems \ {c}) \ {l}
           f == [k \in 1..n |-> q[k].mem]
<1>8. \A k \in 1..n : q[k].mem # c /\ q[k].mem # l
  <2> TAKE k \in 1..n
  <2>1. PICK m \in Mems : m = q[k].mem
    BY <1>3
  <2>2. <<"queue", o>> \in Holders(m)
    BY <2>1, <1>4 DEF HoldersAre
  <2>3. m # c
    BY <2>2, <1>1, <1>6 DEF OneHolder
  <2> QED
    BY <2>1, <2>2, <2>3, <1>7
<1>9. f \in Injection(1..n, T)
  <2>1. f \in [1..n -> T]
    BY <1>3, <1>8
  <2>2. \A j, k \in 1..n : f[j] = f[k] => j = k
    BY <1>1 DEF NoneTwice
  <2> HIDE DEF f, T, n
  <2> QED
    BY <2>1, <2>2 DEF Injection, IsInjective
<1>10. IsFiniteSet(T) /\ Cardinality(T) = BlockCount - 1
  <2>1. Mems = 0..BlockCount
    BY BlockAssumption DEF Mems, Memory, NULL
  <2>2. IsFiniteSet(Mems) /\ Cardinality(Mems) = BlockCount + 1
    BY <2>1, BlockAssumption, FS_Interval
  <2>3. l # c
    BY <1>6, <1>7
  <2>4. c \in Mems /\ l \in Mems \ {c}
    BY <2>3
  <2> DEFINE R == Mems \ {c}
  <2>5. /\ IsFiniteSet(R)
        /\ Cardinality(R) = IF c \in Mems THEN Cardinality(Mems) - 1 ELSE Cardinality(Mems)
    BY <2>2, FS_RemoveElement
  <2>6. Cardinality(R) = BlockCount
    BY <2>2, <2>4, <2>5, BlockAssumption
  <2> HIDE DEF R
  <2>7. /\ IsFiniteSet(R \ {l})
        /\ Cardinality(R \ {l}) = IF l \in R THEN Cardinality(R) - 1 ELSE Cardinality(R)
    BY <2>5, FS_RemoveElement
  <2> QED
    BY <2>4, <2>6, <2>7 DEF R
<1>11. IsFiniteSet(1..n) /\ Cardinality(1..n) = n
  BY <1>3, FS_Interval
<1> HIDE DEF f, T, n
<1>12. n <= BlockCount - 1
  BY <1>9, <1>10, <1>11, FS_Injection
<1>13. n < BlockCount
  BY <1>3, <1>12, BlockAssumption
<1> QED
  BY <1>2, <1>13 DEF n

\* No worker ever waits for the one behind it: it can always pass its block on.
THEOREM NeverWaitsToPass == Spec => []RoomToPass
BY Invariance, Room, PTL

-----------------------------------------------------------------------------
\* Wait: all threads end, and all blocks come back.

TookPoison(i) == link[i].at \in {"working", "ended"} /\ IsPoison(link[i].current_)

\* When the poison has gone through a queue, nothing is left in it and nothing comes.
PoisonTaken ==
    \A j \in Places : Out(j) # 1 /\ TookPoison(Out(j)) =>
        link[j].at = "ended" /\ queues_[Out(j)] = <<>>
EndedByPoison == \A i \in Places : i # 1 /\ link[i].at = "ended" => IsPoison(link[i].current_)
Ends == PoisonTaken /\ EndedByPoison

\* What Wait finds in the first queue: the blocks that are left, and the poison behind them.
Draining ==
    /\ round # 0 /\ queues_ = [i \in Places |-> queues_[i]]
    /\ IsSeq(queues_[1]) /\ queues_[1] # <<>>
    /\ \A k \in 1..Len(queues_[1]) : IsPoison(queues_[1][k]) <=> k = Len(queues_[1])
    /\ drained \in Nat /\ drained + Len(queues_[1]) = BlockCount

WaitInv ==
    /\ main # "building" => threads_ = 0
    /\ main = "building" => drained = 0 /\ Ends
    /\ main = "draining" => Draining
    /\ main = "idle" /\ round # 0 => drained = BlockCount - 1
    /\ main # "aborted"

LEMMA ConsumeEnds ==
    ASSUME Inv, main = "building", Ends, NEW i \in Places, Consume(i)
    PROVE  Ends'
<1>1. /\ QueuesOK /\ LinkOK /\ PoisonLast
      /\ plan \in [1..Len(Rounds) -> Chains] /\ round \in 0..Len(Rounds) /\ round # 0
  BY DEF Inv, Running
<1> DEFINE q == queues_[i]
<1>2. /\ link[i].at \in {"init", "passed"} /\ q # <<>> /\ SamePlan
      /\ link' = [link EXCEPT ![i] = [at |-> "working", current_ |-> Head(q)]]
      /\ queues_' = [queues_ EXCEPT ![i] = Tail(q)]
  BY <1>1 DEF Consume, SamePlan, QueuesOK
<1>3. Places' = Places /\ \A j \in Places : Out(j)' = Out(j) /\ Out(j) \in Places
  BY <1>1, <1>2, SamePlaces, OutFacts
<1>4. /\ \A j \in Places : j # i => queues_'[j] = queues_[j] /\ link'[j] = link[j]
      /\ queues_'[i] = Tail(q) /\ link'[i] = [at |-> "working", current_ |-> Head(q)]
      /\ link'[i].at = "working" /\ link'[i].current_ = Head(q)
  BY <1>1, <1>2 DEF QueuesOK, LinkOK
<1>5. IsSeq(q)
  BY <1>1 DEF QueuesOK
<1>6. /\ IsSeq(Tail(q)) /\ Len(q) \in Nat \ {0} /\ Len(Tail(q)) = Len(q) - 1 /\ Head(q) = q[1]
  BY <1>2, <1>5, TailFacts
<1>7. EndedByPoison'
  BY <1>3, <1>4 DEF Ends, EndedByPoison, IsPoison
<1>8. PoisonTaken'
  <2> SUFFICES ASSUME NEW j \in Places, Out(j) # 1, link'[Out(j)].at \in {"working", "ended"},
                      IsPoison(link'[Out(j)].current_)
      PROVE  link'[j].at = "ended" /\ queues_'[Out(j)] = <<>>
    BY <1>3 DEF PoisonTaken, TookPoison, IsPoison
  <2>1. CASE Out(j) = i
    <3>1. IsPoison(q[1]) /\ 1 \in 1..Len(q)
      BY <2>1, <1>4, <1>6
    <3>2. 1 = Len(q) /\ link[j].at = "ended"
      BY <2>1, <3>1, <1>1 DEF PoisonLast
    <3>3. Tail(q) = <<>>
      <4> DEFINE a == Tail(q)
      <4>1. IsSeq(a) /\ Len(a) = 0
        BY <3>2, <1>6
      <4> HIDE DEF a
      <4>2. a = <<>>
        BY <4>1, SeqFacts
      <4> QED
        BY <4>2 DEF a
    <3> QED
      BY <2>1, <3>2, <3>3, <1>2, <1>4
  <2>2. CASE Out(j) # i
    <3>1. link[j].at = "ended" /\ queues_[Out(j)] = <<>>
      BY <2>2, <1>3, <1>4 DEF Ends, PoisonTaken, TookPoison
    <3> QED
      BY <2>2, <3>1, <1>2, <1>3, <1>4
  <2> QED
    BY <2>1, <2>2
<1> QED
  BY <1>7, <1>8 DEF Ends

LEMMA PassEnds ==
    ASSUME Inv, main = "building", Ends, NEW i \in Places, NEW block, Pass(i, block),
           \/ block.mem = link[i].current_.mem
           \/ block.mem = NULL /\ i = 1
    PROVE  Ends'
<1>1. /\ QueuesOK /\ LinkOK
      /\ plan \in [1..Len(Rounds) -> Chains] /\ round \in 0..Len(Rounds) /\ round # 0
  BY DEF Inv, Running
<1> DEFINE at == IF IsPoison(block) THEN "ended" ELSE "passed"
<1>2. /\ link[i].at = "working" /\ SamePlan
      /\ link' = [link EXCEPT ![i].at = at]
      /\ queues_' = [queues_ EXCEPT ![Out(i)] = Append(@, block)]
  BY DEF Pass, SamePlan
<1>3. Places' = Places /\ \A j \in Places : Out(j)' = Out(j) /\ Out(j) \in Places
  BY <1>1, <1>2, SamePlaces, OutFacts
<1>4. \A j \in Places : j # i => Out(j) # Out(i)
  BY <1>1, OutFacts
<1>5. at = "ended" => IsPoison(block)
  OBVIOUS
<1> HIDE DEF at
<1>6. /\ \A j \in Places : j # i => link'[j] = link[j]
      /\ link'[i].at = at /\ link'[i].current_ = link[i].current_
  BY <1>1, <1>2 DEF LinkOK
<1>7. \A j \in Places : j # Out(i) => queues_'[j] = queues_[j]
  BY <1>1, <1>2 DEF QueuesOK
<1>8. EndedByPoison'
  BY <1>3, <1>5, <1>6 DEF Ends, EndedByPoison, IsPoison
<1>9. PoisonTaken'
  <2> SUFFICES ASSUME NEW j \in Places, Out(j) # 1, link'[Out(j)].at \in {"working", "ended"},
                      IsPoison(link'[Out(j)].current_)
      PROVE  link'[j].at = "ended" /\ queues_'[Out(j)] = <<>>
    BY <1>3 DEF PoisonTaken, TookPoison, IsPoison
  <2>1. TookPoison(Out(j))
    BY <1>2, <1>3, <1>6 DEF TookPoison
  <2>2. link[j].at = "ended" /\ queues_[Out(j)] = <<>>
    BY <2>1 DEF Ends, PoisonTaken
  <2>3. j # i
    BY <2>2, <1>2
  <2> QED
    BY <2>2, <2>3, <1>3, <1>4, <1>6, <1>7
<1> QED
  BY <1>8, <1>9 DEF Ends

LEMMA WorkerEnds ==
    ASSUME Inv, main = "building", Ends, NEW i \in Places, Worker(i)
    PROVE  Ends' /\ UNCHANGED <<main, round, plan, threads_, drained>>
<1>1. CASE Consume(i)
  BY <1>1, ConsumeEnds DEF Consume
<1>2. ASSUME NEW block, Pass(i, block),
             \/ block.mem = link[i].current_.mem
             \/ block.mem = NULL /\ i = 1
      PROVE  Ends' /\ UNCHANGED <<main, round, plan, threads_, drained>>
  BY <1>2, PassEnds DEF Pass
<1>3. CASE \E block : Pass(i, block) /\ (\/ block.mem = link[i].current_.mem
                                         \/ block.mem = NULL /\ i = 1)
  BY <1>2, <1>3
<1> QED
  BY <1>1, <1>3, PassesOn

LEMMA StayEnds ==
    ASSUME UNCHANGED <<main, round, plan, queues_, link, drained>>
    PROVE  (Ends => Ends') /\ (Draining => Draining')
<1>1. workers' = workers /\ Places' = Places /\ \A i : Out(i)' = Out(i)
  BY DEF workers, Places, Out
<1>2. Ends => Ends'
  BY <1>1 DEF Ends, PoisonTaken, EndedByPoison, TookPoison, IsPoison
<1>3. Draining => Draining'
  BY <1>1 DEF Draining, IsPoison, IsSeq
<1> QED
  BY <1>2, <1>3

\* When all workers have ended, the poison has gone through all queues but the first.
LEMMA OnlyFirstLeft ==
    ASSUME plan \in [1..Len(Rounds) -> Chains], round \in 0..Len(Rounds), round # 0, Ends,
           \A i \in Places : link[i].at = "ended"
    PROVE  \A i \in Places : i # 1 => queues_[i] = <<>>
<1> SUFFICES ASSUME NEW i \in Places, i # 1 PROVE queues_[i] = <<>>
  OBVIOUS
<1>1. PICK j \in Places : Out(j) = i
  BY OutFacts
<1>2. TookPoison(i)
  BY DEF Ends, EndedByPoison, TookPoison
<1> QED
  BY <1>1, <1>2 DEF Ends, PoisonTaken

\* Join: the poison is in the first queue, behind all blocks but the one it is made of.
LEMMA JoinDraining ==
    ASSUME Inv, WaitInv, Join
    PROVE  Draining'
<1>1. /\ QueuesOK /\ LinkOK /\ NoneTwice /\ OneHolder /\ PoisonLast /\ Accounted /\ Ends
      /\ plan \in [1..Len(Rounds) -> Chains] /\ round \in 0..Len(Rounds) /\ round # 0
      /\ main = "building" /\ drained = 0
  BY DEF Inv, Running, WaitInv, Join
<1>2. /\ \A i \in Places : link[i].at = "ended"
      /\ UNCHANGED <<round, plan, queues_, drained>>
  BY DEF Join
<1>3. /\ 1 \in Places /\ \A i \in Places : Out(i) \in Places
      /\ \A j \in Places : \E i \in Places : Out(i) = j
  BY <1>1, OutFacts
<1> DEFINE q == queues_[1]
           n == Len(q)
<1>4. IsSeq(q) /\ n \in Nat /\ \A k \in 1..n : q[k].mem \in Mems
  BY <1>1, <1>3, SeqFacts DEF QueuesOK
<1>5. HoldersAre
  BY <1>1, Held
<1>6. \A i \in Places : i # 1 => queues_[i] = <<>>
  BY <1>1, <1>2, OnlyFirstLeft
<1>7. \A m \in Mems : Holders(m) # {} => \E k \in 1..n : q[k].mem = m
  <2> SUFFICES ASSUME NEW m \in Mems, NEW h \in Holders(m)
      PROVE  \E k \in 1..n : q[k].mem = m
    OBVIOUS
  <2>1. PICK i \in Places : h = <<"queue", i>> \/ h = <<"link", i>>
    BY <1>5 DEF HoldersAre
  <2>2. h # <<"link", i>>
    BY <1>2, <1>5 DEF HoldersAre
  <2>3. PICK k \in 1..Len(queues_[i]) : queues_[i][k].mem = m
    BY <2>1, <2>2, <1>5 DEF HoldersAre
  <2>4. i = 1
    BY <2>3, <1>6
  <2> QED
    BY <2>3, <2>4
<1>8. PICK l \in Memory : Lost = {l}
  BY <1>1, <1>2, <1>3 DEF Accounted
<1>9. Holders(NULL) # {}
  BY <1>1, <1>2, <1>3 DEF Accounted
<1>10. \A k \in 1..n : IsPoison(q[k]) <=> k = n
  <2>1. PICK p \in 1..n : IsPoison(q[p])
    BY <1>7, <1>9 DEF Mems, IsPoison
  <2>2. PICK i \in Places : Out(i) = 1
    BY <1>3
  <2>3. \A k \in 1..n : IsPoison(q[k]) => k = n
    BY <2>2, <1>1 DEF PoisonLast
  <2> QED
    BY <2>1, <2>3
<1> DEFINE T == Mems \ {l}
           f == [k \in 1..n |-> q[k].mem]
<1>11. l \in Mems /\ Holders(l) = {} /\ \A m \in T : Holders(m) # {}
  BY <1>8, <1>9 DEF Lost, Mems
<1>12. f \in Bijection(1..n, T)
  <2>1. \A k \in 1..n : q[k].mem # l
    <3> TAKE k \in 1..n
    <3>1. PICK m \in Mems : m = q[k].mem
      BY <1>4
    <3>2. <<"queue", 1>> \in Holders(m)
      BY <3>1, <1>3, <1>5 DEF HoldersAre
    <3> QED
      BY <3>1, <3>2, <1>11
  <2>2. f \in [1..n -> T]
    BY <2>1, <1>4
  <2>3. \A j, k \in 1..n : f[j] = f[k] => j = k
    BY <1>1, <1>3 DEF NoneTwice
  <2>4. \A m \in T : \E k \in 1..n : f[k] = m
    BY <1>7, <1>11
  <2> HIDE DEF f, T, n
  <2> QED
    BY <2>2, <2>3, <2>4 DEF Bijection, Injection, IsInjective, Surjection
<1>13. IsFiniteSet(T) /\ Cardinality(T) = BlockCount
  <2>1. Mems = 0..BlockCount
    BY BlockAssumption DEF Mems, Memory, NULL
  <2>2. IsFiniteSet(Mems) /\ Cardinality(Mems) = BlockCount + 1
    BY <2>1, BlockAssumption, FS_Interval
  <2>3. /\ IsFiniteSet(T)
        /\ Cardinality(T) = IF l \in Mems THEN Cardinality(Mems) - 1 ELSE Cardinality(Mems)
    BY <2>2, FS_RemoveElement
  <2>4. l \in Mems
    BY <1>11
  <2> HIDE DEF T
  <2> QED
    BY ONLY <2>2, <2>3, <2>4, BlockAssumption
<1>14. IsFiniteSet(1..n) /\ Cardinality(1..n) = n
  <2>1. n \in Nat
    BY <1>4
  <2> HIDE DEF n
  <2> QED
    BY ONLY <2>1, FS_Interval
<1>15. n = BlockCount
  <2> HIDE DEF f, T, n
  <2> QED
    BY <1>12, <1>13, <1>14, FS_Bijection DEF ExistsBijection
<1>16. q # <<>>
  BY <1>15, BlockAssumption
<1>17. Places' = Places
  BY <1>2 DEF Places, workers
<1>18. queues_ = [i \in Places |-> queues_[i]]
  BY <1>1 DEF QueuesOK
<1> HIDE DEF q, n
<1>19. /\ IsSeq(q) /\ q # <<>> /\ drained \in Nat /\ drained + Len(q) = BlockCount
       /\ \A k \in 1..Len(q) : IsPoison(q[k]) <=> k = Len(q)
  BY <1>1, <1>4, <1>10, <1>15, <1>16, BlockAssumption DEF n
<1> QED
  BY <1>1, <1>2, <1>17, <1>18, <1>19 DEF Draining, IsPoison, IsSeq, q, NULL

\* Drain takes the blocks, and at last the poison.
LEMMA DrainWaits ==
    ASSUME Inv, WaitInv, Drain
    PROVE  WaitInv'
<1> DEFINE q == queues_[1]
<1>1. /\ Draining /\ main = "draining" /\ threads_ = 0 /\ threads_' = 0
      /\ UNCHANGED <<round, plan>>
  BY DEF Drain, WaitInv
<1>2. /\ round # 0 /\ queues_ = [i \in Places |-> queues_[i]]
      /\ IsSeq(q) /\ q # <<>>
      /\ \A k \in 1..Len(q) : IsPoison(q[k]) <=> k = Len(q)
      /\ drained \in Nat /\ drained + Len(q) = BlockCount
  BY <1>1 DEF Draining
<1>3. /\ IsSeq(Tail(q)) /\ Len(q) \in Nat \ {0} /\ Len(Tail(q)) = Len(q) - 1
      /\ \A k \in 1..(Len(q) - 1) : Tail(q)[k] = q[k + 1]
      /\ Head(q) = q[1]
  BY <1>2, TailFacts
<1> DEFINE n == Len(q)
           r == Tail(q)
<1>4. /\ n \in Nat \ {0} /\ Len(r) = n - 1 /\ IsSeq(r) /\ drained + n = BlockCount
      /\ \A k \in 1..n : IsPoison(q[k]) <=> k = n
      /\ \A k \in 1..(n - 1) : r[k] = q[k + 1]
  BY <1>2, <1>3
<1>5. BlockCount \in Nat \ {0} /\ drained \in Nat
  BY <1>2, BlockAssumption
<1>6. CASE IsPoison(Head(q)) /\ main' = "idle" /\ drained' = drained
  <2>1. IsPoison(q[1])
    BY <1>3, <1>6
  <2> HIDE DEF q, n, r
  <2>2. n = 1
    BY <2>1, <1>4
  <2>3. drained' = BlockCount - 1
    BY <2>2, <1>4, <1>5, <1>6
  <2> QED
    BY <2>3, <1>1, <1>6 DEF WaitInv
<1>7. CASE /\ ~IsPoison(Head(q))
           /\ main' = IF drained = BlockCount THEN "aborted" ELSE main
           /\ drained' = drained + 1
           /\ queues_' = [queues_ EXCEPT ![1] = r]
  <2>1. Places' = Places /\ 1 \in Places
    BY <1>1, <1>2, OutFacts DEF Places, workers, Inv
  <2>2. queues_'[1] = r /\ queues_' = [i \in Places |-> queues_'[i]]
    BY <2>1, <1>2, <1>7
  <2>3. ~IsPoison(q[1])
    BY <1>3, <1>7
  <2> HIDE DEF q, n, r
  <2>4. n > 1
    BY <2>3, <1>4
  <2>5. drained # BlockCount /\ main' = "draining"
    BY <2>4, <1>1, <1>4, <1>5, <1>7
  <2>6. Len(r) # 0 /\ drained' \in Nat /\ drained' + Len(r) = BlockCount
    BY <2>4, <1>4, <1>5, <1>7
  <2>7. r # <<>>
    BY <2>6
  <2>8. \A k \in 1..Len(r) : IsPoison(r[k]) <=> k = Len(r)
    <3> TAKE k \in 1..Len(r)
    <3>1. k \in 1..(n - 1) /\ k + 1 \in 1..n /\ (k + 1 = n <=> k = Len(r))
      BY <1>4
    <3>2. r[k] = q[k + 1]
      BY <3>1, <1>4
    <3>3. IsPoison(q[k + 1]) <=> k + 1 = n
      BY <3>1, <1>4
    <3> QED
      BY <3>1, <3>2, <3>3
  <2>9. Draining'
    BY <2>1, <2>2, <2>6, <2>7, <2>8, <1>1, <1>2, <1>4 DEF Draining, IsPoison, IsSeq, NULL
  <2> QED
    BY <2>5, <2>9, <1>1 DEF WaitInv
<1> QED
  BY <1>6, <1>7 DEF Drain

LEMMA InitWaits == Init => WaitInv
BY DEF Init, WaitInv

LEMMA NextWaits == Inv /\ WaitInv /\ [Next]_vars => WaitInv'
<1> SUFFICES ASSUME Inv, WaitInv, [Next]_vars PROVE WaitInv'
  OBVIOUS
<1>1. CASE Start
  <2>1. /\ Running' /\ main' = "building" /\ drained' = 0
        /\ \A i \in Places' : link'[i].at = "init"
    <3>1. Running' /\ round' \in 1..Len(Rounds)
      BY <1>1, StartRunning
    <3>2. Places' = 1..Len(plan[round + 1])
      BY <1>1, RoundsAssumption DEF Start, Inv, Places, workers
    <3> QED
      BY <3>1, <3>2, <1>1 DEF Start
  <2>2. \A j \in Places' : Out(j)' \in Places'
    <3>1. plan' \in [1..Len(Rounds) -> Chains] /\ round' \in 0..Len(Rounds) /\ round' # 0
      BY <1>1, StartRunning, RoundsAssumption DEF Inv
    <3> QED
      BY <3>1, OutNext
  <2>3. Ends'
    BY <2>1, <2>2 DEF Ends, PoisonTaken, EndedByPoison, TookPoison
  <2> QED
    BY <2>1, <2>3 DEF WaitInv
<1>2. CASE Add
  <2>1. main = "building" /\ UNCHANGED <<main, round, plan, queues_, link, drained>>
    BY <1>2 DEF Add
  <2> QED
    BY <2>1, StayEnds DEF WaitInv
<1>3. CASE Join
  <2>1. Draining' /\ threads_' = 0 /\ main' = "draining"
    BY <1>3, JoinDraining DEF Join
  <2> QED
    BY <2>1 DEF WaitInv
<1>4. CASE Drain
  BY <1>4, DrainWaits
<1>5. ASSUME NEW i \in Places, Worker(i)
      PROVE  WaitInv'
  <2>1. CASE main = "building"
    BY <2>1, <1>5, WorkerEnds DEF WaitInv
  <2>2. CASE main # "building"
    <3>1. i <= 0 /\ i >= 1
      BY <2>2, <1>5 DEF WaitInv, Worker, Places
    <3> QED
      BY <3>1 DEF Places
  <2> QED
    BY <2>1, <2>2
<1>6. CASE UNCHANGED vars
  <2>1. UNCHANGED <<main, round, plan, queues_, link, drained, threads_>>
    BY <1>6 DEF vars
  <2> QED
    BY <2>1, StayEnds DEF WaitInv
<1> QED
  BY <1>1, <1>2, <1>3, <1>4, <1>5, <1>6 DEF Next, Owner

\* What the owner of a chain finds in Wait.
WaitEndsWell ==
    /\ main # "aborted"
    /\ main = "draining" => queues_[1] # <<>>
    /\ main = "idle" /\ round # 0 => drained = BlockCount - 1

\* Wait never aborts for want of the poison, never waits for a block that does not come, and has
\* taken all blocks but the poisoned one when it returns.
THEOREM AllBlocksComeBack == Spec => []WaitEndsWell
<1>1. WaitInv => WaitEndsWell
  BY DEF WaitInv, Draining, WaitEndsWell
<1> QED
  BY <1>1, Invariance, InitWaits, NextWaits, PTL DEF Spec

-----------------------------------------------------------------------------
\* What is written.

\* How lm/builder puts chains together: behind the source workers that delete entries, if any, a
\* writer, and behind it at most those that restore the size of the blocks.
Writers == {"Write", "WriteAndRecycle"}
Pipeline ==
    \A chain \in Chains : \E w \in 2..Len(chain) :
        /\ chain[1] \in Sources /\ chain[w] \in Writers
        /\ \A i \in 2..w - 1 : chain[i] = "Collapse"
        /\ \A i \in w + 1..Len(chain) : chain[i] = "Recycler"

Writer == CHOOSE w \in Places : workers[w] \in Writers

Entries == (1..Len(Rounds)) \X Nat

\* The places from the source to the writer that hold a block: <<i, 0>> the hand of worker i, and
\* <<i, k>> the place k of the queue before it; and which is nearer to the writer.
Slots ==
    {s \in UNION {{i} \X (0..Len(queues_[i])) : i \in 2..Writer} :
        IF s[2] = 0 THEN link[s[1]].at = "working" /\ ~IsPoison(link[s[1]].current_)
                    ELSE ~IsPoison(queues_[s[1]][s[2]])}
BlockAt(s) == IF s[2] = 0 THEN link[s[1]].current_ ELSE queues_[s[1]][s[2]]
Text(s) == memory_[BlockAt(s).mem]
Ahead(s, t) == s[1] > t[1] \/ (s[1] = t[1] /\ s[2] < t[2])

SizesOK ==
    \A i \in Places : /\ link[i].current_.size \in 0..BlockSize
                      /\ \A k \in 1..Len(queues_[i]) : queues_[i][k].size \in 0..BlockSize

\* Entries of this round that a block may hold before worker i: different ones, close to each other,
\* in order if they come from the source, and none that has been deleted.
EntryOK(entry, i) ==
    /\ entry[1] = round /\ entry[2] \in 1..Rounds[round] /\ entry[2] <= produced
    /\ i > 2 => entry[2] \notin Dropped
TextOK(text, i) ==
    /\ \A p \in 1..Len(text) : EntryOK(text[p], i)
    /\ \A p, q \in 1..Len(text) :
           p # q => text[p][2] # text[q][2] /\ text[p][2] - text[q][2] < BlockSize
    /\ i = 2 => \A p, q \in 1..Len(text) : p < q => text[p][2] < text[q][2]
SlotsOK == \A s \in Slots : BlockAt(s).size = Len(Text(s)) /\ TextOK(Text(s), s[1])

\* The blocks are in turn, and behind what is written.
InTurn ==
    \A s, t \in Slots : Ahead(s, t) =>
        \A p \in 1..Len(Text(s)), q \in 1..Len(Text(t)) : Text(s)[p][2] < Text(t)[q][2]
WrittenBefore ==
    \A n \in 1..Len(written) : written[n][1] = round =>
        \A s \in Slots : \A p \in 1..Len(Text(s)) : written[n][2] < Text(s)[p][2]

\* What the source has put into blocks is on its way, or it is written.
OnItsWay(entry) == \E s \in Slots : \E p \in 1..Len(Text(s)) : Text(s)[p] = entry
IsWritten(entry) == \E n \in 1..Len(written) : written[n] = entry
NoneLost ==
    \A k \in Wanted(round) : k <= produced => IsWritten(<<round, k>>) \/ OnItsWay(<<round, k>>)

\* The source ends when it has no more.
SourceDone ==
    /\ produced <= Rounds[round] + 1
    /\ link[1].at = "ended" => produced >= Rounds[round]

WrittenOK ==
    /\ written \in Seq(Entries)
    /\ \A n \in 1..Len(written) :
           /\ written[n][1] \in 1..round /\ written[n][2] \in Wanted(written[n][1])
           /\ main = "building" /\ written[n][1] = round => written[n][2] <= produced
           /\ \A m \in 1..n - 1 :
                  \/ written[m][1] < written[n][1]
                  \/ /\ written[m][1] = written[n][1] /\ written[m][2] # written[n][2]
                     /\ ~DueBefore(written[n][1], written[n][2], written[m][2])
Past == \A r \in 1..Finished : \A k \in Wanted(r) : IsWritten(<<r, k>>)

Carrying == SizesOK /\ SlotsOK /\ InTurn /\ WrittenBefore /\ NoneLost /\ SourceDone

CarryInv ==
    /\ memory_ \in [Memory -> Seq(Entries)] /\ produced \in Nat
    /\ WrittenOK /\ Past
    /\ main = "building" => Carrying

\* The round that runs, and its writer.
Going == plan \in [1..Len(Rounds) -> Chains] /\ round \in 1..Len(Rounds)

LEMMA WriterFacts ==
    ASSUME Pipeline, Going
    PROVE  /\ Len(workers) \in Nat \ {0} /\ Writer \in 2..Len(workers) /\ 2..Writer \subseteq Places
           /\ workers[1] \in Sources /\ workers[Writer] \in Writers
           /\ \A i \in 2..Writer - 1 : workers[i] = "Collapse"
           /\ \A i \in Writer + 1..Len(workers) : workers[i] = "Recycler"
           /\ Collapses(round) <=> Writer > 2
           /\ Rounds[round] \in Nat /\ BlockSize \in Nat \ {0}
<1>1. Len(Rounds) \in Nat /\ Rounds[round] \in Nat /\ BlockSize \in Nat \ {0}
  BY RoundsAssumption, BlockAssumption DEF Going
<1>2. workers = plan[round] /\ workers \in Chains
  BY <1>1 DEF workers, Going
<1>3. workers \in Seq(Kinds)
  BY <1>2, ChainsAssumption
<1>4. Len(workers) \in Nat /\ DOMAIN workers = 1..Len(workers)
  BY <1>3
<1>5. PICK w \in 2..Len(workers) :
          /\ workers[1] \in Sources /\ workers[w] \in Writers
          /\ \A i \in 2..w - 1 : workers[i] = "Collapse"
          /\ \A i \in w + 1..Len(workers) : workers[i] = "Recycler"
  BY <1>2 DEF Pipeline
<1>6. /\ "Collapse" \notin Writers /\ "Recycler" \notin Writers /\ \A kind \in Sources : kind \notin Writers
      /\ "Collapse" \notin Sources /\ "Recycler" # "Collapse" /\ "Collapse" \notin Writers
  BY DEF Writers, Sources
<1>7. \A i \in Places : workers[i] \in Writers => i = w
  <2> TAKE i \in Places
  <2>1. i = 1 \/ i \in 2..w - 1 \/ i = w \/ i \in w + 1..Len(workers)
    BY <1>4 DEF Places
  <2> QED
    BY <2>1, <1>5, <1>6
<1>8. Writer = w
  <2>1. w \in Places
    BY <1>4, <1>5 DEF Places
  <2> QED
    BY <2>1, <1>5, <1>7 DEF Writer
<1>9. Collapses(round) <=> w > 2
  <2>1. ASSUME w > 2 PROVE Collapses(round)
    <3>1. 2 \in 2..w - 1 /\ 2 \in DOMAIN workers
      BY <2>1, <1>4
    <3> QED
      BY <3>1, <1>2, <1>5 DEF Collapses
  <2>2. ASSUME Collapses(round) PROVE w > 2
    <3>1. PICK i \in DOMAIN workers : workers[i] = "Collapse"
      BY <2>2, <1>2 DEF Collapses
    <3>2. i = 1 \/ i \in 2..w - 1 \/ i = w \/ i \in w + 1..Len(workers)
      BY <1>4
    <3>3. i \in 2..w - 1
      BY <3>1, <3>2, <1>5, <1>6
    <3> QED
      BY <3>3
  <2> QED
    BY <2>1, <2>2
<1> QED
  BY <1>1, <1>4, <1>5, <1>8, <1>9 DEF Places

LEMMA SameWriter ==
    ASSUME SamePlan
    PROVE  /\ Writer' = Writer /\ round' = round
           /\ \A r : Wanted(r)' = Wanted(r) /\ Collapses(r)' = Collapses(r)
<1>1. workers' = workers /\ Places' = Places
  BY SamePlaces
<1>2. Writer' = Writer
  BY <1>1 DEF Writer, Writers
<1>3. \A r : Collapses(r)' = Collapses(r)
  BY DEF SamePlan, Collapses
<1> QED
  BY <1>2, <1>3 DEF SamePlan, Wanted

\* The places that hold a block.
SlotsAre ==
    /\ \A i \in 2..Writer : \A k \in Nat :
           <<i, k>> \in Slots <=>
               IF k = 0 THEN link[i].at = "working" /\ ~IsPoison(link[i].current_)
                        ELSE k <= Len(queues_[i]) /\ ~IsPoison(queues_[i][k])
    /\ \A s \in Slots : \E i \in 2..Writer : \E k \in Nat : s = <<i, k>>
    /\ \A i, k : BlockAt(<<i, k>>) = IF k = 0 THEN link[i].current_ ELSE queues_[i][k]

LEMMA SlotsHold == QueuesOK /\ 2..Writer \subseteq Places => SlotsAre
<1> SUFFICES ASSUME QueuesOK, 2..Writer \subseteq Places PROVE SlotsAre
  OBVIOUS
<1>1. \A i \in 2..Writer : Len(queues_[i]) \in Nat
  BY SeqFacts DEF QueuesOK
<1>2. ASSUME NEW i \in 2..Writer, NEW k \in Nat
      PROVE  <<i, k>> \in Slots <=>
                 IF k = 0 THEN link[i].at = "working" /\ ~IsPoison(link[i].current_)
                          ELSE k <= Len(queues_[i]) /\ ~IsPoison(queues_[i][k])
  <2>1. <<i, k>> \in UNION {{j} \X (0..Len(queues_[j])) : j \in 2..Writer}
            <=> k <= Len(queues_[i])
    BY <1>1
  <2>2. <<i, k>>[1] = i /\ <<i, k>>[2] = k
    OBVIOUS
  <2> QED
    BY <2>1, <2>2, <1>1 DEF Slots
<1>3. ASSUME NEW s \in Slots PROVE \E i \in 2..Writer : \E k \in Nat : s = <<i, k>>
  BY <1>1 DEF Slots
<1>4. \A i, k : BlockAt(<<i, k>>) = IF k = 0 THEN link[i].current_ ELSE queues_[i][k]
  BY DEF BlockAt
<1> QED
  BY <1>2, <1>3, <1>4 DEF SlotsAre

LEMMA SlotsNext == (QueuesOK /\ 2..Writer \subseteq Places)' => SlotsAre'
BY SlotsHold, PTL

\* A place in the queue or the hand where a block is.
Holder(s) == IF s[2] = 0 THEN <<"link", s[1]>> ELSE <<"queue", s[1]>>

LEMMA SlotFacts ==
    ASSUME Pipeline, Going, Running
    PROVE  /\ SlotsAre
           /\ \A s \in Slots : BlockAt(s).mem \in Memory /\ Holders(BlockAt(s).mem) = {Holder(s)}
           /\ \A s, t \in Slots : BlockAt(s).mem = BlockAt(t).mem => s = t
<1>1. QueuesOK /\ LinkOK /\ NoneTwice /\ OneHolder
  BY DEF Running
<1>2. 2..Writer \subseteq Places /\ Writer \in Nat
  BY WriterFacts
<1>3. SlotsAre /\ HoldersAre
  BY <1>1, <1>2, SlotsHold, Held
<1>4. ASSUME NEW s \in Slots
      PROVE  BlockAt(s).mem \in Memory /\ Holders(BlockAt(s).mem) = {Holder(s)}
  <2>1. PICK i \in 2..Writer, k \in Nat : s = <<i, k>>
    BY <1>3 DEF SlotsAre
  <2>2. i \in Places /\ s[1] = i /\ s[2] = k
    BY <2>1, <1>2
  <2>3. CASE k = 0
    <3>1. /\ link[i].at = "working" /\ ~IsPoison(link[i].current_)
          /\ BlockAt(s) = link[i].current_
      BY <2>1, <2>3, <1>3 DEF SlotsAre
    <3>2. BlockAt(s).mem \in Mems /\ BlockAt(s).mem # NULL
      BY <3>1, <2>2, <1>1 DEF LinkOK, IsPoison
    <3>3. <<"link", i>> \in Holders(BlockAt(s).mem)
      BY <3>1, <3>2, <2>2, <1>3 DEF HoldersAre
    <3> QED
      BY <3>2, <3>3, <2>2, <2>3, <1>1 DEF OneHolder, Holder, Mems
  <2>4. CASE k # 0
    <3>1. /\ k \in 1..Len(queues_[i]) /\ ~IsPoison(queues_[i][k])
          /\ BlockAt(s) = queues_[i][k]
      <4>1. Len(queues_[i]) \in Nat
        BY <2>2, <1>1, SeqFacts DEF QueuesOK
      <4> QED
        BY <4>1, <2>1, <2>4, <1>3 DEF SlotsAre
    <3>2. BlockAt(s).mem \in Mems /\ BlockAt(s).mem # NULL
      BY <3>1, <2>2, <1>1 DEF QueuesOK, IsPoison
    <3>3. <<"queue", i>> \in Holders(BlockAt(s).mem)
      BY <3>1, <3>2, <2>2, <1>3 DEF HoldersAre
    <3> QED
      BY <3>2, <3>3, <2>2, <2>4, <1>1 DEF OneHolder, Holder, Mems
  <2> QED
    BY <2>3, <2>4
<1>5. ASSUME NEW s \in Slots, NEW t \in Slots, BlockAt(s).mem = BlockAt(t).mem
      PROVE  s = t
  <2>1. PICK i \in 2..Writer, k \in Nat : s = <<i, k>>
    BY <1>3 DEF SlotsAre
  <2>2. PICK j \in 2..Writer, l \in Nat : t = <<j, l>>
    BY <1>3 DEF SlotsAre
  <2>3. Holder(s) = Holder(t)
    BY <1>4, <1>5
  <2>4. i = j /\ (k = 0 <=> l = 0)
    BY <2>1, <2>2, <2>3 DEF Holder
  <2>5. CASE k # 0
    <3>1. /\ k \in 1..Len(queues_[i]) /\ BlockAt(s) = queues_[i][k]
          /\ l \in 1..Len(queues_[i]) /\ BlockAt(t) = queues_[i][l]
      <4>1. Len(queues_[i]) \in Nat
        BY <1>1, <1>2, SeqFacts DEF QueuesOK
      <4> QED
        BY <4>1, <2>1, <2>2, <2>4, <2>5, <1>3 DEF SlotsAre
    <3> QED
      BY <3>1, <2>1, <2>2, <2>4, <1>1, <1>2, <1>5 DEF NoneTwice
  <2> QED
    BY <2>1, <2>2, <2>4, <2>5
<1> QED
  BY <1>3, <1>4, <1>5

-----------------------------------------------------------------------------
\* Blocks on their way to the writer.

\* Each block that is on its way was so before, and their order is the same.
Moved(from) ==
    /\ \A s \in Slots' : from[s] \in Slots
    /\ \A s, t \in Slots' : Ahead(s, t) => Ahead(from[s], from[t])

\* A step that only moves blocks, and may change the order in a block or delete from it.
LEMMA MoveKeeps ==
    ASSUME Carrying, SamePlan, UNCHANGED <<produced, written>>, NEW from, Moved(from),
           \A s \in Slots' : /\ BlockAt(s)'.size = Len(Text(s)') /\ TextOK(Text(s)', s[1])
                             /\ \A p \in 1..Len(Text(s)') : \E q \in 1..Len(Text(from[s])) :
                                    Text(s)'[p] = Text(from[s])[q],
           \A t \in Slots : \A q \in 1..Len(Text(t)) : Text(t)[q][2] \in Wanted(round) =>
               \E s \in Slots' : \E p \in 1..Len(Text(s)') : Text(s)'[p] = Text(t)[q]
    PROVE  SlotsOK' /\ InTurn' /\ WrittenBefore' /\ NoneLost'
<1>1. /\ round' = round /\ produced' = produced /\ written' = written
      /\ \A r : Wanted(r)' = Wanted(r)
  BY SameWriter
<1>2. SlotsOK'
  <2> SUFFICES ASSUME NEW s \in Slots' PROVE BlockAt(s)'.size = Len(Text(s)') /\ TextOK(Text(s), s[1])'
    BY DEF SlotsOK
  <2>1. TextOK(Text(s)', s[1]) <=> TextOK(Text(s), s[1])'
    BY <1>1 DEF TextOK, EntryOK
  <2> QED
    BY <2>1
<1>3. InTurn'
  <2> SUFFICES ASSUME NEW s \in Slots', NEW t \in Slots', Ahead(s, t),
                      NEW p \in 1..Len(Text(s)'), NEW q \in 1..Len(Text(t)')
               PROVE  Text(s)'[p][2] < Text(t)'[q][2]
    BY DEF InTurn, Ahead
  <2>1. from[s] \in Slots /\ from[t] \in Slots /\ Ahead(from[s], from[t])
    BY DEF Moved
  <2>2. PICK a \in 1..Len(Text(from[s])) : Text(s)'[p] = Text(from[s])[a]
    OBVIOUS
  <2>3. PICK b \in 1..Len(Text(from[t])) : Text(t)'[q] = Text(from[t])[b]
    OBVIOUS
  <2>4. Text(from[s])[a][2] < Text(from[t])[b][2]
    BY <2>1 DEF Carrying, InTurn
  <2> QED
    BY <2>2, <2>3, <2>4
<1>4. WrittenBefore'
  <2> SUFFICES ASSUME NEW n \in 1..Len(written), written[n][1] = round, NEW s \in Slots',
                      NEW p \in 1..Len(Text(s)')
               PROVE  written[n][2] < Text(s)'[p][2]
    BY <1>1 DEF WrittenBefore
  <2>1. from[s] \in Slots
    BY DEF Moved
  <2>2. PICK a \in 1..Len(Text(from[s])) : Text(s)'[p] = Text(from[s])[a]
    OBVIOUS
  <2>3. written[n][2] < Text(from[s])[a][2]
    BY <2>1 DEF Carrying, WrittenBefore
  <2> QED
    BY <2>2, <2>3
<1>5. NoneLost'
  <2> SUFFICES ASSUME NEW k \in Wanted(round), k <= produced
               PROVE  IsWritten(<<round, k>>)' \/ OnItsWay(<<round, k>>)'
    BY <1>1 DEF NoneLost, IsWritten, OnItsWay
  <2>1. CASE IsWritten(<<round, k>>)
    BY <2>1, <1>1 DEF IsWritten
  <2>2. CASE OnItsWay(<<round, k>>)
    <3>1. PICK t \in Slots : \E q \in 1..Len(Text(t)) : Text(t)[q] = <<round, k>>
      BY <2>2 DEF OnItsWay
    <3>2. PICK q \in 1..Len(Text(t)) : Text(t)[q] = <<round, k>>
      BY <3>1
    <3>3. Text(t)[q][2] \in Wanted(round)
      BY <3>2
    <3>4. \E s \in Slots' : \E p \in 1..Len(Text(s)') : Text(s)'[p] = Text(t)[q]
      BY <3>3
    <3> QED
      BY <3>2, <3>4, <1>1 DEF OnItsWay
  <2> QED
    BY <2>1, <2>2 DEF Carrying, NoneLost
<1> QED
  BY <1>2, <1>3, <1>4, <1>5

\* What a step leaves in memory stays as good as it was.
\* A worker takes a block: the others in its queue move up.
LEMMA ConsumeSlots ==
    ASSUME Pipeline, Going, Running, QueuesOK', NEW i \in Places, Consume(i)
    PROVE  LET from == [s \in Nat \X Nat |-> IF s[1] = i THEN <<i, s[2] + 1>> ELSE s]
           IN  /\ Moved(from)
               /\ \A s \in Slots' : BlockAt(s)' = BlockAt(from[s]) /\ from[s][1] = s[1]
               /\ \A t \in Slots : \E s \in Slots' : from[s] = t
<1> DEFINE from == [s \in Nat \X Nat |-> IF s[1] = i THEN <<i, s[2] + 1>> ELSE s]
           q == queues_[i]
<1>1. QueuesOK /\ LinkOK /\ SlotsAre
  BY SlotFacts DEF Running
<1>2. /\ link[i].at \in {"init", "passed"} /\ q # <<>> /\ SamePlan
      /\ link' = [link EXCEPT ![i] = [at |-> "working", current_ |-> Head(q)]]
      /\ queues_' = [queues_ EXCEPT ![i] = Tail(q)]
  BY <1>1 DEF Consume, SamePlan, QueuesOK
<1>3. /\ \A j \in Places : j # i => queues_'[j] = queues_[j] /\ link'[j] = link[j]
      /\ queues_'[i] = Tail(q) /\ link'[i] = [at |-> "working", current_ |-> Head(q)]
      /\ link'[i].at = "working" /\ link'[i].current_ = Head(q)
  BY <1>1, <1>2 DEF QueuesOK, LinkOK
<1>4. Writer' = Writer /\ Writer \in Nat /\ 2..Writer \subseteq Places /\ Places' = Places
  BY <1>2, SameWriter, SamePlaces, WriterFacts
<1>5. SlotsAre'
  BY <1>4, SlotsNext
<1>6. /\ Len(q) \in Nat \ {0} /\ Len(Tail(q)) = Len(q) - 1
      /\ \A k \in 1..(Len(q) - 1) : Tail(q)[k] = q[k + 1]
      /\ Head(q) = q[1]
  BY <1>1, <1>2, TailFacts DEF QueuesOK
<1>7. ASSUME NEW j \in 2..Writer, NEW k \in Nat
      PROVE  /\ <<j, k>> \in Slots' <=> from[<<j, k>>] \in Slots
             /\ <<j, k>> \in Slots' => BlockAt(<<j, k>>)' = BlockAt(from[<<j, k>>])
  <2>1. /\ <<j, k>> \in Slots' <=>
               IF k = 0 THEN link'[j].at = "working" /\ ~IsPoison(link'[j].current_)
                        ELSE k <= Len(queues_'[j]) /\ ~IsPoison(queues_'[j][k])
        /\ BlockAt(<<j, k>>)' = IF k = 0 THEN link'[j].current_ ELSE queues_'[j][k]
    BY <1>4, <1>5 DEF SlotsAre, IsPoison, NULL
  <2>2. CASE j # i
    <3>1. from[<<j, k>>] = <<j, k>> /\ j \in Places
      BY <2>2, <1>4
    <3> QED
      BY <2>1, <2>2, <3>1, <1>1, <1>3 DEF SlotsAre
  <2>3. CASE j = i
    <3>1. from[<<j, k>>] = <<i, k + 1>> /\ k + 1 \in Nat /\ k + 1 # 0
      BY <2>3, <1>4
    <3>2. /\ <<i, k + 1>> \in Slots <=> k + 1 <= Len(q) /\ ~IsPoison(q[k + 1])
          /\ BlockAt(<<i, k + 1>>) = q[k + 1]
      BY <3>1, <2>3, <1>1 DEF SlotsAre
    <3>3. CASE k = 0
      <4>1. k + 1 <= Len(q) /\ q[k + 1] = Head(q) /\ k + 1 = 1
        BY <3>3, <1>6
      <4> HIDE DEF q
      <4> QED
        BY <2>1, <2>3, <3>1, <3>2, <3>3, <4>1, <1>3
    <3>4. CASE k # 0
      <4>1. k <= Len(Tail(q)) <=> k + 1 <= Len(q)
        BY <1>6
      <4>2. k + 1 <= Len(q) => Tail(q)[k] = q[k + 1]
        BY <3>4, <1>6
      <4> HIDE DEF q
      <4> QED
        BY <2>1, <2>3, <3>1, <3>2, <3>4, <4>1, <4>2, <1>3
    <3> QED
      BY <3>3, <3>4
  <2> QED
    BY <2>2, <2>3
<1>8. \A s \in Slots' : \E j \in 2..Writer : \E k \in Nat : s = <<j, k>>
  BY <1>4, <1>5 DEF SlotsAre
<1>9. \A j \in 2..Writer, k \in Nat :
          from[<<j, k>>] = IF j = i THEN <<i, k + 1>> ELSE <<j, k>>
  BY <1>4
<1> HIDE DEF from
<1>10. ASSUME NEW s \in Slots'
       PROVE  from[s] \in Slots /\ BlockAt(s)' = BlockAt(from[s]) /\ from[s][1] = s[1]
  <2>1. PICK j \in 2..Writer, k \in Nat : s = <<j, k>>
    BY <1>8
  <2>2. from[s] \in Slots /\ BlockAt(s)' = BlockAt(from[s])
    BY <2>1, <1>7
  <2>3. from[s][1] = s[1]
    <3>1. from[s] = (IF j = i THEN <<i, k + 1>> ELSE <<j, k>>) /\ s[1] = j
      BY <2>1, <1>9
    <3>2. <<i, k + 1>>[1] = i /\ <<j, k>>[1] = j
      OBVIOUS
    <3> QED
      BY <3>1, <3>2
  <2> QED
    BY <2>2, <2>3
<1>11. ASSUME NEW s \in Slots', NEW t \in Slots', Ahead(s, t) PROVE Ahead(from[s], from[t])
  <2>1. PICK j \in 2..Writer, k \in Nat : s = <<j, k>>
    BY <1>8
  <2>2. PICK l \in 2..Writer, m \in Nat : t = <<l, m>>
    BY <1>8
  <2>3. j > l \/ (j = l /\ k < m)
    BY <1>11, <2>1, <2>2 DEF Ahead
  <2>4. from[s] = (IF j = i THEN <<i, k + 1>> ELSE <<j, k>>)
        /\ from[t] = (IF l = i THEN <<i, m + 1>> ELSE <<l, m>>)
    BY <2>1, <2>2, <1>9
  <2> QED
    BY <2>3, <2>4 DEF Ahead
<1>12. ASSUME NEW t \in Slots PROVE \E s \in Slots' : from[s] = t
  <2>1. PICK j \in 2..Writer, k \in Nat : t = <<j, k>>
    BY <1>1 DEF SlotsAre
  <2>2. CASE j # i
    BY <2>1, <2>2, <1>7, <1>9
  <2>3. CASE j = i
    <3>1. k # 0
      BY <2>1, <2>3, <1>1, <1>2 DEF SlotsAre
    <3>2. k - 1 \in Nat /\ from[<<j, k - 1>>] = t
      BY <2>1, <2>3, <3>1, <1>9
    <3> QED
      BY <3>2, <1>7
  <2> QED
    BY <2>2, <2>3
<1> QED
  BY <1>10, <1>11, <1>12 DEF Moved, from

LEMMA ConsumeCarries ==
    ASSUME Pipeline, Going, Inv, main = "building", Carrying, NEW i \in Places, Consume(i)
    PROVE  Carrying'
<1> DEFINE from == [s \in Nat \X Nat |-> IF s[1] = i THEN <<i, s[2] + 1>> ELSE s]
<1>1. Running /\ Running' /\ QueuesOK /\ QueuesOK' /\ LinkOK
  BY ConsumeRunning DEF Inv, Running
<1>2. /\ Moved(from)
      /\ \A s \in Slots' : BlockAt(s)' = BlockAt(from[s]) /\ from[s][1] = s[1]
      /\ \A t \in Slots : \E s \in Slots' : from[s] = t
  BY <1>1, ConsumeSlots
<1> HIDE DEF from
<1>3. SamePlan /\ UNCHANGED <<memory_, produced, written>>
  BY DEF Consume, SamePlan
<1>4. \A s \in Slots' : Text(s)' = Text(from[s])
  BY <1>2, <1>3 DEF Text
<1>5. SlotsOK' /\ InTurn' /\ WrittenBefore' /\ NoneLost'
  <2>1. ASSUME NEW s \in Slots'
        PROVE  /\ BlockAt(s)'.size = Len(Text(s)') /\ TextOK(Text(s)', s[1])
               /\ \A p \in 1..Len(Text(s)') : \E q \in 1..Len(Text(from[s])) :
                      Text(s)'[p] = Text(from[s])[q]
    <3>1. from[s] \in Slots
      BY <1>2 DEF Moved
    <3>2. BlockAt(from[s]).size = Len(Text(from[s])) /\ TextOK(Text(from[s]), from[s][1])
      BY <3>1 DEF Carrying, SlotsOK
    <3> QED
      BY <3>2, <1>2, <1>4
  <2>2. ASSUME NEW t \in Slots, NEW q \in 1..Len(Text(t))
        PROVE  \E s \in Slots' : \E p \in 1..Len(Text(s)') : Text(s)'[p] = Text(t)[q]
    <3>1. PICK s \in Slots' : from[s] = t
      BY <1>2
    <3>2. Text(s)' = Text(t)
      BY <3>1, <1>4
    <3> QED
      BY <3>2
  <2> QED
    BY <2>1, <2>2, <1>2, <1>3, MoveKeeps
<1>6. /\ queues_[i] # <<>> /\ link[i].at # "ended"
      /\ link' = [link EXCEPT ![i] = [at |-> "working", current_ |-> Head(queues_[i])]]
      /\ queues_' = [queues_ EXCEPT ![i] = Tail(queues_[i])]
  BY <1>1 DEF Consume, QueuesOK
<1> DEFINE q == queues_[i]
<1>7. /\ \A j \in Places : j # i => queues_'[j] = queues_[j] /\ link'[j] = link[j]
      /\ queues_'[i] = Tail(q) /\ link'[i].at = "working" /\ link'[i].current_ = Head(q)
  BY <1>1, <1>6 DEF QueuesOK, LinkOK
<1>8. /\ Len(q) \in Nat \ {0} /\ Len(Tail(q)) = Len(q) - 1
      /\ \A k \in 1..(Len(q) - 1) : Tail(q)[k] = q[k + 1]
      /\ Head(q) = q[1]
  BY <1>1, <1>6, TailFacts DEF QueuesOK
<1>9. Places' = Places
  BY <1>3, SamePlaces
<1>10. SizesOK'
  <2> SUFFICES ASSUME NEW j \in Places
               PROVE  /\ link'[j].current_.size \in 0..BlockSize
                      /\ \A k \in 1..Len(queues_'[j]) : queues_'[j][k].size \in 0..BlockSize
    BY <1>9 DEF SizesOK
  <2>1. \A k \in 1..Len(q) : q[k].size \in 0..BlockSize
    BY DEF Carrying, SizesOK
  <2>2. CASE j # i
    BY <2>2, <1>7 DEF Carrying, SizesOK
  <2>3. CASE j = i
    <3>1. 1 \in 1..Len(q) /\ \A k \in 1..(Len(q) - 1) : k + 1 \in 1..Len(q)
      BY <1>8
    <3>2. \A k \in 1..Len(Tail(q)) : Tail(q)[k].size \in 0..BlockSize
      BY <2>1, <3>1, <1>8
    <3> QED
      BY <2>1, <2>3, <3>1, <3>2, <1>7, <1>8
  <2> QED
    BY <2>2, <2>3
<1>11. SourceDone'
  <2>1. 1 \in Places
    BY WriterFacts DEF Places
  <2>2. link'[1].at = "ended" => link[1].at = "ended"
    BY <2>1, <1>7
  <2> QED
    BY <2>2, <1>3 DEF Carrying, SourceDone, SamePlan
<1> QED
  BY <1>5, <1>10, <1>11 DEF Carrying

\* A worker passes a block on: it goes to the next one, and from the writer out of sight.
LEMMA PassSlots ==
    ASSUME Pipeline, Going, Running, QueuesOK', NEW i \in Places, NEW block, Pass(i, block)
    PROVE  \E new \in Nat \X Nat :
               /\ \A s \in Slots : s # <<i, 0>> => s \in Slots' /\ BlockAt(s)' = BlockAt(s)
               /\ \A s \in Slots' : \/ s \in Slots /\ s # <<i, 0>>
                                    \/ s = new /\ i < Writer /\ ~IsPoison(block)
               /\ i < Writer /\ ~IsPoison(block) =>
                      /\ new \in Slots' /\ BlockAt(new)' = block /\ new[1] = i + 1 /\ new[2] # 0
                      /\ \A s \in Slots : s[1] = i + 1 => s[2] < new[2]
<1>1. QueuesOK /\ LinkOK /\ SlotsAre
  BY SlotFacts DEF Running
<1>2. /\ Writer \in 2..Len(workers) /\ 2..Writer \subseteq Places /\ Len(workers) \in Nat
      /\ i \in 1..Len(workers)
  BY WriterFacts DEF Places
<1>3. PICK o \in Places : o = Out(i)
  BY OutFacts, RoundsAssumption DEF Going
<1>4. \A j \in 2..Writer : j = o <=> i < Writer /\ j = i + 1
  BY <1>2, <1>3 DEF Out
<1> DEFINE at == IF IsPoison(block) THEN "ended" ELSE "passed"
<1>5. /\ link[i].at = "working" /\ SamePlan
      /\ link' = [link EXCEPT ![i].at = at]
      /\ queues_' = [queues_ EXCEPT ![o] = Append(queues_[o], block)]
  BY <1>1, <1>3 DEF Pass, SamePlan, QueuesOK
<1>6. at # "working"
  OBVIOUS
<1> HIDE DEF at
<1>7. /\ \A j \in Places : j # o => queues_'[j] = queues_[j]
      /\ queues_'[o] = Append(queues_[o], block)
      /\ \A j \in Places : j # i => link'[j] = link[j]
      /\ link'[i].at = at
  BY <1>1, <1>5 DEF QueuesOK, LinkOK
<1>8. Writer' = Writer /\ Places' = Places
  BY <1>5, SameWriter, SamePlaces
<1>9. SlotsAre'
  BY <1>2, <1>8, SlotsNext
<1> DEFINE q == queues_[o]
<1>10. /\ Len(q) \in Nat /\ Len(Append(q, block)) = Len(q) + 1
       /\ \A k \in 1..Len(q) : Append(q, block)[k] = q[k]
       /\ Append(q, block)[Len(q) + 1] = block
  BY <1>1, SeqFacts, AppendFacts DEF QueuesOK
<1>11. ASSUME NEW j \in 2..Writer, NEW k \in Nat
       PROVE  /\ <<j, k>> \in Slots' <=>
                     \/ <<j, k>> \in Slots /\ <<j, k>> # <<i, 0>>
                     \/ j = o /\ k = Len(q) + 1 /\ ~IsPoison(block)
              /\ <<j, k>> \in Slots /\ <<j, k>> # <<i, 0>> => BlockAt(<<j, k>>)' = BlockAt(<<j, k>>)
              /\ j = o /\ k = Len(q) + 1 => BlockAt(<<j, k>>)' = block
              /\ j = o /\ <<j, k>> \in Slots => k < Len(q) + 1
  <2>1. j \in Places
    BY <1>2
  <2>2. /\ <<j, k>> \in Slots' <=>
               IF k = 0 THEN link'[j].at = "working" /\ ~IsPoison(link'[j].current_)
                        ELSE k <= Len(queues_'[j]) /\ ~IsPoison(queues_'[j][k])
        /\ BlockAt(<<j, k>>)' = IF k = 0 THEN link'[j].current_ ELSE queues_'[j][k]
    BY <1>8, <1>9 DEF SlotsAre, IsPoison, NULL
  <2>3. /\ <<j, k>> \in Slots <=>
               IF k = 0 THEN link[j].at = "working" /\ ~IsPoison(link[j].current_)
                        ELSE k <= Len(queues_[j]) /\ ~IsPoison(queues_[j][k])
        /\ BlockAt(<<j, k>>) = IF k = 0 THEN link[j].current_ ELSE queues_[j][k]
    BY <1>1 DEF SlotsAre
  <2>4. CASE k = 0
    <3>1. <<j, k>> = <<i, 0>> <=> j = i
      BY <2>4
    <3>2. k # Len(q) + 1 /\ k < Len(q) + 1
      BY <2>4, <1>10
    <3>3. CASE j = i
      BY <3>1, <3>2, <3>3, <2>2, <2>4, <1>6, <1>7
    <3>4. CASE j # i
      BY <3>1, <3>2, <3>4, <2>1, <2>2, <2>3, <2>4, <1>7
    <3> QED
      BY <3>3, <3>4
  <2>5. CASE k # 0 /\ j # o
    BY <2>1, <2>2, <2>3, <2>5, <1>7
  <2>6. CASE k # 0 /\ j = o
    <3>1. queues_'[j] = Append(q, block) /\ queues_[j] = q
      BY <2>6, <1>7
    <3>2. /\ k <= Len(Append(q, block)) <=> k <= Len(q) \/ k = Len(q) + 1
          /\ k <= Len(q) => Append(q, block)[k] = q[k] /\ k # Len(q) + 1 /\ k < Len(q) + 1
          /\ k = Len(q) + 1 => Append(q, block)[k] = block
      BY <2>6, <1>10
    <3>3. <<j, k>> # <<i, 0>>
      BY <2>6
    <3> HIDE DEF q
    <3> QED
      BY <2>2, <2>3, <2>6, <3>1, <3>2, <3>3
  <2> QED
    BY <2>4, <2>5, <2>6
<1>12. /\ \A s \in Slots : \E j \in 2..Writer : \E k \in Nat : s = <<j, k>>
       /\ \A s \in Slots' : \E j \in 2..Writer : \E k \in Nat : s = <<j, k>>
  BY <1>1, <1>8, <1>9 DEF SlotsAre
<1>13. PICK new \in Nat \X Nat : new = <<o, Len(q) + 1>>
  <2>1. o \in Nat
    BY <1>3 DEF Places
  <2>2. Len(q) + 1 \in Nat
    BY <1>10
  <2> HIDE DEF q
  <2>3. <<o, Len(q) + 1>> \in Nat \X Nat
    BY <2>1, <2>2
  <2> QED
    BY <2>3
<1>17. i < Writer => i + 1 \in 2..Writer /\ i + 1 = o
  BY <1>2, <1>4
<1> HIDE DEF q
<1>14. ASSUME NEW s \in Slots, s # <<i, 0>> PROVE s \in Slots' /\ BlockAt(s)' = BlockAt(s)
  <2>1. PICK j \in 2..Writer, k \in Nat : s = <<j, k>>
    BY <1>12
  <2> QED
    BY <2>1, <1>11, <1>14
<1>15. ASSUME NEW s \in Slots'
       PROVE  \/ s \in Slots /\ s # <<i, 0>>
              \/ s = new /\ i < Writer /\ ~IsPoison(block)
  <2>1. PICK j \in 2..Writer, k \in Nat : s = <<j, k>>
    BY <1>12
  <2>2. CASE j = o /\ k = Len(q) + 1 /\ ~IsPoison(block)
    BY <2>1, <2>2, <1>4, <1>13
  <2>3. CASE <<j, k>> \in Slots /\ <<j, k>> # <<i, 0>>
    BY <2>1, <2>3
  <2> QED
    BY <2>1, <2>2, <2>3, <1>11
<1>16. ASSUME i < Writer, ~IsPoison(block)
       PROVE  /\ new \in Slots' /\ BlockAt(new)' = block /\ new[1] = i + 1 /\ new[2] # 0
              /\ \A s \in Slots : s[1] = i + 1 => s[2] < new[2]
  <2>1. new = <<o, Len(q) + 1>> /\ o \in 2..Writer /\ Len(q) + 1 \in Nat \ {0} /\ i + 1 = o
    BY <1>10, <1>13, <1>16, <1>17 DEF q
  <2>2. new \in Slots' /\ BlockAt(new)' = block
    BY <2>1, <1>11, <1>16
  <2>3. ASSUME NEW s \in Slots, s[1] = i + 1 PROVE s[2] < new[2]
    <3>1. PICK j \in 2..Writer, k \in Nat : s = <<j, k>>
      BY <1>12
    <3>2. j = o /\ s[2] = k /\ new[2] = Len(q) + 1
      BY <2>1, <2>3, <3>1
    <3> QED
      BY <3>1, <3>2, <1>11
  <2> QED
    BY <2>1, <2>2, <2>3
<1> QED
  BY <1>14, <1>15, <1>16

LEMMA PassSizes ==
    ASSUME Going, Running, SizesOK, NEW i \in Places, NEW block, Pass(i, block), block.size \in 0..BlockSize
    PROVE  SizesOK'
<1>1. QueuesOK /\ LinkOK
  BY DEF Running
<1>2. PICK o \in Places : o = Out(i)
  BY OutFacts, RoundsAssumption DEF Going
<1> DEFINE at == IF IsPoison(block) THEN "ended" ELSE "passed"
           q == queues_[o]
<1>3. /\ SamePlan /\ link' = [link EXCEPT ![i].at = at]
      /\ queues_' = [queues_ EXCEPT ![o] = Append(q, block)]
  BY <1>1, <1>2 DEF Pass, SamePlan, QueuesOK
<1> HIDE DEF at
<1>4. /\ \A j \in Places : j # o => queues_'[j] = queues_[j]
      /\ queues_'[o] = Append(q, block)
      /\ \A j \in Places : link'[j].current_ = link[j].current_
  <2>1. \A j \in Places : link'[j].current_ = link[j].current_
    <3> TAKE j \in Places
    <3>1. CASE j = i
      BY <3>1, <1>1, <1>3 DEF LinkOK
    <3>2. CASE j # i
      BY <3>2, <1>1, <1>3 DEF LinkOK
    <3> QED
      BY <3>1, <3>2
  <2> QED
    BY <2>1, <1>1, <1>3 DEF QueuesOK
<1>5. /\ Len(q) \in Nat /\ Len(Append(q, block)) = Len(q) + 1
      /\ \A k \in 1..Len(q) : Append(q, block)[k] = q[k]
      /\ Append(q, block)[Len(q) + 1] = block
  BY <1>1, SeqFacts, AppendFacts DEF QueuesOK
<1>6. \A k \in 1..Len(q) : q[k].size \in 0..BlockSize
  BY DEF SizesOK
<1>7. \A k \in 1..Len(Append(q, block)) : Append(q, block)[k].size \in 0..BlockSize
  <2> TAKE k \in 1..Len(Append(q, block))
  <2>1. k \in 1..Len(q) \/ k = Len(q) + 1
    BY <1>5
  <2> QED
    BY <2>1, <1>5, <1>6
<1>8. Places' = Places
  BY <1>3, SamePlaces
<1> HIDE DEF q
<1>9. ASSUME NEW j \in Places
      PROVE  /\ link'[j].current_.size \in 0..BlockSize
             /\ \A k \in 1..Len(queues_'[j]) : queues_'[j][k].size \in 0..BlockSize
  <2>1. CASE j = o
    BY <2>1, <1>4, <1>7 DEF SizesOK
  <2>2. CASE j # o
    BY <2>2, <1>4 DEF SizesOK
  <2> QED
    BY <2>1, <2>2
<1> QED
  BY <1>8, <1>9 DEF SizesOK

\* Only the source ends the round.
LEMMA PassDone ==
    ASSUME Going, LinkOK, SourceDone, NEW i \in Places, i # 1, NEW block, Pass(i, block),
           produced' = produced
    PROVE  SourceDone'
<1> DEFINE at == IF IsPoison(block) THEN "ended" ELSE "passed"
<1>1. link' = [link EXCEPT ![i].at = at] /\ SamePlan
  BY DEF Pass, SamePlan
<1>2. 1 \in Places
  BY OutFacts, RoundsAssumption DEF Going
<1> HIDE DEF at
<1>3. link'[1].at = link[1].at
  BY <1>1, <1>2 DEF LinkOK
<1> QED
  BY <1>1, <1>3 DEF SourceDone, SamePlan

\* Poison, and blocks behind the writer: nothing changes between the source and the writer.
Unseen(i, block) ==
    \/ IsPoison(block) /\ (IsPoison(link[i].current_) \/ i = 1)
    \/ i > Writer

LEMMA PassUnseen ==
    ASSUME Pipeline, Going, Inv, main = "building", Carrying, NEW i \in Places, NEW block, Pass(i, block),
           Running', block.size \in 0..BlockSize,
           Unseen(i, block),
           \A s \in Slots : memory_'[BlockAt(s).mem] = Text(s),
           UNCHANGED <<produced, written>>, SourceDone'
    PROVE  Carrying'
<1> DEFINE from == [s \in Nat \X Nat |-> s]
<1>1. Running /\ QueuesOK' /\ SamePlan
  BY DEF Inv, Running, Pass, SamePlan
<1>2. PICK new \in Nat \X Nat :
               /\ \A s \in Slots : s # <<i, 0>> => s \in Slots' /\ BlockAt(s)' = BlockAt(s)
               /\ \A s \in Slots' : \/ s \in Slots /\ s # <<i, 0>>
                                    \/ s = new /\ i < Writer /\ ~IsPoison(block)
  BY <1>1, PassSlots
<1>3. SlotsAre /\ Writer \in Nat /\ i \in Nat
  BY <1>1, SlotFacts, WriterFacts DEF Places
<1>4. \A s \in Slots : s # <<i, 0>>
  <2> SUFFICES ASSUME <<i, 0>> \in Slots PROVE FALSE
    OBVIOUS
  <2>1. i \in 2..Writer
    <3>1. PICK j \in 2..Writer, k \in Nat : <<i, 0>> = <<j, k>>
      BY <1>3 DEF SlotsAre
    <3> QED
      BY <3>1
  <2>2. ~IsPoison(link[i].current_)
    BY <2>1, <1>3 DEF SlotsAre
  <2>3. i # 1 /\ ~(i > Writer)
    BY <2>1, <1>3
  <2> QED
    BY <2>2, <2>3 DEF Unseen
<1>5. Slots' = Slots /\ \A s \in Slots : BlockAt(s)' = BlockAt(s)
  <2>1. ~(i < Writer /\ ~IsPoison(block))
    BY <1>3 DEF Unseen
  <2> QED
    BY <2>1, <1>2, <1>4
<1>6. \A s \in Slots : Text(s)' = Text(s)
  BY <1>5 DEF Text
<1>7. SlotsOK' /\ InTurn' /\ WrittenBefore' /\ NoneLost'
  <2>1. \A s \in Slots : from[s] = s
    BY <1>3 DEF SlotsAre
  <2> HIDE DEF from
  <2>2. Moved(from)
    BY <2>1, <1>5 DEF Moved, Ahead
  <2>3. ASSUME NEW s \in Slots'
        PROVE  /\ BlockAt(s)'.size = Len(Text(s)') /\ TextOK(Text(s)', s[1])
               /\ \A p \in 1..Len(Text(s)') : \E q \in 1..Len(Text(from[s])) :
                      Text(s)'[p] = Text(from[s])[q]
    BY <2>1, <1>5, <1>6 DEF Carrying, SlotsOK
  <2>4. ASSUME NEW t \in Slots, NEW q \in 1..Len(Text(t))
        PROVE  \E s \in Slots' : \E p \in 1..Len(Text(s)') : Text(s)'[p] = Text(t)[q]
    BY <1>5, <1>6
  <2> QED
    BY <2>2, <2>3, <2>4, <1>1, MoveKeeps
<1>8. SizesOK'
  BY <1>1, PassSizes DEF Carrying
<1> QED
  BY <1>7, <1>8 DEF Carrying

-----------------------------------------------------------------------------
\* The source.

LEMMA InHandApart ==
    ASSUME Pipeline, Going, Running, NEW i \in Places, link[i].at = "working",
           ~IsPoison(link[i].current_)
    PROVE  /\ link[i].current_.mem \in Memory
           /\ \A s \in Slots : s # <<i, 0>> => BlockAt(s).mem # link[i].current_.mem
<1> DEFINE m == link[i].current_.mem
<1>1. QueuesOK /\ LinkOK
  BY DEF Running
<1>2. m \in Mems /\ m \in Memory
  BY <1>1 DEF LinkOK, IsPoison, Mems
<1>3. <<"link", i>> \in Holders(m)
  BY <1>1, <1>2, Held DEF HoldersAre
<1> HIDE DEF m
<1>4. ASSUME NEW s \in Slots, BlockAt(s).mem = m PROVE s = <<i, 0>>
  <2>1. SlotsAre /\ Holders(m) = {Holder(s)}
    BY <1>4, SlotFacts
  <2>2. PICK j \in 2..Writer, k \in Nat : s = <<j, k>>
    BY <2>1 DEF SlotsAre
  <2>3. Holder(s) = <<"link", i>>
    BY <2>1, <1>3
  <2> QED
    BY <2>2, <2>3 DEF Holder
<1> QED
  BY <1>2, <1>4 DEF m

\* What the source puts into a block: the next entries, as many as it takes if there are.
LEMMA FilledFacts ==
    ASSUME Pipeline, Going, produced \in Nat, produced <= Rounds[round] + 1, NEW size \in 0..BlockSize
    PROVE  \E n \in 0..size :
               /\ Filled(size) = [k \in 1..n |-> <<round, produced + k>>]
               /\ Filled(size) \in Seq(Entries) /\ Len(Filled(size)) = n
               /\ n # 0 => produced + n <= Rounds[round]
               /\ n < size => produced + n >= Rounds[round]
               /\ produced > Rounds[round] => n = 0
<1>1. Rounds[round] \in Nat /\ BlockSize \in Nat \ {0} /\ size \in Nat /\ round \in 1..Len(Rounds)
  BY WriterFacts DEF Going
<1> DEFINE left == Rounds[round] - produced
           m == IF left < size THEN left ELSE size
<1>2. PICK n \in 0..size : n = (IF m < 0 THEN 0 ELSE m)
  BY <1>1
<1>3. left \in Int /\ m \in Int /\ (left < size => m = left) /\ (left >= size => m = size)
  BY <1>1
<1>4. 1..m = 1..n
  BY <1>1, <1>2, <1>3
<1>5. Filled(size) = [k \in 1..m |-> <<round, produced + k>>]
  BY DEF Filled, Entry
<1>6. Filled(size) = [k \in 1..n |-> <<round, produced + k>>]
  BY <1>4, <1>5
<1>7. \A k \in 1..n : <<round, produced + k>> \in Entries
  BY <1>1 DEF Entries
<1>8. Filled(size) \in Seq(Entries) /\ Len(Filled(size)) = n
  <2>1. n \in Nat
    BY <1>1
  <2> DEFINE f == [k \in 1..n |-> <<round, produced + k>>]
  <2>2. f \in [1..n -> Entries]
    BY <1>7
  <2> HIDE DEF f
  <2>3. f \in Seq(Entries) /\ Len(f) = n
    BY <2>1, <2>2
  <2> QED
    BY <2>3, <1>6 DEF f
<1>9. left = Rounds[round] - produced
  OBVIOUS
<1> HIDE DEF left, m
<1>10. /\ n # 0 => produced + n <= Rounds[round]
       /\ n < size => produced + n >= Rounds[round]
       /\ produced > Rounds[round] => n = 0
  BY <1>1, <1>2, <1>3, <1>9
<1> QED
  BY <1>6, <1>8, <1>10

\* A block that the source has put entries into goes behind all others.
LEMMA SourcePasses ==
    ASSUME Pipeline, Going, Inv, CarryInv, main = "building", 1 \in Places, NEW block, Pass(1, block),
           Running', ~IsPoison(link[1].current_), block.mem = link[1].current_.mem,
           NEW n \in 0..BlockSize, block.size = n,
           NEW got, got = [k \in 1..n |-> <<round, produced + k>>],
           n # 0 => produced + n <= Rounds[round],
           memory_' = [memory_ EXCEPT ![link[1].current_.mem] = got],
           produced' \in Nat, produced' >= produced + n,
           produced' # produced + n => produced + n >= Rounds[round] /\ produced' = Rounds[round] + 1,
           UNCHANGED written
    PROVE  Carrying'
<1>1. Running /\ QueuesOK' /\ SamePlan /\ Carrying /\ link[1].at = "working" /\ LinkOK
  BY DEF Inv, Running, Pass, SamePlan, CarryInv
<1>2. /\ Rounds[round] \in Nat /\ produced \in Nat /\ Writer \in Nat /\ 1 < Writer /\ n \in Nat
      /\ BlockSize \in Nat \ {0}
  BY WriterFacts DEF CarryInv
<1>3. ~IsPoison(block)
  BY DEF IsPoison
<1>4. PICK new \in Nat \X Nat :
          /\ \A s \in Slots : s # <<1, 0>> => s \in Slots' /\ BlockAt(s)' = BlockAt(s)
          /\ \A s \in Slots' : (s \in Slots /\ s # <<1, 0>>) \/ s = new
          /\ new \in Slots' /\ BlockAt(new)' = block /\ new[1] = 2 /\ new[2] # 0
          /\ \A s \in Slots : s[1] = 2 => s[2] < new[2]
  <2>1. PICK new \in Nat \X Nat :
               /\ \A s \in Slots : s # <<1, 0>> => s \in Slots' /\ BlockAt(s)' = BlockAt(s)
               /\ \A s \in Slots' : \/ s \in Slots /\ s # <<1, 0>>
                                    \/ s = new /\ 1 < Writer /\ ~IsPoison(block)
               /\ 1 < Writer /\ ~IsPoison(block) =>
                      /\ new \in Slots' /\ BlockAt(new)' = block /\ new[1] = 1 + 1 /\ new[2] # 0
                      /\ \A s \in Slots : s[1] = 1 + 1 => s[2] < new[2]
    BY <1>1, PassSlots
  <2> QED
    BY <2>1, <1>2, <1>3
<1>5. SlotsAre /\ \A s \in Slots : s[1] \in 2..Writer /\ s[2] \in Nat /\ s # <<1, 0>>
  <2>1. SlotsAre
    BY <1>1, SlotFacts
  <2> QED
    BY <2>1, <1>2 DEF SlotsAre
<1>6. /\ \A s \in Slots : s \in Slots' /\ BlockAt(s)' = BlockAt(s)
      /\ \A s \in Slots' : s \in Slots \/ s = new
  BY <1>4, <1>5
<1>7. /\ \A s \in Slots : Text(s)' = Text(s)
      /\ Text(new)' = got
  <2>1. /\ link[1].current_.mem \in Memory
        /\ \A s \in Slots : BlockAt(s).mem # link[1].current_.mem
    BY <1>1, <1>5, InHandApart
  <2>2. DOMAIN memory_ = Memory
    BY DEF CarryInv
  <2>3. memory_'[link[1].current_.mem] = got
    BY <2>1, <2>2
  <2>4. ASSUME NEW s \in Slots PROVE memory_'[BlockAt(s).mem] = memory_[BlockAt(s).mem]
    <3>1. BlockAt(s).mem \in Memory
      BY <1>1, SlotFacts
    <3> QED
      BY <3>1, <2>1, <2>2
  <2> QED
    BY <2>3, <2>4, <1>4, <1>6 DEF Text
<1>8. /\ DOMAIN got = 1..n /\ Len(got) = n
      /\ \A k \in 1..n : got[k] = <<round, produced + k>> /\ got[k][1] = round /\ got[k][2] = produced + k
  BY <1>2
<1>9. round' = round /\ Writer' = Writer /\ \A r : Wanted(r)' = Wanted(r)
  BY <1>1, SameWriter
<1>10. SlotsOK'
  <2>1. ASSUME NEW s \in Slots
        PROVE  BlockAt(s)'.size = Len(Text(s)') /\ TextOK(Text(s), s[1])'
    <3>1. BlockAt(s).size = Len(Text(s)) /\ TextOK(Text(s), s[1])
      BY <1>1 DEF Carrying, SlotsOK
    <3>2. ASSUME NEW p \in 1..Len(Text(s)) PROVE EntryOK(Text(s)[p], s[1])'
      <4>1. EntryOK(Text(s)[p], s[1])
        BY <3>1 DEF TextOK
      <4> QED
        BY <4>1, <1>2, <1>7, <1>9 DEF EntryOK
    <3> QED
      BY <3>1, <3>2, <1>6, <1>7 DEF TextOK
  <2>2. BlockAt(new)'.size = Len(Text(new)') /\ TextOK(Text(new), new[1])'
    <3>1. ASSUME NEW p \in 1..n
          PROVE  /\ got[p][1] = round /\ got[p][2] \in 1..Rounds[round] /\ got[p][2] <= produced'
      BY <1>2, <1>8
    <3>2. ASSUME NEW p \in 1..n, NEW q \in 1..n
          PROVE  /\ p # q => got[p][2] # got[q][2] /\ got[p][2] - got[q][2] < BlockSize
                 /\ p < q => got[p][2] < got[q][2]
      BY <1>2, <1>8
    <3> QED
      BY <3>1, <3>2, <1>4, <1>7, <1>8, <1>9 DEF TextOK, EntryOK
  <2> QED
    BY <2>1, <2>2, <1>6 DEF SlotsOK
<1>11. \A s \in Slots : \A p \in 1..Len(Text(s)) : Text(s)[p][2] \in Nat /\ Text(s)[p][2] <= produced
  BY <1>1, <1>2 DEF Carrying, SlotsOK, TextOK, EntryOK
<1>12. InTurn'
  <2> SUFFICES ASSUME NEW s \in Slots', NEW t \in Slots', Ahead(s, t),
                      NEW p \in 1..Len(Text(s)'), NEW q \in 1..Len(Text(t)')
               PROVE  Text(s)'[p][2] < Text(t)'[q][2]
    BY DEF InTurn, Ahead
  <2>1. CASE s \in Slots /\ t \in Slots
    BY <2>1, <1>1, <1>7 DEF Carrying, InTurn
  <2>2. CASE s \in Slots /\ t = new
    <3>1. Text(s)'[p][2] \in Nat /\ Text(s)'[p][2] <= produced
      BY <2>2, <1>7, <1>11
    <3>2. q \in 1..n /\ Text(t)'[q][2] = produced + q
      BY <2>2, <1>7, <1>8
    <3> QED
      BY <3>1, <3>2, <1>2
  <2>3. s # new
    <3> SUFFICES ASSUME s = new PROVE FALSE
      OBVIOUS
    <3>1. t # new
      BY <1>4 DEF Ahead
    <3>2. t \in Slots
      BY <3>1, <1>6
    <3> QED
      BY <3>2, <1>4, <1>5 DEF Ahead
  <2> QED
    BY <2>1, <2>2, <2>3, <1>6
<1>13. WrittenBefore'
  <2> SUFFICES ASSUME NEW m \in 1..Len(written), written[m][1] = round, NEW s \in Slots',
                      NEW p \in 1..Len(Text(s)')
               PROVE  written[m][2] < Text(s)'[p][2]
    BY <1>9 DEF WrittenBefore
  <2>1. CASE s \in Slots
    BY <2>1, <1>1, <1>7 DEF Carrying, WrittenBefore
  <2>2. CASE s = new
    <3>1. written[m][2] \in Nat /\ written[m][2] <= produced
      <4>1. written \in Seq(Entries) /\ written[m][2] <= produced
        BY DEF CarryInv, WrittenOK
      <4>2. written[m] \in Entries
        BY <4>1
      <4> QED
        BY <4>1, <4>2 DEF Entries
    <3>2. p \in 1..n /\ Text(s)'[p][2] = produced + p
      BY <2>2, <1>7, <1>8
    <3> QED
      BY <3>1, <3>2, <1>2
  <2> QED
    BY <2>1, <2>2, <1>6
<1>14. NoneLost'
  <2> SUFFICES ASSUME NEW k \in Wanted(round), k <= produced'
               PROVE  IsWritten(<<round, k>>)' \/ OnItsWay(<<round, k>>)'
    BY <1>9 DEF NoneLost, IsWritten, OnItsWay
  <2>1. k \in Nat /\ 1 <= k /\ k <= Rounds[round]
    BY <1>2 DEF Wanted
  <2>2. CASE k <= produced
    <3>1. CASE IsWritten(<<round, k>>)
      BY <3>1, <1>9 DEF IsWritten
    <3>2. CASE OnItsWay(<<round, k>>)
      <4>1. PICK s \in Slots : \E p \in 1..Len(Text(s)) : Text(s)[p] = <<round, k>>
        BY <3>2 DEF OnItsWay
      <4>2. s \in Slots' /\ Text(s)' = Text(s)
        BY <1>6, <1>7
      <4> QED
        BY <4>1, <4>2, <1>9 DEF OnItsWay
    <3> QED
      BY <2>2, <3>1, <3>2, <1>1 DEF Carrying, NoneLost
  <2>3. CASE k > produced
    <3>1. k <= produced + n
      BY <2>1, <1>2
    <3>2. k - produced \in 1..n /\ produced + (k - produced) = k
      BY <2>1, <2>3, <3>1, <1>2
    <3>3. got[k - produced] = <<round, k>>
      BY <3>2, <1>8
    <3> QED
      BY <3>2, <3>3, <1>4, <1>7, <1>8, <1>9, ZenonT(60) DEF OnItsWay
  <2> QED
    BY <2>1, <2>2, <2>3, <1>2
<1>15. SizesOK'
  BY <1>1, PassSizes DEF Carrying
<1>16. SourceDone'
  <2>1. link'[1].at # "ended"
    BY <1>1, <1>3 DEF Pass, LinkOK
  <2>2. produced' <= Rounds[round] + 1
    BY <1>1, <1>2 DEF Carrying, SourceDone
  <2> QED
    BY <2>1, <2>2, <1>9 DEF SourceDone
<1> QED
  BY <1>10, <1>12, <1>13, <1>14, <1>15, <1>16 DEF Carrying

\* Read and Stream.
LEMMA SourceCarries ==
    ASSUME Pipeline, Going, Inv, CarryInv, main = "building", NEW i \in Places, Running',
           Read(i) \/ Stream(i)
    PROVE  /\ Carrying' /\ memory_' \in [Memory -> Seq(Entries)] /\ produced' \in Nat
           /\ produced' >= produced /\ written' = written
<1>1. Carrying /\ Running /\ LinkOK /\ produced \in Nat /\ memory_ \in [Memory -> Seq(Entries)]
  BY DEF CarryInv, Inv, Running
<1>2. i = 1 /\ 1 \in Places /\ ~IsPoison(link[1].current_)
  <2>1. workers[i] \in Sources /\ ~IsPoison(link[i].current_)
    BY DEF Read, Stream, Has, Sources
  <2>2. i = 1
    BY <2>1, OutFacts, RoundsAssumption DEF Going
  <2> QED
    BY <2>1, <2>2
<1>3. /\ Rounds[round] \in Nat /\ BlockSize \in Nat \ {0} /\ produced <= Rounds[round] + 1
  BY <1>1, WriterFacts DEF Carrying, SourceDone
<1> DEFINE block == link[1].current_
<1>4. block.mem \in Memory
  <2>1. link[1].at = "working"
    BY <1>2 DEF Read, Stream, Pass
  <2> QED
    BY <2>1, <1>1, <1>2, InHandApart
<1>5. Block(block.mem, 0).mem = block.mem /\ Poison.mem = NULL /\ Poison.size = 0 /\ IsPoison(Poison)
  BY DEF Block, Poison, IsPoison
<1>6. \A n : Block(block.mem, n).mem = block.mem /\ Block(block.mem, n).size = n
  BY DEF Block
<1>7. \A s \in Slots : s # <<1, 0>> /\ BlockAt(s).mem # block.mem /\ BlockAt(s).mem \in Memory
  <2>1. link[1].at = "working"
    BY <1>2 DEF Read, Stream, Pass
  <2>2. SlotsAre /\ \A s \in Slots : BlockAt(s).mem \in Memory
    BY <1>1, SlotFacts
  <2>3. \A s \in Slots : s # <<1, 0>>
    BY <2>2 DEF SlotsAre
  <2> QED
    BY <2>1, <2>2, <2>3, <1>1, <1>2, InHandApart
<1>8. Pass(1, Poison) => SamePlan /\ link'[1].at = "ended"
  BY <1>1, <1>2, <1>5 DEF Pass, SamePlan, LinkOK
<1>9. CASE Read(i)
  <2>1. BlockSize \in 0..BlockSize
    BY <1>3
  <2>2. PICK n \in 0..BlockSize :
               /\ Filled(BlockSize) = [k \in 1..n |-> <<round, produced + k>>]
               /\ Filled(BlockSize) \in Seq(Entries) /\ Len(Filled(BlockSize)) = n
               /\ n # 0 => produced + n <= Rounds[round]
               /\ n < BlockSize => produced + n >= Rounds[round]
               /\ produced > Rounds[round] => n = 0
    BY <2>1, <1>1, <1>3, FilledFacts
  <2> DEFINE got == Filled(BlockSize)
  <2>3. /\ Pass(1, IF got = <<>> THEN Poison ELSE Block(block.mem, n))
        /\ memory_' = [memory_ EXCEPT ![block.mem] = got]
        /\ produced' = produced + n /\ written' = written
    BY <1>2, <1>9, <2>2 DEF Read
  <2>8. got \in Seq(Entries) /\ Len(got) = n
    BY <2>2
  <2> HIDE DEF got
  <2>4. got = <<>> <=> n = 0
    BY <2>8
  <2>9. n \in Nat
    BY <1>3
  <2>5. memory_' \in [Memory -> Seq(Entries)] /\ produced' \in Nat /\ produced' >= produced
    <3>1. memory_' \in [Memory -> Seq(Entries)]
      BY <2>3, <2>8, <1>1
    <3>2. produced' \in Nat /\ produced' >= produced
      BY ONLY <2>3, <2>9, <1>1
    <3> QED
      BY <3>1, <3>2
  <2>6. CASE n = 0
    <3>1. Pass(1, Poison) /\ produced' = produced /\ produced >= Rounds[round]
      BY <2>2, <2>3, <2>4, <2>6, <1>1, <1>3
    <3>2. SourceDone'
      BY <3>1, <1>1, <1>3, <1>8 DEF SourceDone, SamePlan
    <3>3. \A s \in Slots : memory_'[BlockAt(s).mem] = Text(s)
      BY <2>3, <1>1, <1>7 DEF Text
    <3>4. Poison.size \in 0..BlockSize /\ Unseen(1, Poison)
      BY <1>3, <1>5 DEF Unseen
    <3> QED
      BY <3>1, <3>2, <3>3, <3>4, <2>3, <2>5, <1>1, <1>2, <1>5, PassUnseen
  <2>7. CASE n # 0
    <3>1. Pass(1, Block(block.mem, n))
      BY <2>3, <2>4, <2>7
    <3>2. got = [k \in 1..n |-> <<round, produced + k>>]
      BY <2>2 DEF got
    <3> DEFINE passed == Block(block.mem, n)
    <3>3. passed.mem = link[1].current_.mem /\ passed.size = n /\ Pass(1, passed)
      BY <3>1, <1>6
    <3> HIDE DEF passed
    <3>5. /\ produced' >= produced + n /\ produced' = produced + n
          /\ n # 0 => produced + n <= Rounds[round]
      BY <2>2, <2>3, <2>5
    <3>4. Carrying'
      BY <3>2, <3>3, <3>5, <2>3, <2>5, <1>1, <1>2, <1>3, SourcePasses
    <3> QED
      BY <3>4, <2>3, <2>5
  <2> QED
    BY <2>6, <2>7
<1>10. CASE Stream(i)
  <2>1. block.size \in 0..BlockSize
    BY <1>1, <1>2 DEF Carrying, SizesOK
  <2>2. PICK n \in 0..block.size :
               /\ Filled(block.size) = [k \in 1..n |-> <<round, produced + k>>]
               /\ Filled(block.size) \in Seq(Entries) /\ Len(Filled(block.size)) = n
               /\ n # 0 => produced + n <= Rounds[round]
               /\ n < block.size => produced + n >= Rounds[round]
               /\ produced > Rounds[round] => n = 0
    BY <2>1, <1>1, <1>3, FilledFacts
  <2> DEFINE got == Filled(block.size)
  <2>3. /\ Pass(1, IF produced > Rounds[round] THEN Poison ELSE Block(block.mem, n))
        /\ memory_' = [memory_ EXCEPT ![block.mem] = got]
        /\ produced' = (IF n < block.size THEN Rounds[round] + 1 ELSE produced + n)
        /\ written' = written
    BY <1>2, <1>10, <2>2 DEF Stream
  <2>8. got \in Seq(Entries)
    BY <2>2
  <2> HIDE DEF got
  <2>4. n \in 0..BlockSize /\ n \in Nat
    BY <2>1, <1>3
  <2>9. memory_' \in [Memory -> Seq(Entries)]
    BY <2>3, <2>8, <1>1
  <2>5. /\ memory_' \in [Memory -> Seq(Entries)] /\ produced' \in Nat /\ produced' >= produced
        /\ n < block.size => produced + n >= Rounds[round]
        /\ n # 0 => produced + n <= Rounds[round]
    <3>1. /\ n < block.size => produced + n >= Rounds[round]
          /\ n # 0 => produced + n <= Rounds[round]
      BY <2>2
    <3>2. produced' \in Nat /\ produced' >= produced
      BY <2>3, <2>4, <1>1, <1>3
    <3> QED
      BY <3>1, <3>2, <2>9
  <2>6. CASE produced > Rounds[round]
    <3>1. Pass(1, Poison) /\ produced' = produced
      <4>1. Pass(1, Poison) /\ n = 0
        BY <2>2, <2>3, <2>6
      <4>2. produced = Rounds[round] + 1 /\ produced + 0 = produced
        BY <2>6, <1>1, <1>3
      <4>3. produced' = Rounds[round] + 1 \/ produced' = produced + 0
        BY <4>1, <2>3
      <4> QED
        BY <4>1, <4>2, <4>3
    <3>2. SourceDone'
      BY <3>1, <2>6, <1>1, <1>3, <1>8 DEF SourceDone, SamePlan
    <3>3. \A s \in Slots : memory_'[BlockAt(s).mem] = Text(s)
      BY <2>3, <1>1, <1>7 DEF Text
    <3>4. Poison.size \in 0..BlockSize /\ Unseen(1, Poison)
      BY <1>3, <1>5 DEF Unseen
    <3> QED
      BY <3>1, <3>2, <3>3, <3>4, <2>3, <2>5, <1>1, <1>2, <1>5, PassUnseen
  <2>7. CASE ~(produced > Rounds[round])
    <3>1. Pass(1, Block(block.mem, n))
      BY <2>3, <2>7
    <3>2. got = [k \in 1..n |-> <<round, produced + k>>]
      BY <2>2 DEF got
    <3> DEFINE passed == Block(block.mem, n)
    <3>3. passed.mem = link[1].current_.mem /\ passed.size = n /\ Pass(1, passed)
      BY <3>1, <1>6
    <3>4. /\ produced' >= produced + n
          /\ produced' # produced + n => produced + n >= Rounds[round] /\ produced' = Rounds[round] + 1
      BY <2>3, <2>4, <2>5, <2>7, <1>1, <1>3
    <3> HIDE DEF passed
    <3>5. Carrying'
      BY <3>2, <3>3, <3>4, <2>3, <2>4, <2>5, <1>1, <1>2, <1>3, SourcePasses
    <3> QED
      BY <3>5, <2>3, <2>5
  <2> QED
    BY <2>6, <2>7
<1> QED
  BY <1>9, <1>10

-----------------------------------------------------------------------------
\* The workers behind the source.

\* CollapseStream: what is left of a block.
LEMMA CollapseCarries ==
    ASSUME Pipeline, Going, Inv, CarryInv, main = "building", NEW i \in Places, Running', Collapse(i)
    PROVE  /\ Carrying' /\ memory_' \in [Memory -> Seq(Entries)]
           /\ UNCHANGED <<produced, written>>
<1> DEFINE block == link[i].current_
           old == memory_[block.mem]
           places == KeptPlaces(block)
           size == Cardinality(places)
           passed == Block(block.mem, size)
<1>1. /\ Carrying /\ Running /\ QueuesOK' /\ LinkOK /\ memory_ \in [Memory -> Seq(Entries)]
      /\ SlotsAre
  BY SlotFacts DEF CarryInv, Inv, Running
<1>2. /\ workers[i] = "Collapse" /\ ~IsPoison(block) /\ link[i].at = "working"
      /\ Pass(i, passed) /\ SamePlan /\ UNCHANGED <<produced, written>>
  BY DEF Collapse, Has, Pass, SamePlan
<1>3. PICK from \in Refills(places) :
          memory_' = [memory_ EXCEPT ![block.mem] = [k \in DOMAIN from |-> @[from[k]]]]
  BY DEF Collapse
<1>4. /\ i \in 2..Writer - 1 /\ i < Writer /\ Writer \in Nat /\ i # 1 /\ i \in 2..Writer
      /\ Collapses(round) /\ BlockSize \in Nat
  <2>1. /\ Writer \in 2..Len(workers) /\ Len(workers) \in Nat /\ workers[1] \in Sources
        /\ workers[Writer] \in Writers
        /\ \A j \in Writer + 1..Len(workers) : workers[j] = "Recycler"
        /\ i \in 1..Len(workers) /\ BlockSize \in Nat
    BY WriterFacts DEF Places
  <2>2. i # 1 /\ i # Writer /\ i \notin Writer + 1..Len(workers)
    BY <2>1, <1>2 DEF Sources, Writers
  <2>3. i \in 2..Writer - 1 /\ i < Writer
    BY <2>1, <2>2
  <2>4. Writer > 2
    BY <2>1, <2>3
  <2> QED
    BY <2>1, <2>2, <2>3, <2>4, WriterFacts
<1> DEFINE here == <<i, 0>>
<1>5. here \in Slots /\ BlockAt(here) = block /\ Text(here) = old /\ block.mem \in Memory
  <2>1. here \in Slots /\ BlockAt(here) = block
    BY <1>1, <1>2, <1>4 DEF SlotsAre
  <2> QED
    BY <2>1, <1>1, SlotFacts DEF Text
<1>6. /\ block.size = Len(old) /\ TextOK(old, i) /\ old \in Seq(Entries) /\ Len(old) \in Nat
      /\ block.size \in 0..BlockSize
  <2>1. BlockAt(here).size = Len(Text(here)) /\ TextOK(Text(here), here[1])
    BY <1>1, <1>5 DEF Carrying, SlotsOK
  <2>2. here[1] = i
    OBVIOUS
  <2>3. old \in Seq(Entries)
    BY <1>1, <1>5
  <2> QED
    BY <2>1, <2>2, <2>3, <1>1, <1>5 DEF Carrying, SizesOK
<1>7. places = {k \in 1..Len(old) : old[k][2] \notin Dropped}
  BY <1>6 DEF KeptPlaces
<1>8. size \in 0..BlockSize /\ size \in Nat
  <2>1. IsFiniteSet(1..Len(old)) /\ Cardinality(1..Len(old)) = Len(old)
    BY <1>6, FS_Interval
  <2>2. places \subseteq 1..Len(old)
    BY <1>7
  <2> HIDE DEF places
  <2>3. IsFiniteSet(places) /\ Cardinality(places) <= Len(old) /\ Cardinality(places) \in Nat
    BY <2>1, <2>2, FS_Subset, FS_CardinalityType
  <2> QED
    BY <2>3, <1>4, <1>6
<1>9. /\ from \in [1..size -> places]
      /\ \A j, k \in 1..size : from[j] = from[k] => j = k
      /\ \A l \in places : \E k \in 1..size : from[k] = l
  BY <1>3 DEF Refills, Bijection, Injection, Surjection, IsInjective
<1> DEFINE text == [k \in 1..size |-> old[from[k]]]
<1>10. DOMAIN from = 1..size
  BY <1>9
<1>11. memory_' = [memory_ EXCEPT ![block.mem] = text]
  BY <1>3, <1>10
<1>12. ~IsPoison(passed) /\ passed.size = size /\ passed.mem = block.mem
  BY <1>2 DEF Block, IsPoison
<1> HIDE DEF places, size, old, passed
<1>13. /\ DOMAIN text = 1..size /\ Len(text) = size /\ text \in Seq(Entries)
       /\ \A k \in 1..size : text[k] = old[from[k]] /\ from[k] \in 1..Len(old)
                             /\ old[from[k]][2] \notin Dropped
  <2>1. \A k \in 1..size : from[k] \in 1..Len(old) /\ old[from[k]][2] \notin Dropped
    BY <1>7, <1>9
  <2>2. \A k \in 1..size : old[from[k]] \in Entries
    BY <2>1, <1>6
  <2>3. text \in [1..size -> Entries]
    BY <2>2
  <2> QED
    BY <2>1, <2>3, <1>8
<1> HIDE DEF text
<1>14. PICK new \in Nat \X Nat :
          /\ \A s \in Slots : s # here => s \in Slots' /\ BlockAt(s)' = BlockAt(s)
          /\ \A s \in Slots' : (s \in Slots /\ s # here) \/ s = new
          /\ new \in Slots' /\ BlockAt(new)' = passed /\ new[1] = i + 1 /\ new[2] # 0
          /\ \A s \in Slots : s[1] = i + 1 => s[2] < new[2]
  <2>1. PICK new \in Nat \X Nat :
               /\ \A s \in Slots : s # <<i, 0>> => s \in Slots' /\ BlockAt(s)' = BlockAt(s)
               /\ \A s \in Slots' : \/ s \in Slots /\ s # <<i, 0>>
                                    \/ s = new /\ i < Writer /\ ~IsPoison(passed)
               /\ i < Writer /\ ~IsPoison(passed) =>
                      /\ new \in Slots' /\ BlockAt(new)' = passed /\ new[1] = i + 1 /\ new[2] # 0
                      /\ \A s \in Slots : s[1] = i + 1 => s[2] < new[2]
    BY <1>1, <1>2, PassSlots
  <2> QED
    BY <2>1, <1>4, <1>12
<1>15. /\ Text(new)' = text
       /\ \A s \in Slots : s # here => Text(s)' = Text(s)
  <2>1. \A s \in Slots : s # here => BlockAt(s).mem # block.mem /\ BlockAt(s).mem \in Memory
    BY <1>1, <1>2, SlotFacts, InHandApart
  <2> QED
    BY <2>1, <1>1, <1>5, <1>11, <1>12, <1>14 DEF Text
<1>16. \A s \in Slots : s[1] \in 2..Writer /\ s[2] \in Nat /\ s \in Nat \X Nat
                        /\ (s # here => s[1] # i \/ s[2] # 0)
  BY <1>1, <1>4 DEF SlotsAre
<1>17. new \notin Slots
  BY <1>14
<1> DEFINE move == [s \in Nat \X Nat |-> IF s = new THEN here ELSE s]
<1>18. /\ \A s \in Slots : s # here => move[s] = s
       /\ move[new] = here
  BY <1>16, <1>17
<1> HIDE DEF move
<1>19. here[1] = i /\ here[2] = 0
  OBVIOUS
<1> HIDE DEF here
<1>20. Moved(move)
  <2>1. \A s \in Slots' : move[s] \in Slots
    BY <1>5, <1>14, <1>18
  <2>2. ASSUME NEW s \in Slots', NEW t \in Slots', Ahead(s, t) PROVE Ahead(move[s], move[t])
    <3>1. CASE s # new /\ t # new
      BY <2>2, <3>1, <1>14, <1>18
    <3>2. CASE s = new /\ t # new
      <4>1. t \in Slots /\ t # here /\ move[t] = t /\ move[s] = here
        BY <3>2, <1>14, <1>18
      <4>2. ~(t[1] = i + 1)
        BY <2>2, <3>2, <4>1, <1>4, <1>14, <1>16 DEF Ahead
      <4> QED
        BY <2>2, <3>2, <4>1, <4>2, <1>4, <1>14, <1>16, <1>19 DEF Ahead
    <3>3. CASE s # new /\ t = new
      <4>1. s \in Slots /\ s # here /\ move[s] = s /\ move[t] = here
        BY <3>3, <1>14, <1>18
      <4> QED
        BY <2>2, <3>3, <4>1, <1>4, <1>14, <1>16, <1>19 DEF Ahead
    <3>4. CASE s = new /\ t = new
      BY <2>2, <3>4, <1>14 DEF Ahead
    <3> QED
      BY <3>1, <3>2, <3>3, <3>4
  <2> QED
    BY <2>1, <2>2 DEF Moved
<1>21. TextOK(text, i + 1)
  <2>1. ASSUME NEW p \in 1..Len(text) PROVE EntryOK(text[p], i + 1)
    <3>1. p \in 1..size /\ EntryOK(old[from[p]], i)
      BY <1>6, <1>13 DEF TextOK
    <3> QED
      BY <3>1, <1>13 DEF EntryOK
  <2>2. ASSUME NEW p \in 1..Len(text), NEW q \in 1..Len(text), p # q
        PROVE  text[p][2] # text[q][2] /\ text[p][2] - text[q][2] < BlockSize
    <3>1. p \in 1..size /\ q \in 1..size /\ from[p] # from[q]
      BY <2>2, <1>9, <1>13
    <3>2. /\ from[p] \in 1..Len(old) /\ from[q] \in 1..Len(old)
          /\ text[p] = old[from[p]] /\ text[q] = old[from[q]]
      BY <3>1, <1>6, <1>9, <1>13
    <3>3. /\ old[from[p]][2] # old[from[q]][2]
          /\ old[from[p]][2] - old[from[q]][2] < BlockSize
      BY <3>1, <3>2, <1>6 DEF TextOK
    <3> QED
      BY <3>2, <3>3
  <2>3. i + 1 # 2
    BY <1>4
  <2> QED
    BY <2>1, <2>2, <2>3 DEF TextOK
<1>22. SlotsOK' /\ InTurn' /\ WrittenBefore' /\ NoneLost'
  <2>1. ASSUME NEW s \in Slots'
        PROVE  /\ BlockAt(s)'.size = Len(Text(s)') /\ TextOK(Text(s)', s[1])
               /\ \A p \in 1..Len(Text(s)') : \E q \in 1..Len(Text(move[s])) :
                      Text(s)'[p] = Text(move[s])[q]
    <3>1. CASE s = new
      <4>1. BlockAt(s)'.size = Len(Text(s)') /\ TextOK(Text(s)', s[1])
        BY <3>1, <1>12, <1>13, <1>14, <1>15, <1>21
      <4>2. \A p \in 1..Len(text) : \E q \in 1..Len(old) : text[p] = old[q]
        BY <1>13
      <4> QED
        BY <3>1, <4>1, <4>2, <1>5, <1>15, <1>18
    <3>2. CASE s # new
      BY <3>2, <1>1, <1>14, <1>15, <1>18 DEF Carrying, SlotsOK
    <3> QED
      BY <3>1, <3>2
  <2>2. ASSUME NEW t \in Slots, NEW q \in 1..Len(Text(t)), Text(t)[q][2] \in Wanted(round)
        PROVE  \E s \in Slots' : \E p \in 1..Len(Text(s)') : Text(s)'[p] = Text(t)[q]
    <3>1. CASE t = here
      <4>1. q \in 1..Len(old) /\ old[q][2] \notin Dropped /\ Text(t) = old
        BY <2>2, <3>1, <1>4, <1>5 DEF Wanted
      <4>2. PICK p \in 1..size : from[p] = q
        BY <4>1, <1>7, <1>9
      <4>3. p \in 1..Len(text) /\ text[p] = old[q]
        BY <4>2, <1>13
      <4> QED
        BY <4>1, <4>3, <1>14, <1>15
    <3>2. CASE t # here
      BY <3>2, <1>14, <1>15
    <3> QED
      BY <3>1, <3>2
  <2> QED
    BY <2>1, <2>2, <1>1, <1>2, <1>20, MoveKeeps
<1>23. SizesOK'
  BY <1>1, <1>2, <1>8, <1>12, PassSizes DEF Carrying
<1>24. SourceDone'
  BY <1>1, <1>2, <1>4, PassDone DEF Carrying
<1>25. memory_' \in [Memory -> Seq(Entries)]
  BY <1>1, <1>11, <1>13
<1> QED
  BY <1>2, <1>22, <1>23, <1>24, <1>25 DEF Carrying

\* The writer: what it writes comes next, and the block is done with.
LEMMA WriteCarries ==
    ASSUME Pipeline, Going, Inv, CarryInv, main = "building", NEW i \in Places, Running', Write(i)
    PROVE  Carrying' /\ WrittenOK' /\ (\A entry : IsWritten(entry) => IsWritten(entry)')
<1> DEFINE block == link[i].current_
           text == memory_[block.mem]
           passed == IF workers[i] = "Write" THEN block ELSE Block(block.mem, BlockSize)
           here == <<i, 0>>
<1>1. /\ Carrying /\ Running /\ QueuesOK' /\ LinkOK /\ memory_ \in [Memory -> Seq(Entries)]
      /\ SlotsAre /\ WrittenOK /\ written \in Seq(Entries) /\ Len(written) \in Nat
      /\ produced \in Nat
  BY SlotFacts DEF CarryInv, Inv, Running, WrittenOK
<1>2. /\ workers[i] \in Writers /\ ~IsPoison(block) /\ link[i].at = "working"
      /\ Pass(i, passed) /\ SamePlan /\ UNCHANGED <<produced, memory_>>
      /\ written' = written \o Valid(block)
  BY DEF Write, Has, Pass, SamePlan, Writers
<1>3. /\ i = Writer /\ i \in 2..Writer /\ i # 1 /\ Writer \in Nat /\ BlockSize \in Nat \ {0}
      /\ Rounds[round] \in Nat /\ (Collapses(round) <=> Writer > 2)
  <2>1. /\ Writer \in 2..Len(workers) /\ Len(workers) \in Nat /\ workers[1] \in Sources
        /\ \A j \in 2..Writer - 1 : workers[j] = "Collapse"
        /\ \A j \in Writer + 1..Len(workers) : workers[j] = "Recycler"
        /\ i \in 1..Len(workers)
    BY WriterFacts DEF Places
  <2>2. i # 1 /\ i \notin 2..Writer - 1 /\ i \notin Writer + 1..Len(workers)
    BY <2>1, <1>2 DEF Sources, Writers
  <2>3. i = Writer
    BY <2>1, <2>2
  <2> QED
    BY <2>1, <2>2, <2>3, WriterFacts
<1>4. here \in Slots /\ BlockAt(here) = block /\ Text(here) = text /\ block.mem \in Memory
  <2>1. here \in Slots /\ BlockAt(here) = block
    BY <1>1, <1>2, <1>3 DEF SlotsAre
  <2> QED
    BY <2>1, <1>1, SlotFacts DEF Text
<1>5. /\ block.size = Len(text) /\ TextOK(text, i) /\ text \in Seq(Entries) /\ Len(text) \in Nat
      /\ block.size \in 0..BlockSize
  <2>1. BlockAt(here).size = Len(Text(here)) /\ TextOK(Text(here), here[1])
    BY <1>1, <1>4 DEF Carrying, SlotsOK
  <2>2. here[1] = i
    OBVIOUS
  <2>3. text \in Seq(Entries)
    BY <1>1, <1>4
  <2> QED
    BY <2>1, <2>2, <2>3, <1>1, <1>4 DEF Carrying, SizesOK
<1>6. passed.size \in 0..BlockSize
  BY <1>3, <1>5 DEF Block
<1> HIDE DEF passed
<1>7. Valid(block) = text
  <2>1. Valid(block) = SubSeq(text, 1, Len(text))
    BY <1>5 DEF Valid
  <2> HIDE DEF text
  <2>2. SubSeq(text, 1, Len(text)) = text
    BY <1>5
  <2> QED
    BY <2>1, <2>2
<1> DEFINE n == Len(written)
<1> HIDE DEF text
<1>8. /\ written' \in Seq(Entries) /\ Len(written') = n + Len(text)
      /\ \A m \in 1..n : written'[m] = written[m]
      /\ \A p \in 1..Len(text) : written'[n + p] = text[p]
  BY <1>1, <1>2, <1>5, <1>7, ConcatProperties
<1>9. \A m \in 1..Len(written') : m \in 1..n \/ \E p \in 1..Len(text) : m = n + p
  <2> TAKE m \in 1..Len(written')
  <2>1. m \in 1..n \/ m - n \in 1..Len(text)
    BY <1>1, <1>5, <1>8
  <2>2. m = n + (m - n)
    BY <1>1, <1>8
  <2> QED
    BY <2>1, <2>2
<1>10. /\ \A s \in Slots : s # here => s \in Slots' /\ BlockAt(s)' = BlockAt(s)
       /\ \A s \in Slots' : s \in Slots /\ s # here
  <2>1. PICK new \in Nat \X Nat :
               /\ \A s \in Slots : s # <<i, 0>> => s \in Slots' /\ BlockAt(s)' = BlockAt(s)
               /\ \A s \in Slots' : \/ s \in Slots /\ s # <<i, 0>>
                                    \/ s = new /\ i < Writer /\ ~IsPoison(passed)
    BY <1>1, <1>2, PassSlots
  <2> QED
    BY <2>1, <1>3
<1>11. \A s \in Slots' : Text(s)' = Text(s) /\ s \in Slots
  BY <1>2, <1>10 DEF Text
<1>12. \A s \in Slots' : Ahead(here, s)
  <2> TAKE s \in Slots'
  <2>1. s \in Slots /\ s # here
    BY <1>10
  <2>2. PICK j \in 2..Writer, k \in Nat : s = <<j, k>>
    BY <2>1, <1>1 DEF SlotsAre
  <2>3. j < i \/ (j = i /\ 0 < k)
    BY <2>1, <2>2, <1>3
  <2> QED
    BY <2>2, <2>3 DEF Ahead
<1> HIDE DEF here
<1>13. round' = round /\ main' = main /\ \A r : Wanted(r)' = Wanted(r) /\ Collapses(r)' = Collapses(r)
  BY <1>2, SameWriter DEF SamePlan
<1>14. \A p \in 1..Len(text) : text[p][1] = round /\ text[p][2] \in Wanted(round) /\ text[p][2] \in Nat
  <2> TAKE p \in 1..Len(text)
  <2>1. /\ text[p][1] = round /\ text[p][2] \in 1..Rounds[round]
        /\ i > 2 => text[p][2] \notin Dropped
    BY <1>5 DEF TextOK, EntryOK
  <2>2. ~(Collapses(round) /\ text[p][2] \in Dropped)
    BY <2>1, <1>3
  <2> QED
    BY <2>1, <2>2, <1>3 DEF Wanted
<1>15. \A m \in 1..n : \A p \in 1..Len(text) : written[m][1] = round => written[m][2] < text[p][2]
  BY <1>1, <1>4 DEF Carrying, WrittenBefore
<1>16. \A m \in 1..n : written[m][1] \in Nat /\ written[m][2] \in Nat
                       /\ written[m][1] \in 1..round /\ written[m][1] <= round
  <2> TAKE m \in 1..n
  <2>1. written[m] \in Entries
    BY <1>1
  <2>2. written[m][1] \in 1..round /\ round \in Nat
    BY <1>1, RoundsAssumption DEF WrittenOK, Going
  <2> QED
    BY <2>1, <2>2 DEF Entries
<1>17. WrittenOK'
  <2>1. ASSUME NEW m \in 1..Len(written')
        PROVE  /\ written'[m][1] \in 1..round /\ written'[m][2] \in Wanted(written'[m][1])
               /\ main = "building" /\ written'[m][1] = round => written'[m][2] <= produced
    <3>1. CASE m \in 1..n
      BY <3>1, <1>1, <1>8 DEF WrittenOK
    <3>2. ASSUME NEW p \in 1..Len(text), m = n + p
          PROVE  /\ written'[m][1] \in 1..round /\ written'[m][2] \in Wanted(written'[m][1])
                 /\ main = "building" /\ written'[m][1] = round => written'[m][2] <= produced
      <4>1. written'[m] = text[p] /\ EntryOK(text[p], i)
        BY <3>2, <1>5, <1>8 DEF TextOK
      <4>2. round \in 1..round
        BY RoundsAssumption DEF Going
      <4> QED
        BY <4>1, <4>2, <1>14 DEF EntryOK
    <3> QED
      BY <3>1, <3>2, <1>9
  <2>2. ASSUME NEW m \in 1..Len(written'), NEW l \in 1..m - 1
        PROVE  \/ written'[l][1] < written'[m][1]
               \/ /\ written'[l][1] = written'[m][1] /\ written'[l][2] # written'[m][2]
                  /\ ~DueBefore(written'[m][1], written'[m][2], written'[l][2])
    <3>1. CASE m \in 1..n
      <4>1. l \in 1..n
        BY <3>1
      <4> QED
        BY <3>1, <4>1, <1>1, <1>8 DEF WrittenOK
    <3>2. ASSUME NEW p \in 1..Len(text), m = n + p, l \in 1..n
          PROVE  \/ written'[l][1] < written'[m][1]
                 \/ /\ written'[l][1] = written'[m][1] /\ written'[l][2] # written'[m][2]
                    /\ ~DueBefore(written'[m][1], written'[m][2], written'[l][2])
      <4>1. written'[m] = text[p] /\ written'[l] = written[l] /\ text[p][1] = round
            /\ text[p][2] \in Nat
        BY <3>2, <1>8, <1>14
      <4>2. CASE written[l][1] = round
        <5>1. written[l][2] < text[p][2] /\ written[l][2] \in Nat
          BY <3>2, <4>2, <1>15, <1>16
        <5>2. ~DueBefore(round, text[p][2], written[l][2])
          BY <5>1, <4>1, <1>3 DEF DueBefore
        <5> QED
          BY <4>1, <4>2, <5>1, <5>2
      <4>3. CASE written[l][1] # round
        <5>1. written[l][1] < round
          BY <3>2, <4>3, <1>16, RoundsAssumption DEF Going
        <5> QED
          BY <4>1, <5>1
      <4> QED
        BY <4>2, <4>3
    <3>3. ASSUME NEW p \in 1..Len(text), m = n + p, NEW q \in 1..Len(text), l = n + q
          PROVE  /\ written'[l][1] = written'[m][1] /\ written'[l][2] # written'[m][2]
                 /\ ~DueBefore(written'[m][1], written'[m][2], written'[l][2])
      <4>1. /\ written'[m] = text[p] /\ written'[l] = text[q] /\ text[p][1] = round
            /\ text[q][1] = round /\ text[p][2] \in Nat /\ text[q][2] \in Nat
        BY <3>3, <1>8, <1>14
      <4>2. q < p
        BY <3>3, <1>1
      <4>3. text[q][2] # text[p][2] /\ text[q][2] - text[p][2] < BlockSize
        BY <4>2, <1>5 DEF TextOK
      <4>4. ~Collapses(round) => text[q][2] < text[p][2]
        BY <4>2, <1>3, <1>5 DEF TextOK
      <4>5. ~DueBefore(round, text[p][2], text[q][2])
        BY <4>1, <4>3, <4>4, <1>3 DEF DueBefore
      <4> QED
        BY <4>1, <4>3, <4>5
    <3> QED
      <4>1. l \in 1..Len(written')
        BY <1>1, <1>5, <1>8
      <4> QED
        BY <4>1, <3>1, <3>2, <3>3, <1>9
  <2>3. \A r, k, l : DueBefore(r, k, l)' <=> DueBefore(r, k, l)
    BY <1>13 DEF DueBefore
  <2> QED
    BY <2>1, <2>2, <2>3, <1>2, <1>8, <1>13, ZenonT(60) DEF WrittenOK
<1>18. \A entry : IsWritten(entry) => IsWritten(entry)'
  <2> SUFFICES ASSUME NEW entry, IsWritten(entry) PROVE IsWritten(entry)'
    OBVIOUS
  <2>1. PICK m \in 1..n : written[m] = entry
    BY DEF IsWritten
  <2>2. m \in 1..Len(written') /\ written'[m] = entry
    BY <2>1, <1>1, <1>5, <1>8
  <2> QED
    BY <2>2 DEF IsWritten
<1>19. SlotsOK'
  <2> SUFFICES ASSUME NEW s \in Slots' PROVE BlockAt(s)'.size = Len(Text(s)') /\ TextOK(Text(s), s[1])'
    BY DEF SlotsOK
  <2>1. s \in Slots /\ BlockAt(s)' = BlockAt(s) /\ Text(s)' = Text(s)
    BY <1>10, <1>11
  <2>2. BlockAt(s).size = Len(Text(s)) /\ TextOK(Text(s), s[1])
    BY <2>1, <1>1 DEF Carrying, SlotsOK
  <2> QED
    BY <2>1, <2>2, <1>2, <1>13 DEF TextOK, EntryOK
<1>20. InTurn'
  <2> SUFFICES ASSUME NEW s \in Slots', NEW t \in Slots', Ahead(s, t),
                      NEW p \in 1..Len(Text(s)'), NEW q \in 1..Len(Text(t)')
               PROVE  Text(s)'[p][2] < Text(t)'[q][2]
    BY DEF InTurn, Ahead
  <2> QED
    BY <1>1, <1>11 DEF Carrying, InTurn
<1>21. WrittenBefore'
  <2> SUFFICES ASSUME NEW m \in 1..Len(written'), written'[m][1] = round, NEW s \in Slots',
                      NEW p \in 1..Len(Text(s)')
               PROVE  written'[m][2] < Text(s)'[p][2]
    BY <1>13 DEF WrittenBefore
  <2>1. s \in Slots /\ p \in 1..Len(Text(s)) /\ Text(s)' = Text(s) /\ Ahead(here, s)
    BY <1>11, <1>12
  <2>2. CASE m \in 1..n
    BY <2>1, <2>2, <1>1, <1>8 DEF Carrying, WrittenBefore
  <2>3. ASSUME NEW q \in 1..Len(text), m = n + q PROVE written'[m][2] < Text(s)'[p][2]
    <3>1. text[q][2] < Text(s)[p][2]
      BY <2>1, <1>1, <1>4 DEF Carrying, InTurn
    <3> QED
      BY <2>1, <2>3, <3>1, <1>8
  <2> QED
    BY <2>2, <2>3, <1>9
<1>22. NoneLost'
  <2> SUFFICES ASSUME NEW k \in Wanted(round), k <= produced
               PROVE  IsWritten(<<round, k>>)' \/ OnItsWay(<<round, k>>)'
    BY <1>2, <1>13 DEF NoneLost, IsWritten, OnItsWay
  <2> DEFINE entry == <<round, k>>
  <2>1. CASE IsWritten(entry)
    <3>1. PICK m \in 1..n : written[m] = entry
      BY <2>1 DEF IsWritten
    <3>2. m \in 1..Len(written') /\ written'[m] = entry
      BY <3>1, <1>1, <1>5, <1>8
    <3> QED
      BY <3>2, <1>13 DEF IsWritten
  <2>2. CASE OnItsWay(entry)
    <3>1. PICK s \in Slots : \E p \in 1..Len(Text(s)) : Text(s)[p] = entry
      BY <2>2 DEF OnItsWay
    <3>2. CASE s = here
      <4>1. PICK p \in 1..Len(text) : text[p] = entry
        BY <3>1, <3>2, <1>4
      <4>2. n + p \in 1..Len(written') /\ written'[n + p] = entry
        BY <4>1, <1>1, <1>5, <1>8
      <4> QED
        BY <4>2, <1>13 DEF IsWritten
    <3>3. CASE s # here
      <4>1. s \in Slots' /\ Text(s)' = Text(s)
        BY <3>3, <1>10, <1>11
      <4> QED
        BY <3>1, <4>1, <1>13 DEF OnItsWay
    <3> QED
      BY <3>2, <3>3
  <2> QED
    BY <2>1, <2>2, <1>1 DEF Carrying, NoneLost
<1>23. SizesOK'
  BY <1>1, <1>2, <1>6, PassSizes DEF Carrying
<1>24. SourceDone'
  BY <1>1, <1>2, <1>3, PassDone DEF Carrying
<1> QED
  BY <1>17, <1>18, <1>19, <1>20, <1>21, <1>22, <1>23, <1>24 DEF Carrying

LEMMA RecycleCarries ==
    ASSUME Pipeline, Going, Inv, CarryInv, main = "building", NEW i \in Places, Running', Recycle(i)
    PROVE  Carrying'
<1> PICK passed : passed = Block(link[i].current_.mem, BlockSize)
  OBVIOUS
<1>1. Carrying /\ LinkOK
  BY DEF CarryInv, Inv, Running
<1>2. workers[i] = "Recycler" /\ Pass(i, passed) /\ UNCHANGED <<memory_, produced, written>>
  BY DEF Recycle, Has
<1>3. i > Writer /\ i \in Nat /\ Writer \in Nat /\ i # 1 /\ BlockSize \in Nat \ {0}
  <2>1. /\ Writer \in 2..Len(workers) /\ Len(workers) \in Nat /\ workers[1] \in Sources
        /\ \A j \in 2..Writer - 1 : workers[j] = "Collapse"
        /\ workers[Writer] \in Writers /\ BlockSize \in Nat \ {0}
        /\ i \in 1..Len(workers)
    BY WriterFacts DEF Places
  <2>2. i # 1 /\ i \notin 2..Writer - 1 /\ i # Writer
    BY <2>1, <1>2 DEF Sources, Writers
  <2> QED
    BY <2>1, <2>2
<1>4. passed.size \in 0..BlockSize
  BY <1>3 DEF Block
<1>5. SourceDone'
  BY <1>1, <1>2, <1>3, PassDone DEF Carrying
<1>6. \A s \in Slots : memory_'[BlockAt(s).mem] = Text(s)
  BY <1>2 DEF Text
<1>7. Unseen(i, passed)
  BY <1>3 DEF Unseen
<1> QED
  BY <1>1, <1>2, <1>4, <1>5, <1>6, <1>7, PassUnseen

\* The source never gets the poison: it makes the only one, and ends with it.
LEMMA PoisonCarries ==
    ASSUME Pipeline, Going, Inv, CarryInv, main = "building", NEW i \in Places, Running',
           PassPoison(i)
    PROVE  Carrying'
<1>1. Carrying /\ LinkOK /\ QueuesOK /\ Accounted
  BY DEF CarryInv, Inv, Running
<1>2. /\ IsPoison(link[i].current_) /\ Pass(i, Poison) /\ UNCHANGED <<memory_, produced, written>>
      /\ link[i].at = "working"
  BY DEF PassPoison, Pass
<1>3. i # 1
  <2> SUFFICES ASSUME i = 1 PROVE FALSE
    OBVIOUS
  <2>1. NULL \in Mems /\ link[1].current_.mem = NULL
    BY <1>2 DEF IsPoison, Mems
  <2>2. <<"link", 1>> \in Holders(NULL)
    BY <2>1, <1>1, <1>2, Held DEF HoldersAre
  <2> QED
    BY <2>2, <1>1, <1>2 DEF Accounted
<1>4. Poison.size \in 0..BlockSize /\ Unseen(i, Poison)
  BY <1>2, BlockAssumption DEF Poison, Block, IsPoison, Unseen
<1>5. SourceDone'
  BY <1>1, <1>2, <1>3, PassDone DEF Carrying
<1>6. \A s \in Slots : memory_'[BlockAt(s).mem] = Text(s)
  BY <1>2 DEF Text
<1> QED
  BY <1>1, <1>2, <1>4, <1>5, <1>6, PassUnseen

\* Entries that were written are still due in the order in which they are.
LEMMA WrittenStays ==
    ASSUME WrittenOK, SamePlan, UNCHANGED written, produced \in Nat, produced' \in Nat,
           produced' >= produced
    PROVE  WrittenOK' /\ (\A entry : IsWritten(entry) => IsWritten(entry)')
<1>1. /\ round' = round /\ main' = main
      /\ \A r : Wanted(r)' = Wanted(r) /\ Collapses(r)' = Collapses(r)
  BY SameWriter DEF SamePlan
<1>2. \A r, k, l : DueBefore(r, k, l)' <=> DueBefore(r, k, l)
  BY <1>1 DEF DueBefore
<1>3. ASSUME NEW n \in 1..Len(written), main = "building", written[n][1] = round
      PROVE  written[n][2] <= produced'
  <2>1. written[n][2] <= produced /\ written[n] \in Entries
    BY <1>3 DEF WrittenOK
  <2> QED
    BY <2>1 DEF Entries
<1>4. WrittenOK'
  BY <1>1, <1>2, <1>3 DEF WrittenOK
<1>5. \A entry : IsWritten(entry) => IsWritten(entry)'
  BY DEF IsWritten
<1> QED
  BY <1>4, <1>5

LEMMA WorkerCarries ==
    ASSUME Pipeline, Going, Inv, CarryInv, main = "building", NEW i \in Places, Worker(i)
    PROVE  CarryInv'
<1>1. Running' /\ SamePlan
  BY WorkerRunning
<1>2. /\ Carrying /\ memory_ \in [Memory -> Seq(Entries)] /\ produced \in Nat /\ WrittenOK /\ Past
  BY DEF CarryInv
<1>3. /\ Carrying' /\ memory_' \in [Memory -> Seq(Entries)] /\ produced' \in Nat
      /\ WrittenOK' /\ (\A entry : IsWritten(entry) => IsWritten(entry)')
  <2>1. CASE Consume(i)
    <3>1. Carrying'
      BY <2>1, <1>2, ConsumeCarries
    <3> QED
      BY <3>1, <2>1, <1>1, <1>2, WrittenStays DEF Consume
  <2>2. CASE PassPoison(i)
    <3>1. Carrying'
      BY <2>2, <1>1, PoisonCarries
    <3> QED
      BY <3>1, <2>2, <1>1, <1>2, WrittenStays DEF PassPoison
  <2>3. CASE Read(i) \/ Stream(i)
    BY <2>3, <1>1, <1>2, SourceCarries, WrittenStays
  <2>4. CASE Collapse(i)
    BY <2>4, <1>1, <1>2, CollapseCarries, WrittenStays
  <2>5. CASE Write(i)
    <3>1. UNCHANGED <<memory_, produced>>
      BY <2>5 DEF Write
    <3> QED
      BY <3>1, <2>5, <1>1, <1>2, WriteCarries
  <2>6. CASE Recycle(i)
    <3>1. Carrying'
      BY <2>6, <1>1, RecycleCarries
    <3> QED
      BY <3>1, <2>6, <1>1, <1>2, WrittenStays DEF Recycle
  <2> QED
    BY <2>1, <2>2, <2>3, <2>4, <2>5, <2>6 DEF Worker
<1>4. Past'
  <2>1. Finished' = Finished /\ \A r : Wanted(r)' = Wanted(r)
    BY <1>1, SameWriter DEF Finished, SamePlan
  <2>2. \A r \in 1..Finished : \A k \in Wanted(r) : IsWritten(<<r, k>>)'
    BY <1>2, <1>3 DEF Past
  <2> QED
    BY <2>1, <2>2 DEF Past
<1> QED
  BY <1>3, <1>4 DEF CarryInv, Memory

-----------------------------------------------------------------------------
\* The steps of the owner, and what is written.

LEMMA WriterNext ==
    ASSUME Pipeline
    PROVE  Going' => (2..Writer \subseteq Places /\ Rounds[round] \in Nat)'
<1>1. Going => 2..Writer \subseteq Places /\ Rounds[round] \in Nat
  BY WriterFacts
<1> QED
  BY <1>1, PTL

\* The next round, or the end of one, takes nothing away from what is written.
LEMMA WrittenRests ==
    ASSUME WrittenOK, plan' = plan, written' = written, round \in Nat, round' \in Nat,
           round' >= round, main' = "building" => round' > round
    PROVE  /\ WrittenOK' /\ (\A entry : IsWritten(entry)' <=> IsWritten(entry))
           /\ \A r : Wanted(r)' = Wanted(r)
<1>1. \A r : Wanted(r)' = Wanted(r) /\ Collapses(r)' = Collapses(r)
  BY DEF Wanted, Collapses
<1>2. \A r, k, l : DueBefore(r, k, l)' <=> DueBefore(r, k, l)
  BY <1>1 DEF DueBefore
<1>3. \A n \in 1..Len(written) :
          /\ written[n][1] \in 1..round'
          /\ ~(main' = "building" /\ written[n][1] = round')
  BY DEF WrittenOK
<1>4. WrittenOK'
  BY <1>1, <1>2, <1>3 DEF WrittenOK
<1>5. \A entry : IsWritten(entry)' <=> IsWritten(entry)
  BY DEF IsWritten
<1> QED
  BY <1>1, <1>4, <1>5

LEMMA StartCarries ==
    ASSUME Pipeline, Inv, CarryInv, Start
    PROVE  CarryInv'
<1>1. /\ main = "idle" /\ main' = "building" /\ round' = round + 1 /\ produced' = 0
      /\ UNCHANGED <<plan, memory_, written>>
  BY DEF Start
<1>2. Running' /\ Going' /\ round \in Nat
  BY StartRunning, RoundsAssumption DEF Inv, Going
<1>3. BlockSize \in Nat \ {0} /\ round' \in Nat /\ Rounds[round'] \in Nat
  BY <1>2, RoundsAssumption, BlockAssumption DEF Going
<1>4. (2..Writer \subseteq Places)' /\ QueuesOK'
  BY <1>2, WriterNext DEF Running
<1>5. SlotsAre'
  BY <1>4, SlotsNext
<1>6. /\ 1 \in Places' /\ queues_'[1] = [m \in Memory |-> Block(m, BlockSize)]
      /\ \A i \in Places' : i # 1 => queues_'[i] = <<>>
      /\ \A i \in Places' : link'[i].at = "init" /\ link'[i].current_ = Poison
  <2>1. Places' = 1..Len(plan[round + 1])
    BY <1>1, <1>2 DEF Places, workers
  <2>2. 1 \in Places'
    <3>1. plan[round + 1] \in Seq(Kinds) /\ plan[round + 1] # <<>>
      BY <1>1, <1>2, ChainsAssumption DEF Going
    <3> QED
      BY <2>1, <3>1
  <2>3. /\ queues_' = [i \in Places' |-> IF i = 1 THEN [m \in Memory |-> Block(m, BlockSize)] ELSE <<>>]
        /\ link' = [i \in Places' |-> [at |-> "init", current_ |-> Poison]]
    BY <2>1 DEF Start
  <2> QED
    BY <2>2, <2>3
<1>7. Slots' = {}
  <2> SUFFICES ASSUME NEW s \in Slots' PROVE FALSE
    OBVIOUS
  <2>1. PICK i \in 2..Writer', k \in Nat : s = <<i, k>>
    BY <1>5 DEF SlotsAre
  <2>2. i \in Places' /\ i # 1
    BY <2>1, <1>4
  <2>3. link'[i].at # "working" /\ Len(queues_'[i]) = 0
    BY <2>2, <1>6
  <2>4. <<i, k>> \in Slots' <=>
            IF k = 0 THEN link'[i].at = "working" /\ ~IsPoison(link'[i].current_)
                     ELSE k <= Len(queues_'[i]) /\ ~IsPoison(queues_'[i][k])
    BY <2>1, <1>5 DEF SlotsAre, IsPoison, NULL
  <2> QED
    BY <2>1, <2>3, <2>4
<1>8. SizesOK'
  <2>1. Poison.size = 0 /\ \A m : Block(m, BlockSize).size = BlockSize
    BY DEF Poison, Block
  <2>2. ASSUME NEW i \in Places', NEW k \in 1..Len(queues_'[i])
        PROVE  queues_'[i][k].size \in 0..BlockSize
    <3>1. CASE i = 1
      <4> DEFINE first == [m \in Memory |-> Block(m, BlockSize)]
      <4>1. queues_'[i] = first
        BY <3>1, <1>6
      <4>2. Len(first) = BlockCount
        BY BlockAssumption DEF Memory
      <4>3. k \in Memory
        BY <4>1, <4>2 DEF Memory
      <4> QED
        BY <4>1, <4>3, <2>1, <1>3
    <3>2. CASE i # 1
      BY <3>2, <1>6
    <3> QED
      BY <3>1, <3>2
  <2> QED
    BY <2>1, <2>2, <1>3, <1>6 DEF SizesOK
<1>9. SlotsOK' /\ InTurn' /\ WrittenBefore'
  BY <1>7 DEF SlotsOK, InTurn, WrittenBefore
<1>10. NoneLost'
  <2>1. \A k \in Wanted(round)' : k \in 1..Rounds[round']
    BY DEF Wanted
  <2> QED
    BY <2>1, <1>1, <1>3 DEF NoneLost
<1>11. SourceDone'
  BY <1>1, <1>3, <1>6 DEF SourceDone
<1>12. /\ WrittenOK' /\ (\A entry : IsWritten(entry)' <=> IsWritten(entry))
       /\ \A r : Wanted(r)' = Wanted(r)
  BY <1>1, <1>2, <1>3, WrittenRests DEF CarryInv
<1>13. Past'
  <2>1. Finished' = Finished
    BY <1>1, <1>2 DEF Finished
  <2> QED
    BY <2>1, <1>12 DEF CarryInv, Past
<1> QED
  BY <1>1, <1>8, <1>9, <1>10, <1>11, <1>12, <1>13 DEF CarryInv, Carrying, Memory

\* Join: all blocks are back, so that all entries of the round are written.
LEMMA JoinCarries ==
    ASSUME Pipeline, Inv, WaitInv, CarryInv, Join
    PROVE  CarryInv'
<1>1. /\ main = "building" /\ main' = "draining" /\ \A i \in Places : link[i].at = "ended"
      /\ UNCHANGED <<round, plan, memory_, produced, written>>
  BY DEF Join
<1>2. /\ Going /\ Running /\ Ends /\ Carrying /\ round \in Nat
      /\ WrittenOK /\ Past /\ memory_ \in [Memory -> Seq(Entries)] /\ produced \in Nat
  BY <1>1, RoundsAssumption DEF Inv, WaitInv, CarryInv, Going
<1>3. \A i \in Places : i # 1 => queues_[i] = <<>>
  BY <1>1, <1>2, OnlyFirstLeft DEF Going
<1>4. SlotsAre /\ 2..Writer \subseteq Places /\ 1 \in Places /\ Rounds[round] \in Nat
  BY <1>2, SlotFacts, WriterFacts, OutFacts, RoundsAssumption DEF Going
<1>5. Slots = {}
  <2> SUFFICES ASSUME NEW s \in Slots PROVE FALSE
    OBVIOUS
  <2>1. PICK i \in 2..Writer, k \in Nat : s = <<i, k>>
    BY <1>4 DEF SlotsAre
  <2>2. i \in Places /\ i # 1
    BY <2>1, <1>4
  <2>3. link[i].at # "working" /\ Len(queues_[i]) = 0
    BY <2>2, <1>1, <1>3
  <2> QED
    BY <2>1, <2>3, <1>4 DEF SlotsAre
<1>6. \A k \in Wanted(round) : IsWritten(<<round, k>>)
  <2> TAKE k \in Wanted(round)
  <2>1. k \in 1..Rounds[round] /\ produced >= Rounds[round]
    BY <1>1, <1>2, <1>4 DEF Wanted, Carrying, SourceDone
  <2>2. k <= produced
    BY <2>1, <1>2, <1>4
  <2> QED
    BY <2>2, <1>2, <1>5 DEF Carrying, NoneLost, OnItsWay
<1>7. /\ WrittenOK' /\ (\A entry : IsWritten(entry)' <=> IsWritten(entry))
      /\ \A r : Wanted(r)' = Wanted(r)
  BY <1>1, <1>2, WrittenRests
<1>8. Past'
  <2>1. Finished = round - 1 /\ Finished' = round
    BY <1>1 DEF Finished
  <2>2. \A r \in 1..round : r \in 1..round - 1 \/ r = round
    BY <1>2
  <2>3. \A r \in 1..round : \A k \in Wanted(r) : IsWritten(<<r, k>>)
    BY <2>1, <2>2, <1>2, <1>6 DEF Past
  <2> QED
    BY <2>1, <2>3, <1>7 DEF Past
<1> QED
  BY <1>1, <1>2, <1>7, <1>8 DEF CarryInv, Memory

LEMMA DrainCarries ==
    ASSUME Inv, CarryInv, Drain
    PROVE  CarryInv'
<1>1. /\ main = "draining" /\ main' # "building"
      /\ UNCHANGED <<round, plan, memory_, produced, written>>
  BY DEF Drain
<1>2. round \in Nat
  BY RoundsAssumption DEF Inv
<1>3. /\ WrittenOK' /\ (\A entry : IsWritten(entry)' <=> IsWritten(entry))
      /\ \A r : Wanted(r)' = Wanted(r)
  BY <1>1, <1>2, WrittenRests DEF CarryInv
<1>4. Past'
  <2>1. Finished' = Finished
    BY <1>1 DEF Finished
  <2> QED
    BY <2>1, <1>3 DEF CarryInv, Past
<1> QED
  BY <1>1, <1>3, <1>4 DEF CarryInv, Memory

LEMMA StayCarries ==
    ASSUME CarryInv, UNCHANGED <<main, round, plan, queues_, link, memory_, produced, written>>
    PROVE  CarryInv'
<1>1. /\ SamePlan /\ main' = main /\ round' = round /\ queues_' = queues_ /\ link' = link
      /\ memory_' = memory_ /\ produced' = produced /\ written' = written
  BY DEF SamePlan
<1>2. /\ Writer' = Writer /\ workers' = workers /\ Places' = Places
      /\ \A r : Wanted(r)' = Wanted(r) /\ Collapses(r)' = Collapses(r)
  BY <1>1, SameWriter, SamePlaces
<1>3. Slots' = Slots
  BY <1>1, <1>2 DEF Slots, IsPoison
<1>4. \A s : BlockAt(s)' = BlockAt(s)
  BY <1>1 DEF BlockAt
<1>5. \A s : Text(s)' = Text(s)
  BY <1>1, <1>4 DEF Text
<1>6. WrittenOK'
  <2>1. \A r, k, l : DueBefore(r, k, l)' <=> DueBefore(r, k, l)
    BY <1>2 DEF DueBefore
  <2> QED
    BY <2>1, <1>1, <1>2 DEF CarryInv, WrittenOK
<1>7. \A entry : /\ IsWritten(entry)' <=> IsWritten(entry)
                 /\ OnItsWay(entry)' <=> OnItsWay(entry)
  BY <1>1, <1>3, <1>5 DEF IsWritten, OnItsWay
<1>8. Past'
  <2>1. Finished' = Finished
    BY <1>1 DEF Finished
  <2> QED
    BY <2>1, <1>2, <1>7 DEF CarryInv, Past
<1>9. ASSUME Carrying PROVE Carrying'
  <2>1. SizesOK' /\ SourceDone'
    BY <1>1, <1>2, <1>9 DEF Carrying, SizesOK, SourceDone
  <2>2. \A text, i : TextOK(text, i)' <=> TextOK(text, i)
    BY <1>1 DEF TextOK, EntryOK
  <2>3. SlotsOK'
    <3> SUFFICES ASSUME NEW s \in Slots' PROVE BlockAt(s)'.size = Len(Text(s)') /\ TextOK(Text(s), s[1])'
      BY DEF SlotsOK
    <3>1. BlockAt(s).size = Len(Text(s)) /\ TextOK(Text(s), s[1])
      BY <1>3, <1>9 DEF Carrying, SlotsOK
    <3> QED
      BY <3>1, <1>1, <1>4, <1>5 DEF TextOK, EntryOK
  <2>4. InTurn'
    <3>1. \A s, t : Ahead(s, t)' <=> Ahead(s, t)
      BY DEF Ahead
    <3> QED
      BY <3>1, <1>3, <1>5, <1>9 DEF Carrying, InTurn
  <2>5. WrittenBefore'
    BY <1>1, <1>3, <1>5, <1>9 DEF Carrying, WrittenBefore
  <2>6. NoneLost'
    BY <1>1, <1>2, <1>7, <1>9 DEF Carrying, NoneLost
  <2> QED
    BY <2>1, <2>3, <2>4, <2>5, <2>6 DEF Carrying
<1> QED
  BY <1>1, <1>6, <1>8, <1>9 DEF CarryInv, Memory

LEMMA InitCarries == Init => CarryInv
<1> SUFFICES ASSUME Init PROVE CarryInv
  OBVIOUS
<1>1. /\ main = "idle" /\ round = 0 /\ produced = 0 /\ written = <<>>
      /\ memory_ = [m \in Memory |-> <<>>]
  BY DEF Init
<1>2. written \in Seq(Entries) /\ Len(written) = 0
  BY <1>1
<1>3. WrittenOK
  BY <1>2 DEF WrittenOK
<1>4. Past
  BY <1>1 DEF Past, Finished
<1> QED
  BY <1>1, <1>3, <1>4 DEF CarryInv

LEMMA NextCarries ==
    ASSUME Pipeline
    PROVE  Inv /\ WaitInv /\ CarryInv /\ [Next]_vars => CarryInv'
<1> SUFFICES ASSUME Inv, WaitInv, CarryInv, [Next]_vars PROVE CarryInv'
  OBVIOUS
<1>1. CASE Start
  BY <1>1, StartCarries
<1>2. CASE Add
  BY <1>2, StayCarries DEF Add
<1>3. CASE Join
  BY <1>3, JoinCarries
<1>4. CASE Drain
  BY <1>4, DrainCarries
<1>5. ASSUME NEW i \in Places, Worker(i)
      PROVE  CarryInv'
  <2>1. main = "building"
    <3> SUFFICES ASSUME main # "building" PROVE FALSE
      OBVIOUS
    <3>1. i <= 0 /\ i >= 1
      BY <1>5 DEF WaitInv, Worker, Places
    <3> QED
      BY <3>1 DEF Places
  <2>2. Going
    BY <2>1, RoundsAssumption DEF Inv, Going
  <2> QED
    BY <2>1, <2>2, <1>5, WorkerCarries
<1>6. CASE UNCHANGED vars
  BY <1>6, StayCarries DEF vars
<1> QED
  BY <1>1, <1>2, <1>3, <1>4, <1>5, <1>6 DEF Next, Owner

\* An entry that is due before a written one was written before it: it is not on its way any more,
\* since blocks are in turn, and what is written is in the order in which it is due.
LEMMA InOrder == Inv /\ CarryInv => WrittenInOrder
<1> SUFFICES ASSUME Inv, CarryInv PROVE WrittenInOrder
  OBVIOUS
<1>1. WrittenOK /\ Past /\ written \in Seq(Entries) /\ produced \in Nat
  BY DEF CarryInv, WrittenOK
<1>2. DOMAIN written = 1..Len(written) /\ Len(written) \in Nat
  BY <1>1
<1>3. round \in Nat /\ BlockSize \in Nat \ {0}
  BY RoundsAssumption, BlockAssumption DEF Inv
<1>4. ASSUME NEW n \in 1..Len(written), NEW j \in Wanted(written[n][1]),
             DueBefore(written[n][1], j, written[n][2])
      PROVE  \E m \in 1..n - 1 : written[m] = <<written[n][1], j>>
  <2> DEFINE r == written[n][1]
             k == written[n][2]
  <2>1. r \in 1..round /\ k \in Nat /\ j \in Nat
    <3>1. written[n] \in Entries /\ r \in 1..round
      BY <1>1 DEF WrittenOK
    <3>2. Rounds[r] \in Nat
      BY <3>1, RoundsAssumption DEF Inv
    <3> QED
      BY <3>1, <3>2 DEF Entries, Wanted
  <2> HIDE DEF r, k
  <2>2. j < k /\ \A i : DueBefore(r, i, i) => i \notin Nat
    BY <2>1, <1>3, <1>4 DEF DueBefore, r, k
  <2>3. IsWritten(<<r, j>>)
    <3>1. CASE r \in 1..Finished
      BY <3>1, <1>1, <1>4 DEF Past, r
    <3>2. CASE r \notin 1..Finished
      <4>1. main = "building" /\ r = round
        BY <3>2, <2>1, <1>3 DEF Finished
      <4>2. Carrying /\ k <= produced
        BY <4>1, <1>1 DEF CarryInv, WrittenOK, r, k
      <4>3. j <= produced
        BY <4>2, <2>1, <2>2, <1>1
      <4>4. ~OnItsWay(<<r, j>>)
        <5> SUFFICES ASSUME OnItsWay(<<r, j>>) PROVE FALSE
          OBVIOUS
        <5>1. PICK s \in Slots : \E p \in 1..Len(Text(s)) : Text(s)[p] = <<r, j>>
          BY DEF OnItsWay
        <5>2. PICK p \in 1..Len(Text(s)) : Text(s)[p] = <<r, j>>
          BY <5>1
        <5>3. k < Text(s)[p][2]
          BY <4>1, <4>2, <5>1 DEF Carrying, WrittenBefore, r, k
        <5> QED
          BY <5>2, <5>3, <2>1, <2>2
      <4> QED
        BY <4>1, <4>2, <4>3, <4>4, <1>4 DEF Carrying, NoneLost, r
    <3> QED
      BY <3>1, <3>2
  <2>4. PICK m \in 1..Len(written) : written[m] = <<r, j>>
    BY <2>3 DEF IsWritten
  <2>5. written[m][1] = r /\ written[m][2] = j
    BY <2>4
  <2>6. m # n
    BY <2>1, <2>2, <2>5 DEF k
  <2>7. ~(n < m)
    <3> SUFFICES ASSUME n < m PROVE FALSE
      OBVIOUS
    <3>1. n \in 1..m - 1
      OBVIOUS
    <3>2. r < r \/ ~DueBefore(r, j, k)
      BY <3>1, <2>5, <1>1 DEF WrittenOK, r, k
    <3> QED
      BY <3>2, <2>1, <1>4 DEF r, k
  <2> QED
    BY <2>4, <2>6, <2>7 DEF r
<1>5. \A n \in DOMAIN written :
          LET r == written[n][1]
              k == written[n][2]
          IN  /\ r \in 1..round /\ k \in Wanted(r)
              /\ \A m \in 1..n - 1 :
                     \/ written[m][1] < r
                     \/ written[m][1] = r /\ written[m][2] # k /\ ~DueBefore(r, k, written[m][2])
              /\ \A j \in Wanted(r) : DueBefore(r, j, k) => \E m \in 1..n - 1 : written[m] = <<r, j>>
  BY <1>1, <1>2, <1>4 DEF WrittenOK
<1>6. \A r \in 1..Finished : \A k \in Wanted(r) : \E n \in DOMAIN written : written[n] = <<r, k>>
  BY <1>1, <1>2 DEF Past, IsWritten
<1> QED
  BY <1>5, <1>6 DEF WrittenInOrder

\* Whatever the sizes, rounds and workers: when each chain has one writer, and behind it only
\* workers that restore the size of the blocks, then every entry a round is to write is written
\* once, none is left out or deleted by mistake, and none overtakes more than its block.
THEOREM EntriesWrittenInOrder == Pipeline => (Spec => []WrittenInOrder)
<1> SUFFICES ASSUME Pipeline PROVE Spec => []WrittenInOrder
  OBVIOUS
<1>1. Inv /\ WaitInv /\ CarryInv /\ [Next]_vars => CarryInv'
  BY NextCarries
<1>2. Init => CarryInv
  BY InitCarries
<1>3. Inv /\ CarryInv => WrittenInOrder
  BY InOrder
<1> QED
  BY <1>1, <1>2, <1>3, Invariance, InitWaits, NextWaits, PTL DEF Spec
=============================================================================
