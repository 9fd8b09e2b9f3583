------------------------------ MODULE StreamChain ------------------------------
(***************************************************************************)
(* A chain of workers (util/stream/chain.cc): each runs on a thread of its *)
(* own, and blocks of memory travel from one to the next through queues,   *)
(* and from the last back to the first.  The source fills them, the others *)
(* change, write or recycle them; poison behind the last block ends the    *)
(* workers one after the other.  Then the chain may be used again.         *)
(***************************************************************************)
EXTENDS Integers, Sequences, SequencesExt, FiniteSets

CONSTANTS BlockCount, BlockSize,    \* of the configuration; sizes are counted in entries
          Chains,                   \* sequences of workers, from the source to the last
          Rounds,                   \* how many entries each use of the chain carries
          Dropped                   \* the entries that a collapsing worker deletes

\* How lm/builder and the tests put chains together: the source comes first, and only there.
Sources == {"Read", "Stream"}
Kinds == Sources \cup {"Collapse", "Write", "WriteAndRecycle", "Recycler"}

ASSUME ChainsAssumption == \A chain \in Chains :
                               /\ chain \in Seq(Kinds) /\ chain # <<>>
                               /\ \A i \in 2..Len(chain) : chain[i] \notin Sources
ASSUME RoundsAssumption == Rounds \in Seq(Nat)
ASSUME BlockAssumption == BlockCount \in Nat \ {0} /\ BlockSize \in Nat \ {0}

VARIABLES main,         \* where the thread that owns the chain is
          round,        \* how often it has used the chain
          plan,         \* the workers of each round, from the source to the last
          threads_,     \* how many of them run
          queues_,      \* the queue before each worker; its out is the next one, the last's the first
          link,         \* link[i]: where the Link of worker i is, and its current_ block
          memory_,      \* the entries in each block of memory
          produced,     \* entries the source has put into blocks
          written,      \* entries written, of all rounds
          drained       \* blocks Wait has taken out of the first queue

vars == <<main, round, plan, threads_, queues_, link, memory_, produced, written, drained>>

Memory == 1..BlockCount
NULL == 0
Block(mem, size) == [mem |-> mem, size |-> size]
Poison == Block(NULL, 0)
IsPoison(block) == block.mem = NULL

workers == IF round = 0 THEN <<>> ELSE plan[round]
Places == 1..Len(workers)
Out(i) == IF i = Len(workers) THEN 1 ELSE i + 1

\* Entry k of the current round.
Entry(k) == <<round, k>>
Valid(block) == SubSeq(memory_[block.mem], 1, block.size)

-----------------------------------------------------------------------------

Init ==
    /\ main = "idle" /\ round = 0
    /\ plan \in [1..Len(Rounds) -> Chains] /\ threads_ = 0 /\ queues_ = <<>> /\ link = <<>>
    /\ memory_ = [m \in Memory |-> <<>>]
    /\ produced = 0 /\ written = <<>> /\ drained = 0

\* The first Add calls Start, which puts all blocks into the first queue.
Start ==
    /\ main = "idle" /\ round < Len(Rounds)
    /\ main' = "building" /\ round' = round + 1 /\ produced' = 0 /\ drained' = 0
    /\ queues_' = [i \in 1..Len(plan[round + 1]) |->
                       IF i = 1 THEN [m \in Memory |-> Block(m, BlockSize)] ELSE <<>>]
    /\ link' = [i \in 1..Len(plan[round + 1]) |-> [at |-> "init", current_ |-> Poison]]
    /\ UNCHANGED <<plan, threads_, memory_, written>>

\* operator>>: one more worker, on a new thread; CompleteLoop and WriteAndRecycle lead the last
\* one back to the first queue.
Add ==
    /\ main = "building" /\ threads_ < Len(workers)
    /\ threads_' = threads_ + 1
    /\ UNCHANGED <<main, round, plan, queues_, link, memory_, produced, written, drained>>

\* Wait joins all threads.
Join ==
    /\ main = "building" /\ threads_ = Len(workers)
    /\ \A i \in Places : link[i].at = "ended"
    /\ threads_' = 0
    /\ main' = "draining"
    /\ UNCHANGED <<round, plan, queues_, link, memory_, produced, written, drained>>

\* Wait takes the blocks out of the first queue, until the poison; then the chain is idle again.
Drain ==
    /\ main = "draining" /\ queues_[1] # <<>>
    /\ \/ /\ IsPoison(Head(queues_[1]))
          /\ main' = "idle" /\ queues_' = <<>> /\ link' = <<>>
          /\ UNCHANGED drained
       \/ /\ ~IsPoison(Head(queues_[1]))
          /\ main' = IF drained = BlockCount THEN "aborted" ELSE main
          /\ drained' = drained + 1
          /\ queues_' = [queues_ EXCEPT ![1] = Tail(@)]
          /\ UNCHANGED link
    /\ UNCHANGED <<round, plan, threads_, memory_, produced, written>>

-----------------------------------------------------------------------------

\* Mutant of Consume: the block stays in the queue.
ConsumeKept(i) ==
    /\ link[i].at \in {"init", "passed"}
    /\ queues_[i] # <<>>
    /\ link' = [link EXCEPT ![i] = [at |-> "working", current_ |-> Head(queues_[i])]]
    /\ UNCHANGED <<main, round, plan, threads_, queues_, memory_, produced, written, drained>>

\* Link's constructor and its operator++ consume a block; the poison is passed on in either case.
Consume(i) ==
    /\ link[i].at \in {"init", "passed"}
    /\ queues_[i] # <<>>
    /\ link' = [link EXCEPT ![i] = [at |-> "working", current_ |-> Head(queues_[i])]]
    /\ queues_' = [queues_ EXCEPT ![i] = Tail(@)]
    /\ UNCHANGED <<main, round, plan, threads_, memory_, produced, written, drained>>

\* out_->Produce(block); the queue has room for all blocks.
Pass(i, block) ==
    /\ link[i].at = "working"
    /\ Len(queues_[Out(i)]) < BlockCount
    /\ queues_' = [queues_ EXCEPT ![Out(i)] = Append(@, block)]
    /\ link' = [link EXCEPT ![i].at = IF IsPoison(block) THEN "ended" ELSE "passed"]
    /\ UNCHANGED <<main, round, plan, threads_, drained>>

\* Worker i of this kind has a block to work on.
Has(i, kind) == workers[i] = kind /\ ~IsPoison(link[i].current_)

\* Mutant of PassPoison: a worker ends without telling the next one.
PassPoisonNot(i) ==
    /\ IsPoison(link[i].current_)
    /\ link[i].at = "working"
    /\ link' = [link EXCEPT ![i].at = "ended"]
    /\ UNCHANGED <<main, round, plan, threads_, queues_, drained, memory_, produced, written>>

PassPoison(i) ==
    /\ IsPoison(link[i].current_)
    /\ Pass(i, Poison)
    /\ UNCHANGED <<memory_, produced, written>>

\* The entries the source puts into a block that takes size of them.
Filled(size) ==
    [k \in 1..(IF Rounds[round] - produced < size THEN Rounds[round] - produced ELSE size) |->
        Entry(produced + k)]

\* Read::Run reads up to the block size of the chain, and poisons the block it finds no entry for.
Read(i) ==
    LET block == link[i].current_
        got == Filled(BlockSize)
    IN
    /\ Has(i, "Read")
    /\ Pass(i, IF got = <<>> THEN Poison ELSE Block(block.mem, Len(got)))
    /\ memory_' = [memory_ EXCEPT ![block.mem] = got]
    /\ produced' = produced + Len(got)
    /\ UNCHANGED written

\* Stream: fills the valid size of each block (it skips blocks without any); when a block is left
\* unfilled, Poison passes it and poisons the one behind it.
Stream(i) ==
    LET block == link[i].current_
        got == Filled(block.size)
    IN
    /\ Has(i, "Stream")
    /\ Pass(i, IF produced > Rounds[round] THEN Poison ELSE Block(block.mem, Len(got)))
    /\ memory_' = [memory_ EXCEPT ![block.mem] = got]
    /\ produced' = IF Len(got) < block.size THEN Rounds[round] + 1 ELSE produced + Len(got)
    /\ UNCHANGED written

\* The entries of a block that CollapseStream keeps, by their places.
KeptPlaces(block) == {k \in 1..block.size : memory_[block.mem][k][2] \notin Dropped}

\* Where the entries of a collapsed block come from: kept ones stay in front, and each place of a
\* deleted one is filled with the last kept one that is left.
Refills(places) ==
    {from \in Bijection(1..Cardinality(places), places) :
        /\ \A k \in DOMAIN from \cap places : from[k] = k
        /\ \A j, k \in DOMAIN from \ places : j < k => from[k] < from[j]}

\* Mutant of Collapse: the block keeps its size.
CollapseSameSize(i) ==
    LET block == link[i].current_ IN
    /\ Has(i, "Collapse")
    /\ Pass(i, block)
    /\ \E from \in Refills(KeptPlaces(block)) :
           memory_' = [memory_ EXCEPT ![block.mem] =
                          [k \in DOMAIN @ |-> IF k \in DOMAIN from THEN @[from[k]] ELSE @[k]]]
    /\ UNCHANGED <<produced, written>>

\* CollapseStream deletes entries, and shortens the block.
Collapse(i) ==
    LET block == link[i].current_ IN
    /\ Has(i, "Collapse")
    /\ Pass(i, Block(block.mem, Cardinality(KeptPlaces(block))))
    /\ \E from \in Refills(KeptPlaces(block)) :
           memory_' = [memory_ EXCEPT ![block.mem] = [k \in DOMAIN from |-> @[from[k]]]]
    /\ UNCHANGED <<produced, written>>

\* Write::Run, and WriteAndRecycle::Run, which also restores the size.
Write(i) ==
    LET block == link[i].current_ IN
    /\ Has(i, "Write") \/ Has(i, "WriteAndRecycle")
    /\ Pass(i, IF workers[i] = "Write" THEN block ELSE Block(block.mem, BlockSize))
    /\ written' = written \o Valid(block)
    /\ UNCHANGED <<memory_, produced>>

\* Recycler::Run restores the size, for the next Stream.
Recycle(i) ==
    /\ Has(i, "Recycler")
    /\ Pass(i, Block(link[i].current_.mem, BlockSize))
    /\ UNCHANGED <<memory_, produced, written>>

Worker(i) ==
    /\ i <= threads_
    /\ Consume(i) \/ PassPoison(i) \/ Read(i) \/ Stream(i) \/ Collapse(i) \/ Write(i) \/ Recycle(i)

Owner == Start \/ Add \/ Join \/ Drain
Next == Owner \/ \E i \in Places : Worker(i)

MaxWorkers == 4
Spec ==
    /\ Init /\ [][Next]_vars
    /\ WF_vars(Owner)
    /\ \A i \in 1..MaxWorkers : WF_vars(i \in Places /\ Worker(i))

-----------------------------------------------------------------------------

Collapses(r) == \E i \in DOMAIN plan[r] : plan[r][i] = "Collapse"

\* What round r is to write: all its entries but those that are deleted on the way.
Wanted(r) == {k \in 1..Rounds[r] : ~(Collapses(r) /\ k \in Dropped)}

\* Entry k of round r is due before entry l: exactly, if nothing is deleted; else they may change
\* places within a block.
DueBefore(r, k, l) == IF Collapses(r) THEN l - k >= BlockSize ELSE k < l

Finished == IF main = "building" THEN round - 1 ELSE round

\* Workers write into blocks while others read theirs, and blocks are used again as soon as they
\* are back at the source: still each entry is written, once, and none overtakes more than the
\* others of its block.
WrittenInOrder ==
    /\ \A n \in DOMAIN written :
           LET r == written[n][1]
               k == written[n][2]
           IN  /\ r \in 1..round /\ k \in Wanted(r)
               /\ \A m \in 1..n - 1 :
                      \/ written[m][1] < r
                      \/ written[m][1] = r /\ written[m][2] # k /\ ~DueBefore(r, k, written[m][2])
               /\ \A j \in Wanted(r) : DueBefore(r, j, k) => \E m \in 1..n - 1 : written[m] = <<r, j>>
    /\ \A r \in 1..Finished : \A k \in Wanted(r) : \E n \in DOMAIN written : written[n] = <<r, k>>

\* The blocks in a queue, and the one a worker has in hand.
InQueue(i) == {queues_[i][k].mem : k \in DOMAIN queues_[i]}
InHand(i) == IF link[i].at = "working" THEN {link[i].current_.mem} ELSE {}
Holders(m) == {h \in {"queue", "link"} \X Places :
                  IF h[1] = "queue" THEN m \in InQueue(h[2]) ELSE m \in InHand(h[2])}

\* No two workers ever share a block, the source poisons at most one, and there is one poison
\* behind all blocks: what lies behind it in its queue nobody would take.
BlocksKeptApart ==
    main = "building" =>
        /\ \A m \in Memory \cup {NULL} : Cardinality(Holders(m)) <= 1
        /\ \A i \in Places : \A k \in DOMAIN queues_[i] :
               IsPoison(queues_[i][k]) => k = Len(queues_[i])
        /\ Cardinality({m \in Memory : Holders(m) = {}}) = Cardinality(Holders(NULL))

\* Every use of the chain comes to its end, by poison and not by abort().
ChainEnds == <>(main = "idle" /\ round = Len(Rounds))
=============================================================================
