------------------------------- MODULE PCQueue -------------------------------
(***************************************************************************)
(* util::PCQueue (util/pcqueue.hh): a ring of Size slots, two semaphores   *)
(* that count its empty and its used slots, and a mutex for each of its    *)
(* ends.  A step is what one thread does between two operations on a       *)
(* semaphore or a mutex; copying a value takes two, as it is not atomic,   *)
(* and may throw.  A mutex is held by the thread that copies.              *)
(***************************************************************************)
EXTENDS Integers, Sequences, FiniteSets

CONSTANTS Producers, Consumers, Size,
          Items,        \* Items[p]: the values that producer p produces, in order
          Torn,         \* what a slot holds while it is written
          MaxThrows     \* bound: how many copies throw

ASSUME ThreadAssumption ==
    /\ IsFiniteSet(Producers) /\ IsFiniteSet(Consumers)
    /\ Producers \cap Consumers = {}
    /\ DOMAIN Items = Producers
    /\ \A p \in Producers : Len(Items[p]) \in Nat
ASSUME SizeAssumption == Size \in Nat \ {0}
ASSUME MaxThrowsAssumption == MaxThrows \in Nat

VARIABLES empty_, used_,           \* the semaphores
          storage_,                \* the slots
          produce_at_, consume_at_,
          at,                      \* at[t]: where thread t is
          calls,                   \* calls[p]: how many calls of Produce are over
          got,                     \* got[c]: the values that consumer c has consumed
          throws                   \* copies that have thrown

vars == <<empty_, used_, storage_, produce_at_, consume_at_, at, calls, got, throws>>

Threads == Producers \cup Consumers
Slots == 0..Size - 1

Move(t, from, to) == at[t] = from /\ at' = [at EXCEPT ![t] = to]

\* The next slot of the ring: ++at == end_ wraps around.
Following(slot) == IF slot + 1 = Size THEN 0 ELSE slot + 1

-----------------------------------------------------------------------------

Init ==
    /\ empty_ = Size /\ used_ = 0
    /\ storage_ = [s \in Slots |-> Torn]
    /\ produce_at_ = 0 /\ consume_at_ = 0
    /\ at = [t \in Threads |-> "outside"]
    /\ calls = [p \in Producers |-> 0]
    /\ got = [c \in Consumers |-> <<>>]
    /\ throws = 0

\* Mutant of ClaimEmpty: the semaphore is taken without waiting.
ClaimEmptyUnchecked(p) ==
    /\ calls[p] < Len(Items[p])
    /\ Move(p, "outside", "claimed")
    /\ empty_' = empty_ - 1
    /\ UNCHANGED <<used_, storage_, produce_at_, consume_at_, calls, got, throws>>

\* Produce: WaitSemaphore(empty_).
ClaimEmpty(p) ==
    /\ calls[p] < Len(Items[p])
    /\ Move(p, "outside", "claimed")
    /\ empty_ > 0 /\ empty_' = empty_ - 1
    /\ UNCHANGED <<used_, storage_, produce_at_, consume_at_, calls, got, throws>>

\* Produce: lock the mutex and start to copy into the slot.
BeginWrite(p) ==
    /\ \A other \in Producers : at[other] # "writing"
    /\ Move(p, "claimed", "writing")
    /\ storage_' = [storage_ EXCEPT ![produce_at_] = Torn]
    /\ UNCHANGED <<empty_, used_, produce_at_, consume_at_, calls, got, throws>>

\* Produce: the copy is done; advance and unlock.
EndWrite(p) ==
    /\ Move(p, "writing", "written")
    /\ storage_' = [storage_ EXCEPT ![produce_at_] = Items[p][calls[p] + 1]]
    /\ produce_at_' = Following(produce_at_)
    /\ calls' = [calls EXCEPT ![p] = @ + 1]
    /\ UNCHANGED <<empty_, used_, consume_at_, got, throws>>

\* Produce: the copy throws; give the slot back and unlock.
WriteThrows(p) ==
    /\ throws < MaxThrows /\ throws' = throws + 1
    /\ Move(p, "writing", "outside")
    /\ empty_' = empty_ + 1
    /\ calls' = [calls EXCEPT ![p] = @ + 1]
    /\ UNCHANGED <<used_, storage_, produce_at_, consume_at_, got>>

\* Produce: used_.post(), behind the critical section.
PostUsed(p) ==
    /\ Move(p, "written", "outside")
    /\ used_' = used_ + 1
    /\ UNCHANGED <<empty_, storage_, produce_at_, consume_at_, calls, got, throws>>

Produce(p) == ClaimEmpty(p) \/ BeginWrite(p) \/ EndWrite(p) \/ WriteThrows(p) \/ PostUsed(p)

\* Consume: WaitSemaphore(used_).
ClaimUsed(c) ==
    /\ Move(c, "outside", "claimed")
    /\ used_ > 0 /\ used_' = used_ - 1
    /\ UNCHANGED <<empty_, storage_, produce_at_, consume_at_, calls, got, throws>>

\* Consume: lock the mutex and start to copy out of the slot.
BeginRead(c) ==
    /\ \A other \in Consumers : at[other] # "reading"
    /\ Move(c, "claimed", "reading")
    /\ UNCHANGED <<empty_, used_, storage_, produce_at_, consume_at_, calls, got, throws>>

\* Consume: the copy is done; advance and unlock.
EndRead(c) ==
    /\ Move(c, "reading", "read")
    /\ got' = [got EXCEPT ![c] = Append(@, storage_[consume_at_])]
    /\ consume_at_' = Following(consume_at_)
    /\ UNCHANGED <<empty_, used_, storage_, produce_at_, calls, throws>>

\* Mutant of ReadThrows: the value is not announced again.
ReadThrowsSilently(c) ==
    /\ throws < MaxThrows /\ throws' = throws + 1
    /\ Move(c, "reading", "outside")
    /\ UNCHANGED <<empty_, used_, storage_, produce_at_, consume_at_, calls, got>>

\* Consume: the copy throws; leave the value to another call and unlock.
ReadThrows(c) ==
    /\ throws < MaxThrows /\ throws' = throws + 1
    /\ Move(c, "reading", "outside")
    /\ used_' = used_ + 1
    /\ UNCHANGED <<empty_, storage_, produce_at_, consume_at_, calls, got>>

\* Consume: empty_.post(), behind the critical section.
PostEmpty(c) ==
    /\ Move(c, "read", "outside")
    /\ empty_' = empty_ + 1
    /\ UNCHANGED <<used_, storage_, produce_at_, consume_at_, calls, got, throws>>

Consume(c) == ClaimUsed(c) \/ BeginRead(c) \/ EndRead(c) \/ ReadThrows(c) \/ PostEmpty(c)

Next == (\E p \in Producers : Produce(p)) \/ (\E c \in Consumers : Consume(c))

Spec ==
    /\ Init /\ [][Next]_vars
    /\ \A p \in Producers : WF_vars(Produce(p))
    /\ \A c \in Consumers : WF_vars(Consume(c))

-----------------------------------------------------------------------------

TypeOK ==
    /\ empty_ \in Nat /\ used_ \in Nat /\ throws \in 0..MaxThrows
    /\ produce_at_ \in Slots /\ consume_at_ \in Slots
    /\ DOMAIN storage_ = Slots
    /\ DOMAIN got = Consumers
    /\ calls \in [Producers -> Nat]
    /\ DOMAIN at = Threads
    /\ \A p \in Producers : at[p] \in {"outside", "claimed", "writing", "written"}
    /\ \A c \in Consumers : at[c] \in {"outside", "claimed", "reading", "read"}

\* The threads that stand between their two semaphores, before and behind the advance.
Filling  == {p \in Producers : at[p] \in {"claimed", "writing"}}
Filled   == {p \in Producers : at[p] = "written"}
Emptying == {c \in Consumers : at[c] \in {"claimed", "reading"}}
Emptied  == {c \in Consumers : at[c] = "read"}

\* How many slots hold a value: all that nobody counts as empty.
Occupied == Size - empty_ - Cardinality(Filling) - Cardinality(Emptied)

\* The slot that is n places behind consume_at_.
SlotBehind(n) == IF consume_at_ + n < Size THEN consume_at_ + n ELSE consume_at_ + n - Size

\* The values between the two ends of the ring, oldest first.
Contents == [i \in 1..Occupied |-> storage_[SlotBehind(i - 1)]]

\* The semaphores count every occupied slot once: it can be claimed, is claimed, or is about to
\* be announced; and the two ends of the ring are as far apart as there are occupied slots.
\* Throwing copies and the posts behind the critical sections must keep this account.
SlotsAccounted ==
    /\ Occupied \in 0..Size
    /\ Occupied = used_ + Cardinality(Emptying) + Cardinality(Filled)
    /\ produce_at_ = SlotBehind(Occupied)

\* Producers and consumers hold different mutexes, and the ends of the ring meet when it is full
\* or empty: still no slot is read while it is written.
NoSlotReadWhileWritten ==
    \A p \in Producers, c \in Consumers :
        at[p] = "writing" /\ at[c] = "reading" => produce_at_ # consume_at_

FIFO == INSTANCE BoundedFIFO WITH queue <- Contents

\* With any interleaving and any throwing copies the ring is a bounded FIFO queue in which every
\* call takes effect at once, and calls get through as long as there is room or a value.
ImplementsFIFO == FIFO!Spec
=============================================================================
