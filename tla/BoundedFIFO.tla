----------------------------- MODULE BoundedFIFO -----------------------------
(***************************************************************************)
(* What util::PCQueue promises to the threads that share it: a queue of at *)
(* most Size values, in which Produce and Consume take effect at once.  A  *)
(* Produce whose copy throws has no effect but that the call is over.      *)
(***************************************************************************)
EXTENDS Naturals, Sequences

CONSTANTS Producers, Consumers, Size,
          Items         \* Items[p]: the values that producer p produces, in order

VARIABLES queue,        \* the values in the queue, oldest first
          calls,        \* calls[p]: how many calls of Produce are over
          got           \* got[c]: the values that consumer c has consumed

vars == <<queue, calls, got>>

Init ==
    /\ queue = <<>>
    /\ calls = [p \in Producers |-> 0]
    /\ got = [c \in Consumers |-> <<>>]

Returns(p) ==
    /\ calls[p] < Len(Items[p])
    /\ calls' = [calls EXCEPT ![p] = @ + 1]
    /\ UNCHANGED got

Produce(p) ==
    /\ Len(queue) < Size
    /\ Returns(p)
    /\ queue' = Append(queue, Items[p][calls[p] + 1])

Throw(p) == Returns(p) /\ UNCHANGED queue

Consume(c) ==
    /\ queue # <<>>
    /\ queue' = Tail(queue)
    /\ got' = [got EXCEPT ![c] = Append(@, Head(queue))]
    /\ UNCHANGED calls

Next ==
    \/ \E p \in Producers : Produce(p) \/ Throw(p)
    \/ \E c \in Consumers : Consume(c)

\* Somebody makes progress, as long as there is room or a value; which thread is left open.
Spec ==
    /\ Init /\ [][Next]_vars
    /\ WF_vars(\E p \in Producers : Produce(p) \/ Throw(p))
    /\ WF_vars(\E c \in Consumers : Consume(c))
=============================================================================
