------------------------------ MODULE MCPCQueue ------------------------------
(* Two producers of two values each, two consumers, a ring of two slots. *)
EXTENDS PCQueue

MCItems == [p \in Producers |-> [i \in 1..2 |-> <<p, i>>]]
=============================================================================
