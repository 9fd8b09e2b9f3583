-------------------------- MODULE MCFilterController --------------------------
(* Three threads, hence six batches, of two lines each. *)
EXTENDS FilterController

Raw(n) == [i \in 1..n |-> "ngram"]
Arpa(lengths) == FlattenSeq([s \in DOMAIN lengths |-> Append(Raw(lengths[s]), "end")])

\* Sections that end within a batch, one of them longer than all batches together; a raw file
\* that ends with a batch.
MCInputs == {Arpa(<<1, 17>>), Arpa(<<3, 5, 1>>), Raw(16)}
\* A section that ends with a batch.
MCInputsAtBoundary == {Arpa(<<2, 1>>)}
MCPasses == {i \in 1..20 : i % 4 # 2}
=============================================================================
