------------------------------- MODULE Ordering -------------------------------
(***************************************************************************)
(* Sequences that are kept best first: the sorted vectors and the          *)
(* multisets of the decoders.                                              *)
(***************************************************************************)
EXTENDS Integers, FiniteSets, SequencesExt

\* -infinity: less than any sum of scores.
NegInfinity == -100000

\* A sequence, best first, with one more element, behind all that are not worse.
Insert(list, x, Better(_, _)) ==
  InsertAt(list, Cardinality({i \in DOMAIN list : ~Better(x, list[i])}) + 1, x)

\* The elements of a set, best first.
InOrder(S, Better(_, _)) == FoldSet(LAMBDA x, list : Insert(list, x, Better), <<>>, S)

\* The elements of a set, in any order.
Listed(S) == FoldSet(LAMBDA x, list : Append(list, x), <<>>, S)
=============================================================================
