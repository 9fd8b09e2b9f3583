------------------------------ MODULE ChartCell ------------------------------
(***************************************************************************)
(* A cell of the chart is filled by cube pruning (ChartCell, RuleCube and  *)
(* RuleCubeQueue): every rule spans a cube of its target phrases and the   *)
(* hypotheses for each of its non-terminals, all best first, explored from *)
(* the best corner.  What is popped goes to the collection of its          *)
(* left-hand side (ChartHypothesisCollection).                             *)
(*                                                                         *)
(* A hypothesis is known by its number, and is a record                    *)
(*   target  m_targetPhrase                                                *)
(*   prev    m_prevHypos: the hypotheses of its non-terminals              *)
(*   text    GetOutputPhrase                                               *)
(*   total   m_totalScore, with a language model on the text               *)
(*   arcs    m_arcList                                                     *)
(***************************************************************************)
EXTENDS ChartRules

VARIABLES
  collections,  \* m_hypoColl: the hypotheses of each range and label, and m_bestScore
  queue,        \* the items of all cubes: the option, the position in its cube, the hypothesis
  covered,      \* m_covered: the items that were ever created
  numPops

cellVars == <<input, hypos, sorted, dotted, list, collections, queue, covered, numPops>>

NULL == 0

ASSUME CellAssumption ==
  \A i \in Inputs :
    /\ i.popLimit \in Nat \ {0} /\ i.maxHypoStackSize \in Nat \ {0} /\ i.nBestSize \in Nat
    /\ i.beamWidth \in Int /\ i.beamWidth < 0 /\ i.lazy \in BOOLEAN /\ i.distinct \in BOOLEAN

-----------------------------------------------------------------------------
\* GetNonTermIndexMap: the symbols for the first and the second non-terminal in a target phrase.
ChildIndex == ("[1]" :> 1) @@ ("[2]" :> 2)

\* GetOutputPhrase: a target phrase with the texts of its non-terminals filled in.
OutputPhrase(target, texts) ==
  FlattenSeq([i \in DOMAIN target.words |->
    IF target.words[i] \in DOMAIN ChildIndex THEN texts[ChildIndex[target.words[i]]]
    ELSE <<target.words[i]>>])

\* The language model over the words of a text.
LM(text) == Total([i \in 1 .. Len(text) - 1 |-> input.lm[text[i], text[i + 1]]])

\* ChartHypothesis and its CalcScore: the scores of the previous hypotheses, that of the target
\* phrase, and what the language model adds for the words that meet.
ChartHypothesis(target, prev) ==
  LET texts == [k \in DOMAIN prev |-> hypos[prev[k]].text]
      text  == OutputPhrase(target, texts)
  IN  [target |-> target, prev |-> prev, text |-> text, arcs |-> <<>>,
       total |-> Total([k \in DOMAIN prev |-> hypos[prev[k]].total]) + target.score
                   + LM(text) - Total([k \in DOMAIN prev |-> LM(texts[k])])]

\* Mutant of SameState: only the end of the text counts, as in phrase-based decoding.
SameEnd(a, b) == Last(a.text) = Last(b.text)

\* RecombineCompare: the state of the language model, the words at both ends.
SameState(a, b) == Head(a.text) = Head(b.text) /\ Last(a.text) = Last(b.text)

-----------------------------------------------------------------------------
(***************************************************************************)
(* A collection coll is [hypos, best]; all are the hypotheses.             *)
(***************************************************************************)
EmptyCollection == [hypos |-> {}, best |-> NegInfinity]

SortedBy(all, H) == InOrder(H, LAMBDA a, b : all[a].total > all[b].total)

\* Mutant of PruneToSize: the last of those to be kept goes.
PruneToSizeBelow(all, coll) ==
  LET heap == SortedBy(all, {h \in coll.hypos : all[h].total > coll.best + input.beamWidth})
      size == IF input.maxHypoStackSize > Len(heap) THEN Len(heap) ELSE input.maxHypoStackSize
      left == {h \in coll.hypos : all[h].total > all[heap[size]].total}
  IN  IF Cardinality(coll.hypos) <= input.maxHypoStackSize THEN coll
      ELSE [coll EXCEPT !.hypos = left]

\* The best maxHypoStackSize within the beam stay, with all that tie with the last of them; but
\* "desperation pruning" leaves no more than twice as many.
PruneToSize(all, coll) ==
  LET heap == SortedBy(all, {h \in coll.hypos : all[h].total > coll.best + input.beamWidth})
      size == IF input.maxHypoStackSize > Len(heap) THEN Len(heap) ELSE input.maxHypoStackSize
      left == {h \in coll.hypos : all[h].total >= all[heap[size]].total}
  IN  IF Cardinality(coll.hypos) <= input.maxHypoStackSize THEN coll
      ELSE [coll EXCEPT !.hypos =
              IF Cardinality(left) > 2 * input.maxHypoStackSize
              THEN ToSet(SubSeq(SortedBy(all, left), 1, 2 * input.maxHypoStackSize)) ELSE left]

\* Add, of a hypothesis whose state is new to the collection.
AddToCollection(all, coll, h) ==
  LET added == [hypos |-> coll.hypos \cup {h},
                best |-> IF all[h].total > coll.best THEN all[h].total ELSE coll.best]
  IN  IF Cardinality(added.hypos) > 2 * input.maxHypoStackSize - 1
      THEN PruneToSize(all, added) ELSE added

\* AddArc, if n-best lists are made; else the loser is deleted.
AddArc(all, winner, loser) ==
  IF input.nBestSize = 0 THEN all
  ELSE [all EXCEPT ![winner].arcs = @ \o all[loser].arcs \o <<loser>>, ![loser].arcs = <<>>]

\* AddHypothesis: the hypotheses and the collection after it.
AddHypothesis(all, coll, h) ==
  LET existing == {x \in coll.hypos : SameState(all[x], all[h])}
      x == CHOOSE e \in existing : TRUE
      After(newAll, newColl) == [hypos |-> newAll, coll |-> newColl]
  IN  IF all[h].total < coll.best + input.beamWidth THEN After(all, coll)
      ELSE IF existing = {} THEN After(all, AddToCollection(all, coll, h))
      ELSE IF all[h].total > all[x].total
           THEN LET arcs == AddArc(all, h, x)
                IN  After(arcs, AddToCollection(arcs, [coll EXCEPT !.hypos = @ \ {x}], h))
           ELSE After(AddArc(all, x, h), coll)

\* More arcs than the n-best list can use go, unless its texts are to be distinct.
CleanupArcList(all, H) ==
  [h \in DOMAIN all |->
     IF h \in H /\ ~input.distinct /\ input.nBestSize > 0 /\ Len(all[h].arcs) > input.nBestSize
     THEN [all[h] EXCEPT !.arcs =
             SubSeq(SortSeq(@, LAMBDA a, b : all[a].total > all[b].total), 1, input.nBestSize)]
     ELSE all[h]]

-----------------------------------------------------------------------------
(***************************************************************************)
(* The cubes.  A position has the place of the target phrase first, then   *)
(* that of the hypothesis for each non-terminal.                           *)
(***************************************************************************)
HypothesesFor(child) == sorted[child.range][child.label]

\* How long a cube is in each dimension.
Dimensions(option) ==
  <<Len(option.targets)>> \o [k \in DOMAIN option.stack |-> Len(HypothesesFor(option.stack[k]))]

Corner(option) == [d \in DOMAIN Dimensions(option) |-> 1]

TargetAt(option, pos) == option.targets[pos[1]]

PrevAt(option, pos) ==
  [k \in DOMAIN option.stack |-> HypothesesFor(option.stack[k])[pos[k + 1]]]

HypothesisAt(cell) ==
  LET option == list.options[cell.rule]
  IN  ChartHypothesis(TargetAt(option, cell.pos), PrevAt(option, cell.pos))

\* EstimateScore: without what only the whole hypothesis tells.
EstimateScore(cell) ==
  LET option == list.options[cell.rule]
      prev   == PrevAt(option, cell.pos)
  IN  TargetAt(option, cell.pos).score + Total([k \in DOMAIN prev |-> hypos[prev[k]].total])

\* New items, with their hypotheses unless these are made when popped (cube-pruning-lazy-scoring).
Enqueue(all, items, cells) ==
  IF input.lazy
  THEN [hypos |-> all,
        queue |-> items \cup {[cell |-> c, hypo |-> NULL, score |-> EstimateScore(c)] : c \in ToSet(cells)}]
  ELSE [hypos |-> all \o [i \in DOMAIN cells |-> HypothesisAt(cells[i])],
        queue |-> items \cup {[cell |-> cells[i], hypo |-> Len(all) + i,
                               score |-> HypothesisAt(cells[i]).total] : i \in DOMAIN cells}]

\* Mutant of CreateNeighbors: the last dimension is left out.
CreateNeighborsButLast(cell) ==
  LET size == Dimensions(list.options[cell.rule])
      dims == SelectSeq([d \in DOMAIN size |-> d],
                        LAMBDA d : /\ cell.pos[d] < size[d] /\ (d = 1 \/ d < Len(size))
                                   /\ [cell EXCEPT !.pos[d] = @ + 1] \notin covered)
  IN  [i \in DOMAIN dims |-> [cell EXCEPT !.pos[dims[i]] = @ + 1]]

\* The next one in each dimension, unless it was created from another side.
CreateNeighbors(cell) ==
  LET size == Dimensions(list.options[cell.rule])
      dims == SelectSeq([d \in DOMAIN size |-> d],
                        LAMBDA d : /\ cell.pos[d] < size[d]
                                   /\ [cell EXCEPT !.pos[d] = @ + 1] \notin covered)
  IN  [i \in DOMAIN dims |-> [cell EXCEPT !.pos[dims[i]] = @ + 1]]

\* The items at the top of their cubes, and these at the top of the queue.
Tops == {item \in queue : \A other \in queue : item.score >= other.score}

\* RuleCubeQueue::Pop: the neighbours enter the cube, and the hypothesis is made if it is not yet.
PopItem(item) ==
  LET next == Enqueue(hypos, queue \ {item}, CreateNeighbors(item.cell))
  IN  IF input.lazy
      THEN [next EXCEPT !.hypos = Append(@, HypothesisAt(item.cell))] @@ [popped |-> Len(hypos) + 1]
      ELSE next @@ [popped |-> item.hypo]
=============================================================================
