----------------------------- MODULE CubePruning -----------------------------
(***************************************************************************)
(* Manager::ProcessSentence with cube pruning: the translation options are *)
(* collected, and SearchCubePruning goes through the stacks.  A stack has  *)
(* a BitmapContainer for each coverage; its BackwardsEdges are grids of    *)
(* the hypotheses of an earlier coverage, best first, and the options of a *)
(* span, best first, explored from their best corner by a priority queue.  *)
(*                                                                         *)
(* A hypothesis is known by its number, in the order of their creation.    *)
(***************************************************************************)
EXTENDS TranslationOptions

CONSTANTS
  Sentences,   \* the sentences, as in TranslationOptions, with their completed prefix and their
               \* constraint, a language model lm and settings
  NBestSize,   \* GetNBestSize
  TimeOut      \* whether -time-out is set

ASSUME CubeAssumption == NBestSize \in Nat \ {0} /\ TimeOut \in BOOLEAN
ASSUME SettingsAssumption ==
  \A s \in Sentences :
    /\ s.popLimit \in Nat \ {0} /\ s.diversity \in Nat /\ s.maxHypoStackSize \in Nat \ {0}
    /\ s.beamWidth \in Int /\ s.beamWidth < 0 /\ s.distinct \in BOOLEAN

VARIABLES
  sentence,    \* the sentence being translated
  lists,       \* m_collection: the options of each span
  matrix,      \* m_futureScore
  hypos,       \* the hypotheses: coverage, last span, words, previous one, total score, arcs
  stacks,      \* the hypotheses in each stack
  bestScore, worstScore,   \* of the stack that is being filled
  stackNo, phase,
  queue,       \* the items of all containers of the stack: a grid, a cell of it, its hypothesis
  seen,        \* m_seenPosition: the cells that have been created
  pops,        \* numpops
  insertions   \* m_numStackInsertions of each container

searchVars == <<sentence, lists, matrix, hypos, stacks, bestScore, worstScore, stackNo, phase,
                queue, seen, pops, insertions>>

NULL == 0
Seed == 1
BeginOfSentence == "<s>"

\* The score without its future part.
GetScore(h) == hypos[h].total - CalcFutureScore(matrix, hypos[h].cov)

-----------------------------------------------------------------------------
(***************************************************************************)
(* The stack (HypothesisStackCubePruning): st is [hypos, best, worst] with *)
(* the arcs of each hypothesis in the sequence all.                        *)
(***************************************************************************)
Stack(all, H, best, worst) == [all |-> all, hypos |-> H, best |-> best, worst |-> worst]

\* Mutant of PruneToSize: the last of the newSize best goes.
PruneToSizeBelow(st, newSize) ==
  LET heap == {h \in st.hypos : st.all[h].total > st.best + sentence.beamWidth}
      sorted == InOrder(heap, LAMBDA a, b : st.all[a].total > st.all[b].total)
      threshold == st.all[sorted[IF newSize < Len(sorted) THEN newSize ELSE Len(sorted)]].total
  IN  IF Cardinality(st.hypos) <= newSize THEN st
      ELSE [st EXCEPT !.hypos = {h \in @ : st.all[h].total > threshold}, !.worst = threshold]

\* The newSize best within the beam stay, and all that tie with the last of them.
PruneToSize(st, newSize) ==
  LET heap == {h \in st.hypos : st.all[h].total > st.best + sentence.beamWidth}
      sorted == InOrder(heap, LAMBDA a, b : st.all[a].total > st.all[b].total)
      threshold == st.all[sorted[IF newSize < Len(sorted) THEN newSize ELSE Len(sorted)]].total
  IN  IF Cardinality(st.hypos) <= newSize THEN st
      ELSE [st EXCEPT !.hypos = {h \in @ : st.all[h].total >= threshold}, !.worst = threshold]

\* Add, of a hypothesis that nothing in the stack is equivalent to.
Add(st, h) ==
  LET total == st.all[h].total
      added == [st EXCEPT
                  !.hypos = @ \cup {h},
                  !.best = IF total > @ THEN total ELSE @,
                  !.worst = IF total > st.best /\ total + sentence.beamWidth > @
                            THEN total + sentence.beamWidth ELSE @]
  IN  IF Cardinality(added.hypos) > 2 * sentence.maxHypoStackSize - 1
      THEN PruneToSize(added, sentence.maxHypoStackSize) ELSE added

\* RecombineCompare: coverage, and the states of distortion and language model.
Equivalent(a, b) == a.cov = b.cov /\ a.last[2] = b.last[2] /\ a.word = b.word

AddArc(all, winner, loser) ==
  [all EXCEPT ![winner].arcs = @ \o all[loser].arcs \o <<loser>>, ![loser].arcs = <<>>]

\* Mutant of AddPrune: a worse hypothesis than its equivalent one is forgotten.
AddPruneForgetting(st, h) ==
  LET existing == {x \in st.hypos : Equivalent(st.all[x], st.all[h])} IN
  IF st.all[h].total < st.worst THEN st
  ELSE IF existing = {} THEN Add(st, h)
  ELSE LET x == CHOOSE e \in existing : TRUE IN
       IF st.all[h].total > st.all[x].total
       THEN Add([st EXCEPT !.hypos = @ \ {x}, !.all = AddArc(@, h, x)], h)
       ELSE st

AddPrune(st, h) ==
  LET existing == {x \in st.hypos : Equivalent(st.all[x], st.all[h])} IN
  IF st.all[h].total < st.worst THEN st
  ELSE IF existing = {} THEN Add(st, h)
  ELSE LET x == CHOOSE e \in existing : TRUE IN
       IF st.all[h].total > st.all[x].total
       THEN Add([st EXCEPT !.hypos = @ \ {x}, !.all = AddArc(@, h, x)], h)
       ELSE [st EXCEPT !.all = AddArc(@, x, h)]

\* More than five times NBestSize arcs are cut down to the best NBestSize, unless the n-best list
\* is to be of distinct translations.
CleanupArcList(all, H) ==
  [h \in DOMAIN all |->
     IF h \in H /\ ~sentence.distinct /\ Len(all[h].arcs) > 5 * NBestSize
     THEN [all[h] EXCEPT !.arcs =
             SubSeq(SortSeq(@, LAMBDA a, b : all[a].total > all[b].total), 1, NBestSize)]
     ELSE all[h]]

-----------------------------------------------------------------------------
(***************************************************************************)
(* Grids.  An edge leads from the coverage prev over a span to the         *)
(* container of the two together.                                          *)
(***************************************************************************)
Container(edge) == SetValue(edge.prev, edge.span[1], edge.span[2])

\* SearchCubePruning::CheckDistortion, of a coverage and a span.
CheckDistortion(bitmap, span) ==
  /\ Check(sentence.constraint, Size, bitmap, span[1], span[2], MaxDistortion)
  /\ \/ MaxDistortion < 0
     \/ span[1] = GetFirstGapPos(Size, bitmap)
     \/ ComputeDistortionDistance(span, GetFirstGapPos(Size, bitmap)) <= MaxDistortion

\* The hypotheses of a coverage.
HyposOf(bitmap) ==
  {h \in stacks[IF bitmap = hypos[Seed].cov THEN 0 ELSE Cardinality(bitmap)] : hypos[h].cov = bitmap}

\* CreateForwardTodos, of all stacks before this one: the edges into it.
Edges ==
  LET bitmaps == {hypos[h].cov : h \in UNION {stacks[k] : k \in 0 .. stackNo - 1}} IN
  {edge \in [prev : bitmaps, span : PhraseSpans] :
     /\ ~Overlap(edge.prev, edge.span[1], edge.span[2])
     /\ Cardinality(Container(edge)) = stackNo
     /\ CheckDistortion(edge.prev, edge.span)
     /\ lists[edge.span] # <<>>}

Distance(h, span) == ComputeDistortionDistance(hypos[h].last, span[1])

\* Mutant of EdgeHypotheses: the distance to the span is not part of the order.
EdgeHypothesesNoDistortion(edge) ==
  InOrder({h \in HyposOf(edge.prev) :
                  MaxDistortion = -1 \/ Distance(h, edge.span) <= MaxDistortion},
               LAMBDA a, b : GetScore(a) > GetScore(b) \/ (GetScore(a) = GetScore(b) /\ a < b))

\* BackwardsEdge's constructor: the hypotheses from which the span may be reached, in the order of
\* their scores with the distance to it; in that of their total scores without a limit.
EdgeHypotheses(edge) ==
  LET Score(h) == GetScore(h) - (IF MaxDistortion = -1 THEN 0 ELSE Distance(h, edge.span)) IN
  InOrder({h \in HyposOf(edge.prev) :
                  MaxDistortion = -1 \/ Distance(h, edge.span) <= MaxDistortion},
               LAMBDA a, b : Score(a) > Score(b) \/ (Score(a) = Score(b) /\ a < b))

Cell(edge, x, y) == [edge |-> edge, x |-> x, y |-> y]

\* CreateNext and CalcScore, for a cell.
CellHypothesis(cell) ==
  LET prev   == EdgeHypotheses(cell.edge)[cell.x]
      option == lists[cell.edge.span][cell.y]
      cov    == Container(cell.edge)
  IN  [cov |-> cov, last |-> cell.edge.span, word |-> option.word, prev |-> prev,
       total |-> GetScore(prev) + option.score + sentence.lm[hypos[prev].word, option.word]
                   - Distance(prev, cell.edge.span) + CalcFutureScore(matrix, cov),
       arcs |-> <<>>]

\* The cells are created in this order, each with its item in the queue.
Enqueued(all, items, cells) ==
  [all   |-> all \o [i \in DOMAIN cells |-> CellHypothesis(cells[i])],
   queue |-> items \cup {[cell |-> cells[i], hypo |-> Len(all) + i] : i \in DOMAIN cells}]

\* PushSuccessors: the neighbours of a cell that have not been seen.
Successors(cell) ==
  SelectSeq(<<[cell EXCEPT !.y = @ + 1], [cell EXCEPT !.x = @ + 1]>>,
            LAMBDA next : /\ next.y <= Len(lists[next.edge.span])
                          /\ next.x <= Len(EdgeHypotheses(next.edge))
                          /\ next \notin seen)

-----------------------------------------------------------------------------
Init ==
  /\ sentence \in Sentences
  /\ lists = <<>> /\ matrix = <<>> /\ hypos = <<>>
  /\ stacks = [k \in 0 .. Size |-> {}]
  /\ bestScore = NegInfinity /\ worstScore = NegInfinity
  /\ stackNo = 0 /\ phase = "collect"
  /\ queue = {} /\ seen = {} /\ pops = 0 /\ insertions = <<>>

\* CreateTranslationOptions.
CreateTranslationOptions ==
  /\ phase = "collect"
  /\ lists' = TranslationOptionLists(sentence)
  /\ matrix' = FutureScoreMatrix(lists')
  /\ phase' = "seed"
  /\ UNCHANGED <<sentence, hypos, stacks, bestScore, worstScore, stackNo, queue, seen, pops,
                 insertions>>

\* The seed, in the first stack.
AddInitial ==
  /\ phase = "seed"
  /\ LET seed == InitialHypothesis(sentence.completed) IN
     hypos' = <<[cov |-> seed.cov, last |-> seed.last, word |-> BeginOfSentence, prev |-> NULL,
                 total |-> CalcFutureScore(matrix, seed.cov), arcs |-> <<>>]>>
  /\ stacks' = [stacks EXCEPT ![0] = {Seed}]
  /\ stackNo' = 1 /\ phase' = "next"
  /\ UNCHANGED <<sentence, lists, matrix, bestScore, worstScore, queue, seen, pops, insertions>>

\* "check if decoding ran out of time".
OutOfTime ==
  /\ phase = "next" /\ TimeOut
  /\ phase' = "done"
  /\ UNCHANGED <<sentence, lists, matrix, hypos, stacks, bestScore, worstScore, stackNo, queue,
                 seen, pops, insertions>>

\* InitializeEdges, of all containers: the best corner of each grid.
InitializeEdges ==
  /\ phase = "next"
  /\ LET cells == InOrder({Cell(edge, 1, 1) :
                             edge \in {e \in Edges : EdgeHypotheses(e) # <<>>}},
                            LAMBDA a, b : FALSE)
         after == Enqueued(hypos, {}, cells)
     IN  /\ hypos' = after.all /\ queue' = after.queue
         /\ seen' = ToSet(cells)
  /\ insertions' = [bitmap \in {Container(e) : e \in Edges} |-> 0]
  /\ bestScore' = NegInfinity /\ worstScore' = NegInfinity
  /\ pops' = 0 /\ phase' = "pop"
  /\ UNCHANGED <<sentence, lists, matrix, stacks, stackNo>>

\* The items at the top of a priority queue; any of those with the same score.
Tops(items) == {item \in items : \A other \in items :
                                   hypos[item.hypo].total >= hypos[other.hypo].total}

\* ProcessBestHypothesis: one item leaves its queue for the stack, and its neighbours enter.
ProcessBestHypothesis(item) ==
  LET before == Stack(hypos, stacks[stackNo], bestScore, worstScore)
      after  == AddPrune(before, item.hypo)
      next   == Successors(item.cell)
      enqueued == Enqueued(after.all, queue \ {item}, next)
      \* AddPrune returns true for a hypothesis that is discarded by no threshold and met no
      \* equivalent one, even if Add has pruned it.
      added  == /\ hypos[item.hypo].total >= worstScore
                /\ \A x \in stacks[stackNo] : ~Equivalent(hypos[x], hypos[item.hypo])
  IN  /\ hypos' = enqueued.all /\ queue' = enqueued.queue
      /\ seen' = seen \cup ToSet(next)
      /\ stacks' = [stacks EXCEPT ![stackNo] = after.hypos]
      /\ bestScore' = after.best /\ worstScore' = after.worst
      /\ insertions' = [insertions EXCEPT ![Container(item.cell.edge)] = IF added THEN @ + 1 ELSE @]
      /\ UNCHANGED <<sentence, lists, matrix, stackNo>>

\* "main search loop, pop k best hyps": the best container is the one with the best top.
Pop ==
  /\ phase = "pop" /\ pops < sentence.popLimit
  /\ \E item \in Tops(queue) : ProcessBestHypothesis(item)
  /\ pops' = pops + 1
  /\ UNCHANGED phase

\* The order of the bitmap accessor.
Before(a, b) ==
  \E pos \in b \ a : \A other \in 0 .. pos - 1 : other \in a <=> other \in b

ItemsOf(bitmap) == {item \in queue : Container(item.cell.edge) = bitmap}

\* The containers that EnsureMinStackHyps has still to work on.
Lacking == {bitmap \in DOMAIN insertions :
              ItemsOf(bitmap) # {} /\ insertions[bitmap] < sentence.diversity}

PopsOver == phase = "pop" /\ (pops = sentence.popLimit \/ queue = {})

\* "ensure diversity, a minimum number of inserted hyps for each bitmap container".
EnsureMinStackHyps ==
  /\ PopsOver
  /\ \E bitmap \in Lacking :
       /\ \A other \in Lacking \ {bitmap} : Before(bitmap, other)
       /\ \E item \in Tops(ItemsOf(bitmap)) : ProcessBestHypothesis(item)
  /\ UNCHANGED <<pops, phase>>

\* The stack is pruned, and its arcs are cleaned.
EndStack ==
  /\ PopsOver /\ Lacking = {}
  /\ LET pruned == PruneToSize(Stack(hypos, stacks[stackNo], bestScore, worstScore),
                               sentence.maxHypoStackSize)
     IN  /\ stacks' = [stacks EXCEPT ![stackNo] = pruned.hypos]
         /\ hypos' = CleanupArcList(hypos, pruned.hypos)
         /\ worstScore' = pruned.worst
  /\ queue' = {} /\ seen' = {}
  /\ stackNo' = stackNo + 1 /\ phase' = IF stackNo = Size THEN "done" ELSE "next"
  /\ UNCHANGED <<sentence, lists, matrix, bestScore, pops, insertions>>

ProcessSentence ==
  \/ CreateTranslationOptions \/ AddInitial \/ OutOfTime \/ InitializeEdges \/ Pop
  \/ EnsureMinStackHyps \/ EndStack
=============================================================================
