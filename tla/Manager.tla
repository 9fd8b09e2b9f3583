------------------------------- MODULE Manager -------------------------------
(***************************************************************************)
(* Manager: a sentence is translated (CubePruning), and CalcNBest reads    *)
(* the n-best list out of the last stack, following the arcs that          *)
(* recombination has left: TrellisPath and TrellisPathCollection.          *)
(*                                                                         *)
(* A path is a record                                                      *)
(*   nodes    m_path, from the last hypothesis back to the seed            *)
(*   changed  m_prevEdgeChanged, the place of the last deviation           *)
(*   total    m_totalScore                                                 *)
(***************************************************************************)
EXTENDS CubePruning

CONSTANTS NBestFactor   \* GetNBestFactor

ASSUME NBestAssumption == NBestFactor \in Nat \ {0}

VARIABLES
  contenders,   \* the paths to choose from, best first; <<>> until CalcNBest starts
  ret,          \* the n-best list
  iteration     \* turns of the main loop; -1 before CalcNBest

vars == <<searchVars, contenders, ret, iteration>>

\* The hypotheses on stacks; the others live on as arcs of them.
Live == UNION {stacks[k] : k \in 0 .. Size}

WinningHypo(h) == IF h \in Live THEN h ELSE CHOOSE w \in Live : h \in ToSet(hypos[w].arcs)

\* A hypothesis and those it continues, back to the seed.
Chain(h) ==
  LET chain[x \in DOMAIN hypos] ==
        <<x>> \o (IF hypos[x].prev = NULL THEN <<>> ELSE chain[hypos[x].prev])
  IN  chain[h]

PurePath(h) == [nodes |-> Chain(h), changed |-> NOT_FOUND, total |-> hypos[h].total]

\* InitScore: from the score of the winning hypothesis, node by node.
Total(nodes) ==
  hypos[WinningHypo(nodes[1])].total
    + FoldLeft(LAMBDA sum, h : sum - hypos[WinningHypo(h)].total + hypos[h].total, 0, nodes)

\* The path that takes an arc at one place, and the best way back from there.
DeviantPath(path, edge, arc) ==
  LET nodes == SubSeq(path.nodes, 1, edge - 1) \o Chain(arc)
  IN  [nodes |-> nodes, changed |-> edge, total |-> Total(nodes)]

\* Mutant of CreateDeviantPaths: every edge may deviate again.
CreateDeviantPathsAnywhere(path) ==
  FlattenSeq([edge \in DOMAIN path.nodes |->
    LET arcs == hypos[path.nodes[edge]].arcs
    IN  [i \in DOMAIN arcs |-> DeviantPath(path, edge, arcs[i])]])

\* CreateDeviantPaths: all edges of a pure path, and those behind the last deviation of another.
CreateDeviantPaths(path) ==
  FlattenSeq([edge \in DOMAIN path.nodes |->
    LET arcs == hypos[path.nodes[edge]].arcs
    IN  IF path.changed = NOT_FOUND \/ edge > path.changed
        THEN [i \in DOMAIN arcs |-> DeviantPath(path, edge, arcs[i])] ELSE <<>>])

\* TrellisPathCollection::Add, a multiset: behind all that are as good.
AddPath(paths, path) ==
  Insert(paths, path, LAMBDA a, b : a.total > b.total)

PrunePaths(paths, newSize) == IF Len(paths) <= newSize THEN paths ELSE SubSeq(paths, 1, newSize)

\* GetSurfacePhrase, without the seed.
Surface(path) == Reverse([i \in 1 .. Len(path.nodes) - 1 |-> hypos[path.nodes[i]].word])

Surfaces == {Surface(ret[i]) : i \in DOMAIN ret}

-----------------------------------------------------------------------------
ManagerInit == Init /\ contenders = <<>> /\ ret = <<>> /\ iteration = -1

\* CalcNBest starts with the pure paths of the last stack.
BeginNBest ==
  /\ phase = "done" /\ iteration = -1
  /\ contenders' = FoldLeft(AddPath, <<>>,
       LET pure == InOrder(stacks[Size], LAMBDA a, b : hypos[a].total > hypos[b].total)
       IN  [i \in DOMAIN pure |-> PurePath(pure[i])])
  /\ iteration' = 0
  /\ UNCHANGED <<searchVars, ret>>

NBestOpen ==
  /\ iteration >= 0
  /\ Len(ret) < NBestSize /\ contenders # <<>> /\ iteration < NBestSize * NBestFactor

\* A turn of the main loop: the best contender, and its deviations.
NextBest ==
  /\ NBestOpen
  /\ LET path == Head(contenders)
         all  == FoldLeft(AddPath, Tail(contenders), CreateDeviantPaths(path))
     IN  /\ ret' = IF sentence.distinct /\ Surface(path) \in Surfaces THEN ret ELSE Append(ret, path)
         /\ contenders' = PrunePaths(all, IF sentence.distinct THEN NBestSize * NBestFactor
                                          ELSE NBestSize)
  /\ iteration' = iteration + 1
  /\ UNCHANGED searchVars

ManagerNext ==
  \/ ProcessSentence /\ UNCHANGED <<contenders, ret, iteration>>
  \/ BeginNBest \/ NextBest

ManagerSpec == ManagerInit /\ [][ManagerNext]_vars

-----------------------------------------------------------------------------
\* The options that were found for a span, before any were pruned.
Found == [span \in PhraseSpans |-> WithUnknownWord(sentence, span)]

\* Every way to translate some words by options, whatever their order.
Segmentations(words) ==
  {S \in SUBSET {span \in PhraseSpans : Found[span] # <<>> /\ Words(span) \subseteq words} :
     /\ UNION {Words(span) : span \in S} = words
     /\ \A a, b \in S : a # b => Words(a) \cap Words(b) = {}}

\* The future score of a coverage is that of the best segmentation of its gaps, over the options
\* found, pruned or not; and SearchNormal's early discarding, which asks for it before the
\* hypothesis exists, gets the same.
FutureScoreIsBest ==
  phase = "seed" =>
    \A bitmap \in SUBSET Positions(Size) :
      /\ CalcFutureScore(matrix, bitmap) =
           Max({FoldFunction(+, 0, [span \in S |-> BestOption(Found, span)]) :
                  S \in Segmentations(Positions(Size) \ bitmap)})
      /\ \A span \in Spans : ~Overlap(bitmap, span[1], span[2]) =>
           CalcFutureScoreWith(matrix, bitmap, span[1], span[2])
             = CalcFutureScore(matrix, SetValue(bitmap, span[1], span[2]))

CellsOf(edge) ==
  {Cell(edge, x, y) : x \in DOMAIN EdgeHypotheses(edge), y \in DOMAIN lists[edge.span]}

Popped == seen \ {item.cell : item \in queue}

\* Without a language model across phrases, a stack pops the best hypotheses that there are: no
\* cell of any grid, created or not, is better than one that has been popped.
BestFirst ==
  (/\ MaxDistortion # -1
   /\ phase = "pop" /\ Cardinality(Popped) = pops /\ pops > 0
   /\ \A w \in DOMAIN sentence.lm : sentence.lm[w] = 0) =>
    LET worst == Min({CellHypothesis(cell).total : cell \in Popped})
    IN  \A cell \in UNION {CellsOf(edge) : edge \in Edges} \ Popped :
          CellHypothesis(cell).total <= worst

\* However few hypotheses are popped and kept, a search that is not out of time ends with a
\* translation: also of words that no table knows or that mark-up covers.
TranslationFound == phase = "done" /\ stackNo > Size => stacks[Size] # {}

\* The paths through a hypothesis on a stack and the arcs behind it.
PathsTo ==
  LET paths[h \in Live] ==
        UNION {{<<n>> \o rest : rest \in IF hypos[n].prev = NULL THEN {<<>>} ELSE paths[hypos[n].prev]} :
                 n \in {h} \cup ToSet(hypos[h].arcs)}
  IN  paths

\* The score of a path from what each hypothesis on it has added to the one before.
PathScore(nodes) ==
  FoldLeft(LAMBDA sum, h : sum + (IF hypos[h].prev = NULL THEN GetScore(h)
                                  ELSE GetScore(h) - GetScore(hypos[h].prev)), 0, nodes)

Descending(bag, Value(_)) == InOrder(bag, LAMBDA a, b : Value(a) > Value(b))

NBestOver == iteration >= 0 /\ ~NBestOpen

\* What CalcNBest enumerates without ever listing all paths: the best paths through the search
\* graph, best first, with their scores, none twice; if they are to be distinct, a best path of
\* each translation.
NBestIsTop ==
  NBestOver =>
    LET all == UNION {PathsTo[h] : h \in stacks[Size]}
        wanted == IF sentence.distinct
                  THEN {nodes \in all : \A other \in all :
                          Surface([nodes |-> other]) = Surface([nodes |-> nodes])
                            => PathScore(other) <= PathScore(nodes)}
                  ELSE all
        Text(nodes) == IF sentence.distinct THEN Surface([nodes |-> nodes]) ELSE nodes
    IN  /\ \A i \in DOMAIN ret : ret[i].nodes \in wanted /\ ret[i].total = PathScore(ret[i].nodes)
        /\ \A i, j \in DOMAIN ret : i < j =>
             ret[i].total >= ret[j].total /\ Text(ret[i].nodes) # Text(ret[j].nodes)
        /\ \A nodes \in wanted :
             \/ \E i \in DOMAIN ret : Text(ret[i].nodes) = Text(nodes)
             \/ \A i \in DOMAIN ret : ret[i].total >= PathScore(nodes)
        /\ ~sentence.distinct =>
             Len(ret) = IF Cardinality(all) < NBestSize THEN Cardinality(all) ELSE NBestSize

\* Every translation of the sentence that SearchNormal would allow: phrase by phrase.
Derivations ==
  LET source == [completed |-> sentence.completed, constraint |-> sentence.constraint,
                 options |-> {span \in PhraseSpans : lists[span] # <<>>}]
      Next(d) ==
        {[hypo |-> Extend(d.hypo, span), phrases |-> Append(d.phrases, <<span, y>>),
          word |-> lists[span][y].word,
          score |-> d.score + lists[span][y].score + sentence.lm[d.word, lists[span][y].word]
                      - ComputeDistortionDistance(d.hypo.last, span[1])] :
           <<span, y>> \in {c \in PhraseSpans \X (1 .. 9) :
                              /\ CanExtend(source, d.hypo, c[1][1], c[1][2])
                              /\ c[2] <= Len(lists[c[1]])}}
      after[n \in 0 .. Size] ==
        IF n = 0 THEN {[hypo |-> InitialHypothesis(sentence.completed), phrases |-> <<>>,
                        word |-> BeginOfSentence, score |-> 0]}
        ELSE UNION {Next(d) : d \in after[n - 1]}
  IN  {d \in UNION {after[n] : n \in 0 .. Size} : d.hypo.cov = Positions(Size)}

Unlimited == 1000

\* Recombination, grids and arcs lose nothing that counts: when no limit binds, the n-best list has
\* the scores of the best translations of the sentence, out of all there are.
ExactWhenUnpruned ==
  NBestOver /\ stackNo > Size /\ ~sentence.distinct
    /\ sentence.popLimit = Unlimited /\ sentence.maxHypoStackSize = Unlimited
    /\ sentence.beamWidth = NegInfinity =>
    LET best == Descending(Derivations, LAMBDA d : d.score)
    IN  /\ Len(ret) = IF Len(best) < NBestSize THEN Len(best) ELSE NBestSize
        /\ \A i \in DOMAIN ret : ret[i].total = best[i].score
=============================================================================
