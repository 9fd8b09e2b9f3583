----------------------------- MODULE ChartManager -----------------------------
(***************************************************************************)
(* ChartManager: ProcessSentence fills the cells of the chart in the order *)
(* of their width, and CalcNBest reads the n-best list out of the last     *)
(* one: ChartTrellisPath, ChartTrellisDetour and ChartTrellisDetourQueue.  *)
(*                                                                         *)
(* A path is a record                                                      *)
(*   tree       the hypothesis at each address; <<>> is the root, and      *)
(*              <<2, 1>> the first child of its second child               *)
(*   deviation  m_deviationPoint                                           *)
(*   total      m_totalScore                                               *)
(* A detour is a base path, an address in it, a replacement there, and the *)
(* total score that it makes.                                              *)
(***************************************************************************)
EXTENDS ChartCell

VARIABLES
  range,      \* the cell that is being filled
  phase,      \* "xml", "options", "cubes", "pop" and "done"
  contenders, \* the detours to choose from, best first
  ret,        \* the n-best list
  turn        \* turns of the main loop of CalcNBest; -1 before it

vars == <<cellVars, range, phase, contenders, ret, turn>>

nBestVars == <<contenders, ret, turn>>

FullRange == <<0, Size - 1>>

-----------------------------------------------------------------------------
Init ==
  /\ input \in Inputs
  /\ hypos = <<>>
  /\ sorted = [r \in Ranges |-> [label \in Labels |-> <<>>]]
  /\ dotted = [t \in DOMAIN input.tables |-> [start \in 0 .. Size - 1 |-> <<RootRule(start)>>]]
  /\ list = Clear
  /\ collections = [r \in Ranges |-> [label \in Labels |-> EmptyCollection]]
  /\ queue = {} /\ covered = {} /\ numPops = 0
  /\ range = <<0, 0>> /\ phase = "xml"
  /\ contenders = <<>> /\ ret = <<>> /\ turn = -1

\* A hypothesis goes to its collection in a cell.
AddToCell(all, r, h) ==
  LET label == all[h].target.lhs
      after == AddHypothesis(all, collections[r][label], h)
  IN  /\ hypos' = after.hypos
      /\ collections' = [collections EXCEPT ![r][label] = after.coll]

\* AddXmlChartOptions, one of them: a hypothesis of its own, before any rule is applied.
AddXmlChartOption ==
  /\ phase = "xml" /\ Len(hypos) < Len(input.xml)
  /\ LET option == input.xml[Len(hypos) + 1]
         all == Append(hypos, ChartHypothesis(option.target, <<>>))
     IN  AddToCell(all, option.range, Len(all))
  /\ UNCHANGED <<input, sorted, dotted, list, queue, covered, numPops, range, phase, nBestVars>>

XmlDone ==
  /\ phase = "xml" /\ Len(hypos) = Len(input.xml)
  /\ phase' = "options"
  /\ UNCHANGED <<cellVars, range, nBestVars>>

\* The options of the cell.
CreateOptions ==
  /\ phase = "options"
  /\ list' = ApplyThreshold(Create(range))
  /\ dotted' = DottedAfter(range)
  /\ phase' = "cubes"
  /\ UNCHANGED <<input, hypos, sorted, collections, queue, covered, numPops, range, nBestVars>>

\* ChartCell::ProcessSentence: "add all trans opt into queue. using only 1st child node."
CreateCubes ==
  /\ phase = "cubes"
  /\ LET corners == [i \in DOMAIN list.options |-> [rule |-> i, pos |-> Corner(list.options[i])]]
         after   == Enqueue(hypos, {}, corners)
     IN  /\ hypos' = after.hypos /\ queue' = after.queue
         /\ covered' = ToSet(corners)
  /\ numPops' = 0 /\ phase' = "pop"
  /\ UNCHANGED <<input, sorted, dotted, list, collections, range, nBestVars>>

\* "pluck things out of queue and add to hypo collection".
Pop ==
  /\ phase = "pop" /\ numPops < input.popLimit
  /\ \E item \in Tops :
       LET after == PopItem(item) IN
       /\ AddToCell(after.hypos, range, after.popped)
       /\ queue' = after.queue
       /\ covered' = covered \cup ToSet(CreateNeighbors(item.cell))
  /\ numPops' = numPops + 1
  /\ UNCHANGED <<input, sorted, dotted, list, range, phase, nBestVars>>

NextRange(r) ==
  IF r[2] < Size - 1 THEN <<r[1] + 1, r[2] + 1>> ELSE <<0, Width(r)>>

\* The cell is pruned, its arcs are cleaned, and it is sorted for the wider ones.
FinishCell ==
  /\ phase = "pop" /\ (numPops = input.popLimit \/ queue = {})
  /\ LET pruned == [label \in Labels |-> PruneToSize(hypos, collections[range][label])]
     IN  /\ collections' = [collections EXCEPT ![range] = pruned]
         /\ hypos' = CleanupArcList(hypos, UNION {pruned[label].hypos : label \in Labels})
         /\ sorted' = [sorted EXCEPT ![range] = [label \in Labels |-> SortedBy(hypos, pruned[label].hypos)]]
  /\ list' = Clear /\ queue' = {} /\ covered' = {}
  /\ IF range = FullRange THEN phase' = "done" /\ UNCHANGED range
     ELSE phase' = "options" /\ range' = NextRange(range)
  /\ UNCHANGED <<input, dotted, numPops, nBestVars>>

ProcessSentence ==
  AddXmlChartOption \/ XmlDone \/ CreateOptions \/ CreateCubes \/ Pop \/ FinishCell

-----------------------------------------------------------------------------
(***************************************************************************)
(* The n-best list.                                                        *)
(***************************************************************************)
Complete == UNION {collections[FullRange][label].hypos : label \in Labels}

\* ChartCell::GetBestHypothesis, if there is one.
BestHypothesis == Head(SortedBy(hypos, Complete))

\* The addresses of b, which a tree is to have below address a.
Below(a, tree) ==
  [address \in {a \o b : b \in DOMAIN tree} |-> tree[SubSeq(address, Len(a) + 1, Len(address))]]

\* ChartTrellisNode: a hypothesis and all that it is made of.
TrellisNode ==
  LET node[h \in DOMAIN hypos] ==
        FoldLeftDomain(LAMBDA tree, k : tree @@ Below(<<k>>, node[hypos[h].prev[k]]),
                       <<>> :> h, hypos[h].prev)
  IN  node

\* The limit of turns, and of detours in the queue.
PopLimit ==
  IF ~input.distinct THEN input.nBestSize - 1
  ELSE IF input.nBestFactor = 0 THEN input.nBestSize * 1000
  ELSE input.nBestSize * input.nBestFactor

BasePath(h) == [tree |-> TrellisNode[h], deviation |-> <<>>, total |-> hypos[h].total]

Detour(path, address, h) ==
  [base |-> path, address |-> address, replacement |-> h,
   total |-> path.total + hypos[h].total - hypos[path.tree[address]].total]

\* ChartTrellisPath of a detour: the replacement, and the best way below it.
DetourPath(detour) ==
  LET kept == {a \in DOMAIN detour.base.tree : ~IsPrefix(detour.address, a)}
  IN  [tree |-> Below(detour.address, TrellisNode[detour.replacement])
                  @@ [a \in kept |-> detour.base.tree[a]],
       deviation |-> detour.address, total |-> detour.total]

\* Push: the queue is a multiset, bounded by PopLimit, and the worst detour makes room.
Push(detours, detour) ==
  LET Better(a, b) == a.total > b.total
  IN  IF Len(detours) < PopLimit THEN Insert(detours, detour, Better)
      ELSE IF Better(detour, Last(detours)) THEN Insert(Front(detours), detour, Better)
      ELSE detours

\* Mutant of CreateDeviantPaths: every node of the path may be replaced.
CreateDeviantPathsAnywhere(path) ==
  FlattenSeq([i \in 1 .. Cardinality(DOMAIN path.tree) |->
    LET a == Listed(DOMAIN path.tree)[i]
        arcs == hypos[path.tree[a]].arcs
    IN  [k \in DOMAIN arcs |-> Detour(path, a, arcs[k])]])

\* CreateDeviantPaths: the arcs of the node that was replaced last and of those below it.
CreateDeviantPaths(path) ==
  LET addresses == Listed({a \in DOMAIN path.tree : IsPrefix(path.deviation, a)})
  IN  FlattenSeq([i \in DOMAIN addresses |->
        LET arcs == hypos[path.tree[addresses[i]]].arcs
        IN  [k \in DOMAIN arcs |-> Detour(path, addresses[i], arcs[k])]])

\* The output phrase of a path.
Text(tree) ==
  LET text[a \in DOMAIN tree] ==
        LET h == hypos[tree[a]]
        IN  OutputPhrase(h.target, [k \in DOMAIN h.prev |-> text[Append(a, k)]])
  IN  text[<<>>]

Texts == {Text(ret[i].tree) : i \in DOMAIN ret}

\* CalcNBest starts with "a ChartTrellisDetour for each complete translation"; a list of one is
\* the best hypothesis.
BeginNBest ==
  /\ phase = "done" /\ turn = -1
  /\ input.nBestSize > 0 /\ Complete # {}
  /\ IF input.nBestSize = 1
     THEN ret' = <<BasePath(BestHypothesis)>> /\ UNCHANGED contenders
     ELSE /\ contenders' = FoldLeft(LAMBDA detours, h : Push(detours, Detour(BasePath(h), <<>>, h)),
                                    <<>>, Listed(Complete))
          /\ UNCHANGED ret
  /\ turn' = 0
  /\ UNCHANGED <<cellVars, range, phase>>

NBestOpen ==
  /\ turn >= 0 /\ input.nBestSize > 1
  /\ Len(ret) < input.nBestSize /\ contenders # <<>> /\ turn < PopLimit

\* A turn of the main loop: the best detour becomes a path, and its own detours enter the queue.
NextBest ==
  /\ NBestOpen
  /\ LET path == DetourPath(Head(contenders))
     IN  /\ ret' = IF input.distinct /\ Text(path.tree) \in Texts THEN ret ELSE Append(ret, path)
         /\ contenders' = FoldLeft(Push, Tail(contenders), CreateDeviantPaths(path))
  /\ turn' = turn + 1
  /\ UNCHANGED <<cellVars, range, phase>>

Next == ProcessSentence \/ BeginNBest \/ NextBest

Spec == Init /\ [][Next]_vars

-----------------------------------------------------------------------------
\* The ranges into which a pattern of n symbols may divide a range.
Divisions(r, n) ==
  {d \in [1 .. n -> Ranges] :
     /\ d[1][1] = r[1] /\ d[n][2] = r[2]
     /\ \A k \in 1 .. n - 1 : d[k + 1][1] = d[k][2] + 1}

\* How a pattern may apply to a range, by the definition of a match: the range and label of each
\* of its non-terminals.
Matches(pattern, r) ==
  {SelectSeq([k \in DOMAIN pattern |-> [range |-> d[k], label |-> pattern[k]]],
             LAMBDA symbol : symbol.label \in Labels) :
     d \in {d \in Divisions(r, Len(pattern)) :
              \A k \in DOMAIN pattern :
                IF pattern[k] \in Labels THEN d[k] # r
                ELSE Width(d[k]) = 1 /\ WordAt(d[k][1]) = pattern[k]}}

\* The rules that apply to a range: the target phrases of a pattern, and its non-terminals.
Applicable(r) ==
  UNION {UNION {{[targets |-> input.tables[t].rules[pattern], stack |-> stack] :
                   stack \in Matches(pattern, r)} :
                  pattern \in DOMAIN input.tables[t].rules} :
           t \in TablesFor(r)}

\* A word that no rule translates, or any if asked for, may have the unknown labels.
UnknownOptions(r) ==
  {[targets |-> <<[lhs |-> label, words |-> <<WordAt(r[1])>>, score |-> input.unknown[label]]>>,
    stack |-> <<>>] :
     label \in IF Width(r) = 1 /\ 0 < r[1] /\ r[1] < Size - 1
                  /\ (Applicable(r) = {} \/ input.alwaysCreateDirect)
               THEN DOMAIN input.unknown ELSE {}}

\* The incremental lookup and the bounded list give each cell the best of all rules that match it
\* and have hypotheses for their non-terminals: none twice, within the limit and near the best.
BestRulesApplied ==
  phase = "cubes" =>
    LET offered == {o \in Applicable(range) \cup UnknownOptions(range) :
                      \A k \in DOMAIN o.stack : HypothesesFor(o.stack[k]) # <<>>}
        Score(o) == EstimateOfBestScore(o.targets, o.stack)
        Rule(i)  == [targets |-> list.options[i].targets, stack |-> list.options[i].stack]
        best     == Max({Score(o) : o \in offered})
    IN  /\ Len(list.options) <= input.ruleLimit
        /\ \A i, j \in DOMAIN list.options : i # j => Rule(i) # Rule(j)
        /\ {Rule(i) : i \in DOMAIN list.options} \subseteq offered
        /\ \A o \in offered \ {Rule(i) : i \in DOMAIN list.options} :
             \/ Score(o) < best + input.threshold
             \/ Cardinality({i \in DOMAIN list.options : list.options[i].score >= Score(o)})
                  = input.ruleLimit

Unlimited == 1000

Popped == covered \ {item.cell : item \in queue}

\* All the items of a cube.
Cube(i) ==
  LET size == Dimensions(list.options[i])
  IN  {[rule |-> i, pos |-> pos] :
         pos \in {p \in [DOMAIN size -> 1 .. Max(ToSet(size))] : \A d \in DOMAIN size : p[d] <= size[d]}}

\* No item is popped twice; and where the language model has no say, no item of any cube, created or
\* not, is better than one that has been popped.
CubesBestFirst ==
  phase = "pop" =>
    /\ Cardinality(Popped) = numPops
    /\ (\A w \in DOMAIN input.lm : input.lm[w] = 0) =>
         \A cell \in UNION {Cube(i) : i \in DOMAIN list.options} \ Popped, p \in Popped :
           EstimateScore(cell) <= EstimateScore(p)

\* However few hypotheses are popped and kept: a glue grammar ends with a translation.
TranslationFound == phase = "done" => Complete # {}

\* All derivations of a range, cell by cell: left-hand side, text and score.
Derivations ==
  LET all[r \in Ranges] ==
        LET Children(stack) ==
              FoldLeft(LAMBDA partial, child :
                         {Append(p, d) : p \in partial,
                                         d \in {x \in all[child.range] : x.lhs = child.label}},
                       {<<>>}, stack)
            Of(o) ==
              {[lhs |-> o.targets[y].lhs,
                text |-> OutputPhrase(o.targets[y], [k \in DOMAIN kids |-> kids[k].text]),
                score |-> o.targets[y].score + Total([k \in DOMAIN kids |-> kids[k].score])] :
                 <<y, kids>> \in (DOMAIN o.targets) \X Children(o.stack)}
        IN  UNION {Of(o) : o \in Applicable(r) \cup UnknownOptions(r)}
              \cup {[lhs |-> input.xml[i].target.lhs, text |-> input.xml[i].target.words,
                     score |-> input.xml[i].target.score] :
                      i \in {i \in DOMAIN input.xml : input.xml[i].range = r}}
  IN  all

\* Lookup, cubes and recombination lose nothing that counts: when no limit binds, a cell has the
\* best derivation of each label and state, out of all derivations there are, and no other.
SearchIsExact ==
  phase = "done" /\ input.popLimit = Unlimited /\ input.maxHypoStackSize = Unlimited
    /\ input.ruleLimit = Unlimited /\ input.threshold = NegInfinity /\ input.beamWidth = NegInfinity =>
    \A r \in Ranges, label \in Labels :
      LET kept == collections[r][label].hypos
          all  == {d \in Derivations[r] : d.lhs = label}
      IN  /\ \A h \in kept : \E d \in all :
               d.text = hypos[h].text /\ hypos[h].total = d.score + LM(d.text)
          /\ \A d \in all : \E h \in kept :
               SameState(hypos[h], d) /\ hypos[h].total >= d.score + LM(d.text)

\* The hypotheses in the chart; the others live on as arcs of them.
Live == UNION {collections[r][label].hypos : <<r, label>> \in Ranges \X Labels}

\* All paths through the hypergraph, from a hypothesis in the chart.
Paths ==
  LET paths[h \in Live] ==
        UNION {FoldLeftDomain(LAMBDA trees, k :
                                {t @@ Below(<<k>>, s) : t \in trees, s \in paths[hypos[n].prev[k]]},
                              {<<>> :> n}, hypos[n].prev) :
                 n \in {h} \cup ToSet(hypos[h].arcs)}
  IN  UNION {paths[h] : h \in Complete}

\* The score of a path from its rules and its text.
PathScore(tree) ==
  FoldFunction(+, 0, [a \in DOMAIN tree |-> hypos[tree[a]].target.score]) + LM(Text(tree))

Arcs(tree) == {a \in DOMAIN tree : tree[a] \notin Live}

\* The paths whose arcs lie one below the other: CreateDeviantPaths goes on from the node that was
\* replaced last, and never to another branch.
NestedPaths ==
  {tree \in Paths : \A a, b \in Arcs(tree) : IsPrefix(a, b) \/ IsPrefix(b, a)}

NBestOver == turn >= 0 /\ ~NBestOpen

\* What CalcNBest enumerates with a bounded queue: the best of the nested paths, best first, with
\* their scores, none twice, and one less than asked for; if texts are to be distinct, a best path
\* of each.
NBestIsTopOfNested ==
  NBestOver =>
    LET Key(tree) == IF input.distinct THEN Text(tree) ELSE tree
        listed == {Key(ret[i].tree) : i \in DOMAIN ret}
        length == IF input.nBestSize = 1 THEN 1 ELSE PopLimit
    IN  /\ \A i \in DOMAIN ret :
             ret[i].tree \in NestedPaths /\ ret[i].total = PathScore(ret[i].tree)
        /\ \A i, j \in DOMAIN ret : i < j =>
             ret[i].total >= ret[j].total /\ Key(ret[i].tree) # Key(ret[j].tree)
        /\ \A tree \in NestedPaths :
             \/ \E i \in DOMAIN ret : Key(ret[i].tree) = Key(tree) /\ ret[i].total >= PathScore(tree)
             \/ \A i \in DOMAIN ret : ret[i].total >= PathScore(tree)
        /\ ~input.distinct =>
             Len(ret) = IF Cardinality(NestedPaths) < length THEN Cardinality(NestedPaths) ELSE length
=============================================================================
