# A TLA+ development of the online-learning Moses decoder

The repository is a fork of Moses, a statistical machine translation system, extended so that it
learns from post-edited sentences while it translates. This directory holds TLA+ modules of the
parts whose logic is hard to test, TLC configurations that check them on small instances, and
theorems that TLAPS proves for every instance. `PROJECT.json` maps each definition to the lines
it models and lists runs, mutants, findings, hazards and theorems.

    tlc -config MCSearchNormal.cfg MCSearchNormal       # check one run
    tlapm SearchNormal_proofs.tla                       # check the proofs

## 1. Inventory

| Part | State it keeps | Operations | Interacts with | What makes it correct |
|---|---|---|---|---|
| `moses/WordsBitmap` | one bit per source word | first gap, last word, overlap, cover a span, integer IDs | every hypothesis; stack diversity uses the IDs as keys | IDs are unique; gap and last word frame the coverage |
| `moses/ReorderingConstraint` | walls, zones and local walls of a sentence | set, finalise, `Check` | asked by the search for every extension | walls and zones are kept and never make a dead end |
| `moses/ReorderingStack`, `LexicalReordering` | the blocks of a path | shift, reduce, orientation | scored for every extension | blocks are the maximal contiguous ones |
| `moses/TranslationOptionCollection`, `SquareMatrix` | options per span, future scores | collect, back off, unknown words, prune, future scores | feeds the search | an option for each word; a future score is that of the best segmentation |
| `moses/SearchNormal` | a stack per number of translated words, iterator, time-out flag | expand hypothesis, expand stack, time out, best hypothesis | bitmap, constraint, stacks | distortion limit kept without dead ends; a result at the end; termination |
| `moses/HypothesisStackNormal`, `Hypothesis` arcs | the set of hypotheses, best and worst score, worst score per coverage, arc lists | add, recombine, prune, clean up arcs | filled and expanded by the search; arcs read by n-best extraction | the best of each class stays; only what is below rank or beam goes; one owner per hypothesis |
| `moses/SearchCubePruning`, `BitmapContainer`, `HypothesisStackCubePruning` | grids of edges, priority queues, stacks | explore grid, create neighbours, minimum per container, prune | alternative search of the manager | cells are popped best first; a translation is found; nothing is lost without a limit |
| `moses/Manager`, `TrellisPath`, `TrellisPathCollection` | search graph, contenders | n-best paths, lattice samples, graphs | reads stacks and arcs | the best paths in order, none twice |
| chart decoder: `ChartParser`, `ChartRuleLookupManagerMemory`, `ChartTranslationOptionList` | dotted rules per start position, options of a range | look up rules, add within a limit, apply the threshold | reads the finished cells, feeds the next one | each cell gets the best of all rules that match it |
| chart decoder: `ChartCell`, `RuleCube`, `RuleCubeQueue`, `ChartHypothesisCollection` | cubes, queue of cubes, a collection per range and label | pop, create neighbours, recombine, prune, sort | rules and narrower cells in, hypotheses out | cubes are explored best first; nothing is lost without a limit; a translation is found |
| chart decoder: `ChartManager`, `ChartTrellis*` | the chart, queue of detours | parse cell by cell, n-best list | used by moses-chart-cmd | the best derivations in order, none twice |
| `moses/ThreadPool` | queue of tasks, two flags, two conditions | `Submit`, `Execute`, `Stop` | client thread and pool threads | each task runs once; no deadlock; `Stop(true)` drains |
| `moses/OutputCollector` | next number, saved outputs | `Write` | tasks of all threads | output in input order, nothing held for ever |
| `moses-chart-cmd` main, `IOWrapper` | input counter, collectors | read, submit, write best and n-best | pool and collectors | the numbers of inputs and collectors agree |
| `moses-cmd` main, `Sentence::Read` | line count, collectors, learner flag | read, split at `_#_`, translate, learn, report | learner, search, collectors | translations are printed, post-edits are learned and not printed |
| `moses/OnlineLearner`, `MultiTaskLearning` | scores of phrase pairs, weights per user, the post-edited sentence | `RunOnlineLearning`, `ShootUp`, `ShootDown`, MIRA update | n-best list of the manager; weights in `StaticData` | only post-edits teach; one step per pair and sentence |
| `moses/CacheBasedLanguageModel`, `SingleTriggerModel` | cache of n-grams with ages | decay, update, evaluate | XML commands in the input | consistent under update |
| `util/PCQueue` | ring buffer, two semaphores, two mutexes | produce, consume | `util/ThreadPool`, `lm/filter`, `util/stream` | bounded FIFO, also when copies throw |
| `lm/filter` controller on `util/ThreadPool` | batches, sequence numbers, reorder deque, three queues | fill, hand out, filter, reassemble, flush, destroy | reader, filter workers, output worker | lines in order, batches recycled, everything written |
| `util/stream` chain | ring of queues and blocks | start, add, link, recycle, poison, wait | builders and sorters | poison goes round once, each block has one holder |
| numerics (`OnlineLearning/`, `mert`, `mira`), language models (`lm`, `moses/LM`, `search`), tables (`OnDiskPt`, `TranslationModel`), training tools, `contrib`, `scripts` | files, floating-point vectors | | | out of scope: storage formats and arithmetic |

Hard behaviours: the interleavings of the two kinds of thread pool, of the queues below the second
one and of the output collectors; batches and blocks that come back to be used again; time-outs in the
search; long sequences of extensions that meet distortion limit, zones and walls; stale
thresholds in the stacks; ownership of recombined hypotheses and the paths through them; the order
in which a grid is explored; and, in a session, state of the learner (post-edited sentence,
flag, line number) that outlives the line it belongs to. `PROJECT.json` lists these as hazards, at
their lines.

## 2. Modules

    WordsBitmap <- ReorderingConstraint <- Expansion <- SearchNormal <- SearchNormal_proofs
                                               ^------ TranslationOptions <- CubePruning <- Manager
    Ordering <- TranslationOptions
    Ordering <- ChartRules <- ChartCell <- ChartManager
    ReorderingStack  (with Expansion in MCExpansion)
    HypothesisStackNormal   <- HypothesisStackNormal_proofs
    ThreadPool   <- ThreadPool_proofs <- ChartDecoder_proofs
    ChartDecoder EXTENDS ThreadPool, OutputCollector; implements OrderedOutput, twice
    OnlineSession EXTENDS OnlineLearner, OutputCollector   <- OnlineSession_proofs
    PCQueue implements BoundedFIFO   <- PCQueue_proofs
    FilterController <- FilterController_proofs
    StreamChain      <- StreamChain_proofs      (the queues of both are FIFOs, as PCQueue shows)

An `MC` module gives each of them its constants; `MCExpansion` also gives the bitmap IDs and
ReorderingStack a state machine that ranges over the coverages and paths that can arise.

**WordsBitmap.** A bitmap is the set of translated positions. `NOT_FOUND` is the sentinel of
`size_t`, here 2^31-1, larger than every position as in the code. `GetID` keeps its arithmetic
(gap times 2^16 plus pattern), and `IDCheck` its `CHECK`; `MCExpansion` follows the coverages of a long sentence.

**ReorderingConstraint.** `RawConstraint` is what `SetWall` and `SetZone` collect,
`FinalizeWalls` what `FinalizeWalls` makes of it, a recursive function over the zones in the order in which they were
set, and `Check` the tests in the order of the code: walls, monotone shortcut, zones, each with its early returns.

**ReorderingStack.** The stack of blocks as a sequence of spans: `ShiftReduce` adds the span of a
phrase, merges it as far as `Reduce` does, and returns the distance from which the four
orientation models are derived.

**Expansion.** What one hypothesis becomes: the loops of `ProcessOneHypothesis` as the set of spans
that pass `CanExtend`, and the constructors of `Hypothesis`. A hypothesis is its coverage and its
last source range. A seed without translated prefix has the empty range of the code, 0 to
`NOT_FOUND - 1`, so that the next distance counts from 0.

**SearchNormal.** One action per step of `ProcessSentence`: `OutOfTime` and `BeginStack` at the head of
the loop, `ProcessOneHypothesis`, `ExpandHypothesis` for each extension, and `EndStack`.
Extensions are added in the order in which the code builds them (`BuiltBefore`). A sentence has walls and zones, and
`ConstraintAssumption` says that its constraint is what `FinalizeWalls` makes of them. Scores are abstract:
`AddPrune` and `PruneToSize` may lose any hypotheses as long as the stack keeps one and stays within
its size. This is what `StackContract` of HypothesisStackNormal says of the real operations, so the
two modules rest on each other: the search assumes the contract, the stack is proved to keep it.

**HypothesisStackNormal.** One stack with scores: `Offer` is one `AddPrune`, `Expand` the pruning
and the cleaning of arcs before a stack is expanded. `freed` counts how often a hypothesis has been
deleted, so that leaks and double deletions are visible. Sorting leaves the order of equal scores open.
The stack does not always hold the best hypothesis of each class it has: a worse one that has fallen out of the
beam stays while there is room, and a better one, also outside, is then `TooBad`; with diversity, one may come back
after the diverse hypotheses alone have filled the stack. `LostClasses` are the classes of which the best is not
held, and the properties say when a class may be among them.

**TranslationOptions.** Pure operators from the phrase tables of a sentence to the options of each
span: the decode graphs with back-off, XML options in their three modes, unknown words, sorting and
pruning per span; `FutureScoreMatrix`, and the two `CalcFutureScore` functions, the second of which is
used before a hypothesis exists. A sentence is a record of what tables and mark-up offer.

**CubePruning.** `ProcessSentence` of the manager with `SearchCubePruning`. `queue` holds the items of
all bitmap containers of a stack, `seen` the cells created. Steps: `CreateTranslationOptions`,
`AddInitial`, then per stack `OutOfTime` or `InitializeEdges`, `Pop` while `PopsOver` is false,
`EnsureMinStackHyps`, `EndStack`. `CreateForwardTodos` is not a step: the edges of a coverage are
a function of the stacks before it (`Edges`), as they only depend on hypotheses that no longer change.
Items of equal score may be popped in any order. The stack has the thresholds, recombination and arcs of the code.

**Manager.** `CalcNBest` on the search graph that CubePruning leaves: `contenders` ordered by score,
deviations at the arcs behind the edge changed last, distinct lists with their factor.

**Ordering.** Sequences kept in an order, and the elements of a set in some or in a given order.

**ChartRules.** What `ChartParser::Create` finds for a range. A dotted rule is the part of a pattern that has been seen,
with its non-terminals; `dotted` keeps those that may go on, per table and start, from range to range as
`m_expandableDottedRuleList` does. `Add` and `ApplyThreshold` are those of the option list. A trie is the set of its
patterns, so that the choice between the two loops of `ExtendPartialRuleApplication` disappears.

**ChartCell.** A cell is filled from the cubes of its rules: `Enqueue` and `CreateNeighbors` with `m_covered`, eager or lazy
scoring, and `AddHypothesis` with beam, recombination, arcs and both prunings. Hypotheses have numbers, in the order in which they are made. A
cube's own queue and the queue of cubes are one: the best item of all is the best of the best cube (`Tops`).

**ChartManager.** Steps of `ProcessSentence`: an XML option, then per range `CreateOptions`, `CreateCubes`, `Pop` and
`FinishCell`. `CalcNBest` is `BeginNBest` and `NextBest`: a path is a tree, the hypothesis at each address; a detour replaces
one of them by an arc.

**ThreadPool.** A thread is at one of the places of `Execute` (about to look for a job, waiting,
woken, running, done running, checking `m_stopped`, gone), the client at one of `Submit`, `Stop` and
the destructor. A step is a critical section of `m_mutex` or what lies between two of them: the
unlocked notify, the unlocked read of `m_stopped`. Waits may end spuriously. `QueueLimits` are the limits
to choose from; 0 is none, as in every program of the repository, since nobody calls `SetQueueLimit`.

**OutputCollector, OrderedOutput, ChartDecoder.** `Write` is one call, under the collector's mutex.
`OrderedOutput` is the abstract program: read a sentence, print the translations in input order.
`ChartDecoder` composes the pool, whose client is `main()`, with two collectors, and refines
`OrderedOutput` for each of them, with its fairness. The incremental branch of `Run` has
the same two writes.

**OnlineLearner, OnlineSession.** A phrase pair is a model value, the score of a pair an integer. The
n-best list (pairs, BLEU, score of each path) is an input of a sentence, since BLEU is
not modelled; so is whether the MIRA optimiser finds a violated constraint. The weights
are known by the sentences that have been learned from. With several users the loop over the tasks is followed as it is: the current task gets
the weights of each in turn, also if the optimiser has changed none. One line goes through `Read`,
`ProcessSentence`, `Run` (learning, word graph, standard output, n-best) and `CountLine`.

**PCQueue, BoundedFIFO.** A call of `Produce` or `Consume` is four steps: wait for the semaphore, lock
and begin to copy, end the copy (or throw, which gives the semaphore back), post the other semaphore. While a
slot is copied into it holds `Torn`. `BoundedFIFO` is a sequence of limited length; the refinement maps it to
the slots between the two positions, an element entering when its copy has been made and
leaving when it has been copied out.

**FilterController.** A file is a sequence of lines, each an n-gram or the end of a section, and a line is known by its
number. The reading thread calls `AddNGram` and, for ARPA files, `Flush` at the end
of each section; filter workers take batches, the output worker reassembles them by `Sequence()`
and gives them back through `to_read_`. Then the destructors send poison and wait. A queue is a sequence with a limit,
which PCQueue justifies: once the threads are apart, a call takes effect at one moment.

**StreamChain.** Every worker has a `Link` that consumes a block, works on it and passes it on. `plan`
chooses the workers of each round, so that a chain is used again after `Wait`, with the blocks
that the last round left. An entry is its round and number; `memory_` what is in a block, `size` how much of it is valid. `CollapseStream` puts
the last entry it keeps into the place of each one it deletes (`Refills`), so that entries change places within a block, and `WrittenInOrder` asks for the exact
order only where nothing is deleted (`DueBefore`).

## 3. Runs

| Run | Module | What it shows |
|---|---|---|
| `expansion` | MCExpansion | up to the longest patterns that fit, `GetID` and `GetIDPlus` pass their `CHECK` for every coverage of the search and its extensions, no other coverage has the same ID, and `GetIDPlus` is the ID of the extension or of no coverage in its stack (`IDsTellApart`); the stack of blocks and the orientations are those a definition over the whole path gives (`OrientationFollowsBlocks`) |
| `search` | MCSearchNormal | gaps stay reachable, walls are kept (`WallsKept`), a zone that is entered is finished first (`ZoneFinishedOnceEntered`), no dead end (`NoDeadEnd`), a result, termination; with any phrase options and any translated prefix, or with any walls and up to two zones |
| `stack` | MCHypothesisStackNormal | without diversity a class is lost only below rank or beam; with it, only behind enough hypotheses of its coverage; the contract for the search: one hypothesis of a class, the best of all, the size; one owner; arcs are worse alternatives |
| `chart_decoder` | MCChartDecoder | each task is in one place (queue, thread, finished); `Stop(true)` leaves none; main gets through; both collectors implement `OrderedOutput` |
| `session` | MCOnlineSession | the session ends with the input, prints translations only, learns from post-edits only, moves a pair once per sentence, stores the pairs of the oracle |
| `pcqueue` | MCPCQueue | slots are accounted for, and the ring implements `BoundedFIFO` |
| `lm_filter` | MCFilterController | n-grams are written in the order of the input; a batch is in one place; everything is written |
| `stream_chain` | MCStreamChain | each entry that is not deleted is written once, and overtakes at most entries of its own block (`WrittenInOrder`); a block has one holder; every round ends with everything written |
| `manager` | MCManager | future scores are those of the best segmentation; cells are popped best first; a translation is found; the n-best list is the top of the search graph; without limits it is the top of all derivations |
| `chart` | MCChartManager | each cell gets the best of the rules that match it (`BestRulesApplied`); cubes are explored best first (`CubesBestFirst`); a translation is found; without limits each cell holds the best of all derivations and no other (`SearchIsExact`); the n-best list is the top of the paths whose replacements lie one below the other (`NBestIsTopOfNested`) |

Two more runs each check one statement of a comment that
the code does not keep; section 6 lists them.

**Bounds.** `expansion` has 20 words and a distortion limit of 17, which the search's look-ahead turns into patterns of up to
16 bits, the width of the field. In most of its sentences a phrase of 11 words, at any place, and single words elsewhere keep the coverages few, while both
ends of a pattern vary; in one of them there are phrases of up to 3 words among the first 6, which give the paths blocks that merge twice at once. With a limit
of 18 or none, a coverage of the search fails the `CHECK`, and the decoder would abort; with 17 it does not, one more than the comment on `GetID` promises. `search` has 4 words, phrases up to 3, distortion
2 and stacks of one hypothesis: the tightest pruning there is, and the one most likely to lose what is
needed. Its constrained sentences have walls at any words, no zone, one, or two that nest or are apart, and none or one word
translated before, so that the distortion limit binds while a zone with a wall inside has words on either side. `stack` has four classes, three of them of one coverage, and five settings. Five offers, without diversity, to a stack of
two: three hypotheses are tolerated, the fourth makes `Add` prune, and the fifth meets the new threshold. Stacks of
one and two with diversity one, where all classes are on the stack before `Add` prunes, and a stack of one with diversity two, where
the diverse hypotheses alone fill it. And seven offers of two classes with arcs: six arcs on one hypothesis are the fewest that
`CleanupArcList` cuts down. `chart_decoder` has three threads and four sentences; with a limit of two
the queue fills while threads wait on both conditions. A session has three lines:
post-edit, translation, post-edit is the shortest in which each kind follows the
other. `pcqueue` has two producers of two values and two consumers on two slots, so that the ring
is full, empty and wraps round, and two copies that throw. `lm_filter` has three filter workers, hence six
batches of two lines, and a section of 17 lines, more than all batches hold. `stream_chain` has three blocks of
three entries, the fewest in which a deleted one is replaced from behind a kept one, and rounds of 11, 0 and 9 entries (a last block that is partly filled, none, and one that is full), each with any of three chains in the shape that `lm/builder` uses. `manager`
has 4 words, 8 families of tables, mark-up and language models, and four sets of limits, one without any. The families
are chosen by arithmetic on a seed: random enough for ties, recombination and unknown words to occur.
`chart` has sentences of five symbols (of four where nothing is limited, as the reference enumerates all derivations), rules
of up to two non-terminals that swap, glue rules, ten families of tables, language models, XML options and span limits, five
sets of limits, and five kinds of n-best list: arcs of arcs, trees with replacements in two branches, equal texts of different paths, ties and
every limit occur. `MaxOffers`, `MaxLines`, `MaxThrows` and `Rounds` bound the inputs; nothing else is cut off. An unlimited distortion is
not run; the theorems cover it. Sessions of several users
are run with two lines, in `session_tasks`; the theorems on `OnlineSession` hold for any `Users`. `CHECK_DEADLOCK` is off
because every one of these programs ends.

**Fairness.** The search is one thread: weak fairness of its next step. Pool and `DecoderSpec`: weak fairness of each thread and of
the client, as the operating system schedules them; none on spurious wakeups and none on which
of several actions a thread takes. PCQueue, FilterController and StreamChain: the same, weak fairness of each
producer, consumer, reader, worker, writer and owner. A thread that waits for a semaphore several want
needs no strong fairness here, as each call is made only a bounded number of times. `HypothesisStackNormal`,
`OnlineSession`, `Manager` and `ChartManager` have safety properties only, and no fairness.

## 4. Proofs

Eight modules. All theorems rest on the named assumptions on the constants alone. Most of these say what a parameter may be
(a size is a positive number). Five say more, and each has a reason in the code: `ScoreAssumption` of the stack, that no score comes near the
value that stands for minus infinity; `CoverageAssumption`, that a stack with diversity meets at most `2^MaxDistortion` coverages, as its
hypotheses cover the same number of words and, behind the first gap, words within the distortion limit only (`Add` makes room for that many);
`ConstraintAssumption` of the search, that zones lie one in the other or apart, as XML tags do, and that walls are finalised before the search, as
`Sentence::Read` does;
`QueueAssumption` of the filter, the size `filter_main.cc` chooses; and `ChainsAssumption`, that a chain has its source at the front and nowhere
else, as every chain built in `lm/builder` and `util/stream` has.

`SearchNormal_proofs`, for every sentence length, limit, stack size and set of sources.

* `TypeCorrect`: extensions of hypotheses are hypotheses; whatever pruning keeps is a subset.
* `DistortionReachable`: the first gap is within the limit of the end of the last phrase and of every
  covered word. This is inductive together with `TypeOK`: an extension at the gap resets the distance;
  one further right passed the look-ahead of `CanExtend`, and the new gap is the old one.
* `PatternsFit`: with a limit of at most 17, `GetID` passes its `CHECK` for every live hypothesis, since a covered word is at most 16 behind a gap
  that is within reach; for sentences of any length, where `expansion` has 20 words.
* `ConstraintsKept`, about walls and zones. The part about `FinalizeWalls` is an induction over the zones: in the end every
  wall inside zones is a local wall of the innermost one that has it before its last word, whatever the order in which they were set, and the others stay walls. From it and the
  tests of `Check` follows the inductive `ConstraintInv`: walls and local walls are kept; the zones entered and not finished lie one in the other,
  around the end of the last phrase; and the first gap is in such a zone, or was jumped over when `Check` found it within reach of its end.
* `WallsAreKept` and `ZonesFinished`: no word behind a wall is translated before those in front of it, and a zone that is
  entered is finished before anything else is translated. The first is part of the invariant, the second follows from it for each step.
* `NoDeadEnds`: the single word at the first gap of the innermost zone entered, or of the sentence if there is none, may
  always be translated next. It is within the distortion limit by the two invariants, and each test of `Check` lets it through.
* `AlwaysAResult`: `ResultAvailable` is not inductive, since it speaks of the last
  stack only. `ResultInv` adds where the hypotheses of the current stack come from, that the seed is
  alone in stack 0, that every stack reached so far is filled, and that while a stack is expanded
  the next one is filled or has an extension coming: each hypothesis has, by `NoDeadEnds`, one of a single
  word.

`OnlineSession_proofs`, for any number of lines and users and any n-best lists: `NoLineRefused`,
`TranslationsPrinted` and `PostEditsTeach`. The inductive `SessionInv` ties the learning flag, the
kept post-edited sentence and the line being worked on to each other by phase; it is what
`RemoveJunk` and the two branches of `Sentence::Read` maintain together. `PostEditsTeach` is about all that is learned: the scores of phrase pairs, the weights of each
user, and `m_allWeights` where there are no users (with users, `Read` copies those of the line's user there).

`PCQueue_proofs`, for any ring size, producers, consumers, items and number of throws.

* `SlotsKept`: `SlotsAccounted` is inductive with `TypeOK`. It counts every slot as free, claimed, filled,
  being emptied or emptied, and places `produce_at_` relative to `consume_at_` and the filled slots.
* `NoTornRead` (`NoSlotReadWhileWritten`: no slot is read while it is written) follows: if both positions were equal while both are in use, the slots would not add up.
* `RefinesFIFO`: every step is a step of `BoundedFIFO` or a stutter. Besides the above it needs `CallsLeft`, that a thread inside
  a call has that call still to make. Fairness is left to the run.

`ThreadPool_proofs`, for any threads, tasks and queue limits, with spurious wakeups: `TasksInOnePlace`
by `TasksPlaced`, which says where submitted tasks are (queue, running thread, finished) and that
these places are disjoint; `StopCompletes` by `Progress`, which follows the client through `Submit` and `Stop`: the
queue is empty when `m_stopped` is set, and no thread is left once the client has joined them.

`ChartDecoder_proofs` begins with the collector: `WriteKeepsOrder`. If the outputs given so far are on the stream up to the first
that is missing, and the others are saved, this is so after one more `Write`. The flush loop is the choice of
the least number that is missing (`FirstMissingFound`), which exists since saved outputs are finitely many. Then it puts pool and
collector together: `DecoderTasksInOnePlace` and `DecoderStops` carry the pool's results over to the pool
with `main()` as its client; `DecoderOrdersOutput` is the refinement of `OrderedOutput` by both collectors (initial states and
steps); `DecoderWritesAll` that nothing is left unwritten. The last two assume `NumberedFromZero`,
and need to: with a `start-translation-id` other than 0 the collectors wait for output 0 for ever.

`HypothesisStackNormal_proofs`, for any classes, coverages, scores, sizes, diversity and number of offers: all five properties of the run
(`StackKeepsContract`, `NothingBetterLost`, `DiversityIsKept`, `OneOwnerEach`, `ArcsAlternatives`). None of them is inductive. The thresholds
link one offer to the next, so that `StackInv` says what they stand for: `m_worstScore` lies between the edge of the beam and
the best score, and when it is above that edge, as many hypotheses as the stack is meant to hold reach it (`RankKept`);
as many hypotheses of a coverage as the diversity asks for reach `m_diversityWorstScore` (`CoverageKept`); and every
hypothesis that is better than its threshold is on the stack or has a better one of its class there (`Represented`). `BestHeld` keeps the
best hypothesis through each pruning, `Owned` counts owners. The main lemma about the pruning, `PruneToSizeOK`, rests on one about sorted
lists (`FirstBound`, `Exchanged`): the elements in front of a place in any order by score are at least as good as those behind it, whatever
the sort does to ties. An offer is then deletion or arc, insertion, and perhaps pruning (`AddPruneOK`); expanding is pruning and `CleanupOK`.

`FilterController_proofs`, for any workers, batches, batch size and files.

* `OnePlace`: `BatchInOnePlace` counts the places of a batch: the reader's stack, three queues, the hands of the workers, `ordering_`. It
  needs the numbers: the output worker overwrites a place of `ordering_`, and only because no two batches in flight have one number
  (`Numbered`) and those that wait stand at theirs (`Ordered`) is that place free (`PlaceIsFree`). Lemmas on counting
  (`Counted`, `OneMore`, `CountAppend`, `CountTail`) say what each container does to the count; `HandOver` joins two of them to a step.
* `TurnsKept` states `Numbered` and `Ordered` themselves: what lets the output worker write by position.
* `SectionEndsAlone`: when `Flush` has got its batches back, all batches are on the reader's stack (as many as there are, each once, so
  all of them), hence none is in a hand or a queue, and the reader may write the end of the section.
* `OutputInOrder`: what has been written is a prefix of what one thread would write (`WrittenInOrder`). `LineInv` follows the lines: a batch
  that is busy (handed over, or being filled) has lines in order, behind all that is written (`LinesToCome`); batches have the order of their numbers
  (`BatchesInOrder`); an output buffer is empty until the filter has been through, and then has the lines that pass (`OutputBuffers`); what is written is in
  order and was to be written (`WrittenSoFar`), and what is missing of it, of the lines read, is in a busy batch (`NothingLost`). By `Numbered` and `Ordered` the batch that is written
  has the least number, hence the next lines; by `SectionEndsAlone` the end of a section comes behind all of them. Sequences are compared by
  their elements: two of them in ascending order, one with the first elements of the other, are prefix and whole (`PrefixByElements`). What the
  recursive `Selected` computes is `SelectedLines`, by induction in the form of a set that has 0 and the successor of each of its numbers (`Induction`).

`StreamChain_proofs`, for any chain, blocks, rounds and deleted entries.

* `BlocksApart`: `BlocksKeptApart` follows from the inductive `Inv`: a block is in a queue once, in one queue or one hand, the poison is the last thing
  a worker puts into a queue, and the chain has lost no block until the source ends, and one from then on.
* `NeverWaitsToPass`: a queue with a slot for each block has room whenever a worker has a block in hand, since that block and the one that is
  missing, the poisoned one or the poison itself, are not in the queue.
* `AllBlocksComeBack`: `Wait` never aborts, never finds the first queue empty, and has drained all blocks but the poisoned one when it returns. For this
  `WaitInv` adds that a queue the poison has gone through is empty and stays so (`PoisonTaken`), hence that all is in the first queue once
  the threads have ended.
* `EntriesWrittenInOrder`: `WrittenInOrder`, for chains of one writer (`Pipeline`: a source, then workers that delete entries, the writer, then those that
  restore the size; the chains of `MCStreamChain` have this shape). `CarryInv` follows the blocks from the source to the writer, in their queues and hands
  (`Slots`): a block's size is that of what it holds, different entries of this round less than `BlockSize` apart, in order before the first worker that deletes, none deleted behind it
  (`SlotsOK`); a block nearer to the writer has the earlier entries (`InTurn`), all later than what is written (`WrittenBefore`); what the source has put
  into a block is written or on its way (`NoneLost`), and the source has ended only when it had no more (`SourceDone`). A worker writes into the block in its hand
  alone, and no other place has that block (`BlocksApart`), so that the others keep theirs. When the threads have ended, nothing is on its way (`OnlyFirstLeft`), and the
  round is written (`Past`).

Checked by TLC only:

* Liveness (`Terminates`, `ClientGetsThrough`, `ChainEnds`, `EverythingWritten`, both refinements with fairness), since TLAPS does
  not treat fairness. The theorems above are its safety side: nothing is lost, and no thread finds its queue full, or empty for ever, in `Wait`.
* That IDs differ and the blocks of `MCExpansion`: exponents of two, and recursion over the pairs of phrases of a path.
* `OneStepPerSentence` and `OraclePairsStored` of the learner, folds over an n-best list.
* Future scores, cube pruning, the chart and the n-best lists, whose references enumerate derivations.

## 5. What the models leave out

* SearchNormal: constraint decoding (`CreateNext` returning NULL), the conditions for word
  lattices, `DisableDiscarding`, early discarding (part of the abstract `AddPrune`). Sources have a
  translated prefix only, and an option for each word: TranslationOptions models where it comes from, and
  `TranslationFound` that it is there.
* HypothesisStackNormal: beam widths are negative, as the parameter asks; a beam of zero would prune
  the best hypothesis too. `distinct` n-best lists, which clean no arcs, are left out.
* ReorderingConstraint: zones that cross without nesting, which XML tags cannot form, and which `ConstraintAssumption` rules out. ReorderingStack: scores and
  the states of the phrase-based and forward models.
* TranslationOptions: `max-trans-opt` over all spans of a sentence (unlimited by default), the persistent cache of
  options, generation steps. CubePruning: a beam width of 0 (`beam-threshold` 1), for which `PruneToSize` reads the top of an
empty heap (`moses/HypothesisStackCubePruning.cpp:171`; undefined), so that `TranslationFound` says nothing of it; lazy scoring of queue items (`cube-pruning-lazy-scoring`); a
  key of a grid cell cannot collide, as it can in the code beyond 65536 options; the language model is a bigram one.
* Manager: `n-best-factor` 0 (a thousand); lattice samples, word graphs, search graphs, consensus decoding.
* ChartRules: labels of the source (input trees), several factors, `drop-unknown`; the on-disk and per-sentence lookups, Scope3 and
  fuzzy-match parsing, which are other ways to find the rules. ChartCell: a language model of higher order than bigrams, with its
  state. ChartManager: search graphs, MBR. `CubesBestFirst` is stated in full for sentences whose language model says nothing, since the
  items of a cube are otherwise not ordered.
* OnlineSession: a multi-task line without user id, a last line without newline, MBR
  and lattice outputs. The two tokenisers of `_#_` (in `Sentence::Read` and in `main`) are taken to agree. The n-best list goes to a file and the 1-best to standard
  output. `PP_BEST` gains zero entries through `operator[]`, which change nothing, as only ones count.
* ChartDecoder: the remaining collectors, which are written the same way, and the debug stream.
* PCQueue: interrupted waits, which `WaitSemaphore` retries. FilterController: multiple outputs and the path with one thread; what the
  filter decides is a set of lines. StreamChain: errors of the operating system, `PRead`, sorting.

### Not modelled

* **CacheBasedLanguageModel, SingleTriggerModel.** A map from n-grams to ages. `Decay` steps back from an entry it has
  erased (from age 1001 on) and writes under a shared lock; what follows is undefined, and before that each operation is one
  assignment per entry.
* **SearchNormalBatch** has the control of SearchNormal and delays scores.
* **Input types, factors, parameters**: parsing of text and carriers of data; what they hold appears as constants and records.
* **MIRA and Hildreth, language models, phrase tables, training tools, contrib, scripts**: arithmetic on
  floating-point vectors, binary formats and sequential text processing. They are most of the repository's lines and have no
  state that interleaves; a model of them would be a transliteration.

## 6. Findings

Each of these is a run whose one property TLC finds violated.

| Run | The code | What it departs from |
|---|---|---|
| `lm_filter_flush` | `Flush` takes a new sequence number also when the current batch is empty; the number before is never produced, the output worker holds all later batches, and the reader waits for them for ever. This happens when a section is empty or a multiple of the batch size (in the run, two n-grams and batches of two) | "Assemble the output in order" |
| `session_tasks` | the weights of every task are stored under the current one, which gets those of the last task even if no constraint is violated | "set the weights in the memory for ith task" |

Met while modelling, and not given a run of their own: a raw n-gram file filtered on several threads loses its last batch if that is not full, since
nobody calls `Flush` (`lm/filter/count_io.hh:86`), although the usage offers raw files and threads together (`lm/filter/filter_main.cc:39` and 42);
`GetIDPlus` takes the word behind a span that fills the first gap for the new gap, covered or not (`moses/WordsBitmap.h:233`), so that it is not the ID "with an additional
span covered" of its comment (line 223), and early discarding then finds no threshold and discards nothing; `moses-chart-cmd` numbers its inputs from `start-translation-id`
(`moses-chart-cmd/IOWrapper.cpp:143`), while the collectors wait for output 0 (`moses/OutputCollector.h:79`), so that nothing is ever written when it is
not 0 (`DecoderWritesAll` assumes that it is); the chart decoder's n-best list has one path less than asked for unless
texts are to be distinct (`popLimit`, `moses/ChartManager.cpp:200`), and never a path with replacements in two branches of
the tree (line 244), so that it is not the list of "the n-best paths through the output hypergraph" of the comment (line 165); a time-out before the first stack reads `actual_hypoStack` uninitialised
(`moses/SearchNormal.cpp:75`); the word graph of a translation behind a post-edited line stays in its collector
(`moses-cmd/Main.cpp:666` counts translations only, while the collector is written for every line); stack diversity keeps more
hypotheses than the "exactly newSize" of the comment on `PruneToSize`; `Stop(false)` drops the
queue that the comment on `Stop` says it waits for; with several users a line to be translated gets no
n-best list, as the test for it (`moses-cmd/Main.cpp:288`) forgets the part that names the user; the
first path of the n-best list that uses a pair decides, so that a pair of the oracle may be penalised
where the README has it rewarded; the algorithm `perceptron` never updates the feature
(`moses/OnlineLearner.cpp:489`); a later decode graph is skipped for spans of exactly its back-off limit too, where the comment
says "exceeds" (`moses/TranslationOptionCollection.cpp:393`); and an unlimited distortion is `-1` for one half of cube
pruning and any negative number for the other, so that `BestFirst` is stated for a limited one.

## 7. Plan

Done: the modules above. Left, most important first:

1. **Proofs**: the injectivity of `GetID` (`IDsTellApart`), from `PatternsFit` and a lemma on powers of two; the safety part of cube pruning's
   `TranslationFound`, along the lines of `AlwaysAResult`; SearchNormal's pruning as an abstraction of HypothesisStackNormal, in one theorem.
2. **Runs** for the raw file and for `GetIDPlus` of section 6.
3. **Persistent option cache** of `StaticData` with several threads, and **SearchNormalBatch** as a variant of SearchNormal.
4. **Chart decoder**: the Scope3 and on-disk lookups as refinements of `Applicable`.
5. **CacheBasedLanguageModel**, once the erased iterator is repaired.
