----------------------------- MODULE SearchNormal -----------------------------
(***************************************************************************)
(* moses/SearchNormal.cpp: the stack decoder.  Hypotheses over the source  *)
(* sentence are expanded stack by stack, a stack per number of translated  *)
(* words, until the last stack holds the complete translations, or until   *)
(* the decoder runs out of time.                                           *)
(*                                                                         *)
(* A hypothesis is what the search tells apart: its coverage and the       *)
(* source span of its last phrase (-1 .. -1 where it has none).  Scores    *)
(* are abstract: AddPrune may discard, recombine or prune any hypothesis,  *)
(* but leaves a stack that it is given something for non-empty and within  *)
(* the tolerated size; PruneToSize keeps between one and MaxHypoStackSize  *)
(* hypotheses.  HypothesisStackNormal models these two with their scores   *)
(* and shows that they do.                                                 *)
(***************************************************************************)
EXTENDS Expansion

CONSTANTS
  MaxHypoStackSize,  \* GetMaxHypoStackSize
  Sources,           \* the sentences, as in Expansion, with the walls and zones their input sets
  TimeOut            \* whether -time-out is set

VARIABLES
  source,       \* the sentence being decoded
  stack,        \* m_hypoStackColl
  cur,          \* iterStack
  todo,         \* the hypotheses iterHypo has still to come to
  built,        \* the extensions of the current one still to be added
  phase,        \* "prune", "expand" or "done"
  interrupted,  \* interrupted_flag
  actual        \* actual_hypoStack, a stack or Uninitialized

vars == <<source, stack, cur, todo, built, phase, interrupted, actual>>

Uninitialized == -1

ASSUME SearchAssumption ==
  /\ MaxHypoStackSize \in Nat \ {0}
  /\ TimeOut \in BOOLEAN

\* A partial translation completes a prefix of the sentence, not all of it;
\* ProcessUnknownWord gives every word a translation option of its own.
ASSUME SourcesAssumption ==
  \A s \in Sources :
    /\ \E n \in 0 .. Size : (n = 0 \/ n < Size) /\ s.completed = 0 .. n - 1
    /\ s.options \subseteq Spans
    /\ \A pos \in Positions(Size) : <<pos, pos>> \in s.options

\* Of two zones that tags mark, one lies in the other or they have no word in common.
Nested(y, z) ==
  \/ y[2] < z[1] \/ z[2] < y[1]
  \/ z[1] <= y[1] /\ y[2] <= z[2]
  \/ y[1] <= z[1] /\ z[2] <= y[2]

\* The constraint is what FinalizeWalls makes of the walls and zones of the input; there may be any.
ASSUME ConstraintAssumption ==
  \A s \in Sources :
    /\ s.walls \subseteq Positions(Size)
    /\ s.zones \in Seq(Spans) /\ Len(s.zones) < NOT_A_ZONE
    /\ \A y, z \in DOMAIN s.zones : Nested(s.zones[y], s.zones[z])
    /\ s.constraint = FinalizeWalls(RawConstraint(Size, s.walls, s.zones))

-----------------------------------------------------------------------------
\* Two hypotheses with the same coverage recombine only if the states of all
\* feature functions agree; the distortion state is the end of the last phrase.
MayRecombine(hypo, other) ==
  hypo # other /\ hypo.cov = other.cov /\ hypo.last[2] = other.last[2]

\* What PruneToSize may leave of a stack.
PruneToSize(S) ==
  IF Cardinality(S) <= MaxHypoStackSize THEN {S}
  ELSE {kept \in SUBSET S : kept # {} /\ Cardinality(kept) <= MaxHypoStackSize}

\* Add prunes once the stack is "twice as big as needed".
ToleratedSize == 2 * MaxHypoStackSize - 1

\* Mutant: the first hypothesis offered to a stack may be discarded.
AddPruneDiscardingAny(S, hypo) ==
  {S} \cup PruneToSize(S \cup {hypo})

\* What AddPrune may make of a stack: hypo discarded or recombined with a
\* better one; a worse one replaced by hypo; hypo added.
AddPrune(S, hypo) ==
  (IF S = {} THEN {} ELSE {S})
    \cup {(S \ {worse}) \cup {hypo} : worse \in {h \in S : MayRecombine(hypo, h)}}
    \cup (IF Cardinality(S \cup {hypo}) <= ToleratedSize
          THEN {S \cup {hypo}} ELSE PruneToSize(S \cup {hypo}))

\* Extensions are built by start, then by end of the span.
BuiltBefore(hypo, other) ==
  \/ hypo.last[1] < other.last[1]
  \/ hypo.last[1] = other.last[1] /\ hypo.last[2] <= other.last[2]

-----------------------------------------------------------------------------
Init ==
  /\ source \in Sources
  /\ stack = [k \in 0 .. Size |->
                IF k = 0 THEN {InitialHypothesis(source.completed)} ELSE {}]
  /\ cur = 0
  /\ todo = {}
  /\ built = {}
  /\ phase = "prune"
  /\ interrupted = FALSE
  /\ actual = Uninitialized

\* The clock is read once per stack, before the stack is looked at.
OutOfTime ==
  /\ phase = "prune" /\ TimeOut
  /\ interrupted' = TRUE
  /\ phase' = "done"
  /\ UNCHANGED <<source, stack, cur, todo, built, actual>>

\* PruneToSize, and iterHypo at the first hypothesis of what it leaves.
BeginStack ==
  /\ phase = "prune"
  /\ \E kept \in PruneToSize(stack[cur]) :
       /\ stack' = [stack EXCEPT ![cur] = kept]
       /\ todo' = kept
  /\ phase' = "expand"
  /\ UNCHANGED <<source, cur, built, interrupted, actual>>

\* Mutant: iterHypo is not advanced.
ProcessOneHypothesisAgain ==
  /\ phase = "expand" /\ built = {}
  /\ \E hypo \in todo : built' = Extensions(source, hypo)
  /\ UNCHANGED <<source, stack, cur, todo, phase, interrupted, actual>>

\* ProcessOneHypothesis collects the spans it may be extended over ...
ProcessOneHypothesis ==
  /\ phase = "expand" /\ built = {}
  /\ \E hypo \in todo :
       /\ todo' = todo \ {hypo}
       /\ built' = Extensions(source, hypo)
  /\ UNCHANGED <<source, stack, cur, phase, interrupted, actual>>

\* ... and ExpandHypothesis adds each extension to the stack of its number
\* of translated words.
ExpandHypothesis ==
  /\ \E next \in built :
       /\ \A other \in built : BuiltBefore(next, other)
       /\ LET wordsTranslated == GetNumWordsCovered(next.cov)
          IN  \E S \in AddPrune(stack[wordsTranslated], next) :
                stack' = [stack EXCEPT ![wordsTranslated] = S]
       /\ built' = built \ {next}
  /\ UNCHANGED <<source, cur, todo, phase, interrupted, actual>>

\* "this stack is fully expanded".
EndStack ==
  /\ phase = "expand" /\ todo = {} /\ built = {}
  /\ actual' = cur
  /\ cur' = cur + 1
  /\ phase' = IF cur = Size THEN "done" ELSE "prune"
  /\ UNCHANGED <<source, stack, todo, built, interrupted>>

Next ==
  OutOfTime \/ BeginStack \/ ProcessOneHypothesis \/ ExpandHypothesis \/ EndStack

\* The decoder runs in one thread and nothing makes it wait.
Spec == Init /\ [][Next]_vars /\ WF_vars(Next)

-----------------------------------------------------------------------------
TypeOK ==
  /\ source \in Sources
  /\ stack \in [0 .. Size -> SUBSET Hypotheses]
  /\ cur \in 0 .. Size + 1 /\ (phase # "done" => cur <= Size)
  /\ todo \subseteq Hypotheses
  /\ built \subseteq Hypotheses
  /\ phase \in {"prune", "expand", "done"}
  /\ interrupted \in BOOLEAN
  /\ actual \in 0 .. Size \cup {Uninitialized}

Live == (UNION {stack[k] : k \in 0 .. Size}) \cup todo \cup built

\* The first gap stays within reach.  Whatever the hypothesis, its first gap
\* can be jumped to from the end of its last phrase, and will still be
\* reachable from the end of any word translated to the right of it.
GapWithinReach(hypo) ==
  \A gap \in Positions(Size) :
    gap = FirstGap(hypo) =>
      /\ ComputeDistortionDistance(hypo.last, gap) <= MaxDistortion
      /\ \A pos \in hypo.cov : pos + 1 - gap <= MaxDistortion

\* SearchNormal::ProcessOneHypothesis "ask[s] now what its maximum value will
\* be": no extension it makes leaves a gap that the distortion limit would
\* keep from ever being filled.
DistortionReachability ==
  MaxDistortion >= 0 => \A hypo \in Live : GapWithinReach(hypo)

\* No dead end: a hypothesis that is not complete can be extended.
NoDeadEnd ==
  \A hypo \in Live : hypo.cov # Positions(Size) => Extensions(source, hypo) # {}

(***************************************************************************)
(* Zones and walls of a sentence s.                                        *)
(***************************************************************************)
Zones(s) == DOMAIN s.constraint.zone

ZoneWords(s, z) == s.constraint.zone[z][1] .. s.constraint.zone[z][2]

\* Some words of the zone are translated, and some are not.
Entered(s, hypo, z) ==
  hypo.cov \cap ZoneWords(s, z) # {} /\ ~ZoneWords(s, z) \subseteq hypo.cov

\* A zone, "once entered, need[s] to finish": every phrase that follows translates a word of it,
\* until all are translated.
ZoneFinishedOnceEntered ==
  [][\A hypo \in todo \ todo', next \in built' \ built : \A z \in Zones(source) :
       Entered(source, hypo, z) => (next.cov \ hypo.cov) \cap ZoneWords(source, z) # {}]_vars

KeepsWalls(s, hypo) ==
  /\ \A wall \in s.constraint.wall :
       (\E pos \in hypo.cov : pos > wall) => 0 .. wall \subseteq hypo.cov
  /\ \A z \in Zones(s) : \A wall \in ZoneWords(s, z) :
       /\ s.constraint.localWall[wall] = z
       /\ \E pos \in hypo.cov \cap ZoneWords(s, z) : pos > wall
       => {pos \in ZoneWords(s, z) : pos <= wall} \subseteq hypo.cov

\* Nothing behind a wall is translated before everything in front of it is, and nothing in a zone
\* behind a local wall before the words of the zone in front of it.
WallsKept == \A hypo \in Live : KeepsWalls(source, hypo)

\* The zones entered lie one in the other, and the last phrase ends in all of them.
EnteredZonesNest(s, hypo) ==
  \A y, z \in Zones(s) : Entered(s, hypo, y) /\ Entered(s, hypo, z) =>
    ZoneWords(s, y) \subseteq ZoneWords(s, z) \/ ZoneWords(s, z) \subseteq ZoneWords(s, y)

LastInEnteredZones(s, hypo) ==
  \A z \in Zones(s) : Entered(s, hypo, z) => hypo.last[2] \in ZoneWords(s, z)

\* The first gap is in a zone entered, or it was jumped over, which Check allows only if it
\* can be reached from the end of every zone around the place.
GapWithinReachOfZones(s, hypo) ==
  \A z \in Zones(s) : Entered(s, hypo, z) =>
    \/ FirstGap(hypo) \in ZoneWords(s, z)
    \/ \A y \in Zones(s) : ZoneWords(s, z) \subseteq ZoneWords(s, y) =>
         s.constraint.zone[y][2] - FirstGap(hypo) < DistortionLimit(MaxDistortion)

\* Why zones and walls make no dead end either: of the innermost zone that has been entered, the
\* first word not yet translated may always be translated next.
ConstraintKept(s, hypo) ==
  /\ KeepsWalls(s, hypo) /\ EnteredZonesNest(s, hypo)
  /\ LastInEnteredZones(s, hypo) /\ GapWithinReachOfZones(s, hypo)

ConstraintInv == \A hypo \in Live : ConstraintKept(source, hypo)

\* A hypothesis is in the stack of its number of translated words; only the
\* seed, that a partial translation begins with, is not.
StackOfCoverage ==
  \A k \in 0 .. Size : \A hypo \in stack[k] :
    \/ GetNumWordsCovered(hypo.cov) = k
    \/ k = 0 /\ hypo = InitialHypothesis(source.completed)

\* The stack GetBestHypothesis looks into.
ResultStack == IF interrupted THEN actual ELSE Size

\* There is a translation to output.  Every stack holds a hypothesis once the
\* iterator gets there, so neither the last stack nor the one that a time-out
\* falls back on is empty.  (When a partial translation is continued, the
\* stacks up to the number of completed words are, and the time-out may fall
\* back on one of them.)
ResultAvailable ==
  phase = "done" /\ (interrupted => source.completed = {} /\ actual # Uninitialized)
    => stack[ResultStack] # {}

(***************************************************************************)
(* The strengthening that makes StackOfCoverage and ResultAvailable        *)
(* inductive.  FirstStack is the first stack that the seed is extended     *)
(* into; NextStack gets an extension by one word from every hypothesis of  *)
(* the stack being expanded.                                               *)
(***************************************************************************)
FirstStack == GetNumWordsCovered(source.completed) + 1

NextStack == IF cur = 0 THEN FirstStack ELSE cur + 1

Reached(k) == k = 0 \/ k >= FirstStack

\* What is being expanded belongs to the current stack.
TodoFromCurrentStack ==
  \A hypo \in todo :
    IF cur = 0 THEN hypo = InitialHypothesis(source.completed)
    ELSE GetNumWordsCovered(hypo.cov) = cur

\* The seed is alone in stack 0, and no extension goes there.
SeedAlone ==
  /\ stack[0] = {InitialHypothesis(source.completed)}
  /\ \A hypo \in built : GetNumWordsCovered(hypo.cov) > 0

\* No stack that has been expanded, or comes next, is empty.
StacksFilled ==
  /\ \A k \in 0 .. Size : Reached(k) /\ k < cur => stack[k] # {}
  /\ phase # "done" /\ Reached(cur) => stack[cur] # {}
  /\ cur > 0 /\ FirstStack <= Size => stack[FirstStack] # {}

\* While a stack is expanded, the next one is filled or about to be.
NextStackFilled ==
  phase = "expand" /\ Reached(cur) /\ NextStack <= Size =>
    \/ todo # {}
    \/ stack[NextStack] # {}
    \/ \E hypo \in built : GetNumWordsCovered(hypo.cov) = NextStack

PhaseEnd ==
  /\ phase = "done" /\ ~interrupted => cur = Size + 1
  /\ actual # Uninitialized => actual < cur

ResultInv ==
  /\ TodoFromCurrentStack /\ SeedAlone /\ StackOfCoverage
  /\ StacksFilled /\ NextStackFilled /\ PhaseEnd

\* The search ends.
Terminates == <>(phase = "done")
=============================================================================
