------------------------------ MODULE MCManager ------------------------------
EXTENDS Manager

CONSTANTS Seeds     \* how many families of scores

Threshold == -8

\* Scores that look random, between -6 and 0.
Noise(seed, a, b, c) == -(((seed * 37 + a * 11 + b * 23 + c * 41 + seed * a * b * 3 + seed * b * c * 5) % 101) % 7)

AllWords == {BeginOfSentence, "a", "b"}

Option(score, word) == [score |-> score, word |-> word]

\* Up to two options for most spans, with an unlimited lookup that finds one more for some.
Table(seed, graph) ==
  [span \in PhraseSpans |->
     LET n == (seed + span[1] * 3 + span[2] + graph * 5) % 4
         all == [i \in 1 .. IF n = 3 THEN 2 ELSE n |->
                   Option(Noise(seed, span[1] + graph, span[2], i)
                            + Noise(seed, span[2], span[1], i + graph),
                          IF (seed + i + span[1]) % 2 = 0 THEN "a" ELSE "b")]
     IN  [limited |-> IF (seed + span[1]) % 5 = 0 THEN <<>> ELSE all, all |-> all]]

Xml(seed) ==
  [type |-> IF seed % 9 = 1 THEN "exclusive" ELSE IF seed % 9 = 4 THEN "inclusive" ELSE "pass-through",
   options |-> [span \in Spans |->
      IF seed % 3 = 1 /\ span = <<1, 2>> THEN <<Option(-1, "a")>> ELSE <<>>]]

LM(seed) ==
  [w \in AllWords \X AllWords |->
     IF seed % 2 = 0 THEN 0
     ELSE -((seed + (IF w[1] = "a" THEN 1 ELSE 0) + (IF w[2] = "b" THEN 2 ELSE 0)) % 4)]

Completed(seed) == IF seed % 8 = 7 THEN {0} ELSE {}

Walls(seed) == IF seed % 10 = 5 THEN {1} ELSE {}

LimitsOf(popLimit, size, beam, diversity) ==
  [popLimit |-> popLimit, maxHypoStackSize |-> size, beamWidth |-> beam, diversity |-> diversity]

NoLimits == LimitsOf(Unlimited, Unlimited, NegInfinity, 0)

Limits == {LimitsOf(2, 2, -6, 1), LimitsOf(6, 1, -6, 0), LimitsOf(6, 2, NegInfinity, 1), NoLimits}

MCSentence(seed, limits, distinct) ==
  [tables |-> <<Table(seed, 1), Table(seed, 2)>>,
   backoff |-> <<0, seed % 4>>,
   xml |-> Xml(seed),
   unknown |-> [pos \in Positions(Size) |-> Option(-10, "a")],
   lm |-> LM(seed),
   completed |-> Completed(seed),
   constraint |-> FinalizeWalls(RawConstraint(Size, Walls(seed), <<>>)),
   popLimit |-> limits.popLimit, maxHypoStackSize |-> limits.maxHypoStackSize,
   beamWidth |-> limits.beamWidth, diversity |-> limits.diversity,
   distinct |-> distinct]

MCSentences ==
  {MCSentence(seed, limits, distinct) :
     seed \in 1 .. Seeds, limits \in Limits, distinct \in BOOLEAN}
=============================================================================
