---------------------------- MODULE MCChartManager ----------------------------
EXTENDS ChartManager

CONSTANTS Seeds     \* how many families of scores

MCLabels == {"S", "X"}

\* Scores that look random, between -40 and 0.
Noise(seed, a, b) == -(((seed * 37 + a * 11 + b * 23 + seed * a * b * 3) % 101) % 41)

Target(lhs, words, score) == [lhs |-> lhs, words |-> words, score |-> score]

ByScore(targets) == SortSeq(targets, LAMBDA a, b : a.score > b.score)

X(words, score) == Target("X", words, score)

\* The word b is in half of the tables; phrases and rules with one and two non-terminals.
XRules(seed) ==
  (<<"a">> :> ByScore(<<X(<<"u">>, Noise(seed, 1, 1)), X(<<"u", "v", "u">>, Noise(seed, 1, 2))>>))
    @@ (IF seed % 2 = 0 THEN <<>>
        ELSE <<"b">> :> ByScore(<<X(<<"w">>, Noise(seed, 2, 1)), X(<<"v", "w">>, Noise(seed, 2, 2))>>))
    @@ (IF seed % 3 = 0 THEN <<>> ELSE <<"a", "b">> :> <<X(<<"u", "w">>, Noise(seed, 3, 1))>>)
    @@ (IF seed % 4 = 0 THEN <<>> ELSE <<"a", "X">> :> <<X(<<"u", "[1]">>, Noise(seed, 4, 1))>>)
    @@ (<<"X", "b">> :> <<X(<<"[1]", "v">>, Noise(seed, 5, 1))>>)
    @@ (<<"X", "X">> :> ByScore(<<X(<<"[1]", "[2]">>, Noise(seed, 6, 1)),
                                  X(<<"[2]", "[1]">>, Noise(seed, 6, 2))>>))

GlueRules ==
  (<<"<s>">> :> <<Target("S", <<"<s>">>, 0)>>)
    @@ (<<"S", "X">> :> <<Target("S", <<"[1]", "[2]">>, -5)>>)
    @@ (<<"S", "</s>">> :> <<Target("S", <<"[1]", "</s>">>, 0)>>)

TargetWords == {"<s>", "u", "v", "w", "a", "b", "</s>"}

Weight(w) == IF w = "u" THEN 1 ELSE IF w = "v" THEN 2 ELSE 3

MCLM(seed) ==
  [pair \in TargetWords \X TargetWords |->
     IF seed % 3 = 0 THEN 0 ELSE -((seed * Weight(pair[1]) * Weight(pair[2]) * 5 + 7 * Weight(pair[1])) % 41)]

LimitsOf(popLimit, size, beam, ruleLimit, threshold, lazy) ==
  [popLimit |-> popLimit, maxHypoStackSize |-> size, beamWidth |-> beam, ruleLimit |-> ruleLimit,
   threshold |-> threshold, lazy |-> lazy]

NoLimits(lazy) == LimitsOf(Unlimited, Unlimited, NegInfinity, Unlimited, NegInfinity, lazy)

Limits == {LimitsOf(1, 1, -30, 1, -40, FALSE), LimitsOf(4, 1, NegInfinity, 2, -20, TRUE),
           LimitsOf(6, 2, -50, 3, NegInfinity, FALSE), NoLimits(TRUE), NoLimits(FALSE)}

\* A list of any size, of distinct texts or not, or none.
NBests == {[size |-> 0, distinct |-> FALSE, factor |-> 0], [size |-> 1, distinct |-> FALSE, factor |-> 0],
           [size |-> 4, distinct |-> FALSE, factor |-> 0], [size |-> 3, distinct |-> TRUE, factor |-> 2],
           [size |-> 3, distinct |-> TRUE, factor |-> 0]}

MCInput(seed, limits, nbest) ==
  [words |-> IF limits.popLimit = Unlimited THEN <<"<s>", "a", "b", "</s>">> ELSE <<"<s>", "a", "b", "a", "</s>">>,
   tables |-> <<[maxSpan |-> IF seed % 7 = 3 THEN 2 ELSE 0, rules |-> XRules(seed)],
                [maxSpan |-> 0, rules |-> GlueRules]>>,
   unknown |-> "X" :> -60,
   alwaysCreateDirect |-> seed % 6 = 5,
   xml |-> IF seed % 4 = 1 THEN <<[range |-> <<1, 2>>, target |-> X(<<"v">>, -11)]>> ELSE <<>>,
   lm |-> MCLM(seed),
   popLimit |-> limits.popLimit, maxHypoStackSize |-> limits.maxHypoStackSize,
   beamWidth |-> limits.beamWidth, ruleLimit |-> limits.ruleLimit, threshold |-> limits.threshold,
   lazy |-> limits.lazy,
   nBestSize |-> nbest.size, distinct |-> nbest.distinct, nBestFactor |-> nbest.factor]

MCInputs ==
  {MCInput(seed, limits, nbest) : seed \in 1 .. Seeds, limits \in Limits, nbest \in NBests}
=============================================================================
