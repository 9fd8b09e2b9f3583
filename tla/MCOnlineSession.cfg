SPECIFICATION SessionSpec
CONSTANTS
  p = p
  q = q
  r = r
  dropped = dropped
  Pairs <- SomePairs
  BlankPairs = {dropped}
  Algorithm = "alsoMira"
  FLearningRate = 2
  Users = 0
  MaxLines = 3
  NBestLists <- SomeNBestLists
INVARIANT EndsWithInput
PROPERTIES PrintsTranslationsOnly OnlyPostEditsTeach OneStepPerSentence OraclePairsStored
CHECK_DEADLOCK FALSE
