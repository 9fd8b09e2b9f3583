SPECIFICATION SessionSpec
CONSTANTS
  p = p
  q = q
  r = r
  dropped = dropped
  Pairs <- SomePairs
  BlankPairs = {dropped}
  Algorithm = "alsoMira"
  FLearningRate = 2
  Users = 2
  MaxLines = 2
  NBestLists <- SomeNBestLists
INVARIANT EveryTaskLearns
CHECK_DEADLOCK FALSE
