SPECIFICATION ManagerSpec
CONSTANTS
  Size = 4
  MaxDistortion = 2
  MaxPhraseLength = 2
  MaxNoTransOptPerCoverage = 2
  TranslationOptionThreshold <- Threshold
  NBestSize = 4
  NBestFactor = 3
  TimeOut = TRUE
  Seeds = 8
  Sentences <- MCSentences
INVARIANTS
  FutureScoreIsBest
  BestFirst
  TranslationFound
  NBestIsTop
  ExactWhenUnpruned
CHECK_DEADLOCK FALSE
