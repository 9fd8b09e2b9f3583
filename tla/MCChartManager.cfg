SPECIFICATION Spec
CONSTANTS
  Seeds = 10
  Labels <- MCLabels
  Inputs <- MCInputs
INVARIANTS
  BestRulesApplied
  CubesBestFirst
  TranslationFound
  SearchIsExact
  NBestIsTopOfNested
CHECK_DEADLOCK FALSE
