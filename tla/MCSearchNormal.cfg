SPECIFICATION Spec
CONSTANTS
  Size = 4
  MaxDistortion = 2
  MaxPhraseLength = 3
  MaxHypoStackSize = 1
  Sources <- AllSources
  TimeOut = TRUE
INVARIANTS DistortionReachability NoDeadEnd ResultAvailable WallsKept
PROPERTIES Terminates ZoneFinishedOnceEntered
CHECK_DEADLOCK FALSE
