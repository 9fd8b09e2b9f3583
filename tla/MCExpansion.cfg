SPECIFICATION Spec
CONSTANTS
  Size = 20
  MaxDistortion = 17
  MaxPhraseLength = 20
  FirstWords = 6
  ShortPhrase = 3
  LongPhrase = 11
INVARIANTS
  IDsTellApart
  OrientationFollowsBlocks
CHECK_DEADLOCK FALSE
