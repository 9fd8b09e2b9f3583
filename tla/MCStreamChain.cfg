SPECIFICATION Spec
CONSTANTS
    BlockCount = 3
    BlockSize = 3
    Chains <- MCChains
    Rounds <- MCRounds
    Dropped <- MCDropped
INVARIANTS
    WrittenInOrder
    BlocksKeptApart
PROPERTY
    ChainEnds
CHECK_DEADLOCK FALSE
