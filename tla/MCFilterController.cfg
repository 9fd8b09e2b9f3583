SPECIFICATION Spec
CONSTANTS
    Workers = {w1, w2, w3}
    Queue = 6
    BatchSize = 2
    Inputs <- MCInputs
    Passes <- MCPasses
INVARIANTS
    WrittenInOrder
    BatchInOnePlace
PROPERTY
    EverythingWritten
CHECK_DEADLOCK FALSE
