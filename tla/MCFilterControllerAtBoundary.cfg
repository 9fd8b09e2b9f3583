SPECIFICATION Spec
CONSTANTS
    Workers = {w1, w2}
    Queue = 4
    BatchSize = 2
    Inputs <- MCInputsAtBoundary
    Passes <- MCPasses
PROPERTY
    EverythingWritten
CHECK_DEADLOCK FALSE
