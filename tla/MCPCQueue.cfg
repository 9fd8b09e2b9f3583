SPECIFICATION Spec
CONSTANTS
    Producers = {p1, p2}
    Consumers = {c1, c2}
    Size = 2
    Items <- MCItems
    Torn = Torn
    MaxThrows = 2
INVARIANTS
    SlotsAccounted
PROPERTY
    ImplementsFIFO
CHECK_DEADLOCK FALSE
