SPECIFICATION Spec
CONSTANTS
    Lengths = {0, 1, 2, 3}
    IntBound = 4
    SizeBound = 16
    ReadBuffSize = 2
    MaxReads = 2
INVARIANTS
    HeaderFirst
CHECK_DEADLOCK FALSE
