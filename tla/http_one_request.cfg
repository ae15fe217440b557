SPECIFICATION ServersSpec
CONSTANTS
    Lengths = {0, 1, 2, 3, 4, 5, 6, 9, 12, 13, 15}
    IntBound = 6
    SizeBound = 32
    ReadBuffSize = 2
    MaxReads = 1
    Requests <- SomeRequests
    WellFormed <- SomeLines
    ReadLimit = 5
INVARIANTS
    ServersTypeOK
    StreamsClosed
    ContentLength
    AnswersFirstLine
PROPERTIES
    ResponseEnds
CHECK_DEADLOCK FALSE
