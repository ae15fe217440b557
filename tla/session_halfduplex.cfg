SPECIFICATION FairSpec
CONSTANTS
    ReadBuffSize = 4
    SendRoom = 2
    HalfDuplex = TRUE
    MaxIn = 3
    MaxMessages = 3
    MaxLen = 3
INVARIANTS
    NoUnknownError
PROPERTIES
    OutputIsStream
    SentOrEnded
CHECK_DEADLOCK FALSE
