SPECIFICATION Spec
CONSTANTS
    ReadBuffSize = 2
    SendRoom = 2
    HalfDuplex = FALSE
    MaxIn = 3
    MaxMessages = 2
    MaxLen = 2
INVARIANT FdReleased
CHECK_DEADLOCK FALSE
