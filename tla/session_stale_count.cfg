SPECIFICATION Spec
CONSTANTS
    ReadBuffSize = 2
    SendRoom = 2
    HalfDuplex = FALSE
    MaxIn = 3
    MaxMessages = 2
    MaxLen = 2
INVARIANT ResultZeroMeansStreamEnded
CHECK_DEADLOCK FALSE
