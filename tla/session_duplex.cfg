SPECIFICATION LoopFairSpec
CONSTANTS
    ReadBuffSize = 2
    SendRoom = 2
    HalfDuplex = FALSE
    MaxIn = 3
    MaxMessages = 3
    MaxLen = 2
INVARIANTS
    TypeOK
    EventsOfLiveSession
    InputInOrder
    NoNullMessage
    ReportedOnce
    MessagesWhole
    WriteScheduled
    CloseIsHonoured
    FdClosedOnce
PROPERTIES
    CallsInOrder
    CallbackByCallback
    CallbackReturns
    FinEndsSession
CHECK_DEADLOCK FALSE
