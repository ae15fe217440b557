SPECIFICATION FairSpec
CONSTANTS
    Acceptor = {1, 2}
    Connector = {k}
    Conn = {3, 4}
    MaxFd = 2
    FdSetSize = 1
    k = k
    Nobody = Nobody
    Free = Free
INVARIANTS
    TypeOK
    OwnDescriptor
    OnlyKnownLeaks
    EventsWatched
    DispatchReturnsLast
    CallbackArgumentsExist
CHECK_DEADLOCK FALSE
PROPERTIES
    AttemptDecided
    WaitingIsServed
