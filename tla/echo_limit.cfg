SPECIFICATION ConversationSpec
CONSTANTS
    Client = {us, c1, c2}
    Us = us
    MaxClient = 1
    Size = 2
    us = us
    c1 = c1
    c2 = c2
INVARIANTS
    ConversationTypeOK
    ClientsCounted
    ConversationWhole
PROPERTIES
    EvictsOnlyExcess
    LimitRestored
    ConversationEnds
CHECK_DEADLOCK FALSE
