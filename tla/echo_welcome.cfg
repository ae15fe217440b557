SPECIFICATION Spec
CONSTANTS
    Client = {c1, c2}
    MaxClient = 1
    c1 = c1
    c2 = c2
INVARIANTS
    OnlyRefusedAreClosed
CHECK_DEADLOCK FALSE
