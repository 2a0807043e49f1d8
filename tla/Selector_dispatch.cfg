SPECIFICATION Spec
CONSTANTS
    Sessions = {s1, s2}
    Threads = {t1}
    None = None
    RLimit = 4
    InitialElements = 0
    ItemsMax = 8
    EventsCapacity = 3
    Wanted <- MCWanted
SYMMETRY Symmetry
INVARIANTS
    OwnersMatch
    HandlerGetsOwner
    InBounds
    NoLostWakeup
