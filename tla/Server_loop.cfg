SPECIFICATION ServerSpec
CONSTANTS
    Sessions = {s1, s2, s3}
    MonitorSessions = {m1}
    NULL = NULL
    MaxTimeout = 2
    MaxTime = 3
INVARIANTS
    WellLinked
    Ordered
    DestroyFindsNobody
PROPERTIES
    ExpiryComplete
    ShutdownEnds
