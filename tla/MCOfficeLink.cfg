CONSTANTS
    MaxPending = 2
    MaxWire = 3
    MaxFaults = 3
    MaxMsg = 2
    MaxControl = 2
    MaxConn = 3
    k1 = k1
    k2 = k2
    a = a
    b = b
    f1 = f1
    f2 = f2
    t1 = t1
    Call = {k1, k2}
    Client = {a, b}
    CallId = {1, 2}
    Frame = {f1, f2}
    Task = {t1}
    EventCap = 1
    MaxCalls = 2
    CallFaults = 2
SPECIFICATION MCSpec
INVARIANTS
    LinkHolds
    BadgeIsTrue
    ReadersHold
PROPERTIES
    AllEnds
CHECK_DEADLOCK FALSE
