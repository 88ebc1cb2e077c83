CONSTANTS
    v = v
    r = r
    l1 = l1
    l2 = l2
    b1 = b1
    b2 = b2
    VncId = {v}
    RdpId = {r}
    MaxSessions = 2
    MaxReconnects = 2
    Loop = {l1, l2}
    Bridge = {b1, b2}
    MaxEv = 1
    PrMaxFaults = 1
SPECIFICATION MCSpec
INVARIANTS
    TunnelsHold
    PresenceHolds
PROPERTIES
    PresenceSteps
    AllEnds
CHECK_DEADLOCK FALSE
