CONSTANTS
    AhMaxTurn = 3
    AhMaxFaults = 4
    MaxTurn = 2
    MaxExtra = 1
    CpMaxTurn = 3
    CpMaxFaults = 2
SPECIFICATION MCSpec
INVARIANTS
    HostHolds
    BackendsHold
PROPERTIES
    AllEnds
CHECK_DEADLOCK FALSE
