CONSTANTS
    p1 = p1
    p2 = p2
    c1 = c1
    c2 = c2
    Store = {p1, p2}
    Fact = {c1, c2}
    MaxCalls = 2
    MaxFaults = 1
    BkJob = {p1, p2}
    BkUnkept = {3}
    BkMaxNow = 4
    BkMaxAsk = 2
    BkMaxFaults = 1
SYMMETRY Symmetry
SPECIFICATION MCSpec
INVARIANTS
    GraphHolds
    MissesOnlyRaced
    BackupHolds
PROPERTIES
    FlagsStay
CHECK_DEADLOCK FALSE
