CONSTANTS
    one = one
    two = two
    machine = machine
    k1 = k1
    k2 = k2
    One = one
    Two = two
    Machine = machine
    Steer = {one, two}
    Local = {two}
    MaxFaults = 4
    TmMaxTurn = 2
    TmMaxExtras = 1
    Agent = {one, two}
    MaxMishaps = 1
    CanLock = "yes"
    GlMaxBackend = 3
    GlMaxFaults = 2
    LcLoop = {one, two}
    LcPoll = {k1, k2}
    LcMaxUser = 2
    LcMaxRestart = 1
    LcMaxFaults = 1
SPECIFICATION MCSpec
INVARIANTS
    TypeOK
    NeverForgotten
    MachineHolds
PROPERTIES
    AtLeastOnce
    NotRunAgain
    AllEnds
CHECK_DEADLOCK FALSE
