CONSTANTS
    t1 = t1
    d1 = d1
    d2 = d2
    Task = {t1}
    Delivery = {d1, d2}
    ConfirmTicks = 3
    MaxSeen = 1
    Window = 2
    MaxFaults = 4
    MaxMsg = 2
    MaxCopies = 4
    PollFaults = 2
    Poll = {1, 2}
    IsSteer = {1, 2}
    IsMaxFaults = 2
    IsMaxTurn = 2
    N = 2
    MaxAttempts = 1
    MaxStrand = 1
    MaxRetries = 1
    MaxNoProgress = 1
    Kind = "cli"
    CanSwitch = TRUE
    Faults = {}
    VgTask = 2
    VgMaxTries = 2
    VgMaxFaults = 1
SPECIFICATION MCSpec
INVARIANTS
    TypeOK
    AckedIsKept
    WorkHolds
PROPERTIES
    AllEnds
CHECK_DEADLOCK FALSE
