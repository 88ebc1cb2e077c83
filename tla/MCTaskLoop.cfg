CONSTANTS
    N = 2
    MaxAttempts = 1
    MaxStrand = 1
    MaxRetries = 1
    MaxNoProgress = 2
    Kind = "sdk"
    CanSwitch = TRUE
    Faults = {"clobber", "human", "write"}
    CliStrand = 0
    CliNoProgress = 1
    SdkPeriodic = {"periodic", "send"}
    CliThrottle = {"throttle", "auth", "kill"}
    CliContext = {"context", "kill"}
SPECIFICATION MCSpec
INVARIANTS
    TypeOK
    LoopHolds
PROPERTIES
    CliReports
    SdkKeepsOut
CHECK_DEADLOCK FALSE
