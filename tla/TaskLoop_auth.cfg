CONSTANTS
    N = 1
    MaxAttempts = 1
    MaxStrand = 1
    MaxRetries = 1
    MaxNoProgress = 1
    Kind = "cli"
    CanSwitch = TRUE
    Faults = {"auth"}
SPECIFICATION Spec
PROPERTIES AuthNeverDone
CHECK_DEADLOCK FALSE
