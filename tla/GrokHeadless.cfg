CONSTANTS
    MaxProc = 2
    MaxFails = 2
    MaxExt = 1
SPECIFICATION Spec
INVARIANTS
    HeadlessHolds
PROPERTIES
    HeadlessSteps
    TurnsGoOn
