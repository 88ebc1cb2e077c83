CONSTANTS
    Window = 3
    MaxLog = 4
    CdEvery = 3
    CdReset = 3
    CdAct = 2
    CdMaxFaults = 3
    CvMaxSess = 4
    CvMaxTurn = 3
    CvMaxUser = 3
    CvMaxFaults = 1
    StMaxRec = 4
    StMaxTurn = 2
    StMaxFaults = 1
    p1 = p1
    p2 = p2
    McProc = {p1, p2}
    McMaxCmd = 3
    McMaxFaults = 1
SPECIFICATION MCSpec
INVARIANTS
    ExitHolds
    SessionsHold
PROPERTIES
    NoRedump
CHECK_DEADLOCK FALSE
