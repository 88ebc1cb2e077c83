CONSTANTS
    t1 = t1
    t2 = t2
    d1 = d1
    Task = {t1, t2}
    Delivery = {d1}
    ConfirmTicks = 2
    MaxSeen = 2
    Window = 1
    MaxFaults = 1
SPECIFICATION Spec
INVARIANTS AckSurvivesRestart
CHECK_DEADLOCK FALSE
