CONSTANTS
    t1 = t1
    Tool = {t1}
    MaxProc = 2
    MaxPrompt = 2
SPECIFICATION Spec
INVARIANTS
    TypeOK
    LoadingNotStranded
    WorkIsTracked
PROPERTIES
    StepsLoseNothing
    TurnEnds
