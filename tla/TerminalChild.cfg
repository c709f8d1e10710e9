CONSTANT MaxRuns = 4
SPECIFICATION Spec
INVARIANTS
    TypeOK
    RunningIsReal
    RestartKeepsData
PROPERTIES
    ExitsActedUpon
CHECK_DEADLOCK FALSE
