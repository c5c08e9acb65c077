SPECIFICATION RoutineSpec
CONSTANTS
    Runner = {w1, w2}
    Horizon = 1
    MaxRunAttempts = 2
    MaxFailures = 1
    MaxRuns = 1
    MaxTroubles = 2
INVARIANTS RoutineTypeOK WorkIsNotRepeated
PROPERTY RunsEndForGood
CHECK_DEADLOCK FALSE
