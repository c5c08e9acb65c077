SPECIFICATION OutcomesSpec
CONSTANTS
    Change = {a, b}
    Sometimes = {a}
    Batch = 1
    MaxReceipts = 2
    MaxSweepDeaths = 0
PROPERTY WholeBacklogIsReached
CHECK_DEADLOCK FALSE
