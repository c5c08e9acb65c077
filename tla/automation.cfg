SPECIFICATION Spec
CONSTANTS
    s1 = s1
    c1 = c1
    w1 = w1
    w2 = w2
    Sync <- OneSync
    Connector <- OneConnector
    ConnectorOf <- OfTheConnector
    Worker <- TwoWorkers
    Days = 2
    Pages = 2
    Copies = 1
    MaxDeaths = 1
    Delivery = {d1, d2}
    Dispatcher <- TwoWorkers
    MaxPosts = 2
    ClaimLimit = 1
    MaxLosses = 1
    Run = {r1, r2}
    Consumer <- TwoWorkers
    MaxTries = 2
    MaxSetbacks = 2
    Change = {a, b}
    Sometimes = {a}
    Batch = 1
    MaxReceipts = 2
    MaxSweepDeaths = 1
INVARIANTS TypeOK ReportsItsWork SightingsAreKept
PROPERTIES ImplementsLeasedWork WorkEnds BacklogIsReached
CHECK_DEADLOCK FALSE
