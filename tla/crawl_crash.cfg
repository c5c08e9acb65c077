SPECIFICATION BoundedSpec
CONSTANTS
    c1 = c1
    c2 = c2
    w1 = w1
    w2 = w2
    m1 = m1
    m2 = m2
    Crawl <- TwoCrawls
    SiteOf <- OneSite
    Slot <- TwoSlots
    Msg <- TwoMsgs
    Faults <- FaultKind
    MaxFaults = 2
INVARIANTS QueueIsDelivered LostOnlyAfterResult
PROPERTIES FinishedStaysFinished CrawlsSettle
CHECK_DEADLOCK FALSE
