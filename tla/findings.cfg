SPECIFICATION Spec
CONSTANTS
    a1 = a1
    a2 = a2
    a3 = a3
    h = h
    c1 = c1
    c2 = c2
    w1 = w1
    w2 = w2
    e1 = e1
    e2 = e2
    Opportunity <- TwoRules
    PageOf <- OnePage
    Crawl <- TwoCrawls
    Analyst <- TwoConsumers
    Drafter <- TwoWorkers
    MaxProposals = 2
    Nobody = Nobody
    Page <- Pages
    Home <- h
    MaxDepth = 2
    MaxLinks = 2
    MaxDeclared = 1
    Limits <- CrawlLimits
    Topic = {t1}
    Window <- TwoWindows
    Refresher <- TwoWorkers
    Generator = {g1}
    Editor <- TwoPeople
    Writer = {x1}
    MaxRefreshes = 2
    MaxAsks = 2
    Searches = 4
    Word <- FourWords
    StemOf <- Stemmed
    Searchable <- ShortSearches
    LabelSize = 1
INVARIANTS TypeOK FixedStaysClosed SweepDraftsAPageOnce CrawlIsComplete ClustersAreTopics
PROPERTY BriefsAreKept
SYMMETRY Alike
CHECK_DEADLOCK FALSE
