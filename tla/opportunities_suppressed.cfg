SPECIFICATION FindSpec
CONSTANTS
    a = a
    c1 = c1
    c2 = c2
    w1 = w1
    d1 = d1
    Opportunity <- OneRule
    PageOf <- OnePage
    Crawl <- TwoCrawls
    Analyst <- OneAnalyst
    Drafter <- OneDrafter
    MaxProposals = 1
    Nobody = Nobody
INVARIANT SuppressedIsNotDrafted
CHECK_DEADLOCK FALSE
