SPECIFICATION Spec
CONSTANTS
    d1 = d1
    brief = brief
    p1 = p1
    p2 = p2
    w1 = w1
    w2 = w2
    k1 = k1
    Draft <- OneDraft
    Target <- OneBrief
    TargetOf <- SameBrief
    Person <- TwoPeople
    Writer <- TwoWriters
    Chatter <- OneChatter
    MaxAttempts = 2
    Budget = 1
    MaxChats = 1
    MaxFaults = 1
PROPERTIES SentIsReviewed ReviewedTextSurvives EveryDraftSettles
CHECK_DEADLOCK FALSE
