SPECIFICATION Spec
CONSTANTS
    r1 = r1
    r2 = r2
    s1 = s1
    s2 = s2
    p1 = p1
    p2 = p2
    p3 = p3
    p4 = p4
    mgr = mgr
    viewer = viewer
    Person = {ann, bob, cy}
    Founder = ann
    Requester <- TwoWorkers
    Nobody = Nobody
    Poster <- Posters
    Text <- Texts
    Skill <- Skills
    EffectOf <- Effects
    Permitted <- Roles
    MaxReads = 1
    Budget = 1
    MaxMessages = 4
    Question <- QuestionSet
    Tracker <- TwoSlots
    Scanner <- TwoWorkers
    Providers = 1
    MaxTracked = 2
    MonthBudget = 2
    MaxCost = 2
    MaxUnreckoned = 1
    MaxScans = 3
    Call <- ThreeCalls
    CallKey <- TwoKeys
    Asked <- TwoWishes
INVARIANTS TypeOK OwnerRemains LimitsYieldToOverlap TurnsAlternate ActsOnlyWhenTold RetriesAgree
SYMMETRY Alike
CHECK_DEADLOCK FALSE
