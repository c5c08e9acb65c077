SPECIFICATION Spec
CONSTANTS
    g1 = g1
    g2 = g2
    n1 = n1
    h1 = h1
    p1 = p1
    p2 = p2
    s1 = s1
    s2 = s2
    s3 = s3
    a1 = a1
    a2 = a2
    r1 = r1
    r2 = r2
    None = None
    Google <- TwoGoogle
    Token <- Nothing
    Repo <- OneRepo
    Property <- TwoProperties
    Consent <- TwoConsents
    Admin <- OneAdmin
    Renewer <- OneRenewer
    MaxClients = 2
    MaxBounces = 1
SYMMETRY Alike
INVARIANTS TypeOK ActiveIsUsable
PROPERTY OnlyConsentMoves
CHECK_DEADLOCK FALSE
