SPECIFICATION Spec
CONSTANTS
    Ids = {i1, i2}
    Origins = {o1}
    Tags = {t1}
    Verdicts = {"unverified", "verified", "disputed"}
    Requests = {r1, r2}
    Allowed <- CurationAllowed
    NoId = NoId
    NoOrigin = NoOrigin
    i1 = i1
    i2 = i2
    o1 = o1
    t1 = t1
    r1 = r1
    r2 = r2
INVARIANTS
    TypeOK
PROPERTIES
    ImplementsView
    VerdictsStand
CHECK_DEADLOCK FALSE
