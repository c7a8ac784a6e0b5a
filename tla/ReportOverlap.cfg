SPECIFICATION FairSpec
CONSTANTS
    Ids = {i1, i2}
    Requests = {q1, q2}
    Configs = {c1, c2}
    Blank = {c2}
    Data = {d1, d2}
    Budget <- OverlapBudget
    Empty = Empty
    NoHash = NoHash
    NoId = NoId
    c1 = c1
    c2 = c2
    d1 = d1
    d2 = d2
    i1 = i1
    i2 = i2
    q1 = q1
    q2 = q2
INVARIANTS
    TypeOK
    HashMatchesContent
    PublishedIsComplete
PROPERTIES
    GenerationEnds
CHECK_DEADLOCK FALSE
