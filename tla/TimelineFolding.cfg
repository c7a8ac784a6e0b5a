SPECIFICATION Spec
CONSTANTS
    Ids = {i1, i2, i3}
    Origins = {o1, o2}
    Tags = {t1}
    Verdicts = {"unverified", "verified"}
    Requests = {r1, r2}
    Allowed <- FoldingAllowed
    NoId = NoId
    NoOrigin = NoOrigin
    o1 = o1
    o2 = o2
    t1 = t1
    i1 = i1
    i2 = i2
    i3 = i3
    r1 = r1
    r2 = r2
INVARIANTS
    MergeFlagsAgree
    OneMirrorPerOrigin
PROPERTIES
    MergeFoldsTags
SYMMETRY Sym
CHECK_DEADLOCK FALSE
