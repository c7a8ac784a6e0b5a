SPECIFICATION Spec
CONSTANTS
    Uploads = {u1, u2, u3}
    Contents = {c1, c2}
    Threads = {t1, t2}
    Budget <- RequestBudget
    NoFile = NoFile
    Partial = Partial
    NoRow = NoRow
    NoUpload = NoUpload
    u1 = u1
    u2 = u2
    u3 = u3
    c1 = c1
    c2 = c2
    t1 = t1
    t2 = t2
INVARIANTS
    OriginalsKept
    OneLiveRowPerContent
    AnswersHold
    TombstonesLogged
SYMMETRY UploadSymmetry
CHECK_DEADLOCK FALSE
