SPECIFICATION ConsolesSpec
CONSTANTS
    Cases = {c1, c2}
    Items = {i1, i2}
    PerType = 1
    IndexSize = 2
    Fallback = 2
    PageSize = 2
    NoItem = NoItem
    NoCase = NoCase
    Rows = {r1, r2, r3, r4}
    r1 = r1
    r2 = r2
    r3 = r3
    r4 = r4
    PageLength = 2
    LastKey = 5
    NoRow = NoRow
    TableRows = {t1, t2}
    Priorities = {"low", "high"}
    t1 = t1
    t2 = t2
    MaxChanges = 1
    Missing = Missing
INVARIANTS
    SearchAgrees
    PagesMissNothing
    AnswersAddUp
SYMMETRY Sym
CHECK_DEADLOCK FALSE
