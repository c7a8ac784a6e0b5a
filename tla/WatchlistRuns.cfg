SPECIFICATION Spec
CONSTANTS
    Items = {i1, i2, i3}
    CaseOf <- TwoCases
    Texts <- Namesakes
    Entries = {e1}
    Terms <- NamesakeTerms
    Members <- TwoMembers
    Threshold = 2
    Slots = {s1, s2}
    MaxRetries = 1
    MostCauses = 1
    Budget <- RunBudget
    NoRow = NoRow
    Removed = Removed
    NoEntry = NoEntry
    i1 = i1
    i2 = i2
    i3 = i3
    caseA = caseA
    caseB = caseB
    owner = owner
    assignee = assignee
    e1 = e1
    s1 = s1
    s2 = s2
INVARIANTS
    TypeOK
    HitsCounted
    MatchesTold
SYMMETRY Sym
CHECK_DEADLOCK FALSE
