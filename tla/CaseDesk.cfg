SPECIFICATION DeskSpec
CONSTANTS
    Cases = {k1, k2}
    Earlier = k1
    Tasks = {t1}
    Notes = {n1}
    Alerts = {a1}
    Users = {investigator, supervisor}
    Filers = {investigator}
    Supervisors = {supervisor}
    Requests = {q1, q2}
    Calls = {c1, c2}
    Statuses = {"open", "closed", "archived"}
    MaxServed = 3
    LastYear = 1
    Idle = Idle
    NoRow = NoRow
    q1 = q1
    q2 = q2
    c1 = c1
    c2 = c2
    k1 = k1
    k2 = k2
INVARIANTS
    DeskTypeOK
    NextNumberFree
    CaseFlagsAgree
    ReadKnowingly
PROPERTY StampsStay
SYMMETRY Sym
CHECK_DEADLOCK FALSE
