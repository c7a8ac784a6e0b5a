SPECIFICATION Spec
CONSTANTS
    Users = {u1}
    Requests = {q1, q2}
    MaxFailed = 2
    MaxServed = 5
    Idle = Idle
    q1 = q1
    q2 = q2
INVARIANTS
    TypeOK
    TokensSpent
    GuessesLimited
PROPERTIES
    LockStands
SYMMETRY SameRequests
CHECK_DEADLOCK FALSE
