SPECIFICATION Spec
CONSTANTS
    Evidence = {e1}
    Textual = {e1}
    Workers = {w1, w2}
    MaxRetries <- MCMaxRetries
    Allowed <- FaultTrouble
    NoTask = NoTask
    e1 = e1
    w1 = w1
    w2 = w2
SYMMETRY WorkerSymmetry
CONSTRAINT FewTroubles
INVARIANTS
    MatchedUnlessEarly
    NoneStranded
CHECK_DEADLOCK FALSE
