SPECIFICATION Spec
CONSTANTS
    Evidence = {e1}
    Textual = {e1}
    Workers = {w1, w2}
    MaxRetries <- MCMaxRetries
    Allowed <- NoTrouble
    NoTask = NoTask
    e1 = e1
    w1 = w1
    w2 = w2
SYMMETRY WorkerSymmetry
INVARIANTS
    EveryEvidenceMatched
CHECK_DEADLOCK FALSE
