SPECIFICATION FairSpec
CONSTANTS
    Evidence = {e1}
    Textual = {e1}
    Workers = {w1, w2}
    MaxRetries <- MCMaxRetries
    Allowed <- OverlapTrouble
    NoTask = NoTask
    e1 = e1
    w1 = w1
    w2 = w2
INVARIANTS
    TypeOK
    TasksHaveRows
    TimelineHasOrigin
    CompletedIsEnriched
    OriginMirroredOnce
PROPERTIES
    UploadsSettle
CHECK_DEADLOCK FALSE
