SPECIFICATION InsightSpec
CONSTANTS
    Turns = {1, 2}
    HistoryLimit = 3
    Contents = {1, 2}
    MaxBegun = 3
    Idle = Idle
    NoSummary = NoSummary
    Sources = {i1, i2, i3}
    Keys = {a1, a2, a3, a4}
    MaxNodes = 3
    FetchLimit = 4
    MaxEdges = 2
    MaxMentions = 5
    EventIds = {a1, a2, a3, a4}
    a1 = a1
    a2 = a2
    a3 = a3
    a4 = a4
    i1 = i1
    i2 = i2
    i3 = i3
    Types = {"call", "transfer"}
    Titles = {0, 1, 2}
    LastTick = 3
    GapThreshold = 1
    InactivityThreshold = 2
    DuplicateWindow = 1
    ConflictDistance = 2
    ClusterWindow = 1
    ClusterMinEvents = 2
    Undated = Undated
    CategoryOf <- MCCategoryOf
    Alike <- MCAlike
    NearlySame <- MCNearlySame
INVARIANTS
    AssistantCoherent
    GraphFaithful
    DetectorsFind
SYMMETRY Sym
CHECK_DEADLOCK FALSE
