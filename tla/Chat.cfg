SPECIFICATION Spec
CONSTANTS
    Turns = {t1}
    MaxWords = 3
    MaxClears = 2
    Questions = {q1}
    Captures = {c1, c2}
    Voters = {v1, v2}
    Lookback = 1
    MaxKbNow = 2
    MaxVotes = 2
    NoCapture = nocapture
    Values = {"a", "b", "c"}
    Writers = {w1, w2}
    CapPerCategory = 2
    MaxCalls = 3
    Documents = {d1, d2}
    MaxEditions = 1
    MaxRestarts = 2
    MaxJobs = 2
CHECK_DEADLOCK FALSE
INVARIANTS
    StoresAreSound
    TurnsAreSound
    KnowledgeIsSound
PROPERTIES
    TurnEnds
