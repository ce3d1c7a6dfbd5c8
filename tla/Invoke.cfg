SPECIFICATION FairSpec
CONSTANTS
    Requests = {r1, r2}
    Targets = {edge}
    Tokens = {k1, k2}
    None = None
    Threshold = 2
    Window = 1
    Cooldown = 2
    Lease = 2
    MaxConcurrency = 1
    MaxCancels = 2
INVARIANTS
    HandlerIsSound
    SoleProbe
    FailuresBounded
PROPERTIES
    ProbesGovern
    NeverWedged
    Answered
