SPECIFICATION FairSpec
CONSTANTS
    Loops = {1, 2}
    Actions = {1, 2}
    Tokens = {1, 2}
    TokenTtl = 1
    MaxIterations = 2
    MaxRetries = 1
    MaxSteps = 3
    MaxFaults = 1
    None = None
CHECK_DEADLOCK FALSE
INVARIANTS
    ApprovalsAreExclusive
    CardsAreHonoured
PROPERTIES
    RunSettles
