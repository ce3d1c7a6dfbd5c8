SPECIFICATION FairSpec
CONSTANTS
    Callers = {c1, c2}
    Plans = {p1}
    Steps = {s1}
    Actions = {restart, scale}
    StepAction <- MCStepAction
    Tokens = {t1, t2}
    TokenTtl = 1
    PlanTtl = 1
    MaxTime = 2
    MaxRestarts = 1
    None = None
    restart = restart
CHECK_DEADLOCK FALSE
INVARIANTS
    OnlyAsPreviewed
    StepsAreSound
PROPERTIES
    StepSettles
