SPECIFICATION Spec
CHECK_DEADLOCK FALSE
INVARIANTS
    ReadsAreHonest
    InvestigationsAreWitnessed
    DiagnosesAreWitnessed
    AnswersAreGrounded
    LoopIsFaithful
    DispatchIsSound
    UpgradesAreSound
