CONSTANTS
    States = 3
    MaxElapsed = 1
    Settle = 1
    SchedulerHold = 1
    Cooldown = 1
    OutputCooldown = 1
    NoBenefitHold = 2
    RevertHold = 2
    DownConfirm = 2
    ThermalConfirm = 1
    OutputConfirm = 1
    UpConfirm = 2
    DownEvaluation = 2
    OutputEvaluation = 1
    PacingEvaluation = 2
    RegressionConfirm = 1
    Ring = 3
    Warmup = 1
SPECIFICATION Spec
INVARIANTS
    EvaluatesItsStep
    WarmIsBlind
PROPERTIES
    NoStepInTransit
    FreshEvidence
    SeedIsSilent
    TransitionEnds
CHECK_DEADLOCK TRUE
