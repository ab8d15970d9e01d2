SPECIFICATION PlannerSpec
CONSTANTS
    Targets = {0, 1}
    MaxGenerated = 2
    MaxPeriod = 31
    MaxStep = 1
    CadenceWindow = 2
    RaiseSamples = 4
    Sustained = 6
    AcquireSamples = 3
    ReleaseSamples = 4
    Warmup = 4
INVARIANTS
    CadenceInTandem
PROPERTIES
    FreshStart
    RaiseIsEarned
    SteadyRatio
    CeilingReached
