SPECIFICATION Spec
CONSTANTS
    Levels = 3
    Deltas = 2
    MaxGenerated = 2
    Graphs = {0, 1}
    MaxFrame = 5
    Builds <- MCBuilds
CHECK_DEADLOCK FALSE
INVARIANTS
    Barriered
    SharedIsOwned
    InterpolatesOwnPair
