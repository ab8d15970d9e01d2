CONSTANTS
    MaxGenerated = 2
    Intervals = {8, 17}
    Steady = 8
    Ratio = 2
    Delays = {0, 1}
    Costs = {1, 2}
    Queues = {0, 2}
    Lateness = {9}
    ReserveMax = 2
    Warmup = 1
SPECIFICATION Spec
INVARIANT SlotsStillFit
PROPERTY PenaltyFades
