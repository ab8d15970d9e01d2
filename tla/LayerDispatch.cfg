SPECIFICATION Spec
CONSTANTS
    Devices = {d1, d2, d3}
    Keys = {k1, k2}
    Instances = {h1, h2}
    None = None
    MaxReloads = 2
SYMMETRY Symmetry
CHECK_DEADLOCK FALSE
INVARIANTS
    OwnDispatch
    HelperNeverHooked
    PathsApart
