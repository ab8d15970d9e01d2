SPECIFICATION Spec
SYMMETRY Symmetry
CONSTANTS
    Ring = 2
    Images = {i1, i2}
    MaxGenerated = 2
    Batches = {0, 2}
    Lead = 2
    MaxFaults = 1
    MaxSource = 3
INVARIANTS
    OneConsumer
    FencesInTandem
    DrainedRingIsFree
PROPERTIES
    PassesLetGoSafely
    RingRefined
