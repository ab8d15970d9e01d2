SPECIFICATION Spec
CONSTANTS
    Ring = 3
    Warmup = 4
    MaxGenerated = 1
    MaxSource = 10
INVARIANTS
    NoSourceRace
    NoOutputRace
    InterpolatesItsPair
    GeneratesWithinEpoch
    GenericLockstep
