CONSTANTS
    T1 = T1
    T2 = T2
    H1 = H1
    H2 = H2
    H3 = H3
    O1 = O1
    O2 = O2
    O3 = O3
    None = None
    Threads <- MCThreads
    Handles <- MCHandles3
    Ids <- MCIds2
    Configs <- MCEither
    Signatures <- MCEitherSigns
    Default <- MCDefault
    MaxEdits = 1
SPECIFICATION Spec
CONSTRAINT MCScope
SYMMETRY MCSymmetry
INVARIANTS
    NoUseAfterRetire
    ReplacedIsRetired
    NoContextOutlivesDevice
    RegistryTracksDownstream
    OutputsMatchRuntime
    OrphansArePending
