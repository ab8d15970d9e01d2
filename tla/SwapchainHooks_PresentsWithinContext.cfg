CONSTANTS
    T1 = T1
    T2 = T2
    H1 = H1
    H2 = H2
    H3 = H3
    O1 = O1
    O2 = O2
    O3 = O3
    None = None
    Threads <- MCThreads
    Handles <- MCHandles2
    Ids <- MCIds
    Configs <- MCGrowing
    Signatures <- MCGrowingSigns
    Default <- MCDefault
    MaxEdits = 1
SPECIFICATION Spec
CONSTRAINT MCFromBase
INVARIANT PresentsWithinContext
