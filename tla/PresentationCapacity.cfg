SPECIFICATION Spec
CONSTANTS
    MaxGenerated = 3
    EvidenceThreshold = 3
    ProbeThreshold = 12
    RecoveryBound = 16
    DeficitThreshold = 6
    EvaluationSamples = 3
INVARIANTS
    TypeOK
    CapacityCoherent
    ProbeIsOwn
PROPERTIES
    Gradual
    RecoversWhenCalm
