CONSTANTS
    MaxBatches = 3
    MaxBoots = 2
    MaxRows = 2
    MaxBytes = 2
    Sizes <- MCOneSize
    SampleCount = 1
    MaxSequence = 5
    Identities <- MCIdentities
    NoIdentity = NoIdentity
    InflightLimits <- OneOrTwoSlots
    MaxAdmissionPages = 4
    FiniteTarget = 1
    AdmissionCapacity = 1
    MaxLosses = 0
SPECIFICATION Spec
INVARIANTS
    CompletedIsDelivered
PROPERTIES
    ImplementsDelivery
    ReplayBeforeGeneration
