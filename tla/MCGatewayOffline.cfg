CONSTANTS
    MaxBatches = 1
    MaxBoots = 1
    MaxRows = 1
    MaxBytes = 1
    Sizes <- MCOneSize
    SampleCount = 1
    MaxSequence = 5
    Identities <- MCIdentities
    NoIdentity = NoIdentity
    InflightLimits <- OneSlot
    MaxAdmissionPages = 4
    FiniteTarget = 1
    AdmissionCapacity = 1
    MaxLosses = 1
SPECIFICATION LocalSpec
PROPERTIES
    FiniteRunEnds
