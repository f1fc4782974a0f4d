CONSTANTS
    MaxBatches = 2
    MaxBoots = 2
    MaxRows = 2
    MaxBytes = 2
    Sizes <- MCOneSize
    SampleCount = 1
    MaxSequence = 5
    Identities <- MCIdentities
    NoIdentity = NoIdentity
    InflightLimits <- OneSlot
    MaxAdmissionPages = 4
    FiniteTarget = 0
    AdmissionCapacity = 1
    MaxLosses = 0
SPECIFICATION BacklogFairSpec
PROPERTIES
    EventuallyRetired
