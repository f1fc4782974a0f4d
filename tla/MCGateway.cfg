CONSTANTS
    MaxBatches = 2
    MaxBoots = 1
    MaxRows = 2
    MaxBytes = 2
    Sizes <- MCSizes
    SampleCount = 1
    MaxSequence = 5
    Identities <- MCIdentities
    NoIdentity = NoIdentity
    InflightLimits <- TwoSlots
    MaxAdmissionPages = 4
    FiniteTarget = 0
    AdmissionCapacity = 1
    MaxLosses = 1
SPECIFICATION Spec
INVARIANTS
    DeletedEntryIsNoticed
    PauseHasReason
