SPECIFICATION OutboxSpec
CONSTANTS
    MaxBatches = 4
    MaxBoots = 2
    MaxRows = 3
    MaxBytes = 5
    Sizes <- MCSizes
    SampleCount = 2
    MaxSequence = 5
    Identities <- MCIdentities
    NoIdentity = NoIdentity
INVARIANTS
    QuotaHeld
    RangesDisjoint
