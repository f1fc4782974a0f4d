\* Two servers, one gateway, three operations and two faults.
CONSTANTS
    Gateways = {g1}
    Keys = {k1, k2, k3}
    Servers = {s1, s2}
    None = None
    AllowReset = TRUE
    PageSize = 2
    MaxPages = 1
    MaxFaults = 2
SPECIFICATION Spec
SYMMETRY Symmetry
INVARIANTS
    JournalConsistent
    VersionNamesOneSecret
    OnlyAFailedResetStrands
    ActiveIsInForce
    RevokedIsDisabled
PROPERTIES
    DisclosedIsInForce
    
