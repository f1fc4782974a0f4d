SPECIFICATION Spec
CONSTANTS
    alice = alice
    bob = bob
    olga = olga
    nina = nina
    s1 = s1
    old = old
    new = new
    p1 = p1
    p2 = p2
    p3 = p3
    Users = {alice, bob, olga, nina}
    Sensors = {s1}
    Names = {old, new}
    Procs = {p1, p2, p3}
    Admins = {alice, bob}
    Owner = olga
    OldName = old
    MaxTransactions = 3
    None = None
    Requests <- SomeRequests
SYMMETRY Symmetry
INVARIANTS
    OneOwner
    NoFalseInconsistency
    OnlyOldRoutesDeadlock
PROPERTIES
    UpdatedAtAdvances
    WrittenByOwner
    LastAdminFallsToALateDemotion
