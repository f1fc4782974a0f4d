CONSTANTS
    MaxLifetimes = 2
    Publishers = {p1}
    Slots = {s1}
    NoSlot = NoSlot
SPECIFICATION FairSpec
INVARIANTS
    OneSocket
    InvocationsAreNewest
    CloseLeavesNothing
PROPERTIES
    BecomesReady
    SupervisorLeaves
CHECK_DEADLOCK FALSE
