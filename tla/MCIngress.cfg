CONSTANTS
    Deliveries <- MCDeliveries
    MessageOf <- MCMessageOf
    Malformed = {"d4"}
    Invalid = {"d3"}
    Workers = {w1, w2}
    QueueCapacity = 2
    Messages <- MCMessages
    KeyOf <- MCKeyOf
    SensorOf <- MCSensorOf
    BootOf <- MCBootOf
    FirstOf <- MCFirstOf
    LastOf <- MCLastOf
    None = None
SPECIFICATION FairSpec
INVARIANTS
    AckedIsStored
    DrainedIsFinished
PROPERTIES
    ShutdownEnds
    AcceptedIsHandled
CHECK_DEADLOCK FALSE
