CONSTANTS
    Messages <- MCMessages
    Workers = {w1, w2}
    Sensors <- MCSensors
    KeyOf <- MCKeyOf
    SensorOf <- MCSensorOf
    BootOf <- MCBootOf
    FirstOf <- MCFirstOf
    LastOf <- MCLastOf
    TimeOf <- MCTimeOf
    LegacyKeys <- MCLegacy
    InitialState <- MCInitialState
    NoTime = 0
    NoWorker = NoWorker
SPECIFICATION FairTelemetrySpec
INVARIANTS
    ReportedIsNewest
PROPERTIES
    ImplementsLedger
    PersistReturns
