CONSTANTS
    Handlers = {h1, h2}
    Conns = {c1, c2}
    MaxConnections = 2
    MaxIdentities = 6
    None = None
SPECIFICATION FairSpec
INVARIANT
    PipesBelongToTheGate
PROPERTIES
    ImplementsGate
    LossIsTerminal
