SPECIFICATION Spec
CONSTANTS
    NPch = 2
    NRank = 1
    NBg = 1
    NBk = 1
    Row = {0, 1}
    Col = {0}
    QueueSize = 3
    ActiveSize = 3
    PrioritySize = 2
    ReadLatency = 2
    MaxQuiet = 1
    MaxRefresh = 2
    Traces <- MixedTraces
INVARIANTS
    TypeOK
    NoRequestLost
PROPERTIES
    ImplementsService
    RefreshHoldsOffActivation
