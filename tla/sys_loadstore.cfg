SPECIFICATION Spec
CONSTANTS
    NPch = 1
    NRank = 1
    NBg = 1
    NBk = 2
    Row = {0, 1}
    Col = {0, 1}
    QueueSize = 2
    ActiveSize = 2
    PrioritySize = 2
    ReadLatency = 2
    MaxQuiet = 1
    MaxRefresh = 0
    Traces <- LoadStoreTraces
INVARIANTS
    ActiveRequestsHoldTheirRow
    WritesKeepOrder
PROPERTIES
    ImplementsService
