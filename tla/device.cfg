SPECIFICATION Spec
CONSTANTS
    NPch = 2
    NRank = 1
    NBg = 2
    NBk = 1
    Row = {r1, r2}
    TrafficClasses <- MCClasses
INVARIANTS
    TypeOK
    OneRowPerBank
    BroadcastInStep
    RequestsConverge
