SPECIFICATION Spec
CONSTANTS
    Calls <- WideHeads
    Cost <- MCCost
    Hbms = 5
    GpuFlops = 3
    GpuBandwidth = 1
    AccBandwidth = 9
    GpuCapacity = 2500
    HbmCapacity = 100
    Cores = 3
    L1Capacity = 704
    L2Capacity = 100
    PeakFlops = 16
    OffBandwidth = 4
    L2Bandwidth = 8
    LinkBandwidth = 4
    Pj <- MCPj
    Unit = 16
INVARIANT
    WeightsInGraph
