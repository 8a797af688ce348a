SPECIFICATION Spec
CONSTANTS
    Channels = 2
    Pchs = 1
    Ranks = 1
    Bgs = 2
    Banks = 2
    Macs = 2
    Rows = 64
    Cols = 4
    ColBytes = 4
    MaxLen = 32
    ValOffset = 512
    Group = 2
    Params <- MCParams
INVARIANTS
    TypeOK
    DataflowKept
    ScoresCoveredOnce
    VectorsInOrder
    PlacesOfTheirOwn
