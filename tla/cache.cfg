SPECIFICATION Spec
CONSTANTS
    Configs <- MCConfigs
    Layers <- MCLayers
    OldFiles <- MCOldFiles
    MinimumHeads = 2
    MaxRows = 3
INVARIANTS
    TypeOK
    AnswersAreSimulated
    NoZeroCycleRow
    NothingSimulatedAgain
    MemoInStep
