SPECIFICATION Spec
CONSTANTS
    Machines <- MCMachines
    Configs <- MCConfigs
    Batches <- MCBatches
    Skips <- MCSkips
    Selections <- MCSelections
    OldFiles <- MCOldFiles
    MaxRuns = 2
INVARIANTS
    FilesAreOfTheirHost
    FramingIsFresh
    EveryCellOnce
    OneModelLoaded
    SweptCellsFit
