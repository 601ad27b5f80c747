SPECIFICATION Spec
CONSTANTS
    Files <- MCFiles
    Size <- MCSize
    Paths <- MCPaths
    PathOf <- MCPathOf
    NoFile = NoFile
    Existing <- MCExisting
    Plan <- MCPlanMoveReordered
    DeleteAfterEach = TRUE
    SavesOverlap = FALSE
    StaleStops = FALSE
    MaxKills = 1
    MaxCrashes = 0
    MaxSaves = 0
    MaxRestarts = 1
    MaxSkips = 2
    MaxStops = 1
INVARIANTS
    FinishedMeansCopied
CHECK_DEADLOCK FALSE
