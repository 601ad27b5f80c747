SPECIFICATION Spec
CONSTANTS
    Files <- MCFiles
    Size <- MCSize
    Paths <- MCPaths
    PathOf <- MCPathOf
    NoFile = NoFile
    Existing <- MCExisting
    Plan <- MCPlanCopy
    DeleteAfterEach = FALSE
    SavesOverlap = TRUE
    StaleStops = FALSE
    MaxKills = 0
    MaxCrashes = 1
    MaxSaves = 1
    MaxRestarts = 0
    MaxSkips = 0
    MaxStops = 0
INVARIANTS
    FinishedMeansCopied
CHECK_DEADLOCK FALSE
