SPECIFICATION Spec
CONSTANTS
    Files <- MCFiles
    Size <- MCSize
    Paths <- MCPaths
    PathOf <- MCPathOf
    NoFile = NoFile
    Existing <- MCExisting
    Plan <- MCPlanMove
    DeleteAfterEach = FALSE
    SavesOverlap = FALSE
    StaleStops = TRUE
    MaxKills = 1
    MaxCrashes = 0
    MaxSaves = 0
    MaxRestarts = 0
    MaxSkips = 1
    MaxStops = 0
INVARIANTS
    NoDataLost
CHECK_DEADLOCK FALSE
