SPECIFICATION FairSpec
CONSTANTS
    Files <- MCFiles
    Size <- MCSize
    Paths <- MCPaths
    PathOf <- MCPathOf
    NoFile = NoFile
    Existing <- MCExisting
    Plan <- MCPlanMove
    DeleteAfterEach = FALSE
    SavesOverlap = TRUE
    StaleStops = FALSE
    MaxKills = 1
    MaxCrashes = 1
    MaxSaves = 1
    MaxRestarts = 0
    MaxSkips = 0
    MaxStops = 0
INVARIANTS
    TypeOK
    NoDataLost
    ProcessedIsWhole
PROPERTIES
    KeepsUsersFiles
    RunEnds
CHECK_DEADLOCK FALSE
