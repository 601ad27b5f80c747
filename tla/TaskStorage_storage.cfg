\* Two tasks, two changes of one of them, two faults, a crash or an exit before each of
\* two more sessions.
SPECIFICATION FairSpec
CONSTANTS
    Tasks <- TwoTasks
    MaxValue = 2
    MaxBusy = 1
    MaxFaults = 2
    MaxSessions = 2
INVARIANTS
    TypeOK
    NothingForgotten
    StoresCanSucceed
    ListedTaskCanBeLoaded
    ObsoleteNotListed
PROPERTY
    EverythingIsStored
CHECK_DEADLOCK FALSE
