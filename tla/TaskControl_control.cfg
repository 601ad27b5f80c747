\* One loaded task and one new one, one slot, two commands, one exit.
SPECIFICATION FairSpec
CONSTANTS
    Tasks <- TwoTasks
    FirstNew = 2
    Limit = 1
    LoadedStates <- CleanlyStored
    PromptWake = TRUE
    EarlyCommands = FALSE
    MaxCommands = 2
    MaxSessions = 1
INVARIANTS
    TypeOK
    StoppedTaskDoesNoWork
    RemovedTaskHasNoThread
    KillHasStopper
    ActiveStateHasThread
    StartRefusedOnlyLate
PROPERTIES
    CommandsReturn
    ImplementsTaskSlots
CHECK_DEADLOCK FALSE
