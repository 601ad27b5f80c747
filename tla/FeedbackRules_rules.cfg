\* A thread asks about two errors while rules are edited, reset and stored.
SPECIFICATION FairSpec
CONSTANTS
    Askers = {reader}
    Questions = {e1, e2}
    AnyQuestion = any
    Results = {skip, replace}
    MaxRules = 2
    MaxChanges = 2
    MaxFaults = 1
    MaxSessions = 1
INVARIANTS
    TypeOK
    StoresWhatApplies
PROPERTY
    RulesAreStored
CHECK_DEADLOCK FALSE
