\* The thread is stopped and started again while functions wait.
SPECIFICATION FairSpec
CONSTANTS
    MaxPushes = 6
    MaxStops = 3
INVARIANTS
    TypeOK
    PopFrontNeverThrows
    CalledInOrder
    StopCallsAll
PROPERTY
    NothingHangs
CHECK_DEADLOCK FALSE
