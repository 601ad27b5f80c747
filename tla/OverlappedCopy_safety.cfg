SPECIFICATION Spec
CONSTANTS
    BufferCount = 5
    SourceChunks = 4
    LastChunk = 3
    KnownSizes = {3, 4, 5}
    ResumePositions = {0, 3}
    MaxConcurrentReads = 3
    MaxReadAhead = 2
    MaxConcurrentWrites = 2
    ReadFaults = {1, 2, 3, 4, 5}
    WriteFaults = {0, 1, 2}
    MaxFaults = 2
    StopAnswers = {"SkipFile"}
    KillAllowed = TRUE
INVARIANTS
    TypeOK
    NoPositionLostOrDoubled
    BuffersConserved
    ReaderFinishesAfterEndOfFile
    SuccessMeansComplete
    ErrorPositionHasOwner
    NoLostWakeUp
    PushesNeverThrow
    ReadAheadBounded
PROPERTY
    ImplementsFileCopy
CHECK_DEADLOCK FALSE
