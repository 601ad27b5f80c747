SPECIFICATION Spec
CONSTANTS
    BufferCount = 4
    SourceChunks = 3
    LastChunk = 2
    KnownSizes = {3}
    ResumePositions = {0, 2}
    MaxConcurrentReads = 3
    MaxReadAhead = 3
    MaxConcurrentWrites = 2
    ReadFaults = {0, 1, 2, 3, 4, 5}
    WriteFaults = {}
    MaxFaults = 1
    StopAnswers = {"SkipFile"}
    KillAllowed = FALSE
INVARIANTS
    CompletionsNeverThrow
CHECK_DEADLOCK FALSE
