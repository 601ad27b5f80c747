SPECIFICATION FairSpec
CONSTANTS
    BufferCount = 3
    SourceChunks = 3
    LastChunk = 3
    KnownSizes = {3, 4}
    ResumePositions = {0, 2, 3}
    MaxConcurrentReads = 2
    MaxReadAhead = 3
    MaxConcurrentWrites = 2
    ReadFaults = {0, 1, 2, 3, 4, 5, 6}
    WriteFaults = {0, 1, 2, 3}
    MaxFaults = 2
    StopAnswers = {"SkipFile"}
    KillAllowed = TRUE
INVARIANTS
    CompletionsNeverThrow
PROPERTIES
    Terminates
