SPECIFICATION Spec
CONSTANTS
    BufferCount = 4
    SourceChunks = 3
    LastChunk = 2
    KnownSizes = {3}
    ResumePositions = {0, 2}
    MaxConcurrentReads = 3
    MaxReadAhead = 3
    MaxConcurrentWrites = 2
    ReadFaults = {}
    WriteFaults = {0, 1, 2}
    MaxFaults = 2
    StopAnswers = {"SkipFile"}
    KillAllowed = TRUE
INVARIANTS
    ResumeSizeIsWritten
CHECK_DEADLOCK FALSE
