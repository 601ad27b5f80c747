----------------------------- MODULE OverlappedCopy -----------------------------
(***************************************************************************)
(* The copying of one file by TOverlappedReaderWriterFB::Process: a reader *)
(* thread and a writer thread exchange a fixed pool of buffers, each with  *)
(* several asynchronous requests in flight, while the thread that called   *)
(* Process waits for both.                                                 *)
(*                                                                         *)
(* A buffer is named by the file position (in chunks) it was last given;   *)
(* the places it can be in are sets of positions, and an empty buffer is   *)
(* only counted.  Completion routines are the actions ReadCompletes...     *)
(* and WriteCompletes...; Windows delivers them only while the thread that *)
(* issued the request is in an alertable wait.                             *)
(***************************************************************************)
EXTENDS OrderedBufferQueue

CONSTANTS
    BufferCount,          \* buffers in the memory pool
    SourceChunks,         \* chunks of the source file that hold data
    LastChunk,            \* position of the first read that meets end of file
    KnownSizes,           \* lengths that GetFileSize may have reported at Start
    ResumePositions,      \* seek positions that the writer's Start may choose
    MaxConcurrentReads,
    MaxReadAhead,
    MaxConcurrentWrites,
    ReadFaults,           \* positions at which a read may fail
    WriteFaults,          \* positions at which a write may fail
    MaxFaults,            \* failures in one behaviour: a bound on the model
    StopAnswers,          \* answers other than Retry: SkipFile, Cancel, Pause
    KillAllowed           \* may the thread controller ask for the kill?

ASSUME PoolAssumption ==
    /\ BufferCount \in Nat \ {0}
    /\ MaxConcurrentReads \in Nat \ {0}
    /\ MaxReadAhead \in Nat \ {0}
    /\ MaxConcurrentWrites \in Nat \ {0}

\* The last read is either short or, when the file is a multiple of the chunk
\* size, empty.
ASSUME FileAssumption ==
    /\ SourceChunks \in Nat
    /\ LastChunk \in Nat
    /\ LastChunk = SourceChunks \/ LastChunk + 1 = SourceChunks
    /\ KnownSizes \subseteq Nat

\* The source does not shrink below the position where the copying starts.
ASSUME ResumeAssumption == ResumePositions \subseteq 0..SourceChunks

ASSUME FaultAssumption ==
    /\ ReadFaults \subseteq Nat
    /\ WriteFaults \subseteq Nat
    /\ MaxFaults \in Nat
    /\ StopAnswers \cap {"Continue", "KillRequest", "Error"} = {}
    /\ KillAllowed \in BOOLEAN

VARIABLES
    emptyBuffers,            \* TBufferList: how many buffers are free
    fullBuffers,             \* the queue from the reader to the writer
    readRetry,               \* TReadBufferQueueWrapper::m_tRetryBuffers
    nextReadPosition,
    dataSourceFinishedPos,
    readPossible,            \* the wrapper's auto-reset event
    reading,                 \* reads in flight
    leakedReads,             \* reads counted in flight whose buffer is gone
    readerPc, readerResult,
    readerKill,              \* the reader's m_eventLocalKill
    finishedBuffers,         \* the queue of written buffers
    writeRetry,              \* TWriteBufferQueueWrapper::m_tRetryBuffers
    writePossible,
    writing,                 \* writes in flight
    writtenLast,             \* bWrittenLastBuffer
    writerPc, writerResult,
    writerKill,
    processPc, processResult,
    dst,                     \* chunks the destination file holds
    dstSize,                 \* and its length, holes included
    knownSize,               \* current item's total size
    processed,               \* current item's processed size
    killed,                  \* the thread controller's kill event
    lost,                    \* buffers no thread holds any more
    faults,                  \* failures so far
    crashed                  \* an exception left a thread function

readerVars == <<readRetry, nextReadPosition, dataSourceFinishedPos, reading,
                leakedReads, readerPc, readerResult>>
writerVars == <<finishedBuffers, writeRetry, writing, writtenLast, writerPc,
                writerResult, dst, dstSize, processed>>
processVars == <<processPc, processResult, readerKill, writerKill>>
sharedVars == <<emptyBuffers, fullBuffers, readPossible, writePossible, lost,
                faults, crashed>>
vars == <<readerVars, writerVars, processVars, sharedVars, knownSize, killed>>

Results == {"Continue", "KillRequest", "Error"} \cup StopAnswers

(***************************************************************************)
(* Reads after Start: UpdateFileStats has stored the source length, the    *)
(* writer's Start has truncated the destination to the resume position and *)
(* SetResumePosition has moved all three queues there.  Both threads are   *)
(* queued in the thread pool.                                              *)
(***************************************************************************)
Init ==
    /\ knownSize \in KnownSizes
    /\ processed \in {position \in ResumePositions : position <= knownSize}
    /\ dst = 0..(processed - 1) /\ dstSize = processed
    /\ nextReadPosition = processed
    /\ fullBuffers = EmptyQueue(processed)
    /\ finishedBuffers = EmptyQueue(processed)
    /\ emptyBuffers = BufferCount
    /\ dataSourceFinishedPos = NoPosition
    /\ readRetry = {} /\ reading = {} /\ writeRetry = {} /\ writing = {}
    /\ readPossible = TRUE /\ writePossible = TRUE
    /\ readerPc = "Wait" /\ writerPc = "Wait" /\ processPc = "Wait"
    /\ readerResult = "Continue" /\ writerResult = "Continue"
    /\ processResult = "Continue"
    /\ readerKill = FALSE /\ writerKill = FALSE /\ killed = FALSE
    /\ writtenLast = FALSE
    /\ leakedReads = 0 /\ lost = 0 /\ faults = 0
    /\ crashed = FALSE

-----------------------------------------------------------------------------
(* Data *)

IsLastPart(p) == p >= LastChunk

DataSize(p) == IF p < SourceChunks THEN 1 ELSE 0

IsDataSourceFinished == dataSourceFinishedPos # NoPosition

CanFail == faults < MaxFaults

-----------------------------------------------------------------------------
(* The reader: TOverlappedReaderFB over TReadBufferQueueWrapper *)

ReaderStops(result) ==
    /\ readerPc' = "Drain"
    /\ readerResult' = result

ReaderSignalled == killed \/ readerKill

\* Kill and local kill come first in the reader's list of handles.
ReaderKilled ==
    /\ readerPc = "Wait"
    /\ ReaderSignalled
    /\ ReaderStops("KillRequest")
    /\ UNCHANGED <<readRetry, nextReadPosition, dataSourceFinishedPos, reading,
                   leakedReads, writerVars, processVars, sharedVars, knownSize,
                   killed>>

\* The wait returns for the read-failed event.  The buffer is fetched in a later
\* step, HandleReadFailed: the writer may clear the queue in between.
ReadFailedSignalled ==
    /\ readerPc = "Wait"
    /\ ~ReaderSignalled
    /\ HasError(fullBuffers)
    /\ readerPc' = "ReadFailed"
    /\ UNCHANGED <<readRetry, nextReadPosition, dataSourceFinishedPos, reading,
                   leakedReads, readerResult, writerVars, processVars, sharedVars,
                   knownSize, killed>>

\* TReadBufferQueueWrapper::Push refuses to retry a read behind the end of file.
RetryRefused(p) == IsDataSourceFinished /\ p > dataSourceFinishedPos

HandleReadFailed ==
    /\ readerPc = "ReadFailed"
    /\ fullBuffers' = PopError(fullBuffers)
    /\ \/ \* "Cannot retrieve failed read buffer"
          /\ ~HasError(fullBuffers)
          /\ ReaderStops("Error")
          /\ UNCHANGED <<readRetry, readPossible, emptyBuffers, lost>>
       \/ \E p \in fullBuffers.error : \* answered Retry
             IF RetryRefused(p)
             THEN /\ ReaderStops("Error")
                  /\ lost' = lost + 1
                  /\ UNCHANGED <<readRetry, readPossible, emptyBuffers>>
             ELSE /\ readRetry' = readRetry \cup {p}
                  /\ readPossible' = TRUE
                  /\ readerPc' = "Wait"
                  /\ UNCHANGED <<readerResult, lost, emptyBuffers>>
       \/ \E answer \in StopAnswers :
             /\ HasError(fullBuffers)
             /\ ReaderStops(answer)
             /\ emptyBuffers' = emptyBuffers + 1
             /\ readPossible' = TRUE
             /\ UNCHANGED <<readRetry, lost>>
    /\ UNCHANGED <<nextReadPosition, dataSourceFinishedPos, reading, leakedReads,
                   writerVars, processVars, writePossible, faults, crashed,
                   knownSize, killed>>

\* Faulty variant: the limit of reads in flight is off by one.
ReadLimitsAllowOneMore ==
    /\ Cardinality(reading) + leakedReads <= MaxConcurrentReads
    /\ Cardinality(fullBuffers.buffers) < MaxReadAhead

\* Faulty variant: no limit to reading ahead.
ReadLimitsAllowAhead == Cardinality(reading) + leakedReads < MaxConcurrentReads

\* The conditions under which TReadBufferQueueWrapper::Pop yields a buffer.
ReadLimitsAllow ==
    /\ Cardinality(reading) + leakedReads < MaxConcurrentReads
    /\ Cardinality(fullBuffers.buffers) < MaxReadAhead

\* Faulty variant: the empty list is not asked whether it has a buffer.
CanStartNewReadUnchecked == readRetry = {} /\ ~IsDataSourceFinished

CanStartNewRead == readRetry = {} /\ ~IsDataSourceFinished /\ emptyBuffers > 0

ReadPossibleSignalled ==
    /\ readerPc = "Wait"
    /\ ~ReaderSignalled
    /\ ~HasError(fullBuffers)
    /\ readPossible
    /\ UNCHANGED <<dataSourceFinishedPos, leakedReads, writerVars, processVars,
                   fullBuffers, writePossible, lost, crashed, knownSize, killed>>

\* OnReadPossible when the wrapper has nothing to give; the event was consumed.
NothingToRead ==
    /\ ReadPossibleSignalled
    /\ ~(ReadLimitsAllow /\ (readRetry # {} \/ CanStartNewRead))
    /\ readPossible' = FALSE
    /\ UNCHANGED <<readRetry, nextReadPosition, reading, readerPc, readerResult,
                   emptyBuffers, faults>>

\* ReadFileFB either issues the request or fails and is answered with a stop.
IssueRead(p) ==
    \/ /\ reading' = reading \cup {p}
       /\ UNCHANGED <<readerPc, readerResult, faults>>
    \/ /\ CanFail
       /\ faults' = faults + 1
       /\ \E answer \in StopAnswers : ReaderStops(answer)
       /\ UNCHANGED reading

\* A buffer whose request was not issued goes back to the empty ones.
ReturnedUnlessIssued == IF reading' = reading THEN 1 ELSE 0

RetryRead ==
    /\ ReadPossibleSignalled
    /\ ReadLimitsAllow
    /\ \E p \in readRetry :
          /\ IsFirst(readRetry, p)
          /\ readRetry' = readRetry \ {p}
          /\ IssueRead(p)
    /\ emptyBuffers' = emptyBuffers + ReturnedUnlessIssued
    /\ UNCHANGED <<nextReadPosition, readPossible>>

\* Faulty variant: the next buffer is given the same position.
StartNewReadSamePosition ==
    /\ ReadPossibleSignalled
    /\ ReadLimitsAllow
    /\ CanStartNewRead
    /\ IssueRead(nextReadPosition)
    /\ emptyBuffers' = emptyBuffers - 1 + ReturnedUnlessIssued
    /\ UNCHANGED <<nextReadPosition, readRetry, readPossible>>

StartNewRead ==
    /\ ReadPossibleSignalled
    /\ ReadLimitsAllow
    /\ CanStartNewRead
    /\ nextReadPosition' = nextReadPosition + 1
    /\ IssueRead(nextReadPosition)
    /\ emptyBuffers' = emptyBuffers - 1 + ReturnedUnlessIssued
    /\ UNCHANGED <<readRetry, readPossible>>

\* The reading-finished event has the highest index: everything above is quiet.
ReaderFinished ==
    /\ readerPc = "Wait"
    /\ ~ReaderSignalled
    /\ ~HasError(fullBuffers)
    /\ ~readPossible
    /\ fullBuffers.readingFinished
    /\ ReaderStops("Continue")
    /\ UNCHANGED <<readRetry, nextReadPosition, dataSourceFinishedPos, reading,
                   leakedReads, writerVars, processVars, sharedVars, knownSize,
                   killed>>

ReaderAlertable == readerPc \in {"Wait", "Drain"}

SetDataSourceFinished(p) ==
    dataSourceFinishedPos' =
        IF IsLastPart(p) /\ (IsDataSourceFinished => p < dataSourceFinishedPos)
        THEN p ELSE dataSourceFinishedPos

ReadCompletes(p) ==
    /\ ReaderAlertable
    /\ p \in reading
    /\ reading' = reading \ {p}
    /\ SetDataSourceFinished(p)
    /\ fullBuffers' = Push(fullBuffers, p, IsLastPart(p))
    /\ readPossible' = TRUE
    /\ writePossible' = TRUE
    /\ UNCHANGED <<readRetry, nextReadPosition, leakedReads, readerPc, readerResult,
                   writerVars, processVars, emptyBuffers, lost, faults, crashed,
                   knownSize, killed>>

\* A read fails of itself, or because CancelIo aborted it.
ReadFails(p) ==
    /\ ReaderAlertable
    /\ p \in reading
    /\ \/ readerPc = "Drain" /\ UNCHANGED faults
       \/ p \in ReadFaults /\ CanFail /\ faults' = faults + 1
    /\ reading' = reading \ {p}
    /\ UNCHANGED <<nextReadPosition, dataSourceFinishedPos, writerVars, processVars,
                   emptyBuffers, writePossible, knownSize, killed>>

ReadCompletesFailed(p) ==
    /\ ReadFails(p)
    /\ \A q \in SentToRetry(fullBuffers, p) : ~RetryRefused(q)
    /\ fullBuffers' = PushError(fullBuffers, p)
    /\ readRetry' = readRetry \cup SentToRetry(fullBuffers, p)
    /\ readPossible' = TRUE
    /\ UNCHANGED <<leakedReads, readerPc, readerResult, lost, crashed>>

\* The retry queue throws inside the completion routine, before the in-flight
\* counter is decreased.  The loop catches the exception; the final wait for the
\* requests in flight does not, and it leaves the thread function.
ReadCompletionThrows(p) ==
    /\ ReadFails(p)
    /\ \E q \in SentToRetry(fullBuffers, p) : RetryRefused(q)
    /\ lost' = lost + 1
    /\ leakedReads' = leakedReads + 1
    /\ IF readerPc = "Wait"
       THEN ReaderStops("Error") /\ UNCHANGED crashed
       ELSE crashed' = TRUE /\ UNCHANGED <<readerPc, readerResult>>
    /\ UNCHANGED <<fullBuffers, readRetry, readPossible>>

\* WaitForOnTheFlyBuffers, then ClearQueues (the full buffers are left alone).
ReaderDrained ==
    /\ readerPc = "Drain"
    /\ reading = {} /\ leakedReads = 0
    /\ emptyBuffers' = emptyBuffers + Cardinality(readRetry)
    /\ readRetry' = {}
    /\ readPossible' = TRUE
    /\ readerPc' = "Done"
    /\ UNCHANGED <<nextReadPosition, dataSourceFinishedPos, reading, leakedReads,
                   readerResult, writerVars, processVars, fullBuffers, writePossible,
                   lost, faults, crashed, knownSize, killed>>

ReaderStep ==
    \/ ReaderKilled \/ ReadFailedSignalled \/ HandleReadFailed
    \/ NothingToRead \/ RetryRead \/ StartNewRead
    \/ ReaderFinished \/ ReaderDrained

ReaderCompletion ==
    \E p \in reading :
        ReadCompletes(p) \/ ReadCompletesFailed(p) \/ ReadCompletionThrows(p)

-----------------------------------------------------------------------------
(* The writer: TOverlappedWriterFB over TWriteBufferQueueWrapper *)

WriterStops(result) ==
    /\ writerPc' = "Drain"
    /\ writerResult' = result

WriterSignalled == killed \/ writerKill

WriterKilled ==
    /\ writerPc = "Wait"
    /\ WriterSignalled
    /\ WriterStops("KillRequest")
    /\ UNCHANGED <<finishedBuffers, writeRetry, writing, writtenLast, dst, dstSize,
                   processed, readerVars, processVars, sharedVars, knownSize, killed>>

\* The finished queue belongs to the writer alone: its events cannot change
\* between the return of the wait and the handler.
WriteFinishedSignalled ==
    /\ writerPc = "Wait"
    /\ ~WriterSignalled
    /\ HasPoppable(finishedBuffers)
    /\ finishedBuffers' = Pop(finishedBuffers)
    /\ UNCHANGED <<writeRetry, writing, dst, dstSize, readerVars, processVars, fullBuffers,
                   writePossible, crashed, knownSize, killed>>

ProcessedWith(p) == processed + DataSize(p)

\* Faulty variant: a source that turned out shorter is not noticed.
SizeMismatchIfLonger(p) == ProcessedWith(p) > knownSize

\* AdjustProcessedSize throws when more was written than the known length and
\* AdjustFinalSize when less was; the popped buffer is not returned.
SizeMismatch(p) ==
    \/ ProcessedWith(p) > knownSize
    \/ IsLastPart(p) /\ ProcessedWith(p) < knownSize

WriteAccounted ==
    LET p == finishedBuffers.expected IN
    /\ WriteFinishedSignalled
    /\ ~SizeMismatch(p)
    /\ processed' = ProcessedWith(p)
    /\ emptyBuffers' = emptyBuffers + 1
    /\ readPossible' = TRUE
    /\ IF IsLastPart(p)
       THEN writtenLast' = TRUE /\ WriterStops("Continue")
       ELSE UNCHANGED <<writtenLast, writerPc, writerResult>>
    /\ UNCHANGED <<lost, faults>>

WriteSizeMismatch ==
    LET p == finishedBuffers.expected IN
    /\ WriteFinishedSignalled
    /\ SizeMismatch(p)
    /\ processed' = IF ProcessedWith(p) > knownSize THEN processed
                                                    ELSE ProcessedWith(p)
    /\ lost' = lost + 1
    /\ WriterStops("Error")
    /\ UNCHANGED <<writtenLast, emptyBuffers, readPossible, faults>>

\* FinalizeFileFB or SetBasicInfo fails on the last part, answered with a stop.
FinalizeFails ==
    /\ WriteFinishedSignalled
    /\ IsLastPart(finishedBuffers.expected)
    /\ CanFail
    /\ faults' = faults + 1
    /\ \E answer \in StopAnswers : WriterStops(answer)
    /\ emptyBuffers' = emptyBuffers + 1
    /\ readPossible' = TRUE
    /\ UNCHANGED <<writtenLast, processed, lost>>

HandleWriteFailed ==
    /\ writerPc = "Wait"
    /\ ~WriterSignalled
    /\ ~HasPoppable(finishedBuffers)
    /\ HasError(finishedBuffers)
    /\ finishedBuffers' = PopError(finishedBuffers)
    /\ \/ \* answered Retry
          /\ writeRetry' = writeRetry \cup finishedBuffers.error
          /\ writePossible' = TRUE
          /\ UNCHANGED <<emptyBuffers, readPossible, writerPc, writerResult>>
       \/ /\ \E answer \in StopAnswers : WriterStops(answer)
          /\ emptyBuffers' = emptyBuffers + 1
          /\ readPossible' = TRUE
          /\ UNCHANGED <<writeRetry, writePossible>>
    /\ UNCHANGED <<writing, writtenLast, dst, dstSize, processed, readerVars, processVars,
                   fullBuffers, lost, faults, crashed, knownSize, killed>>

WriteLimitAllows == Cardinality(writing) < MaxConcurrentWrites

WritePossibleSignalled ==
    /\ writerPc = "Wait"
    /\ ~WriterSignalled
    /\ ~HasPoppable(finishedBuffers)
    /\ ~HasError(finishedBuffers)
    /\ writePossible
    /\ UNCHANGED <<finishedBuffers, writtenLast, dst, dstSize, processed, readerVars,
                   processVars, lost, crashed, knownSize, killed>>

NothingToWrite ==
    /\ WritePossibleSignalled
    /\ ~(WriteLimitAllows /\ (writeRetry # {} \/ HasPoppable(fullBuffers)))
    /\ writePossible' = FALSE
    /\ UNCHANGED <<writeRetry, writing, writerPc, writerResult, emptyBuffers,
                   fullBuffers, readPossible, faults>>

\* WriteFileFB either issues the request or fails and is answered with a stop.
IssueWrite(p) ==
    \/ /\ writing' = writing \cup {p}
       /\ UNCHANGED <<writerPc, writerResult, emptyBuffers, faults>>
    \/ /\ CanFail
       /\ faults' = faults + 1
       /\ \E answer \in StopAnswers : WriterStops(answer)
       /\ emptyBuffers' = emptyBuffers + 1
       /\ UNCHANGED writing

RetryWrite ==
    /\ WritePossibleSignalled
    /\ WriteLimitAllows
    /\ \E p \in writeRetry :
          /\ IsFirst(writeRetry, p)
          /\ writeRetry' = writeRetry \ {p}
          /\ IssueWrite(p)
    /\ readPossible' = (readPossible \/ emptyBuffers' # emptyBuffers)
    /\ UNCHANGED <<fullBuffers, writePossible>>

\* Faulty variant: the reader does not listen to the number of buffers read ahead.
StartWriteUnnoticed ==
    /\ WritePossibleSignalled
    /\ WriteLimitAllows
    /\ writeRetry = {}
    /\ HasPoppable(fullBuffers)
    /\ fullBuffers' = Pop(fullBuffers)
    /\ IssueWrite(fullBuffers.expected)
    /\ readPossible' = (readPossible \/ emptyBuffers' # emptyBuffers)
    /\ UNCHANGED <<writeRetry, writePossible>>

\* Taking a full buffer also tells the reader that read-ahead has room.
StartWrite ==
    /\ WritePossibleSignalled
    /\ WriteLimitAllows
    /\ writeRetry = {}
    /\ HasPoppable(fullBuffers)
    /\ fullBuffers' = Pop(fullBuffers)
    /\ IssueWrite(fullBuffers.expected)
    /\ readPossible' = TRUE
    /\ UNCHANGED <<writeRetry, writePossible>>

WriterAlertable == writerPc \in {"Wait", "Drain"}

WriteCompletes(p) ==
    /\ WriterAlertable
    /\ p \in writing
    /\ writing' = writing \ {p}
    /\ IF DataSize(p) > 0
       THEN /\ dst' = dst \cup {p}
            /\ dstSize' = IF p >= dstSize THEN p + 1 ELSE dstSize
       ELSE UNCHANGED <<dst, dstSize>>
    /\ finishedBuffers' = Push(finishedBuffers, p, IsLastPart(p))
    /\ writePossible' = TRUE
    /\ UNCHANGED <<writeRetry, writtenLast, writerPc, writerResult, processed,
                   readerVars, processVars, emptyBuffers, fullBuffers, readPossible,
                   lost, faults, crashed, knownSize, killed>>

WriteCompletesFailed(p) ==
    /\ WriterAlertable
    /\ p \in writing
    /\ \/ writerPc = "Drain" /\ UNCHANGED faults
       \/ p \in WriteFaults /\ CanFail /\ faults' = faults + 1
    /\ writing' = writing \ {p}
    /\ finishedBuffers' = PushError(finishedBuffers, p)
    /\ writeRetry' = writeRetry \cup SentToRetry(finishedBuffers, p)
    /\ writePossible' = TRUE
    /\ UNCHANGED <<writtenLast, writerPc, writerResult, dst, dstSize, processed, readerVars,
                   processVars, emptyBuffers, fullBuffers, readPossible, lost,
                   crashed, knownSize, killed>>

\* WaitForOnTheFlyBuffers, ClearBuffers (this clears the full buffers too, under a
\* reader that may still be running) and UpdateCurrentItemStatsFromFileSize, whose
\* silent GetFileSize may fail and which is outside the loop's try block.
WriterDrained ==
    /\ writerPc = "Drain"
    /\ writing = {}
    /\ emptyBuffers' = emptyBuffers + Count(fullBuffers)
                         + Cardinality(writeRetry) + Count(finishedBuffers)
    /\ fullBuffers' = Clear(fullBuffers)
    /\ finishedBuffers' = Clear(finishedBuffers)
    /\ writeRetry' = {}
    /\ readPossible' = TRUE
    /\ writePossible' = TRUE
    /\ \/ /\ writtenLast
          /\ processed' = 0
          /\ writerPc' = "Done"
          /\ UNCHANGED <<crashed, faults>>
       \/ /\ ~writtenLast
          /\ processed' = dstSize
          /\ IF dstSize > knownSize
             THEN crashed' = TRUE /\ UNCHANGED <<writerPc, faults>>
             ELSE writerPc' = "Done" /\ UNCHANGED <<crashed, faults>>
       \/ /\ ~writtenLast
          /\ CanFail
          /\ faults' = faults + 1
          /\ writerPc' = "Done"
          /\ UNCHANGED <<crashed, processed>>
    /\ UNCHANGED <<writing, writtenLast, writerResult, dst, dstSize, readerVars, processVars,
                   lost, knownSize, killed>>

WriterStep ==
    \/ WriterKilled \/ WriteAccounted \/ WriteSizeMismatch \/ FinalizeFails
    \/ HandleWriteFailed \/ NothingToWrite \/ RetryWrite \/ StartWrite
    \/ WriterDrained

WriterCompletion ==
    \E p \in writing : WriteCompletes(p) \/ WriteCompletesFailed(p)

-----------------------------------------------------------------------------
(* The calling thread: TOverlappedReaderWriterFB::Process *)

\* The reader's handle comes first; once seen it is replaced by one that is never
\* signalled.  A result other than Continue ends the wait.
ReaderDoneSeen ==
    /\ processPc = "Wait"
    /\ readerPc = "Done"
    /\ processResult' = readerResult
    /\ readerKill' = TRUE
    /\ processPc' = IF readerResult = "Continue" THEN "WaitWriter" ELSE "StopReader"
    /\ UNCHANGED <<writerKill, readerVars, writerVars, sharedVars, knownSize, killed>>

\* Faulty variant: the reader is not told to stop when the writer has ended.
WriterDoneSeenReaderKept ==
    /\ \/ processPc = "Wait" /\ readerPc # "Done"
       \/ processPc = "WaitWriter"
    /\ writerPc = "Done"
    /\ processResult' = writerResult
    /\ writerKill' = TRUE
    /\ processPc' = "StopReader"
    /\ UNCHANGED <<readerKill, readerVars, writerVars, sharedVars, knownSize, killed>>

WriterDoneSeen ==
    /\ \/ processPc = "Wait" /\ readerPc # "Done"
       \/ processPc = "WaitWriter"
    /\ writerPc = "Done"
    /\ processResult' = writerResult
    /\ writerKill' = TRUE
    /\ readerKill' = TRUE
    /\ processPc' = "StopReader"
    /\ UNCHANGED <<readerVars, writerVars, sharedVars, knownSize, killed>>

ReaderStopped ==
    /\ processPc = "StopReader"
    /\ readerPc = "Done"
    /\ writerKill' = TRUE
    /\ processPc' = "StopWriter"
    /\ UNCHANGED <<processResult, readerKill, readerVars, writerVars, sharedVars,
                   knownSize, killed>>

\* Destroying the reader and the writer empties their queues; then every buffer of
\* the pool has to be free, or Process throws.
WriterStopped ==
    /\ processPc = "StopWriter"
    /\ writerPc = "Done"
    /\ emptyBuffers' = emptyBuffers + Count(fullBuffers) + Count(finishedBuffers)
    /\ fullBuffers' = Clear(fullBuffers)
    /\ finishedBuffers' = Clear(finishedBuffers)
    /\ processResult' = IF emptyBuffers' = BufferCount THEN processResult
                                                       ELSE "Exception"
    /\ processPc' = "Done"
    /\ UNCHANGED <<readerKill, writerKill, readerVars, writeRetry, writing,
                   writtenLast, writerPc, writerResult, dst, dstSize, processed, readPossible,
                   writePossible, lost, faults, crashed, knownSize, killed>>

ProcessStep == ReaderDoneSeen \/ WriterDoneSeen \/ ReaderStopped \/ WriterStopped

\* TWorkerThreadController signals the kill event of the task's thread.
Kill ==
    /\ KillAllowed
    /\ ~killed
    /\ processPc # "Done"
    /\ killed' = TRUE
    /\ UNCHANGED <<readerVars, writerVars, processVars, sharedVars, knownSize>>

Stopped ==
    /\ crashed \/ processPc = "Done"
    /\ UNCHANGED vars

Next ==
    \/ ~crashed /\ ( \/ ReaderStep \/ ReaderCompletion
                     \/ WriterStep \/ WriterCompletion
                     \/ ProcessStep \/ Kill )
    \/ Stopped

Spec == Init /\ [][Next]_vars

\* Each thread keeps running while it can and every request sooner or later
\* completes.  Nothing makes the kill happen.
Fairness ==
    /\ WF_vars(~crashed /\ ReaderStep)
    /\ WF_vars(~crashed /\ ReaderCompletion)
    /\ WF_vars(~crashed /\ WriterStep)
    /\ WF_vars(~crashed /\ WriterCompletion)
    /\ WF_vars(~crashed /\ ProcessStep)

FairSpec == Spec /\ Fairness

-----------------------------------------------------------------------------
(* Properties *)

\* Every variable stays in its range.
TypeOK ==
    /\ emptyBuffers \in Nat
    /\ fullBuffers \in Queue /\ finishedBuffers \in Queue
    /\ readRetry \subseteq Nat /\ reading \subseteq Nat
    /\ writeRetry \subseteq Nat /\ writing \subseteq Nat
    /\ nextReadPosition \in Nat
    /\ dataSourceFinishedPos \in Positions
    /\ readPossible \in BOOLEAN /\ writePossible \in BOOLEAN
    /\ readerKill \in BOOLEAN /\ writerKill \in BOOLEAN /\ killed \in BOOLEAN
    /\ writtenLast \in BOOLEAN /\ crashed \in BOOLEAN
    /\ readerPc \in {"Wait", "ReadFailed", "Drain", "Done"}
    /\ writerPc \in {"Wait", "Drain", "Done"}
    /\ processPc \in {"Wait", "WaitWriter", "StopReader", "StopWriter", "Done"}
    /\ readerResult \in Results /\ writerResult \in Results
    /\ processResult \in Results \cup {"Exception"}
    /\ dst \subseteq Nat /\ dstSize \in Nat
    /\ knownSize \in Nat /\ processed \in Nat
    /\ leakedReads \in Nat /\ lost \in Nat /\ faults \in 0..MaxFaults

ReaderPlaces == <<fullBuffers.buffers, fullBuffers.error, readRetry, reading>>
WriterPlaces == <<finishedBuffers.buffers, finishedBuffers.error, writeRetry, writing>>

\* The places of a thread share no position and together hold exactly the
\* positions from `from` up to but not including `to`.
Partition(places, from, to) ==
    /\ \A i, j \in 1..4 : i # j => places[i] \cap places[j] = {}
    /\ UNION {places[i] : i \in 1..4} = from..(to - 1)

BothRunning == readerPc \in {"Wait", "ReadFailed"} /\ writerPc = "Wait"

\* While both loops run, every position that was handed out for reading is in
\* exactly one place: with the reader from the next one the writer will take, with
\* the writer from the next one to be accounted.  No chunk is skipped or doubled by
\* retries, by displacement from the error slot, or by completions out of order.
NoPositionLostOrDoubled ==
    BothRunning =>
        /\ Partition(ReaderPlaces, fullBuffers.expected, nextReadPosition)
        /\ Partition(WriterPlaces, finishedBuffers.expected, fullBuffers.expected)

\* Each buffer of the pool is empty, in one place of the reader or of the writer, or
\* was dropped on an error path: no step returns a buffer twice.
BuffersConserved ==
    emptyBuffers + lost + Count(fullBuffers) + Cardinality(readRetry)
        + Cardinality(reading) + Count(finishedBuffers) + Cardinality(writeRetry)
        + Cardinality(writing) = BufferCount

\* The reader leaves its loop with Continue only when every chunk up to the end of
\* file has been read and still is, or was, available to the writer; reads beyond
\* the end of file and reads that finish early do not end it too soon.
ReaderFinishesAfterEndOfFile ==
    readerPc \in {"Drain", "Done"} /\ readerResult = "Continue" /\ writerPc = "Wait" =>
        \A p \in 0..LastChunk : p >= fullBuffers.expected => p \in fullBuffers.buffers

\* When Process reports success the destination holds every chunk of the source and
\* nothing else, the known length was right and the pool is complete.
SuccessMeansComplete ==
    processPc = "Done" /\ processResult = "Continue" =>
        /\ dst = 0..(SourceChunks - 1)
        /\ knownSize = SourceChunks
        /\ emptyBuffers = BufferCount

\* While the reader's loop runs, a recorded error position belongs to a read that is
\* in the slot, waiting for its retry or in flight again: the failures that wait
\* behind it are not forgotten.
ErrorPositionHasOwner ==
    readerPc \in {"Wait", "ReadFailed"} /\ writerPc = "Wait"
        /\ fullBuffers.errorPosition # NoPosition =>
        fullBuffers.errorPosition \in fullBuffers.error \cup readRetry \cup reading

\* MaxReadAhead is only checked when a read starts, so the reads in flight may
\* overshoot it, but by no more than their number less one.
ReadAheadBounded ==
    Cardinality(fullBuffers.buffers) + Cardinality(reading)
        <= MaxReadAhead + MaxConcurrentReads - 1

\* No wake-up is lost: when a buffer could be taken the event that makes the loop
\* try is set.
NoLostWakeUp ==
    /\ readerPc = "Wait" /\ ReadLimitsAllow
        /\ (readRetry # {} \/ CanStartNewRead) => readPossible
    /\ writerPc = "Wait" /\ WriteLimitAllows
        /\ (writeRetry # {} \/ HasPoppable(fullBuffers)) => writePossible

\* TReadBufferQueueWrapper::Push asserts that no failed read behind the end of file
\* is ever sent back for a retry ("Adding regular buffer after the queue was marked
\* as finished"); a completion routine that trips over it either leaves the reader
\* waiting for ever or ends the program.
CompletionsNeverThrow == leakedReads = 0 /\ ~crashed

\* TOrderedBufferQueue::Push throws when a position is already in the queue or when
\* it completes while the same position is still in the error slot, and PushError
\* drops a buffer whose position is in the slot.  No request in flight can do so,
\* not even after the queues were cleared under a running thread.
PushesNeverThrow ==
    /\ \A p \in reading : ~PushThrows(fullBuffers, p) /\ p \notin fullBuffers.error
    /\ \A p \in writing : ~PushThrows(finishedBuffers, p) /\ p \notin finishedBuffers.error

\* The processed size that a stopped copy leaves for the next one counts only
\* chunks that are in the destination: copying resumes after it.
ResumeSizeIsWritten ==
    processPc = "Done" => 0..(processed - 1) \subseteq dst

\* Process returns: it never waits for ever for the reader or the writer.
Terminates == <>(processPc = "Done")

\* Process implements FileCopy: chunks are accounted for in the order of the file,
\* each after it was written and once, no accounted chunk is written again, and
\* success means that all were.
Outcome ==
    IF processPc # "Done" THEN "Copying"
    ELSE IF processResult = "Continue" THEN "Complete" ELSE "Stopped"

SmallerOf(a, b) == IF a < b THEN a ELSE b

Abstract == INSTANCE FileCopy WITH
    Chunks <- SourceChunks,
    Starts <- ResumePositions,
    stored <- dst,
    accounted <- SmallerOf(finishedBuffers.expected, SourceChunks),
    outcome <- Outcome

ImplementsFileCopy == Abstract!Spec
=================================================================================
