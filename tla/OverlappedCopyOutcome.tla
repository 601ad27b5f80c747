------------------------- MODULE OverlappedCopyOutcome -------------------------
(***************************************************************************)
(* What a copy has achieved when the reader finishes and when Process      *)
(* returns, and what the two loops rely on between themselves - the limit  *)
(* of read-ahead, the failed position that the others wait for, the        *)
(* wake-ups - for every pool, file, concurrency and pattern of failures;   *)
(* and why no completion throws with two reads in flight at most.          *)
(***************************************************************************)
EXTENDS OverlappedCopyProofs

-----------------------------------------------------------------------------
(* Process reports success only for a complete copy *)

\* What the writer has reached while its loop runs: all it has accounted for, and all
\* that waits to be accounted for, is in the destination.
WriterProgress ==
    writerPc = "Wait" =>
        /\ finishedBuffers.expected <= SourceChunks
        /\ processed = finishedBuffers.expected
        /\ \A p \in 0..(SourceChunks - 1) :
              p < finishedBuffers.expected \/ p \in finishedBuffers.buffers => p \in dst

\* What the flag for the last buffer stands for, and what the destination may hold.
LastBufferWritten ==
    /\ dst \subseteq 0..(SourceChunks - 1)
    /\ writtenLast => 0..(SourceChunks - 1) \subseteq dst /\ knownSize = SourceChunks

\* How a result reaches the caller: from the writer, and only from a writer that has
\* written the last buffer.
ResultsJustified ==
    /\ writerPc \in {"Drain", "Done"} /\ writerResult = "Continue" => writtenLast
    /\ processPc \in {"StopReader", "StopWriter", "Done"}
          /\ processResult = "Continue" => writtenLast

\* The order in which Process ends: the reader, the writer, the count of the buffers.
EndsInOrder ==
    /\ processPc \in {"StopWriter", "Done"} => readerPc = "Done"
    /\ processPc = "Done" => writerPc = "Done"
    /\ processPc = "Done" /\ processResult = "Continue" => emptyBuffers = BufferCount

SuccessInv == WriterProgress /\ LastBufferWritten /\ ResultsJustified /\ EndsInOrder

\* The resume position is within the source, and all before it is in the destination.
LEMMA SuccessInit == Init => SuccessInv
<1>. SUFFICES ASSUME Init PROVE SuccessInv
  OBVIOUS
<1>1. processed \in 0..SourceChunks
  BY ResumeAssumption DEF Init
<1>2. WriterProgress
  BY <1>1, FileAssumption DEF Init, WriterProgress, EmptyQueue
<1>3. LastBufferWritten
  BY <1>1, FileAssumption DEF Init, LastBufferWritten
<1>. QED
  BY <1>2, <1>3 DEF Init, SuccessInv, ResultsJustified, EndsInOrder

\* The reader runs before Process has seen its end, and touches nothing of the writer.
LEMMA ReaderLeavesWriter ==
    ASSUME ReaderStep \/ ReaderCompletion
    PROVE  readerPc # "Done" /\ UNCHANGED <<writerVars, processVars, knownSize>>
<1>1. CASE ReaderStep
  BY <1>1 DEF ReaderStep, ReaderKilled, ReadFailedSignalled, HandleReadFailed,
     NothingToRead, RetryRead, StartNewRead, ReadPossibleSignalled, ReaderFinished,
     ReaderDrained
<1>2. CASE ReaderCompletion
  BY <1>2 DEF ReaderCompletion, ReadCompletes, ReadCompletesFailed,
     ReadCompletionThrows, ReadFails, ReaderAlertable
<1>. QED
  BY <1>1, <1>2

\* Neither does the writer touch the reader, nor does it run once it has ended.
LEMMA WriterLeavesReader ==
    ASSUME WriterStep \/ WriterCompletion
    PROVE  writerPc # "Done" /\ UNCHANGED <<readerVars, processVars, knownSize>>
<1>1. CASE WriterStep
  BY <1>1 DEF WriterStep, WriterKilled, WriteAccounted, WriteSizeMismatch,
     FinalizeFails, WriteFinishedSignalled, HandleWriteFailed, NothingToWrite,
     RetryWrite, StartWrite, WritePossibleSignalled, WriterDrained
<1>2. CASE WriterCompletion
  BY <1>2 DEF WriterCompletion, WriteCompletes, WriteCompletesFailed, WriterAlertable
<1>. QED
  BY <1>1, <1>2

\* A step of the reader preserves the invariant.
LEMMA SuccessReader ==
    ASSUME SuccessInv, ReaderStep \/ ReaderCompletion
    PROVE  SuccessInv'
  BY ReaderLeavesWriter DEF SuccessInv, WriterProgress, LastBufferWritten,
     ResultsJustified, EndsInOrder, writerVars, processVars

\* The writer ends with a result other than Continue, or keeps running.
LEMMA SuccessWriterStops ==
    ASSUME SuccessInv, WriterStep \/ WriterCompletion,
           UNCHANGED <<writtenLast, dst>>, writerPc' # "Wait",
           writerResult' = "Continue" => writerPc = "Drain" /\ UNCHANGED writerResult
    PROVE  SuccessInv'
  BY WriterLeavesReader DEF SuccessInv, WriterProgress, LastBufferWritten,
     ResultsJustified, EndsInOrder, readerVars, processVars

\* A written buffer is accounted for.
LEMMA SuccessWriteAccounted ==
    ASSUME TypeInv, SuccessInv, WriteAccounted
    PROVE  SuccessInv'
<1>. DEFINE p == finishedBuffers.expected
<1>1. /\ writerPc = "Wait" /\ p \in finishedBuffers.buffers
      /\ UNCHANGED <<dst, readerVars, processVars, knownSize>>
      /\ finishedBuffers' = Pop(finishedBuffers)
  BY DEF WriteAccounted, WriteFinishedSignalled, HasPoppable, IsFirst
<1>2. p \in Nat /\ knownSize \in Nat /\ processed = p /\ p <= SourceChunks
  BY <1>1 DEF TypeInv, TypeOK, Queue, SuccessInv, WriterProgress
<1>3. /\ finishedBuffers'.buffers = finishedBuffers.buffers \ {p}
      /\ finishedBuffers'.expected = p + 1
  BY <1>1, PopContents DEF TypeInv, FinitePlaces
<1>4. \A n \in 0..(SourceChunks - 1) :
         n < p + 1 \/ n \in finishedBuffers'.buffers => n \in dst
  BY <1>1, <1>2, <1>3, FileAssumption DEF SuccessInv, WriterProgress
<1>5. EndsInOrder' /\ dst' \subseteq 0..(SourceChunks - 1)
  BY <1>1 DEF SuccessInv, EndsInOrder, LastBufferWritten, readerVars, processVars
<1>6. CASE IsLastPart(p)
  <2>1. writtenLast' /\ writerPc' = "Drain" /\ ~SizeMismatch(p)
    BY <1>6 DEF WriteAccounted, WriterStops
  <2>2. knownSize = p + DataSize(p)
    BY <1>2, <1>6, <2>1 DEF SizeMismatch, ProcessedWith, DataSize
  <2>3. knownSize = SourceChunks
    BY <1>2, <1>6, <2>2, FileAssumption DEF DataSize, IsLastPart
  <2>4. 0..(SourceChunks - 1) \subseteq dst
    BY <1>2, <1>4, <1>6, FileAssumption DEF IsLastPart
  <2>. QED
    BY <1>1, <1>5, <2>1, <2>3, <2>4
    DEF SuccessInv, WriterProgress, LastBufferWritten, ResultsJustified
<1>7. CASE ~IsLastPart(p)
  <2>1. p + 1 <= SourceChunks /\ DataSize(p) = 1
    BY <1>2, <1>7, FileAssumption DEF IsLastPart, DataSize
  <2>2. processed' = p + 1 /\ UNCHANGED <<writtenLast, writerPc, writerResult>>
    BY <1>2, <1>7, <2>1 DEF WriteAccounted, ProcessedWith
  <2>3. WriterProgress'
    BY <1>1, <1>3, <1>4, <2>1, <2>2 DEF WriterProgress
  <2>. QED
    BY <1>1, <1>5, <2>2, <2>3
    DEF SuccessInv, LastBufferWritten, ResultsJustified, processVars
<1>. QED
  BY <1>6, <1>7

\* A write ends well: its chunk is in the destination from now on.
LEMMA SuccessWriteCompletes ==
    ASSUME TypeInv, SuccessInv, NEW p \in writing, WriteCompletes(p)
    PROVE  SuccessInv'
<1>1. /\ UNCHANGED <<writtenLast, writerPc, writerResult, processed, readerVars,
                     processVars, knownSize, emptyBuffers>>
      /\ writerPc # "Done"
  BY DEF WriteCompletes, WriterAlertable
<1>2. p \in Nat /\ IsLastPart(p) \in BOOLEAN /\ WellFormed(finishedBuffers)
  BY DEF TypeInv, TypeOK, FinitePlaces, IsLastPart
<1>3. /\ finishedBuffers'.expected = finishedBuffers.expected
      /\ finishedBuffers'.buffers = finishedBuffers.buffers \cup {p}
  <2>1. finishedBuffers' = Push(finishedBuffers, p, IsLastPart(p))
    BY DEF WriteCompletes
  <2>2. /\ Push(finishedBuffers, p, IsLastPart(p)).expected = finishedBuffers.expected
        /\ Push(finishedBuffers, p, IsLastPart(p)).buffers = finishedBuffers.buffers \cup {p}
    BY <1>2 DEF Push, WellFormed, Queue
  <2>. QED
    BY <2>1, <2>2
<1>4. IF p < SourceChunks THEN dst' = dst \cup {p} ELSE dst' = dst
  BY DEF WriteCompletes, DataSize
<1>5. dst' \subseteq 0..(SourceChunks - 1)
  <2>1. dst \subseteq 0..(SourceChunks - 1)
    BY DEF SuccessInv, LastBufferWritten
  <2>2. p < SourceChunks => p \in 0..(SourceChunks - 1)
    BY <1>2, FileAssumption
  <2>. QED
    BY <1>4, <2>1, <2>2
<1>6. WriterProgress'
  <2>. SUFFICES ASSUME writerPc = "Wait", NEW n \in 0..(SourceChunks - 1),
                       n < finishedBuffers.expected \/ n \in finishedBuffers.buffers
                                                    \/ n = p
                PROVE  n \in dst'
    BY <1>1, <1>3 DEF SuccessInv, WriterProgress
  <2>1. n = p => n \in dst'
    BY <1>4, FileAssumption
  <2>. QED
    BY <1>4, <2>1 DEF SuccessInv, WriterProgress
<1>. QED
  BY <1>1, <1>4, <1>5, <1>6
  DEF SuccessInv, LastBufferWritten, ResultsJustified, EndsInOrder, readerVars,
      processVars

\* A failed write stays in the finished queue's slot or is retried.
LEMMA SuccessWriteCompletesFailed ==
    ASSUME TypeInv, SuccessInv, NEW p \in writing, WriteCompletesFailed(p)
    PROVE  SuccessInv'
<1>1. /\ UNCHANGED <<writtenLast, writerPc, writerResult, dst, processed, readerVars,
                     processVars, knownSize, emptyBuffers>>
      /\ finishedBuffers' = PushError(finishedBuffers, p)
  BY DEF WriteCompletesFailed
<1>2. p \in Nat /\ WellFormed(finishedBuffers)
  BY DEF TypeInv, TypeOK, FinitePlaces
<1>3. /\ finishedBuffers'.expected = finishedBuffers.expected
      /\ finishedBuffers'.buffers = finishedBuffers.buffers
  BY <1>1, <1>2, PushErrorContents
<1>. QED
  BY <1>1, <1>3 DEF SuccessInv, WriterProgress, LastBufferWritten, ResultsJustified,
     EndsInOrder, readerVars, processVars

\* Taking a buffer to write, or a failed one to retry, leaves the written ones alone.
LEMMA SuccessWriterTakes ==
    ASSUME TypeInv, SuccessInv,
           HandleWriteFailed \/ NothingToWrite \/ RetryWrite \/ StartWrite
    PROVE  SuccessInv'
<1>1. WriterStep /\ writerPc = "Wait" /\ UNCHANGED <<writtenLast, dst, processed>>
  BY DEF WriterStep, HandleWriteFailed, NothingToWrite, RetryWrite, StartWrite,
     WritePossibleSignalled
<1>2. /\ finishedBuffers'.expected = finishedBuffers.expected
      /\ finishedBuffers'.buffers = finishedBuffers.buffers
  <2>1. finishedBuffers' \in {finishedBuffers, PopError(finishedBuffers)}
    BY DEF HandleWriteFailed, NothingToWrite, RetryWrite, StartWrite,
       WritePossibleSignalled
  <2>. QED
    BY <2>1, PopErrorWellFormed DEF TypeInv, FinitePlaces
<1>3. \/ UNCHANGED <<writerPc, writerResult>>
      \/ writerPc' = "Drain" /\ writerResult' \in StopAnswers
  <2>1. CASE HandleWriteFailed
    BY <2>1 DEF HandleWriteFailed, WriterStops
  <2>2. CASE NothingToWrite
    BY <2>2 DEF NothingToWrite
  <2>3. CASE RetryWrite
    BY <2>3 DEF RetryWrite, IssueWrite, WriterStops
  <2>4. CASE StartWrite
    BY <2>4 DEF StartWrite, IssueWrite, WriterStops
  <2>. QED
    BY <2>1, <2>2, <2>3, <2>4
<1>4. CASE UNCHANGED <<writerPc, writerResult>>
  BY <1>1, <1>2, <1>4, WriterLeavesReader
  DEF SuccessInv, WriterProgress, LastBufferWritten, ResultsJustified, EndsInOrder,
      readerVars, processVars
<1>5. CASE writerPc' = "Drain" /\ writerResult' \in StopAnswers
  BY <1>1, <1>5, FaultAssumption, SuccessWriterStops
<1>. QED
  BY <1>3, <1>4, <1>5

\* A step of the writer preserves the invariant.
LEMMA SuccessWriter ==
    ASSUME TypeInv, SuccessInv, WriterStep \/ WriterCompletion
    PROVE  SuccessInv'
<1>1. CASE WriterKilled
  BY <1>1, SuccessWriterStops DEF WriterStep, WriterKilled, WriterStops
<1>2. CASE WriteSizeMismatch
  BY <1>2, SuccessWriterStops
  DEF WriterStep, WriteSizeMismatch, WriteFinishedSignalled, WriterStops
<1>3. CASE FinalizeFails
  BY <1>3, FaultAssumption, SuccessWriterStops
  DEF WriterStep, FinalizeFails, WriteFinishedSignalled, WriterStops
<1>4. CASE WriterDrained
  BY <1>4, SuccessWriterStops DEF WriterStep, WriterDrained
<1>. QED
  BY <1>1, <1>2, <1>3, <1>4, SuccessWriteAccounted, SuccessWriterTakes,
     SuccessWriteCompletes, SuccessWriteCompletesFailed
  DEF WriterStep, WriterCompletion

\* A step of the calling thread preserves the invariant.
LEMMA SuccessProcess ==
    ASSUME SuccessInv, ProcessStep
    PROVE  SuccessInv'
<1>1. CASE ReaderDoneSeen
  BY <1>1 DEF ReaderDoneSeen, SuccessInv, WriterProgress, LastBufferWritten,
     ResultsJustified, EndsInOrder, writerVars, readerVars, sharedVars
<1>2. CASE WriterDoneSeen
  BY <1>2 DEF WriterDoneSeen, SuccessInv, WriterProgress, LastBufferWritten,
     ResultsJustified, EndsInOrder, writerVars, readerVars, sharedVars
<1>3. CASE ReaderStopped
  BY <1>3 DEF ReaderStopped, SuccessInv, WriterProgress, LastBufferWritten,
     ResultsJustified, EndsInOrder, writerVars, readerVars, sharedVars
<1>4. CASE WriterStopped
  BY <1>4 DEF WriterStopped, SuccessInv, WriterProgress, LastBufferWritten,
     ResultsJustified, EndsInOrder, readerVars
<1>. QED
  BY <1>1, <1>2, <1>3, <1>4 DEF ProcessStep

\* Every step preserves the invariant.
LEMMA SuccessStep == TypeInv /\ SuccessInv /\ [Next]_vars => SuccessInv'
<1>. SUFFICES ASSUME TypeInv, SuccessInv, [Next]_vars PROVE SuccessInv'
  OBVIOUS
<1>1. CASE Kill
  BY <1>1 DEF Kill, SuccessInv, WriterProgress, LastBufferWritten, ResultsJustified,
     EndsInOrder, writerVars, readerVars, processVars, sharedVars
<1>2. CASE UNCHANGED vars
  BY <1>2 DEF vars, SuccessInv, WriterProgress, LastBufferWritten, ResultsJustified,
     EndsInOrder, writerVars, readerVars, processVars, sharedVars
<1>. QED
  BY <1>1, <1>2, SuccessReader, SuccessWriter, SuccessProcess DEF Next, Stopped

\* In every reachable state of any instance.
THEOREM SuccessInvariant == Spec => []SuccessInv
  BY TypeInvariant, SuccessInit, SuccessStep, PTL DEF Spec

\* When Process reports success the destination holds every chunk of the source and
\* nothing else, the known length was right and the pool is complete.
THEOREM SuccessCorrect == Spec => []SuccessMeansComplete
<1>1. SuccessInv => SuccessMeansComplete
  BY DEF SuccessInv, LastBufferWritten, ResultsJustified, EndsInOrder,
     SuccessMeansComplete
<1>. QED
  BY <1>1, SuccessInvariant, PTL

-----------------------------------------------------------------------------
(* The reader finishes only after the whole file has been read *)

\* What the full buffers know about the end of file, until the writer clears them.
EndOfFileInv ==
    writerPc = "Wait" =>
        /\ fullBuffers.sourceFinished =>
              \/ LastChunk < fullBuffers.expected
              \/ \E p \in fullBuffers.buffers : LastChunk <= p
        /\ fullBuffers.readingFinished =>
              /\ fullBuffers.sourceFinished
              /\ InSequence(fullBuffers.buffers, fullBuffers.expected)

EndOfFileStrong == EndOfFileInv /\ ReaderFinishesAfterEndOfFile

\* The end has not been met and the reader runs.
LEMMA EndOfFileInit == Init => EndOfFileStrong
  BY DEF Init, EmptyQueue, EndOfFileStrong, EndOfFileInv, ReaderFinishesAfterEndOfFile

\* What does not touch the full buffers' sequence, nor ends the reader with Continue,
\* keeps both.
LEMMA EndOfFileKept ==
    ASSUME EndOfFileStrong,
           writerPc' = "Wait" => writerPc = "Wait",
           fullBuffers'.buffers = fullBuffers.buffers,
           fullBuffers'.expected = fullBuffers.expected,
           fullBuffers'.sourceFinished = fullBuffers.sourceFinished,
           fullBuffers'.readingFinished = fullBuffers.readingFinished,
           \/ readerPc' \in {"Wait", "ReadFailed"}
           \/ readerPc' = "Drain" /\ readerResult' # "Continue"
           \/ readerPc \in {"Drain", "Done"} /\ readerResult' = readerResult
    PROVE  EndOfFileStrong'
  BY DEF EndOfFileStrong, EndOfFileInv, ReaderFinishesAfterEndOfFile, InSequence

\* The reader finishes: it has met the end of file and the full buffers have no gap.
LEMMA EndOfFileReaderFinished ==
    ASSUME TypeInv, EndOfFileStrong, ReaderFinished
    PROVE  EndOfFileStrong'
<1>1. UNCHANGED <<fullBuffers, writerPc>> /\ fullBuffers.readingFinished
  BY DEF ReaderFinished, writerVars, sharedVars
<1>2. fullBuffers.expected \in Nat /\ fullBuffers.buffers \subseteq Nat /\ LastChunk \in Nat
  BY FileAssumption DEF TypeInv, TypeOK, Queue
<1>3. EndOfFileInv'
  BY <1>1 DEF EndOfFileStrong, EndOfFileInv, InSequence
<1>4. ASSUME writerPc = "Wait", NEW n \in 0..LastChunk, n >= fullBuffers.expected
      PROVE  n \in fullBuffers.buffers
  <2>1. fullBuffers.sourceFinished /\ InSequence(fullBuffers.buffers, fullBuffers.expected)
    BY <1>1, <1>4 DEF EndOfFileStrong, EndOfFileInv
  <2>2. PICK p \in fullBuffers.buffers : LastChunk <= p
    BY <1>2, <1>4, <2>1 DEF EndOfFileStrong, EndOfFileInv
  <2>3. fullBuffers.expected..p \subseteq fullBuffers.buffers /\ p \in Nat
    BY <1>2, <2>1, <2>2 DEF InSequence
  <2>. QED
    BY <1>2, <1>4, <2>2, <2>3
<1>5. ReaderFinishesAfterEndOfFile'
  BY <1>1, <1>4 DEF ReaderFinishesAfterEndOfFile
<1>. QED
  BY <1>3, <1>5 DEF EndOfFileStrong

\* A completed read only adds to the full buffers and looks for gaps again.
LEMMA EndOfFileReadCompletes ==
    ASSUME TypeInv, EndOfFileStrong, NEW p \in reading, ReadCompletes(p)
    PROVE  EndOfFileStrong'
<1>. DEFINE finished == fullBuffers.sourceFinished \/ IsLastPart(p)
<1>1. /\ fullBuffers' = Push(fullBuffers, p, IsLastPart(p))
      /\ UNCHANGED <<readerPc, readerResult, writerPc>>
  BY DEF ReadCompletes, writerVars
<1>2. p \in Nat /\ IsLastPart(p) \in BOOLEAN /\ WellFormed(fullBuffers)
  BY DEF TypeInv, TypeOK, FinitePlaces, IsLastPart
<1>3. /\ fullBuffers'.buffers = fullBuffers.buffers \cup {p}
      /\ fullBuffers'.expected = fullBuffers.expected
      /\ fullBuffers'.sourceFinished = finished
      /\ fullBuffers'.readingFinished =
           IF finished THEN InSequence(fullBuffers.buffers \cup {p}, fullBuffers.expected)
                       ELSE fullBuffers.readingFinished
  BY <1>1, <1>2 DEF Push, WellFormed, Queue
<1>4. ReaderFinishesAfterEndOfFile'
  BY <1>1, <1>3 DEF EndOfFileStrong, ReaderFinishesAfterEndOfFile
<1>5. ASSUME writerPc = "Wait", finished
      PROVE  \/ LastChunk < fullBuffers'.expected
             \/ \E q \in fullBuffers'.buffers : LastChunk <= q
  BY <1>2, <1>3, <1>5, FileAssumption DEF EndOfFileStrong, EndOfFileInv, IsLastPart
<1>6. ASSUME writerPc = "Wait", fullBuffers'.readingFinished
      PROVE  finished /\ InSequence(fullBuffers'.buffers, fullBuffers'.expected)
  <2>1. finished
    BY <1>3, <1>6 DEF EndOfFileStrong, EndOfFileInv
  <2>. QED
    BY <1>3, <1>6, <2>1
<1>7. EndOfFileInv'
  BY <1>1, <1>3, <1>5, <1>6 DEF EndOfFileInv
<1>. QED
  BY <1>4, <1>7 DEF EndOfFileStrong

\* A step of the reader keeps both.
LEMMA EndOfFileReader ==
    ASSUME TypeInv, EndOfFileStrong, ReaderStep \/ ReaderCompletion
    PROVE  EndOfFileStrong'
<1>1. writerPc' = writerPc
  <2>1. UNCHANGED writerVars
    <3>1. CASE ReaderStep
      BY <3>1 DEF ReaderStep, ReaderKilled, ReadFailedSignalled, HandleReadFailed,
         NothingToRead, RetryRead, StartNewRead, ReadPossibleSignalled, ReaderFinished,
         ReaderDrained
    <3>2. CASE ReaderCompletion
      BY <3>2 DEF ReaderCompletion, ReadCompletes, ReadCompletesFailed,
         ReadCompletionThrows, ReadFails
    <3>. QED
      BY <3>1, <3>2
  <2>. QED
    BY <2>1 DEF writerVars
<1>2. CASE ReaderKilled \/ ReadFailedSignalled
  BY <1>1, <1>2, EndOfFileKept DEF ReaderKilled, ReadFailedSignalled, ReaderStops, sharedVars
<1>3. CASE HandleReadFailed
  <2>1. \/ readerPc' = "Wait"
        \/ readerPc' = "Drain" /\ readerResult' # "Continue"
    BY <1>3, FaultAssumption DEF HandleReadFailed, ReaderStops
  <2>2. fullBuffers' = PopError(fullBuffers) /\ WellFormed(fullBuffers)
    BY <1>3 DEF HandleReadFailed, TypeInv, FinitePlaces
  <2>. QED
    BY <1>1, <2>1, <2>2, PopErrorWellFormed, EndOfFileKept
<1>4. CASE NothingToRead \/ RetryRead \/ StartNewRead
  <2>1. \/ readerPc' = "Wait"
        \/ readerPc' = "Drain" /\ readerResult' # "Continue"
    BY <1>4, FaultAssumption DEF NothingToRead, RetryRead, StartNewRead,
       ReadPossibleSignalled, IssueRead, ReaderStops
  <2>2. fullBuffers' = fullBuffers
    BY <1>4 DEF NothingToRead, RetryRead, StartNewRead, ReadPossibleSignalled
  <2>. QED
    BY <1>1, <2>1, <2>2, EndOfFileKept
<1>5. CASE ReaderDrained
  BY <1>1, <1>5, EndOfFileKept DEF ReaderDrained, EndOfFileStrong, EndOfFileInv,
     ReaderFinishesAfterEndOfFile, InSequence
<1>6. ASSUME NEW p \in reading, ReadCompletesFailed(p)
      PROVE  EndOfFileStrong'
  <2>1. /\ fullBuffers' = PushError(fullBuffers, p) /\ WellFormed(fullBuffers)
        /\ UNCHANGED <<readerPc, readerResult>> /\ readerPc \in {"Wait", "Drain"}
        /\ p \in Nat
    BY <1>6 DEF ReadCompletesFailed, ReadFails, ReaderAlertable, TypeInv, TypeOK, FinitePlaces
  <2>. QED
    BY <1>1, <2>1, PushErrorContents, EndOfFileKept
<1>7. ASSUME NEW p \in reading, ReadCompletionThrows(p)
      PROVE  EndOfFileStrong'
  <2>1. /\ fullBuffers' = fullBuffers
        /\ \/ readerPc' = "Drain" /\ readerResult' # "Continue"
           \/ readerPc = "Drain" /\ UNCHANGED <<readerPc, readerResult>>
    BY <1>7 DEF ReadCompletionThrows, ReadFails, ReaderAlertable, ReaderStops
  <2>. QED
    BY <1>1, <2>1, EndOfFileKept
<1>. QED
  BY <1>2, <1>3, <1>4, <1>5, <1>6, <1>7, EndOfFileReaderFinished, EndOfFileReadCompletes
  DEF ReaderStep, ReaderCompletion

\* The writer takes the expected buffer: what is left is still without a gap.
LEMMA EndOfFileWriter ==
    ASSUME TypeInv, EndOfFileStrong, WriterStep \/ WriterCompletion
    PROVE  EndOfFileStrong'
<1>1. UNCHANGED <<readerPc, readerResult>>
  BY WriterKeepsSequence DEF readerVars
<1>2. writerPc' = "Wait" => writerPc = "Wait"
  <2>1. CASE WriterStep
    BY <2>1 DEF WriterStep, WriterKilled, WriteAccounted, WriteSizeMismatch,
       FinalizeFails, WriteFinishedSignalled, HandleWriteFailed, NothingToWrite,
       RetryWrite, StartWrite, WritePossibleSignalled, WriterDrained
  <2>2. CASE WriterCompletion
    BY <2>2 DEF WriterCompletion, WriteCompletes, WriteCompletesFailed
  <2>. QED
    BY <2>1, <2>2
<1>3. CASE UNCHANGED fullBuffers
  BY <1>1, <1>2, <1>3 DEF EndOfFileStrong, EndOfFileInv, ReaderFinishesAfterEndOfFile,
     InSequence
<1>4. CASE HasPoppable(fullBuffers) /\ fullBuffers' = Pop(fullBuffers)
  <2>. DEFINE e == fullBuffers.expected
  <2>1. /\ WellFormed(fullBuffers) /\ e \in Nat /\ fullBuffers.buffers \subseteq Nat
        /\ LastChunk \in Nat
    BY FileAssumption DEF TypeInv, FinitePlaces, TypeOK, Queue
  <2>2. /\ fullBuffers'.buffers = fullBuffers.buffers \ {e}
        /\ fullBuffers'.expected = e + 1
        /\ fullBuffers'.sourceFinished = fullBuffers.sourceFinished
        /\ fullBuffers'.readingFinished = fullBuffers.readingFinished
    BY <1>4, <2>1, PopContents
  <2>3. InSequence(fullBuffers.buffers, e) => InSequence(fullBuffers.buffers \ {e}, e + 1)
    <3>. SUFFICES ASSUME InSequence(fullBuffers.buffers, e),
                         NEW p \in fullBuffers.buffers, p # e
                  PROVE  e + 1 <= p /\ (e + 1)..p \subseteq fullBuffers.buffers \ {e}
      BY DEF InSequence
    <3>1. e <= p /\ e..p \subseteq fullBuffers.buffers /\ p \in Nat
      BY <2>1 DEF InSequence
    <3>. HIDE DEF e
    <3>. QED
      BY <2>1, <3>1
  <2>4. EndOfFileInv'
    <3>1. ASSUME writerPc' = "Wait", fullBuffers'.sourceFinished
          PROVE  \/ LastChunk < e + 1
                 \/ \E q \in fullBuffers.buffers \ {e} : LastChunk <= q
      BY <1>2, <2>1, <2>2, <3>1 DEF EndOfFileStrong, EndOfFileInv
    <3>2. ASSUME writerPc' = "Wait", fullBuffers'.readingFinished
          PROVE  fullBuffers'.sourceFinished /\ InSequence(fullBuffers.buffers \ {e}, e + 1)
      BY <1>2, <2>2, <2>3, <3>2 DEF EndOfFileStrong, EndOfFileInv
    <3>. QED
      BY <2>2, <3>1, <3>2 DEF EndOfFileInv
  <2>5. ReaderFinishesAfterEndOfFile'
    BY <1>1, <1>2, <2>1, <2>2 DEF EndOfFileStrong, ReaderFinishesAfterEndOfFile
  <2>. QED
    BY <2>4, <2>5 DEF EndOfFileStrong
<1>5. CASE writerPc' # "Wait" /\ fullBuffers' = Clear(fullBuffers)
  BY <1>5 DEF EndOfFileStrong, EndOfFileInv, ReaderFinishesAfterEndOfFile
<1>. QED
  BY <1>3, <1>4, <1>5, WriterKeepsSequence

\* The calling thread empties the full buffers only after the writer has ended.
LEMMA EndOfFileProcess ==
    ASSUME EndOfFileStrong, ProcessStep \/ Kill \/ UNCHANGED vars
    PROVE  EndOfFileStrong'
<1>1. CASE WriterStopped
  BY <1>1 DEF WriterStopped, EndOfFileStrong, EndOfFileInv, ReaderFinishesAfterEndOfFile
<1>2. CASE ReaderDoneSeen \/ WriterDoneSeen \/ ReaderStopped \/ Kill \/ UNCHANGED vars
  <2>1. UNCHANGED <<readerPc, readerResult, writerPc, fullBuffers>>
    BY <1>2 DEF ReaderDoneSeen, WriterDoneSeen, ReaderStopped, Kill, vars, readerVars,
       writerVars, sharedVars
  <2>. QED
    BY <2>1 DEF EndOfFileStrong, EndOfFileInv, ReaderFinishesAfterEndOfFile, InSequence
<1>. QED
  BY <1>1, <1>2 DEF ProcessStep

\* The reader leaves its loop with Continue only when every chunk up to the end of file
\* is, or was, available to the writer, whatever the order of the completions.
THEOREM EndOfFileCorrect == Spec => []ReaderFinishesAfterEndOfFile
<1>1. TypeInv /\ EndOfFileStrong /\ [Next]_vars => EndOfFileStrong'
  BY EndOfFileReader, EndOfFileWriter, EndOfFileProcess DEF Next, Stopped
<1>2. EndOfFileStrong => ReaderFinishesAfterEndOfFile
  BY DEF EndOfFileStrong
<1>. QED
  BY <1>1, <1>2, TypeInvariant, EndOfFileInit, PTL DEF Spec

-----------------------------------------------------------------------------
(* The copying of a file implements FileCopy *)

\* What the writer holds has not been accounted for yet, and the last buffer is
\* accounted for after all others.
AccountingInv ==
    /\ finishedBuffers.expected <= fullBuffers.expected
    /\ \A p \in WriterHolds : finishedBuffers.expected <= p
    /\ writtenLast => SourceChunks <= finishedBuffers.expected

\* Everything the refinement needs to know of a state.
CopyInv == TypeInv /\ ReaderPlacesInv /\ WriterPlacesInv /\ SuccessInv

\* Nothing is held and nothing is marked as written.
LEMMA AccountingInit == Init => AccountingInv
  BY ResumeAssumption DEF Init, EmptyQueue, AccountingInv, WriterHolds

\* The writer takes buffers in the order of the file, and accounts for them in it.
LEMMA AccountingWriter ==
    ASSUME CopyInv, AccountingInv, WriterStep \/ WriterCompletion
    PROVE  AccountingInv'
<1>. USE DEF CopyInv
<1>. DEFINE taken     == fullBuffers.expected
            accounted == finishedBuffers.expected
<1>1. /\ taken \in Nat /\ accounted \in Nat /\ WriterHolds \subseteq Nat
      /\ WellFormed(fullBuffers) /\ WellFormed(finishedBuffers)
  BY DEF TypeInv, TypeOK, FinitePlaces, Queue, WriterHolds
<1>2. CASE WriteAccounted \/ WriteSizeMismatch \/ FinalizeFails
  <2>1. WriteFinishedSignalled
    BY <1>2 DEF WriteAccounted, WriteSizeMismatch, FinalizeFails
  <2>2. /\ UNCHANGED <<writeRetry, writing, fullBuffers>>
        /\ finishedBuffers' = Pop(finishedBuffers)
        /\ accounted \in finishedBuffers.buffers
    BY <2>1 DEF WriteFinishedSignalled, HasPoppable, IsFirst
  <2>3. /\ finishedBuffers'.buffers = finishedBuffers.buffers \ {accounted}
        /\ finishedBuffers'.error = finishedBuffers.error
        /\ finishedBuffers'.expected = accounted + 1
    BY <1>1, <2>2, PopContents
  <2>4. WriterHolds' = WriterHolds \ {accounted} /\ accounted \in WriterHolds
    BY <2>2, <2>3 DEF WriterPlacesInv, Apart, WriterHolds
  <2>5. accounted < taken
    BY <2>4 DEF WriterPlacesInv
  <2>6. writtenLast' => SourceChunks <= accounted + 1
    <3>1. CASE UNCHANGED writtenLast
      BY <1>1, <3>1, FileAssumption DEF AccountingInv
    <3>2. CASE IsLastPart(accounted)
      BY <1>1, <3>2, FileAssumption DEF IsLastPart
    <3>. QED
      BY <1>2, <3>1, <3>2 DEF WriteAccounted, WriteSizeMismatch, FinalizeFails
  <2>. HIDE DEF taken, accounted
  <2>7. \A p \in WriterHolds' : accounted + 1 <= p
    BY <1>1, <2>4 DEF AccountingInv, accounted
  <2>8. accounted + 1 <= taken
    BY <1>1, <2>5
  <2>. QED
    BY <2>2, <2>3, <2>6, <2>7, <2>8 DEF AccountingInv, taken
<1>3. CASE StartWrite
  <2>1. /\ UNCHANGED <<finishedBuffers, writeRetry, writtenLast>>
        /\ fullBuffers' = Pop(fullBuffers) /\ writing' \subseteq writing \cup {taken}
    BY <1>3 DEF StartWrite, WritePossibleSignalled, IssueWrite
  <2>2. fullBuffers'.expected = taken + 1
    BY <1>1, <2>1, PopContents
  <2>3. WriterHolds' \subseteq WriterHolds \cup {taken}
    BY <2>1 DEF WriterHolds
  <2>4. accounted <= taken + 1
    BY <1>1 DEF AccountingInv
  <2>. QED
    BY <2>1, <2>2, <2>3, <2>4 DEF AccountingInv
<1>4. CASE \/ WriterKilled \/ HandleWriteFailed \/ NothingToWrite \/ RetryWrite
           \/ WriterDrained \/ WriterCompletion
  <2>1. UNCHANGED writtenLast
    BY <1>4 DEF WriterKilled, HandleWriteFailed, NothingToWrite, RetryWrite,
       WritePossibleSignalled, WriterDrained, WriterCompletion, WriteCompletes,
       WriteCompletesFailed
  <2>2. fullBuffers'.expected = taken
    <3>1. fullBuffers' \in {fullBuffers, Clear(fullBuffers)}
      BY <1>4 DEF WriterKilled, HandleWriteFailed, NothingToWrite, RetryWrite,
         WritePossibleSignalled, WriterDrained, WriterCompletion, WriteCompletes,
         WriteCompletesFailed, sharedVars
    <3>. QED
      BY <1>1, <3>1, ClearContents
  <2>3. finishedBuffers'.expected = accounted /\ WriterHolds' \subseteq WriterHolds
    <3>1. CASE WriterKilled \/ NothingToWrite
      BY <3>1 DEF WriterKilled, NothingToWrite, WritePossibleSignalled, WriterHolds
    <3>2. CASE HandleWriteFailed
      BY <1>1, <3>2, PopErrorWellFormed DEF HandleWriteFailed, WriterHolds
    <3>3. CASE RetryWrite
      BY <3>3 DEF RetryWrite, WritePossibleSignalled, IssueWrite, WriterHolds
    <3>4. CASE WriterDrained
      BY <1>1, <3>4, ClearContents DEF WriterDrained, WriterHolds
    <3>5. CASE WriterCompletion
      <4>1. PICK p \in writing : WriteCompletes(p) \/ WriteCompletesFailed(p)
        BY <3>5 DEF WriterCompletion
      <4>2. p \in Nat /\ IsLastPart(p) \in BOOLEAN /\ p \notin finishedBuffers.error
            /\ SlotMatches(finishedBuffers)
        BY DEF TypeInv, TypeOK, IsLastPart, WriterPlacesInv, Apart
      <4>3. CASE WriteCompletes(p)
        <5>1. /\ finishedBuffers'.buffers = finishedBuffers.buffers \cup {p}
              /\ finishedBuffers'.error = finishedBuffers.error
              /\ finishedBuffers'.expected = accounted
          BY <1>1, <4>2, <4>3 DEF WriteCompletes, Push, WellFormed, Queue
        <5>. QED
          BY <4>3, <5>1 DEF WriteCompletes, WriterHolds
      <4>4. CASE WriteCompletesFailed(p)
        <5>1. /\ finishedBuffers'.buffers = finishedBuffers.buffers
              /\ finishedBuffers'.error \cup SentToRetry(finishedBuffers, p)
                   = finishedBuffers.error \cup {p}
              /\ finishedBuffers'.expected = accounted
          BY <1>1, <4>2, <4>4, PushErrorContents, PushErrorKeepsBuffers
          DEF WriteCompletesFailed
        <5>. QED
          BY <4>4, <5>1 DEF WriteCompletesFailed, WriterHolds
      <4>. QED
        BY <4>1, <4>3, <4>4
    <3>. QED
      BY <1>4, <3>1, <3>2, <3>3, <3>4, <3>5
  <2>. QED
    BY <2>1, <2>2, <2>3 DEF AccountingInv
<1>. QED
  BY <1>2, <1>3, <1>4 DEF WriterStep

\* The other steps leave the accounting alone.
LEMMA AccountingOthers ==
    ASSUME CopyInv, AccountingInv,
           ReaderStep \/ ReaderCompletion \/ ProcessStep \/ Kill \/ UNCHANGED vars
    PROVE  /\ AccountingInv'
           /\ UNCHANGED dst
           /\ finishedBuffers'.expected = finishedBuffers.expected
<1>. USE DEF CopyInv
<1>1. CASE ReaderStep \/ ReaderCompletion
  BY <1>1, ReaderKeepsSequence, ReaderLeavesWriter DEF AccountingInv, WriterHolds, writerVars
<1>2. CASE WriterStopped
  BY <1>2, ClearContents
  DEF WriterStopped, AccountingInv, WriterHolds, TypeInv, FinitePlaces
<1>3. CASE ReaderDoneSeen \/ WriterDoneSeen \/ ReaderStopped \/ Kill \/ UNCHANGED vars
  BY <1>3 DEF ReaderDoneSeen, WriterDoneSeen, ReaderStopped, Kill, vars, sharedVars,
     writerVars, AccountingInv, WriterHolds
<1>. QED
  BY <1>1, <1>2, <1>3 DEF ProcessStep

Accounted == SmallerOf(finishedBuffers.expected, SourceChunks)

\* A writer step stores a chunk that is not accounted for, accounts for the next one
\* that is stored, or does nothing that FileCopy can see.
LEMMA WriterImplements ==
    ASSUME CopyInv, AccountingInv, WriterStep \/ WriterCompletion
    PROVE  [Abstract!Next]_<<dst, Accounted, Outcome>>
<1>. USE DEF CopyInv
<1>. DEFINE e == finishedBuffers.expected
<1>1. processPc # "Done" /\ processPc' = processPc
  BY WriterLeavesReader DEF SuccessInv, EndsInOrder, processVars
<1>2. Outcome = "Copying" /\ Outcome' = "Copying"
  BY <1>1 DEF Outcome
<1>3. e \in Nat /\ SourceChunks \in Nat /\ WellFormed(finishedBuffers)
  BY FileAssumption DEF TypeInv, TypeOK, FinitePlaces, Queue
<1>4. CASE WriteAccounted \/ WriteSizeMismatch \/ FinalizeFails
  <2>1. WriteFinishedSignalled
    BY <1>4 DEF WriteAccounted, WriteSizeMismatch, FinalizeFails
  <2>2. /\ writerPc = "Wait" /\ UNCHANGED dst
        /\ finishedBuffers' = Pop(finishedBuffers) /\ e \in finishedBuffers.buffers
    BY <2>1 DEF WriteFinishedSignalled, HasPoppable, IsFirst
  <2>3. finishedBuffers'.expected = e + 1
    BY <1>3, <2>2, PopContents
  <2>4. CASE e < SourceChunks
    <3>1. Accounted = e /\ Accounted' = e + 1
      BY <1>3, <2>3, <2>4 DEF Accounted, SmallerOf
    <3>2. e \in dst
      BY <1>3, <2>2, <2>4 DEF SuccessInv, WriterProgress
    <3>. QED
      BY <1>2, <2>2, <3>1, <3>2 DEF Abstract!Next, Abstract!Account, Accounted
  <2>5. CASE ~(e < SourceChunks)
    <3>1. Accounted = SourceChunks /\ Accounted' = SourceChunks
      BY <1>3, <2>3, <2>5 DEF Accounted, SmallerOf
    <3>. QED
      BY <1>2, <2>2, <3>1
  <2>. QED
    BY <2>4, <2>5
<1>5. ASSUME NEW p \in writing, WriteCompletes(p)
      PROVE  [Abstract!Next]_<<dst, Accounted, Outcome>>
  <2>1. /\ p \in Nat /\ IsLastPart(p) \in BOOLEAN
        /\ finishedBuffers' = Push(finishedBuffers, p, IsLastPart(p))
    BY <1>5 DEF TypeInv, TypeOK, WriteCompletes, IsLastPart
  <2>2. finishedBuffers'.expected = e
    BY <1>3, <2>1 DEF Push, WellFormed, Queue
  <2>3. Accounted' = Accounted
    BY <2>2 DEF Accounted
  <2>4. e <= p
    BY DEF AccountingInv, WriterHolds
  <2>5. CASE p < SourceChunks
    <3>1. dst' = dst \cup {p}
      BY <1>5, <2>5 DEF WriteCompletes, DataSize
    <3>2. p \in Accounted..(SourceChunks - 1)
      BY <1>3, <2>1, <2>4, <2>5 DEF Accounted, SmallerOf
    <3>. QED
      BY <1>2, <2>3, <3>1, <3>2 DEF Abstract!Next, Abstract!Store, Accounted
  <2>6. CASE ~(p < SourceChunks)
    BY <1>2, <1>5, <2>3, <2>6 DEF WriteCompletes, DataSize
  <2>. QED
    BY <2>5, <2>6
<1>6. CASE \/ WriterKilled \/ HandleWriteFailed \/ NothingToWrite \/ RetryWrite
           \/ StartWrite \/ WriterDrained
           \/ \E p \in writing : WriteCompletesFailed(p)
  <2>1. UNCHANGED dst
    BY <1>6 DEF WriterKilled, HandleWriteFailed, NothingToWrite, RetryWrite, StartWrite,
       WritePossibleSignalled, WriterDrained, WriteCompletesFailed
  <2>2. finishedBuffers'.expected = e
    <3>1. CASE HandleWriteFailed
      BY <1>3, <3>1, PopErrorWellFormed DEF HandleWriteFailed
    <3>2. CASE WriterDrained
      BY <1>3, <3>2, ClearContents DEF WriterDrained
    <3>3. ASSUME NEW p \in writing, WriteCompletesFailed(p)
          PROVE  finishedBuffers'.expected = e
      <4>1. p \in Nat /\ finishedBuffers' = PushError(finishedBuffers, p)
        BY <3>3 DEF TypeInv, TypeOK, WriteCompletesFailed
      <4>. QED
        BY <1>3, <4>1, PushErrorContents
    <3>4. CASE WriterKilled \/ NothingToWrite \/ RetryWrite \/ StartWrite
      BY <3>4 DEF WriterKilled, NothingToWrite, RetryWrite, StartWrite,
         WritePossibleSignalled
    <3>. QED
      BY <1>6, <3>1, <3>2, <3>3, <3>4
  <2>. QED
    BY <1>2, <2>1, <2>2 DEF Accounted
<1>. QED
  BY <1>4, <1>5, <1>6 DEF WriterStep, WriterCompletion

\* The last step of Process completes the copy or stops it; the other steps of the
\* reader and of Process are not seen.
LEMMA OthersImplement ==
    ASSUME CopyInv, AccountingInv,
           ReaderStep \/ ReaderCompletion \/ ProcessStep \/ Kill \/ UNCHANGED vars
    PROVE  [Abstract!Next]_<<dst, Accounted, Outcome>>
<1>1. UNCHANGED <<dst, Accounted>>
  BY AccountingOthers DEF Accounted
<1>2. CASE WriterStopped
  <2>1. /\ Outcome = "Copying" /\ Outcome' \in {"Complete", "Stopped"}
        /\ Outcome' = "Complete" => processPc = "StopWriter" /\ processResult = "Continue"
    BY <1>2 DEF WriterStopped, Outcome
  <2>2. CASE Outcome' = "Complete"
    <3>1. SourceChunks <= finishedBuffers.expected
      BY <2>1, <2>2 DEF CopyInv, SuccessInv, ResultsJustified, AccountingInv
    <3>2. finishedBuffers.expected \in Nat /\ SourceChunks \in Nat
      BY FileAssumption DEF CopyInv, TypeInv, TypeOK, Queue
    <3>3. Accounted = SourceChunks
      BY <3>1, <3>2 DEF Accounted, SmallerOf
    <3>. QED
      BY <1>1, <2>1, <2>2, <3>3 DEF Abstract!Next, Abstract!Complete, Accounted
  <2>3. CASE Outcome' = "Stopped"
    BY <1>1, <2>1, <2>3 DEF Abstract!Next, Abstract!Stop, Accounted
  <2>. QED
    BY <2>1, <2>2, <2>3
<1>3. CASE \/ ReaderStep \/ ReaderCompletion \/ ReaderDoneSeen \/ WriterDoneSeen
           \/ ReaderStopped \/ Kill \/ UNCHANGED vars
  <2>1. Outcome' = Outcome
    <3>1. CASE ReaderStep \/ ReaderCompletion
      BY <3>1, ReaderLeavesWriter DEF Outcome, processVars
    <3>2. CASE ReaderDoneSeen \/ WriterDoneSeen \/ ReaderStopped
      BY <3>2 DEF ReaderDoneSeen, WriterDoneSeen, ReaderStopped, Outcome
    <3>3. CASE Kill \/ UNCHANGED vars
      BY <3>3 DEF Kill, vars, processVars, Outcome
    <3>. QED
      BY <1>3, <3>1, <3>2, <3>3
  <2>. QED
    BY <1>1, <2>1
<1>. QED
  BY <1>2, <1>3 DEF ProcessStep

\* The initial states are FileCopy's.
LEMMA InitImplements == Init => Abstract!Init
<1>. SUFFICES ASSUME Init PROVE Abstract!Init
  OBVIOUS
<1>1. /\ processed \in ResumePositions /\ processed <= SourceChunks /\ processed \in Nat
      /\ SourceChunks \in Nat /\ finishedBuffers.expected = processed
  BY ResumeAssumption, FileAssumption DEF Init, EmptyQueue
<1>2. SmallerOf(finishedBuffers.expected, SourceChunks) = processed
  BY <1>1 DEF SmallerOf
<1>. QED
  BY <1>1, <1>2 DEF Init, Abstract!Init, Outcome

\* Copying a file with two threads and asynchronous requests accounts for the chunks in
\* the order of the file, each after it was written, never writes an accounted chunk
\* again, and reports success only when all are accounted for.
THEOREM CopyImplementsFileCopy == Spec => ImplementsFileCopy
<1>1. CopyInv /\ AccountingInv /\ [Next]_vars => AccountingInv'
  BY AccountingWriter, AccountingOthers DEF Next, Stopped
<1>2. CopyInv /\ AccountingInv /\ [Next]_vars
        => [Abstract!Next]_<<dst, Accounted, Outcome>>
  BY WriterImplements, OthersImplement DEF Next, Stopped
<1>. QED
  BY <1>1, <1>2, AccountingInit, InitImplements, TypeInvariant, PlacesInvariant,
     SuccessInvariant, PTL DEF Spec, ImplementsFileCopy, Abstract!Spec, CopyInv, Accounted

-----------------------------------------------------------------------------
(* Read-ahead is bounded *)

\* Nothing has been read.
LEMMA ReadAheadInit == Init => ReadAheadBounded
<1>. SUFFICES ASSUME Init PROVE ReadAheadBounded
  OBVIOUS
<1>1. fullBuffers.buffers = {} /\ reading = {}
  BY DEF Init, EmptyQueue
<1>. QED
  BY <1>1, FS_EmptySet, PoolAssumption DEF ReadAheadBounded

\* What leaves both sets alone, or shrinks them, keeps the bound.
LEMMA ReadAheadShrinks ==
    ASSUME TypeInv, ReadAheadBounded, reading' \subseteq reading,
           fullBuffers'.buffers \subseteq fullBuffers.buffers
    PROVE  ReadAheadBounded'
<1>1. IsFiniteSet(reading) /\ IsFiniteSet(fullBuffers.buffers)
  BY DEF TypeInv, FinitePlaces, WellFormed
<1>2. /\ Cardinality(reading') <= Cardinality(reading) /\ IsFiniteSet(reading')
      /\ Cardinality(fullBuffers'.buffers) <= Cardinality(fullBuffers.buffers)
      /\ IsFiniteSet(fullBuffers'.buffers)
  BY <1>1, FS_Subset
<1>3. /\ Cardinality(reading) \in Nat /\ Cardinality(reading') \in Nat
      /\ Cardinality(fullBuffers.buffers) \in Nat
      /\ Cardinality(fullBuffers'.buffers) \in Nat
  BY <1>1, <1>2, FS_CardinalityType
<1>. QED
  BY <1>2, <1>3, PoolAssumption DEF ReadAheadBounded

\* Adding an element adds at most one to the size.
LEMMA GrowsByOne ==
    ASSUME NEW S, NEW x, IsFiniteSet(S)
    PROVE  /\ Cardinality(S) \in Nat /\ Cardinality(S \cup {x}) \in Nat
           /\ Cardinality(S \cup {x}) <= Cardinality(S) + 1
<1>1. Cardinality(S) \in Nat
  BY FS_CardinalityType
<1>2. Cardinality(S \cup {x}) \in {Cardinality(S), Cardinality(S) + 1}
  BY FS_AddElement
<1>. QED
  BY <1>1, <1>2

\* A new request was allowed by both limits.
LEMMA ReadAheadIssued ==
    ASSUME TypeInv, ReadLimitsAllow, NEW p, reading' = reading \cup {p},
           fullBuffers' = fullBuffers
    PROVE  ReadAheadBounded'
<1>1. IsFiniteSet(reading) /\ IsFiniteSet(fullBuffers.buffers) /\ leakedReads \in Nat
  BY DEF TypeInv, TypeOK, FinitePlaces, WellFormed
<1>2. /\ Cardinality(reading) \in Nat /\ Cardinality(fullBuffers.buffers) \in Nat
      /\ Cardinality(reading \cup {p}) <= Cardinality(reading) + 1
      /\ Cardinality(reading \cup {p}) \in Nat
  BY <1>1, GrowsByOne
<1>3. Cardinality(reading) < MaxConcurrentReads
  BY <1>1, <1>2, PoolAssumption DEF ReadLimitsAllow
<1>4. Cardinality(fullBuffers.buffers) < MaxReadAhead
  BY DEF ReadLimitsAllow
<1>. QED
  BY <1>2, <1>3, <1>4, PoolAssumption DEF ReadAheadBounded

\* A completed request only moves from one set to the other.
LEMMA ReadAheadCompleted ==
    ASSUME TypeInv, ReadAheadBounded, NEW p \in reading, ReadCompletes(p)
    PROVE  ReadAheadBounded'
<1>1. /\ IsFiniteSet(reading) /\ IsFiniteSet(fullBuffers.buffers)
      /\ p \in Nat /\ IsLastPart(p) \in BOOLEAN /\ WellFormed(fullBuffers)
  BY DEF TypeInv, TypeOK, FinitePlaces, WellFormed, IsLastPart
<1>2. reading' = reading \ {p} /\ fullBuffers'.buffers = fullBuffers.buffers \cup {p}
  BY <1>1 DEF ReadCompletes, Push, WellFormed, Queue
<1>3. /\ Cardinality(reading) \in Nat /\ Cardinality(fullBuffers.buffers) \in Nat
      /\ Cardinality(fullBuffers.buffers \cup {p}) <= Cardinality(fullBuffers.buffers) + 1
      /\ Cardinality(fullBuffers.buffers \cup {p}) \in Nat
  BY <1>1, GrowsByOne
<1>4. Cardinality(reading \ {p}) = Cardinality(reading) - 1
  BY <1>1, FS_RemoveElement
<1>. QED
  BY <1>2, <1>3, <1>4, PoolAssumption DEF ReadAheadBounded

\* Every step keeps the bound.
LEMMA ReadAheadStep == TypeInv /\ ReadAheadBounded /\ [Next]_vars => ReadAheadBounded'
<1>. SUFFICES ASSUME TypeInv, ReadAheadBounded, [Next]_vars PROVE ReadAheadBounded'
  OBVIOUS
<1>. DEFINE Shrinks == reading' \subseteq reading
                       /\ fullBuffers'.buffers \subseteq fullBuffers.buffers
<1>1. WellFormed(fullBuffers)
  BY DEF TypeInv, FinitePlaces
<1>2. CASE \/ ReaderKilled \/ ReadFailedSignalled \/ HandleReadFailed \/ NothingToRead
           \/ ReaderFinished \/ ReaderDrained
  <2>1. Shrinks
    BY <1>1, <1>2, PopErrorWellFormed DEF ReaderKilled, ReadFailedSignalled,
       HandleReadFailed, NothingToRead, ReadPossibleSignalled, ReaderFinished,
       ReaderDrained, sharedVars
  <2>. QED
    BY <2>1, ReadAheadShrinks
<1>3. CASE RetryRead \/ StartNewRead
  <2>1. /\ ReadLimitsAllow /\ fullBuffers' = fullBuffers
        /\ \/ \E p \in readRetry \cup {nextReadPosition} : reading' = reading \cup {p}
           \/ reading' = reading
    BY <1>3 DEF RetryRead, StartNewRead, ReadPossibleSignalled, IssueRead
  <2>. QED
    BY <2>1, ReadAheadIssued, ReadAheadShrinks
<1>4. ASSUME NEW p \in reading, ReadCompletesFailed(p) \/ ReadCompletionThrows(p)
      PROVE  ReadAheadBounded'
  <2>1. p \in Nat
    BY DEF TypeInv, TypeOK
  <2>2. Shrinks
    BY <1>1, <1>4, <2>1, PushErrorContents DEF ReadCompletesFailed, ReadCompletionThrows,
       ReadFails
  <2>. QED
    BY <2>2, ReadAheadShrinks
<1>5. CASE WriterStep \/ WriterCompletion
  <2>1. Shrinks
    BY <1>1, <1>5, WriterKeepsSequence, PopContents, ClearContents DEF readerVars
  <2>. QED
    BY <2>1, ReadAheadShrinks
<1>6. CASE ProcessStep \/ Kill \/ UNCHANGED vars
  <2>1. Shrinks
    BY <1>1, <1>6, ClearContents DEF ProcessStep, ReaderDoneSeen, WriterDoneSeen,
       ReaderStopped, WriterStopped, Kill, vars, readerVars, sharedVars
  <2>. QED
    BY <2>1, ReadAheadShrinks
<1>. QED
  BY <1>2, <1>3, <1>4, <1>5, <1>6, ReadAheadCompleted
  DEF Next, ReaderStep, ReaderCompletion, Stopped

\* The reads in flight overshoot the read-ahead limit by no more than their number less
\* one, for all limits.
THEOREM ReadAheadCorrect == Spec => []ReadAheadBounded
  BY TypeInvariant, ReadAheadInit, ReadAheadStep, PTL DEF Spec

-----------------------------------------------------------------------------
(* The recorded error position has an owner *)

\* The reader passes the position on from request to slot, to retry, to request.
LEMMA OwnerReader ==
    ASSUME TypeInv, ReaderPlacesInv, ErrorPositionHasOwner, ReaderStep \/ ReaderCompletion
    PROVE  ErrorPositionHasOwner'
<1>1. WellFormed(fullBuffers) /\ SlotMatches(fullBuffers)
  BY DEF TypeInv, FinitePlaces, ReaderPlacesInv
<1>2. writerPc' = writerPc
  BY ReaderLeavesWriter DEF writerVars
<1>3. CASE \/ ReaderKilled \/ ReadFailedSignalled \/ NothingToRead \/ ReaderFinished
           \/ ReaderDrained
  BY <1>2, <1>3 DEF ReaderKilled, ReadFailedSignalled, NothingToRead,
     ReadPossibleSignalled, ReaderFinished, ReaderStops, ReaderDrained, sharedVars,
     ErrorPositionHasOwner
<1>4. CASE HandleReadFailed
  <2>1. /\ fullBuffers'.errorPosition = fullBuffers.errorPosition
        /\ UNCHANGED reading /\ readerPc = "ReadFailed"
    BY <1>1, <1>4, PopErrorWellFormed DEF HandleReadFailed
  <2>2. \/ readerPc' = "Drain"
        \/ \E p \in fullBuffers.error : readRetry' = readRetry \cup {p}
    BY <1>4 DEF HandleReadFailed, ReaderStops
  <2>3. readerPc' # "Drain" => readRetry' = readRetry \cup fullBuffers.error
    BY <1>1, <2>2 DEF SlotMatches
  <2>. QED
    BY <1>2, <2>1, <2>3 DEF ErrorPositionHasOwner
<1>5. CASE RetryRead
  <2>1. PICK p \in readRetry : readRetry' = readRetry \ {p} /\ IssueRead(p)
    BY <1>5 DEF RetryRead
  <2>2. UNCHANGED fullBuffers /\ readerPc = "Wait"
    BY <1>5 DEF RetryRead, ReadPossibleSignalled
  <2>. QED
    BY <1>2, <2>1, <2>2 DEF IssueRead, ReaderStops, ErrorPositionHasOwner
<1>6. CASE StartNewRead
  BY <1>2, <1>6 DEF StartNewRead, ReadPossibleSignalled, IssueRead, ReaderStops,
     ErrorPositionHasOwner
<1>7. ASSUME NEW p \in reading, ReadCompletes(p)
      PROVE  ErrorPositionHasOwner'
  <2>1. p \in Nat /\ IsLastPart(p) \in BOOLEAN
    BY DEF TypeInv, TypeOK, IsLastPart
  <2>2. /\ fullBuffers'.error = fullBuffers.error
        /\ fullBuffers'.errorPosition =
             IF fullBuffers.errorPosition = p THEN NoPosition ELSE fullBuffers.errorPosition
        /\ UNCHANGED <<readRetry, readerPc>> /\ reading' = reading \ {p}
    BY <1>1, <1>7, <2>1 DEF ReadCompletes, Push, WellFormed, Queue
  <2>. QED
    BY <1>2, <2>2 DEF ErrorPositionHasOwner
<1>8. ASSUME NEW p \in reading, ReadCompletesFailed(p)
      PROVE  ErrorPositionHasOwner'
  <2>1. /\ p \in Nat /\ p \notin fullBuffers.error
        /\ fullBuffers.errorPosition \in Nat \cup {-1}
    BY <1>1 DEF TypeInv, TypeOK, ReaderPlacesInv, Apart, WellFormed, Queue, Positions,
       NoPosition
  <2>2. /\ fullBuffers' = PushError(fullBuffers, p)
        /\ readRetry' = readRetry \cup SentToRetry(fullBuffers, p)
        /\ UNCHANGED readerPc /\ reading' = reading \ {p}
    BY <1>8 DEF ReadCompletesFailed, ReadFails
  <2>3. CASE TakesSlot(fullBuffers, p)
    <3>1. fullBuffers'.error = {p} /\ fullBuffers'.errorPosition = p
      BY <1>1, <2>2, <2>3 DEF PushError, WellFormed, Queue
    <3>. QED
      BY <3>1 DEF ErrorPositionHasOwner
  <2>4. CASE ~TakesSlot(fullBuffers, p)
    <3>1. fullBuffers' = fullBuffers
      BY <2>2, <2>4 DEF PushError
    <3>2. fullBuffers.errorPosition # p
      BY <1>1, <2>1, <2>4 DEF TakesSlot, SlotMatches, HasError
    <3>. QED
      BY <1>2, <2>2, <3>1, <3>2 DEF ErrorPositionHasOwner
  <2>. QED
    BY <2>3, <2>4
<1>9. ASSUME NEW p \in reading, ReadCompletionThrows(p)
      PROVE  ErrorPositionHasOwner'
  BY <1>9 DEF ReadCompletionThrows, ReadFails, ReaderAlertable, ReaderStops,
     ErrorPositionHasOwner
<1>. QED
  BY <1>3, <1>4, <1>5, <1>6, <1>7, <1>8, <1>9 DEF ReaderStep, ReaderCompletion

\* The others do not touch it while both loops run.
LEMMA OwnerOthers ==
    ASSUME TypeInv, ErrorPositionHasOwner,
           WriterStep \/ WriterCompletion \/ ProcessStep \/ Kill \/ UNCHANGED vars
    PROVE  ErrorPositionHasOwner'
<1>1. WellFormed(fullBuffers)
  BY DEF TypeInv, FinitePlaces
<1>2. CASE WriterStep \/ WriterCompletion
  <2>1. /\ UNCHANGED <<readRetry, reading, readerPc>>
        /\ BothRunning' => BothRunning
        /\ \/ writerPc' # "Wait"
           \/ fullBuffers'.error = fullBuffers.error
              /\ fullBuffers'.errorPosition = fullBuffers.errorPosition
    BY <1>1, <1>2, WriterKeepsSequence, PopContents DEF readerVars
  <2>. QED
    BY <2>1 DEF ErrorPositionHasOwner, BothRunning
<1>3. CASE WriterStopped
  BY <1>3 DEF WriterStopped, ErrorPositionHasOwner
<1>4. CASE ReaderDoneSeen \/ WriterDoneSeen \/ ReaderStopped \/ Kill \/ UNCHANGED vars
  BY <1>4 DEF ReaderDoneSeen, WriterDoneSeen, ReaderStopped, Kill, vars, readerVars,
     writerVars, sharedVars, ErrorPositionHasOwner
<1>. QED
  BY <1>2, <1>3, <1>4 DEF ProcessStep

\* While both loops run, a recorded error position belongs to a read that is in the slot,
\* waiting for its retry or in flight again.
THEOREM OwnerCorrect == Spec => []ErrorPositionHasOwner
<1>1. Init => ErrorPositionHasOwner
  BY DEF Init, EmptyQueue, ErrorPositionHasOwner
<1>2. TypeInv /\ ReaderPlacesInv /\ ErrorPositionHasOwner /\ [Next]_vars
        => ErrorPositionHasOwner'
  BY OwnerReader, OwnerOthers DEF Next, Stopped
<1>. QED
  BY <1>1, <1>2, TypeInvariant, PlacesInvariant, PTL DEF Spec

-----------------------------------------------------------------------------
(* No wake-up is lost *)

\* There is something for the reader, or the writer, to take.
ReadCanStart == ReadLimitsAllow /\ (readRetry # {} \/ CanStartNewRead)

WriteCanStart == WriteLimitAllows /\ (writeRetry # {} \/ HasPoppable(fullBuffers))

\* The reader is told of everything that lets it start a read.
LEMMA ReaderAwake ==
    ASSUME TypeInv, SuccessInv, NoLostWakeUp, [Next]_vars, readerPc' = "Wait", ReadCanStart'
    PROVE  readPossible'
<1>. DEFINE Same == /\ readerPc = "Wait"
                    /\ UNCHANGED <<reading, leakedReads, readRetry, dataSourceFinishedPos,
                                   emptyBuffers, readPossible>>
                    /\ fullBuffers'.buffers = fullBuffers.buffers
<1>1. ASSUME Same PROVE readPossible'
  <2>1. ReadCanStart
    BY <1>1 DEF ReadCanStart, ReadLimitsAllow, CanStartNewRead, IsDataSourceFinished
  <2>. QED
    BY <1>1, <2>1 DEF NoLostWakeUp, ReadCanStart
<1>2. CASE ReaderStep
  <2>1. CASE NothingToRead
    <3>1. ReadCanStart
      BY <2>1 DEF NothingToRead, ReadPossibleSignalled, ReadCanStart, ReadLimitsAllow,
         CanStartNewRead, IsDataSourceFinished
    <3>. QED
      BY <2>1, <3>1 DEF NothingToRead, ReadCanStart
  <2>2. CASE RetryRead \/ StartNewRead
    BY <2>2 DEF RetryRead, StartNewRead, ReadPossibleSignalled
  <2>3. CASE HandleReadFailed
    BY <2>3 DEF HandleReadFailed, ReaderStops
  <2>4. CASE ReaderKilled \/ ReadFailedSignalled \/ ReaderFinished \/ ReaderDrained
    BY <2>4 DEF ReaderKilled, ReadFailedSignalled, ReaderFinished, ReaderStops,
       ReaderDrained
  <2>. QED
    BY <1>2, <2>1, <2>2, <2>3, <2>4 DEF ReaderStep
<1>3. CASE ReaderCompletion
  BY <1>3 DEF ReaderCompletion, ReadCompletes, ReadCompletesFailed, ReadCompletionThrows,
     ReadFails, ReaderAlertable, ReaderStops
<1>4. CASE WriterStep
  <2>1. CASE WriteAccounted \/ FinalizeFails \/ StartWrite \/ WriterDrained
    BY <2>1 DEF WriteAccounted, FinalizeFails, StartWrite, WriterDrained
  <2>2. CASE WriterKilled \/ WriteSizeMismatch \/ NothingToWrite
    <3>1. Same
      BY <2>2 DEF WriterKilled, WriteSizeMismatch, WriteFinishedSignalled, NothingToWrite,
         WritePossibleSignalled, readerVars, sharedVars
    <3>. QED
      BY <1>1, <3>1
  <2>3. CASE HandleWriteFailed \/ RetryWrite
    <3>1. readPossible' \/ Same
      BY <2>3 DEF HandleWriteFailed, RetryWrite, WritePossibleSignalled, readerVars,
         TypeInv, TypeOK
    <3>. QED
      BY <1>1, <3>1
  <2>. QED
    BY <1>4, <2>1, <2>2, <2>3 DEF WriterStep
<1>5. CASE WriterCompletion
  <2>1. Same
    BY <1>5 DEF WriterCompletion, WriteCompletes, WriteCompletesFailed, readerVars
  <2>. QED
    BY <1>1, <2>1
<1>6. CASE WriterStopped
  BY <1>6 DEF WriterStopped, readerVars, SuccessInv, EndsInOrder
<1>7. CASE ReaderDoneSeen \/ WriterDoneSeen \/ ReaderStopped \/ Kill \/ UNCHANGED vars
  <2>1. Same
    BY <1>7 DEF ReaderDoneSeen, WriterDoneSeen, ReaderStopped, Kill, vars, readerVars,
       sharedVars
  <2>. QED
    BY <1>1, <2>1
<1>. QED
  BY <1>2, <1>3, <1>4, <1>5, <1>6, <1>7 DEF Next, ProcessStep, Stopped

\* The writer is told of everything that lets it start a write.
LEMMA WriterAwake ==
    ASSUME TypeInv, NoLostWakeUp, [Next]_vars, writerPc' = "Wait", WriteCanStart'
    PROVE  writePossible'
<1>. DEFINE Same == /\ writerPc = "Wait"
                    /\ UNCHANGED <<writing, writeRetry, writePossible>>
                    /\ fullBuffers'.buffers = fullBuffers.buffers
                    /\ fullBuffers'.expected = fullBuffers.expected
<1>1. ASSUME Same PROVE writePossible'
  <2>1. WriteCanStart
    BY <1>1 DEF WriteCanStart, WriteLimitAllows, HasPoppable, IsFirst
  <2>. QED
    BY <1>1, <2>1 DEF NoLostWakeUp, WriteCanStart
<1>2. WellFormed(fullBuffers)
  BY DEF TypeInv, FinitePlaces
<1>3. CASE ReaderStep
  <2>1. /\ writerPc = "Wait" /\ UNCHANGED <<writing, writeRetry>>
    BY <1>3, ReaderLeavesWriter DEF writerVars
  <2>2. UNCHANGED writePossible
    BY <1>3 DEF ReaderStep, ReaderKilled, ReadFailedSignalled, HandleReadFailed,
       NothingToRead, RetryRead, StartNewRead, ReadPossibleSignalled, ReaderFinished,
       ReaderDrained, sharedVars
  <2>3. fullBuffers' \in {fullBuffers, PopError(fullBuffers)}
    BY <1>3 DEF ReaderStep, ReaderKilled, ReadFailedSignalled, HandleReadFailed,
       NothingToRead, RetryRead, StartNewRead, ReadPossibleSignalled, ReaderFinished,
       ReaderDrained, sharedVars
  <2>4. Same
    BY <1>2, <2>1, <2>2, <2>3, PopErrorWellFormed
  <2>. QED
    BY <1>1, <2>4
<1>4. CASE ReaderCompletion
  <2>1. PICK p \in reading :
          ReadCompletes(p) \/ ReadCompletesFailed(p) \/ ReadCompletionThrows(p)
    BY <1>4 DEF ReaderCompletion
  <2>2. CASE ReadCompletes(p)
    BY <2>2 DEF ReadCompletes
  <2>3. CASE ReadCompletesFailed(p) \/ ReadCompletionThrows(p)
    <3>1. /\ writerPc = "Wait" /\ UNCHANGED <<writing, writeRetry, writePossible>>
      BY <2>3 DEF ReadCompletesFailed, ReadCompletionThrows, ReadFails, writerVars
    <3>2. fullBuffers' \in {fullBuffers, PushError(fullBuffers, p)} /\ p \in Nat
      BY <2>3 DEF ReadCompletesFailed, ReadCompletionThrows, TypeInv, TypeOK
    <3>3. Same
      BY <1>2, <3>1, <3>2, PushErrorContents
    <3>. QED
      BY <1>1, <3>3
  <2>. QED
    BY <2>1, <2>2, <2>3
<1>5. CASE WriterStep
  <2>1. CASE NothingToWrite
    <3>1. WriteCanStart
      BY <2>1 DEF NothingToWrite, WriteCanStart, WriteLimitAllows
    <3>. QED
      BY <2>1, <3>1 DEF NothingToWrite, WriteCanStart
  <2>2. CASE RetryWrite \/ StartWrite
    BY <2>2 DEF RetryWrite, StartWrite, WritePossibleSignalled
  <2>3. CASE WriterDrained
    BY <2>3 DEF WriterDrained
  <2>4. CASE HandleWriteFailed
    BY <2>4 DEF HandleWriteFailed, WriterStops
  <2>5. CASE WriterKilled
    BY <2>5 DEF WriterKilled, WriterStops
  <2>6. CASE WriteAccounted \/ WriteSizeMismatch \/ FinalizeFails
    <3>1. Same
      BY <2>6 DEF WriteAccounted, WriteSizeMismatch, FinalizeFails, WriteFinishedSignalled
    <3>. QED
      BY <1>1, <3>1
  <2>. QED
    BY <1>5, <2>1, <2>2, <2>3, <2>4, <2>5, <2>6 DEF WriterStep
<1>6. CASE WriterCompletion
  BY <1>6 DEF WriterCompletion, WriteCompletes, WriteCompletesFailed
<1>7. CASE WriterStopped
  BY <1>7 DEF WriterStopped
<1>8. CASE ReaderDoneSeen \/ WriterDoneSeen \/ ReaderStopped \/ Kill \/ UNCHANGED vars
  <2>1. Same
    BY <1>8 DEF ReaderDoneSeen, WriterDoneSeen, ReaderStopped, Kill, vars, writerVars,
       sharedVars
  <2>. QED
    BY <1>1, <2>1
<1>. QED
  BY <1>3, <1>4, <1>5, <1>6, <1>7, <1>8 DEF Next, ProcessStep, Stopped

\* When a buffer could be taken the event that makes the loop try is set, for every pool
\* and all limits.
THEOREM WakeUpsCorrect == Spec => []NoLostWakeUp
<1>1. Init => NoLostWakeUp
  BY DEF Init, NoLostWakeUp
<1>2. TypeInv /\ SuccessInv /\ NoLostWakeUp /\ [Next]_vars => NoLostWakeUp'
  <2>. SUFFICES ASSUME TypeInv, SuccessInv, NoLostWakeUp, [Next]_vars
                PROVE  NoLostWakeUp'
    OBVIOUS
  <2>1. readerPc' = "Wait" /\ ReadCanStart' => readPossible'
    BY ReaderAwake
  <2>2. writerPc' = "Wait" /\ WriteCanStart' => writePossible'
    BY WriterAwake
  <2>. QED
    BY <2>1, <2>2 DEF NoLostWakeUp, ReadCanStart, WriteCanStart
<1>. QED
  BY <1>1, <1>2, TypeInvariant, SuccessInvariant, PTL DEF Spec

-----------------------------------------------------------------------------
(* No completion throws while at most two reads are in flight *)

Marked == {fullBuffers.errorPosition} \ {NoPosition}

\* Positions that were handed out for reading and have not been read.
Unread == reading \cup readRetry \cup Marked

\* ErrorPositionHasOwner without the writer.
MarkedOwned ==
    readerPc \in {"Wait", "ReadFailed"} =>
        Marked \subseteq fullBuffers.error \cup readRetry \cup reading

\* Retries come before new reads, so what waits for its retry counts as in flight; the
\* read that met the end of file leaves room that no other takes.
FewUnread ==
    /\ Cardinality(Unread) <= MaxConcurrentReads
    /\ IsDataSourceFinished => Cardinality(Unread) < MaxConcurrentReads

\* The destination never outgrows the source, nor the source its known size.
WritesFit == dstSize <= SourceChunks /\ SourceChunks <= knownSize

ThrowInv == MarkedOwned /\ FewUnread /\ WritesFit /\ CompletionsNeverThrow

SourceHasNotGrown == \A size \in KnownSizes : SourceChunks <= size

\* There are finitely many such positions.
LEMMA UnreadFinite ==
    ASSUME TypeInv
    PROVE  IsFiniteSet(Unread) /\ Cardinality(Unread) \in Nat
<1>1. IsFiniteSet(Marked) /\ IsFiniteSet(reading \cup readRetry)
  BY FS_Singleton, FS_Difference, FS_Union DEF TypeInv, FinitePlaces, Marked
<1>2. IsFiniteSet(Unread)
  BY <1>1, FS_Union DEF Unread
<1>. QED
  BY <1>2, FS_CardinalityType

\* What adds no such position keeps FewUnread.
LEMMA UnreadShrinks ==
    ASSUME TypeInv, FewUnread, Unread' \subseteq Unread,
           UNCHANGED dataSourceFinishedPos
    PROVE  FewUnread'
<1>1. /\ IsFiniteSet(Unread) /\ Cardinality(Unread) \in Nat
      /\ Cardinality(Unread') \in Nat /\ Cardinality(Unread') <= Cardinality(Unread)
  BY UnreadFinite, FS_Subset, FS_CardinalityType
<1>. QED
  BY <1>1, PoolAssumption DEF FewUnread, IsDataSourceFinished

\* So does a read that completes, the last one or not.
LEMMA UnreadCompletes ==
    ASSUME TypeInv, FewUnread, NEW p \in Unread, Unread' \subseteq Unread \ {p}
    PROVE  FewUnread'
<1>1. IsFiniteSet(Unread) /\ Cardinality(Unread) \in Nat
  BY UnreadFinite
<1>2. IsFiniteSet(Unread \ {p}) /\ Cardinality(Unread \ {p}) = Cardinality(Unread) - 1
  BY <1>1, FS_RemoveElement
<1>3. Cardinality(Unread') \in Nat /\ Cardinality(Unread') <= Cardinality(Unread \ {p})
  BY <1>2, FS_Subset, FS_CardinalityType
<1>. QED
  BY <1>1, <1>2, <1>3, PoolAssumption DEF FewUnread

\* A new read finds nothing unread but what is in flight.
LEMMA UnreadStarts ==
    ASSUME TypeInv, MarkedOwned, StartNewRead
    PROVE  FewUnread'
<1>1. /\ readerPc = "Wait" /\ fullBuffers.error = {} /\ readRetry = {}
      /\ ~IsDataSourceFinished /\ Cardinality(reading) + leakedReads < MaxConcurrentReads
      /\ UNCHANGED <<fullBuffers, readRetry, dataSourceFinishedPos>>
      /\ reading' \subseteq reading \cup {nextReadPosition}
  BY DEF StartNewRead, ReadPossibleSignalled, HasError, CanStartNewRead, ReadLimitsAllow,
     IssueRead
<1>2. Unread' \subseteq reading \cup {nextReadPosition}
  BY <1>1 DEF MarkedOwned, Unread, Marked
<1>3. IsFiniteSet(reading) /\ leakedReads \in Nat
  BY DEF TypeInv, TypeOK, FinitePlaces
<1>4. /\ Cardinality(reading) \in Nat /\ Cardinality(reading \cup {nextReadPosition}) \in Nat
      /\ Cardinality(reading \cup {nextReadPosition}) <= Cardinality(reading) + 1
  BY <1>3, GrowsByOne
<1>5. IsFiniteSet(reading \cup {nextReadPosition})
  BY <1>3, FS_AddElement
<1>6. /\ Cardinality(Unread') \in Nat
      /\ Cardinality(Unread') <= Cardinality(reading \cup {nextReadPosition})
  BY <1>2, <1>5, FS_Subset, FS_CardinalityType
<1>. QED
  BY <1>1, <1>3, <1>4, <1>6, PoolAssumption DEF FewUnread, IsDataSourceFinished

\* The reader passes the position on from request to slot, to retry, to request.
LEMMA MarkedReader ==
    ASSUME TypeInv, ReaderPlacesInv, MarkedOwned, FewUnread, ReaderStep
    PROVE  MarkedOwned' /\ FewUnread'
<1>1. /\ WellFormed(fullBuffers) /\ SlotMatches(fullBuffers)
      /\ fullBuffers.error \subseteq Nat
  BY DEF TypeInv, FinitePlaces, ReaderPlacesInv, WellFormed, Queue
<1>2. fullBuffers.error \subseteq Marked
  BY <1>1 DEF SlotMatches, Marked, NoPosition
<1>3. CASE \/ ReaderKilled \/ ReadFailedSignalled \/ NothingToRead \/ ReaderFinished
           \/ ReaderDrained
  <2>1. /\ UNCHANGED <<fullBuffers, dataSourceFinishedPos, reading>>
        /\ readRetry' \subseteq readRetry
        /\ readRetry' = readRetry \/ readerPc' = "Done"
        /\ readerPc' \in {"Wait", "ReadFailed"} => readerPc = "Wait"
    BY <1>3 DEF ReaderKilled, ReadFailedSignalled, NothingToRead, ReadPossibleSignalled,
       ReaderFinished, ReaderStops, ReaderDrained, sharedVars
  <2>2. Unread' \subseteq Unread /\ MarkedOwned'
    BY <2>1 DEF Unread, Marked, MarkedOwned
  <2>. QED
    BY <2>1, <2>2, UnreadShrinks
<1>4. CASE HandleReadFailed
  <2>1. /\ fullBuffers'.errorPosition = fullBuffers.errorPosition
        /\ UNCHANGED <<reading, dataSourceFinishedPos>> /\ readerPc = "ReadFailed"
    BY <1>1, <1>4, PopErrorWellFormed DEF HandleReadFailed
  <2>2. \/ readerPc' = "Drain" /\ readRetry' = readRetry
        \/ \E p \in fullBuffers.error : readRetry' = readRetry \cup {p}
    BY <1>4 DEF HandleReadFailed, ReaderStops
  <2>3. \/ readerPc' = "Drain" /\ readRetry' = readRetry
        \/ readRetry' = readRetry \cup fullBuffers.error
    BY <1>1, <2>2 DEF SlotMatches
  <2>4. Marked' = Marked
    BY <2>1 DEF Marked
  <2>5. Unread' \subseteq Unread /\ MarkedOwned'
    BY <1>2, <2>1, <2>3, <2>4 DEF Unread, MarkedOwned
  <2>. QED
    BY <2>1, <2>5, UnreadShrinks
<1>5. CASE RetryRead
  <2>1. PICK p \in readRetry : readRetry' = readRetry \ {p} /\ IssueRead(p)
    BY <1>5 DEF RetryRead
  <2>2. UNCHANGED <<fullBuffers, dataSourceFinishedPos>> /\ readerPc = "Wait"
    BY <1>5 DEF RetryRead, ReadPossibleSignalled
  <2>3. \/ reading' = reading \cup {p}
        \/ reading' = reading /\ readerPc' = "Drain"
    BY <2>1 DEF IssueRead, ReaderStops
  <2>4. Unread' \subseteq Unread /\ MarkedOwned'
    BY <2>1, <2>2, <2>3 DEF Unread, Marked, MarkedOwned
  <2>. QED
    BY <2>2, <2>4, UnreadShrinks
<1>6. CASE StartNewRead
  <2>1. MarkedOwned'
    BY <1>6 DEF StartNewRead, ReadPossibleSignalled, IssueRead, ReaderStops, MarkedOwned,
       Marked
  <2>. QED
    BY <1>6, <2>1, UnreadStarts
<1>. QED
  BY <1>3, <1>4, <1>5, <1>6 DEF ReaderStep

\* A completion takes the position out, or leaves it in the slot or with the retries.
LEMMA MarkedCompletion ==
    ASSUME TypeInv, ReaderPlacesInv, MarkedOwned, FewUnread, NEW p \in reading,
           ReadCompletes(p) \/ ReadCompletesFailed(p)
    PROVE  MarkedOwned' /\ FewUnread'
<1>1. /\ WellFormed(fullBuffers) /\ SlotMatches(fullBuffers)
      /\ p \in Nat /\ p \notin fullBuffers.error /\ p \notin readRetry
      /\ fullBuffers.error \subseteq Nat
  BY DEF TypeInv, TypeOK, FinitePlaces, ReaderPlacesInv, Apart, WellFormed, Queue
<1>2. fullBuffers.error \subseteq Marked
  BY <1>1 DEF SlotMatches, Marked, NoPosition
<1>3. CASE ReadCompletes(p)
  <2>1. IsLastPart(p) \in BOOLEAN
    BY <1>1 DEF IsLastPart
  <2>2. /\ fullBuffers'.error = fullBuffers.error
        /\ fullBuffers'.errorPosition =
             IF fullBuffers.errorPosition = p THEN NoPosition ELSE fullBuffers.errorPosition
        /\ UNCHANGED <<readRetry, readerPc>> /\ reading' = reading \ {p}
    BY <1>1, <1>3, <2>1 DEF ReadCompletes, Push, WellFormed, Queue
  <2>3. Marked' = Marked \ {p}
    BY <2>2 DEF Marked
  <2>4. Unread' = Unread \ {p} /\ p \in Unread /\ MarkedOwned'
    BY <1>1, <2>2, <2>3 DEF Unread, MarkedOwned
  <2>. QED
    BY <2>4, UnreadCompletes
<1>4. CASE ReadCompletesFailed(p)
  <2>1. /\ fullBuffers' = PushError(fullBuffers, p)
        /\ readRetry' = readRetry \cup SentToRetry(fullBuffers, p)
        /\ UNCHANGED <<readerPc, dataSourceFinishedPos>> /\ reading' = reading \ {p}
    BY <1>4 DEF ReadCompletesFailed, ReadFails
  <2>2. fullBuffers'.error \cup SentToRetry(fullBuffers, p) = fullBuffers.error \cup {p}
    BY <1>1, <2>1, PushErrorKeepsBuffers
  <2>3. \/ Marked' = {p} /\ fullBuffers'.error = {p}
        \/ fullBuffers' = fullBuffers
    BY <1>1, <2>1 DEF PushError, Marked, WellFormed, Queue, NoPosition
  <2>4. Unread' \subseteq Unread
    BY <1>2, <2>1, <2>2, <2>3 DEF Unread, Marked
  <2>5. MarkedOwned'
    BY <2>1, <2>2, <2>3 DEF MarkedOwned, Marked
  <2>. QED
    BY <2>1, <2>4, <2>5, UnreadShrinks
<1>. QED
  BY <1>3, <1>4

\* The writer takes full buffers, and clears the slot together with its position.
LEMMA MarkedOthers ==
    ASSUME TypeInv, ReaderPlacesInv, MarkedOwned, FewUnread,
           WriterStep \/ WriterCompletion \/ ProcessStep \/ Kill \/ UNCHANGED vars
    PROVE  MarkedOwned' /\ FewUnread'
<1>1. WellFormed(fullBuffers) /\ SlotMatches(fullBuffers)
  BY DEF TypeInv, FinitePlaces, ReaderPlacesInv
<1>2. UNCHANGED readerVars
  <2>1. CASE WriterStep \/ WriterCompletion
    BY <2>1, WriterKeepsSequence
  <2>2. CASE ProcessStep \/ Kill \/ UNCHANGED vars
    BY <2>2 DEF ProcessStep, ReaderDoneSeen, WriterDoneSeen, ReaderStopped, WriterStopped,
       Kill, vars
  <2>. QED
    BY <2>1, <2>2
<1>3. \/ UNCHANGED fullBuffers
      \/ fullBuffers' = Pop(fullBuffers)
      \/ fullBuffers' = Clear(fullBuffers)
  <2>1. CASE WriterStep \/ WriterCompletion
    BY <2>1, WriterKeepsSequence
  <2>2. CASE ProcessStep \/ Kill \/ UNCHANGED vars
    BY <2>2 DEF ProcessStep, ReaderDoneSeen, WriterDoneSeen, ReaderStopped, WriterStopped,
       Kill, vars, sharedVars
  <2>. QED
    BY <2>1, <2>2
<1>4. \/ fullBuffers'.error = fullBuffers.error
         /\ fullBuffers'.errorPosition = fullBuffers.errorPosition
      \/ fullBuffers.error = {fullBuffers.errorPosition} /\ Marked' = {}
  BY <1>1, <1>3, PopContents DEF Clear, HasError, SlotMatches, Marked, WellFormed, Queue
<1>5. Marked' \subseteq Marked /\ MarkedOwned'
  BY <1>2, <1>4 DEF Marked, MarkedOwned, readerVars
<1>6. Unread' \subseteq Unread /\ UNCHANGED dataSourceFinishedPos
  BY <1>2, <1>5 DEF Unread, readerVars
<1>. QED
  BY <1>5, <1>6, UnreadShrinks

\* With two reads at most there is nobody for a completion to trip over: whoever waits
\* behind the failed position, and the position itself, would be two.
LEMMA NoCompletionThrows ==
    ASSUME TypeInv, FewUnread, MaxConcurrentReads <= 2, NEW p \in reading
    PROVE  ~ReadCompletionThrows(p)
<1>. SUFFICES ASSUME ReadCompletionThrows(p) PROVE FALSE
  OBVIOUS
<1>. DEFINE e == fullBuffers.errorPosition
<1>1. PICK q \in SentToRetry(fullBuffers, p) : RetryRefused(q)
  BY DEF ReadCompletionThrows
<1>2. p \in Nat /\ e \in Nat \cup {-1}
  BY DEF TypeInv, TypeOK, FinitePlaces, WellFormed, Queue, Positions, NoPosition
<1>3. e # NoPosition /\ e # p
  BY <1>1, <1>2 DEF SentToRetry
<1>4. {p, e} \subseteq Unread
  BY <1>3 DEF Unread, Marked
<1>5. Cardinality({p, e}) = 2 /\ IsFiniteSet({p, e})
  <2>1. IsFiniteSet({p}) /\ Cardinality({p}) = 1 /\ e \notin {p} /\ {p, e} = {p} \cup {e}
    BY <1>3, FS_Singleton
  <2>. HIDE DEF e
  <2>. QED
    BY <2>1, FS_AddElement
<1>6. Cardinality(Unread) < MaxConcurrentReads /\ Cardinality(Unread) \in Nat
  BY <1>1, UnreadFinite DEF RetryRefused, FewUnread
<1>7. Cardinality({p, e}) <= Cardinality(Unread)
  BY <1>4, UnreadFinite, FS_Subset
<1>. QED
  BY <1>5, <1>6, <1>7, PoolAssumption

\* What is written lies inside the source.
LEMMA WritesStayInside ==
    ASSUME TypeInv, WritesFit, [Next]_vars
    PROVE  WritesFit'
<1>1. knownSize' = knownSize
  BY DEF Next, Stopped, ReaderStep, ReaderCompletion, WriterStep, WriterCompletion,
     ProcessStep, Kill, vars, ReaderKilled, ReadFailedSignalled, HandleReadFailed,
     NothingToRead, ReadPossibleSignalled, RetryRead, StartNewRead, ReaderFinished,
     ReaderDrained, ReadCompletes, ReadCompletesFailed, ReadCompletionThrows, ReadFails,
     WriterKilled, WriteAccounted, WriteSizeMismatch, FinalizeFails,
     WriteFinishedSignalled, HandleWriteFailed, NothingToWrite, WritePossibleSignalled,
     RetryWrite, StartWrite, WriterDrained, WriteCompletes, WriteCompletesFailed,
     ReaderDoneSeen, WriterDoneSeen, ReaderStopped, WriterStopped
<1>2. CASE \E p \in writing : WriteCompletes(p)
  <2>1. PICK p \in writing : WriteCompletes(p)
    BY <1>2
  <2>2. p \in Nat /\ dstSize \in Nat
    BY DEF TypeInv, TypeOK
  <2>3. dstSize' = dstSize \/ (DataSize(p) > 0 /\ dstSize' = p + 1)
    BY <2>1 DEF WriteCompletes
  <2>4. DataSize(p) > 0 => p < SourceChunks
    BY DEF DataSize
  <2>. QED
    BY <1>1, <2>2, <2>3, <2>4, FileAssumption DEF WritesFit
<1>3. CASE ~\E p \in writing : WriteCompletes(p)
  <2>1. dstSize' = dstSize
    BY <1>3 DEF Next, Stopped, ReaderStep, ReaderCompletion, WriterStep, WriterCompletion,
       ProcessStep, Kill, vars, writerVars, ReaderKilled, ReadFailedSignalled,
       HandleReadFailed, NothingToRead, ReadPossibleSignalled, RetryRead, StartNewRead,
       ReaderFinished, ReaderDrained, ReadCompletes, ReadCompletesFailed,
       ReadCompletionThrows, ReadFails, WriterKilled, WriteAccounted, WriteSizeMismatch,
       FinalizeFails, WriteFinishedSignalled, HandleWriteFailed, NothingToWrite,
       WritePossibleSignalled, RetryWrite, StartWrite, WriterDrained,
       WriteCompletesFailed, ReaderDoneSeen, WriterDoneSeen, ReaderStopped, WriterStopped
  <2>. QED
    BY <1>1, <2>1 DEF WritesFit
<1>. QED
  BY <1>2, <1>3

\* No step makes an exception leave a completion routine or a thread function.
LEMMA NothingThrows ==
    ASSUME TypeInv, FewUnread, WritesFit, CompletionsNeverThrow, MaxConcurrentReads <= 2,
           [Next]_vars
    PROVE  CompletionsNeverThrow'
<1>1. CASE ReaderStep
  BY <1>1 DEF ReaderStep, ReaderKilled, ReadFailedSignalled, HandleReadFailed,
     NothingToRead, ReadPossibleSignalled, RetryRead, StartNewRead, ReaderFinished,
     ReaderDrained, sharedVars, CompletionsNeverThrow
<1>2. CASE ReaderCompletion
  <2>1. PICK p \in reading : ReadCompletes(p) \/ ReadCompletesFailed(p)
    BY <1>2, NoCompletionThrows DEF ReaderCompletion
  <2>. QED
    BY <2>1 DEF ReadCompletes, ReadCompletesFailed, ReadFails, CompletionsNeverThrow
<1>3. CASE WriterDrained
  <2>1. ~(dstSize > knownSize)
    BY FileAssumption DEF TypeInv, TypeOK, WritesFit
  <2>. QED
    BY <1>3, <2>1 DEF WriterDrained, readerVars, CompletionsNeverThrow
<1>4. CASE (WriterStep /\ ~WriterDrained) \/ WriterCompletion
  BY <1>4 DEF WriterStep, WriterCompletion, WriterKilled, WriteAccounted,
     WriteSizeMismatch, FinalizeFails, WriteFinishedSignalled, HandleWriteFailed,
     NothingToWrite, WritePossibleSignalled, RetryWrite, StartWrite, WriteCompletes,
     WriteCompletesFailed, readerVars, sharedVars, CompletionsNeverThrow
<1>5. CASE ProcessStep \/ Kill \/ UNCHANGED vars
  BY <1>5 DEF ProcessStep, Kill, vars, ReaderDoneSeen, WriterDoneSeen, ReaderStopped,
     WriterStopped, readerVars, sharedVars, CompletionsNeverThrow
<1>. QED
  BY <1>1, <1>2, <1>3, <1>4, <1>5 DEF Next, Stopped

\* Nothing is unread when the copying starts.
LEMMA ThrowInit == SourceHasNotGrown /\ Init => ThrowInv
<1>. SUFFICES ASSUME SourceHasNotGrown, Init PROVE ThrowInv
  OBVIOUS
<1>1. Marked = {} /\ Unread = {} /\ ~IsDataSourceFinished
  BY DEF Init, EmptyQueue, Marked, Unread, IsDataSourceFinished
<1>2. FewUnread
  BY <1>1, FS_EmptySet, PoolAssumption DEF FewUnread
<1>3. WritesFit
  BY ResumeAssumption, FileAssumption DEF Init, WritesFit, SourceHasNotGrown
<1>4. MarkedOwned /\ CompletionsNeverThrow
  BY <1>1 DEF Init, MarkedOwned, CompletionsNeverThrow
<1>. QED
  BY <1>2, <1>3, <1>4 DEF ThrowInv

\* And every step keeps it.
LEMMA ThrowStep ==
    ASSUME MaxConcurrentReads <= 2
    PROVE  TypeInv /\ ReaderPlacesInv /\ ThrowInv /\ [Next]_vars => ThrowInv'
<1>. SUFFICES ASSUME TypeInv, ReaderPlacesInv, ThrowInv, [Next]_vars PROVE ThrowInv'
  OBVIOUS
<1>1. WritesFit' /\ CompletionsNeverThrow'
  BY WritesStayInside, NothingThrows DEF ThrowInv
<1>2. CASE ReaderCompletion
  <2>1. PICK p \in reading : ReadCompletes(p) \/ ReadCompletesFailed(p)
    BY <1>2, NoCompletionThrows DEF ReaderCompletion, ThrowInv
  <2>. QED
    BY <1>1, <2>1, MarkedCompletion DEF ThrowInv
<1>. QED
  BY <1>1, <1>2, MarkedReader, MarkedOthers DEF Next, Stopped, ThrowInv

\* With at most two reads in flight, and a source that is not longer than it was when its
\* size was read, no exception leaves a completion routine or a thread function, whatever
\* fails, is retried, stopped or killed.  With three the run late_read_failure has one.
THEOREM CompletionsCorrect ==
    ASSUME MaxConcurrentReads <= 2, SourceHasNotGrown
    PROVE  Spec => []CompletionsNeverThrow
<1>1. Init => ThrowInv
  BY ThrowInit
<1>2. TypeInv /\ ReaderPlacesInv /\ ThrowInv /\ [Next]_vars => ThrowInv'
  BY ThrowStep
<1>3. ThrowInv => CompletionsNeverThrow
  BY DEF ThrowInv
<1>. QED
  BY <1>1, <1>2, <1>3, TypeInvariant, PlacesInvariant, PTL DEF Spec
=================================================================================
