-------------------------- MODULE OverlappedCopyProofs --------------------------
(***************************************************************************)
(* Theorems about OverlappedCopy for every pool, file and concurrency.     *)
(***************************************************************************)
EXTENDS OverlappedCopy, OrderedBufferQueueProofs

-----------------------------------------------------------------------------
(* Type correctness *)

\* The sets of buffers are finite, so that their sizes can be added.
FinitePlaces ==
    /\ WellFormed(fullBuffers) /\ WellFormed(finishedBuffers)
    /\ IsFiniteSet(readRetry) /\ IsFiniteSet(reading)
    /\ IsFiniteSet(writeRetry) /\ IsFiniteSet(writing)

TypeInv == TypeOK /\ FinitePlaces

\* The initial states are well typed.
LEMMA TypeInit == Init => TypeInv
<1> SUFFICES ASSUME Init PROVE TypeInv
  OBVIOUS
<1>1. knownSize \in Nat /\ processed \in Nat
  BY FileAssumption, ResumeAssumption DEF Init
<1>2. WellFormed(fullBuffers) /\ WellFormed(finishedBuffers)
  BY <1>1, EmptyQueueWellFormed DEF Init
<1>3. FinitePlaces
  BY <1>2, FS_EmptySet DEF Init, FinitePlaces
<1>4. dst \subseteq Nat /\ dstSize \in Nat
  BY <1>1 DEF Init
<1>5. faults \in 0..MaxFaults /\ emptyBuffers \in Nat
  BY FaultAssumption, PoolAssumption DEF Init
<1>. QED
  BY <1>1, <1>2, <1>3, <1>4, <1>5
  DEF Init, TypeInv, TypeOK, WellFormed, Results, Positions

\* A reader action that only moves the reader's program counter or sends it to the
\* final wait keeps the types.
LEMMA TypeReaderControl ==
    ASSUME TypeInv, ReaderKilled \/ ReadFailedSignalled \/ ReaderFinished
    PROVE  TypeInv'
<1>. USE DEF TypeInv, TypeOK, FinitePlaces, writerVars, processVars, sharedVars,
         Results
<1>1. CASE ReaderKilled
  BY <1>1 DEF ReaderKilled, ReaderStops
<1>2. CASE ReadFailedSignalled
  BY <1>2 DEF ReadFailedSignalled
<1>3. CASE ReaderFinished
  BY <1>3 DEF ReaderFinished, ReaderStops
<1>. QED
  BY <1>1, <1>2, <1>3

\* Handling a failed read moves the buffer of the slot to the retry queue or frees it.
LEMMA TypeHandleReadFailed ==
    ASSUME TypeInv, HandleReadFailed
    PROVE  TypeInv'
<1>. USE DEF TypeInv, TypeOK, FinitePlaces, writerVars, processVars
<1>1. WellFormed(fullBuffers') /\ fullBuffers' \in Queue
  BY PopErrorWellFormed DEF HandleReadFailed, WellFormed
<1>2. readRetry' \subseteq Nat
  BY DEF HandleReadFailed, Queue
<1>3. IsFiniteSet(readRetry')
  <2>1. CASE readRetry' = readRetry
    BY <2>1
  <2>2. CASE \E p \in fullBuffers.error : readRetry' = readRetry \cup {p}
    BY <2>2, FS_AddElement
  <2>. QED
    BY <2>1, <2>2 DEF HandleReadFailed
<1>4. readerPc' \in {"Wait", "ReadFailed", "Drain", "Done"} /\ readerResult' \in Results
  BY DEF HandleReadFailed, ReaderStops, Results
<1>5. emptyBuffers' \in Nat
  BY DEF HandleReadFailed
<1>6. lost' \in Nat
  BY DEF HandleReadFailed
<1>7. readPossible' \in BOOLEAN
  BY DEF HandleReadFailed
<1>8. TypeOK'
  BY <1>1, <1>2, <1>4, <1>5, <1>6, <1>7 DEF HandleReadFailed
<1>9. FinitePlaces'
  BY <1>1, <1>3 DEF HandleReadFailed
<1>. QED
  BY <1>8, <1>9

\* Issuing a read, or failing to, keeps the types of what it changes.
LEMMA TypeIssueRead ==
    ASSUME TypeInv, NEW p \in Nat, IssueRead(p)
    PROVE  /\ reading' \subseteq Nat /\ IsFiniteSet(reading')
           /\ readerPc' \in {"Wait", "ReadFailed", "Drain", "Done"}
           /\ readerResult' \in Results
           /\ faults' \in 0..MaxFaults
           /\ ReturnedUnlessIssued \in {0, 1}
<1>. USE DEF TypeInv, TypeOK, FinitePlaces
<1>1. IsFiniteSet(reading \cup {p})
  BY FS_AddElement
<1>2. reading' \subseteq Nat /\ IsFiniteSet(reading')
  BY <1>1 DEF IssueRead
<1>3. readerPc' \in {"Wait", "ReadFailed", "Drain", "Done"} /\ readerResult' \in Results
  BY DEF IssueRead, ReaderStops, Results
<1>4. faults' \in 0..MaxFaults
  BY FaultAssumption DEF IssueRead, CanFail
<1>5. ReturnedUnlessIssued \in {0, 1}
  BY DEF ReturnedUnlessIssued
<1>. QED
  BY <1>2, <1>3, <1>4, <1>5

\* Taking a buffer to read into it keeps the types.
LEMMA TypeReadPossible ==
    ASSUME TypeInv, NothingToRead \/ RetryRead \/ StartNewRead
    PROVE  TypeInv'
<1>. USE DEF TypeInv, writerVars, processVars, ReadPossibleSignalled
<1>1. CASE NothingToRead
  <2>1. /\ readPossible' \in BOOLEAN
        /\ UNCHANGED <<readerVars, writerVars, processVars, emptyBuffers, fullBuffers,
                       writePossible, lost, faults, crashed, knownSize, killed>>
    BY <1>1 DEF NothingToRead, readerVars
  <2>2. TypeOK'
    BY <2>1 DEF TypeOK, readerVars, writerVars
  <2>3. FinitePlaces'
    BY <2>1 DEF FinitePlaces, readerVars, writerVars
  <2>. QED
    BY <2>2, <2>3
<1>2. CASE RetryRead
  <2>1. PICK p \in readRetry : readRetry' = readRetry \ {p} /\ IssueRead(p)
    BY <1>2 DEF RetryRead
  <2>2. IsFiniteSet(readRetry') /\ readRetry' \subseteq Nat /\ p \in Nat
    BY <2>1, FS_RemoveElement DEF TypeOK, FinitePlaces
  <2>3. emptyBuffers' \in Nat
    BY <1>2, <2>1, <2>2, TypeIssueRead DEF RetryRead, TypeOK
  <2>4. TypeOK'
    BY <1>2, <2>1, <2>2, <2>3, TypeIssueRead DEF RetryRead, TypeOK
  <2>5. FinitePlaces'
    BY <1>2, <2>1, <2>2, TypeIssueRead DEF RetryRead, FinitePlaces
  <2>. QED
    BY <2>4, <2>5
<1>3. CASE StartNewRead
  <2>1. nextReadPosition \in Nat /\ nextReadPosition + 1 \in Nat
    BY <1>3 DEF TypeOK
  <2>2. emptyBuffers' \in Nat
    BY <1>3, <2>1, TypeIssueRead DEF StartNewRead, CanStartNewRead, TypeOK
  <2>3. TypeOK'
    BY <1>3, <2>1, <2>2, TypeIssueRead DEF StartNewRead, TypeOK
  <2>4. FinitePlaces'
    BY <1>3, <2>1, TypeIssueRead DEF StartNewRead, FinitePlaces
  <2>. QED
    BY <2>3, <2>4
<1>. QED
  BY <1>1, <1>2, <1>3

\* The completion of a read moves its buffer, or loses it, and keeps the types.
LEMMA TypeReaderCompletion ==
    ASSUME TypeInv, ReaderCompletion
    PROVE  TypeInv'
<1>. USE DEF TypeInv, writerVars, processVars
<1>1. PICK p \in reading :
        ReadCompletes(p) \/ ReadCompletesFailed(p) \/ ReadCompletionThrows(p)
  BY DEF ReaderCompletion
<1>2. p \in Nat /\ IsFiniteSet(reading \ {p}) /\ WellFormed(fullBuffers)
  BY FS_RemoveElement DEF TypeOK, FinitePlaces
<1>3. CASE ReadCompletes(p)
  <2>1. WellFormed(fullBuffers') /\ fullBuffers' \in Queue
    <3>1. IsLastPart(p) \in BOOLEAN
      BY DEF IsLastPart
    <3>. QED
      BY <1>2, <1>3, <3>1, PushWellFormed DEF ReadCompletes, WellFormed
  <2>2. dataSourceFinishedPos' \in Positions
    BY <1>2, <1>3 DEF ReadCompletes, SetDataSourceFinished, Positions, TypeOK
  <2>3. TypeOK'
    BY <1>2, <1>3, <2>1, <2>2 DEF ReadCompletes, TypeOK
  <2>4. FinitePlaces'
    BY <1>2, <1>3, <2>1 DEF ReadCompletes, FinitePlaces
  <2>. QED
    BY <2>3, <2>4
<1>4. ASSUME ReadFails(p)
      PROVE  /\ faults' \in 0..MaxFaults /\ reading' \subseteq Nat
             /\ IsFiniteSet(reading')
  BY <1>2, <1>4, FaultAssumption DEF ReadFails, CanFail, TypeOK
<1>5. CASE ReadCompletesFailed(p)
  <2>1. WellFormed(fullBuffers') /\ fullBuffers' \in Queue
    BY <1>2, <1>5, PushErrorWellFormed DEF ReadCompletesFailed, WellFormed
  <2>2. readRetry' \subseteq Nat /\ IsFiniteSet(readRetry')
    BY <1>2, <1>5, SentToRetryType, FS_Union
    DEF ReadCompletesFailed, TypeOK, FinitePlaces
  <2>3. TypeOK'
    BY <1>4, <1>5, <2>1, <2>2 DEF ReadCompletesFailed, ReadFails, TypeOK
  <2>4. FinitePlaces'
    BY <1>4, <1>5, <2>1, <2>2 DEF ReadCompletesFailed, ReadFails, FinitePlaces
  <2>. QED
    BY <2>3, <2>4
<1>6. CASE ReadCompletionThrows(p)
  <2>1. /\ readerPc' \in {"Wait", "ReadFailed", "Drain", "Done"}
        /\ readerResult' \in Results /\ crashed' \in BOOLEAN
    BY <1>6 DEF ReadCompletionThrows, ReaderStops, TypeOK, Results
  <2>2. lost' \in Nat /\ leakedReads' \in Nat
    BY <1>6 DEF ReadCompletionThrows, TypeOK
  <2>3. TypeOK'
    BY <1>4, <1>6, <2>1, <2>2 DEF ReadCompletionThrows, ReadFails, TypeOK
  <2>4. FinitePlaces'
    BY <1>4, <1>6 DEF ReadCompletionThrows, ReadFails, FinitePlaces
  <2>. QED
    BY <2>3, <2>4
<1>. QED
  BY <1>1, <1>3, <1>5, <1>6

\* The end of the reader keeps the types.
LEMMA TypeReaderDrained ==
    ASSUME TypeInv, ReaderDrained
    PROVE  TypeInv'
<1>1. emptyBuffers' \in Nat
  BY FS_CardinalityType DEF ReaderDrained, TypeInv, TypeOK, FinitePlaces
<1>2. TypeOK'
  BY <1>1 DEF ReaderDrained, TypeInv, TypeOK, writerVars, processVars
<1>3. FinitePlaces'
  BY FS_EmptySet DEF ReaderDrained, TypeInv, FinitePlaces, writerVars
<1>. QED
  BY <1>2, <1>3 DEF TypeInv

\* Taking a written buffer out of the finished queue keeps the types.
LEMMA TypeWriteFinished ==
    ASSUME TypeInv, WriteAccounted \/ WriteSizeMismatch \/ FinalizeFails
    PROVE  TypeInv'
<1>. USE DEF TypeInv, readerVars, processVars
<1>. DEFINE p == finishedBuffers.expected
<1>1. WriteFinishedSignalled
  BY DEF WriteAccounted, WriteSizeMismatch, FinalizeFails
<1>2. p \in Nat /\ ProcessedWith(p) \in Nat
  BY DEF TypeOK, Queue, ProcessedWith, DataSize
<1>3. WellFormed(finishedBuffers') /\ finishedBuffers' \in Queue
  BY <1>1, PopWellFormed DEF WriteFinishedSignalled, FinitePlaces, WellFormed
<1>4. FinitePlaces'
  BY <1>1, <1>3 DEF WriteFinishedSignalled, FinitePlaces
<1>5. CASE WriteAccounted
  <2>1. writerPc' \in {"Wait", "Drain", "Done"} /\ writerResult' \in Results
        /\ writtenLast' \in BOOLEAN
    BY <1>5 DEF WriteAccounted, WriterStops, TypeOK, Results
  <2>2. TypeOK'
    BY <1>1, <1>2, <1>3, <1>5, <2>1 DEF WriteAccounted, WriteFinishedSignalled, TypeOK
  <2>. QED
    BY <1>4, <2>2
<1>6. CASE WriteSizeMismatch
  <2>1. processed' \in Nat /\ lost' \in Nat
    BY <1>2, <1>6 DEF WriteSizeMismatch, TypeOK
  <2>2. TypeOK'
    BY <1>1, <1>3, <1>6, <2>1
    DEF WriteSizeMismatch, WriteFinishedSignalled, WriterStops, TypeOK, Results
  <2>. QED
    BY <1>4, <2>2
<1>7. CASE FinalizeFails
  <2>1. faults' \in 0..MaxFaults
    BY <1>7, FaultAssumption DEF FinalizeFails, CanFail, TypeOK
  <2>2. TypeOK'
    BY <1>1, <1>3, <1>7, <2>1
    DEF FinalizeFails, WriteFinishedSignalled, WriterStops, TypeOK, Results
  <2>. QED
    BY <1>4, <2>2
<1>. QED
  BY <1>5, <1>6, <1>7

\* Handling a failed write keeps the types.
LEMMA TypeHandleWriteFailed ==
    ASSUME TypeInv, HandleWriteFailed
    PROVE  TypeInv'
<1>. USE DEF TypeInv, readerVars, processVars
<1>1. WellFormed(finishedBuffers') /\ finishedBuffers' \in Queue
  BY PopErrorWellFormed DEF HandleWriteFailed, FinitePlaces, WellFormed
<1>2. writeRetry' \subseteq Nat
  BY DEF HandleWriteFailed, TypeOK, Queue
<1>3. IsFiniteSet(writeRetry')
  BY FS_Union DEF HandleWriteFailed, FinitePlaces, WellFormed
<1>4. writerPc' \in {"Wait", "Drain", "Done"} /\ writerResult' \in Results
  BY DEF HandleWriteFailed, WriterStops, TypeOK, Results
<1>5. emptyBuffers' \in Nat
  BY DEF HandleWriteFailed, TypeOK
<1>6. readPossible' \in BOOLEAN /\ writePossible' \in BOOLEAN
  BY DEF HandleWriteFailed, TypeOK
<1>7. TypeOK'
  BY <1>1, <1>2, <1>4, <1>5, <1>6 DEF HandleWriteFailed, TypeOK
<1>8. FinitePlaces'
  BY <1>1, <1>3 DEF HandleWriteFailed, FinitePlaces
<1>. QED
  BY <1>7, <1>8

\* Issuing a write, or failing to, keeps the types of what it changes.
LEMMA TypeIssueWrite ==
    ASSUME TypeInv, NEW p \in Nat, IssueWrite(p)
    PROVE  /\ writing' \subseteq Nat /\ IsFiniteSet(writing')
           /\ writerPc' \in {"Wait", "Drain", "Done"}
           /\ writerResult' \in Results
           /\ faults' \in 0..MaxFaults
           /\ emptyBuffers' \in Nat
<1>. USE DEF TypeInv, TypeOK, FinitePlaces
<1>1. IsFiniteSet(writing \cup {p})
  BY FS_AddElement
<1>2. writing' \subseteq Nat /\ IsFiniteSet(writing')
  BY <1>1 DEF IssueWrite
<1>3. writerPc' \in {"Wait", "Drain", "Done"} /\ writerResult' \in Results
  BY DEF IssueWrite, WriterStops, Results
<1>4. faults' \in 0..MaxFaults
  BY FaultAssumption DEF IssueWrite, CanFail
<1>5. emptyBuffers' \in Nat
  BY DEF IssueWrite
<1>. QED
  BY <1>2, <1>3, <1>4, <1>5

\* Taking a full buffer to write it keeps the types.
LEMMA TypeWritePossible ==
    ASSUME TypeInv, NothingToWrite \/ RetryWrite \/ StartWrite
    PROVE  TypeInv'
<1>. USE DEF TypeInv, readerVars, processVars, WritePossibleSignalled
<1>1. CASE NothingToWrite
  <2>1. /\ writePossible' \in BOOLEAN
        /\ UNCHANGED <<readerVars, writerVars, processVars, emptyBuffers, fullBuffers,
                       readPossible, lost, faults, crashed, knownSize, killed>>
    BY <1>1 DEF NothingToWrite, writerVars
  <2>2. TypeOK'
    BY <2>1 DEF TypeOK, readerVars, writerVars
  <2>3. FinitePlaces'
    BY <2>1 DEF FinitePlaces, readerVars, writerVars
  <2>. QED
    BY <2>2, <2>3
<1>2. CASE RetryWrite
  <2>1. PICK p \in writeRetry : writeRetry' = writeRetry \ {p} /\ IssueWrite(p)
    BY <1>2 DEF RetryWrite
  <2>2. IsFiniteSet(writeRetry') /\ writeRetry' \subseteq Nat /\ p \in Nat
    BY <2>1, FS_RemoveElement DEF TypeOK, FinitePlaces
  <2>3. readPossible' \in BOOLEAN
    BY <1>2 DEF RetryWrite
  <2>4. TypeOK'
    BY <1>2, <2>1, <2>2, <2>3, TypeIssueWrite DEF RetryWrite, TypeOK
  <2>5. FinitePlaces'
    BY <1>2, <2>1, <2>2, TypeIssueWrite DEF RetryWrite, FinitePlaces
  <2>. QED
    BY <2>4, <2>5
<1>3. CASE StartWrite
  <2>1. fullBuffers.expected \in Nat
    BY DEF TypeOK, Queue
  <2>2. WellFormed(fullBuffers') /\ fullBuffers' \in Queue
    BY <1>3, PopWellFormed DEF StartWrite, FinitePlaces, WellFormed
  <2>3. TypeOK'
    BY <1>3, <2>1, <2>2, TypeIssueWrite DEF StartWrite, TypeOK
  <2>4. FinitePlaces'
    BY <1>3, <2>1, <2>2, TypeIssueWrite DEF StartWrite, FinitePlaces
  <2>. QED
    BY <2>3, <2>4
<1>. QED
  BY <1>1, <1>2, <1>3

\* The completion of a write moves its buffer and keeps the types.
LEMMA TypeWriterCompletion ==
    ASSUME TypeInv, WriterCompletion
    PROVE  TypeInv'
<1>. USE DEF TypeInv, readerVars, processVars
<1>1. PICK p \in writing : WriteCompletes(p) \/ WriteCompletesFailed(p)
  BY DEF WriterCompletion
<1>2. p \in Nat /\ IsFiniteSet(writing \ {p}) /\ WellFormed(finishedBuffers)
  BY FS_RemoveElement DEF TypeOK, FinitePlaces
<1>3. CASE WriteCompletes(p)
  <2>1. WellFormed(finishedBuffers') /\ finishedBuffers' \in Queue
    <3>1. IsLastPart(p) \in BOOLEAN
      BY DEF IsLastPart
    <3>. QED
      BY <1>2, <1>3, <3>1, PushWellFormed DEF WriteCompletes, WellFormed
  <2>2. dst' \subseteq Nat /\ dstSize' \in Nat
    <3>1. dst' \in {dst, dst \cup {p}} /\ dstSize' \in {dstSize, p + 1}
      BY <1>3 DEF WriteCompletes
    <3>2. p + 1 \in Nat /\ dst \subseteq Nat /\ dstSize \in Nat
      BY <1>2 DEF TypeOK
    <3>. QED
      BY <1>2, <3>1, <3>2
  <2>3. TypeOK'
    BY <1>2, <1>3, <2>1, <2>2 DEF WriteCompletes, TypeOK
  <2>4. FinitePlaces'
    BY <1>2, <1>3, <2>1 DEF WriteCompletes, FinitePlaces
  <2>. QED
    BY <2>3, <2>4
<1>4. CASE WriteCompletesFailed(p)
  <2>1. WellFormed(finishedBuffers') /\ finishedBuffers' \in Queue
    BY <1>2, <1>4, PushErrorWellFormed DEF WriteCompletesFailed, WellFormed
  <2>2. writeRetry' \subseteq Nat /\ IsFiniteSet(writeRetry')
    BY <1>2, <1>4, SentToRetryType, FS_Union
    DEF WriteCompletesFailed, TypeOK, FinitePlaces
  <2>3. faults' \in 0..MaxFaults
    BY <1>4, FaultAssumption DEF WriteCompletesFailed, CanFail, TypeOK
  <2>4. TypeOK'
    BY <1>2, <1>4, <2>1, <2>2, <2>3 DEF WriteCompletesFailed, TypeOK
  <2>5. FinitePlaces'
    BY <1>2, <1>4, <2>1, <2>2 DEF WriteCompletesFailed, FinitePlaces
  <2>. QED
    BY <2>4, <2>5
<1>. QED
  BY <1>1, <1>3, <1>4

\* The end of the writer keeps the types.
LEMMA TypeWriterDrained ==
    ASSUME TypeInv, WriterDrained
    PROVE  TypeInv'
<1>. USE DEF TypeInv, readerVars, processVars
<1>1. /\ WellFormed(fullBuffers') /\ fullBuffers' \in Queue
      /\ WellFormed(finishedBuffers') /\ finishedBuffers' \in Queue
  BY ClearWellFormed DEF WriterDrained, FinitePlaces, WellFormed
<1>2. emptyBuffers' \in Nat
  BY CountType, FS_CardinalityType DEF WriterDrained, TypeOK, FinitePlaces
<1>3. faults' \in 0..MaxFaults
  BY FaultAssumption DEF WriterDrained, CanFail, TypeOK
<1>4. processed' \in Nat
  BY DEF WriterDrained, TypeOK
<1>5. writerPc' \in {"Wait", "Drain", "Done"} /\ crashed' \in BOOLEAN
  BY DEF WriterDrained, TypeOK
<1>6. TypeOK'
  BY <1>1, <1>2, <1>3, <1>4, <1>5 DEF WriterDrained, TypeOK
<1>7. FinitePlaces'
  BY <1>1, FS_EmptySet DEF WriterDrained, FinitePlaces
<1>. QED
  BY <1>6, <1>7

\* The steps of the calling thread, the kill and the end keep the types.
LEMMA TypeProcess ==
    ASSUME TypeInv, ProcessStep \/ Kill \/ WriterKilled \/ UNCHANGED vars
    PROVE  TypeInv'
<1>. USE DEF TypeInv, readerVars, writerVars, processVars, sharedVars
<1>1. CASE ReaderDoneSeen \/ WriterDoneSeen \/ ReaderStopped
  <2>1. processResult' \in Results \cup {"Exception"} /\ readerKill' \in BOOLEAN
        /\ writerKill' \in BOOLEAN
        /\ processPc' \in {"Wait", "WaitWriter", "StopReader", "StopWriter", "Done"}
    BY <1>1 DEF ReaderDoneSeen, WriterDoneSeen, ReaderStopped, TypeOK
  <2>2. UNCHANGED <<readerVars, writerVars, sharedVars, knownSize, killed>>
    BY <1>1 DEF ReaderDoneSeen, WriterDoneSeen, ReaderStopped
  <2>3. TypeOK'
    BY <2>1, <2>2 DEF TypeOK
  <2>4. FinitePlaces'
    BY <2>2 DEF FinitePlaces
  <2>. QED
    BY <2>3, <2>4
<1>2. CASE WriterStopped
  <2>1. /\ WellFormed(fullBuffers') /\ fullBuffers' \in Queue
        /\ WellFormed(finishedBuffers') /\ finishedBuffers' \in Queue
    BY <1>2, ClearWellFormed DEF WriterStopped, FinitePlaces, WellFormed
  <2>2. emptyBuffers' \in Nat
    BY <1>2, CountType DEF WriterStopped, TypeOK, FinitePlaces
  <2>3. TypeOK'
    BY <1>2, <2>1, <2>2 DEF WriterStopped, TypeOK
  <2>4. FinitePlaces'
    BY <1>2, <2>1 DEF WriterStopped, FinitePlaces
  <2>. QED
    BY <2>3, <2>4
<1>3. CASE Kill
  BY <1>3 DEF Kill, TypeOK, FinitePlaces
<1>4. CASE WriterKilled
  BY <1>4 DEF WriterKilled, WriterStops, TypeOK, FinitePlaces, Results
<1>5. CASE UNCHANGED vars
  BY <1>5 DEF vars, TypeOK, FinitePlaces
<1>. QED
  BY <1>1, <1>2, <1>3, <1>4, <1>5 DEF ProcessStep

\* Every step keeps the types.
LEMMA TypeStep == TypeInv /\ [Next]_vars => TypeInv'
<1>. SUFFICES ASSUME TypeInv, [Next]_vars PROVE TypeInv'
  OBVIOUS
<1>1. CASE ReaderStep
  BY <1>1, TypeReaderControl, TypeHandleReadFailed, TypeReadPossible,
     TypeReaderDrained DEF ReaderStep
<1>2. CASE WriterStep
  BY <1>2, TypeWriteFinished, TypeHandleWriteFailed, TypeWritePossible,
     TypeWriterDrained, TypeProcess DEF WriterStep
<1>. QED
  BY <1>1, <1>2, TypeReaderCompletion, TypeWriterCompletion, TypeProcess
  DEF Next, Stopped

\* Every variable stays in its range for every pool, file, concurrency and number of
\* failures, and the sets of buffers stay finite.
THEOREM TypeInvariant == Spec => []TypeInv
  BY TypeInit, TypeStep, PTL DEF Spec

\* Every variable stays in its range.
THEOREM TypeCorrect == Spec => []TypeOK
  BY TypeInvariant, PTL DEF TypeInv

-----------------------------------------------------------------------------
(* Where the positions are: retries, displacements from the error slot, completions
   out of order and the writer's clean-up neither lose nor double one *)

\* Four sets of positions without a position in common.
Apart(a, b, c, d) ==
    /\ a \cap b = {} /\ a \cap c = {} /\ a \cap d = {}
    /\ b \cap c = {} /\ b \cap d = {} /\ c \cap d = {}

ReaderHolds == fullBuffers.buffers \cup fullBuffers.error \cup readRetry \cup reading

WriterHolds ==
    finishedBuffers.buffers \cup finishedBuffers.error \cup writeRetry \cup writing

\* The reader's places are apart whether or not the writer has cleared the full buffers;
\* while both loops run they hold all that was handed out and not yet taken.
ReaderPlacesInv ==
    /\ SlotMatches(fullBuffers)
    /\ Apart(fullBuffers.buffers, fullBuffers.error, readRetry, reading)
    /\ \A p \in ReaderHolds : p < nextReadPosition
    /\ BothRunning => /\ ReaderHolds = fullBuffers.expected..(nextReadPosition - 1)
                      /\ fullBuffers.expected <= nextReadPosition

\* And the writer's places hold all that was taken and not yet accounted for.
WriterPlacesInv ==
    /\ SlotMatches(finishedBuffers)
    /\ Apart(finishedBuffers.buffers, finishedBuffers.error, writeRetry, writing)
    /\ \A p \in WriterHolds : p < fullBuffers.expected
    /\ BothRunning => /\ WriterHolds = finishedBuffers.expected..(fullBuffers.expected - 1)
                      /\ finishedBuffers.expected <= fullBuffers.expected


\* Nothing has been read and nothing written.
LEMMA PlacesInit == Init => ReaderPlacesInv /\ WriterPlacesInv
<1>. SUFFICES ASSUME Init PROVE ReaderPlacesInv /\ WriterPlacesInv
  OBVIOUS
<1>1. processed \in Nat
  BY ResumeAssumption DEF Init
<1>2. ReaderHolds = {} /\ WriterHolds = {} /\ processed..(processed - 1) = {}
  BY <1>1 DEF Init, ReaderHolds, WriterHolds, EmptyQueue
<1>. QED
  BY <1>1, <1>2 DEF Init, EmptyQueue, ReaderPlacesInv, WriterPlacesInv, SlotMatches, Apart

\* The reader's steps take nothing out of the sequence and never restart a loop.
LEMMA ReaderKeepsSequence ==
    ASSUME TypeInv, ReaderStep \/ ReaderCompletion
    PROVE  /\ fullBuffers'.expected = fullBuffers.expected
           /\ BothRunning' => BothRunning
           /\ UNCHANGED <<finishedBuffers, writeRetry, writing>>
<1>. USE DEF TypeInv, FinitePlaces, writerVars, sharedVars, BothRunning
<1>1. CASE ReaderKilled \/ ReadFailedSignalled \/ ReaderFinished
  BY <1>1 DEF ReaderKilled, ReadFailedSignalled, ReaderFinished, ReaderStops
<1>2. CASE HandleReadFailed
  BY <1>2, PopErrorWellFormed DEF HandleReadFailed
<1>3. CASE NothingToRead \/ RetryRead \/ StartNewRead
  BY <1>3 DEF NothingToRead, RetryRead, StartNewRead, ReadPossibleSignalled
<1>4. CASE ReaderDrained
  BY <1>4 DEF ReaderDrained
<1>5. CASE ReaderCompletion
  <2>1. PICK p \in reading :
          ReadCompletes(p) \/ ReadCompletesFailed(p) \/ ReadCompletionThrows(p)
    BY <1>5 DEF ReaderCompletion
  <2>2. p \in Nat /\ IsLastPart(p) \in BOOLEAN
    BY DEF TypeOK, IsLastPart
  <2>3. CASE ReadCompletes(p)
    <3>1. Push(fullBuffers, p, IsLastPart(p)).expected = fullBuffers.expected
      BY <2>2 DEF Push, WellFormed, Queue
    <3>. QED
      BY <2>3, <3>1 DEF ReadCompletes
  <2>4. CASE ReadCompletesFailed(p)
    BY <2>2, <2>4, PushErrorContents DEF ReadCompletesFailed, ReadFails
  <2>5. CASE ReadCompletionThrows(p)
    BY <2>5 DEF ReadCompletionThrows, ReadFails, ReaderStops
  <2>. QED
    BY <2>1, <2>3, <2>4, <2>5
<1>. QED
  BY <1>1, <1>2, <1>3, <1>4, <1>5 DEF ReaderStep

\* So they leave the writer's places as they are.
LEMMA ReaderKeepsWriterPlaces ==
    ASSUME TypeInv, WriterPlacesInv, ReaderStep \/ ReaderCompletion
    PROVE  WriterPlacesInv'
  BY ReaderKeepsSequence DEF WriterPlacesInv, WriterHolds, SlotMatches

\* A failed read leaves the slot for the retry queue, or the reader stops.
LEMMA PlacesHandleReadFailed ==
    ASSUME TypeInv, ReaderPlacesInv, HandleReadFailed
    PROVE  ReaderPlacesInv'
<1>1. /\ fullBuffers'.error = {}
      /\ fullBuffers'.buffers = fullBuffers.buffers
      /\ fullBuffers'.expected = fullBuffers.expected
      /\ UNCHANGED <<reading, nextReadPosition>>
  BY PopErrorWellFormed DEF HandleReadFailed, TypeInv, FinitePlaces
<1>2. \/ readRetry' = readRetry /\ readerPc' = "Drain"
      \/ \E p \in fullBuffers.error : readRetry' = readRetry \cup {p}
  BY DEF HandleReadFailed, ReaderStops
<1>3. readRetry' \subseteq readRetry \cup fullBuffers.error
      /\ (readerPc' # "Drain" => readRetry' = readRetry \cup fullBuffers.error)
  BY <1>2 DEF ReaderPlacesInv, SlotMatches
<1>4. BothRunning' => BothRunning /\ readerPc' # "Drain"
  BY DEF HandleReadFailed, BothRunning, writerVars
<1>5. ReaderHolds' \subseteq ReaderHolds /\ (BothRunning' => ReaderHolds' = ReaderHolds)
  BY <1>1, <1>3, <1>4 DEF ReaderHolds
<1>6. Apart(fullBuffers.buffers, fullBuffers.error, readRetry, reading)'
  BY <1>1, <1>3 DEF ReaderPlacesInv, Apart
<1>. QED
  BY <1>1, <1>4, <1>5, <1>6 DEF ReaderPlacesInv, SlotMatches

\* The first position to retry goes to the requests in flight, or the reader stops.
LEMMA PlacesRetryRead ==
    ASSUME TypeInv, ReaderPlacesInv, RetryRead
    PROVE  ReaderPlacesInv'
<1>1. PICK p \in readRetry : readRetry' = readRetry \ {p} /\ IssueRead(p)
  BY DEF RetryRead
<1>2. UNCHANGED <<fullBuffers, nextReadPosition, writerPc>> /\ readerPc = "Wait"
  BY DEF RetryRead, ReadPossibleSignalled, writerVars
<1>3. \/ reading' = reading \cup {p}
      \/ reading' = reading /\ readerPc' = "Drain"
  BY <1>1 DEF IssueRead, ReaderStops
<1>4. ReaderHolds' \subseteq ReaderHolds /\ (BothRunning' => ReaderHolds' = ReaderHolds)
  BY <1>1, <1>2, <1>3 DEF ReaderHolds, BothRunning
<1>5. Apart(fullBuffers.buffers, fullBuffers.error, readRetry, reading)'
  BY <1>1, <1>2, <1>3 DEF ReaderPlacesInv, Apart
<1>6. BothRunning' => BothRunning
  BY <1>2 DEF BothRunning
<1>. QED
  BY <1>2, <1>4, <1>5, <1>6 DEF ReaderPlacesInv, SlotMatches

\* The next position is handed out.
LEMMA PlacesStartNewRead ==
    ASSUME TypeInv, ReaderPlacesInv, StartNewRead
    PROVE  ReaderPlacesInv'
<1>1. /\ UNCHANGED <<fullBuffers, readRetry, writerPc>> /\ readerPc = "Wait"
      /\ nextReadPosition' = nextReadPosition + 1
  BY DEF StartNewRead, ReadPossibleSignalled, writerVars
<1>2. \/ reading' = reading \cup {nextReadPosition}
      \/ reading' = reading /\ readerPc' = "Drain"
  BY DEF StartNewRead, IssueRead, ReaderStops
<1>3. nextReadPosition \in Nat /\ fullBuffers.expected \in Nat /\ ReaderHolds \subseteq Nat
  BY DEF TypeInv, TypeOK, Queue, ReaderHolds
<1>4. nextReadPosition \notin ReaderHolds
  BY <1>3 DEF ReaderPlacesInv
<1>5. Apart(fullBuffers.buffers, fullBuffers.error, readRetry, reading)'
  BY <1>1, <1>2, <1>4 DEF ReaderPlacesInv, Apart, ReaderHolds
<1>6. ReaderHolds' \subseteq ReaderHolds \cup {nextReadPosition}
      /\ (BothRunning' => ReaderHolds' = ReaderHolds \cup {nextReadPosition})
  BY <1>1, <1>2 DEF ReaderHolds, BothRunning
<1>7. \A p \in ReaderHolds' : p < nextReadPosition'
  BY <1>1, <1>3, <1>6 DEF ReaderPlacesInv
<1>8. ASSUME BothRunning'
      PROVE  /\ ReaderHolds' = fullBuffers'.expected..(nextReadPosition' - 1)
             /\ fullBuffers'.expected <= nextReadPosition'
  <2>1. BothRunning
    BY <1>1, <1>8 DEF BothRunning
  <2>2. ReaderHolds = fullBuffers.expected..(nextReadPosition - 1)
        /\ fullBuffers.expected <= nextReadPosition
    BY <2>1 DEF ReaderPlacesInv
  <2>3. (fullBuffers.expected..(nextReadPosition - 1)) \cup {nextReadPosition}
          = fullBuffers.expected..nextReadPosition
    BY <1>3, <2>2
  <2>4. nextReadPosition' - 1 = nextReadPosition /\ fullBuffers' = fullBuffers
        /\ fullBuffers.expected <= nextReadPosition'
    BY <1>1, <1>3, <2>2
  <2>5. ReaderHolds' = fullBuffers.expected..nextReadPosition
    BY <1>6, <1>8, <2>2, <2>3
  <2>. QED
    BY <2>4, <2>5
<1>. QED
  BY <1>1, <1>5, <1>7, <1>8 DEF ReaderPlacesInv, SlotMatches

\* A read ends: its position becomes a full buffer.
LEMMA PlacesReadCompletes ==
    ASSUME TypeInv, ReaderPlacesInv, NEW p \in reading, ReadCompletes(p)
    PROVE  ReaderPlacesInv'
<1>1. /\ reading' = reading \ {p}
      /\ fullBuffers' = Push(fullBuffers, p, IsLastPart(p))
      /\ UNCHANGED <<readRetry, nextReadPosition, readerPc, writerPc>>
  BY DEF ReadCompletes, writerVars
<1>2. p \in Nat /\ IsLastPart(p) \in BOOLEAN /\ WellFormed(fullBuffers)
  BY DEF TypeInv, TypeOK, FinitePlaces, IsLastPart
<1>3. /\ fullBuffers'.buffers = fullBuffers.buffers \cup {p}
      /\ fullBuffers'.error = fullBuffers.error
      /\ fullBuffers'.expected = fullBuffers.expected
  BY <1>1, <1>2 DEF Push, WellFormed, Queue
<1>4. SlotMatches(fullBuffers)'
  <2>1. p \notin fullBuffers.error /\ SlotMatches(fullBuffers)
    BY DEF ReaderPlacesInv, Apart
  <2>. QED
    BY <1>1, <1>2, <2>1, PushSlotMatches
<1>5. ReaderHolds' = ReaderHolds
  BY <1>1, <1>3 DEF ReaderHolds
<1>6. Apart(fullBuffers.buffers, fullBuffers.error, readRetry, reading)'
  BY <1>1, <1>3 DEF ReaderPlacesInv, Apart
<1>. QED
  BY <1>1, <1>3, <1>4, <1>5, <1>6 DEF ReaderPlacesInv, BothRunning

\* A read fails: its position and the slot's are shared out between the slot and the
\* retry queue.
LEMMA PlacesReadCompletesFailed ==
    ASSUME TypeInv, ReaderPlacesInv, NEW p \in reading, ReadCompletesFailed(p)
    PROVE  ReaderPlacesInv'
<1>1. /\ reading' = reading \ {p}
      /\ fullBuffers' = PushError(fullBuffers, p)
      /\ readRetry' = readRetry \cup SentToRetry(fullBuffers, p)
      /\ UNCHANGED <<nextReadPosition, readerPc, writerPc>>
  BY DEF ReadCompletesFailed, ReadFails, writerVars
<1>2. /\ p \in Nat /\ WellFormed(fullBuffers) /\ p \notin fullBuffers.error
      /\ SlotMatches(fullBuffers)
  BY DEF TypeInv, TypeOK, FinitePlaces, ReaderPlacesInv, Apart
<1>3. /\ fullBuffers'.buffers = fullBuffers.buffers
      /\ fullBuffers'.expected = fullBuffers.expected
  BY <1>1, <1>2, PushErrorContents
<1>4. /\ fullBuffers'.error \cup SentToRetry(fullBuffers, p) = fullBuffers.error \cup {p}
      /\ fullBuffers'.error \cap SentToRetry(fullBuffers, p) = {}
  BY <1>1, <1>2, PushErrorKeepsBuffers
<1>5. SlotMatches(fullBuffers)'
  BY <1>1, <1>2, PushErrorWellFormed
<1>6. ReaderHolds' = ReaderHolds
  BY <1>1, <1>3, <1>4 DEF ReaderHolds
<1>7. Apart(fullBuffers.buffers, fullBuffers.error, readRetry, reading)'
  BY <1>1, <1>3, <1>4 DEF ReaderPlacesInv, Apart
<1>. QED
  BY <1>1, <1>3, <1>5, <1>6, <1>7 DEF ReaderPlacesInv, BothRunning

\* Every step of the reader keeps its places.
LEMMA ReaderKeepsReaderPlaces ==
    ASSUME TypeInv, ReaderPlacesInv, ReaderStep \/ ReaderCompletion
    PROVE  ReaderPlacesInv'
<1>1. CASE ReaderKilled \/ ReadFailedSignalled \/ ReaderFinished
  BY <1>1 DEF ReaderKilled, ReadFailedSignalled, ReaderFinished, ReaderStops,
     writerVars, sharedVars, ReaderPlacesInv, ReaderHolds, BothRunning, SlotMatches
<1>2. CASE NothingToRead
  BY <1>2 DEF NothingToRead, ReadPossibleSignalled, writerVars, ReaderPlacesInv,
     ReaderHolds, BothRunning, SlotMatches
<1>3. CASE ReaderDrained
  BY <1>3 DEF ReaderDrained, ReaderPlacesInv, ReaderHolds, BothRunning, SlotMatches, Apart
<1>4. ASSUME NEW p \in reading, ReadCompletionThrows(p)
      PROVE  ReaderPlacesInv'
  <2>1. /\ reading' = reading \ {p}
        /\ UNCHANGED <<fullBuffers, readRetry, nextReadPosition>>
        /\ readerPc' = "Drain"
    BY <1>4 DEF ReadCompletionThrows, ReadFails, ReaderAlertable, ReaderStops
  <2>2. Apart(fullBuffers.buffers, fullBuffers.error, readRetry, reading)'
    BY <2>1 DEF ReaderPlacesInv, Apart
  <2>. QED
    BY <2>1, <2>2 DEF ReaderPlacesInv, ReaderHolds, BothRunning, SlotMatches
<1>. QED
  BY <1>1, <1>2, <1>3, <1>4, PlacesHandleReadFailed, PlacesRetryRead, PlacesStartNewRead,
     PlacesReadCompletes, PlacesReadCompletesFailed DEF ReaderStep, ReaderCompletion

\* The writer's steps never restart a loop, and what they take out of the sequence of
\* full buffers is the expected one.
LEMMA WriterKeepsSequence ==
    ASSUME TypeInv, WriterStep \/ WriterCompletion
    PROVE  /\ BothRunning' => BothRunning
           /\ UNCHANGED readerVars
           /\ \/ UNCHANGED fullBuffers
              \/ HasPoppable(fullBuffers) /\ fullBuffers' = Pop(fullBuffers)
              \/ writerPc' # "Wait" /\ fullBuffers' = Clear(fullBuffers)
<1>. USE DEF BothRunning, readerVars
<1>1. CASE WriterKilled
  BY <1>1 DEF WriterKilled, WriterStops, sharedVars
<1>2. CASE WriteAccounted \/ WriteSizeMismatch \/ FinalizeFails
  BY <1>2 DEF WriteAccounted, WriteSizeMismatch, FinalizeFails, WriteFinishedSignalled,
     WriterStops
<1>3. CASE HandleWriteFailed
  BY <1>3 DEF HandleWriteFailed
<1>4. CASE NothingToWrite \/ RetryWrite \/ StartWrite
  BY <1>4 DEF NothingToWrite, RetryWrite, StartWrite, WritePossibleSignalled
<1>5. CASE WriterDrained
  BY <1>5 DEF WriterDrained
<1>6. CASE WriterCompletion
  BY <1>6 DEF WriterCompletion, WriteCompletes, WriteCompletesFailed
<1>. QED
  BY <1>1, <1>2, <1>3, <1>4, <1>5, <1>6 DEF WriterStep

\* The writer takes the lowest of the reader's positions, or all full buffers.
LEMMA WriterKeepsReaderPlaces ==
    ASSUME TypeInv, ReaderPlacesInv, WriterStep \/ WriterCompletion
    PROVE  ReaderPlacesInv'
<1>1. /\ BothRunning' => BothRunning
      /\ UNCHANGED <<readRetry, reading, nextReadPosition>>
  BY WriterKeepsSequence DEF readerVars
<1>2. WellFormed(fullBuffers)
  BY DEF TypeInv, FinitePlaces
<1>3. CASE UNCHANGED fullBuffers
  BY <1>1, <1>3 DEF ReaderPlacesInv, ReaderHolds, SlotMatches
<1>4. CASE HasPoppable(fullBuffers) /\ fullBuffers' = Pop(fullBuffers)
  <2>. DEFINE e == fullBuffers.expected
  <2>1. /\ fullBuffers'.buffers = fullBuffers.buffers \ {e}
        /\ fullBuffers'.error = fullBuffers.error
        /\ fullBuffers'.errorPosition = fullBuffers.errorPosition
        /\ fullBuffers'.expected = e + 1
    BY <1>2, <1>4, PopContents
  <2>2. e \in fullBuffers.buffers /\ e \in Nat /\ nextReadPosition \in Nat
    BY <1>2, <1>4 DEF HasPoppable, IsFirst, WellFormed, Queue, TypeInv, TypeOK
  <2>3. SlotMatches(fullBuffers)'
    BY <2>1 DEF ReaderPlacesInv, SlotMatches
  <2>4. Apart(fullBuffers.buffers, fullBuffers.error, readRetry, reading)'
    BY <1>1, <2>1 DEF ReaderPlacesInv, Apart
  <2>5. ReaderHolds' = ReaderHolds \ {e} /\ e \in ReaderHolds
    BY <1>1, <2>1, <2>2 DEF ReaderPlacesInv, Apart, ReaderHolds
  <2>6. \A p \in ReaderHolds' : p < nextReadPosition'
    BY <1>1, <2>5 DEF ReaderPlacesInv
  <2>7. ASSUME BothRunning'
        PROVE  /\ ReaderHolds' = (e + 1)..(nextReadPosition - 1)
               /\ e + 1 <= nextReadPosition
    <3>1. ReaderHolds = e..(nextReadPosition - 1)
      BY <1>1, <2>7 DEF ReaderPlacesInv
    <3>. HIDE DEF e
    <3>2. e + 1 <= nextReadPosition
      BY <2>2, <2>5, <3>1
    <3>3. e..(nextReadPosition - 1) \ {e} = (e + 1)..(nextReadPosition - 1)
      BY <2>2
    <3>. QED
      BY <2>5, <3>1, <3>2, <3>3
  <2>. QED
    BY <1>1, <2>1, <2>3, <2>4, <2>6, <2>7 DEF ReaderPlacesInv
<1>5. CASE writerPc' # "Wait" /\ fullBuffers' = Clear(fullBuffers)
  <2>1. fullBuffers'.buffers = {} /\ fullBuffers'.error = {}
    BY <1>2, <1>5, ClearContents
  <2>2. Apart(fullBuffers.buffers, fullBuffers.error, readRetry, reading)'
    BY <1>1, <2>1 DEF ReaderPlacesInv, Apart
  <2>. QED
    BY <1>1, <1>5, <2>1, <2>2 DEF ReaderPlacesInv, ReaderHolds, SlotMatches, BothRunning
<1>. QED
  BY <1>3, <1>4, <1>5, WriterKeepsSequence

\* A written buffer is taken out of the finished queue.
LEMMA PlacesWriteFinished ==
    ASSUME TypeInv, WriterPlacesInv, WriteAccounted \/ WriteSizeMismatch \/ FinalizeFails
    PROVE  WriterPlacesInv'
<1>. DEFINE e == finishedBuffers.expected
<1>1. WriteFinishedSignalled
  BY DEF WriteAccounted, WriteSizeMismatch, FinalizeFails
<1>2. /\ UNCHANGED <<writeRetry, writing, fullBuffers, readerPc>> /\ writerPc = "Wait"
      /\ finishedBuffers' = Pop(finishedBuffers) /\ e \in finishedBuffers.buffers
  BY <1>1 DEF WriteFinishedSignalled, HasPoppable, IsFirst, readerVars
<1>3. WellFormed(finishedBuffers) /\ e \in Nat /\ fullBuffers.expected \in Nat
  BY DEF TypeInv, FinitePlaces, TypeOK, Queue
<1>4. /\ finishedBuffers'.buffers = finishedBuffers.buffers \ {e}
      /\ finishedBuffers'.error = finishedBuffers.error
      /\ finishedBuffers'.errorPosition = finishedBuffers.errorPosition
      /\ finishedBuffers'.expected = e + 1
  BY <1>2, <1>3, PopContents
<1>5. SlotMatches(finishedBuffers)'
  BY <1>4 DEF WriterPlacesInv, SlotMatches
<1>6. Apart(finishedBuffers.buffers, finishedBuffers.error, writeRetry, writing)'
  BY <1>2, <1>4 DEF WriterPlacesInv, Apart
<1>7. WriterHolds' = WriterHolds \ {e} /\ e \in WriterHolds
  BY <1>2, <1>4 DEF WriterPlacesInv, Apart, WriterHolds
<1>8. \A p \in WriterHolds' : p < fullBuffers'.expected
  BY <1>2, <1>7 DEF WriterPlacesInv
<1>9. ASSUME BothRunning'
      PROVE  /\ WriterHolds' = (e + 1)..(fullBuffers.expected - 1)
             /\ e + 1 <= fullBuffers.expected
  <2>1. WriterHolds = e..(fullBuffers.expected - 1)
    BY <1>2, <1>9 DEF WriterPlacesInv, BothRunning
  <2>. HIDE DEF e
  <2>2. e + 1 <= fullBuffers.expected
    BY <1>3, <1>7, <2>1
  <2>3. e..(fullBuffers.expected - 1) \ {e} = (e + 1)..(fullBuffers.expected - 1)
    BY <1>3
  <2>. QED
    BY <1>7, <2>1, <2>2, <2>3
<1>. QED
  BY <1>2, <1>4, <1>5, <1>6, <1>8, <1>9 DEF WriterPlacesInv

\* A failed write leaves the slot for the retry queue, or the writer stops.
LEMMA PlacesHandleWriteFailed ==
    ASSUME TypeInv, WriterPlacesInv, HandleWriteFailed
    PROVE  WriterPlacesInv'
<1>1. /\ finishedBuffers'.error = {}
      /\ finishedBuffers'.buffers = finishedBuffers.buffers
      /\ finishedBuffers'.expected = finishedBuffers.expected
      /\ UNCHANGED <<writing, fullBuffers, readerPc>> /\ writerPc = "Wait"
  BY PopErrorWellFormed DEF HandleWriteFailed, TypeInv, FinitePlaces, readerVars
<1>2. \/ readerPc' = readerPc /\ writerPc' = "Drain" /\ writeRetry' = writeRetry
      \/ writeRetry' = writeRetry \cup finishedBuffers.error
  BY <1>1 DEF HandleWriteFailed, WriterStops
<1>3. WriterHolds' \subseteq WriterHolds /\ (BothRunning' => WriterHolds' = WriterHolds)
  BY <1>1, <1>2 DEF WriterHolds, BothRunning
<1>4. Apart(finishedBuffers.buffers, finishedBuffers.error, writeRetry, writing)'
  BY <1>1, <1>2 DEF WriterPlacesInv, Apart
<1>5. BothRunning' => BothRunning
  BY <1>1 DEF BothRunning
<1>. QED
  BY <1>1, <1>3, <1>4, <1>5 DEF WriterPlacesInv, SlotMatches

\* The first position to retry goes to the requests in flight, or the writer stops.
LEMMA PlacesRetryWrite ==
    ASSUME TypeInv, WriterPlacesInv, RetryWrite
    PROVE  WriterPlacesInv'
<1>1. PICK p \in writeRetry : writeRetry' = writeRetry \ {p} /\ IssueWrite(p)
  BY DEF RetryWrite
<1>2. UNCHANGED <<finishedBuffers, fullBuffers, readerPc>> /\ writerPc = "Wait"
  BY DEF RetryWrite, WritePossibleSignalled, readerVars
<1>3. \/ writing' = writing \cup {p}
      \/ writing' = writing /\ writerPc' = "Drain"
  BY <1>1 DEF IssueWrite, WriterStops
<1>4. WriterHolds' \subseteq WriterHolds /\ (BothRunning' => WriterHolds' = WriterHolds)
  BY <1>1, <1>2, <1>3 DEF WriterHolds, BothRunning
<1>5. Apart(finishedBuffers.buffers, finishedBuffers.error, writeRetry, writing)'
  BY <1>1, <1>2, <1>3 DEF WriterPlacesInv, Apart
<1>6. BothRunning' => BothRunning
  BY <1>2 DEF BothRunning
<1>. QED
  BY <1>2, <1>4, <1>5, <1>6 DEF WriterPlacesInv, SlotMatches

\* The next full buffer is taken to be written.
LEMMA PlacesStartWrite ==
    ASSUME TypeInv, WriterPlacesInv, StartWrite
    PROVE  WriterPlacesInv'
<1>. DEFINE e == fullBuffers.expected
<1>1. /\ UNCHANGED <<finishedBuffers, writeRetry, readerPc>> /\ writerPc = "Wait"
      /\ fullBuffers' = Pop(fullBuffers)
  BY DEF StartWrite, WritePossibleSignalled, readerVars
<1>2. \/ writing' = writing \cup {e}
      \/ writing' = writing /\ writerPc' = "Drain"
  BY DEF StartWrite, IssueWrite, WriterStops
<1>3. /\ e \in Nat /\ finishedBuffers.expected \in Nat /\ WriterHolds \subseteq Nat
      /\ WellFormed(fullBuffers)
  BY DEF TypeInv, TypeOK, FinitePlaces, Queue, WriterHolds
<1>4. fullBuffers'.expected = e + 1
  BY <1>1, <1>3, PopContents
<1>5. e \notin WriterHolds
  BY <1>3 DEF WriterPlacesInv
<1>6. Apart(finishedBuffers.buffers, finishedBuffers.error, writeRetry, writing)'
  BY <1>1, <1>2, <1>5 DEF WriterPlacesInv, Apart, WriterHolds
<1>7. WriterHolds' \subseteq WriterHolds \cup {e}
      /\ (BothRunning' => WriterHolds' = WriterHolds \cup {e})
  BY <1>1, <1>2 DEF WriterHolds, BothRunning
<1>8. \A p \in WriterHolds' : p < e + 1
  BY <1>3, <1>7 DEF WriterPlacesInv
<1>9. ASSUME BothRunning'
      PROVE  /\ WriterHolds' = finishedBuffers.expected..e
             /\ finishedBuffers.expected <= e + 1
  <2>1. WriterHolds = finishedBuffers.expected..(e - 1) /\ finishedBuffers.expected <= e
    BY <1>1, <1>9 DEF WriterPlacesInv, BothRunning
  <2>. HIDE DEF e
  <2>2. (finishedBuffers.expected..(e - 1)) \cup {e} = finishedBuffers.expected..e
    BY <1>3, <2>1
  <2>3. finishedBuffers.expected <= e + 1
    BY <1>3, <2>1
  <2>. QED
    BY <1>7, <1>9, <2>1, <2>2, <2>3
<1>10. (e + 1) - 1 = e
  BY <1>3
<1>. QED
  BY <1>1, <1>4, <1>6, <1>8, <1>9, <1>10 DEF WriterPlacesInv, SlotMatches

\* A write ends: its position waits to be accounted for.
LEMMA PlacesWriteCompletes ==
    ASSUME TypeInv, WriterPlacesInv, NEW p \in writing, WriteCompletes(p)
    PROVE  WriterPlacesInv'
<1>1. /\ writing' = writing \ {p}
      /\ finishedBuffers' = Push(finishedBuffers, p, IsLastPart(p))
      /\ UNCHANGED <<writeRetry, fullBuffers, readerPc, writerPc>>
  BY DEF WriteCompletes, readerVars
<1>2. p \in Nat /\ IsLastPart(p) \in BOOLEAN /\ WellFormed(finishedBuffers)
  BY DEF TypeInv, TypeOK, FinitePlaces, IsLastPart
<1>3. /\ finishedBuffers'.buffers = finishedBuffers.buffers \cup {p}
      /\ finishedBuffers'.error = finishedBuffers.error
      /\ finishedBuffers'.expected = finishedBuffers.expected
  BY <1>1, <1>2 DEF Push, WellFormed, Queue
<1>4. SlotMatches(finishedBuffers)'
  <2>1. p \notin finishedBuffers.error /\ SlotMatches(finishedBuffers)
    BY DEF WriterPlacesInv, Apart
  <2>. QED
    BY <1>1, <1>2, <2>1, PushSlotMatches
<1>5. WriterHolds' = WriterHolds
  BY <1>1, <1>3 DEF WriterHolds
<1>6. Apart(finishedBuffers.buffers, finishedBuffers.error, writeRetry, writing)'
  BY <1>1, <1>3 DEF WriterPlacesInv, Apart
<1>. QED
  BY <1>1, <1>3, <1>4, <1>5, <1>6 DEF WriterPlacesInv, BothRunning

\* A write fails: its position and the slot's are shared out between the slot and the
\* retry queue.
LEMMA PlacesWriteCompletesFailed ==
    ASSUME TypeInv, WriterPlacesInv, NEW p \in writing, WriteCompletesFailed(p)
    PROVE  WriterPlacesInv'
<1>1. /\ writing' = writing \ {p}
      /\ finishedBuffers' = PushError(finishedBuffers, p)
      /\ writeRetry' = writeRetry \cup SentToRetry(finishedBuffers, p)
      /\ UNCHANGED <<fullBuffers, readerPc, writerPc>>
  BY DEF WriteCompletesFailed, readerVars
<1>2. /\ p \in Nat /\ WellFormed(finishedBuffers) /\ p \notin finishedBuffers.error
      /\ SlotMatches(finishedBuffers)
  BY DEF TypeInv, TypeOK, FinitePlaces, WriterPlacesInv, Apart
<1>3. /\ finishedBuffers'.buffers = finishedBuffers.buffers
      /\ finishedBuffers'.expected = finishedBuffers.expected
  BY <1>1, <1>2, PushErrorContents
<1>4. /\ finishedBuffers'.error \cup SentToRetry(finishedBuffers, p)
           = finishedBuffers.error \cup {p}
      /\ finishedBuffers'.error \cap SentToRetry(finishedBuffers, p) = {}
  BY <1>1, <1>2, PushErrorKeepsBuffers
<1>5. SlotMatches(finishedBuffers)'
  BY <1>1, <1>2, PushErrorWellFormed
<1>6. WriterHolds' = WriterHolds
  BY <1>1, <1>3, <1>4 DEF WriterHolds
<1>7. Apart(finishedBuffers.buffers, finishedBuffers.error, writeRetry, writing)'
  BY <1>1, <1>3, <1>4 DEF WriterPlacesInv, Apart
<1>. QED
  BY <1>1, <1>3, <1>5, <1>6, <1>7 DEF WriterPlacesInv, BothRunning

\* Every step of the writer keeps its places.
LEMMA WriterKeepsWriterPlaces ==
    ASSUME TypeInv, WriterPlacesInv, WriterStep \/ WriterCompletion
    PROVE  WriterPlacesInv'
<1>1. CASE WriterKilled
  BY <1>1 DEF WriterKilled, WriterStops, readerVars, sharedVars, WriterPlacesInv,
     WriterHolds, BothRunning, SlotMatches
<1>2. CASE NothingToWrite
  BY <1>2 DEF NothingToWrite, WritePossibleSignalled, readerVars, WriterPlacesInv,
     WriterHolds, BothRunning, SlotMatches
<1>3. CASE WriterDrained
  <2>1. /\ finishedBuffers'.buffers = {} /\ finishedBuffers'.error = {}
        /\ fullBuffers'.expected = fullBuffers.expected
        /\ writeRetry' = {} /\ writing' = {} /\ ~BothRunning'
    BY <1>3, ClearContents DEF WriterDrained, TypeInv, FinitePlaces, BothRunning
  <2>. QED
    BY <2>1 DEF WriterPlacesInv, WriterHolds, SlotMatches, Apart
<1>. QED
  BY <1>1, <1>2, <1>3, PlacesWriteFinished, PlacesHandleWriteFailed, PlacesRetryWrite,
     PlacesStartWrite, PlacesWriteCompletes, PlacesWriteCompletesFailed
  DEF WriterStep, WriterCompletion

\* The calling thread only ever empties the queues.
LEMMA ProcessKeepsPlaces ==
    ASSUME TypeInv, ReaderPlacesInv, WriterPlacesInv, ProcessStep \/ Kill \/ UNCHANGED vars
    PROVE  ReaderPlacesInv' /\ WriterPlacesInv'
<1>1. CASE WriterStopped
  <2>1. /\ fullBuffers'.buffers = {} /\ fullBuffers'.error = {}
        /\ finishedBuffers'.buffers = {} /\ finishedBuffers'.error = {}
        /\ fullBuffers'.expected = fullBuffers.expected
        /\ ~BothRunning'
        /\ UNCHANGED <<readRetry, reading, writeRetry, writing, nextReadPosition>>
    BY <1>1, ClearContents
    DEF WriterStopped, TypeInv, FinitePlaces, BothRunning, readerVars
  <2>2. ReaderPlacesInv'
    BY <2>1 DEF ReaderPlacesInv, ReaderHolds, SlotMatches, Apart
  <2>3. WriterPlacesInv'
    BY <2>1 DEF WriterPlacesInv, WriterHolds, SlotMatches, Apart
  <2>. QED
    BY <2>2, <2>3
<1>2. CASE ReaderDoneSeen \/ WriterDoneSeen \/ ReaderStopped \/ Kill \/ UNCHANGED vars
  <2>1. UNCHANGED <<readerVars, writerVars, fullBuffers>>
    BY <1>2 DEF ReaderDoneSeen, WriterDoneSeen, ReaderStopped, Kill, vars, sharedVars
  <2>2. ReaderPlacesInv'
    BY <2>1 DEF ReaderPlacesInv, ReaderHolds, SlotMatches, BothRunning, readerVars,
       writerVars
  <2>3. WriterPlacesInv'
    BY <2>1 DEF WriterPlacesInv, WriterHolds, SlotMatches, BothRunning, readerVars,
       writerVars
  <2>. QED
    BY <2>2, <2>3
<1>. QED
  BY <1>1, <1>2 DEF ProcessStep

\* Every step keeps the places of both threads.
LEMMA PlacesStep ==
    TypeInv /\ ReaderPlacesInv /\ WriterPlacesInv /\ [Next]_vars
        => ReaderPlacesInv' /\ WriterPlacesInv'
  BY ReaderKeepsReaderPlaces, ReaderKeepsWriterPlaces, WriterKeepsReaderPlaces,
     WriterKeepsWriterPlaces, ProcessKeepsPlaces DEF Next, Stopped

\* In every reachable state of any instance.
THEOREM PlacesInvariant == Spec => [](ReaderPlacesInv /\ WriterPlacesInv)
  BY TypeInvariant, PlacesInit, PlacesStep, PTL DEF Spec

\* Four sets that are apart and fill a range are a partition of it.
LEMMA ApartIsPartition ==
    ASSUME NEW a, NEW b, NEW c, NEW d, NEW from, NEW to,
           Apart(a, b, c, d), a \cup b \cup c \cup d = from..(to - 1)
    PROVE  Partition(<<a, b, c, d>>, from, to)
<1>. DEFINE places == <<a, b, c, d>>
<1>1. 1..4 = {1, 2, 3, 4}
  OBVIOUS
<1>2. places[1] = a /\ places[2] = b /\ places[3] = c /\ places[4] = d
  OBVIOUS
<1>. HIDE DEF places
<1>3. \A i, j \in 1..4 : i # j => places[i] \cap places[j] = {}
  BY <1>1, <1>2 DEF Apart
<1>4. UNION {places[i] : i \in 1..4} = a \cup b \cup c \cup d
  BY <1>1, <1>2
<1>5. Partition(places, from, to)
  BY <1>3, <1>4 DEF Partition
<1>. QED
  BY <1>5 DEF places

\* While both loops run, every position that was handed out for reading is in exactly
\* one place of the reader or the writer, whatever failed, was displaced from the error
\* slot, was retried or completed out of order.
THEOREM PositionsCorrect == Spec => []NoPositionLostOrDoubled
<1>1. ReaderPlacesInv /\ WriterPlacesInv => NoPositionLostOrDoubled
  BY ApartIsPartition DEF ReaderPlacesInv, WriterPlacesInv, ReaderHolds, WriterHolds,
     NoPositionLostOrDoubled, ReaderPlaces, WriterPlaces
<1>. QED
  BY <1>1, PlacesInvariant, PTL

\* No completion of a request in flight makes Push throw or PushError drop a buffer, not
\* even after the writer has cleared the queue that the reader pushes to.
THEOREM PushesCorrect == Spec => []PushesNeverThrow
<1>1. ReaderPlacesInv /\ WriterPlacesInv => PushesNeverThrow
  BY DEF ReaderPlacesInv, WriterPlacesInv, Apart, SlotMatches, PushesNeverThrow,
     PushThrows, HasError
<1>. QED
  BY <1>1, PlacesInvariant, PTL

-----------------------------------------------------------------------------
(* Where the buffers are: no step returns one twice or forgets one unnoticed *)

Free == emptyBuffers + lost

\* The buffers of the pool are free, with the reader or with the writer.
PoolInv == Free + Cardinality(ReaderHolds) + Cardinality(WriterHolds) = BufferCount

\* The sizes of disjoint sets add up.
LEMMA DisjointUnion ==
    ASSUME NEW S, NEW T, IsFiniteSet(S), IsFiniteSet(T), S \cap T = {}
    PROVE  /\ IsFiniteSet(S \cup T)
           /\ Cardinality(S \cup T) = Cardinality(S) + Cardinality(T)
<1>1. /\ IsFiniteSet(S \cup T)
      /\ Cardinality(S \cup T) = Cardinality(S) + Cardinality(T) - Cardinality(S \cap T)
  BY FS_Union
<1>2. Cardinality(S \cap T) = 0
  BY FS_EmptySet
<1>3. Cardinality(S) \in Nat /\ Cardinality(T) \in Nat
  BY FS_CardinalityType
<1>. QED
  BY <1>1, <1>2, <1>3

\* The sizes of a thread's places add up to the number of buffers it holds.
LEMMA Sizes ==
    ASSUME NEW q, NEW retry, NEW flying, WellFormed(q), IsFiniteSet(retry),
           IsFiniteSet(flying), Apart(q.buffers, q.error, retry, flying)
    PROVE  /\ IsFiniteSet(q.buffers \cup q.error \cup retry \cup flying)
           /\ Count(q) \in Nat /\ Cardinality(retry) \in Nat /\ Cardinality(flying) \in Nat
           /\ Cardinality(q.buffers \cup q.error \cup retry \cup flying)
                = Count(q) + Cardinality(retry) + Cardinality(flying)
<1>. DEFINE a == q.buffers
            b == q.error
<1>1. IsFiniteSet(a) /\ IsFiniteSet(b) /\ Count(q) = Cardinality(a) + Cardinality(b)
  BY DEF WellFormed, Count
<1>2. a \cap b = {} /\ (a \cup b) \cap retry = {} /\ (a \cup b \cup retry) \cap flying = {}
  BY DEF Apart
<1>3. Count(q) \in Nat /\ Cardinality(retry) \in Nat /\ Cardinality(flying) \in Nat
  BY CountType, FS_CardinalityType
<1>. HIDE DEF a, b
<1>4. IsFiniteSet(a \cup b) /\ Cardinality(a \cup b) = Cardinality(a) + Cardinality(b)
  BY <1>1, <1>2, DisjointUnion
<1>5. /\ IsFiniteSet(a \cup b \cup retry)
      /\ Cardinality(a \cup b \cup retry) = Cardinality(a \cup b) + Cardinality(retry)
  BY <1>2, <1>4, DisjointUnion
<1>6. /\ IsFiniteSet(a \cup b \cup retry \cup flying)
      /\ Cardinality(a \cup b \cup retry \cup flying)
           = Cardinality(a \cup b \cup retry) + Cardinality(flying)
  BY <1>2, <1>5, DisjointUnion
<1>. QED
  BY <1>1, <1>3, <1>4, <1>5, <1>6 DEF a, b

PlacesInv == TypeInv /\ ReaderPlacesInv /\ WriterPlacesInv

\* In a reachable state, for the reader.
LEMMA ReaderSizes ==
    ASSUME PlacesInv
    PROVE  /\ IsFiniteSet(ReaderHolds) /\ Cardinality(ReaderHolds) \in Nat
           /\ Cardinality(ReaderHolds)
                = Count(fullBuffers) + Cardinality(readRetry) + Cardinality(reading)
<1>1. /\ WellFormed(fullBuffers) /\ IsFiniteSet(readRetry) /\ IsFiniteSet(reading)
      /\ Apart(fullBuffers.buffers, fullBuffers.error, readRetry, reading)
  BY DEF PlacesInv, TypeInv, FinitePlaces, ReaderPlacesInv
<1>2. /\ IsFiniteSet(fullBuffers.buffers \cup fullBuffers.error \cup readRetry \cup reading)
      /\ Cardinality(fullBuffers.buffers \cup fullBuffers.error \cup readRetry \cup reading)
           = Count(fullBuffers) + Cardinality(readRetry) + Cardinality(reading)
  BY <1>1, Sizes
<1>. QED
  BY <1>2, FS_CardinalityType DEF ReaderHolds

\* For the writer.
LEMMA WriterSizes ==
    ASSUME PlacesInv
    PROVE  /\ IsFiniteSet(WriterHolds) /\ Cardinality(WriterHolds) \in Nat
           /\ Cardinality(WriterHolds)
                = Count(finishedBuffers) + Cardinality(writeRetry) + Cardinality(writing)
<1>1. /\ WellFormed(finishedBuffers) /\ IsFiniteSet(writeRetry) /\ IsFiniteSet(writing)
      /\ Apart(finishedBuffers.buffers, finishedBuffers.error, writeRetry, writing)
  BY DEF PlacesInv, TypeInv, FinitePlaces, WriterPlacesInv
<1>2. /\ IsFiniteSet(finishedBuffers.buffers \cup finishedBuffers.error \cup writeRetry \cup writing)
      /\ Cardinality(finishedBuffers.buffers \cup finishedBuffers.error \cup writeRetry \cup writing)
           = Count(finishedBuffers) + Cardinality(writeRetry) + Cardinality(writing)
  BY <1>1, Sizes
<1>. QED
  BY <1>2, FS_CardinalityType DEF WriterHolds

\* The same after a step.
LEMMA SizesAfter ==
    ASSUME PlacesInv'
    PROVE  /\ Cardinality(ReaderHolds')
                = Count(fullBuffers') + Cardinality(readRetry') + Cardinality(reading')
           /\ Cardinality(WriterHolds')
                = Count(finishedBuffers') + Cardinality(writeRetry') + Cardinality(writing')
<1>1. /\ WellFormed(fullBuffers') /\ IsFiniteSet(readRetry') /\ IsFiniteSet(reading')
      /\ Apart(fullBuffers'.buffers, fullBuffers'.error, readRetry', reading')
  BY DEF PlacesInv, TypeInv, FinitePlaces, ReaderPlacesInv
<1>2. Cardinality(fullBuffers'.buffers \cup fullBuffers'.error \cup readRetry' \cup reading')
        = Count(fullBuffers') + Cardinality(readRetry') + Cardinality(reading')
  BY <1>1, Sizes
<1>3. /\ WellFormed(finishedBuffers') /\ IsFiniteSet(writeRetry') /\ IsFiniteSet(writing')
      /\ Apart(finishedBuffers'.buffers, finishedBuffers'.error, writeRetry', writing')
  BY DEF PlacesInv, TypeInv, FinitePlaces, WriterPlacesInv
<1>4. Cardinality(finishedBuffers'.buffers \cup finishedBuffers'.error \cup writeRetry' \cup writing')
        = Count(finishedBuffers') + Cardinality(writeRetry') + Cardinality(writing')
  BY <1>3, Sizes
<1>. QED
  BY <1>2, <1>4 DEF ReaderHolds, WriterHolds

\* A new queue is empty, and so is the pool's other side.
LEMMA PoolInit == Init => PoolInv
<1>. SUFFICES ASSUME Init PROVE PoolInv
  OBVIOUS
<1>1. ReaderHolds = {} /\ WriterHolds = {}
  BY DEF Init, EmptyQueue, ReaderHolds, WriterHolds
<1>2. emptyBuffers = BufferCount /\ lost = 0 /\ BufferCount \in Nat
  BY PoolAssumption DEF Init
<1>. QED
  BY <1>1, <1>2, FS_EmptySet DEF PoolInv, Free

\* The ways in which one buffer moves.
Unmoved == ReaderHolds' = ReaderHolds /\ WriterHolds' = WriterHolds /\ Free' = Free

ReaderFrees ==
    /\ \E p \in ReaderHolds : ReaderHolds' = ReaderHolds \ {p}
    /\ WriterHolds' = WriterHolds
    /\ Free' = Free + 1

WriterFrees ==
    /\ \E p \in WriterHolds : WriterHolds' = WriterHolds \ {p}
    /\ ReaderHolds' = ReaderHolds
    /\ Free' = Free + 1

ReaderTakes ==
    /\ ReaderHolds' = ReaderHolds \cup {nextReadPosition}
    /\ WriterHolds' = WriterHolds
    /\ Free' = Free - 1

HandedOver ==
    \E p \in ReaderHolds :
        /\ ReaderHolds' = ReaderHolds \ {p}
        /\ WriterHolds' = WriterHolds \cup {p}
        /\ p = fullBuffers.expected
        /\ Free' = Free

\* Each of them keeps the sum.
LEMMA MovesKeepPool ==
    ASSUME PlacesInv, PoolInv,
           Unmoved \/ ReaderFrees \/ WriterFrees \/ ReaderTakes \/ HandedOver
    PROVE  PoolInv'
<1>1. /\ IsFiniteSet(ReaderHolds) /\ Cardinality(ReaderHolds) \in Nat
      /\ IsFiniteSet(WriterHolds) /\ Cardinality(WriterHolds) \in Nat
  BY ReaderSizes, WriterSizes
<1>2. Free \in Nat /\ BufferCount \in Nat
  BY PoolAssumption DEF Free, PlacesInv, TypeInv, TypeOK
<1>3. /\ nextReadPosition \notin ReaderHolds
      /\ fullBuffers.expected \notin WriterHolds
  BY DEF PlacesInv, ReaderPlacesInv, WriterPlacesInv, TypeInv, TypeOK, Queue
<1>4. CASE Unmoved
  BY <1>4 DEF Unmoved, PoolInv
<1>5. CASE ReaderFrees
  <2>1. Cardinality(ReaderHolds') = Cardinality(ReaderHolds) - 1
    BY <1>1, <1>5, FS_RemoveElement DEF ReaderFrees
  <2>. QED
    BY <1>1, <1>2, <1>5, <2>1 DEF ReaderFrees, PoolInv
<1>6. CASE WriterFrees
  <2>1. Cardinality(WriterHolds') = Cardinality(WriterHolds) - 1
    BY <1>1, <1>6, FS_RemoveElement DEF WriterFrees
  <2>. QED
    BY <1>1, <1>2, <1>6, <2>1 DEF WriterFrees, PoolInv
<1>7. CASE ReaderTakes
  <2>1. Cardinality(ReaderHolds') = Cardinality(ReaderHolds) + 1
    BY <1>1, <1>3, <1>7, FS_AddElement DEF ReaderTakes
  <2>. QED
    BY <1>1, <1>2, <1>7, <2>1 DEF ReaderTakes, PoolInv
<1>8. CASE HandedOver
  <2>1. /\ Cardinality(ReaderHolds') = Cardinality(ReaderHolds) - 1
        /\ Cardinality(WriterHolds') = Cardinality(WriterHolds) + 1
    <3>1. PICK p \in ReaderHolds :
            /\ ReaderHolds' = ReaderHolds \ {p} /\ WriterHolds' = WriterHolds \cup {p}
            /\ p \notin WriterHolds
      BY <1>3, <1>8 DEF HandedOver
    <3>2. Cardinality(ReaderHolds \ {p}) = Cardinality(ReaderHolds) - 1
      BY <1>1, FS_RemoveElement
    <3>3. Cardinality(WriterHolds \cup {p}) = Cardinality(WriterHolds) + 1
      BY <1>1, <3>1, FS_AddElement
    <3>. QED
      BY <3>1, <3>2, <3>3
  <2>. QED
    BY <1>1, <1>2, <1>8, <2>1 DEF HandedOver, PoolInv
<1>. QED
  BY <1>4, <1>5, <1>6, <1>7, <1>8

\* A reader action that hands a buffer on, takes one or gives one back.
LEMMA ReaderActionMoves ==
    ASSUME PlacesInv,
           \/ ReaderKilled \/ ReadFailedSignalled \/ ReaderFinished
           \/ HandleReadFailed \/ NothingToRead \/ RetryRead \/ StartNewRead
    PROVE  Unmoved \/ ReaderFrees \/ ReaderTakes
<1>. USE DEF PlacesInv, TypeInv
<1>1. WriterHolds' = WriterHolds
  BY DEF ReaderKilled, ReadFailedSignalled, ReaderFinished, HandleReadFailed,
     NothingToRead, RetryRead, StartNewRead, ReadPossibleSignalled, writerVars, WriterHolds
<1>2. emptyBuffers \in Nat /\ lost \in Nat
  BY DEF TypeOK
<1>3. CASE ReaderKilled \/ ReadFailedSignalled \/ ReaderFinished \/ NothingToRead
  BY <1>1, <1>3 DEF ReaderKilled, ReadFailedSignalled, ReaderFinished, NothingToRead,
     ReadPossibleSignalled, sharedVars, Unmoved, ReaderHolds, Free
<1>4. CASE HandleReadFailed
  <2>1. /\ fullBuffers'.error = {} /\ fullBuffers'.buffers = fullBuffers.buffers
        /\ UNCHANGED reading
    BY <1>4, PopErrorWellFormed DEF HandleReadFailed, FinitePlaces
  <2>2. \/ fullBuffers.error = {}
        \/ \E p \in fullBuffers.error : fullBuffers.error = {p}
    BY DEF ReaderPlacesInv, SlotMatches
  <2>3. CASE fullBuffers.error = {}
    <3>1. UNCHANGED <<readRetry, emptyBuffers, lost>>
      BY <1>4, <2>3 DEF HandleReadFailed, HasError
    <3>. QED
      BY <1>1, <2>1, <2>3, <3>1 DEF Unmoved, ReaderHolds, Free
  <2>4. ASSUME NEW p \in fullBuffers.error, fullBuffers.error = {p}
        PROVE  Unmoved \/ ReaderFrees
    <3>1. \/ readRetry' = readRetry \cup {p} /\ UNCHANGED <<lost, emptyBuffers>>
          \/ readRetry' = readRetry /\ Free' = Free + 1
      BY <1>2, <1>4, <2>4 DEF HandleReadFailed, HasError, Free
    <3>2. CASE readRetry' = readRetry \cup {p} /\ UNCHANGED <<lost, emptyBuffers>>
      BY <1>1, <2>1, <2>4, <3>2 DEF Unmoved, ReaderHolds, Free
    <3>3. CASE readRetry' = readRetry /\ Free' = Free + 1
      <4>1. ReaderHolds' = ReaderHolds \ {p} /\ p \in ReaderHolds
        BY <2>1, <2>4, <3>3 DEF ReaderPlacesInv, Apart, ReaderHolds
      <4>. QED
        BY <1>1, <3>3, <4>1 DEF ReaderFrees
    <3>. QED
      BY <3>1, <3>2, <3>3
  <2>. QED
    BY <2>2, <2>3, <2>4
<1>5. CASE RetryRead
  <2>1. PICK p \in readRetry : readRetry' = readRetry \ {p} /\ IssueRead(p)
    BY <1>5 DEF RetryRead
  <2>2. /\ UNCHANGED <<fullBuffers, lost>>
        /\ emptyBuffers' = emptyBuffers + ReturnedUnlessIssued
        /\ p \notin reading /\ p \notin fullBuffers.buffers \cup fullBuffers.error
    BY <1>5 DEF RetryRead, ReadPossibleSignalled, ReaderPlacesInv, Apart
  <2>3. CASE reading' = reading \cup {p}
    <3>1. emptyBuffers' = emptyBuffers
      BY <1>2, <2>2, <2>3 DEF ReturnedUnlessIssued
    <3>. QED
      BY <1>1, <2>1, <2>2, <2>3, <3>1 DEF Unmoved, ReaderHolds, Free
  <2>4. CASE reading' = reading
    <3>1. Free' = Free + 1
      BY <1>2, <2>2, <2>4 DEF ReturnedUnlessIssued, Free
    <3>2. ReaderHolds' = ReaderHolds \ {p} /\ p \in ReaderHolds
      BY <2>1, <2>2, <2>4 DEF ReaderHolds
    <3>. QED
      BY <1>1, <3>1, <3>2 DEF ReaderFrees
  <2>. QED
    BY <2>1, <2>3, <2>4 DEF IssueRead
<1>6. CASE StartNewRead
  <2>1. /\ UNCHANGED <<fullBuffers, lost, readRetry>>
        /\ emptyBuffers' = emptyBuffers - 1 + ReturnedUnlessIssued
        /\ IssueRead(nextReadPosition)
    BY <1>6 DEF StartNewRead, ReadPossibleSignalled
  <2>2. nextReadPosition \notin reading
    BY DEF ReaderPlacesInv, ReaderHolds, TypeOK
  <2>3. CASE reading' = reading \cup {nextReadPosition}
    <3>1. Free' = Free - 1
      BY <1>2, <2>1, <2>2, <2>3 DEF ReturnedUnlessIssued, Free
    <3>2. ReaderHolds' = ReaderHolds \cup {nextReadPosition}
      BY <2>1, <2>3 DEF ReaderHolds
    <3>. QED
      BY <1>1, <3>1, <3>2 DEF ReaderTakes
  <2>4. CASE reading' = reading
    <3>1. Free' = Free
      BY <1>2, <2>1, <2>4 DEF ReturnedUnlessIssued, Free
    <3>. QED
      BY <1>1, <2>1, <2>4, <3>1 DEF Unmoved, ReaderHolds
  <2>. QED
    BY <2>1, <2>3, <2>4 DEF IssueRead
<1>. QED
  BY <1>3, <1>4, <1>5, <1>6

\* A completed read moves its buffer within the reader, or drops it and says so.
LEMMA ReaderCompletionMoves ==
    ASSUME PlacesInv, ReaderCompletion
    PROVE  Unmoved \/ ReaderFrees
<1>. USE DEF PlacesInv, TypeInv
<1>1. PICK p \in reading :
        ReadCompletes(p) \/ ReadCompletesFailed(p) \/ ReadCompletionThrows(p)
  BY DEF ReaderCompletion
<1>2. /\ WriterHolds' = WriterHolds /\ reading' = reading \ {p}
      /\ emptyBuffers' = emptyBuffers /\ emptyBuffers \in Nat /\ lost \in Nat
  BY <1>1 DEF ReadCompletes, ReadCompletesFailed, ReadCompletionThrows, ReadFails,
     writerVars, WriterHolds, TypeOK
<1>3. /\ p \in Nat /\ IsLastPart(p) \in BOOLEAN /\ WellFormed(fullBuffers)
      /\ SlotMatches(fullBuffers) /\ p \notin fullBuffers.error
      /\ p \notin fullBuffers.buffers \cup readRetry
  BY DEF TypeOK, FinitePlaces, IsLastPart, ReaderPlacesInv, Apart
<1>4. CASE ReadCompletes(p)
  <2>1. /\ fullBuffers'.buffers = fullBuffers.buffers \cup {p}
        /\ fullBuffers'.error = fullBuffers.error
        /\ UNCHANGED <<readRetry, lost>>
    BY <1>3, <1>4 DEF ReadCompletes, Push, WellFormed, Queue
  <2>. QED
    BY <1>2, <2>1 DEF Unmoved, ReaderHolds, Free
<1>5. CASE ReadCompletesFailed(p)
  <2>1. /\ fullBuffers'.buffers = fullBuffers.buffers
        /\ fullBuffers'.error \cup SentToRetry(fullBuffers, p) = fullBuffers.error \cup {p}
        /\ readRetry' = readRetry \cup SentToRetry(fullBuffers, p)
        /\ UNCHANGED lost
    BY <1>3, <1>5, PushErrorContents, PushErrorKeepsBuffers DEF ReadCompletesFailed
  <2>. QED
    BY <1>2, <2>1 DEF Unmoved, ReaderHolds, Free
<1>6. CASE ReadCompletionThrows(p)
  <2>1. UNCHANGED <<fullBuffers, readRetry>> /\ lost' = lost + 1
    BY <1>6 DEF ReadCompletionThrows
  <2>2. ReaderHolds' = ReaderHolds \ {p} /\ p \in ReaderHolds
    BY <1>2, <1>3, <2>1 DEF ReaderHolds
  <2>3. Free' = Free + 1
    BY <1>2, <2>1 DEF Free
  <2>. QED
    BY <1>2, <2>2, <2>3 DEF ReaderFrees
<1>. QED
  BY <1>1, <1>4, <1>5, <1>6

\* The end of the reader frees what waited for a retry.
LEMMA ReaderDrainedKeepsPool ==
    ASSUME PlacesInv, PlacesInv', PoolInv, ReaderDrained
    PROVE  PoolInv'
<1>1. /\ Cardinality(ReaderHolds) = Count(fullBuffers) + Cardinality(readRetry) + 0
      /\ Cardinality(ReaderHolds') = Count(fullBuffers) + 0 + 0
      /\ Cardinality(WriterHolds') = Cardinality(WriterHolds)
  <2>1. /\ reading = {} /\ reading' = {} /\ readRetry' = {} /\ fullBuffers' = fullBuffers
        /\ WriterHolds' = WriterHolds
    BY DEF ReaderDrained, writerVars, WriterHolds
  <2>. QED
    BY <2>1, ReaderSizes, SizesAfter, FS_EmptySet
<1>2. emptyBuffers' = emptyBuffers + Cardinality(readRetry) /\ lost' = lost
  BY DEF ReaderDrained
<1>3. /\ emptyBuffers \in Nat /\ lost \in Nat /\ Count(fullBuffers) \in Nat
      /\ Cardinality(readRetry) \in Nat /\ Cardinality(WriterHolds) \in Nat
  BY CountType, FS_CardinalityType, WriterSizes DEF PlacesInv, TypeInv, TypeOK, FinitePlaces
<1>. QED
  BY <1>1, <1>2, <1>3 DEF PoolInv, Free

\* A writer action that hands a buffer on, takes one or gives one back.
LEMMA WriterActionMoves ==
    ASSUME PlacesInv,
           \/ WriterKilled \/ WriteAccounted \/ WriteSizeMismatch \/ FinalizeFails
           \/ HandleWriteFailed \/ NothingToWrite \/ RetryWrite \/ StartWrite
    PROVE  Unmoved \/ WriterFrees \/ ReaderFrees \/ HandedOver
<1>. USE DEF PlacesInv, TypeInv
<1>1. emptyBuffers \in Nat /\ lost \in Nat
  BY DEF TypeOK
<1>2. CASE WriterKilled \/ NothingToWrite
  BY <1>2 DEF WriterKilled, WriterStops, NothingToWrite, WritePossibleSignalled,
     readerVars, sharedVars, Unmoved, ReaderHolds, WriterHolds, Free
<1>3. CASE WriteAccounted \/ WriteSizeMismatch \/ FinalizeFails
  <2>. DEFINE e == finishedBuffers.expected
  <2>1. WriteFinishedSignalled
    BY <1>3 DEF WriteAccounted, WriteSizeMismatch, FinalizeFails
  <2>2. /\ UNCHANGED <<writeRetry, writing, fullBuffers, readRetry, reading>>
        /\ finishedBuffers' = Pop(finishedBuffers) /\ e \in finishedBuffers.buffers
    BY <2>1 DEF WriteFinishedSignalled, HasPoppable, IsFirst, readerVars
  <2>3. /\ finishedBuffers'.buffers = finishedBuffers.buffers \ {e}
        /\ finishedBuffers'.error = finishedBuffers.error
    BY <2>2, PopContents DEF FinitePlaces
  <2>4. WriterHolds' = WriterHolds \ {e} /\ e \in WriterHolds
    BY <2>2, <2>3 DEF WriterPlacesInv, Apart, WriterHolds
  <2>5. ReaderHolds' = ReaderHolds
    BY <2>2 DEF ReaderHolds
  <2>6. Free' = Free + 1
    BY <1>1, <1>3 DEF WriteAccounted, WriteSizeMismatch, FinalizeFails, Free
  <2>. QED
    BY <2>4, <2>5, <2>6 DEF WriterFrees
<1>4. CASE HandleWriteFailed
  <2>1. /\ finishedBuffers'.error = {} /\ finishedBuffers'.buffers = finishedBuffers.buffers
        /\ UNCHANGED <<writing, fullBuffers, readRetry, reading, lost>>
        /\ finishedBuffers.error # {}
    BY <1>4, PopErrorWellFormed DEF HandleWriteFailed, FinitePlaces, readerVars, HasError
  <2>2. PICK p \in finishedBuffers.error : finishedBuffers.error = {p}
    BY <2>1 DEF WriterPlacesInv, SlotMatches
  <2>3. ReaderHolds' = ReaderHolds
    BY <2>1 DEF ReaderHolds
  <2>4. CASE writeRetry' = writeRetry \cup finishedBuffers.error
             /\ UNCHANGED emptyBuffers
    BY <2>1, <2>3, <2>4 DEF Unmoved, WriterHolds, Free
  <2>5. CASE UNCHANGED writeRetry /\ emptyBuffers' = emptyBuffers + 1
    <3>1. WriterHolds' = WriterHolds \ {p} /\ p \in WriterHolds
      BY <2>1, <2>2, <2>5 DEF WriterPlacesInv, Apart, WriterHolds
    <3>2. Free' = Free + 1
      BY <1>1, <2>1, <2>5 DEF Free
    <3>. QED
      BY <2>3, <3>1, <3>2 DEF WriterFrees
  <2>. QED
    BY <1>4, <2>4, <2>5 DEF HandleWriteFailed
<1>5. CASE RetryWrite
  <2>1. PICK p \in writeRetry : writeRetry' = writeRetry \ {p} /\ IssueWrite(p)
    BY <1>5 DEF RetryWrite
  <2>2. /\ UNCHANGED <<finishedBuffers, fullBuffers, readRetry, reading, lost>>
        /\ p \notin writing /\ p \notin finishedBuffers.buffers \cup finishedBuffers.error
    BY <1>5 DEF RetryWrite, WritePossibleSignalled, readerVars, WriterPlacesInv, Apart
  <2>3. ReaderHolds' = ReaderHolds
    BY <2>2 DEF ReaderHolds
  <2>4. CASE writing' = writing \cup {p} /\ UNCHANGED emptyBuffers
    BY <2>1, <2>2, <2>3, <2>4 DEF Unmoved, WriterHolds, Free
  <2>5. CASE writing' = writing /\ emptyBuffers' = emptyBuffers + 1
    <3>1. WriterHolds' = WriterHolds \ {p} /\ p \in WriterHolds
      BY <2>1, <2>2, <2>5 DEF WriterHolds
    <3>2. Free' = Free + 1
      BY <1>1, <2>2, <2>5 DEF Free
    <3>. QED
      BY <2>3, <3>1, <3>2 DEF WriterFrees
  <2>. QED
    BY <2>1, <2>4, <2>5 DEF IssueWrite
<1>6. CASE StartWrite
  <2>. DEFINE e == fullBuffers.expected
  <2>1. /\ UNCHANGED <<finishedBuffers, writeRetry, readRetry, reading, lost>>
        /\ fullBuffers' = Pop(fullBuffers) /\ e \in fullBuffers.buffers /\ IssueWrite(e)
    BY <1>6 DEF StartWrite, WritePossibleSignalled, readerVars, HasPoppable, IsFirst
  <2>2. /\ fullBuffers'.buffers = fullBuffers.buffers \ {e}
        /\ fullBuffers'.error = fullBuffers.error
    BY <2>1, PopContents DEF FinitePlaces
  <2>3. ReaderHolds' = ReaderHolds \ {e} /\ e \in ReaderHolds
    BY <2>1, <2>2 DEF ReaderPlacesInv, Apart, ReaderHolds
  <2>4. CASE writing' = writing \cup {e} /\ UNCHANGED emptyBuffers
    <3>1. WriterHolds' = WriterHolds \cup {e}
      BY <2>1, <2>4 DEF WriterHolds
    <3>2. Free' = Free
      BY <2>1, <2>4 DEF Free
    <3>. QED
      BY <2>3, <3>1, <3>2 DEF HandedOver
  <2>5. CASE writing' = writing /\ emptyBuffers' = emptyBuffers + 1
    <3>1. WriterHolds' = WriterHolds
      BY <2>1, <2>5 DEF WriterHolds
    <3>2. Free' = Free + 1
      BY <1>1, <2>1, <2>5 DEF Free
    <3>. QED
      BY <2>3, <3>1, <3>2 DEF ReaderFrees
  <2>. QED
    BY <2>1, <2>4, <2>5 DEF IssueWrite
<1>. QED
  BY <1>2, <1>3, <1>4, <1>5, <1>6

\* A completed write moves its buffer within the writer.
LEMMA WriterCompletionMoves ==
    ASSUME PlacesInv, WriterCompletion
    PROVE  Unmoved
<1>. USE DEF PlacesInv, TypeInv
<1>1. PICK p \in writing : WriteCompletes(p) \/ WriteCompletesFailed(p)
  BY DEF WriterCompletion
<1>2. /\ ReaderHolds' = ReaderHolds /\ writing' = writing \ {p}
      /\ Free' = Free
  BY <1>1 DEF WriteCompletes, WriteCompletesFailed, readerVars, ReaderHolds, Free
<1>3. /\ p \in Nat /\ IsLastPart(p) \in BOOLEAN /\ WellFormed(finishedBuffers)
      /\ SlotMatches(finishedBuffers) /\ p \notin finishedBuffers.error
  BY DEF TypeOK, FinitePlaces, IsLastPart, WriterPlacesInv, Apart
<1>4. CASE WriteCompletes(p)
  <2>1. /\ finishedBuffers'.buffers = finishedBuffers.buffers \cup {p}
        /\ finishedBuffers'.error = finishedBuffers.error
        /\ UNCHANGED writeRetry
    BY <1>3, <1>4 DEF WriteCompletes, Push, WellFormed, Queue
  <2>. QED
    BY <1>2, <2>1 DEF Unmoved, WriterHolds
<1>5. CASE WriteCompletesFailed(p)
  <2>1. /\ finishedBuffers'.buffers = finishedBuffers.buffers
        /\ finishedBuffers'.error \cup SentToRetry(finishedBuffers, p)
             = finishedBuffers.error \cup {p}
        /\ writeRetry' = writeRetry \cup SentToRetry(finishedBuffers, p)
    BY <1>3, <1>5, PushErrorContents, PushErrorKeepsBuffers DEF WriteCompletesFailed
  <2>. QED
    BY <1>2, <2>1 DEF Unmoved, WriterHolds
<1>. QED
  BY <1>1, <1>4, <1>5

\* Cleared queues count nothing.
LEMMA ClearedCount ==
    ASSUME NEW q, WellFormed(q)
    PROVE  Count(Clear(q)) = 0
  BY ClearContents, FS_EmptySet DEF Count

\* The end of the writer frees all full buffers and all of its own.
LEMMA WriterDrainedKeepsPool ==
    ASSUME PlacesInv, PlacesInv', PoolInv, WriterDrained
    PROVE  PoolInv'
<1>1. /\ writing = {} /\ writing' = {} /\ writeRetry' = {}
      /\ fullBuffers' = Clear(fullBuffers) /\ finishedBuffers' = Clear(finishedBuffers)
      /\ UNCHANGED <<readRetry, reading, lost>>
      /\ emptyBuffers' = emptyBuffers + Count(fullBuffers) + Cardinality(writeRetry)
                           + Count(finishedBuffers)
  BY DEF WriterDrained, readerVars
<1>2. Count(fullBuffers') = 0 /\ Count(finishedBuffers') = 0 /\ Cardinality({}) = 0
  BY <1>1, ClearedCount, FS_EmptySet DEF PlacesInv, TypeInv, FinitePlaces
<1>3. /\ Cardinality(ReaderHolds)
           = Count(fullBuffers) + Cardinality(readRetry) + Cardinality(reading)
      /\ Cardinality(WriterHolds) = Count(finishedBuffers) + Cardinality(writeRetry) + 0
      /\ Cardinality(ReaderHolds') = 0 + Cardinality(readRetry) + Cardinality(reading)
      /\ Cardinality(WriterHolds') = 0 + 0 + 0
  BY <1>1, <1>2, ReaderSizes, WriterSizes, SizesAfter
<1>4. /\ emptyBuffers \in Nat /\ lost \in Nat /\ Count(fullBuffers) \in Nat
      /\ Count(finishedBuffers) \in Nat /\ Cardinality(readRetry) \in Nat
      /\ Cardinality(reading) \in Nat /\ Cardinality(writeRetry) \in Nat
  BY CountType, FS_CardinalityType DEF PlacesInv, TypeInv, TypeOK, FinitePlaces
<1>. QED
  BY <1>1, <1>3, <1>4 DEF PoolInv, Free

\* Destroying the queues frees what is left in them.
LEMMA WriterStoppedKeepsPool ==
    ASSUME PlacesInv, PlacesInv', PoolInv, WriterStopped
    PROVE  PoolInv'
<1>1. /\ fullBuffers' = Clear(fullBuffers) /\ finishedBuffers' = Clear(finishedBuffers)
      /\ UNCHANGED <<readRetry, reading, writeRetry, writing, lost>>
      /\ emptyBuffers' = emptyBuffers + Count(fullBuffers) + Count(finishedBuffers)
  BY DEF WriterStopped, readerVars
<1>2. Count(fullBuffers') = 0 /\ Count(finishedBuffers') = 0
  BY <1>1, ClearedCount DEF PlacesInv, TypeInv, FinitePlaces
<1>3. /\ Cardinality(ReaderHolds)
           = Count(fullBuffers) + Cardinality(readRetry) + Cardinality(reading)
      /\ Cardinality(WriterHolds)
           = Count(finishedBuffers) + Cardinality(writeRetry) + Cardinality(writing)
      /\ Cardinality(ReaderHolds') = 0 + Cardinality(readRetry) + Cardinality(reading)
      /\ Cardinality(WriterHolds') = 0 + Cardinality(writeRetry) + Cardinality(writing)
  BY <1>1, <1>2, ReaderSizes, WriterSizes, SizesAfter
<1>4. /\ emptyBuffers \in Nat /\ lost \in Nat /\ Count(fullBuffers) \in Nat
      /\ Count(finishedBuffers) \in Nat /\ Cardinality(readRetry) \in Nat
      /\ Cardinality(reading) \in Nat /\ Cardinality(writeRetry) \in Nat
      /\ Cardinality(writing) \in Nat
  BY CountType, FS_CardinalityType DEF PlacesInv, TypeInv, TypeOK, FinitePlaces
<1>. QED
  BY <1>1, <1>3, <1>4 DEF PoolInv, Free

\* Every step keeps the sum.
LEMMA PoolStep == PlacesInv /\ PlacesInv' /\ PoolInv /\ [Next]_vars => PoolInv'
<1>. SUFFICES ASSUME PlacesInv, PlacesInv', PoolInv, [Next]_vars PROVE PoolInv'
  OBVIOUS
<1>1. CASE ReaderStep
  BY <1>1, ReaderActionMoves, MovesKeepPool, ReaderDrainedKeepsPool DEF ReaderStep
<1>2. CASE ReaderCompletion
  BY <1>2, ReaderCompletionMoves, MovesKeepPool
<1>3. CASE WriterStep
  BY <1>3, WriterActionMoves, MovesKeepPool, WriterDrainedKeepsPool DEF WriterStep
<1>4. CASE WriterCompletion
  BY <1>4, WriterCompletionMoves, MovesKeepPool
<1>5. CASE WriterStopped
  BY <1>5, WriterStoppedKeepsPool
<1>6. CASE ReaderDoneSeen \/ WriterDoneSeen \/ ReaderStopped \/ Kill \/ UNCHANGED vars
  BY <1>6 DEF ReaderDoneSeen, WriterDoneSeen, ReaderStopped, Kill, vars, readerVars,
     writerVars, sharedVars, PoolInv, Free, ReaderHolds, WriterHolds
<1>. QED
  BY <1>1, <1>2, <1>3, <1>4, <1>5, <1>6 DEF Next, ProcessStep, Stopped

\* Each buffer of the pool is empty, in one place of the reader or of the writer, or was
\* dropped on an error path, for every size of the pool.
THEOREM BuffersCorrect == Spec => []BuffersConserved
<1>1. PlacesInv /\ PoolInv => BuffersConserved
  <2>. SUFFICES ASSUME PlacesInv, PoolInv PROVE BuffersConserved
    OBVIOUS
  <2>1. /\ emptyBuffers \in Nat /\ lost \in Nat /\ Count(fullBuffers) \in Nat
        /\ Count(finishedBuffers) \in Nat /\ Cardinality(readRetry) \in Nat
        /\ Cardinality(reading) \in Nat /\ Cardinality(writeRetry) \in Nat
        /\ Cardinality(writing) \in Nat
    BY CountType, FS_CardinalityType DEF PlacesInv, TypeInv, TypeOK, FinitePlaces
  <2>. QED
    BY <2>1, ReaderSizes, WriterSizes DEF PoolInv, Free, BuffersConserved
<1>. QED
  BY <1>1, TypeInvariant, PlacesInvariant, PoolInit, PoolStep, PTL DEF Spec, PlacesInv
=================================================================================
