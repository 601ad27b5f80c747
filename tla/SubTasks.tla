-------------------------------- MODULE SubTasks --------------------------------
(***************************************************************************)
(* One task at work: TSubTasksArray runs its sub-tasks (fast move, scan,   *)
(* copy, delete) over the files of the task on the task's thread, while    *)
(* the user interface stops the thread, restarts it, answers its questions *)
(* and saves its progress at any moment, and while the process may crash   *)
(* and continue from what was saved last.                                  *)
(*                                                                         *)
(* Files are numbered in the order in which the scan finds them.  The      *)
(* content of a destination is a sequence of chunks, each "data" (the      *)
(* right chunk of the source), "other" (what was there before) or "zero"   *)
(* (a gap that truncation to a larger size leaves).  One write is in       *)
(* flight at a time here; OverlappedCopy has several.                      *)
(***************************************************************************)
EXTENDS Integers, Sequences, FiniteSets

CONSTANTS
    Files,               \* 1..n
    Size,                \* chunks of each file
    Paths,               \* 1..m: the source paths the user chose
    PathOf,              \* the path a file was found under
    NoFile,              \* the content of a file that does not exist
    Existing,            \* sizes that destinations may have beforehand
    Plan,                \* the sub-tasks in their order
    DeleteAfterEach,     \* ~eTO_DeleteInSeparateSubTask
    SavesOverlap,        \* does the autosave timer fire while the thread runs?
    StaleStops,          \* may a stop land right after a file was passed over?
    MaxKills, MaxCrashes, MaxSaves, MaxRestarts,
    MaxSkips, MaxStops   \* bounds: answers to errors that skip, and that stop

ASSUME FilesAssumption ==
    /\ IsFiniteSet(Files) /\ Files = 1..Cardinality(Files)
    /\ Size \in [Files -> Nat]
    /\ IsFiniteSet(Paths) /\ Paths = 1..Cardinality(Paths)
    /\ PathOf \in [Files -> Paths]
    /\ Existing \subseteq Nat
    /\ NoFile \notin Seq({"data", "other", "zero"})

ASSUME PlanAssumption ==
    /\ Plan \in {<<"Scan", "Copy">>,
                 <<"FastMove", "Scan", "Copy", "Delete">>,
                 <<"Scan", "FastMove", "Copy", "Delete">>}
    /\ DeleteAfterEach \in BOOLEAN
    /\ SavesOverlap \in BOOLEAN /\ StaleStops \in BOOLEAN

ASSUME BoundAssumption ==
    {MaxKills, MaxCrashes, MaxSaves, MaxRestarts, MaxSkips, MaxStops} \subseteq Nat

VARIABLES
    src,            \* files that exist in the source
    dst,            \* contents of the destinations
    list, complete, \* TFileInfoArray: what the scan found, and m_bComplete
    processed,      \* files of the list with eFlag_Processed
    handled,        \* paths with m_bSkipFurtherProcessing
    sub,            \* m_oidSubOperationIndex, from 1
    stats,          \* TSubTaskStatsInfo of the copy sub-task
    deleteAt,       \* current index of the delete sub-task: deleted from the end
    moveAt,         \* current index of the fast move sub-task
    moving,         \* does the context's operation type say "move"?
    state,          \* what of the task's state decides whether it may go on
    kill,           \* the worker thread's kill event
    pc,             \* where the task's thread is
    at,             \* fcIndex of the sub-task that runs
    first,          \* ullCurrentItemProcessedSize and bCurrentFileSilentResume
    saved,          \* what the task's database holds
    saving,         \* how far a TTask::Store of the user interface has got
    gathered,       \* what it has put into the serializer's containers
    declined,       \* files the user chose to skip (for the properties)
    agreed,         \* destinations the user let the task replace (same)
    left            \* what remains of each bound

filesVars == <<src, dst>>
progress == <<list, complete, processed, handled, sub, stats, deleteAt, moveAt>>
threadVars == <<pc, at, first>>
saveVars == <<saved, saving, gathered>>
ghosts == <<declined, agreed>>
vars == <<filesVars, progress, moving, state, kill, threadVars, saveVars,
          ghosts, left>>

-----------------------------------------------------------------------------
(* Contents of files *)

Whole(i) == [p \in 1..Size[i] |-> "data"]

\* TLocalFilesystemFile::Truncate sets the end of file, also past the end.
Truncated(content, n) ==
    [p \in 1..n |-> IF p <= Len(content) THEN content[p] ELSE "zero"]

Minimum(a, b) == IF a < b THEN a ELSE b

Contents == {NoFile} \cup Seq({"data", "other", "zero"})

\* Files of a path that exist, in the order in which the scan meets them.
FilesUnder(path) ==
    LET found == {i \in src : PathOf[i] = path}
    IN  CHOOSE s \in [1..Cardinality(found) -> found] :
            \A j, k \in DOMAIN s : j < k => s[j] < s[k]

-----------------------------------------------------------------------------
(* What is saved *)

NewStats == [initialized |-> FALSE, total |-> 0, index |-> 1, done |-> 0,
             silent |-> FALSE]

\* TFileInfoArray::Store leaves the rows alone while the list is incomplete.
SavedList == IF complete THEN [list |-> list, processed |-> processed]
                         ELSE saved.files

Snapshot == [state |-> state, handled |-> handled, files |-> SavedList,
             sub |-> sub, stats |-> stats, deleteAt |-> deleteAt,
             moveAt |-> moveAt]

Init ==
    /\ src = Files
    /\ dst \in [Files -> {NoFile} \cup {[p \in 1..n |-> "other"] : n \in Existing}]
    /\ list = <<>> /\ complete = FALSE /\ processed = {}
    /\ handled = {} /\ sub = 1 /\ stats = NewStats
    /\ deleteAt = 0 /\ moveAt = 1
    /\ moving = ("Delete" \in {Plan[j] : j \in DOMAIN Plan})
    /\ state = "Open" /\ kill = FALSE
    /\ pc = "None" /\ at = 0 /\ first = [done |-> 0, silent |-> FALSE]
    /\ saved = [state |-> "Open", handled |-> {},
                files |-> [list |-> <<>>, processed |-> {}],
                sub |-> 1, stats |-> NewStats, deleteAt |-> 0, moveAt |-> 1]
    /\ saving = "Idle" /\ gathered = saved
    /\ declined = {} /\ agreed = {}
    /\ left = [kill |-> MaxKills, crash |-> MaxCrashes, save |-> MaxSaves,
               restart |-> MaxRestarts, skip |-> MaxSkips, stop |-> MaxStops]

Spend(bound) == left[bound] > 0 /\ left' = [left EXCEPT ![bound] = @ - 1]

\* An operation on a source that is gone always fails, so that a skip is not
\* taken from the bound.
Skips(isGone) == IF isGone THEN UNCHANGED left ELSE Spend("skip")

-----------------------------------------------------------------------------
(* TTask::ThrdProc and TSubTasksArray::Execute *)

Begin ==
    /\ pc = "None" /\ state = "Open"
    /\ SavesOverlap \/ saving = "Idle"
    /\ kill' = FALSE
    /\ pc' = "Execute"
    /\ UNCHANGED <<filesVars, progress, moving, state, at, first, saveVars,
                   ghosts, left>>

\* A sub-task returned something other than Continue.
Halt(newState) == pc' = "End" /\ state' = newState

\* An exception that ThrdProc catches: the state becomes Error, from which the
\* task may be run again, and nothing is saved.
Throw == pc' = "None" /\ state' = state

\* The user answers Pause or Cancel to a question, or Retry while the thread is
\* to be killed.
AnswersStop == Spend("stop") /\ \E answer \in {"Open", "Cancelled"} : Halt(answer)

Stopped == AnswersStop \/ (kill /\ Halt("Open") /\ UNCHANGED left)

Finish ==
    /\ pc = "Execute" /\ sub > Len(Plan)
    /\ Halt("Finished")
    /\ UNCHANGED <<filesVars, progress, moving, kill, at, first, saveVars,
                   ghosts, left>>

\* End of ThrdProc: an incomplete list is dropped and the task is stored, which
\* waits for a store that the user interface has under way.
End ==
    /\ pc = "End" /\ saving = "Idle"
    /\ saved' = Snapshot
    /\ pc' = "None"
    /\ list' = IF complete THEN list ELSE <<>>
    /\ processed' = IF complete THEN processed ELSE {}
    /\ UNCHANGED <<filesVars, complete, handled, sub, stats, deleteAt, moveAt,
                   moving, state, kill, at, first, saving, gathered, ghosts, left>>

Starts(subTask) == pc = "Execute" /\ sub <= Len(Plan) /\ Plan[sub] = subTask

\* A sub-task has returned Continue: fetch_add of the index.
NextSubTask ==
    /\ pc = "Next"
    /\ sub' = sub + 1
    /\ pc' = "Execute"
    /\ UNCHANGED <<filesVars, list, complete, processed, handled, stats,
                   deleteAt, moveAt, moving, state, kill, at, first, saveVars,
                   ghosts, left>>

-----------------------------------------------------------------------------
(* TSubTaskFastMove::Exec *)

StartFastMove ==
    /\ Starts("FastMove")
    /\ pc' = "FastMove" /\ at' = moveAt
    /\ UNCHANGED <<filesVars, progress, moving, state, kill, first, saveVars,
                   ghosts, left>>

FastMoveStep ==
    /\ pc = "FastMove" /\ at \in Paths
    /\ moveAt' = at
    /\ UNCHANGED <<list, complete, processed, sub, stats, deleteAt, moving,
                   kill, first, saveVars, agreed>>

FastMoveSkipsHandled ==
    /\ FastMoveStep
    /\ at \in handled
    /\ at' = at + 1
    /\ UNCHANGED <<filesVars, handled, state, pc, declined, left>>

PathExists == \E i \in src : PathOf[i] = at

DeclineAll(path) == declined' = declined \cup {i \in src : PathOf[i] = path}

\* GetFileInfoFB fails, because the path is gone or for a reason of its own.
FastMoveCannotRead ==
    /\ FastMoveStep
    /\ at \notin handled
    /\ \/ /\ Skips(~PathExists)
          /\ handled' = handled \cup {at}
          /\ DeclineAll(at)
          /\ at' = at + 1
          /\ UNCHANGED <<state, pc>>
       \/ Stopped /\ UNCHANGED <<handled, declined, at>>
    /\ UNCHANGED <<filesVars>>

\* The move itself succeeds only where nothing is in its way; SetSkipFurther-
\* Processing follows.
FastMoveMoves ==
    /\ FastMoveStep
    /\ at \notin handled /\ PathExists
    /\ \A i \in src : PathOf[i] = at => dst[i] = NoFile
    /\ src' = {i \in src : PathOf[i] # at}
    /\ dst' = [i \in Files |-> IF i \in src /\ PathOf[i] = at THEN Whole(i)
                                                             ELSE dst[i]]
    /\ pc' = "Moved"
    /\ UNCHANGED <<handled, at, state, declined, left>>

FastMoveMarks ==
    /\ pc = "Moved"
    /\ handled' = handled \cup {at}
    /\ IF kill THEN Halt("Open") /\ UNCHANGED at
               ELSE pc' = "FastMove" /\ at' = at + 1 /\ UNCHANGED state
    /\ UNCHANGED <<filesVars, list, complete, processed, sub, stats, deleteAt,
                   moveAt, moving, kill, first, saveVars, ghosts, left>>

\* Another volume, or something exists at the destination.
FastMoveImpossible ==
    /\ FastMoveStep
    /\ at \notin handled /\ PathExists
    /\ IF kill THEN Halt("Open") /\ UNCHANGED at
               ELSE at' = at + 1 /\ UNCHANGED <<pc, state>>
    /\ UNCHANGED <<filesVars, handled, declined, left>>

\* FastMoveFB fails otherwise.  The answer Skip makes Exec return SkipFile,
\* which ends Execute, and for which ThrdProc has no case: it throws.
FastMoveFails ==
    /\ FastMoveStep
    /\ at \notin handled /\ PathExists
    /\ \/ Spend("skip") /\ Throw
       \/ Stopped
    /\ UNCHANGED <<filesVars, handled, at, declined>>

FastMoveEnds ==
    /\ pc = "FastMove" /\ at \notin Paths
    /\ moveAt' = at
    /\ pc' = "Next"
    /\ UNCHANGED <<filesVars, list, complete, processed, handled, sub, stats,
                   deleteAt, moving, state, kill, at, first, saveVars, ghosts, left>>

FastMove == \/ StartFastMove \/ FastMoveSkipsHandled \/ FastMoveCannotRead
            \/ FastMoveMoves \/ FastMoveMarks \/ FastMoveImpossible
            \/ FastMoveFails \/ FastMoveEnds

-----------------------------------------------------------------------------
(* TSubTaskScanDirectories::Exec, which always starts over *)

ScanUnchanged == UNCHANGED <<filesVars, handled, sub, stats, deleteAt, moveAt,
                             moving, kill, first, saveVars, agreed>>

StartScan ==
    /\ Starts("Scan")
    /\ complete' = FALSE /\ list' = <<>> /\ processed' = {}
    /\ pc' = "Scan" /\ at' = 1
    /\ ScanUnchanged /\ UNCHANGED <<state, declined, left>>

ScanSkipsHandled ==
    /\ pc = "Scan" /\ at \in handled
    /\ at' = at + 1
    /\ ScanUnchanged
    /\ UNCHANGED <<list, complete, processed, state, pc, declined, left>>

\* The kill event is looked at only after a directory.
ScanPath ==
    /\ pc = "Scan" /\ at \in Paths \ handled /\ PathExists
    /\ \/ /\ list' = list \o FilesUnder(at)
          /\ at' = at + 1
          /\ UNCHANGED <<state, pc>>
       \/ kill /\ list' = <<>> /\ Halt("Open") /\ UNCHANGED at
    /\ ScanUnchanged /\ UNCHANGED <<complete, processed, declined, left>>

ScanCannotRead ==
    /\ pc = "Scan" /\ at \in Paths \ handled
    /\ \/ Skips(~PathExists) /\ DeclineAll(at) /\ at' = at + 1 /\ UNCHANGED <<state, pc>>
       \/ Stopped /\ UNCHANGED <<declined, at>>
    /\ ScanUnchanged /\ UNCHANGED <<list, complete, processed>>

ScanEnds ==
    /\ pc = "Scan" /\ at \notin Paths
    /\ complete' = TRUE
    /\ pc' = "Next"
    /\ ScanUnchanged /\ UNCHANGED <<list, processed, state, at, declined, left>>

Scan == \/ StartScan \/ ScanSkipsHandled \/ ScanPath \/ ScanCannotRead \/ ScanEnds

-----------------------------------------------------------------------------
(* TSubTaskCopyMove::Exec *)

CopyUnchanged == UNCHANGED <<list, complete, handled, sub, deleteAt, moveAt,
                             moving, kill, saveVars>>

\* Statistics are initialised once; later the length of the list must match.
\* CheckForFreeSpaceFB may ask before the loop starts.
StartCopy ==
    /\ Starts("Copy")
    /\ ~stats.initialized \/ stats.total = Len(list)
    /\ stats' = [stats EXCEPT !.initialized = TRUE, !.total = Len(list)]
    /\ \/ /\ pc' = "Copy"
          /\ at' = stats.index
          /\ first' = [done |-> stats.done, silent |-> stats.silent]
          /\ UNCHANGED <<state, left>>
       \/ Stopped /\ UNCHANGED <<at, first>>
    /\ CopyUnchanged
    /\ UNCHANGED <<filesVars, processed, ghosts>>

CopyRefusesList ==
    /\ Starts("Copy")
    /\ stats.initialized /\ stats.total # Len(list)
    /\ Throw
    /\ CopyUnchanged
    /\ UNCHANGED <<filesVars, processed, stats, at, first, ghosts, left>>

File == list[at]

\* The statistics still speak of a file that the loop has passed over.
Stale == stats.done # 0 /\ at > stats.index

\* Faulty variant: the loop is left as if all files were done.
CopyKilledGoesOn ==
    /\ pc = "Copy" /\ kill
    /\ pc' = "Next"
    /\ CopyUnchanged
    /\ UNCHANGED <<filesVars, processed, stats, state, at, first, ghosts, left>>

\* Top of the loop; after its end the directories' attributes are set, which
\* also looks at the kill event.
CopyKilled ==
    /\ pc = "Copy" /\ kill
    /\ Stale => StaleStops
    /\ Halt("Open")
    /\ CopyUnchanged
    /\ UNCHANGED <<filesVars, processed, stats, at, first, ghosts, left>>

CopyGoesOn == pc = "Copy" /\ (kill => at > Len(list) \/ (Stale /\ ~StaleStops))

CopySkipsProcessed ==
    /\ CopyGoesOn /\ at <= Len(list) /\ File \in processed
    /\ at' = at + 1
    /\ CopyUnchanged
    /\ UNCHANGED <<filesVars, processed, stats, pc, state, first, ghosts, left>>

\* SetCurrentIndex and SetProcessedCount: a store may come before the sizes.
CopySetsIndex ==
    /\ CopyGoesOn /\ at <= Len(list) /\ File \notin processed
    /\ stats' = [stats EXCEPT !.index = at]
    /\ pc' = "Sizes"
    /\ CopyUnchanged
    /\ UNCHANGED <<filesVars, processed, state, at, first, ghosts, left>>

\* SetCurrentItemSizes and SetCurrentItemSilentResume.
CopySetsSizes ==
    /\ pc = "Sizes"
    /\ IF first.done > Size[File]
       THEN /\ stats' = [stats EXCEPT !.done = first.done]
            /\ Throw
            /\ UNCHANGED first
       ELSE /\ stats' = [stats EXCEPT !.done = first.done, !.silent = first.silent]
            /\ pc' = IF PathOf[File] \in handled THEN "Handled" ELSE "Open"
            /\ first' = [done |-> 0, silent |-> FALSE]
            /\ UNCHANGED state
    /\ CopyUnchanged
    /\ UNCHANGED <<filesVars, processed, at, ghosts, left>>

\* The path was moved as a whole: AdjustProcessedSizeForSkip, and it counts as
\* processed.
CopyHandled ==
    /\ pc = "Handled"
    /\ stats' = [stats EXCEPT !.done = Size[File]]
    /\ processed' = processed \cup {File}
    /\ pc' = "Copy" /\ at' = at + 1
    /\ CopyUnchanged
    /\ UNCHANGED <<filesVars, state, first, ghosts, left>>

\* The copying of a file returned SkipFile.
PassOver ==
    /\ Skips(File \notin src)
    /\ stats' = [stats EXCEPT !.done = Size[File]]
    /\ processed' = processed \ {File}
    /\ declined' = declined \cup ({File} \cap src)
    /\ pc' = "Copy" /\ at' = at + 1
    /\ UNCHANGED state

\* Faulty variant: a chunk counts as written when its write is issued.
StopsAheadWith(done) ==
    /\ stats' = [stats EXCEPT !.done = done + 1]
    /\ UNCHANGED <<processed, declined, at>>

\* Faulty variant: the last chunk is always written again.
StopsBehindWith(done) ==
    /\ stats' = [stats EXCEPT !.done = done - 1]
    /\ UNCHANGED <<processed, declined, at>>

\* The same for a stop, after the writer has put the destination's size into
\* the statistics, when it was running.
StopsWith(done) ==
    /\ stats' = [stats EXCEPT !.done = done]
    /\ UNCHANGED <<processed, declined, at>>

\* The reader's Start, or the opening of the destination, fails.
OpenFails ==
    /\ pc = "Open"
    /\ PassOver \/ (Stopped /\ StopsWith(stats.done))
    /\ CopyUnchanged /\ UNCHANGED <<filesVars, first, agreed>>

OpenUnchanged == CopyUnchanged /\ UNCHANGED <<src, first>>

WriteUnchanged == OpenUnchanged /\ UNCHANGED <<processed, at, declined, left>>

\* The rest of the writer's Start: the file will be written from seekTo on,
\* unless the truncation of an existing file fails.
StartWriting(content, seekTo) ==
    LET from == Minimum(seekTo, Size[File])
    IN  \/ /\ dst' = [dst EXCEPT ![File] = Truncated(content, from)]
           /\ stats' = [stats EXCEPT !.done = from, !.silent = TRUE]
           /\ pc' = "Write"
           /\ UNCHANGED <<state, processed, at, declined, left>>
        \/ /\ dst[File] # NoFile
           /\ PassOver \/ (Stopped /\ StopsWith(from))
           /\ UNCHANGED dst

CanOpen == pc = "Open" /\ File \in src

\* The sanity check: a fresh file while the statistics tell of written data.
OpenFresh ==
    /\ CanOpen /\ dst[File] = NoFile
    /\ IF stats.done = 0
       THEN StartWriting(<<>>, 0)
       ELSE /\ dst' = [dst EXCEPT ![File] = <<>>]
            /\ Throw
            /\ UNCHANGED <<stats, processed, at, declined, left>>
    /\ OpenUnchanged /\ UNCHANGED agreed

\* Faulty variant: the size is not compared.
SilentResumeOfAnything == stats.silent

\* The destination has exactly what the statistics say was written.
SilentResume ==
    /\ stats.silent
    /\ Len(dst[File]) = stats.done
    /\ Len(dst[File]) <= Size[File]

OpenExisting == CanOpen /\ dst[File] # NoFile

\* No question is asked about a file of size zero.
OpenResumes ==
    /\ OpenExisting
    /\ SilentResume \/ Len(dst[File]) = 0
    /\ StartWriting(dst[File], stats.done)
    /\ OpenUnchanged /\ UNCHANGED agreed

Asks == OpenExisting /\ ~SilentResume /\ Len(dst[File]) > 0

Agree == agreed' = agreed \cup {File}

\* Overwrite, or Rename: from now on the file has another, fresh destination.
OpenAnew ==
    /\ Asks
    /\ StartWriting(dst[File], 0)
    /\ Agree
    /\ OpenUnchanged

\* Only the right answer for a file that holds a part of the source.
OpenAppends ==
    /\ Asks
    /\ \A p \in 1..Len(dst[File]) : dst[File][p] = "data"
    /\ StartWriting(dst[File], Minimum(Len(dst[File]), Size[File]))
    /\ OpenUnchanged /\ UNCHANGED agreed

OpenDeclined ==
    /\ Asks
    /\ PassOver \/ (AnswersStop /\ StopsWith(stats.done))
    /\ CopyUnchanged /\ UNCHANGED <<filesVars, first, agreed>>

Open == \/ OpenFails \/ OpenFresh \/ OpenResumes \/ OpenAnew
        \/ OpenAppends \/ OpenDeclined

\* One chunk reaches the destination; OnWriteFinished accounts for it later.
WriteChunk ==
    /\ pc = "Write"
    /\ Len(dst[File]) = stats.done /\ stats.done < Size[File]
    /\ dst' = [dst EXCEPT ![File] = Append(@, "data")]
    /\ WriteUnchanged /\ UNCHANGED <<stats, pc, state, agreed>>

AccountChunk ==
    /\ pc = "Write"
    /\ Len(dst[File]) > stats.done
    /\ stats' = [stats EXCEPT !.done = @ + 1]
    /\ WriteUnchanged /\ UNCHANGED <<dst, pc, state, agreed>>

\* Faulty variant: off by one.
LastWrittenEarly == stats.done + 1 >= Size[File]

LastWritten == stats.done = Size[File]

\* The last buffer is written: ResetCurrentItemProcessedSize.
WriteEnds ==
    /\ pc = "Write" /\ LastWritten
    /\ stats' = [stats EXCEPT !.done = 0]
    /\ \/ pc' = "Copied" /\ UNCHANGED state
       \/ kill /\ Halt("Open")          \* the reader saw the kill event first
    /\ WriteUnchanged /\ UNCHANGED <<dst, agreed>>

\* UpdateCurrentItemStatsFromFileSize takes over the destination's size.
WriteStops ==
    /\ pc = "Write"
    /\ PassOver \/ (Stopped /\ StopsWith(Len(dst[File])))
    /\ CopyUnchanged /\ UNCHANGED <<filesVars, first, agreed>>

\* MarkAsProcessed(true).
CopyMarks ==
    /\ pc = "Copied"
    /\ processed' = processed \cup {File}
    /\ IF moving /\ DeleteAfterEach THEN pc' = "Drop" /\ UNCHANGED at
                                    ELSE pc' = "Copy" /\ at' = at + 1
    /\ CopyUnchanged
    /\ UNCHANGED <<filesVars, stats, state, first, ghosts, left>>

\* DeleteFileFB, whose result is not looked at.
CopyDrops ==
    /\ pc = "Drop"
    /\ \/ src' = src \ {File} /\ UNCHANGED left
       \/ Spend("skip") /\ UNCHANGED src
    /\ pc' = "Copy" /\ at' = at + 1
    /\ CopyUnchanged
    /\ UNCHANGED <<dst, processed, stats, state, first, ghosts>>

CopyEnds ==
    /\ CopyGoesOn /\ at > Len(list)
    /\ stats' = [stats EXCEPT !.index = at]
    /\ pc' = "Next"
    /\ CopyUnchanged
    /\ UNCHANGED <<filesVars, processed, state, at, first, ghosts, left>>

Copy == \/ StartCopy \/ CopyRefusesList \/ CopyKilled \/ CopySkipsProcessed \/ CopySetsIndex
        \/ CopySetsSizes \/ CopyHandled \/ Open \/ WriteChunk \/ AccountChunk
        \/ WriteEnds \/ WriteStops \/ CopyMarks \/ CopyDrops \/ CopyEnds

-----------------------------------------------------------------------------
(* TSubTaskDelete::Exec, from the last file of the list to the first *)

DeleteUnchanged == UNCHANGED <<dst, list, complete, processed, handled, sub,
                               stats, moveAt, moving, kill, first, saveVars,
                               ghosts>>

StartDelete ==
    /\ Starts("Delete")
    /\ pc' = "Delete" /\ at' = deleteAt
    /\ DeleteUnchanged /\ UNCHANGED <<src, deleteAt, state, left>>

Victim == list[Len(list) - at]

DeleteStep == pc = "Delete" /\ at < Len(list) /\ deleteAt' = at /\ DeleteUnchanged

DeleteKilled ==
    /\ DeleteStep
    /\ kill /\ Halt("Open")
    /\ UNCHANGED <<src, at, left>>

MayDelete == Victim \in processed /\ PathOf[Victim] \notin handled

\* Faulty variant: the index is not increased.
DeleteSkipsForever ==
    /\ DeleteStep
    /\ ~kill /\ ~MayDelete
    /\ UNCHANGED <<src, at, pc, state, left>>

DeleteSkips ==
    /\ DeleteStep
    /\ ~kill /\ ~MayDelete
    /\ at' = at + 1
    /\ UNCHANGED <<src, pc, state, left>>

DeleteFile ==
    /\ DeleteStep
    /\ ~kill /\ MayDelete
    /\ \/ src' = src \ {Victim} /\ at' = at + 1 /\ UNCHANGED <<pc, state, left>>
       \/ Spend("skip") /\ at' = at + 1 /\ UNCHANGED <<src, pc, state>>
       \/ Stopped /\ UNCHANGED <<src, at>>

DeleteEnds ==
    /\ pc = "Delete" /\ at >= Len(list)
    /\ deleteAt' = at
    /\ pc' = "Next"
    /\ DeleteUnchanged /\ UNCHANGED <<src, at, state, left>>

Delete == StartDelete \/ DeleteKilled \/ DeleteSkips \/ DeleteFile \/ DeleteEnds

-----------------------------------------------------------------------------
(* The user interface *)

Kill ==
    /\ pc # "None" /\ ~kill
    /\ Spend("kill")
    /\ kill' = TRUE
    /\ UNCHANGED <<filesVars, progress, moving, state, threadVars, saveVars,
                   ghosts>>

\* TTask::Store by the autosave timer, under the serializer mutex: what it
\* reads is read part by part while the thread goes on.
SaveUnchanged == UNCHANGED <<filesVars, progress, moving, state, kill,
                             threadVars, ghosts>>

SaveState ==
    /\ saving = "Idle"
    /\ SavesOverlap \/ pc = "None"
    /\ Spend("save")
    /\ gathered' = [saved EXCEPT !.state = state, !.handled = handled]
    /\ saving' = "Files"
    /\ SaveUnchanged /\ UNCHANGED saved

SaveFiles ==
    /\ saving = "Files"
    /\ gathered' = [gathered EXCEPT !.files = SavedList]
    /\ saving' = "Index"
    /\ SaveUnchanged /\ UNCHANGED <<saved, left>>

SaveIndex ==
    /\ saving = "Index"
    /\ gathered' = [gathered EXCEPT !.sub = sub]
    /\ saving' = "Stats"
    /\ SaveUnchanged /\ UNCHANGED <<saved, left>>

\* The statistics of the sub-tasks, and Flush: one transaction.
SaveStats ==
    /\ saving = "Stats"
    /\ saved' = [gathered EXCEPT !.stats = stats, !.deleteAt = deleteAt,
                                 !.moveAt = moveAt]
    /\ saving' = "Idle"
    /\ SaveUnchanged /\ UNCHANGED <<gathered, left>>

Save == SaveState \/ SaveFiles \/ SaveIndex \/ SaveStats

\* TTask::RestartProcessing on a task whose thread has ended; its own Store
\* waits for the mutex, and the incomplete list is not part of it.
Restart ==
    /\ pc = "None" /\ saving = "Idle"
    /\ Spend("restart")
    /\ state' = "Open" /\ kill' = FALSE
    /\ sub' = 1 /\ stats' = NewStats /\ deleteAt' = 0 /\ moveAt' = 1
    /\ handled' = {}
    /\ list' = <<>> /\ complete' = FALSE /\ processed' = {}
    /\ saved' = [state |-> "Open", handled |-> {}, files |-> saved.files,
                 sub |-> 1, stats |-> NewStats, deleteAt |-> 0, moveAt |-> 1]
    /\ declined' = {}
    /\ UNCHANGED <<filesVars, moving, threadVars, saving, gathered, agreed>>

\* The process dies and is started again: TTask::Load.  The operation type of
\* the context is taken from the sub-task array before that array is loaded.
Crash ==
    /\ Spend("crash")
    /\ state' = saved.state /\ handled' = saved.handled
    /\ list' = saved.files.list /\ processed' = saved.files.processed
    /\ complete' = (saved.files.list # <<>>)
    /\ sub' = saved.sub /\ stats' = saved.stats
    /\ deleteAt' = saved.deleteAt /\ moveAt' = saved.moveAt
    /\ moving' = FALSE
    /\ pc' = "None" /\ kill' = FALSE /\ saving' = "Idle"
    /\ UNCHANGED <<filesVars, at, first, saved, gathered, ghosts>>

-----------------------------------------------------------------------------
Thread == Begin \/ Finish \/ End \/ NextSubTask \/ FastMove \/ Scan \/ Copy \/ Delete

Next == Thread \/ Save \/ Kill \/ Restart \/ Crash

Spec == Init /\ [][Next]_vars

\* The task's thread keeps running, and a store that was begun ends.
FairSpec == Spec /\ WF_vars(Thread) /\ WF_vars(SaveFiles \/ SaveIndex \/ SaveStats)

-----------------------------------------------------------------------------
(* Properties *)

Checkpoints ==
    [state : {"Open", "Finished", "Cancelled"}, handled : SUBSET Paths,
     files : [list : Seq(Files), processed : SUBSET Files], sub : Nat,
     stats : [initialized : BOOLEAN, total : Nat, index : Nat, done : Nat,
              silent : BOOLEAN],
     deleteAt : Nat, moveAt : Nat]

\* Every part of the task's progress has its type, and a position in the list
\* of files is used only where the list has it.
TypeOK ==
    /\ src \subseteq Files
    /\ dst \in [Files -> Contents]
    /\ list \in Seq(Files) /\ complete \in BOOLEAN
    /\ processed \subseteq Files /\ handled \subseteq Paths
    /\ saved \in Checkpoints /\ gathered \in Checkpoints
    /\ Snapshot \in Checkpoints
    /\ moving \in BOOLEAN /\ kill \in BOOLEAN
    /\ saving \in {"Idle", "Files", "Index", "Stats"}
    /\ pc \in {"None", "Execute", "End", "Next", "FastMove", "Moved", "Scan",
               "Copy", "Sizes", "Handled", "Open", "Write", "Copied", "Drop",
               "Delete"}
    /\ pc \in {"Sizes", "Handled", "Open", "Write", "Copied", "Drop"}
          => at \in DOMAIN list

\* At no moment, crashes included, is a file neither in the source nor whole at
\* the destination: TSubTaskDelete and FastMove remove only what has arrived.
NoDataLost == \A i \in Files : i \in src \/ dst[i] = Whole(i)

\* A file that is marked as processed, in memory or in the database, has arrived
\* or belongs to a path that needs no further processing.
ProcessedIsWhole ==
    /\ \A i \in processed : dst[i] = Whole(i) \/ PathOf[i] \in handled
    /\ \A i \in saved.files.processed :
          dst[i] = Whole(i) \/ PathOf[i] \in saved.handled

\* ThrdProc reports Finished only when every file has arrived, except those that
\* the user chose to skip.
FinishedMeansCopied ==
    state = "Finished" => \A i \in Files : dst[i] = Whole(i) \/ i \in declined

\* A destination that existed before the task is changed only after the user
\* was asked about it.
KeepsUsersFiles ==
    [][\A i \in Files :
          dst[i] # NoFile /\ (\E p \in DOMAIN dst[i] : dst[i][p] = "other")
              /\ dst'[i] # dst[i] => i \in agreed']_vars

\* Once the thread of a task runs, it ends.
RunEnds == pc = "Execute" ~> pc = "None"
=============================================================================
