# Copy Handler: models and proofs of the copy engine

Copy Handler (`src/`) copies and moves files on Windows. Its engine, `src/src/libchengine`, runs every task on a thread of
its own, reads and writes each file with several asynchronous requests at a time, asks the user when something fails, saves
the progress of all tasks into a database and continues from there after a stop or a crash. This directory holds TLA+
modules of that engine, TLC configurations that check them on small instances, and TLAPS proofs of the main properties for
every instance. Paths below are relative to `src/src/libchengine` unless they start with `src/`.

## 1. Inventory

The rest of the repository is a Windows GUI (`src/src/ch`), a shell extension (`chext`), a serializer over SQLite
(`libserializer`), a logger (`liblogger`), translation tools, and vendored libraries (SQLite, boost wrappers, resources). The
engine holds the logic that can lose a file.

| Component | State it keeps | Operations | What makes it correct |
|---|---|---|---|
| Ordered buffer queue (`TOrderedBufferQueue`) | full buffers by position, one *error slot*, the position it expects next, the *error position* | `Push`, `Pop`, `PushError`, `PopError`, `ClearBuffers`; events "has buffers", "has error", "reading finished" | buffers leave in the order of the file, none twice, one failure at a time is shown to the user and the others are retried |
| Overlapped reader (`TOverlappedReaderFB`, `TReadBufferQueueWrapper`) | retry queue, next read position, position of the end of file, reads in flight | loop over events, issue of reads, completion routine, answers to failures | every chunk up to the end of file reaches the queue, whatever fails and in whatever order the reads complete |
| Overlapped writer (`TOverlappedWriterFB`, `TWriteBufferQueueWrapper`) | retry queue, queue of written buffers, writes in flight, "last buffer written" | the same for writes; accounting in the order of the file; finalising | a chunk counts as processed after it was written, once; success only when all were |
| Copy of one file (`TOverlappedReaderWriterFB::Process`) | local kill events, the result | start reader and writer, wait for both, stop the other one, check for lost buffers | it ends; success means a complete copy and a complete pool |
| Buffers (`TBufferList`, `TOverlappedMemoryPool`) | list of free buffers, expected count | get, return, resize between files | no buffer is lost, none is returned twice |
| Files with feedback (`TFilesystemFileFeedbackWrapper`, `TLocalFilesystemFile`) | handle, remembered answers | open, read, write, truncate, finalise, each with a retry loop around the user's answer | a failure is retried, skipped or stops the task as the user said |
| Reader and writer threads (`TOverlappedThreadPool`, `TThreadedQueueRunner`, `WaitableQueue`) | a queue of functions per thread, its event, a kill event, the thread | push, start, stop, pop and call | each function is called once, in order, and before a stop returns |
| Copy/move sub-task and statistics (`TSubTaskCopyMove`, `TSubTaskStatsInfo`) | index of the current file, its size and processed size, silent-resume flag | the loop over the files | a stopped copy continues where it was; a file is marked as processed only when it has arrived |
| Sub-task array and other sub-tasks (`TSubTasksArray`, `TSubTaskScanDirectories`, `TSubTaskFastMove`, `TSubTaskDelete`, `TFileInfoArray`, `TBasePathData`) | index of the current sub-task, list of files, per-file and per-path flags | scan, fast move, delete, store, load | a move never deletes what has not arrived; a task ends as finished only when all files were treated |
| Task and its thread (`TTask`, `TWorkerThreadController`) | task state, kill event, thread handle | begin, pause, cancel, restart, retry, store, load | state and thread agree; a stop ends; what is stored is consistent |
| Task manager (`TTaskManager`) | list of tasks, limit of running tasks, obsolete files | add, remove, start waiting tasks, autosave, load, exit | the limit is kept; a waiting task is started in the end |
| Feedback rules (`FeedbackManager`, `Feedback*Rule*`, `SerializableContainer`) | four lists of rules that answer questions, each entry with an id and a flag | match, ask, assign a whole list, reset, store, load | what is stored is the list that applies, in its order; a rule the user gave is not lost |
| Filesystem operations with feedback (`TFilesystemFeedbackWrapper`) | none | delete, fast move, file info, free space | as for files |
| Configuration, filters, sizes, speed | values | conversions | sequential; covered by unit tests |
| Serializer (`libserializer`) | rows, modification flags | gather, flush in one transaction | a flush stores a consistent snapshot |
| Logger (`liblogger`) | queues of lines | log, flush | no entry is lost |
| User interface, shell extension, command line (`src/src/ch`, `chext`) | windows, timers, the clipboard monitor's thread | create, import, commands for one task or all, timers, exit | what the user asked for is what the task does |
| Translation tools and strings | values | conversions | sequential; covered by unit tests |

**How the components interact.** Two threads call the task manager. The GUI thread does nearly everything: commands (pause, resume,
restart, cancel, remove), timers (autosave, start of waiting tasks, removal of finished ones), tasks that arrive from the shell
extension or the command line, the exit. The clipboard monitor, a thread of its own, creates and begins tasks too. `TTask::BeginProcessing`
starts the task's thread, `ThrdProc`, which calls `TSubTasksArray::Execute`; the sub-tasks run one after the other.
`TSubTaskCopyMove::CustomCopyFileFB` calls `TOverlappedReaderWriterFB::Process`, which hands the reader and the writer to
two threads of a pool and waits. Reader, writer and task thread share the pool's free list, the queue from the reader to the
writer, the statistics of the current file and the kill event of the task's thread controller. Completion routines run on the
thread that issued the request, but only while it is in an alertable wait. A failure becomes a question through the feedback
wrapper; the thread that asked waits for the answer. `TTask::Store` is called by the GUI's autosave timer while the task's
thread runs, and by that thread when it ends.

**Behaviours that are hard to test.** Requests complete, fail and are retried in any order; a failed read may have others behind
it; the end of file may be met by several reads, the highest one first; the reader ends while the writer has buffers and the
other way round; the writer empties the reader's queue under the running reader; a kill falls anywhere; an autosave reads the
parts of a task one after the other while they change; a crash falls between two of any steps, and the next run trusts what
was stored; the user's answer skips a file, whose size remains in the statistics. `PROJECT.json` lists each of these hazards
with its line.

## 2. Plan

| | Modules | Content | State |
|---|---|---|---|
| 1 | `OrderedBufferQueue`, `OverlappedCopy`, `FileCopy` and their proofs | the copy of one file, and what it promises | checked and proved |
| 2 | `SubTasks`, `SubTasksProofs` | one task: sub-tasks, statistics, flags, stops, saving, crash and restart | checked; types, safety and the action property proved |
| 3 | `TaskControl`, `TaskSlots`, `TaskControlProofs` | life cycle of tasks: manager, thread controller, commands, limit of running tasks, exit and next session; the limit as an abstract specification | checked; invariants and the safety of the limit proved |
| 4 | `TaskStorage`, `TaskStorageProofs` | what survives a session: flags, pending rows, transactions, crashes, tasks that cannot be loaded | checked; invariants proved |
| 5 | `QueueRunner`, `QueueRunnerProofs` | the threads that run reader and writer: queue, start, stop, restart | checked; invariants proved |
| 6 | `FeedbackRules`, `FeedbackRulesProofs` | the rules that answer questions: asked, edited and reset while they are stored, through failing flushes and crashes | checked; invariants proved |

`OverlappedCopy` extends `OrderedBufferQueue` and uses it twice (the reader's and the writer's queue). The other modules are layers:
each contains the one below as a few coarse steps. `SubTasks` has the copy of one file as a write in flight, a stop, a kill, and relies
on what is proved of `OverlappedCopy`: success means that the file is complete, and accounting follows writing. `TaskControl` has a
run of `SubTasks` as the steps of a thread: it scans, waits for the limit, works, stores, ends. `TaskStorage` has the content of a task
as a number that grows; which parts a store reads, and in which order, is in `SubTasks`. `QueueRunner` is what `OverlappedCopy` takes for granted: that
the functions of reader and writer run, once each, and not before those of the file before. `FeedbackRules` is the detail of one of the tables that `TaskStorage` has as a
number, and shares with it only the way a failing flush keeps pending rows.

Left to prove: the safety of `SubTasks` in sessions with both an overlapping store and a crash, without skips and restarts (what `task_saves` checks). A store that overlaps gathers its
parts from different moments, so `SavedKept` would have to say of each part which later ones it may be combined with.

## 3. The modules

### OrderedBufferQueue

Operators on one queue, a record of `buffers` (positions that are full), `error` (the error slot: at most one position),
`expected` (the position the next `Pop` yields) and `errorPosition`. A position is counted in chunks, so that "expected plus
the length of the buffer" becomes "expected + 1". `PushError` shows why the slot is delicate: a failure at a lower position
displaces the one that is there, which goes to the retry queue; one at a higher position goes to the retry queue itself.
`ClearBuffers` forgets the error position only when a
buffer is in the slot, and leaves the reading-finished event set, as the code does.

### OverlappedCopy

One `Process` call from the moment reader and writer are queued. A buffer is named by the position it was last given, so that
each place a buffer can be in is a set of positions; free buffers are only counted.

| Variable | Code |
|---|---|
| `emptyBuffers` | `TBufferList` of the memory pool |
| `fullBuffers`, `finishedBuffers` | queue from reader to writer; queue of written buffers |
| `readRetry`, `writeRetry` | `m_tRetryBuffers` of the two wrappers |
| `reading`, `writing` | requests in flight (`m_counterOnTheFly` and the buffers themselves) |
| `leakedReads` | reads the counter still counts although their buffer is gone |
| `readPossible`, `writePossible` | the wrappers' auto-reset events |
| `nextReadPosition`, `dataSourceFinishedPos` | fields of `TReadBufferQueueWrapper` |
| `readerPc`, `writerPc`, `processPc` | where each of the three threads is |
| `readerKill`, `writerKill`, `killed` | the local kill events and the task's |
| `dst`, `dstSize`, `knownSize`, `processed` | destination (chunks and length), total and processed size in the statistics |

The reader's actions are the branches of its event loop in the order of its handle list (`ReaderKilled`, `ReadFailedSignalled` and
`HandleReadFailed`, `ReadPossibleSignalled` variants, `ReaderFinished`), the completion routine (`ReadCompletes`, `ReadFails`,
`ReadCompletesFailed`, `ReadCompletionThrows`) and the final wait (`ReaderDrained`). The writer has the same shape; `WriteAccounted`,
`WriteSizeMismatch` and `FinalizeFails` are the three outcomes of `OnWriteFinished`. `ReaderDoneSeen`, `WriterDoneSeen`, `ReaderStopped` and
`WriterStopped` are `Process`.

Decisions worth knowing:

- The return of a wait and the handler it selects are one step, except for a failed read, where the writer can act in between
  and the code notices the difference.
- A completion routine may run at any moment its thread is in an alertable wait (the loop and the final wait).
- `CancelIo` aborts requests in flight; an aborted request is a failed one, does not count against `MaxFaults`, and is possible
  only after it.
- The user's answer comes with the handler. A kill that arrives while a question is open is the kill that arrived just before
  the attempt. `Retry` of a request that could not be issued changes no state.
- A read that meets the end of file at once (`ReadFileEx` fails with `ERROR_HANDLE_EOF`) is an issue followed by its completion.
- The source's data ends at `SourceChunks`; the last read is short (`LastChunk = SourceChunks - 1`) or empty
  (`LastChunk = SourceChunks`). The source does not shrink below the position where the copy starts; it may be longer or
  shorter than what `Start` saw (`KnownSizes`).
- Left out: rounding to sectors of unbuffered files and the final truncation that removes it, timing of progress updates,
  logging.
- Where a comment and the code differ on the order in which events are looked at (`TOverlappedReaderFB.cpp:96-101`,
  `TOverlappedReaderWriterFB.cpp:72-78`), the model follows the array of handles.

### FileCopy

What the copy of one file promises, without threads: chunks are stored in any order, accounted for one by one once stored and
never stored again; complete only when all are accounted for; it may stop at any moment before. `OverlappedCopy` implements it
(`ImplementsFileCopy`) under the mapping `stored` = `dst`, `accounted` = the position the writer's finished queue expects, cut at the length
of the source, `outcome` = the result of `Process`.

### SubTasks

One task. Files are numbered in the order of the scan; a destination's content is a sequence of "data", "other" and "zero" chunks,
so that a hole and a file of the user's are visible.

| Variable | Code |
|---|---|
| `src`, `dst` | the file system |
| `list`, `complete`, `processed` | `TFileInfoArray`, `m_bComplete`, `eFlag_Processed` |
| `handled` | `m_bSkipFurtherProcessing` of each source path |
| `sub`, `stats`, `deleteAt`, `moveAt` | current sub-task; statistics and index of each sub-task |
| `moving` | operation type in the sub-task context |
| `state`, `kill` | task state, kill event |
| `pc`, `at`, `first` | the thread: place, loop index, `ullCurrentItemProcessedSize` and `bCurrentFileSilentResume` |
| `saved`, `saving`, `gathered` | the database; how far a store has got; what it has gathered |
| `declined`, `agreed` | history, for the properties: files the user skipped, destinations he gave up |

`FastMove`, `Scan`, `Copy` and `Delete` are the four `Exec` functions, one action per step that another thread, a store or a crash can see.
`Begin`, `Finish`, `NextSubTask` and `End` are `ThrdProc` and `TSubTasksArray::Execute`. `SaveState` to `SaveStats` are one `TTask::Store` of the
autosave timer, in the order in which it reads the parts; the serializer writes them in one transaction. `Restart` is
`RestartProcessing`, `Crash` is the death of the process followed by `TTask::Load`.

Decisions worth knowing:

- `Halt` with state "Open" stands for every state from which the task can go on (killed, paused, error); `Throw` is an exception
  that `ThrdProc` catches, after which nothing is stored.
- `FastMoveFB` answered with Skip makes `Execute` return `SkipFile`, for which `ThrdProc` has no case (`TTask.cpp:651`): `Throw`.
- After a crash `moving` is FALSE, because `TTask::Load` asks the sub-task array for the operation type (`TTask.cpp:177`) before loading
  it (`:179`): files are then not deleted in place.
- The user answers "continue after what is there" only for a destination that holds a part of the source; no other answer
  is assumed to be sensible.
- A crash ends the process, not the operating system: what was written to a file stays.
- A retry is no step; "Retry" while the thread is to be killed is a stop.
- Left out: directories, filters, only-create copies, totals of the progress display, attributes, the special case of a rest
  smaller than a sector, and more than one write in flight (`OverlappedCopy` has them).

### TaskControl and TaskSlots

The life of tasks in the program. Three kinds of processes: the thread of each task, the GUI thread, the clipboard monitor.

| Variable | Code |
|---|---|
| `listed`, `fresh` | `TTaskManager::m_tTasks`; tasks that do not exist yet |
| `state` | `TTaskBaseData::m_eCurrentState` |
| `pc` | place in `TTask::ThrdProc`; "none" and "ended": `TWorkerThreadController` has no handle, or that of a thread that has ended |
| `running` | `TTaskLocalStatsInfo::m_bTaskIsRunning` |
| `kill` | `m_hKillThread` is signalled |
| `cont`, `force` | `m_bContinue`, `m_bForce` |
| `slot` | history: tasks that were let in on the limit's account |
| `op`, `step`, `todo`, `left`, `locked` | what the GUI thread is doing, how far it is, for which tasks, `stTasksToRun`, whether it holds the manager's lock |
| `monitor` | the task the clipboard monitor adds, and whether it holds that task's `m_lock` in `BeginProcessing` |
| `mistimed` | history: tasks that a resume or a retry came for at the wrong moment, until their thread is stopped |

A thread's steps are `ThrdProc`: `ThreadBegins`, `StartsToWait` or `NeedsNoWait`, `CanBegin`, `WaitEnds`, then `Completes`, `Breaks`,
`Killed` or `Throws`, `Stores`, `ThreadEnds`. A command is a sequence of steps for each task it is for, in the order of the list (`RemoveAllFinished`:
backwards), because the threads run between them: `Decides` and `PassesOver` read the state, `RetryLooksAtThread` reads `IsRunning` later,
`StopThread` sets the kill event, `AwaitThread` waits, `EndsPausedOrCancelled`, `RestartProcessing` and `RemoveTask` act after it.
`ResumeWaitingTasks` is the 100 ms timer: it counts, then `SetContinueFlag` walks the list. `CommandLine` and `ImportTask` are the program
started once more with a command line: the running instance retries all tasks, whatever they are doing (`RetryProcessing`, `RetryLooksAtThread`, `RetryBegins`). `BeginProcessing` starts the
thread; when `StartThread` refuses because the thread is still there, the exception ends the command, and the tasks it had still to come to are left alone.
`PrepareToExit` signals all threads and `Exits` waits for each; `NextSession` loads the tasks, any of which may fail to load, and retries them.

Decisions worth knowing:

- A task's sub-tasks are one step that ends in any of the results `Execute` has. A store is a step that may throw.
- `Limit = 0` is no limit. A forced task, and one that has nothing left to do after the fast move, work without a slot.
- A resume and the retry after a command line do not stop the thread first, and nothing makes them wait for it. A resume finds the state Paused while
  the thread that was paused by the user's answer still stores: it sets Processing and is refused. The retry reads the state and then `IsRunning`, and begins with what
  it has read. `mistimed` records the tasks this happened to: a resume that was refused, a retry that went on although the thread was there or the task was
  no longer active. See "Also seen".
- `PromptWake`: a task that was given the continue flag wakes (it sleeps 50 ms) before the next timer (100 ms).
- `EarlyCommands`: commands reach a task that the monitor has listed and not begun yet.
- Left out: changes of the priority and of the configuration, statistics, a store that fails inside `RestartProcessing`.

`TaskSlots` is what the limit promises, without threads, flags or timers: a waiting task is let in while fewer than `Limit` tasks hold a slot, or
stops waiting without one; a slot is held until the work ends; nobody waits for ever. `TaskControl` implements it (`ImplementsTaskSlots`)
with `waiting` = the threads that sleep in `CheckForWaitState`, `holding` = the tasks of `slot` that are past it and work.

### TaskStorage

What is in memory, on its way, and on the disk, for the manager's database (`tasks.sqlite`) and one database per task.

| Variable | Code |
|---|---|
| `disk` | committed tables `tasks` and `obsolete_tasks`; task databases that exist, and the content of each |
| `listed`, `newEntries`, `goneEntries` | `TTaskInfoContainer`: entries, `eMod_Added`, `m_setRemovedTasks` |
| `obsolete`, `newObsolete`, `goneObsolete` | `TObsoleteFiles`, likewise |
| `rows` | pending rows of the manager's `TSQLiteSerializer` |
| `obj` | of each task: content, modification flags (`change`), pending row (`row`) and its content (`sent`) |
| `loadError`, `unloaded`, `fake` | state LoadError; could not be loaded in this session; has a `TFakeFileSerializer` |
| `storer` | who holds `TTask::m_mutexSerializer` |
| `gathering` | tasks whose row has been copied while their flags are not reset yet |
| `marking` | tasks whose thread has set the flag of a file and not written its value yet |
| `overtaken` | history: tasks whose flag was last reset in spite of a change that the store had not copied |
| `save` | how far `TTaskManager::Store` is, and its `bForce` |
| `maker` | a `CreateTask` in progress, by the GUI or the clipboard monitor |
| `used`, `dropped` | history: names ever used, tasks removed by the user |

A store gathers and flushes later. The store of the user interface gathers in two steps: `SaveCopies` turns flags into rows (`Copied` merges them like `GetRow`), `FlagsReset`
resets the flags, of whatever is flagged by then. Most of a task changes under the lock that both hold (`LockedChange`). The marks of files do not:
`MarkAsProcessed` sets the flag (`Modify()`), `MarkIsWritten` writes the value, and either may come between the two steps of a store. The thread's own store
(`ThreadGathers`) and the creation of a task cannot meet a mark and gather in one. A flush succeeds (`Flushed`) or throws (`NotFlushed`).
`TTaskManager::Store` is `StoreList`; per task `SkipsTask`, `TaskStoreThrows`, or `StoresTask`, `SaveResets` and `FlushesTask`;
then `StoreObsolete`, `FlushesManager` or `ManagerFlushThrows`. `Crash` may come anywhere; `Load` deletes what obsolete files it can, then
opens the databases of the listed tasks, any of which may fail in either of two ways.

Decisions worth knowing:

- A task's tables are one row: a flush of a task is one transaction, and all rows of a task are flagged, gathered and flushed alike.
- The flags of a file are a bitset that both threads read, change and write back without a lock. The model lets every change of it take effect; that the thread's write undoes the
  store's reset, so that a row is flagged as new again and a later insert fails, is not modelled.
- The file of a removed task that had a fake serializer is deleted at once or, when that fails, becomes obsolete like the others (`FileGoes`).
- Flushes fail at most `MaxFaults` times for outside reasons; they fail always when a row to insert exists or a row to update does not.
- An exit whose store throws is a crash: `OnClose` shows a message and closes the program anyway.
- The user may pause a task that could not be loaded (`PauseUnloaded`), after which it is stored like any other, and its store throws: see "Also seen". What is stated of stores and of
  their end is therefore stated of tasks that were loaded.
- Names are never used twice (they are random). Left out: the tasks' log files among the obsolete ones, recreation of a damaged `tasks.sqlite`,
  columns and SQL.

### QueueRunner

The thread that runs the reader's functions, or the writer's: `TThreadedQueueRunner` with its `WaitableQueue`. The owner is the task's thread.

| Variable | Code |
|---|---|
| `queue`, `hasEntries` | `WaitableQueue`: `m_queue`, `m_eventHasEntries` |
| `kill` | `m_eventLocalKill` |
| `joinable`, `thread` | `m_thread`, and where that thread is in `ThreadProc` |
| `func` | the function that `PopFront` has returned |
| `owner` | where the owner is: between `PushBack` and `Start`, inside `Start` or `Stop` |
| `pushed`, `calls` | history: functions pushed; functions called, in this order |

`PushTask` is `PushBack` followed by `PushTaskStarts`, and by `ResetsKill` and `CreatesThread` when there is no thread; `Start` may also be called alone. `Stop` sets the
kill event and `Joins` a thread that there is. The thread waits for the queue's event and the kill event, in this order of priority (`QueueSignalled`,
`KillSignalled`), pops (`PopFront`), calls (`FunctionReturns`), and sets the kill event when it ends (`ThreadEnds`, the `TEventGuard`).

Decisions worth knowing: a function returns (that is `Terminates` of `OverlappedCopy`), and throws nothing (`CompletionsNeverThrow`); one runner stands for the two of
`TOverlappedThreadPool`, which share nothing; only the owner pushes and stops, as in the code. Left out: the priority of the thread.

### FeedbackRules

The rules of one task and their table in the task's database.

| Variable | Code |
|---|---|
| `entries`, `lastId`, `removed` | `SerializableContainer`: `m_vEntries` with id and `eMod_Added`, `m_oidLastObjectID`, `m_setRemovedObjects` |
| `rows`, `deletions` | pending rows of the serializer's container, and its `m_setDeleteItems` |
| `storing` | a store has gathered and not flushed yet |
| `disk` | the committed table: id to rule |
| `asking` | of each thread that asks: where it is in `FeedbackManager::FileError`, its question, `modRules` |
| `editor` | the rule editor of the status window, and the copy it has |

A question that no rule answers goes through `FindsNoRule`, `CopiesRules` and `Answers`, between which the lock is free: the answer may add a rule (`Merged`: the rule with this
condition is replaced, a new one comes first), edit the list like the editor (`Edited`), or leave it as it was - the copy is assigned in every case. `SetRules` and `CancelsEditor` end
the editor, `RestoreDefaults` is "Reset automatic responses". `Assign` is `SerializableContainer::operator=`: all entries are removed, and all of the new
list are added with new ids. `Gathers`, `Flushes` and `FlushThrows` are a store; `Crash` and `Load` as in `TaskStorage`.

Decisions worth knowing: one list stands for the four, whose containers and functions are alike; a rule has one condition, a question or "any", because
what matters is which rule comes first; rules read from the database come in the order of their ids (`ORDER BY id`). Left out: the conditions by mask,
date and size, rules in the global configuration, the time a question is suspended.

Operators marked "Faulty variant" in the modules are wrong versions of the operator next to them; no specification uses
them. They serve to confirm that each property notices the corresponding mistake in the code.

## 4. What the runs check

| Run | Configuration | Checks | Distinct states |
|---|---|---|---|
| `copy_safety` | `OverlappedCopy_safety.cfg` | types, positions, buffers, end of file, success, error slot, wake-ups, pushes, read-ahead limit, refinement of `FileCopy` | 2,486,129 |
| `copy_live` | `OverlappedCopy_live.cfg` | `Terminates` under `FairSpec`, no exception in a completion routine, no deadlock | 280,339 |
| `task_saves` | `SubTasks_saves.cfg` | a move with stop, crash and overlapping autosave: types, `NoDataLost`, `ProcessedIsWhole`, `KeepsUsersFiles`, `RunEnds` | 546,418 |
| `task_skips` | `SubTasks_skips.cfg` | a move with skips, stop, kill and restart: `FinishedMeansCopied` | 883,731 |
| `task_control` | `TaskControl_control.cfg` | state, thread and kill event agree (`StoppedTaskDoesNoWork`, `RemovedTaskHasNoThread`, `KillHasStopper`, `ActiveStateHasThread`), a thread is refused only to a resume that comes too early and to the retry of a command line (`StartRefusedOnlyLate`), commands return, refinement of `TaskSlots` | 515,361 |
| `task_storage` | `TaskStorage_storage.cfg` | nothing is forgotten but a mark that a store overtook, stores can succeed, what a crash leaves can be loaded, no listed task's database is deleted, everything is stored in the end | 974,293 |
| `queue_runner` | `QueueRunner_runner.cfg` | functions are called once, in order and before a stop returns; `PopFront` never throws; each is called, and a stop returns, in the end (`NothingHangs`) | 931 |
| `feedback_rules` | `FeedbackRules_rules.cfg` | what a store leaves in the database is the list that applies; the rules are stored in the end, whichever stores fail | 124,256 |
| `late_read_failure`, `resume_hole`, `stale_skip`, `lost_scan` | | each shows one of the findings below | |

**Bounds of the copy.** `copy_safety` has five buffers, three reads and two writes in flight (the program's defaults for the concurrency,
`TTaskConfiguration.h:123-124`), a read-ahead of two and four chunks of data: enough for a failed read with two behind it, one of which
displaces it from the error slot, for two reads behind the end of file, for writes that complete in the wrong order, and for a
read-ahead limit that binds before the pool is empty. Two failures (`MaxFaults`) let one failure displace another or follow a retry; a
kill adds any number of aborted requests. Files that are resumed at the start, in the middle and at the end, with a last read that is short
(`copy_safety`) or empty (`copy_live`), and a known size
that is right, too small or too large. A skip stands for all answers that stop (`StopAnswers`); they differ only in the result.
`MaxFaults` is the only bound on behaviour; positions are bounded because the pool is.

**Bounds of the task.** Two files of one and two chunks, each under its own source path, with destinations that are missing or hold one
foreign chunk. Each kind of event is limited (`MaxKills`, `MaxCrashes`, `MaxSaves`, `MaxRestarts`, `MaxSkips`, `MaxStops`), because only their
combinations matter: a stop before a crash, an autosave over any step, a skip before a stop. Both orders of scan and fast move and
both kinds of deletion occur. The program's default is `DeleteAfterEach = FALSE` with the fast move first, that is `task_saves`.

**What the two task runs leave out, and why.** Each exclusion is a defect the model shows; without it the properties fail.

- `StaleStops = FALSE`: a stop right after a file was passed over, while the statistics still hold its size. With it, `NoDataLost` fails:
  finding `stale_skip`.
- `SavesOverlap = FALSE` in `task_skips`: an autosave that overlaps the thread. With it, `FinishedMeansCopied` fails: finding `lost_scan`. After a
  restart the same race can store the old list with its old marks. `task_saves` has the overlap, without skips and with one crash, and shows that no data is lost by it.
- No crash in `task_skips`: after "overwrite" the destination is truncated to nothing; a crash before the next store leaves the old
  processed size in the database, and the next run continues the empty file there without a question
  (`TOverlappedWriterFB.cpp:270-292`). It is the second half of `stale_skip`, reached in another way. It takes a first crash, or a stop, that leaves the size and the
  file apart; one crash alone, with any skips, stops and kills, is harmless, which section 5 proves. `task_saves` has a crash, without skips and stops.
- `MaxCrashes = 1` and no restart before the crash: see "Also seen".

**Bounds of the life cycle.** `task_control`: two tasks, one of them loaded in any state that an exit can leave, the other created by the
shell extension, imported, or added by the clipboard monitor; one slot, so that they compete; two commands, so that one can meet what the other
left behind (pause then resume, cancel then remove, two restarts, a command line and a resume); a second command line and an exit are commands too; one exit
and the session after it. A third command or a third task adds no new pair of racing steps: a command works on one task at a time, and the only thing tasks share is
the limit.

**Bounds of the storage.** `task_storage`: two tasks (one store has one before and one behind it), two changes of one of them after its creation (`MaxValue`, `MaxBusy`), so
that a mark that was overtaken can be followed by one that is stored; two failures of flushes, of opening or of deleting a file in any combination, two sessions after the first,
separated by exits or crashes. A mark, its two steps included, falls between any two steps of a store; so do locked changes outside of the gathering, the
removal and the creation of tasks.

**Bounds of the small ones.** `queue_runner`: six functions and three stops, with a start before or after a push each time: a stop with several functions waiting, one without
a thread, one before the thread has looked at anything, and a restart after each. `feedback_rules`: one thread that asks and the editor (two that take copies and write them
back), two questions, two results, lists of up to two rules, among which one that answers everything, in any order; two assignments, one failing flush and one crash, with resets and stores
at any moment: a list that is assigned while another is gathered, after its flush has failed, and after it was loaded.

**What `task_control` leaves out, and why.** `PromptWake = TRUE`, `EarlyCommands = FALSE`, and no waiting task among the loaded ones: with
each of them the other way TLC finds a property violated; "Also seen" says how.

`CHECK_DEADLOCK FALSE` is used where the system may really stop: in `copy_safety` a leaked read (finding `late_read_failure`) leaves the reader in
its final wait for ever, and a read-ahead limit below the size of the pool does the same (below); a finished task in
`SubTasks` has nothing more to do; with its commands and sessions used up, `TaskControl` rests, and so do `TaskStorage` and `FeedbackRules` that ended for the last time, and a
`QueueRunner` whose owner has nothing more to push.
`copy_live` has none of these and is checked for deadlock.

**Fairness.** `OverlappedCopy`: weak fairness of the steps of each of the three threads and of the completions of reads and of writes: the
operating system runs a thread that can run, and ends every request. `~crashed` stops all of them once an exception has left a
thread function, which ends the program. Nothing is assumed of the kill, of failures, of answers. `SubTasks`: weak fairness of the
task's thread and of the steps that follow the begin of a store, because the thread's last store waits for it. Kills, saves, crashes and
restarts may never happen. `TaskControl`: weak fairness of each task's thread, of each step of a command once begun, of the 100 ms timer, of the
clipboard monitor between listing a task and starting it, and of the start of the next session; commands, exits and new tasks may never
come. `Breaks` or `Completes` end the work: a thread that works is assumed to get to an end, which `Terminates` and `RunEnds` show for the layers
below. `TaskStorage`: weak fairness of the autosave timer and the steps of its store, of the flush of a thread that has gathered, of the creation
of a task; `EverythingIsStored` demands nothing of a session that ends, of a task that is removed, of one with an overtaken mark until its row is stored again, or of what
a store does not reach any more because a task that could not be loaded was paused and makes it throw. `FeedbackRules`: weak fairness of
the autosave's two steps; `RulesAreStored` demands nothing of rules that change again or a session that ends. `QueueRunner`: weak fairness of the runner's thread and of an owner inside a
call; whether the owner calls at all is left open.

### Findings

1. **late_read_failure** - Two reads behind the end of file that are aborted or fail make `TReadBufferQueueWrapper::Push` throw inside the
   completion routine (`TReadBufferQueueWrapper.cpp:77`), before the in-flight counter is decreased (`TOverlappedReaderFB.cpp:244`). Three
   concurrent reads, the default, are enough; with two it cannot happen (`copy_live` on a small instance, theorem `CompletionsCorrect` for all).
2. **resume_hole** - A stopped copy takes the destination's length as the processed size (`TOverlappedWriterFB.cpp:400`). With two writes
   in flight the lower one may be missing, and the resumed copy starts behind the hole. With one write in flight TLC finds no such state.
3. **stale_skip** - A skip followed by a stop leaves the size of the skipped file as the place to resume the next one; two runs later that
   file has a hole, counts as processed, and a move deletes its source.
4. **lost_scan** - An autosave that overlaps the end of the scan stores no list but an index behind the scan; after a crash the task
   ends as finished without having copied.

Also seen, while modelling or with other values of the constants:

- Two crashes (`MaxCrashes = 2`) lose data with nothing else going wrong. A task that was stopped inside a file is continued and dies before its next store: the database still has the
  old processed size. The next run finds more in the destination than that, asks, the answer "overwrite" truncates it to nothing (`TOverlappedWriterFB.cpp:327`), and the process dies again.
  The third run continues the empty file at the stored size without a question; the gap is zeros, the file counts as processed, and a move deletes its source.
- An overlapping autosave, a skip and a crash: `SetCurrentIndex` has moved on to the next file and the processed size is still that of the skipped one
  when the statistics are stored; the continued task resumes the next file at that size. The same with a path that the fast move has taken, when the scan comes before it.
- A restart and a crash: `TFileInfoArray::Store` leaves the rows of the old list alone until the new scan is complete, while the flags of the paths are stored as reset.
  `ProcessedIsWhole` fails in the database; without an overlapping store it does no harm, because the task begins with the scan again.
- A read-ahead limit (`MaxReadAhead`) below the number of buffers can stop the copy for ever, because full
  buffers behind a failed position use up the limit its retry needs (defaults are equal, 10 and 10). A source that has grown makes
  the last update of the statistics throw outside the writer's `try` (`TOverlappedWriterFB.cpp:430`).
- The writer's clean-up (`TWriteBufferQueueWrapper.cpp:91`) empties the error slot between the reader's wait and `PopError`; `OnReadFailed` then throws
  "Cannot retrieve failed read buffer" (`TOverlappedReaderFB.cpp:270`) and the reader reports an error instead of the kill.
- A second instance of the program with a command line makes the first one retry all tasks (`src/src/ch/MainWnd.cpp:570`). "retry used to
  auto-resume, after loading" (`TTask.cpp:316`) is then used on running tasks: one that scans in state None or Error makes `StartThread` throw, and the tasks
  behind it are not retried; one that finishes, pauses or is cancelled between the test of its state and that of `IsRunning` is started again, and
  shows Paused or Finished while it scans. `StartRefusedOnlyLate` and `StoppedTaskDoesNoWork` allow for it.
- Resume for a task whose thread, stopped by the user's answer, still stores (`TTask.cpp:303-310`) sets the state and then throws: the task shows Processing without a thread. A second
  Resume does nothing; a pause and then a resume, a restart, or the next session do help. `ActiveStateHasThread` excludes these tasks by name (`mistimed`).
- `TFileInfo::MarkAsProcessed` sets the flag before it writes the value and takes no lock (`TFileInfo.cpp:149-155`); `TFileInfo::Store` copies the value and then resets the
  flags (`:262-289`). A mark in between is stored by no later store, an exit's included, unless that file's row changes again. "ensure everything is stored so that we can
  resume processing in the future" (`TTaskManager.cpp:151`) does not hold for it: after the next start the file is copied again, or a move leaves its source behind. No data is
  lost by it. `NothingForgotten` says that there is no other way.
- `PromptWake = FALSE`: a task that has its continue flag and has not noticed is not counted by the next timer, which lets another one in.
- `EarlyCommands = TRUE`: a command for a task that the clipboard monitor is just adding. If the monitor is inside `BeginProcessing` (holds `m_lock`) and the GUI waits in
  `StopThread` for a thread that needs `m_lock`, everyone waits for ever; a cancel and a removal before the begin let the monitor start a task that is no longer listed.
- A waiting task among the loaded ones (an autosave stored it before a crash): it is in that state while it scans. `ResumeWaitingTasks` gives it the continue flag
  then and does not count it (`TTaskManager.cpp:256`, `:420`), the next timer lets another task in, and both work: `ImplementsTaskSlots` fails with `LoadedStates = {"Waiting"}`.
- Pausing, cancelling or restarting a task that could not be loaded replaces LoadError (`TTask.cpp:375` excludes only finished and cancelled tasks), and `TTask::Store`, which leaves
  tasks with that state alone (`TTask.cpp:222`), begins to store it: with a `TFakeFileSerializer` it throws, with a damaged database it inserts rows that exist. With it fails
  the store of all tasks behind it and of the list, in every autosave (`TTaskManager.cpp:461-465`). Resumed, such a task runs no sub-tasks and ends as Finished.
- `FeedbackManager` and the rule editor write whole copies back (`FeedbackManager.cpp:82`, `src/src/ch/StatusDlg.cpp:426`): when the reader and the writer ask at the same time, or rules are
  edited or reset while a question is open, the last to write undoes the other's change, also when it was answered without a rule. The menu entry "Retry when the same
  error is encountered again" (`src/src/ch/ch.rc:1031`) adds no rule (`src/src/ch/FeedbackFileErrorDlg.cpp:118`).
- Pause and cancel overwrite Finished when the thread ends while `KillThread` waits for it (`TTask.cpp:375-379`).
- A crash between the first store of a new task and the next store of the list leaves a database that nobody lists or deletes. A task with a fake serializer
  that is removed loses its file before its entry.

## 5. What is proved

**The copy of a file.** The theorems are about `Spec` of `OverlappedCopy` for every value of its constants that satisfies the four assumptions: at least one buffer,
one concurrent read and write and one buffer of read-ahead (`PoolAssumption`); a source whose last read is short or empty (`FileAssumption`);
a copy that starts inside the source (`ResumeAssumption`); failures anywhere and any number of them (`FaultAssumption`). The size of the
pool, the file and the concurrency are arbitrary.

| Theorem | Module | States |
|---|---|---|
| `TypeCorrect` | `OverlappedCopyProofs` | `TypeOK` |
| `PositionsCorrect` | | `NoPositionLostOrDoubled` |
| `PushesCorrect` | | `PushesNeverThrow` |
| `BuffersCorrect` | | `BuffersConserved` |
| `SuccessCorrect` | `OverlappedCopyOutcome` | `SuccessMeansComplete` |
| `EndOfFileCorrect` | | `ReaderFinishesAfterEndOfFile` |
| `CopyImplementsFileCopy` | | `ImplementsFileCopy` |
| `ReadAheadCorrect` | | `ReadAheadBounded` |
| `OwnerCorrect` | | `ErrorPositionHasOwner` |
| `WakeUpsCorrect` | | `NoLostWakeUp` |
| `CompletionsCorrect` | | `CompletionsNeverThrow`, if at most two reads are in flight and the source is not longer than its known size |

`OrderedBufferQueueProofs` holds lemmas on the queue's operators: what each does to the set of positions it holds, that a queue
stays a queue, that its error slot has at most one element.

The argument:

1. *Types* (`TypeInv`): `TypeOK`, and the places are finite sets, so that their cardinalities are numbers.
2. *Places* (`ReaderPlacesInv`, `WriterPlacesInv`): a thread's four places are always disjoint, and lie in the range of positions that were handed
   out. The property demands the equality with that range only while both loops run; it is not inductive alone, because a thread
   that has left its loop drops buffers but still gets completions, and these must not collide with what the other thread
   holds. The invariant therefore says "disjoint" always and "exactly" while the loops run.
3. *Buffers* (`PoolInv`): because the places are disjoint, the sum of the cardinalities is the cardinality of the union, and each action moves
   a position from one place to another, to the free count or to `lost`.
4. *Success* (`SuccessInv`): the writer leaves its loop with success only after the last buffer was accounted for, all below it were, and what was
   accounted for is in the destination (`WriterProgress`, `LastBufferWritten`, `ResultsJustified`); the order in which `Process` sees the two threads end
   (`EndsInOrder`) carries that to its result.
   The end of file (`EndOfFileInv`): until the writer clears the queue, "source finished" means that the last chunk was taken or is
   there, and "reading finished" that there is no gap below it.
5. *Refinement* (`AccountingInv` and the above): each step maps to `Store`, `Account`, `Complete`, `Stop` or a stutter of `FileCopy`. `Account` needs that the position accounted
   for is stored, `Store` that it is not below the accounted ones: both follow from the writer's places.
6. *Scheduling*: the read-ahead bound is inductive together with the places' finiteness; the owner of an error position needs that
   completions at that position come from `reading`; a wake-up is lost only if an event is consumed while a buffer could be
   taken, and each of the counters that make one takeable sets the event.
7. *Exceptions* (`ThrowInv`): retries are read before anything new, so the reads in flight, those that wait for their retry and the recorded error position are together never more
   than `MaxConcurrentReads` (`FewUnread`), and fewer once the end of file was met, because the read that met it has left and none follows. A completion throws only for
   a read that failed behind another recorded position: with two reads that would be two where there is room for one. With three it happens (finding `late_read_failure`). The other exception, in the
   writer's last update of the statistics, needs a file that outgrows its known size (`WritesFit`); with a smaller known size it happens too (section 4).

**One task at work** (`SubTasksProofs`). For any files, sizes, paths, existing destinations, plan and kind of deletion, and any number of kills, stores, skips and stops (within the sessions named below, which exclude one place for a stop).

| Theorem | States | Sessions |
|---|---|---|
| `TypeCorrect` | `TypeOK` | all |
| `NoDataIsLost` | `NoDataLost` | `Uninterrupted` or `CrashingOnce` |
| `FinishedTasksHaveCopied` | `FinishedMeansCopied` | `Uninterrupted` or `CrashingOnce` |
| `UsersFilesAreKept` | `KeepsUsersFiles` | `Uninterrupted` or `CrashingOnce` |
| `ProcessedFilesAreWhole` | `ProcessedIsWhole` | `CrashingOnce` |

The two kinds of sessions restrict constants only, and each restriction keeps one of the defects of section 4 out, without which the theorem is false: `Uninterrupted` has
restarts and stores that overlap the thread, and no crash; `CrashingOnce` has a crash between any two steps, and neither restarts nor overlapping stores; neither has a stop
right after a file was passed over (`~StaleStops`). `task_skips` is a session of the first kind. `task_saves` has an overlapping store and a crash, and is of neither: what it
shows is model-checked only.

The argument. The properties say what the content of a destination is; the code decides by numbers that it has kept about it (an index, a processed size, flags), and
these are kept in four places: the statistics, what `Exec` has read of them, the database, and what a store has gathered. The inductive invariant `Inv` says of each what it still tells:

1. *Where the thread is* (`Whereabouts`, `ListShape`, `CurrentFile`): which sub-task runs at which place, that the list is there from the end of the scan on and has each
   file once, and that the file being written holds the source's data, one chunk more than accounted for at the most.
2. *Marks* (`PendingMark`, `FirstMark`): the processed size that the next run will trust belongs to the file it will meet first, and that file can be continued from there, or
   will be asked about (`MarkFits`). Before a crash the size is exact (`MarkExact`), afterwards it need not be, because the file was written further.
   A stop right after a passed file breaks this, which is finding `stale_skip`.
3. *Progress* (`Progress`): by induction over the plan, every file is listed, declined or moved once the scan is over (`SourceListed`), every file in front of the index
   is marked, declined or gone (`FrontTreated`), and every file has arrived or was declined once the copying is over (`CopiedArrived`). `FinishedMeansCopied` follows.
   `NoDataLost` needs of it that a marked file or a file of a handled path has arrived, because the deletion trusts both.
4. *The database* (`SavedKept`, `BeforeCrash`): what is saved could be continued from at any moment (`Resumable`): its list, flags and mark fit the files as they are now,
   though the thread has gone on. The hard part is the mark: a file that was begun anew under a saved mark would be resumed with a hole. Therefore the thread meets the file of
   a saved mark with the same mark in its hands (`SavedMarkHeld`), and every file that holds written data is either the one with the known mark or was passed over
   (`WrittenKnown`), so that the sanity check of `OpenFresh` and the question of `Asks` come up only where they should. After the crash both are given up: with a second one
   the program really loses data.

`Types` is inductive for itself and holds in every session, which is why it is apart. The steps that open and leave a file are first reduced to three (`Opened`, `PassedOver`, `StoppedInFile`; lemma
`NextTakesSteps`); then each conjunct has a lemma, with one step per kind of action. The invariant was model-checked before it was proved.

**The life cycle of tasks** (`TaskControlProofs`). For any number of tasks, any limit, any states that tasks are loaded with, any number of commands and
sessions, under `~EarlyCommands` (without it the properties are false). The last theorem assumes besides `PromptWake`, and that no task was stored
while it waited (`"Waiting" \notin LoadedStates`): without either it is false, see section 4.

| Theorem | States |
|---|---|
| `TypeCorrect` | `TypeOK` |
| `StoppedTasksDoNoWork` | `StoppedTaskDoesNoWork` |
| `RemovedTasksHaveNoThread` | `RemovedTaskHasNoThread` |
| `KillsHaveStoppers` | `KillHasStopper` |
| `ActiveStatesHaveThreads` | `ActiveStateHasThread` |
| `StartsAreRefusedOnlyLate` | `StartRefusedOnlyLate` |
| `LimitImplementsTaskSlots` | `Slots!Safety`: all of `ImplementsTaskSlots` but its fairness |

The inductive invariant `Inv` adds to the properties what the GUI can be doing (`GuiShape`), that the monitor's task is listed, new and without a thread
(`MonitorApart`), that a thread which was waited for has gone (`StoppedIsGone`), that one is started only where there is none, for a task that may work, or else
the task is mistimed (`Due`, `StartIsDue`), that `IsRunning` tells where the thread is (`RunningIsLive`), and who takes an active task further: its thread, the one who stops it or the one who is about to start it (`ActiveHasSomebody`). `ActiveStateHasThread`
speaks only of the moments between commands and follows from that and `KillHasStopper`. A thread may end with its task still active only if it
was killed (`EndsActiveIfKilled`), which leaves the task to whoever killed it. A mistimed task is outside of these: the retry of a command line may start a thread for a task that
has paused meanwhile, a refused resume leaves an active state without a thread, and a stop puts either right. `StartsAreRefusedOnlyLate` says how far this goes: a resume is refused only
by a thread on its way out, so that it can be repeated after a pause, and nothing but a resume and a command line's retry is refused at all. The proof first states the effect of each kind of step on the
variables (`ThreadStepEffect`, `ButtonEffect` and the like) and then has one lemma per conjunct, with one step per action.

The limit needs an invariant of its own, `SlotInv`. `ResumeWaitingTasks` counts the tasks in state Processing, then gives away what is left one by one, while the threads that it
lets in notice only later. The numbers are kept by `LimitKept`: the tasks that hold a slot, those that were promised one and have not noticed, and what the walk has still to give away are
together no more than the limit. That the count misses nobody is `HoldersAreCounted`, with `PromptWake` for those that are between flag and state; `FlagShape` says who may have a flag or
a slot (only a task that waited), and `ExitStops` that the next session begins without threads. A thread that leaves its sleep with the flag therefore finds fewer than `Limit`
holders (`SlotIsFree`), and each step of a thread is `Wait`, `Enter`, `WithoutSlot`, `Leave` or a stutter of `TaskSlots` (`ThreadImplements`); all others stutter.

**The storage** (`TaskStorageProofs`). For any number of tasks, changes, marks, failures and sessions.

| Theorem | States |
|---|---|
| `TypeCorrect` | `TypeOK` |
| `NothingIsForgotten` | `NothingForgotten` |
| `LaterStoresCanSucceed` | `StoresCanSucceed` |
| `ListedTasksCanBeLoaded` | `ListedTaskCanBeLoaded` |
| `ListedFilesAreNotDeleted` | `ObsoleteNotListed` |
| `UnloadedTasksAreNotStored` | `UnloadedNotStored` (proved only: no run checks it) |

`NothingForgotten` is an equation between disk, pending rows, flags and memory; each step of a store moves something from one of them to the next, and a
failed flush moves nothing. Its one exception is a task of `overtaken`: the reset of a flag whose change was not copied. While a row is copied and not reset, what was copied is still flagged,
and a mark that is set and not written is flagged or overtaken (`MarkShape`). It is inductive with what a store has already taken (`SaveShape`), that a listed task's first row was committed before (`ContentOnItsWay`,
`MakerShape`), that names are used once (`NamesUsed`), that a task is listed or obsolete and not both (`EntriesOnTheirWay`) and that no task is stored while it shows
a load error (`StorersLoaded`). A task that was not loaded and is paused may be stored, and its pending row may never succeed; the invariant says nothing of such rows, and nothing else depends on them. `CommittedFirst` extends `ListedTaskCanBeLoaded` to the entries that are still on their way to the list.

**The reader's and the writer's threads** (`QueueRunnerProofs`). For any number of functions and stops.

| Theorem | States |
|---|---|
| `TypeCorrect` | `TypeOK` |
| `NeverPopsFromEmpty` | `PopFrontNeverThrows` |
| `AllInOrder` | `CalledInOrder` |
| `StopLeavesNothing` | `StopCallsAll` |

`IInv` adds that the event shows whether the queue is empty (`EventShowsQueue`), which makes the pop safe; that a living thread sees the kill event only while its owner is in `Stop`,
where it pushes nothing, so that the queue stays empty once the thread has decided to end (`KillHasOwner`); and that functions without a thread have an owner that is about to
start one (`NobodyWaitsAlone`). The last two give `StopCallsAll`: an idle owner without a thread has an empty queue.

**The rules that answer questions** (`FeedbackRulesProofs`). For any number of threads that ask, any questions, results and length of the list, and any number of changes, failures and sessions.

| Theorem | States |
|---|---|
| `TypeCorrect` | `TypeOK` |
| `RulesThatApplyAreStored` | `StoresWhatApplies` |
| `StoresAreAccepted` | `Acceptable`: no row that waits to be inserted is in the table (proved only: no run checks it) |

`StoresWhatApplies` compares two lists of rules: the one in memory, in its order, and the one that the next session would load, in the order of its ids. They agree because
the ids in memory ascend and none is used twice (`InOrder`, `NewIdsAreNew`), whatever was removed, assigned or reset between; and because the table, once the rows that wait
are flushed, has the rules of the list that are not new, and besides them only rules that are on record as removed (`TableFollowsList`). This is said of what a flush *would* write (`Written`), so that a flush
that succeeds changes nothing of it and one that fails keeps its rows for the next. After a crash memory is empty (`NothingHeld`) and the load makes both agree again. That the order of a
finite set of ids is unique, so that "in the order of their ids" is one list (`OrderedIsUnique`), is proved by counting: the place of an id is the number of ids up to it (`PlaceIsRank`).

**Only model-checked.** Liveness (`Terminates`, `RunEnds`, `CommandsReturn`, `EverythingIsStored`, `RulesAreStored`, `NothingHangs`, and of `ImplementsTaskSlots` the
fairness), which is out of the prover's reach; the safety properties of `SubTasks` under an overlapping store and a crash, which hold in `task_saves` and not for all constants (section 4).

## 6. What is not modelled

Besides what section 3 leaves out:

- *Change of the buffer pool between files*: the code refuses it while a buffer is in use (`TOverlappedMemoryPool.cpp:47`).
- *Configuration, filters, sizes, speed, time, strings, translation tools*: sequential values, covered by unit tests or simple enough to read.
- *Logger* (`liblogger`): a thread of its own that writes lines to files; nothing of the engine depends on it and it changes none of the engine's state.
- *Windows, COM, display*: of the user interface only its calls to the engine are modelled.
- *Vendored code* (`src/ext`: SQLite, googletest; boost): by far the largest part of the repository's lines (some 340,000 of 390,000). SQLite appears as "a flush is one transaction that commits or fails".
