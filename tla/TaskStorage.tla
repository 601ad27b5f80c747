------------------------------- MODULE TaskStorage -------------------------------
(***************************************************************************)
(* What survives a session: the manager's database with the list of tasks  *)
(* and of the files still to delete, and a database per task.  TTaskManager *)
(* and TTask keep modification flags with what they hold in memory; a store *)
(* turns what is flagged into pending rows of TSQLiteSerializer's           *)
(* containers and resets the flags; a flush writes the rows in one          *)
(* transaction and forgets them only after the commit.  Flushes fail, and   *)
(* the program may end at any moment.                                       *)
(*                                                                         *)
(* The content of a task is a number that grows with every change; a task's *)
(* tables are one row, with one flag.  Most of a task is changed, flag and  *)
(* value together, under the lock that a store gathers under.  The marks of *)
(* its files are not: the thread sets the flag and then writes the value,   *)
(* without a lock, and a store may copy the value and reset the flag in     *)
(* between.  Names of tasks are never used twice (they are random), so that *)
(* a task also stands for its entry and its file.                           *)
(***************************************************************************)
EXTENDS Integers, FiniteSets

CONSTANTS
    Tasks,         \* 1..n, in the order in which they may come to be listed
    MaxValue,      \* bound: changes of a task's content
    MaxBusy,       \* bound: tasks with changed content
    MaxFaults,     \* bound: failing flushes and files that cannot be opened
    MaxSessions    \* bound: crashes and exits that are followed by a session

ASSUME TasksAssumption == IsFiniteSet(Tasks) /\ Tasks \subseteq Nat \ {0}
ASSUME BoundsAssumption == {MaxValue, MaxBusy, MaxFaults, MaxSessions} \subseteq Nat

NoRow == -1
NoTask == 0
Values == 0..MaxValue

VARIABLES
    on,          \* is the program running?
    disk,        \* what is committed: the manager's tables list and obsolete;
                 \* files, the databases of tasks that exist; rows, their content
    listed, newEntries, goneEntries,       \* m_tTasks: entries, those marked as
                                           \* added, and m_setRemovedTasks
    obsolete, newObsolete, goneObsolete,   \* m_tObsoleteFiles, likewise
    rows,        \* pending rows of the manager's serializer
    obj,         \* task objects: content, m_setChanges, pending row and its content
    loadError,   \* tasks whose state is LoadError
    unloaded,    \* tasks that could not be loaded in this session
    fake,        \* those of them with a TFakeFileSerializer
    storer,      \* who holds m_mutexSerializer of a task
    gathering,   \* tasks whose row has been copied, and its flags not yet reset
    marking,     \* tasks whose thread has set a flag, and not yet written the value
    overtaken,   \* history: tasks whose flag was last reset in spite of a change that
                 \* the store had not copied
    save,        \* TTaskManager::Store: where it is, tasks left, bForce
    maker,       \* CreateTask in progress: the task and who creates it
    used,        \* names that have been used
    dropped,     \* tasks that the user has removed
    faults, sessions

loadVars == <<loadError, unloaded, fake>>
markVars == <<marking, overtaken>>
taskVars == <<obj, loadVars, storer, gathering, markVars>>
listVars == <<listed, newEntries, goneEntries>>
obsoleteVars == <<obsolete, newObsolete, goneObsolete>>
names == <<used, dropped>>
vars == <<on, disk, listVars, obsoleteVars, rows, taskVars, save, maker, names,
          faults, sessions>>

NoObject == [value |-> 0, change |-> "none", row |-> "none", sent |-> 0]
NewObject == [NoObject EXCEPT !.change = "added"]
NoRows == [ins |-> {}, del |-> {}, obsIns |-> {}, obsDel |-> {}]
NoSave == [at |-> "idle", todo |-> {}, force |-> FALSE]
NoMaker == [task |-> NoTask, by |-> "nobody"]

NoSession ==
    /\ listed = {} /\ newEntries = {} /\ goneEntries = {}
    /\ obsolete = {} /\ newObsolete = {} /\ goneObsolete = {}
    /\ rows = NoRows /\ obj = [t \in Tasks |-> NoObject]
    /\ loadError = {} /\ unloaded = {} /\ fake = {}
    /\ storer = [t \in Tasks |-> "nobody"]
    /\ gathering = {} /\ marking = {} /\ overtaken = {}
    /\ save = NoSave /\ maker = NoMaker

Init ==
    /\ on = TRUE /\ NoSession
    /\ disk = [list |-> {}, obsolete |-> {}, files |-> {},
               rows |-> [t \in Tasks |-> NoRow]]
    /\ used = {} /\ dropped = {}
    /\ faults = 0 /\ sessions = 0

-----------------------------------------------------------------------------
(* TTask::Store *)

\* What is flagged becomes part of the pending row.  GetRow merges: a row that is to be
\* inserted stays one.
Copied(o) ==
    IF o.change = "none" THEN o
    ELSE [o EXCEPT !.sent = o.value,
                   !.row = IF o.change = "added" \/ o.row = "insert"
                           THEN "insert" ELSE "update"]

\* Faulty variant: the flags are not reset, a new task is added with every store.
GatheredStillFlagged(o) == Copied(o)

\* Where nobody can come in between.
Gathered(o) == [Copied(o) EXCEPT !.change = "none"]

\* Under the task's lock, which the marks do not take.  The thread's own store cannot
\* meet one of its marks, so that it gathers in one step.
ThreadGathers(t) ==
    /\ storer[t] = "nobody"
    /\ storer' = [storer EXCEPT ![t] = "thread"]
    /\ obj' = [obj EXCEPT ![t] = Gathered(@)]
    /\ overtaken' = IF obj[t].change = "none" THEN overtaken ELSE overtaken \ {t}
    /\ UNCHANGED <<loadVars, gathering, marking>>

\* The store of the user interface: it copies what is flagged, and resets the flags -
\* of what is flagged then, not of what was copied.
SaveCopies(t) ==
    /\ storer[t] = "nobody"
    /\ storer' = [storer EXCEPT ![t] = "user"]
    /\ obj' = [obj EXCEPT ![t] = Copied(@)]
    /\ gathering' = IF obj[t].change = "none" THEN gathering ELSE gathering \cup {t}
    /\ UNCHANGED <<loadVars, markVars>>

FlagsReset(t) ==
    /\ t \in gathering
    /\ gathering' = gathering \ {t}
    /\ obj' = [obj EXCEPT ![t].change = "none"]
    /\ overtaken' = IF t \in marking \/ obj[t].value # obj[t].sent
                    THEN overtaken \cup {t} ELSE overtaken \ {t}
    /\ UNCHANGED <<loadVars, storer, marking>>

\* An insert needs that there is no such row, an update that there is one.
Acceptable(t) ==
    \/ obj[t].row = "none"
    \/ obj[t].row = "insert" /\ disk.rows[t] = NoRow
    \/ obj[t].row = "update" /\ disk.rows[t] # NoRow

\* TSQLiteSerializer::Flush: the containers are dropped after the commit.
Flushed(t) ==
    /\ t \notin gathering /\ Acceptable(t)
    /\ disk' = IF obj[t].row = "none" THEN disk
               ELSE [disk EXCEPT !.rows[t] = obj[t].sent]
    /\ obj' = [obj EXCEPT ![t].row = "none", ![t].sent = 0]
    /\ storer' = [storer EXCEPT ![t] = "nobody"]
    /\ UNCHANGED <<loadVars, gathering, markVars, faults>>

\* Faulty variant: the containers are dropped although the transaction failed.
NotFlushedButDropped(t) ==
    /\ t \notin gathering
    /\ \/ ~Acceptable(t) /\ UNCHANGED faults
       \/ faults < MaxFaults /\ faults' = faults + 1
    /\ storer' = [storer EXCEPT ![t] = "nobody"]
    /\ obj' = [obj EXCEPT ![t].row = "none", ![t].sent = 0]
    /\ UNCHANGED <<disk, loadVars, gathering, markVars>>

\* It throws: nothing is written, nothing is dropped.
NotFlushed(t) ==
    /\ t \notin gathering
    /\ \/ ~Acceptable(t) /\ UNCHANGED faults
       \/ faults < MaxFaults /\ faults' = faults + 1
    /\ storer' = [storer EXCEPT ![t] = "nobody"]
    /\ UNCHANGED <<disk, obj, loadVars, gathering, markVars>>

-----------------------------------------------------------------------------
(* What changes a task, and its thread's own stores *)

\* An exit stops the threads before it stores.
Works(t) == t \in listed \ loadError /\ ~save.force

Flagged(o) == [o EXCEPT !.change = IF @ = "added" THEN "added" ELSE "changed"]
Changed(o) == [Flagged(o) EXCEPT !.value = @ + 1]

Changeable(t) ==
    /\ obj[t].value < MaxValue
    /\ Cardinality({u \in Tasks \ {t} : obj[u].value > 0 \/ u \in marking}) < MaxBusy

\* By the thread or the user interface, under the task's lock: not while a store gathers.
LockedChange(t) ==
    /\ Works(t) /\ t \notin gathering \cup marking /\ Changeable(t)
    /\ obj' = [obj EXCEPT ![t] = Changed(@)]
    /\ UNCHANGED <<on, disk, listVars, obsoleteVars, rows, loadVars, storer, gathering,
                   markVars, save, maker, names, faults, sessions>>

\* A file has been processed, or passed over.  Modify() flags it; no lock is taken.
MarkAsProcessed(t) ==
    /\ Works(t) /\ t \notin marking /\ storer[t] # "thread" /\ Changeable(t)
    /\ marking' = marking \cup {t}
    /\ obj' = [obj EXCEPT ![t] = Flagged(@)]
    /\ UNCHANGED <<on, disk, listVars, obsoleteVars, rows, loadVars, storer, gathering,
                   overtaken, save, maker, names, faults, sessions>>

\* The value that Modify() has returned a reference to is written.
MarkIsWritten(t) ==
    /\ t \in marking
    /\ marking' = marking \ {t}
    /\ obj' = [obj EXCEPT ![t].value = @ + 1]
    /\ UNCHANGED <<on, disk, listVars, obsoleteVars, rows, loadVars, storer, gathering,
                   overtaken, save, maker, names, faults, sessions>>

Changes(t) == LockedChange(t) \/ MarkAsProcessed(t) \/ MarkIsWritten(t)

ThreadStores(t) ==
    /\ Works(t) /\ t \notin fake \cup marking
    /\ ThreadGathers(t)
    /\ UNCHANGED <<on, disk, listVars, obsoleteVars, rows, save, maker, names,
                   faults, sessions>>

ThreadFlushes(t) ==
    /\ storer[t] = "thread"
    /\ Flushed(t) \/ NotFlushed(t)
    /\ UNCHANGED <<on, listVars, obsoleteVars, rows, save, maker, names, sessions>>

-----------------------------------------------------------------------------
(* TTaskManager::CreateTask, by the clipboard monitor or the user interface; a
   task is stored before it is listed *)

UserInterfaceFree == save.at = "idle" /\ maker.by # "user"

CreateTask(t) ==
    /\ on /\ maker = NoMaker /\ ~save.force
    /\ t \notin used /\ \A u \in Tasks \ used : t <= u
    /\ \E who \in {"monitor", "user"} :
           /\ who = "user" => UserInterfaceFree
           /\ maker' = [task |-> t, by |-> who]
    /\ used' = used \cup {t}
    /\ disk' = [disk EXCEPT !.files = @ \cup {t}]
    /\ obj' = [obj EXCEPT ![t] = Gathered(NewObject)]
    /\ storer' = [storer EXCEPT ![t] = "maker"]
    /\ UNCHANGED <<on, listVars, obsoleteVars, rows, loadVars, gathering, markVars, save,
                   dropped, faults, sessions>>

MakerFlushes(t) ==
    /\ storer[t] = "maker"
    /\ Flushed(t)
    /\ UNCHANGED <<on, listVars, obsoleteVars, rows, save, maker, names, sessions>>

\* The exception leaves CreateTask; there is a file, and nobody who knows it.
CreateFails(t) ==
    /\ storer[t] = "maker"
    /\ faults < MaxFaults /\ faults' = faults + 1
    /\ storer' = [storer EXCEPT ![t] = "nobody"]
    /\ obj' = [obj EXCEPT ![t] = NoObject]
    /\ maker' = NoMaker
    /\ UNCHANGED <<on, disk, listVars, obsoleteVars, rows, loadVars, gathering, markVars,
                   save, names, sessions>>

\* Faulty variant: the task is listed while its first store is under way.
AddEarly(t) ==
    /\ maker.task = t
    /\ save.at # "tasks"
    /\ listed' = listed \cup {t}
    /\ newEntries' = newEntries \cup {t}
    /\ maker' = NoMaker
    /\ UNCHANGED <<on, disk, goneEntries, obsoleteVars, rows, taskVars, save, names,
                   faults, sessions>>

\* Needs the manager's lock, which Store holds while it goes through the tasks.
Add(t) ==
    /\ maker.task = t /\ storer[t] = "nobody"
    /\ save.at # "tasks"
    /\ listed' = listed \cup {t}
    /\ newEntries' = newEntries \cup {t}
    /\ maker' = NoMaker
    /\ UNCHANGED <<on, disk, goneEntries, obsoleteVars, rows, taskVars, save, names,
                   faults, sessions>>

-----------------------------------------------------------------------------
(* TTaskManager::Store: the list, every task, the obsolete files, the flush *)

\* Faulty variant: the entries that are gone are left for another time.
StoreListOfNew(bForce) ==
    /\ save' = [at |-> "tasks", todo |-> listed, force |-> bForce]
    /\ rows' = [rows EXCEPT !.ins = (@ \ goneEntries) \cup newEntries]
    /\ newEntries' = {}
    /\ UNCHANGED <<on, disk, listed, goneEntries, obsoleteVars, taskVars, maker, names,
                   faults, sessions>>

StoreList(bForce) ==
    /\ save' = [at |-> "tasks", todo |-> listed, force |-> bForce]
    /\ rows' = [rows EXCEPT !.ins = (@ \ goneEntries) \cup newEntries,
                            !.del = @ \cup goneEntries]
    /\ newEntries' = {} /\ goneEntries' = {}
    /\ UNCHANGED <<on, disk, listed, obsoleteVars, taskVars, maker, names, faults,
                   sessions>>

Autosave == on /\ UserInterfaceFree /\ StoreList(FALSE)

\* PrepareToExit: no clipboard monitor any more, and every thread has ended.
Exit ==
    /\ on /\ UserInterfaceFree /\ maker = NoMaker
    /\ marking = {} /\ \A t \in Tasks : storer[t] = "nobody"
    /\ StoreList(TRUE)

Comes(t) == save.at = "tasks" /\ t \in save.todo /\ \A u \in save.todo : t <= u

\* Faulty variant: only the try_lock lets a store pass a task over.
SkipsBusyTask(t) ==
    /\ Comes(t) /\ storer[t] \notin {"user", "nobody"} /\ ~save.force
    /\ save' = [save EXCEPT !.todo = @ \ {t}]
    /\ UNCHANGED <<on, disk, listVars, obsoleteVars, rows, taskVars, maker, names,
                   faults, sessions>>

\* TTask::Store returns at once; an autosave does not wait for another store.
SkipsTask(t) ==
    /\ Comes(t) /\ storer[t] # "user"
    /\ t \in loadError \/ (storer[t] # "nobody" /\ ~save.force)
    /\ save' = [save EXCEPT !.todo = @ \ {t}]
    /\ UNCHANGED <<on, disk, listVars, obsoleteVars, rows, taskVars, maker, names,
                   faults, sessions>>

StoresTask(t) ==
    /\ Comes(t) /\ t \notin loadError \cup fake
    /\ SaveCopies(t)
    /\ UNCHANGED <<on, disk, listVars, obsoleteVars, rows, save, maker, names, faults,
                   sessions>>

SaveResets(t) ==
    /\ Comes(t) /\ FlagsReset(t)
    /\ UNCHANGED <<on, disk, listVars, obsoleteVars, rows, save, maker, names, faults,
                   sessions>>

FlushesTask(t) ==
    /\ Comes(t) /\ storer[t] = "user"
    /\ Flushed(t)
    /\ save' = [save EXCEPT !.todo = @ \ {t}]
    /\ UNCHANGED <<on, listVars, obsoleteVars, rows, maker, names, sessions>>

\* What was not stored when the program ends is lost.
Ends ==
    /\ on' = FALSE
    /\ listed' = {} /\ newEntries' = {} /\ goneEntries' = {}
    /\ obsolete' = {} /\ newObsolete' = {} /\ goneObsolete' = {}
    /\ rows' = NoRows /\ obj' = [t \in Tasks |-> NoObject]
    /\ loadError' = {} /\ unloaded' = {} /\ fake' = {}
    /\ storer' = [t \in Tasks |-> "nobody"]
    /\ gathering' = {} /\ marking' = {} /\ overtaken' = {}
    /\ save' = NoSave /\ maker' = NoMaker

\* An exception ends the store of the manager, and of all tasks behind this one.
\* OnClose tells the user, and closes the program nevertheless.
TaskStoreThrows(t) ==
    /\ Comes(t)
    /\ \/ t \in fake \ loadError /\ storer[t] = "nobody" /\ UNCHANGED <<taskVars, disk, faults>>
       \/ storer[t] = "user" /\ NotFlushed(t)
    /\ ~save.force
    /\ save' = NoSave
    /\ UNCHANGED <<on, listVars, obsoleteVars, rows, maker, names, sessions>>

StoreObsolete ==
    /\ save.at = "tasks" /\ save.todo = {}
    /\ save' = [save EXCEPT !.at = "flush"]
    /\ rows' = [rows EXCEPT !.obsIns = (@ \ goneObsolete) \cup newObsolete,
                            !.obsDel = @ \cup goneObsolete]
    /\ newObsolete' = {} /\ goneObsolete' = {}
    /\ UNCHANGED <<on, disk, listVars, obsolete, taskVars, maker, names, faults, sessions>>

\* One transaction; deletions first.
Committed ==
    [disk EXCEPT !.list = (@ \ rows.del) \cup rows.ins,
                 !.obsolete = (@ \ rows.obsDel) \cup rows.obsIns]

FlushesManager ==
    /\ save.at = "flush"
    /\ disk' = Committed
    /\ IF save.force
       THEN Ends
       ELSE /\ rows' = NoRows
            /\ save' = NoSave
            /\ UNCHANGED <<on, listVars, obsoleteVars, taskVars, maker>>
    /\ UNCHANGED <<names, faults, sessions>>

ManagerFlushThrows ==
    /\ save.at = "flush" /\ ~save.force
    /\ faults < MaxFaults /\ faults' = faults + 1
    /\ save' = NoSave
    /\ UNCHANGED <<on, disk, listVars, obsoleteVars, rows, taskVars, maker, names, sessions>>

-----------------------------------------------------------------------------
(* The user removes a task; its thread has been waited for *)

\* Faulty variant: what is known of the removed task's loading stays.
RemoveTaskOnly(t) ==
    /\ UserInterfaceFree /\ t \in listed
    /\ storer[t] = "nobody" /\ t \notin marking
    /\ listed' = listed \ {t} /\ newEntries' = newEntries \ {t}
    /\ goneEntries' = goneEntries \cup {t}
    /\ obsolete' = obsolete \cup {t} /\ newObsolete' = newObsolete \cup {t}
    /\ dropped' = dropped \cup {t}
    /\ UNCHANGED <<on, disk, goneObsolete, rows, taskVars, save, maker, used, faults,
                   sessions>>

\* DeleteObsoleteFile.  The file is open, so that it cannot be deleted yet - unless
\* there is only a fake serializer; then it may be deleted, or that fails as well.
FileGoes(t) ==
    \/ /\ t \in fake
       /\ disk' = [disk EXCEPT !.files = @ \ {t}, !.rows[t] = NoRow]
       /\ UNCHANGED <<obsoleteVars, faults>>
    \/ /\ \/ t \notin fake /\ UNCHANGED faults
          \/ /\ t \in fake \cap disk.files
             /\ faults < MaxFaults /\ faults' = faults + 1
       /\ obsolete' = obsolete \cup {t} /\ newObsolete' = newObsolete \cup {t}
       /\ UNCHANGED <<disk, goneObsolete>>

RemoveTask(t) ==
    /\ UserInterfaceFree /\ t \in listed
    /\ storer[t] = "nobody" /\ t \notin marking
    /\ listed' = listed \ {t} /\ newEntries' = newEntries \ {t}
    /\ goneEntries' = goneEntries \cup {t}
    /\ FileGoes(t)
    /\ obj' = [obj EXCEPT ![t] = NoObject]
    /\ loadError' = loadError \ {t} /\ unloaded' = unloaded \ {t} /\ fake' = fake \ {t}
    /\ overtaken' = overtaken \ {t}
    /\ dropped' = dropped \cup {t}
    /\ UNCHANGED <<on, rows, storer, gathering, marking, save, maker, used, sessions>>

\* PauseProcessing makes no difference between tasks that were loaded or not.
PauseUnloaded(t) ==
    /\ UserInterfaceFree /\ t \in loadError
    /\ loadError' = loadError \ {t}
    /\ obj' = [obj EXCEPT ![t].change = IF @ = "added" THEN "added" ELSE "changed"]
    /\ UNCHANGED <<on, disk, listVars, obsoleteVars, rows, unloaded, fake, storer,
                   gathering, markVars, save, maker, names, faults, sessions>>

-----------------------------------------------------------------------------
(* The program ends in the middle, or because an exit's store throws; the next
   session loads what is on disk *)

Crash ==
    /\ on
    /\ Ends
    /\ UNCHANGED <<disk, names, faults, sessions>>

\* Files to delete first, where they can be deleted; then the tasks of the list.
\* Opening creates a file that is missing; when it fails, the task gets a fake
\* serializer.  A file that was opened may still turn out to be unreadable.
Loads(deleted, unopened, unreadable) ==
    LET files == disk.files \ deleted
        content == [t \in Tasks |-> IF t \in files THEN disk.rows[t] ELSE NoRow]
        failed == unopened \cup unreadable \cup {t \in disk.list : content[t] = NoRow}
    IN /\ disk.obsolete \ disk.files \subseteq deleted
       /\ faults' = faults + Cardinality(unopened) + Cardinality(unreadable)
       /\ faults' <= MaxFaults
       /\ disk' = [disk EXCEPT !.files = files \cup (disk.list \ unopened),
                               !.rows = content]
       /\ obsolete' = disk.obsolete \ deleted
       /\ goneObsolete' = deleted
       /\ listed' = disk.list
       /\ fake' = unopened /\ loadError' = failed /\ unloaded' = failed
       /\ obj' = [t \in Tasks |->
                     IF t \notin disk.list THEN NoObject
                     ELSE IF t \in failed THEN NewObject
                     ELSE [NoObject EXCEPT !.value = content[t]]]

Load ==
    /\ ~on /\ sessions < MaxSessions
    /\ sessions' = sessions + 1
    /\ on' = TRUE
    /\ \E deleted \in SUBSET disk.obsolete,
          unopened \in SUBSET disk.list, unreadable \in SUBSET disk.list :
           Loads(deleted, unopened, unreadable)
    /\ UNCHANGED <<newEntries, goneEntries, newObsolete, rows, storer, gathering, markVars,
                   save, maker, names>>

ThreadStep(t) == ThreadStores(t) \/ ThreadFlushes(t)
MakerStep(t) == MakerFlushes(t) \/ Add(t)
SaveStep ==
    \/ Autosave \/ StoreObsolete \/ FlushesManager \/ ManagerFlushThrows
    \/ \E t \in Tasks :
           \/ SkipsTask(t) \/ StoresTask(t) \/ SaveResets(t) \/ FlushesTask(t)
           \/ TaskStoreThrows(t)

Next ==
    \/ SaveStep \/ Exit \/ Crash \/ Load
    \/ \E t \in Tasks :
           \/ Changes(t) \/ ThreadStep(t) \/ CreateTask(t) \/ MakerStep(t)
           \/ CreateFails(t) \/ RemoveTask(t) \/ PauseUnloaded(t)

Spec == Init /\ [][Next]_vars

\* The autosave timer fires again and again, a store goes on once it has begun.
Fairness ==
    /\ WF_vars(SaveStep)
    /\ \A t \in Tasks : WF_vars(ThreadFlushes(t)) /\ WF_vars(MakerStep(t))

FairSpec == Spec /\ Fairness

-----------------------------------------------------------------------------
(* Properties *)

Disks == [list : SUBSET Tasks, obsolete : SUBSET Tasks, files : SUBSET Tasks,
          rows : [Tasks -> Values \cup {NoRow}]]
Rows == [ins : SUBSET Tasks, del : SUBSET Tasks,
         obsIns : SUBSET Tasks, obsDel : SUBSET Tasks]
Objects == [value : Values, change : {"none", "changed", "added"},
            row : {"none", "insert", "update"}, sent : Values]

TypeOK ==
    /\ on \in BOOLEAN
    /\ disk \in Disks
    /\ listed \subseteq Tasks /\ newEntries \subseteq listed /\ goneEntries \subseteq Tasks
    /\ obsolete \subseteq Tasks /\ newObsolete \subseteq obsolete
    /\ goneObsolete \subseteq Tasks
    /\ rows \in Rows
    /\ obj \in [Tasks -> Objects]
    /\ loadError \subseteq unloaded /\ fake \subseteq unloaded /\ unloaded \subseteq listed
    /\ storer \in [Tasks -> {"nobody", "thread", "user", "maker"}]
    /\ gathering \subseteq listed /\ marking \subseteq listed /\ overtaken \subseteq listed
    /\ save \in [at : {"idle", "tasks", "flush"}, todo : SUBSET listed, force : BOOLEAN]
    /\ maker \in [task : Tasks \cup {NoTask}, by : {"nobody", "monitor", "user"}]
    /\ used \subseteq Tasks /\ dropped \subseteq used
    /\ faults \in 0..MaxFaults /\ sessions \in 0..MaxSessions

\* What the session knows and the disk does not is still flagged or still a pending
\* row, failed flushes and changes during a flush included: the next store that
\* succeeds writes it.  There is one way for a change to be forgotten: a store that
\* copies a file's row and resets its flags while the thread marks the file.
EventualContent(t) ==
    IF obj[t].row = "none" THEN disk.rows[t] ELSE obj[t].sent

NothingForgotten ==
    on =>
      /\ ((((disk.list \ rows.del) \cup rows.ins) \ goneEntries) \cup newEntries) = listed
      /\ ((((disk.obsolete \ rows.obsDel) \cup rows.obsIns) \ goneObsolete)
              \cup newObsolete) = obsolete
      /\ \A t \in listed \ (unloaded \cup overtaken) :
             obj[t].change = "none" => EventualContent(t) = obj[t].value

\* A store of a task that was loaded can succeed, also after one that failed: no row
\* waits to be inserted a second time, or to be updated where there is none, which
\* would throw for ever.
StoresCanSucceed == \A t \in Tasks \ unloaded : Acceptable(t)

\* Whenever the program ends, every task on the disk's list can be loaded: its own
\* database was committed before the list.  (Not so for a task that the user has
\* removed when its file could not be opened: the file goes before the entry.)
ListedTaskCanBeLoaded ==
    \A t \in disk.list \ dropped : t \in disk.files /\ disk.rows[t] # NoRow

\* Whenever the program ends, the next session deletes no database of a task that
\* it lists: the entry and the obsolete file change places in one transaction.
ObsoleteNotListed == disk.list \cap disk.obsolete = {}

\* The autosave reaches every task and the list: again and again, what is in memory of
\* a listed task is on the disk, and the task is on the disk's list - also when other
\* tasks could not be loaded, and after flushes that failed.  Two things stop it: a mark
\* that a store has overtaken, and a task that could not be loaded and has been paused,
\* whose store throws: that ends the round for the tasks behind it and for the list.
CaughtUp(t) == t \in disk.list /\ disk.rows[t] = obj[t].value
RoundEndsBefore(t) == \E u \in unloaded \ loadError : u < t \/ t \notin disk.list
EverythingIsStored ==
    \A t \in Tasks :
        []<>(t \in listed \ unloaded =>
                 CaughtUp(t) \/ t \in overtaken \/ RoundEndsBefore(t))

\* "not storing task as it was not loaded correctly" (TTask.cpp, Store): as long as a
\* task shows the load error its store does not begin, and nothing of it waits to
\* be written.
UnloadedNotStored ==
    \A t \in loadError : storer[t] = "nobody" /\ obj[t].row = "none"
=================================================================================
