------------------------------- MODULE TaskControl -------------------------------
(***************************************************************************)
(* The life cycle of tasks: TTaskManager and its tasks, each with a thread *)
(* (TWorkerThreadController, TTask::ThrdProc), driven by the thread of the *)
(* user interface - commands, timers, exit and the next session - and by   *)
(* the clipboard monitor, which adds tasks from a thread of its own.       *)
(*                                                                         *)
(* What a task's sub-tasks do is one step here (SubTasks has it), and so   *)
(* is a store of its progress.  Tasks are numbered in the order of the     *)
(* manager's list.                                                         *)
(***************************************************************************)
EXTENDS Integers, FiniteSets

CONSTANTS
    Tasks,           \* 1..n
    FirstNew,        \* tasks from here on do not exist in the beginning
    Limit,           \* PP_CMLIMITMAXOPERATIONS; 0: no limit
    LoadedStates,    \* states that tasks are loaded with
    PromptWake,      \* does a task that may begin wake before the next timer?
    EarlyCommands,   \* do commands reach a task the monitor has not begun yet?
    MaxCommands,     \* bound: commands of the user, exits among them
    MaxSessions      \* bound: exits, each followed by a new session

States == {"None", "Waiting", "Processing", "Paused", "Finished", "Cancelled",
           "Error", "LoadError"}

ASSUME TasksAssumption ==
    /\ IsFiniteSet(Tasks) /\ Tasks = 1..Cardinality(Tasks)
    /\ FirstNew \in Nat \ {0}
ASSUME LimitAssumption == Limit \in Nat
ASSUME StatesAssumption == LoadedStates \subseteq States
ASSUME SwitchAssumption == {PromptWake, EarlyCommands} \subseteq BOOLEAN
ASSUME BoundsAssumption == MaxCommands \in Nat /\ MaxSessions \in Nat

VARIABLES
    listed,      \* tasks in the manager's list
    fresh,       \* tasks that have not been created yet
    state,       \* TTaskBaseData's current state
    pc,          \* where the task's thread is; "none": the controller has no handle
    running,     \* tasks with m_bTaskIsRunning
    kill,        \* tasks whose kill event is set
    cont, force, \* tasks with m_bContinue, m_bForce
    slot,        \* tasks that work because the limit let them (for the properties)
    op, step,    \* what the user interface is doing, and how far it is
    todo,        \* tasks it has still to do it for
    locked,      \* does it hold the manager's lock meanwhile?
    left,        \* stTasksToRun of ResumeWaitingTasks
    monitor,     \* the task the clipboard monitor adds (0: none), and whether it
                 \* is inside BeginProcessing, where it holds the task's lock
    mistimed,    \* tasks that a resume or a retry came for at the wrong moment, until
                 \* their thread is stopped (for the properties)
    commands, sessions  \* how many there have been

taskVars == <<listed, fresh, state>>
threadVars == <<pc, running, kill>>
flagVars == <<cont, force, slot>>
guiVars == <<op, step, todo, locked, left>>
bounds == <<commands, sessions>>
vars == <<taskVars, threadVars, flagVars, guiVars, monitor, mistimed, bounds>>

NoTask == 0

Live(t) == pc[t] \notin {"none", "ended"}

\* The monitor keeps TTask::m_lock while it is inside BeginProcessing.
TaskLockFree(t) == ~(monitor.locked /\ monitor.task = t)

\* The task a loop of the user interface has come to: RemoveAllFinished walks
\* the list from its end, all others from its beginning.
Current(t) ==
    /\ t \in todo
    /\ \A u \in todo : IF op = "remove" THEN u <= t ELSE t <= u

\* StopThread holds the controller's lock while it waits for the thread.
ControllerFree(t) == ~(step = "wait" /\ Current(t))

NewNumbers == {t \in Tasks : t >= FirstNew}

\* Tasks have been loaded; the first thing the session does is to retry them.
Init ==
    /\ fresh = NewNumbers /\ listed = Tasks \ fresh
    /\ state \in [Tasks -> LoadedStates \cup {"None"}]
    /\ \A t \in Tasks : state[t] \in (IF t \in fresh THEN {"None"} ELSE LoadedStates)
    /\ pc = [t \in Tasks |-> "none"]
    /\ running = {} /\ kill = {} /\ cont = {} /\ force = {} /\ slot = {}
    /\ op = (IF listed = {} THEN "idle" ELSE "retry")
    /\ step = "look" /\ todo = listed /\ locked = (listed # {}) /\ left = 0
    /\ monitor = [task |-> NoTask, locked |-> FALSE]
    /\ mistimed = {}
    /\ commands = 0 /\ sessions = 0

-----------------------------------------------------------------------------
(* The task's thread *)

Goes(t, place) == pc' = [pc EXCEPT ![t] = place]
Sets(t, s) == state' = [state EXCEPT ![t] = s]

ThreadFrame == UNCHANGED <<listed, fresh, kill, guiVars, monitor, mistimed, bounds>>

ThreadBegins(t) ==
    /\ pc[t] = "begin"
    /\ Goes(t, "scan")
    /\ running' = running \cup {t}
    /\ UNCHANGED <<state, flagVars>>

\* Execute(true) has done the estimation sub-tasks; CheckForWaitState begins.
StartsToWait(t) ==
    /\ pc[t] = "scan"
    /\ Goes(t, "asleep")
    /\ Sets(t, "Waiting")
    /\ UNCHANGED <<running, flagVars>>

\* All source paths were moved in one go: there is nothing to wait for.
NeedsNoWait(t) ==
    /\ pc[t] = "scan"
    /\ Goes(t, "work")
    /\ UNCHANGED <<state, running, flagVars>>

CanBegin(t) ==
    /\ pc[t] = "asleep"
    /\ t \in cont \cup force
    /\ Goes(t, "granted")
    /\ cont' = cont \ {t}
    /\ force' = force \ {t}
    /\ slot' = IF t \in force THEN slot ELSE slot \cup {t}
    /\ UNCHANGED <<state, running>>

\* The loop looks at the kill event after it has set the state.
WaitEnds(t) ==
    /\ pc[t] = "granted"
    /\ Sets(t, "Processing")
    /\ Goes(t, IF t \in kill THEN "store" ELSE "work")
    /\ UNCHANGED <<running, flagVars>>

\* Faulty variant: the loop that waits for the limit does not look at the event.
KilledAtWork(t) ==
    /\ pc[t] \in {"scan", "work"}
    /\ t \in kill
    /\ Goes(t, "store")
    /\ UNCHANGED <<state, running, flagVars>>

\* eSubResult_KillRequest, from a sub-task or from the wait.
Killed(t) ==
    /\ pc[t] \in {"scan", "asleep", "work"}
    /\ t \in kill
    /\ Sets(t, IF state[t] = "Waiting" THEN "Processing" ELSE state[t])
    /\ Goes(t, "store")
    /\ UNCHANGED <<running, flagVars>>

Completes(t) ==
    /\ pc[t] = "work"
    /\ Sets(t, "Finished")
    /\ Goes(t, "store")
    /\ UNCHANGED <<running, flagVars>>

\* A sub-task failed, or the user answered its question with pause or cancel.
Breaks(t) ==
    /\ pc[t] \in {"scan", "work"}
    /\ \E s \in {"Paused", "Cancelled", "Error"} : Sets(t, s)
    /\ Goes(t, "store")
    /\ UNCHANGED <<running, flagVars>>

\* An exception in the thread function, from a sub-task or from the store.
Throws(t) ==
    /\ pc[t] \in {"scan", "work", "store"}
    /\ Sets(t, "Error")
    /\ Goes(t, "ending")
    /\ UNCHANGED <<running, flagVars>>

Stores(t) ==
    /\ pc[t] = "store"
    /\ Goes(t, "ending")
    /\ UNCHANGED <<state, running, flagVars>>

\* Faulty variant: the flags are kept for the next thread.
ThreadEndsKeepingFlags(t) ==
    /\ pc[t] = "ending"
    /\ Goes(t, "ended")
    /\ slot' = slot \ {t}
    /\ running' = running \ {t}
    /\ UNCHANGED <<state, cont, force>>

\* The flags are reset, IsRunning becomes false, the thread ends.
ThreadEnds(t) ==
    /\ pc[t] = "ending"
    /\ Goes(t, "ended")
    /\ cont' = cont \ {t}
    /\ force' = force \ {t}
    /\ slot' = slot \ {t}
    /\ running' = running \ {t}
    /\ UNCHANGED state

ThreadStep(t) ==
    /\ \/ ThreadBegins(t)
       \/ /\ TaskLockFree(t)
          /\ \/ StartsToWait(t) \/ NeedsNoWait(t) \/ CanBegin(t) \/ WaitEnds(t)
             \/ Killed(t) \/ Completes(t) \/ Breaks(t) \/ Throws(t)
             \/ Stores(t) \/ ThreadEnds(t)
    /\ ThreadFrame

-----------------------------------------------------------------------------
(* The user interface: what it begins *)

Does(o, ts, lock, l) ==
    /\ op' = IF ts = {} THEN "idle" ELSE o
    /\ todo' = ts
    /\ step' = "look"
    /\ locked' = (lock /\ ts # {})
    /\ left' = IF ts = {} THEN 0 ELSE l

Untouched(ts) == EarlyCommands \/ monitor.task \notin ts

Commands(o, ts, lock) ==
    /\ op = "idle" /\ commands < MaxCommands
    /\ ts # {} /\ Untouched(ts)
    /\ Does(o, ts, lock, 0)
    /\ commands' = commands + 1
    /\ UNCHANGED <<taskVars, threadVars, flagVars, monitor, mistimed, sessions>>

\* The buttons for one task; its Resume button lets a waiting task go on.
TaskButton ==
    \E t \in listed :
        \/ \E o \in {"pause", "cancel", "restart"} : Commands(o, {t}, FALSE)
        \/ Commands("resumeOne", {t}, FALSE)
        \/ Commands("remove", {t}, TRUE)

ListButton ==
    \E o \in {"pause", "cancel", "restart", "resume", "remove"} : Commands(o, listed, TRUE)

NextNumber(t) == t \in fresh /\ \A u \in fresh : t <= u

Lists(t) ==
    /\ NextNumber(t)
    /\ fresh' = fresh \ {t}
    /\ listed' = listed \cup {t}

\* The shell extension asks for an operation: TTaskManagerWrapper::CreateTask.
CreateTask(t) ==
    /\ op = "idle"
    /\ Lists(t)
    /\ Does("start", {t}, FALSE, 0)
    /\ UNCHANGED <<state, threadVars, flagVars, monitor, mistimed, bounds>>

\* The program is started once more.  Its command line may name a task to import;
\* all tasks are retried in any case, whatever they are doing.
CommandLine == Commands("commandLine", listed, TRUE)

ImportTask(t) ==
    /\ op = "idle" /\ commands < MaxCommands
    /\ Untouched(listed)
    /\ Lists(t)
    /\ Does("commandLine", listed', TRUE, 0)
    /\ commands' = commands + 1
    /\ UNCHANGED <<state, threadVars, flagVars, monitor, mistimed, sessions>>

Active == {"Waiting", "Processing"}

RunningTasks == {t \in listed : t \in running /\ state[t] = "Processing"}

\* Every 100 ms: ResumeWaitingTasks counts the running tasks, then walks the list.
ResumeWaitingTasks ==
    /\ op = "idle"
    /\ PromptWake => \A t \in Tasks : pc[t] # "granted" /\ ~(pc[t] = "asleep" /\ t \in cont \cup force)
    /\ \E t \in listed : state[t] = "Waiting"
    /\ Limit = 0 \/ Cardinality(RunningTasks) < Limit
    /\ Does("grant", listed, TRUE,
            IF Limit = 0 THEN Cardinality(Tasks) + 1 ELSE Limit - Cardinality(RunningTasks))
    /\ UNCHANGED <<taskVars, threadVars, flagVars, monitor, mistimed, bounds>>

\* PrepareToExit: no monitor any more, every thread is told to stop.
PrepareToExit ==
    /\ op = "idle" /\ commands < MaxCommands /\ sessions < MaxSessions
    /\ monitor.task = NoTask
    /\ Does("exit", listed, TRUE, 0)
    /\ kill' = kill \cup {t \in listed : Live(t)}
    /\ commands' = commands + 1
    /\ sessions' = sessions + 1
    /\ UNCHANGED <<taskVars, pc, running, flagVars, monitor, mistimed>>

-----------------------------------------------------------------------------
(* The user interface: what it does for the task it has come to *)

NextTask(t) == Does(op, todo \ {t}, locked, left)

Retries == {"retry", "commandLine"}
Resumes == {"resume", "resumeOne"}

PassesOver(t) ==
    /\ step = "look"
    /\ \/ op = "pause" /\ state[t] \in {"Finished", "Cancelled"}
       \/ op = "cancel" /\ state[t] = "Finished"
       \/ op = "remove" /\ state[t] \notin {"Finished", "Cancelled", "LoadError"}
       \/ op = "resume" /\ state[t] # "Paused"
       \/ op = "resumeOne" /\ state[t] \notin {"Paused", "Waiting"}
       \/ op \in Retries /\ state[t] \in {"Paused", "Finished", "Cancelled", "LoadError"}
       \/ op = "grant" /\ state[t] # "Waiting"
    /\ NextTask(t)
    /\ UNCHANGED <<taskVars, threadVars, flagVars, monitor, mistimed, bounds>>

GoesTo(s) ==
    /\ step' = s
    /\ UNCHANGED <<op, todo, locked, left>>

\* What the task's state asks for.
Decides(t) ==
    /\ step = "look"
    /\ \/ op = "pause" /\ state[t] \notin {"Finished", "Cancelled"} /\ GoesTo("stop")
       \/ op = "cancel" /\ state[t] # "Finished" /\ GoesTo("stop")
       \/ op = "remove" /\ state[t] \in {"Finished", "Cancelled", "LoadError"} /\ GoesTo("stop")
       \/ op \in {"restart", "exit"} /\ GoesTo("stop")
       \/ op = "resumeOne" /\ state[t] = "Waiting" /\ GoesTo("force")
       \/ op \in Retries /\ state[t] \in Active /\ GoesTo("isRunning")
       \/ op = "start" /\ GoesTo("begin")
    /\ UNCHANGED <<taskVars, threadVars, flagVars, monitor, mistimed, bounds>>

\* RetryProcessing goes on to BeginProcessing with what it has read of the task.
\* A thread that is still there may change that, or end, before it gets there.
RetryBegins(t, upToDate) ==
    /\ GoesTo("begin")
    /\ mistimed' = IF ~Live(t) /\ upToDate THEN mistimed ELSE mistimed \cup {t}

RetryProcessing(t) ==
    /\ step = "look"
    /\ op \in Retries /\ state[t] \in {"None", "Error"}
    /\ RetryBegins(t, TRUE)
    /\ UNCHANGED <<taskVars, threadVars, flagVars, monitor, bounds>>

\* Nobody looks whether the thread that paused the task has ended.
ResumeProcessing(t) ==
    /\ step = "look"
    /\ op \in Resumes /\ state[t] = "Paused"
    /\ TaskLockFree(t)
    /\ Sets(t, "Processing")
    /\ GoesTo("begin")
    /\ UNCHANGED <<listed, fresh, threadVars, flagVars, monitor, mistimed, bounds>>

\* Faulty variant: a task that is shown as active is taken to have a thread.
RetryTrustsState(t) ==
    /\ step = "isRunning"
    /\ NextTask(t)
    /\ UNCHANGED <<taskVars, threadVars, flagVars, monitor, mistimed, bounds>>

\* RetryProcessing looks at IsRunning after it has looked at the state.
RetryLooksAtThread(t) ==
    /\ step = "isRunning"
    /\ \/ t \in running /\ NextTask(t) /\ UNCHANGED mistimed
       \/ t \notin running /\ RetryBegins(t, state[t] \in Active)
    /\ UNCHANGED <<taskVars, threadVars, flagVars, monitor, bounds>>

SetForceFlag(t) ==
    /\ step = "force"
    /\ TaskLockFree(t)
    /\ force' = force \cup {t}
    /\ NextTask(t)
    /\ UNCHANGED <<taskVars, threadVars, cont, slot, monitor, mistimed, bounds>>

\* Without a lock; the walk ends when as many tasks may run as there is room for.
SetContinueFlag(t) ==
    /\ step = "look"
    /\ op = "grant" /\ state[t] = "Waiting"
    /\ cont' = cont \cup {t}
    /\ IF left = 1 THEN Does("idle", {}, FALSE, 0)
                   ELSE Does(op, todo \ {t}, locked, left - 1)
    /\ UNCHANGED <<taskVars, threadVars, force, slot, monitor, mistimed, bounds>>

\* Faulty variant: a task that is not running is taken to have no thread.
StopRunningThread(t) ==
    /\ step = "stop"
    /\ pc' = [pc EXCEPT ![t] = IF @ = "ended" THEN "none" ELSE @]
    /\ kill' = IF t \in running THEN kill \cup {t} ELSE kill \ {t}
    /\ GoesTo(IF t \in running THEN "wait" ELSE "stopped")
    /\ UNCHANGED <<taskVars, running, flagVars, monitor, mistimed, bounds>>

\* Faulty variant: the thread is told to stop, and not waited for.
StopThreadUnawaited(t) ==
    /\ step = "stop"
    /\ kill' = IF Live(t) THEN kill \cup {t} ELSE kill
    /\ GoesTo("stopped")
    /\ UNCHANGED <<taskVars, pc, running, flagVars, monitor, mistimed, bounds>>

\* A thread that has ended is reaped; no thread: nothing to wait for.
StopThread(t) ==
    /\ step = "stop"
    /\ pc' = [pc EXCEPT ![t] = IF @ = "ended" THEN "none" ELSE @]
    /\ kill' = IF Live(t) THEN kill \cup {t}
               ELSE IF pc[t] = "ended" THEN kill \ {t} ELSE kill
    /\ GoesTo(IF Live(t) THEN "wait" ELSE "stopped")
    /\ mistimed' = IF Live(t) THEN mistimed ELSE mistimed \ {t}
    /\ UNCHANGED <<taskVars, running, flagVars, monitor, bounds>>

\* Faulty variant: the kill event stays set.
AwaitThreadStaySignalled(t) ==
    /\ step = "wait"
    /\ pc[t] = "ended"
    /\ Goes(t, "none")
    /\ GoesTo("stopped")
    /\ UNCHANGED <<taskVars, running, kill, flagVars, monitor, mistimed, bounds>>

\* Faulty variant: StopThread waits only for a while.
AwaitThreadBriefly(t) ==
    /\ step = "wait"
    /\ GoesTo("stopped")
    /\ UNCHANGED <<taskVars, threadVars, flagVars, monitor, mistimed, bounds>>

AwaitThread(t) ==
    /\ step = "wait"
    /\ pc[t] = "ended"
    /\ Goes(t, "none")
    /\ kill' = kill \ {t}
    /\ GoesTo("stopped")
    /\ mistimed' = mistimed \ {t}
    /\ UNCHANGED <<taskVars, running, flagVars, monitor, bounds>>

EndsPausedOrCancelled(t) ==
    /\ step = "stopped" /\ op \in {"pause", "cancel"}
    /\ TaskLockFree(t)
    /\ Sets(t, IF op = "pause" THEN "Paused" ELSE "Cancelled")
    /\ NextTask(t)
    /\ UNCHANGED <<listed, fresh, threadVars, flagVars, monitor, mistimed, bounds>>

\* The state is reset, and with the statistics IsRunning.
RestartProcessing(t) ==
    /\ step = "stopped" /\ op = "restart"
    /\ TaskLockFree(t)
    /\ Sets(t, "None")
    /\ running' = running \ {t}
    /\ GoesTo("begin")
    /\ UNCHANGED <<listed, fresh, pc, kill, flagVars, monitor, mistimed, bounds>>

\* Faulty variant: the walk stays where the removed task was.
RemoveTaskInPlace(t) ==
    /\ step = "stopped" /\ op = "remove"
    /\ listed' = listed \ {t}
    /\ GoesTo("look")
    /\ UNCHANGED <<fresh, state, threadVars, flagVars, monitor, mistimed, bounds>>

RemoveTask(t) ==
    /\ step = "stopped" /\ op = "remove"
    /\ listed' = listed \ {t}
    /\ NextTask(t)
    /\ UNCHANGED <<fresh, state, threadVars, flagVars, monitor, mistimed, bounds>>

\* After the last task ClearBeforeExit stores them all and forgets them.
Exits(t) ==
    /\ step = "stopped" /\ op = "exit"
    /\ IF todo = {t}
       THEN op' = "closed" /\ UNCHANGED <<step, todo, locked, left>>
       ELSE NextTask(t)
    /\ UNCHANGED <<taskVars, threadVars, flagVars, monitor, mistimed, bounds>>

\* BeginProcessing, then StartThread: it forgets a thread that has ended, and throws
\* if the thread is still there.  A resume that is refused has set the state already.
BeginProcessing(t) ==
    /\ step = "begin"
    /\ TaskLockFree(t)
    /\ \/ /\ state[t] = "LoadError"
          /\ NextTask(t)
          /\ UNCHANGED <<pc, kill, mistimed>>
       \/ /\ state[t] # "LoadError" /\ ~Live(t)
          /\ Goes(t, "begin")
          /\ kill' = kill \ {t}
          /\ NextTask(t)
          /\ UNCHANGED mistimed
       \/ /\ state[t] # "LoadError" /\ Live(t)
          /\ Does("idle", {}, FALSE, 0)
          /\ mistimed' = IF op \in Resumes THEN mistimed \cup {t} ELSE mistimed \ {t}
          /\ UNCHANGED <<pc, kill>>
    /\ UNCHANGED <<taskVars, running, flagVars, monitor, bounds>>

\* What was stored is loaded again, or cannot be; then all tasks are retried.
NextSession ==
    /\ op = "closed"
    /\ state' \in [Tasks -> States]
    /\ \A t \in Tasks :
           \/ state'[t] = state[t]
           \/ t \in listed /\ state'[t] = "LoadError"
           \/ t \in listed /\ state[t] = "LoadError" /\ state'[t] \in LoadedStates
    /\ pc' = [t \in Tasks |-> "none"]
    /\ running' = {} /\ kill' = {} /\ cont' = {} /\ force' = {} /\ slot' = {}
    /\ mistimed' = {}
    /\ Does("retry", listed, TRUE, 0)
    /\ UNCHANGED <<listed, fresh, monitor, bounds>>

GuiStep(t) ==
    /\ Current(t)
    /\ \/ PassesOver(t) \/ Decides(t) \/ ResumeProcessing(t)
       \/ RetryProcessing(t) \/ RetryLooksAtThread(t)
       \/ SetForceFlag(t) \/ SetContinueFlag(t) \/ StopThread(t) \/ AwaitThread(t)
       \/ EndsPausedOrCancelled(t) \/ RestartProcessing(t) \/ RemoveTask(t)
       \/ Exits(t) \/ BeginProcessing(t)

UserInterface ==
    \/ TaskButton \/ ListButton \/ CommandLine \/ PrepareToExit
    \/ \E t \in Tasks : CreateTask(t) \/ ImportTask(t)

-----------------------------------------------------------------------------
(* The clipboard monitor: CreateTask, then BeginProcessing *)

MonitorAdds(t) ==
    /\ monitor.task = NoTask
    /\ ~locked /\ op # "closed"
    /\ Lists(t)
    /\ monitor' = [task |-> t, locked |-> FALSE]
    /\ UNCHANGED <<state, threadVars, flagVars, guiVars, mistimed, bounds>>

MonitorLocks ==
    /\ monitor.task # NoTask /\ ~monitor.locked
    /\ monitor' = [monitor EXCEPT !.locked = TRUE]
    /\ UNCHANGED <<taskVars, threadVars, flagVars, guiVars, mistimed, bounds>>

MonitorStarts(t) ==
    /\ monitor.task = t /\ monitor.locked
    /\ ControllerFree(t)
    /\ monitor' = [task |-> NoTask, locked |-> FALSE]
    /\ \/ /\ state[t] # "LoadError" /\ ~Live(t)
          /\ Goes(t, "begin")
          /\ kill' = kill \ {t}
       \/ /\ state[t] = "LoadError" \/ Live(t)
          /\ UNCHANGED <<pc, kill>>
    /\ UNCHANGED <<taskVars, running, flagVars, guiVars, mistimed, bounds>>

Next ==
    \/ UserInterface \/ ResumeWaitingTasks \/ NextSession \/ MonitorLocks
    \/ \E t \in Tasks :
           ThreadStep(t) \/ GuiStep(t) \/ MonitorAdds(t) \/ MonitorStarts(t)

Spec == Init /\ [][Next]_vars

\* Every thread is scheduled, and the timer fires; that there are commands, exits
\* or new tasks is not promised.
Fairness ==
    /\ WF_vars(ResumeWaitingTasks) /\ WF_vars(NextSession) /\ WF_vars(MonitorLocks)
    /\ \A t \in Tasks :
           WF_vars(ThreadStep(t)) /\ WF_vars(GuiStep(t)) /\ WF_vars(MonitorStarts(t))

FairSpec == Spec /\ Fairness
-----------------------------------------------------------------------------
(* Properties *)

Places == {"none", "begin", "scan", "asleep", "granted", "work", "store", "ending", "ended"}
Operations == {"idle", "pause", "cancel", "restart", "resume", "resumeOne", "remove",
               "start", "retry", "commandLine", "grant", "exit", "closed"}
Steps == {"look", "isRunning", "force", "stop", "wait", "stopped", "begin"}

TypeOK ==
    /\ fresh \subseteq Tasks /\ listed \subseteq Tasks /\ fresh \cap listed = {}
    /\ state \in [Tasks -> States]
    /\ pc \in [Tasks -> Places]
    /\ running \subseteq Tasks /\ kill \subseteq Tasks
    /\ cont \subseteq Tasks /\ force \subseteq Tasks /\ slot \subseteq Tasks
    /\ op \in Operations /\ step \in Steps
    /\ todo \subseteq listed /\ locked \in BOOLEAN /\ left \in Nat
    /\ monitor \in [task : Tasks \cup {NoTask}, locked : BOOLEAN]
    /\ mistimed \subseteq Tasks
    /\ commands \in 0..MaxCommands /\ sessions \in 0..MaxSessions

\* What the user has paused or cancelled, and what could not be loaded, is not
\* worked on, whatever thread the task had when it was told so: the state is
\* written only after KillThread has seen the thread end.  (A retry that finds a
\* thread may start the next one for a task that has paused in between.)
StoppedTaskDoesNoWork ==
    \A t \in Tasks \ mistimed :
        state[t] \in {"Paused", "Cancelled", "LoadError"} =>
            pc[t] \notin {"begin", "scan", "asleep", "granted", "work"}

\* "delete only when the thread is finished" (TTaskManager.cpp, RemoveAllFinished):
\* a task that has left the list has no thread that would use it afterwards.
RemovedTaskHasNoThread ==
    \A t \in Tasks : t \notin listed => pc[t] = "none" /\ t \notin kill

\* A kill event is set only while somebody waits, or is about to wait, for the
\* thread: no thread that was started later dies of an old request.
KillHasStopper ==
    \A t \in kill :
        /\ t \in todo
        /\ \/ op = "exit"
           \/ Current(t) /\ step = "wait" /\ op \in {"pause", "cancel", "restart", "remove"}

\* A task that is shown as waiting or processing has a thread that will take it
\* further, once the command that made it so has returned: neither a stop, nor a
\* restart, nor the retry of a new session leaves it behind.  A resume does when
\* StartThread has refused it, which is why mistimed tasks are left out.
ActiveStateHasThread ==
    op = "idle" =>
        \A t \in listed \ mistimed : state[t] \in Active => Live(t)

\* A command always returns: the thread that the user interface waits for does
\* not need anything the user interface holds, and looks at its kill event
\* wherever it can stay long, the wait for the limit included.
CommandsReturn == op # "idle" ~> op = "idle"

\* Continue flags, the count of running tasks and the threads that sleep for
\* them implement a limit on the tasks that work, under which nobody starves.
Slots == INSTANCE TaskSlots WITH
    waiting <- {t \in Tasks : pc[t] = "asleep"},
    holding <- {t \in slot : pc[t] \in {"granted", "work"}}

ImplementsTaskSlots == Slots!Spec

\* StartThread throws when the task's thread is still there, and what the command
\* had still to do is lost.  Restart, a new task, the retry of a new session and the
\* clipboard monitor never meet it.  A resume meets it, and then the thread is on its
\* way out, so that the command can be repeated; and the retry of a command line.
StartRefusedOnlyLate ==
    /\ monitor.task # NoTask => ~Live(monitor.task)
    /\ \A t \in Tasks :
           Current(t) /\ step = "begin" /\ Live(t) =>
               \/ op \in Resumes /\ (pc[t] \in {"store", "ending"} \/ t \in mistimed)
               \/ op = "commandLine"
=================================================================================
