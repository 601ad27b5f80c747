---------------------------- MODULE TaskControlProofs ----------------------------
(***************************************************************************)
(* Proofs about TaskControl, for any number of tasks, any limit and any    *)
(* bounds.  The user is assumed to leave the task alone that the clipboard *)
(* monitor is adding (~EarlyCommands).  The last theorem, about the limit, *)
(* needs two more assumptions, which it states.                            *)
(***************************************************************************)
EXTENDS TaskControl, FiniteSetTheorems, TLAPS

-----------------------------------------------------------------------------
(* The inductive invariant *)

Stopped == {"Paused", "Cancelled", "LoadError"}
Working == {"begin", "scan", "asleep", "granted", "work"}
Stoppers == {"pause", "cancel", "restart", "remove"}

\* What an operation of the user interface can be doing.
GuiShape ==
    /\ op = "idle" <=> todo = {}
    /\ op = "grant" => left > 0
    /\ todo # {} /\ step \in {"stop", "wait", "stopped"} => op \in Stoppers \cup {"exit", "closed"}
    /\ todo # {} /\ step = "begin" => op \in {"start", "restart"} \cup Retries \cup Resumes
    /\ todo # {} /\ step = "isRunning" => op \in Retries
    /\ todo # {} /\ step = "force" => op = "resumeOne"
    /\ op = "closed" => step = "stopped"
    /\ op \in {"exit", "closed", "retry", "grant"} /\ todo # {} => locked

\* The clipboard monitor's task is listed and without a thread, and the user
\* interface does not work on it, except for granting slots.
MonitorApart ==
    /\ op \in {"exit", "closed"} => monitor.task = NoTask
    /\ monitor.task # NoTask =>
         /\ monitor.task \in listed
         /\ state[monitor.task] = "None" /\ ~Live(monitor.task)
         /\ op # "grant" => monitor.task \notin todo

FreshIsNew == \A t \in fresh : state[t] = "None"

RunningIsLive == \A t \in Tasks : t \in running <=> Live(t) /\ pc[t] # "begin"

KillHasThread == \A t \in kill : pc[t] # "none"

\* A thread that was waited for has gone.
StoppedIsGone == \A t \in Tasks : Current(t) /\ step = "stopped" => pc[t] = "none"

\* What is known of a task that is about to be started.  The retry of a command line
\* may come for a thread that is still there, and finds it before anything is changed;
\* a resume may, and has set the state.
Due(t) ==
    /\ op \notin Resumes \cup {"commandLine"} => ~Live(t) /\ state[t] \notin Stopped
    /\ op \in Resumes /\ t \notin mistimed => pc[t] \notin Working /\ state[t] \notin Stopped
    /\ op = "commandLine" =>
         /\ t \notin mistimed => ~Live(t) /\ state[t] \notin Stopped
         /\ state[t] \in Stopped /\ Live(t) => pc[t] \notin Working
         /\ state[t] \in Active /\ pc[t] \in {"store", "ending"} => t \in kill

StartIsDue ==
    /\ \A t \in todo : op \in {"start", "retry"} => ~Live(t)
    /\ \A t \in todo : op = "start" => state[t] = "None"
    /\ \A t \in Tasks : Current(t) /\ step = "isRunning" =>
           (op = "retry" \/ pc[t] = "begin" => state[t] \in Active)
    /\ \A t \in Tasks : Current(t) /\ step = "begin" => Due(t)

\* Who takes an active task further: its thread, the one who stops it, or the one
\* who is about to start it.
ActiveHasSomebody ==
    op \notin {"exit", "closed"} =>
        \A t \in listed \ mistimed : state[t] \in Active =>
            \/ Live(t)
            \/ pc[t] = "ended" /\ t \in kill
            \/ op = "retry" /\ t \in todo
            \/ Current(t) /\ step = "stopped" /\ op \in Stoppers
            \/ Current(t) /\ step = "begin"

\* A thread ends with its task still active only when it was told to stop, or when a
\* resume has come too early.
EndsActiveIfKilled ==
    \A t \in Tasks \ mistimed :
        pc[t] \in {"store", "ending"} /\ state[t] \in Active =>
            t \in kill \/ (Current(t) /\ step = "begin" /\ op \in Resumes)

Inv ==
    /\ TypeOK /\ GuiShape /\ MonitorApart /\ FreshIsNew /\ RunningIsLive /\ KillHasThread
    /\ StoppedIsGone /\ StartIsDue /\ ActiveHasSomebody /\ EndsActiveIfKilled
    /\ KillHasStopper /\ RemovedTaskHasNoThread /\ StoppedTaskDoesNoWork

-----------------------------------------------------------------------------
(* What the steps do *)

USE DEF Retries, Resumes

\* All that the proofs need to know of a thread's step.
LEMMA ThreadStepEffect ==
    ASSUME TypeOK, NEW t \in Tasks, ThreadStep(t)
    PROVE  /\ UNCHANGED <<listed, fresh, kill, guiVars, monitor, mistimed, bounds>>
           /\ Live(t)
           /\ pc' = [pc EXCEPT ![t] = pc'[t]] /\ pc'[t] \in Places \ {"none", "begin"}
           /\ state' = [state EXCEPT ![t] = state'[t]] /\ state'[t] \in States
           /\ pc'[t] \in Working => pc[t] \in Working /\ state'[t] \in Active \cup {state[t]}
           /\ pc'[t] \in {"store", "ending"} /\ state'[t] \in Active =>
                 t \in kill \/ (pc[t] = "store" /\ state'[t] = state[t])
           /\ pc'[t] = "ended" => pc[t] = "ending" /\ state'[t] = state[t]
           /\ pc[t] \notin Working => state'[t] \in {state[t], "Error"}
           /\ running \ {t} \subseteq running' /\ running' \subseteq running \cup {t}
           /\ pc'[t] = "ended" => t \notin running'
           /\ t \in running \/ pc[t] = "begin" => pc'[t] = "ended" \/ t \in running'
           /\ cont' \subseteq cont /\ force' \subseteq force /\ slot' \subseteq slot \cup {t}
<1>1. ThreadFrame
  BY DEF ThreadStep
<1>2. CASE ThreadBegins(t)
  BY <1>1, <1>2 DEF ThreadBegins, TypeOK, ThreadFrame, Goes, Live, Places, Working, flagVars
<1>3. CASE StartsToWait(t) \/ NeedsNoWait(t) \/ CanBegin(t)
  BY <1>1, <1>3 DEF StartsToWait, NeedsNoWait, CanBegin, TypeOK, ThreadFrame, Goes, Sets,
     Live, Places, States, Active, Working, flagVars
<1>4. CASE WaitEnds(t) \/ Killed(t)
  BY <1>1, <1>4 DEF WaitEnds, Killed, TypeOK, ThreadFrame, Goes, Sets, Live, Places,
     States, Active, Working, flagVars
<1>5. CASE Completes(t) \/ Breaks(t) \/ Throws(t)
  BY <1>1, <1>5 DEF Completes, Breaks, Throws, TypeOK, ThreadFrame, Goes, Sets, Live, Places,
     States, Active, Working, flagVars
<1>6. CASE Stores(t) \/ ThreadEnds(t)
  BY <1>1, <1>6 DEF Stores, ThreadEnds, TypeOK, ThreadFrame, Goes, Live, Places, Working, flagVars
<1> QED
  BY <1>2, <1>3, <1>4, <1>5, <1>6 DEF ThreadStep

\* The user's commands for tasks of the list.
Button ==
    \E o \in Stoppers \cup {"resume", "resumeOne", "commandLine"}, ts \in SUBSET listed, lock \in BOOLEAN :
        Commands(o, ts, lock)

LEMMA ButtonEffect ==
    ASSUME TaskButton \/ ListButton \/ CommandLine
    PROVE  Button
BY DEF TaskButton, ListButton, CommandLine, Stoppers, Button

LEMMA TaskNumbers == Tasks \subseteq Nat \ {0}
<1> DEFINE n == Cardinality(Tasks)
<1>1. n \in Nat /\ Tasks = 1..n
  BY TasksAssumption, FS_CardinalityType
<1> HIDE DEF n
<1> QED
  BY <1>1

\* Inv leaves the monitor no other way than to start a thread.
LEMMA MonitorStartsEffect ==
    ASSUME Inv, NEW t \in Tasks, MonitorStarts(t)
    PROVE  /\ t = monitor.task /\ t \in listed /\ state[t] = "None" /\ ~Live(t)
           /\ op \notin {"exit", "closed"} /\ (op # "grant" => t \notin todo)
           /\ monitor' = [task |-> NoTask, locked |-> FALSE]
           /\ pc' = [pc EXCEPT ![t] = "begin"] /\ kill' = kill \ {t}
           /\ UNCHANGED <<taskVars, running, flagVars, guiVars, mistimed, bounds>>
<1>1. t # NoTask /\ t = monitor.task
  BY TaskNumbers DEF MonitorStarts, NoTask
<1>2. t \in listed /\ state[t] = "None" /\ ~Live(t)
  BY <1>1 DEF Inv, MonitorApart
<1>3. op \notin {"exit", "closed"} /\ (op # "grant" => t \notin todo)
  BY <1>1 DEF Inv, MonitorApart
<1> QED
  BY <1>1, <1>2, <1>3 DEF MonitorStarts, Goes

\* A stop does not come upon a thread whose end somebody else waits for.
LEMMA StopThreadEffect ==
    ASSUME TypeOK, NEW t \in Tasks, StopThread(t)
    PROVE  /\ step = "stop" /\ UNCHANGED <<op, todo, locked, left>>
           /\ \/ /\ Live(t) /\ step' = "wait" /\ pc' = pc /\ kill' = kill \cup {t}
              \/ /\ pc[t] = "ended" /\ step' = "stopped"
                 /\ pc' = [pc EXCEPT ![t] = "none"] /\ kill' = kill \ {t}
              \/ /\ pc[t] = "none" /\ step' = "stopped" /\ pc' = pc /\ kill' = kill
           /\ mistimed' = IF step' = "wait" THEN mistimed ELSE mistimed \ {t}
           /\ UNCHANGED <<taskVars, running, flagVars, monitor, bounds>>
<1>1. CASE Live(t)
  BY <1>1 DEF StopThread, GoesTo, TypeOK, Live
<1>2. CASE pc[t] = "ended"
  BY <1>2 DEF StopThread, GoesTo, TypeOK, Live
<1>3. CASE pc[t] = "none"
  BY <1>3 DEF StopThread, GoesTo, TypeOK, Live
<1> QED
  BY <1>1, <1>2, <1>3 DEF Live

\* Of two tasks a loop has come to only one.
LEMMA CurrentUnique ==
    ASSUME NEW t \in Tasks, NEW u \in Tasks, Current(t), Current(u)
    PROVE  t = u
BY TaskNumbers DEF Current

-----------------------------------------------------------------------------
(* Every step keeps the invariant, conjunct by conjunct *)

GuiTyped ==
    /\ op \in Operations /\ step \in Steps
    /\ todo \subseteq listed /\ locked \in BOOLEAN /\ left \in Nat

\* The ways in which an operation goes on leave it well-typed.
LEMMA MovesTyped ==
    ASSUME TypeOK, NEW t \in Tasks, UNCHANGED listed
    PROVE  /\ \A o \in Operations, ts \in SUBSET listed, lock \in BOOLEAN, l \in Nat :
                  Does(o, ts, lock, l) => GuiTyped'
           /\ NextTask(t) => GuiTyped'
           /\ \A s \in Steps : GoesTo(s) => GuiTyped'
<1>1. ASSUME NEW o \in Operations, NEW ts \in SUBSET listed, NEW lock \in BOOLEAN,
             NEW l \in Nat, Does(o, ts, lock, l)
      PROVE  GuiTyped'
  BY <1>1 DEF Does, Operations, Steps, GuiTyped
<1>2. ASSUME NextTask(t)
      PROVE  GuiTyped'
  BY <1>1, <1>2 DEF NextTask, TypeOK
<1>3. ASSUME NEW s \in Steps, GoesTo(s)
      PROVE  GuiTyped'
  BY <1>3 DEF GoesTo, TypeOK, GuiTyped
<1> QED
  BY <1>1, <1>2, <1>3

\* Every variable keeps its type.
LEMMA TypeOKKept ==
    ASSUME Inv, ~EarlyCommands, [Next]_vars
    PROVE  TypeOK'
<1>1. ASSUME NEW t \in Tasks, ThreadStep(t)
      PROVE  TypeOK'
  BY <1>1, ThreadStepEffect DEF Inv, TypeOK, guiVars, bounds
<1>2. CASE Button
  <2>1. PICK o \in Stoppers \cup {"resume", "resumeOne", "commandLine"}, ts \in SUBSET listed,
              lock \in BOOLEAN : Commands(o, ts, lock)
    BY <1>2 DEF Button
  <2>2. /\ op' \in Operations
        /\ step' \in Steps
        /\ todo' \subseteq listed
        /\ locked' \in BOOLEAN
        /\ left' \in Nat
    BY <2>1 DEF Commands, Does, Operations, Steps, Stoppers
  <2>3. commands' \in 0..MaxCommands
    BY <2>1, BoundsAssumption DEF Commands, Inv, TypeOK
  <2> QED
    BY <2>1, <2>2, <2>3 DEF Commands, Inv, TypeOK, taskVars, threadVars, flagVars
<1>3. ASSUME NEW t \in Tasks, CreateTask(t)
      PROVE  TypeOK'
  BY <1>3
     DEF Inv, TypeOK, CreateTask, Operations, Steps, Does, Lists, NextNumber, bounds,
         flagVars, threadVars, taskVars
<1>4. ASSUME NEW t \in Tasks, ImportTask(t)
      PROVE  TypeOK'
  <2>1. commands' \in 0..MaxCommands
    BY <1>4, BoundsAssumption DEF ImportTask, Inv, TypeOK
  <2>2. fresh' \subseteq Tasks /\ listed' \subseteq Tasks /\ fresh' \cap listed' = {}
    BY <1>4 DEF ImportTask, Lists, NextNumber, Inv, TypeOK
  <2>3. GuiTyped'
    BY <1>4 DEF ImportTask, Does, Operations, Steps, GuiTyped
  <2> QED
    BY <1>4, <2>1, <2>2, <2>3 DEF GuiTyped, ImportTask, Inv, TypeOK, threadVars, flagVars
<1>5. CASE ResumeWaitingTasks
  <2>1. /\ op' \in Operations
        /\ step' \in Steps
        /\ todo' \subseteq listed
        /\ locked' \in BOOLEAN
    BY <1>5 DEF ResumeWaitingTasks, Does, Operations, Steps
  <2>2. left' \in Nat
    <3>1. Cardinality(Tasks) \in Nat /\ Cardinality(RunningTasks) \in Nat
      <4>1. RunningTasks \subseteq Tasks
        BY <1>5 DEF RunningTasks, Inv, TypeOK
      <4> QED
        BY <1>5, <4>1, TasksAssumption, FS_Subset, FS_CardinalityType
    <3> HIDE DEF RunningTasks
    <3> QED
      BY <1>5, <3>1, LimitAssumption DEF ResumeWaitingTasks, Does
  <2> QED
    BY <1>5, <2>1, <2>2
       DEF ResumeWaitingTasks, Inv, TypeOK, taskVars, threadVars, flagVars, bounds
<1>6. CASE PrepareToExit
  BY <1>6, BoundsAssumption
     DEF Inv, TypeOK, PrepareToExit, Operations, States, Steps, Does, Live, flagVars,
         taskVars, threadVars
<1>7. CASE NextSession
  BY <1>7 DEF Inv, TypeOK, NextSession, Operations, Places, Steps, Does, bounds
<1>8. CASE MonitorLocks
  <2>1. monitor' \in [task : Tasks \cup {NoTask}, locked : BOOLEAN]
    BY <1>8 DEF Inv, TypeOK, MonitorLocks
  <2> QED
    BY <1>8, <2>1
       DEF MonitorLocks, Inv, TypeOK, taskVars, threadVars, flagVars, bounds, guiVars
<1>9. ASSUME NEW t \in Tasks, MonitorAdds(t)
      PROVE  TypeOK'
  BY <1>9 DEF Inv, TypeOK, MonitorAdds, Lists, bounds, flagVars, guiVars, threadVars
<1>10. ASSUME NEW t \in Tasks, MonitorStarts(t)
       PROVE  TypeOK'
  <2>1. pc' \in [Tasks -> Places]
    BY <1>10, MonitorStartsEffect DEF Inv, TypeOK, Places
  <2>2. kill' \subseteq Tasks
    BY <1>10, MonitorStartsEffect DEF Inv, TypeOK
  <2>3. monitor' \in [task : Tasks \cup {NoTask}, locked : BOOLEAN]
    BY <1>10, MonitorStartsEffect DEF MonitorStarts
  <2> QED
    BY <1>10, <2>1, <2>2, <2>3, MonitorStartsEffect
       DEF Inv, TypeOK, taskVars, flagVars, bounds, guiVars
<1>11. ASSUME NEW t \in Tasks, Current(t), PassesOver(t)
       PROVE  TypeOK'
  BY <1>11
     DEF Inv, TypeOK, PassesOver, Operations, Does, NextTask, bounds, flagVars, taskVars,
         threadVars, guiVars
<1>12. ASSUME NEW t \in Tasks, Current(t), Decides(t)
       PROVE  TypeOK'
  BY <1>12
     DEF Inv, TypeOK, Decides, Steps, GoesTo, bounds, flagVars, taskVars, threadVars,
         guiVars
<1>13. ASSUME NEW t \in Tasks, Current(t), ResumeProcessing(t)
       PROVE  TypeOK'
  BY <1>13
     DEF Inv, TypeOK, ResumeProcessing, States, Steps, GoesTo, Live, Sets, TaskLockFree,
         bounds, flagVars, threadVars
<1>14. ASSUME NEW t \in Tasks, Current(t), RetryProcessing(t) \/ RetryLooksAtThread(t)
       PROVE  TypeOK'
  <2>1. GuiTyped'
    BY <1>14, MovesTyped DEF RetryProcessing, RetryBegins, RetryLooksAtThread, Inv, Steps, taskVars
  <2> QED
    BY <1>14, <2>1
       DEF GuiTyped, RetryProcessing, RetryBegins, RetryLooksAtThread, Inv, TypeOK, taskVars, threadVars, flagVars, bounds
<1>15. ASSUME NEW t \in Tasks, Current(t), SetForceFlag(t)
       PROVE  TypeOK'
  BY <1>15
     DEF Inv, TypeOK, SetForceFlag, Operations, Steps, Does, NextTask, TaskLockFree, bounds,
         taskVars, threadVars, flagVars
<1>16. ASSUME NEW t \in Tasks, Current(t), SetContinueFlag(t)
       PROVE  TypeOK'
  <2>1. GuiTyped'
    <3>1. listed' = listed /\ todo \ {t} \in SUBSET listed /\ {} \in SUBSET listed
      BY <1>16 DEF SetContinueFlag, Inv, TypeOK, taskVars
    <3>2. CASE left = 1
      BY <1>16, <3>1, <3>2, MovesTyped DEF SetContinueFlag, Inv, Operations
    <3>3. CASE left # 1
      <4>1. left - 1 \in Nat
        BY <1>16, <3>3 DEF SetContinueFlag, GuiShape, Inv, TypeOK
      <4> QED
        BY <1>16, <3>1, <3>3, <4>1, MovesTyped DEF SetContinueFlag, Inv, TypeOK
    <3> QED
      BY <3>2, <3>3
  <2> QED
    BY <1>16, <2>1
       DEF GuiTyped, SetContinueFlag, Inv, TypeOK, taskVars, threadVars, flagVars, bounds
<1>17. ASSUME NEW t \in Tasks, Current(t), StopThread(t)
       PROVE  TypeOK'
  BY <1>17
     DEF Inv, TypeOK, StopThread, Places, Steps, GoesTo, Live, bounds, flagVars, taskVars
<1>18. ASSUME NEW t \in Tasks, Current(t), AwaitThread(t)
       PROVE  TypeOK'
  BY <1>18
     DEF Inv, TypeOK, AwaitThread, Places, Steps, Goes, GoesTo, bounds, flagVars, taskVars
<1>19. ASSUME NEW t \in Tasks, Current(t), EndsPausedOrCancelled(t)
       PROVE  TypeOK'
  BY <1>19
     DEF Inv, TypeOK, EndsPausedOrCancelled, Operations, States, Steps, Does, NextTask,
         Sets, TaskLockFree, bounds, flagVars, threadVars
<1>20. ASSUME NEW t \in Tasks, Current(t), RestartProcessing(t)
       PROVE  TypeOK'
  BY <1>20
     DEF Inv, TypeOK, RestartProcessing, States, Steps, GoesTo, Sets, TaskLockFree, bounds,
         flagVars
<1>21. ASSUME NEW t \in Tasks, Current(t), RemoveTask(t)
       PROVE  TypeOK'
  BY <1>21
     DEF Inv, TypeOK, RemoveTask, Operations, Steps, Does, NextTask, bounds, flagVars,
         threadVars
<1>22. ASSUME NEW t \in Tasks, Current(t), Exits(t)
       PROVE  TypeOK'
  <2>1. GuiTyped'
    <3>1. CASE NextTask(t)
      BY <1>22, <3>1, MovesTyped DEF Exits, Inv, taskVars
    <3>2. CASE ~NextTask(t)
      BY <1>22, <3>2 DEF Exits, Inv, taskVars, TypeOK, GuiTyped, Operations
    <3> QED
      BY <3>1, <3>2
  <2> QED
    BY <1>22, <2>1 DEF GuiTyped, Exits, Inv, TypeOK, taskVars, threadVars, flagVars, bounds
<1>23. ASSUME NEW t \in Tasks, Current(t), BeginProcessing(t)
       PROVE  TypeOK'
  <2>1. GuiTyped'
    <3>1. listed' = listed /\ {} \in SUBSET listed
      BY <1>23 DEF BeginProcessing, taskVars
    <3> QED
      BY <1>23, <3>1, MovesTyped DEF BeginProcessing, Inv, Operations
  <2>2. pc' \in [Tasks -> Places] /\ kill' \subseteq Tasks /\ mistimed' \subseteq Tasks
    BY <1>23 DEF BeginProcessing, Goes, Inv, TypeOK, Places
  <2> QED
    BY <1>23, <2>1, <2>2
       DEF GuiTyped, BeginProcessing, Inv, TypeOK, taskVars, flagVars, bounds
<1>24. CASE UNCHANGED vars
  BY <1>24 DEF Inv, TypeOK, vars, taskVars, threadVars, flagVars, guiVars, bounds
<1> QED
  BY <1>1, <1>2, <1>3, <1>4, <1>5, <1>6, <1>7, <1>8, <1>9, <1>10, <1>11, <1>12, <1>13,
     <1>14, <1>15, <1>16, <1>17, <1>18, <1>19, <1>20, <1>21, <1>22, <1>23, <1>24,
     ButtonEffect
     DEF Next, UserInterface, GuiStep

\* An operation of the user interface is where its kind can be.
LEMMA GuiShapeKept ==
    ASSUME Inv, ~EarlyCommands, [Next]_vars
    PROVE  GuiShape'
<1>1. ASSUME NEW t \in Tasks, ThreadStep(t)
      PROVE  GuiShape'
  BY <1>1, ThreadStepEffect DEF Inv, GuiShape, guiVars
<1>2. CASE Button
  BY <1>2 DEF GuiShape, Button, Stoppers, Commands, Does
<1>3. ASSUME NEW t \in Tasks, CreateTask(t)
      PROVE  GuiShape'
  BY <1>3 DEF GuiShape, CreateTask, Does
<1>4. ASSUME NEW t \in Tasks, ImportTask(t)
      PROVE  GuiShape'
  BY <1>4 DEF ImportTask, Does, GuiShape, Stoppers
<1>5. CASE ResumeWaitingTasks
  <2>1. op' = "grant" => left' > 0
      <4>1. RunningTasks \subseteq Tasks
        BY <1>5 DEF RunningTasks, Inv, TypeOK
      <4>2. Cardinality(Tasks) \in Nat /\ Cardinality(RunningTasks) \in Nat
        BY <1>5, <4>1, TasksAssumption, FS_Subset, FS_CardinalityType
      <4> QED
        BY <1>5, <4>2, LimitAssumption DEF ResumeWaitingTasks, Does
  <2> QED
    BY <1>5, <2>1 DEF ResumeWaitingTasks, Does, GuiShape, Stoppers
<1>6. CASE PrepareToExit
  BY <1>6 DEF PrepareToExit, Does, GuiShape, Stoppers
<1>7. CASE NextSession
  BY <1>7 DEF Inv, TypeOK, GuiShape, NextSession, Does
<1>8. CASE \/ MonitorLocks
           \/ \E t \in Tasks :
                  \/ MonitorAdds(t) \/ MonitorStarts(t)
  BY <1>8 DEF Inv, GuiShape, MonitorLocks, MonitorAdds, MonitorStarts, guiVars
<1>9. ASSUME NEW t \in Tasks, Current(t), PassesOver(t)
      PROVE  GuiShape'
  BY <1>9 DEF Inv, TypeOK, GuiShape, PassesOver, Does, NextTask
<1>10. ASSUME NEW t \in Tasks, Current(t), Decides(t)
       PROVE  GuiShape'
  BY <1>10 DEF Inv, GuiShape, Decides, Stoppers, GoesTo
<1>11. ASSUME NEW t \in Tasks, Current(t), ResumeProcessing(t)
       PROVE  GuiShape'
  BY <1>11 DEF Inv, GuiShape, ResumeProcessing, GoesTo
<1>12. ASSUME NEW t \in Tasks, Current(t), RetryProcessing(t) \/ RetryLooksAtThread(t)
       PROVE  GuiShape'
  BY <1>12 DEF Inv, TypeOK, GuiShape, RetryProcessing, RetryBegins, RetryLooksAtThread, Does, GoesTo, NextTask
<1>13. ASSUME NEW t \in Tasks, Current(t), SetForceFlag(t)
       PROVE  GuiShape'
  BY <1>13 DEF Inv, GuiShape, SetForceFlag, Does, NextTask
<1>14. ASSUME NEW t \in Tasks, Current(t), SetContinueFlag(t)
       PROVE  GuiShape'
  BY <1>14 DEF Inv, TypeOK, GuiShape, SetContinueFlag, Does
<1>15. ASSUME NEW t \in Tasks, Current(t), StopThread(t)
       PROVE  GuiShape'
  BY <1>15 DEF Inv, GuiShape, StopThread, GoesTo
<1>16. ASSUME NEW t \in Tasks, Current(t), AwaitThread(t)
       PROVE  GuiShape'
  BY <1>16 DEF Inv, GuiShape, AwaitThread, GoesTo
<1>17. ASSUME NEW t \in Tasks, Current(t), EndsPausedOrCancelled(t)
       PROVE  GuiShape'
  BY <1>17 DEF GuiShape, EndsPausedOrCancelled, Does, NextTask
<1>18. ASSUME NEW t \in Tasks, Current(t), RestartProcessing(t)
       PROVE  GuiShape'
  BY <1>18 DEF Inv, GuiShape, RestartProcessing, GoesTo
<1>19. ASSUME NEW t \in Tasks, Current(t), RemoveTask(t)
       PROVE  GuiShape'
  BY <1>19 DEF GuiShape, RemoveTask, Does, NextTask
<1>20. ASSUME NEW t \in Tasks, Current(t), Exits(t)
       PROVE  GuiShape'
  BY <1>20 DEF Inv, TypeOK, GuiShape, Exits, Does, NextTask
<1>21. ASSUME NEW t \in Tasks, Current(t), BeginProcessing(t)
       PROVE  GuiShape'
  BY <1>21 DEF Inv, TypeOK, GuiShape, BeginProcessing, Does, NextTask
<1>22. CASE UNCHANGED vars
  BY <1>22 DEF Inv, GuiShape, vars, taskVars, threadVars, flagVars, guiVars, bounds
<1> QED
  BY <1>1, <1>2, <1>3, <1>4, <1>5, <1>6, <1>7, <1>8, <1>9, <1>10, <1>11, <1>12, <1>13,
     <1>14, <1>15, <1>16, <1>17, <1>18, <1>19, <1>20, <1>21, <1>22, ButtonEffect
     DEF Next, UserInterface, GuiStep

\* The task that the clipboard monitor adds is left alone.
LEMMA MonitorApartKept ==
    ASSUME Inv, ~EarlyCommands, [Next]_vars
    PROVE  MonitorApart'
<1>1. ASSUME NEW t \in Tasks, ThreadStep(t)
      PROVE  MonitorApart'
  BY <1>1, ThreadStepEffect DEF Inv, TypeOK, MonitorApart, Live, guiVars
<1>2. CASE Button
  BY <1>2
     DEF Inv, MonitorApart, Button, Live, NoTask, Commands, Does, Untouched, flagVars,
         taskVars, threadVars, Stoppers
<1>3. ASSUME NEW t \in Tasks, CreateTask(t)
      PROVE  MonitorApart'
  BY <1>3
     DEF Inv, TypeOK, MonitorApart, CreateTask, Live, Does, Lists, NextNumber, threadVars
<1>4. ASSUME NEW t \in Tasks, ImportTask(t)
      PROVE  MonitorApart'
  BY <1>4 DEF Inv, MonitorApart, ImportTask, Untouched
<1>5. CASE ResumeWaitingTasks
  BY <1>5 DEF Inv, MonitorApart, ResumeWaitingTasks, Live, Does, taskVars, threadVars
<1>6. CASE PrepareToExit
  BY <1>6 DEF MonitorApart, PrepareToExit
<1>7. CASE NextSession
  BY <1>7 DEF Inv, MonitorApart, NextSession
<1>8. CASE MonitorLocks
  BY <1>8 DEF Inv, MonitorApart, MonitorLocks, Live, guiVars, taskVars, threadVars
<1>9. ASSUME NEW t \in Tasks, MonitorAdds(t)
      PROVE  MonitorApart'
  BY <1>9
     DEF Inv, TypeOK, MonitorApart, MonitorAdds, Live, Lists, NextNumber, guiVars,
         threadVars, GuiShape, FreshIsNew, RemovedTaskHasNoThread, taskVars
<1>10. ASSUME NEW t \in Tasks, MonitorStarts(t)
       PROVE  MonitorApart'
  BY <1>10 DEF MonitorApart, MonitorStarts
<1>11. ASSUME NEW t \in Tasks, Current(t), PassesOver(t)
       PROVE  MonitorApart'
  BY <1>11 DEF Inv, MonitorApart, PassesOver, Live, Does, NextTask, taskVars, threadVars
<1>12. ASSUME NEW t \in Tasks, Current(t), Decides(t)
       PROVE  MonitorApart'
  BY <1>12 DEF Inv, MonitorApart, Decides, Live, GoesTo, taskVars, threadVars
<1>13. ASSUME NEW t \in Tasks, Current(t), ResumeProcessing(t)
       PROVE  MonitorApart'
  BY <1>13 DEF Inv, MonitorApart, ResumeProcessing, Live, GoesTo, Sets, threadVars
<1>14. ASSUME NEW t \in Tasks, Current(t), RetryProcessing(t) \/ RetryLooksAtThread(t)
       PROVE  MonitorApart'
  BY <1>14
     DEF Inv, MonitorApart, RetryProcessing, RetryBegins, RetryLooksAtThread, Live, Does, GoesTo, NextTask, taskVars,
         threadVars
<1>15. ASSUME NEW t \in Tasks, Current(t), SetForceFlag(t)
       PROVE  MonitorApart'
  BY <1>15 DEF Inv, MonitorApart, SetForceFlag, Live, Does, NextTask, taskVars, threadVars
<1>16. ASSUME NEW t \in Tasks, Current(t), SetContinueFlag(t)
       PROVE  MonitorApart'
  BY <1>16 DEF Inv, MonitorApart, SetContinueFlag, Live, Does, taskVars, threadVars
<1>17. ASSUME NEW t \in Tasks, Current(t), StopThread(t)
       PROVE  MonitorApart'
  BY <1>17 DEF Inv, MonitorApart, StopThread, Live, GoesTo, taskVars
<1>18. ASSUME NEW t \in Tasks, Current(t), AwaitThread(t)
       PROVE  MonitorApart'
  BY <1>18 DEF Inv, MonitorApart, AwaitThread, Live, Goes, GoesTo, taskVars
<1>19. ASSUME NEW t \in Tasks, Current(t), EndsPausedOrCancelled(t)
       PROVE  MonitorApart'
  BY <1>19
     DEF Inv, MonitorApart, EndsPausedOrCancelled, Live, Does, NextTask, Sets, TaskLockFree,
         threadVars, GuiShape, Current, RemovedTaskHasNoThread
<1>20. ASSUME NEW t \in Tasks, Current(t), RestartProcessing(t)
       PROVE  MonitorApart'
  BY <1>20 DEF Inv, MonitorApart, RestartProcessing, Live, GoesTo, Sets
<1>21. ASSUME NEW t \in Tasks, Current(t), RemoveTask(t)
       PROVE  MonitorApart'
  BY <1>21
     DEF Inv, MonitorApart, RemoveTask, Live, Does, NextTask, threadVars, GuiShape, Current,
         RemovedTaskHasNoThread
<1>22. ASSUME NEW t \in Tasks, Current(t), Exits(t)
       PROVE  MonitorApart'
  BY <1>22 DEF Inv, MonitorApart, Exits
<1>23. ASSUME NEW t \in Tasks, Current(t), BeginProcessing(t)
       PROVE  MonitorApart'
  BY <1>23
     DEF Inv, TypeOK, MonitorApart, BeginProcessing, Live, Does, Goes, NextTask,
         TaskLockFree, taskVars, GuiShape, Current, RemovedTaskHasNoThread
<1>24. CASE UNCHANGED vars
  BY <1>24
     DEF Inv, MonitorApart, Live, vars, taskVars, threadVars, flagVars, guiVars, bounds
<1> QED
  BY <1>1, <1>2, <1>3, <1>4, <1>5, <1>6, <1>7, <1>8, <1>9, <1>10, <1>11, <1>12, <1>13,
     <1>14, <1>15, <1>16, <1>17, <1>18, <1>19, <1>20, <1>21, <1>22, <1>23, <1>24,
     ButtonEffect
     DEF Next, UserInterface, GuiStep

\* A task that does not exist yet has no state.
LEMMA FreshIsNewKept ==
    ASSUME Inv, ~EarlyCommands, [Next]_vars
    PROVE  FreshIsNew'
<1>1. ASSUME NEW t \in Tasks, ThreadStep(t)
      PROVE  FreshIsNew'
  <2>1. t \notin fresh
    BY <1>1, ThreadStepEffect DEF Inv, RemovedTaskHasNoThread, TypeOK, Live
  <2> QED
    BY <1>1, <2>1, ThreadStepEffect DEF Inv, FreshIsNew, TypeOK
<1>2. CASE \/ Button \/ ResumeWaitingTasks \/ PrepareToExit
           \/ MonitorLocks
           \/ \E t \in Tasks :
                  \/ MonitorStarts(t) \/ PassesOver(t) \/ Decides(t)
                  \/ RetryProcessing(t) \/ RetryLooksAtThread(t) \/ SetForceFlag(t) \/ SetContinueFlag(t)
                  \/ StopThread(t) \/ AwaitThread(t) \/ RemoveTask(t)
                  \/ Exits(t) \/ BeginProcessing(t)
  BY <1>2
     DEF Inv, FreshIsNew, Button, ResumeWaitingTasks, PrepareToExit, MonitorLocks,
         MonitorStarts, PassesOver, Decides, RetryProcessing, RetryBegins, RetryLooksAtThread, SetForceFlag,
         SetContinueFlag, StopThread, AwaitThread, RemoveTask, Exits, BeginProcessing,
         Commands, Does, taskVars, bounds, guiVars, Goes, NextTask, GoesTo
<1>3. ASSUME NEW t \in Tasks, CreateTask(t)
      PROVE  FreshIsNew'
  BY <1>3 DEF Inv, FreshIsNew, CreateTask, Lists
<1>4. ASSUME NEW t \in Tasks, ImportTask(t)
      PROVE  FreshIsNew'
  BY <1>4 DEF Inv, FreshIsNew, ImportTask, Lists
<1>5. CASE NextSession
  BY <1>5 DEF Inv, TypeOK, FreshIsNew, NextSession
<1>6. ASSUME NEW t \in Tasks, MonitorAdds(t)
      PROVE  FreshIsNew'
  BY <1>6 DEF Inv, FreshIsNew, MonitorAdds, Lists
<1>7. ASSUME NEW t \in Tasks, Current(t), ResumeProcessing(t)
      PROVE  FreshIsNew'
  BY <1>7 DEF Inv, FreshIsNew, ResumeProcessing, Sets
<1>8. ASSUME NEW t \in Tasks, Current(t), EndsPausedOrCancelled(t)
      PROVE  FreshIsNew'
  <2>1. t \notin fresh
    BY <1>8 DEF Current, Inv, TypeOK
  <2> QED
    BY <1>8, <2>1 DEF EndsPausedOrCancelled, Sets, Inv, FreshIsNew, TypeOK
<1>9. ASSUME NEW t \in Tasks, Current(t), RestartProcessing(t)
      PROVE  FreshIsNew'
  BY <1>9 DEF Inv, FreshIsNew, RestartProcessing, Sets
<1>10. CASE UNCHANGED vars
  BY <1>10 DEF Inv, FreshIsNew, vars, taskVars, threadVars, flagVars, guiVars, bounds
<1> QED
  BY <1>1, <1>2, <1>3, <1>4, <1>5, <1>6, <1>7, <1>8, <1>9, <1>10, ButtonEffect
     DEF Next, UserInterface, GuiStep

\* Only a thread that has begun is said to run.
LEMMA RunningIsLiveKept ==
    ASSUME Inv, ~EarlyCommands, [Next]_vars
    PROVE  RunningIsLive'
<1>1. ASSUME NEW t \in Tasks, ThreadStep(t)
      PROVE  RunningIsLive'
  BY <1>1, ThreadStepEffect DEF Inv, TypeOK, RunningIsLive, Live
<1>2. CASE \/ Button \/ ResumeWaitingTasks \/ PrepareToExit
           \/ MonitorLocks
           \/ \E t \in Tasks :
                  \/ CreateTask(t) \/ ImportTask(t) \/ MonitorAdds(t)
                  \/ PassesOver(t) \/ Decides(t) \/ ResumeProcessing(t)
                  \/ RetryProcessing(t) \/ RetryLooksAtThread(t) \/ SetForceFlag(t) \/ SetContinueFlag(t)
                  \/ EndsPausedOrCancelled(t) \/ RemoveTask(t) \/ Exits(t)
  BY <1>2
     DEF Inv, RunningIsLive, Button, CreateTask, ImportTask, ResumeWaitingTasks,
         PrepareToExit, MonitorLocks, MonitorAdds, PassesOver, Decides, ResumeProcessing,
         RetryProcessing, RetryBegins, RetryLooksAtThread, SetForceFlag, SetContinueFlag, EndsPausedOrCancelled,
         RemoveTask, Exits, Live, Commands, Does, taskVars, threadVars, Lists, bounds,
         guiVars, NextTask, GoesTo, Sets
<1>3. CASE NextSession
  BY <1>3 DEF RunningIsLive, NextSession, Live
<1>4. ASSUME NEW t \in Tasks, MonitorStarts(t)
      PROVE  RunningIsLive'
  BY <1>4 DEF Inv, TypeOK, RunningIsLive, MonitorStarts, Live, Goes
<1>5. ASSUME NEW t \in Tasks, Current(t), StopThread(t)
      PROVE  RunningIsLive'
  BY <1>5 DEF Inv, RunningIsLive, StopThread, Live
<1>6. ASSUME NEW t \in Tasks, Current(t), AwaitThread(t)
      PROVE  RunningIsLive'
  BY <1>6 DEF Inv, RunningIsLive, AwaitThread, Live, Goes
<1>7. ASSUME NEW t \in Tasks, Current(t), RestartProcessing(t)
      PROVE  RunningIsLive'
  BY <1>7 DEF Inv, RunningIsLive, RestartProcessing, StoppedIsGone, Live
<1>8. ASSUME NEW t \in Tasks, Current(t), BeginProcessing(t)
      PROVE  RunningIsLive'
  BY <1>8 DEF Inv, TypeOK, RunningIsLive, BeginProcessing, Live, Does, Goes
<1>9. CASE UNCHANGED vars
  BY <1>9
     DEF Inv, RunningIsLive, Live, vars, taskVars, threadVars, flagVars, guiVars, bounds
<1> QED
  BY <1>1, <1>2, <1>3, <1>4, <1>5, <1>6, <1>7, <1>8, <1>9, ButtonEffect
     DEF Next, UserInterface, GuiStep

\* A kill event is set for a thread.
LEMMA KillHasThreadKept ==
    ASSUME Inv, ~EarlyCommands, [Next]_vars
    PROVE  KillHasThread'
<1>1. ASSUME NEW t \in Tasks, ThreadStep(t)
      PROVE  KillHasThread'
  BY <1>1, ThreadStepEffect DEF Inv, TypeOK, KillHasThread
<1>2. CASE \/ Button \/ ResumeWaitingTasks \/ MonitorLocks
           \/ \E t \in Tasks :
                  \/ CreateTask(t) \/ ImportTask(t) \/ MonitorAdds(t)
                  \/ PassesOver(t) \/ Decides(t) \/ ResumeProcessing(t)
                  \/ RetryProcessing(t) \/ RetryLooksAtThread(t) \/ SetForceFlag(t) \/ SetContinueFlag(t)
                  \/ EndsPausedOrCancelled(t) \/ RestartProcessing(t) \/ RemoveTask(t)
                  \/ Exits(t)
  BY <1>2
     DEF Inv, KillHasThread, Button, CreateTask, ImportTask, ResumeWaitingTasks,
         MonitorLocks, MonitorAdds, PassesOver, Decides, ResumeProcessing,
         RetryProcessing, RetryBegins, RetryLooksAtThread, SetForceFlag, SetContinueFlag, EndsPausedOrCancelled,
         RestartProcessing, RemoveTask, Exits, Commands, Does, taskVars, threadVars, Lists,
         bounds, guiVars, NextTask, GoesTo, Sets
<1>3. CASE PrepareToExit
  BY <1>3 DEF Inv, KillHasThread, PrepareToExit, Live
<1>4. CASE NextSession
  BY <1>4 DEF KillHasThread, NextSession
<1>5. ASSUME NEW t \in Tasks, MonitorStarts(t)
      PROVE  KillHasThread'
  BY <1>5 DEF Inv, TypeOK, KillHasThread, MonitorStarts, Goes
<1>6. ASSUME NEW t \in Tasks, Current(t), StopThread(t)
      PROVE  KillHasThread'
  BY <1>6 DEF Inv, KillHasThread, StopThread, Live
<1>7. ASSUME NEW t \in Tasks, Current(t), AwaitThread(t)
      PROVE  KillHasThread'
  BY <1>7 DEF Inv, KillHasThread, AwaitThread, Goes
<1>8. ASSUME NEW t \in Tasks, Current(t), BeginProcessing(t)
      PROVE  KillHasThread'
  BY <1>8 DEF Inv, TypeOK, KillHasThread, BeginProcessing, Does, Goes
<1>9. CASE UNCHANGED vars
  BY <1>9 DEF Inv, KillHasThread, vars, taskVars, threadVars, flagVars, guiVars, bounds
<1> QED
  BY <1>1, <1>2, <1>3, <1>4, <1>5, <1>6, <1>7, <1>8, <1>9, ButtonEffect
     DEF Next, UserInterface, GuiStep

\* A thread that was waited for has gone.
LEMMA StoppedIsGoneKept ==
    ASSUME Inv, ~EarlyCommands, [Next]_vars
    PROVE  StoppedIsGone'
<1>1. ASSUME NEW t \in Tasks, ThreadStep(t)
      PROVE  StoppedIsGone'
  <2>1. \A u \in Tasks : Current(u)' <=> Current(u)
    BY <1>1, ThreadStepEffect DEF Inv, Current, guiVars
  <2> QED
    BY <1>1, <2>1, ThreadStepEffect DEF Inv, StoppedIsGone, TypeOK, Live, guiVars
<1>2. CASE Button
  BY <1>2 DEF StoppedIsGone, Button, Commands, Does
<1>3. ASSUME NEW t \in Tasks, CreateTask(t)
      PROVE  StoppedIsGone'
  BY <1>3 DEF StoppedIsGone, CreateTask, Does
<1>4. ASSUME NEW t \in Tasks, ImportTask(t)
      PROVE  StoppedIsGone'
  BY <1>4 DEF StoppedIsGone, ImportTask, Does
<1>5. CASE ResumeWaitingTasks
  BY <1>5 DEF StoppedIsGone, ResumeWaitingTasks, Does
<1>6. CASE PrepareToExit
  BY <1>6 DEF StoppedIsGone, PrepareToExit, Does
<1>7. CASE NextSession
  BY <1>7 DEF StoppedIsGone, NextSession
<1>8. CASE \/ MonitorLocks
           \/ \E t \in Tasks :
                  \/ MonitorAdds(t)
  BY <1>8 DEF Inv, StoppedIsGone, MonitorLocks, MonitorAdds, Current, guiVars, threadVars
<1>9. ASSUME NEW t \in Tasks, MonitorStarts(t)
      PROVE  StoppedIsGone'
  <2>1. ~(Current(t) /\ step = "stopped")
    BY <1>9, MonitorStartsEffect DEF Current, Inv, GuiShape, Stoppers
  <2> QED
    BY <1>9, <2>1, MonitorStartsEffect DEF Inv, StoppedIsGone, Current, TypeOK, guiVars
<1>10. ASSUME NEW t \in Tasks, Current(t), PassesOver(t)
       PROVE  StoppedIsGone'
  BY <1>10 DEF StoppedIsGone, PassesOver, Does, NextTask
<1>11. ASSUME NEW t \in Tasks, Current(t), Decides(t)
       PROVE  StoppedIsGone'
  BY <1>11 DEF StoppedIsGone, Decides, GoesTo
<1>12. ASSUME NEW t \in Tasks, Current(t), ResumeProcessing(t)
       PROVE  StoppedIsGone'
  BY <1>12 DEF StoppedIsGone, ResumeProcessing, GoesTo
<1>13. ASSUME NEW t \in Tasks, Current(t), RetryProcessing(t) \/ RetryLooksAtThread(t)
       PROVE  StoppedIsGone'
  BY <1>13 DEF StoppedIsGone, RetryProcessing, RetryBegins, RetryLooksAtThread, Does, GoesTo, NextTask
<1>14. ASSUME NEW t \in Tasks, Current(t), SetForceFlag(t)
       PROVE  StoppedIsGone'
  BY <1>14 DEF StoppedIsGone, SetForceFlag, Does, NextTask
<1>15. ASSUME NEW t \in Tasks, Current(t), SetContinueFlag(t)
       PROVE  StoppedIsGone'
  BY <1>15 DEF StoppedIsGone, SetContinueFlag, Does
<1>16. ASSUME NEW t \in Tasks, Current(t), StopThread(t)
       PROVE  StoppedIsGone'
  <2>1. SUFFICES ASSUME NEW u \in Tasks, Current(u)', step' = "stopped"
                 PROVE  pc'[u] = "none"
    BY <1>16 DEF StoppedIsGone
  <2>2. UNCHANGED <<op, todo>>
    BY <1>16, StopThreadEffect DEF Inv
  <2>3. u = t
    BY <1>16, <2>1, <2>2, TaskNumbers DEF Current
  <2> QED
    BY <1>16, <2>1, <2>3, StopThreadEffect DEF Inv, TypeOK
<1>17. ASSUME NEW t \in Tasks, Current(t), AwaitThread(t)
       PROVE  StoppedIsGone'
  <2>1. SUFFICES ASSUME NEW u \in Tasks, Current(u)'
                 PROVE  pc'[u] = "none"
    BY <1>17 DEF StoppedIsGone
  <2>2. u = t
    BY <1>17, <2>1, TaskNumbers DEF AwaitThread, GoesTo, Current
  <2> QED
    BY <1>17, <2>2 DEF AwaitThread, Goes, Inv, TypeOK
<1>18. ASSUME NEW t \in Tasks, Current(t), EndsPausedOrCancelled(t)
       PROVE  StoppedIsGone'
  BY <1>18 DEF StoppedIsGone, EndsPausedOrCancelled, Does, NextTask
<1>19. ASSUME NEW t \in Tasks, Current(t), RestartProcessing(t)
       PROVE  StoppedIsGone'
  BY <1>19 DEF StoppedIsGone, RestartProcessing, GoesTo
<1>20. ASSUME NEW t \in Tasks, Current(t), RemoveTask(t)
       PROVE  StoppedIsGone'
  BY <1>20 DEF StoppedIsGone, RemoveTask, Does, NextTask
<1>21. ASSUME NEW t \in Tasks, Current(t), Exits(t)
       PROVE  StoppedIsGone'
  BY <1>21 DEF Inv, StoppedIsGone, Exits, Current, Does, NextTask, threadVars
<1>22. ASSUME NEW t \in Tasks, Current(t), BeginProcessing(t)
       PROVE  StoppedIsGone'
  BY <1>22 DEF StoppedIsGone, BeginProcessing, Does, NextTask
<1>23. CASE UNCHANGED vars
  BY <1>23
     DEF Inv, StoppedIsGone, Current, vars, taskVars, threadVars, flagVars, guiVars, bounds
<1> QED
  BY <1>1, <1>2, <1>3, <1>4, <1>5, <1>6, <1>7, <1>8, <1>9, <1>10, <1>11, <1>12, <1>13,
     <1>14, <1>15, <1>16, <1>17, <1>18, <1>19, <1>20, <1>21, <1>22, <1>23, ButtonEffect
     DEF Next, UserInterface, GuiStep

\* A thread is started only where there is none.
LEMMA StartIsDueKept ==
    ASSUME Inv, ~EarlyCommands, [Next]_vars
    PROVE  StartIsDue'
<1>1. ASSUME NEW t \in Tasks, ThreadStep(t)
      PROVE  StartIsDue'
  <2>1. UNCHANGED <<op, step, todo, kill, mistimed>> /\ Live(t)
    BY <1>1, ThreadStepEffect DEF Inv, guiVars
  <2>2. \A u \in Tasks : Current(u)' <=> Current(u)
    BY <2>1 DEF Current
  <2>3. \A u \in Tasks \ {t} : pc'[u] = pc[u] /\ state'[u] = state[u]
    BY <1>1, ThreadStepEffect DEF Inv, TypeOK
  <2>4. op \in {"start", "retry"} => t \notin todo
    BY <2>1 DEF Inv, StartIsDue
  <2>5. todo \subseteq Tasks
    BY DEF Inv, TypeOK
  <2>6. \A u \in todo' : /\ op' \in {"start", "retry"} => ~Live(u)'
                         /\ op' = "start" => state'[u] = "None"
    BY <2>1, <2>3, <2>4, <2>5 DEF Inv, StartIsDue, Live
  <2>7. \A u \in Tasks : Current(u)' /\ step' = "isRunning" =>
            (op' = "retry" \/ pc'[u] = "begin" => state'[u] \in Active)
    <3>1. pc'[t] # "begin"
      BY <1>1, ThreadStepEffect DEF Inv
    <3> QED
      BY <2>1, <2>2, <2>3, <2>4, <3>1 DEF Inv, StartIsDue, Current
  <2>8. ASSUME NEW u \in Tasks \ {t}, Current(u), step = "begin"
        PROVE  Due(u)'
    <3>1. Due(u)
      BY <2>8 DEF Inv, StartIsDue
    <3> QED
      BY <2>1, <2>3, <3>1 DEF Due, Live
  <2>9. ASSUME Current(t), step = "begin"
        PROVE  Due(t)'
    <3>1. Due(t)
      BY <2>9 DEF Inv, StartIsDue
    <3>2. op \in Resumes \cup {"commandLine"} /\ (op = "commandLine" => t \in mistimed)
      BY <2>1, <3>1 DEF Due
    <3>3. /\ pc'[t] \in Working => pc[t] \in Working /\ state'[t] \in Active \cup {state[t]}
          /\ pc'[t] \in {"store", "ending"} /\ state'[t] \in Active =>
                t \in kill \/ (pc[t] = "store" /\ state'[t] = state[t])
          /\ pc[t] \notin Working => state'[t] \in {state[t], "Error"}
      BY <1>1, ThreadStepEffect DEF Inv
    <3>4. op \in Resumes /\ t \notin mistimed => pc'[t] \notin Working /\ state'[t] \notin Stopped
      BY <3>1, <3>3 DEF Due, Stopped
    <3>5. op = "commandLine" /\ state'[t] \in Stopped => pc'[t] \notin Working
      BY <2>1, <3>1, <3>3 DEF Due, Stopped, Active
    <3>6. op = "commandLine" /\ state'[t] \in Active /\ pc'[t] \in {"store", "ending"} => t \in kill
      BY <3>1, <3>3 DEF Due
    <3> QED
      BY <2>1, <3>2, <3>4, <3>5, <3>6 DEF Due
  <2> QED
    BY <2>1, <2>2, <2>6, <2>7, <2>8, <2>9 DEF StartIsDue
<1>2. CASE Button
  BY <1>2 DEF StartIsDue, Button, Commands, Does, Untouched, Stoppers, MonitorApart, bounds
<1>3. ASSUME NEW t \in Tasks, CreateTask(t)
      PROVE  StartIsDue'
  BY <1>3
     DEF Inv, TypeOK, StartIsDue, CreateTask, Live, Does, Lists, NextNumber, bounds,
         flagVars, threadVars, FreshIsNew, RemovedTaskHasNoThread
<1>4. ASSUME NEW t \in Tasks, ImportTask(t)
      PROVE  StartIsDue'
  BY <1>4
     DEF Inv, StartIsDue, ImportTask, Live, Does, Lists, threadVars, GuiShape,
         RemovedTaskHasNoThread, StoppedIsGone
<1>5. CASE ResumeWaitingTasks
  BY <1>5 DEF StartIsDue, ResumeWaitingTasks, Does
<1>6. CASE PrepareToExit
  BY <1>6 DEF StartIsDue, PrepareToExit, Does
<1>7. CASE NextSession
  BY <1>7 DEF Inv, TypeOK, StartIsDue, NextSession, Live, Does
<1>8. CASE \/ MonitorLocks
           \/ \E t \in Tasks :
                  \/ MonitorAdds(t)
  BY <1>8
     DEF Inv, StartIsDue, Due, MonitorLocks, MonitorAdds, Current, Live, guiVars, taskVars,
         threadVars
<1>9. ASSUME NEW t \in Tasks, MonitorStarts(t)
      PROVE  StartIsDue'
  <2>1. op \in {"start", "retry"} => t \notin todo
    BY <1>9, MonitorStartsEffect DEF Inv
  <2>2. ~(Current(t) /\ step \in {"isRunning", "begin"})
    BY <1>9, MonitorStartsEffect DEF Current, Inv, GuiShape
  <2>3. UNCHANGED <<op, step, todo, state, mistimed>> /\ \A u \in Tasks : Current(u)' <=> Current(u)
    BY <1>9, MonitorStartsEffect DEF Inv, guiVars, taskVars, Current
  <2>4. \A u \in Tasks \ {t} : pc'[u] = pc[u] /\ (u \in kill' <=> u \in kill)
    BY <1>9, MonitorStartsEffect DEF Inv, TypeOK
  <2>5. todo \subseteq Tasks
    BY <1>9 DEF Inv, TypeOK
  <2>6. ASSUME NEW u \in Tasks, Current(u), step = "begin"
        PROVE  Due(u)'
    <3>1. Due(u) /\ u # t
      BY <2>2, <2>6 DEF Inv, StartIsDue
    <3> QED
      BY <2>3, <2>4, <3>1 DEF Due, Live
  <2> QED
    BY <2>1, <2>2, <2>3, <2>4, <2>5, <2>6 DEF Inv, StartIsDue, Live
<1>10. ASSUME NEW t \in Tasks, Current(t), PassesOver(t)
       PROVE  StartIsDue'
  BY <1>10 DEF Inv, StartIsDue, PassesOver, Live, Does, NextTask, threadVars
<1>11. ASSUME NEW t \in Tasks, Current(t), Decides(t)
       PROVE  StartIsDue'
  <2>1. UNCHANGED <<op, todo, state, pc, kill, mistimed>>
    BY <1>11 DEF Decides, GoesTo, taskVars, threadVars
  <2>2. \A u \in Tasks : Current(u)' => u = t
    BY <1>11, <2>1, TaskNumbers DEF Current
  <2>3. step' = "begin" => op = "start" /\ state[t] = "None" /\ ~Live(t)
    BY <1>11 DEF Decides, GoesTo, Inv, StartIsDue, Current
  <2>4. step' = "isRunning" => state[t] \in Active
    BY <1>11 DEF Decides, GoesTo, Active
  <2> QED
    BY <1>11, <2>1, <2>2, <2>3, <2>4 DEF Inv, StartIsDue, Due, Current, Live, Stopped
<1>12. ASSUME NEW t \in Tasks, Current(t), ResumeProcessing(t)
       PROVE  StartIsDue'
  <2>1. UNCHANGED <<op, todo, pc, mistimed>> /\ state' = [state EXCEPT ![t] = "Processing"]
    BY <1>12 DEF ResumeProcessing, Sets, GoesTo, threadVars
  <2>2. \A u \in Tasks : Current(u)' => u = t
    BY <1>12, <2>1, TaskNumbers DEF Current
  <2>3. op \in {"resume", "resumeOne"} /\ step' = "begin"
    BY <1>12 DEF ResumeProcessing, GoesTo
  <2>4. t \notin mistimed => pc[t] \notin Working
    BY <1>12 DEF ResumeProcessing, Inv, StoppedTaskDoesNoWork, Working
  <2>5. state'[t] = "Processing"
    BY <2>1 DEF Inv, TypeOK
  <2> QED
    BY <2>1, <2>2, <2>3, <2>4, <2>5 DEF StartIsDue, Due, Stopped
<1>13. ASSUME NEW t \in Tasks, Current(t), RetryProcessing(t) \/ RetryLooksAtThread(t)
       PROVE  StartIsDue'
  <2>1. UNCHANGED <<state, pc, kill>> /\ op \in Retries /\ t \in todo
    BY <1>13 DEF RetryProcessing, RetryLooksAtThread, taskVars, threadVars, Inv, GuiShape, Current
  <2>2. CASE RetryLooksAtThread(t) /\ t \in running
    BY <1>13, <2>1, <2>2
       DEF RetryLooksAtThread, NextTask, Does, Inv, StartIsDue, Live
  <2>3. CASE RetryProcessing(t) \/ t \notin running
    <3>1. RetryProcessing(t) \/ step = "isRunning"
      BY <1>13 DEF RetryLooksAtThread
    <3>2. UNCHANGED <<op, todo>> /\ step' = "begin"
      BY <1>13, <2>3 DEF RetryProcessing, RetryLooksAtThread, RetryBegins, GoesTo
    <3>3. t \notin mistimed' => ~Live(t) /\ state[t] \in Active \cup {"None", "Error"}
      BY <1>13, <2>3 DEF RetryProcessing, RetryLooksAtThread, RetryBegins
    <3>4. op = "retry" => ~Live(t) /\ state[t] \in Active \cup {"None", "Error"}
      BY <1>13, <2>1, <3>1 DEF RetryProcessing, Inv, StartIsDue
    <3>5. state[t] \in {"None", "Error"} \/ (Live(t) => pc[t] = "begin" /\ state[t] \in Active)
      <4>1. CASE RetryProcessing(t)
        BY <4>1 DEF RetryProcessing
      <4>2. CASE t \notin running /\ step = "isRunning"
        BY <1>13, <4>2 DEF Inv, StartIsDue, RunningIsLive
      <4> QED
        BY <2>3, <3>1, <4>1, <4>2
    <3>6. Due(t)'
      BY <2>1, <3>2, <3>3, <3>4, <3>5 DEF Due, Live, Active, Stopped
    <3>7. \A u \in Tasks : Current(u)' => u = t
      BY <1>13, <3>2, TaskNumbers DEF Current
    <3> QED
      BY <2>1, <3>2, <3>6, <3>7 DEF Inv, StartIsDue, Live
  <2> QED
    BY <1>13, <2>2, <2>3
<1>14. ASSUME NEW t \in Tasks, Current(t), SetForceFlag(t)
       PROVE  StartIsDue'
  BY <1>14 DEF Inv, StartIsDue, SetForceFlag, Live, Does, NextTask, taskVars, threadVars
<1>15. ASSUME NEW t \in Tasks, Current(t), SetContinueFlag(t)
       PROVE  StartIsDue'
  BY <1>15 DEF StartIsDue, SetContinueFlag, Does
<1>16. ASSUME NEW t \in Tasks, Current(t), StopThread(t)
       PROVE  StartIsDue'
  BY <1>16 DEF Inv, StartIsDue, StopThread, Live, GoesTo, taskVars
<1>17. ASSUME NEW t \in Tasks, Current(t), AwaitThread(t)
       PROVE  StartIsDue'
  BY <1>17 DEF Inv, StartIsDue, AwaitThread, Live, Goes, GoesTo, taskVars
<1>18. ASSUME NEW t \in Tasks, Current(t), EndsPausedOrCancelled(t)
       PROVE  StartIsDue'
  BY <1>18 DEF StartIsDue, EndsPausedOrCancelled, Does, NextTask
<1>19. ASSUME NEW t \in Tasks, Current(t), RestartProcessing(t)
       PROVE  StartIsDue'
  <2>1. /\ UNCHANGED <<op, todo, pc>>
        /\ op = "restart"
        /\ state' = [state EXCEPT ![t] = "None"]
    BY <1>19 DEF RestartProcessing, Sets, GoesTo
  <2>2. \A u \in Tasks : Current(u)' => u = t
    BY <1>19, <2>1, TaskNumbers DEF Current
  <2>3. ~Live(t) /\ step' = "begin"
    BY <1>19 DEF RestartProcessing, GoesTo, Inv, StoppedIsGone, Live
  <2> QED
    BY <1>19, <2>1, <2>2, <2>3 DEF Inv, TypeOK, StartIsDue, Due, Live, Stopped
<1>20. ASSUME NEW t \in Tasks, Current(t), RemoveTask(t)
       PROVE  StartIsDue'
  BY <1>20 DEF StartIsDue, RemoveTask, Does, NextTask
<1>21. ASSUME NEW t \in Tasks, Current(t), Exits(t)
       PROVE  StartIsDue'
  BY <1>21 DEF StartIsDue, Exits, Does, NextTask
<1>22. ASSUME NEW t \in Tasks, Current(t), BeginProcessing(t)
       PROVE  StartIsDue'
  BY <1>22
     DEF Inv, TypeOK, StartIsDue, BeginProcessing, Live, Does, Goes, NextTask, taskVars
<1>23. CASE UNCHANGED vars
  BY <1>23
     DEF Inv, StartIsDue, Due, Current, Live, vars, taskVars, threadVars, flagVars, guiVars,
         bounds
<1> QED
  BY <1>1, <1>2, <1>3, <1>4, <1>5, <1>6, <1>7, <1>8, <1>9, <1>10, <1>11, <1>12, <1>13,
     <1>14, <1>15, <1>16, <1>17, <1>18, <1>19, <1>20, <1>21, <1>22, <1>23, ButtonEffect
     DEF Next, UserInterface, GuiStep

\* An active task has somebody who takes it further.
LEMMA ActiveHasSomebodyKept ==
    ASSUME Inv, ~EarlyCommands, [Next]_vars
    PROVE  ActiveHasSomebody'
<1>1. ASSUME NEW t \in Tasks, ThreadStep(t)
      PROVE  ActiveHasSomebody'
  BY <1>1, ThreadStepEffect
     DEF Inv, TypeOK, ActiveHasSomebody, Current, Live, EndsActiveIfKilled, guiVars
<1>2. CASE Button
  BY <1>2
     DEF Inv, ActiveHasSomebody, Button, Current, Live, Commands, taskVars, threadVars,
         GuiShape, Stoppers
<1>3. ASSUME NEW t \in Tasks, CreateTask(t)
      PROVE  ActiveHasSomebody'
  BY <1>3
     DEF Inv, ActiveHasSomebody, CreateTask, Active, Current, Live, Stoppers, Does, Lists,
         NextNumber, bounds, flagVars, threadVars, GuiShape, MonitorApart, NoTask,
         FreshIsNew
<1>4. ASSUME NEW t \in Tasks, ImportTask(t)
      PROVE  ActiveHasSomebody'
  <2>1. UNCHANGED <<state, pc, kill, mistimed>> /\ op = "idle" /\ listed' = listed \cup {t}
    BY <1>4 DEF ImportTask, Lists, threadVars
  <2>2. state[t] \notin Active
    BY <1>4 DEF ImportTask, Lists, NextNumber, Inv, FreshIsNew, Active
  <2>3. todo = {}
    BY <2>1 DEF Inv, GuiShape
  <2> QED
    BY <2>1, <2>2, <2>3 DEF Inv, ActiveHasSomebody, Current, Live
<1>5. CASE ResumeWaitingTasks
  BY <1>5
     DEF Inv, ActiveHasSomebody, ResumeWaitingTasks, Current, Live, taskVars, threadVars,
         GuiShape, MonitorApart
<1>6. CASE PrepareToExit
  BY <1>6 DEF ActiveHasSomebody, PrepareToExit, Does, taskVars
<1>7. CASE NextSession
  BY <1>7 DEF ActiveHasSomebody, NextSession, Does
<1>8. CASE MonitorLocks
  BY <1>8
     DEF Inv, ActiveHasSomebody, MonitorLocks, Current, Live, guiVars, taskVars, threadVars
<1>9. ASSUME NEW t \in Tasks, MonitorAdds(t)
      PROVE  ActiveHasSomebody'
  BY <1>9
     DEF Inv, ActiveHasSomebody, MonitorAdds, Active, Current, Live, Stoppers, Lists,
         NextNumber, NoTask, guiVars, threadVars, FreshIsNew, StoppedIsGone
<1>10. ASSUME NEW t \in Tasks, MonitorStarts(t)
       PROVE  ActiveHasSomebody'
  BY <1>10
     DEF Inv, TypeOK, ActiveHasSomebody, MonitorStarts, Current, Live, Goes, guiVars,
         taskVars
<1>11. ASSUME NEW t \in Tasks, Current(t), PassesOver(t)
       PROVE  ActiveHasSomebody'
  BY <1>11
     DEF Inv, ActiveHasSomebody, PassesOver, Active, Live, Does, NextTask, taskVars,
         threadVars
<1>12. ASSUME NEW t \in Tasks, Current(t), Decides(t)
       PROVE  ActiveHasSomebody'
  BY <1>12 DEF Inv, ActiveHasSomebody, Decides, Live, GoesTo, taskVars, threadVars
<1>13. ASSUME NEW t \in Tasks, Current(t), ResumeProcessing(t)
       PROVE  ActiveHasSomebody'
  BY <1>13
     DEF Inv, ActiveHasSomebody, ResumeProcessing, Current, Live, GoesTo, Sets, threadVars
<1>14. ASSUME NEW t \in Tasks, Current(t), RetryProcessing(t) \/ RetryLooksAtThread(t)
       PROVE  ActiveHasSomebody'
  <2>1. UNCHANGED <<listed, state, pc, kill>> /\ op \in Retries /\ mistimed \subseteq mistimed'
    BY <1>14
       DEF RetryProcessing, RetryBegins, RetryLooksAtThread, taskVars, threadVars, Inv,
           GuiShape, Current
  <2>2. step \in {"look", "isRunning"}
    BY <1>14 DEF RetryProcessing, RetryLooksAtThread
  <2>3. \A u \in todo \ {t} : op' = op /\ u \in todo'
    BY <1>14 DEF RetryProcessing, RetryLooksAtThread, RetryBegins, GoesTo, NextTask, Does
  <2>4. state[t] \in Active => Live(t) \/ (Current(t)' /\ step' = "begin")
    <3>1. CASE RetryProcessing(t)
      BY <3>1 DEF RetryProcessing, Active
    <3>2. CASE RetryLooksAtThread(t) /\ t \in running
      BY <3>2 DEF Inv, RunningIsLive
    <3>3. CASE RetryLooksAtThread(t) /\ t \notin running
      BY <1>14, <3>3 DEF RetryLooksAtThread, RetryBegins, GoesTo, Current
    <3> QED
      BY <1>14, <3>1, <3>2, <3>3
  <2>5. listed \subseteq Tasks
    BY DEF Inv, TypeOK
  <2> QED
    BY <2>1, <2>2, <2>3, <2>4, <2>5 DEF Inv, ActiveHasSomebody, Live
<1>15. ASSUME NEW t \in Tasks, Current(t), SetForceFlag(t)
       PROVE  ActiveHasSomebody'
  BY <1>15
     DEF Inv, ActiveHasSomebody, SetForceFlag, Live, taskVars, threadVars, GuiShape,
         MonitorApart
<1>16. ASSUME NEW t \in Tasks, Current(t), SetContinueFlag(t)
       PROVE  ActiveHasSomebody'
  BY <1>16 DEF Inv, ActiveHasSomebody, SetContinueFlag, Live, taskVars, threadVars
<1>17. ASSUME NEW t \in Tasks, Current(t), StopThread(t)
       PROVE  ActiveHasSomebody'
  BY <1>17 DEF Inv, ActiveHasSomebody, StopThread, Current, Live, GoesTo, taskVars, GuiShape
<1>18. ASSUME NEW t \in Tasks, Current(t), AwaitThread(t)
       PROVE  ActiveHasSomebody'
  BY <1>18
     DEF Inv, ActiveHasSomebody, AwaitThread, Current, Live, Goes, GoesTo, taskVars,
         GuiShape
<1>19. ASSUME NEW t \in Tasks, Current(t), EndsPausedOrCancelled(t)
       PROVE  ActiveHasSomebody'
  <2>1. UNCHANGED <<listed, pc, kill, mistimed>> /\ step = "stopped" /\ op \in {"pause", "cancel"}
    BY <1>19 DEF EndsPausedOrCancelled, threadVars
  <2>2. state'[t] \notin Active /\ \A u \in Tasks \ {t} : state'[u] = state[u]
    BY <1>19 DEF EndsPausedOrCancelled, Sets, Inv, TypeOK, Active
  <2>3. \A u \in Tasks : Current(u) => u = t
    BY <1>19, CurrentUnique
  <2>4. listed \subseteq Tasks
    BY <1>19 DEF Inv, TypeOK
  <2> QED
    BY <1>19, <2>1, <2>2, <2>3, <2>4 DEF Inv, ActiveHasSomebody, Live
<1>20. ASSUME NEW t \in Tasks, Current(t), RestartProcessing(t)
       PROVE  ActiveHasSomebody'
  BY <1>20 DEF Inv, ActiveHasSomebody, RestartProcessing, Current, Live, GoesTo, Sets
<1>21. ASSUME NEW t \in Tasks, Current(t), RemoveTask(t)
       PROVE  ActiveHasSomebody'
  <2>1. /\ UNCHANGED <<state, pc, kill, mistimed>>
        /\ step = "stopped"
        /\ op = "remove"
        /\ listed' = listed \ {t}
    BY <1>21 DEF RemoveTask, threadVars
  <2>3. \A u \in Tasks : Current(u) => u = t
    BY <1>21, CurrentUnique
  <2>4. listed \subseteq Tasks
    BY <1>21 DEF Inv, TypeOK
  <2> QED
    BY <1>21, <2>1, <2>3, <2>4 DEF Inv, ActiveHasSomebody, Live
<1>22. ASSUME NEW t \in Tasks, Current(t), Exits(t)
       PROVE  ActiveHasSomebody'
  BY <1>22 DEF ActiveHasSomebody, Exits, Current, Does, NextTask
<1>23. ASSUME NEW t \in Tasks, Current(t), BeginProcessing(t)
       PROVE  ActiveHasSomebody'
  <2>1. step = "begin" /\ UNCHANGED <<listed, state>>
    BY <1>23 DEF BeginProcessing, taskVars
  <2>2. \A u \in Tasks : Current(u) => u = t
    BY <1>23, CurrentUnique
  <2>3. listed \subseteq Tasks /\ todo # {}
    BY <1>23 DEF Inv, TypeOK, Current
  <2>4. op \notin {"exit", "closed"}
    BY <1>23, <2>1, <2>3 DEF Inv, GuiShape
  <2>5. \A u \in Tasks \ {t} :
            pc'[u] = pc[u] /\ (u \in kill' <=> u \in kill) /\ (u \in mistimed' <=> u \in mistimed)
    BY <1>23 DEF BeginProcessing, Goes, Inv, TypeOK
  <2>6. state[t] \in Active => Live(t)'
    BY <1>23 DEF BeginProcessing, Goes, Inv, TypeOK, Live, Active
  <2>7. \A u \in todo \ {t} : op = "retry" => op' = "retry" /\ u \in todo'
    <3>1. op = "retry" => ~Live(t)
      BY <1>23 DEF Inv, StartIsDue, Current
    <3> QED
      BY <1>23, <3>1 DEF BeginProcessing, NextTask, Does
  <2> QED
    BY <2>1, <2>2, <2>3, <2>4, <2>5, <2>6, <2>7 DEF Inv, ActiveHasSomebody, Live
<1>24. CASE UNCHANGED vars
  BY <1>24
     DEF Inv, ActiveHasSomebody, Current, Live, vars, taskVars, threadVars, flagVars,
         guiVars, bounds
<1> QED
  BY <1>1, <1>2, <1>3, <1>4, <1>5, <1>6, <1>7, <1>8, <1>9, <1>10, <1>11, <1>12, <1>13,
     <1>14, <1>15, <1>16, <1>17, <1>18, <1>19, <1>20, <1>21, <1>22, <1>23, <1>24,
     ButtonEffect
     DEF Next, UserInterface, GuiStep

\* A thread ends early only when it was told to.
LEMMA EndsActiveIfKilledKept ==
    ASSUME Inv, ~EarlyCommands, [Next]_vars
    PROVE  EndsActiveIfKilled'
<1>1. ASSUME NEW t \in Tasks, ThreadStep(t)
      PROVE  EndsActiveIfKilled'
  <2>1. UNCHANGED <<op, step, todo, kill, mistimed>>
    BY <1>1, ThreadStepEffect DEF Inv, guiVars
  <2>2. \A u \in Tasks : Current(u)' <=> Current(u)
    BY <2>1 DEF Current
  <2>3. \A u \in Tasks \ {t} : pc'[u] = pc[u] /\ state'[u] = state[u]
    BY <1>1, ThreadStepEffect DEF Inv, TypeOK
  <2>4. pc'[t] \in {"store", "ending"} /\ state'[t] \in Active =>
            t \in kill \/ (pc[t] = "store" /\ state'[t] = state[t])
    BY <1>1, ThreadStepEffect DEF Inv
  <2> QED
    BY <2>1, <2>2, <2>3, <2>4 DEF Inv, EndsActiveIfKilled
<1>2. (step # "begin" \/ todo = {}) =>
          \A u \in Tasks \ mistimed :
              pc[u] \in {"store", "ending"} /\ state[u] \in Active => u \in kill
  BY DEF Inv, EndsActiveIfKilled, Current
<1>3. CASE \/ Button \/ ResumeWaitingTasks \/ PrepareToExit
           \/ \E t \in Tasks : CreateTask(t) \/ ImportTask(t)
  <2>1. todo = {}
    BY <1>3 DEF Button, ResumeWaitingTasks, PrepareToExit, CreateTask, ImportTask, Commands,
       Inv, GuiShape
  <2>2. UNCHANGED <<state, pc, mistimed>> /\ kill \subseteq kill'
    BY <1>3 DEF Button, ResumeWaitingTasks, PrepareToExit, CreateTask, ImportTask, Commands,
       taskVars, threadVars
  <2> QED
    BY <1>2, <2>1, <2>2 DEF EndsActiveIfKilled
<1>4. CASE NextSession
  BY <1>4 DEF EndsActiveIfKilled, NextSession
<1>5. ASSUME NEW t \in Tasks, MonitorStarts(t)
      PROVE  EndsActiveIfKilled'
  <2>1. UNCHANGED <<op, step, todo, state, mistimed>>
    BY <1>5, MonitorStartsEffect DEF guiVars, taskVars
  <2>2. \A u \in Tasks : Current(u)' <=> Current(u)
    BY <2>1 DEF Current
  <2>3. pc'[t] = "begin" /\ \A u \in Tasks \ {t} : pc'[u] = pc[u] /\ (u \in kill' <=> u \in kill)
    BY <1>5, MonitorStartsEffect DEF Inv, TypeOK
  <2> QED
    BY <2>1, <2>2, <2>3 DEF Inv, EndsActiveIfKilled
<1>6. CASE MonitorLocks \/ \E t \in Tasks : MonitorAdds(t)
  BY <1>6 DEF MonitorLocks, MonitorAdds, Inv, EndsActiveIfKilled, Current, guiVars, taskVars,
     threadVars
<1>7. CASE \E t \in Tasks :
               \/ PassesOver(t) \/ Decides(t) \/ RetryProcessing(t) \/ RetryLooksAtThread(t)
               \/ SetForceFlag(t) \/ SetContinueFlag(t) \/ RemoveTask(t) \/ Exits(t)
  <2>1. step # "begin"
    BY <1>7 DEF PassesOver, Decides, RetryProcessing, RetryLooksAtThread, SetForceFlag,
       SetContinueFlag, RemoveTask, Exits
  <2>2. UNCHANGED <<state, pc, kill>> /\ mistimed \subseteq mistimed'
    BY <1>7 DEF PassesOver, Decides, RetryProcessing, RetryLooksAtThread, RetryBegins,
       SetForceFlag, SetContinueFlag, RemoveTask, Exits, taskVars, threadVars
  <2> QED
    BY <1>2, <2>1, <2>2 DEF EndsActiveIfKilled
<1>8. ASSUME NEW t \in Tasks, Current(t), ResumeProcessing(t)
      PROVE  EndsActiveIfKilled'
  <2>1. /\ UNCHANGED <<op, todo, pc, kill, mistimed>> /\ op \in Resumes
        /\ step = "look" /\ step' = "begin"
    BY <1>8 DEF ResumeProcessing, GoesTo, threadVars
  <2>2. Current(t)'
    BY <1>8, <2>1 DEF Current
  <2>3. \A u \in Tasks \ {t} : state'[u] = state[u]
    BY <1>8 DEF ResumeProcessing, Sets, Inv, TypeOK
  <2> QED
    BY <1>2, <2>1, <2>2, <2>3 DEF EndsActiveIfKilled
<1>9. ASSUME NEW t \in Tasks, Current(t), StopThread(t) \/ AwaitThread(t)
      PROVE  EndsActiveIfKilled'
  <2>1. UNCHANGED state /\ step # "begin"
    BY <1>9 DEF StopThread, AwaitThread, taskVars
  <2>2. \A u \in Tasks \ {t} :
            pc'[u] = pc[u] /\ (u \in kill' <=> u \in kill) /\ (u \in mistimed' <=> u \in mistimed)
    BY <1>9 DEF StopThread, AwaitThread, Goes, Inv, TypeOK
  <2>3. pc'[t] = "none" \/ (pc'[t] = pc[t] /\ (t \in mistimed' <=> t \in mistimed) /\ kill \subseteq kill')
    BY <1>9, StopThreadEffect DEF AwaitThread, Goes, Inv, TypeOK
  <2> QED
    BY <1>2, <2>1, <2>2, <2>3 DEF EndsActiveIfKilled
<1>10. ASSUME NEW t \in Tasks, Current(t), EndsPausedOrCancelled(t) \/ RestartProcessing(t)
       PROVE  EndsActiveIfKilled'
  <2>1. UNCHANGED <<pc, kill, mistimed>> /\ step # "begin"
    BY <1>10 DEF EndsPausedOrCancelled, RestartProcessing, threadVars
  <2>2. state'[t] \notin Active /\ \A u \in Tasks \ {t} : state'[u] = state[u]
    BY <1>10 DEF EndsPausedOrCancelled, RestartProcessing, Sets, Active, Inv, TypeOK
  <2> QED
    BY <1>2, <2>1, <2>2 DEF EndsActiveIfKilled
<1>11. ASSUME NEW t \in Tasks, Current(t), BeginProcessing(t)
       PROVE  EndsActiveIfKilled'
  <2>1. step = "begin" /\ UNCHANGED state /\ Due(t)
    BY <1>11 DEF BeginProcessing, taskVars, Inv, StartIsDue
  <2>2. \A u \in Tasks : Current(u) => u = t
    BY <1>11, CurrentUnique
  <2>3. \A u \in Tasks \ {t} :
            pc'[u] = pc[u] /\ (u \in kill' <=> u \in kill) /\ (u \in mistimed' <=> u \in mistimed)
    BY <1>11 DEF BeginProcessing, Goes, Inv, TypeOK
  <2>4. t \notin mistimed' /\ pc'[t] \in {"store", "ending"} /\ state[t] \in Active => t \in kill'
    <3>1. CASE state[t] = "LoadError"
      BY <3>1 DEF Active
    <3>2. CASE state[t] # "LoadError" /\ ~Live(t)
      BY <1>11, <3>2 DEF BeginProcessing, Goes, Inv, TypeOK
    <3>3. CASE state[t] # "LoadError" /\ Live(t)
      <4>1. UNCHANGED <<pc, kill>> /\ (op \in Resumes => t \in mistimed')
        BY <1>11, <3>3 DEF BeginProcessing
      <4> QED
        BY <2>1, <3>3, <4>1 DEF Due
    <3> QED
      BY <3>1, <3>2, <3>3
  <2> QED
    BY <2>1, <2>2, <2>3, <2>4 DEF Inv, EndsActiveIfKilled
<1>12. CASE UNCHANGED vars
  BY <1>12
     DEF Inv, EndsActiveIfKilled, Current, vars, taskVars, threadVars, flagVars, guiVars, bounds
<1> QED
  BY <1>1, <1>2, <1>3, <1>4, <1>5, <1>6, <1>7, <1>8, <1>9, <1>10, <1>11, <1>12, ButtonEffect
     DEF Next, UserInterface, GuiStep

\* A kill event has somebody who waits for the thread.
LEMMA KillHasStopperKept ==
    ASSUME Inv, ~EarlyCommands, [Next]_vars
    PROVE  KillHasStopper'
<1>1. CASE \/ MonitorLocks
           \/ \E t \in Tasks :
                  \/ ThreadStep(t) \/ MonitorAdds(t)
  BY <1>1, ThreadStepEffect
     DEF Inv, KillHasStopper, MonitorLocks, MonitorAdds, Current, guiVars, threadVars
<1>2. CASE Button
  BY <1>2 DEF Inv, KillHasStopper, Button, Commands, threadVars
<1>3. ASSUME NEW t \in Tasks, CreateTask(t)
      PROVE  KillHasStopper'
  BY <1>3 DEF Inv, KillHasStopper, CreateTask, threadVars
<1>4. ASSUME NEW t \in Tasks, ImportTask(t)
      PROVE  KillHasStopper'
  BY <1>4 DEF Inv, KillHasStopper, ImportTask, threadVars
<1>5. CASE ResumeWaitingTasks
  BY <1>5 DEF Inv, KillHasStopper, ResumeWaitingTasks, threadVars
<1>6. CASE PrepareToExit
  BY <1>6 DEF Inv, KillHasStopper, PrepareToExit, Does
<1>7. CASE NextSession
  BY <1>7 DEF KillHasStopper, NextSession
<1>8. ASSUME NEW t \in Tasks, MonitorStarts(t)
      PROVE  KillHasStopper'
  BY <1>8 DEF Inv, KillHasStopper, MonitorStarts, Current, guiVars
<1>9. ASSUME NEW t \in Tasks, Current(t), PassesOver(t)
      PROVE  KillHasStopper'
  BY <1>9 DEF Inv, KillHasStopper, PassesOver, threadVars
<1>10. ASSUME NEW t \in Tasks, Current(t), Decides(t)
       PROVE  KillHasStopper'
  BY <1>10 DEF Inv, KillHasStopper, Decides, GoesTo, threadVars
<1>11. ASSUME NEW t \in Tasks, Current(t), ResumeProcessing(t)
       PROVE  KillHasStopper'
  BY <1>11 DEF Inv, KillHasStopper, ResumeProcessing, threadVars
<1>12. ASSUME NEW t \in Tasks, Current(t), RetryProcessing(t) \/ RetryLooksAtThread(t)
       PROVE  KillHasStopper'
  BY <1>12 DEF Inv, KillHasStopper, RetryProcessing, RetryBegins, RetryLooksAtThread, threadVars, GuiShape
<1>13. ASSUME NEW t \in Tasks, Current(t), SetForceFlag(t)
       PROVE  KillHasStopper'
  BY <1>13 DEF Inv, KillHasStopper, SetForceFlag, threadVars, GuiShape
<1>14. ASSUME NEW t \in Tasks, Current(t), SetContinueFlag(t)
       PROVE  KillHasStopper'
  BY <1>14 DEF Inv, KillHasStopper, SetContinueFlag, threadVars
<1>15. ASSUME NEW t \in Tasks, Current(t), StopThread(t)
       PROVE  KillHasStopper'
  BY <1>15 DEF Inv, KillHasStopper, StopThread, Current, GoesTo, GuiShape, Stoppers
<1>16. ASSUME NEW t \in Tasks, Current(t), AwaitThread(t)
       PROVE  KillHasStopper'
  <2>1. UNCHANGED <<op, todo>> /\ kill' = kill \ {t}
    BY <1>16 DEF AwaitThread, GoesTo
  <2>3. \A u \in Tasks : Current(u) => u = t
    BY <1>16, CurrentUnique
  <2> QED
    BY <1>16, <2>1, <2>3 DEF Inv, TypeOK, KillHasStopper
<1>17. ASSUME NEW t \in Tasks, Current(t), EndsPausedOrCancelled(t)
       PROVE  KillHasStopper'
  BY <1>17 DEF Inv, KillHasStopper, EndsPausedOrCancelled, threadVars
<1>18. ASSUME NEW t \in Tasks, Current(t), RestartProcessing(t)
       PROVE  KillHasStopper'
  BY <1>18 DEF Inv, KillHasStopper, RestartProcessing
<1>19. ASSUME NEW t \in Tasks, Current(t), RemoveTask(t)
       PROVE  KillHasStopper'
  BY <1>19 DEF Inv, KillHasStopper, RemoveTask, threadVars
<1>20. ASSUME NEW t \in Tasks, Current(t), Exits(t)
       PROVE  KillHasStopper'
  <2>1. pc[t] = "none" /\ kill' = kill /\ op = "exit"
    BY <1>20 DEF Exits, threadVars, Inv, StoppedIsGone
  <2>2. t \notin kill
    BY <1>20, <2>1 DEF Inv, KillHasThread
  <2>3. todo \ {t} # {} => op' = "exit" /\ todo' = todo \ {t}
    BY <1>20, <2>1 DEF Exits, NextTask, Does
  <2> QED
    BY <1>20, <2>1, <2>2, <2>3 DEF Inv, KillHasStopper, Exits
<1>21. ASSUME NEW t \in Tasks, Current(t), BeginProcessing(t)
       PROVE  KillHasStopper'
  BY <1>21 DEF Inv, KillHasStopper, BeginProcessing, Does, GuiShape
<1>22. CASE UNCHANGED vars
  BY <1>22
     DEF Inv, KillHasStopper, Current, vars, taskVars, threadVars, flagVars, guiVars, bounds
<1> QED
  BY <1>1, <1>2, <1>3, <1>4, <1>5, <1>6, <1>7, <1>8, <1>9, <1>10, <1>11, <1>12, <1>13,
     <1>14, <1>15, <1>16, <1>17, <1>18, <1>19, <1>20, <1>21, <1>22, ButtonEffect
     DEF Next, UserInterface, GuiStep

\* A task that is not listed has no thread.
LEMMA RemovedTaskHasNoThreadKept ==
    ASSUME Inv, ~EarlyCommands, [Next]_vars
    PROVE  RemovedTaskHasNoThread'
<1>1. ASSUME NEW t \in Tasks, ThreadStep(t)
      PROVE  RemovedTaskHasNoThread'
  BY <1>1, ThreadStepEffect DEF Inv, TypeOK, RemovedTaskHasNoThread, Live
<1>2. CASE \/ Button \/ ResumeWaitingTasks \/ MonitorLocks
           \/ \E t \in Tasks :
                  \/ PassesOver(t) \/ Decides(t) \/ ResumeProcessing(t)
                  \/ RetryProcessing(t) \/ RetryLooksAtThread(t) \/ SetForceFlag(t) \/ SetContinueFlag(t)
                  \/ EndsPausedOrCancelled(t) \/ RestartProcessing(t) \/ Exits(t)
  BY <1>2
     DEF Inv, RemovedTaskHasNoThread, Button, ResumeWaitingTasks, MonitorLocks, PassesOver,
         Decides, ResumeProcessing, RetryProcessing, RetryBegins, RetryLooksAtThread, SetForceFlag, SetContinueFlag,
         EndsPausedOrCancelled, RestartProcessing, Exits, Commands, Does, flagVars,
         taskVars, threadVars, bounds, guiVars, NextTask, GoesTo, Sets
<1>3. ASSUME NEW t \in Tasks, CreateTask(t)
      PROVE  RemovedTaskHasNoThread'
  BY <1>3 DEF Inv, RemovedTaskHasNoThread, CreateTask, Lists, threadVars
<1>4. ASSUME NEW t \in Tasks, ImportTask(t)
      PROVE  RemovedTaskHasNoThread'
  BY <1>4 DEF Inv, RemovedTaskHasNoThread, ImportTask, Lists, threadVars
<1>5. CASE PrepareToExit
  BY <1>5 DEF Inv, RemovedTaskHasNoThread, PrepareToExit, taskVars
<1>6. CASE NextSession
  BY <1>6 DEF RemovedTaskHasNoThread, NextSession
<1>7. ASSUME NEW t \in Tasks, MonitorAdds(t)
      PROVE  RemovedTaskHasNoThread'
  BY <1>7 DEF Inv, RemovedTaskHasNoThread, MonitorAdds, Lists, threadVars
<1>8. ASSUME NEW t \in Tasks, MonitorStarts(t)
      PROVE  RemovedTaskHasNoThread'
  BY <1>8, MonitorStartsEffect DEF Inv, TypeOK, RemovedTaskHasNoThread, taskVars
<1>9. ASSUME NEW t \in Tasks, Current(t), StopThread(t)
      PROVE  RemovedTaskHasNoThread'
  BY <1>9 DEF Inv, RemovedTaskHasNoThread, StopThread, Live, taskVars
<1>10. ASSUME NEW t \in Tasks, Current(t), AwaitThread(t)
       PROVE  RemovedTaskHasNoThread'
  BY <1>10 DEF Inv, RemovedTaskHasNoThread, AwaitThread, Goes, taskVars
<1>11. ASSUME NEW t \in Tasks, Current(t), RemoveTask(t)
       PROVE  RemovedTaskHasNoThread'
  BY <1>11
     DEF Inv, RemovedTaskHasNoThread, RemoveTask, threadVars, StoppedIsGone, KillHasThread
<1>12. ASSUME NEW t \in Tasks, Current(t), BeginProcessing(t)
       PROVE  RemovedTaskHasNoThread'
  BY <1>12
     DEF Inv, TypeOK, RemovedTaskHasNoThread, BeginProcessing, Does, Goes, taskVars,
         StoppedIsGone, Current
<1>13. CASE UNCHANGED vars
  BY <1>13
     DEF Inv, RemovedTaskHasNoThread, vars, taskVars, threadVars, flagVars, guiVars, bounds
<1> QED
  BY <1>1, <1>2, <1>3, <1>4, <1>5, <1>6, <1>7, <1>8, <1>9, <1>10, <1>11, <1>12, <1>13,
     ButtonEffect
     DEF Next, UserInterface, GuiStep

\* A task that was stopped does no work.
LEMMA StoppedTaskDoesNoWorkKept ==
    ASSUME Inv, ~EarlyCommands, [Next]_vars
    PROVE  StoppedTaskDoesNoWork'
<1>1. ASSUME NEW t \in Tasks, ThreadStep(t)
      PROVE  StoppedTaskDoesNoWork'
  BY <1>1, ThreadStepEffect DEF Inv, TypeOK, StoppedTaskDoesNoWork, Active, Working
<1>2. CASE \/ Button \/ ResumeWaitingTasks \/ PrepareToExit
           \/ MonitorLocks
           \/ \E t \in Tasks :
                  \/ CreateTask(t) \/ ImportTask(t) \/ MonitorAdds(t)
                  \/ PassesOver(t) \/ Decides(t) \/ RetryProcessing(t) \/ RetryLooksAtThread(t)
                  \/ SetForceFlag(t) \/ SetContinueFlag(t) \/ RemoveTask(t)
                  \/ Exits(t)
  BY <1>2
     DEF Inv, StoppedTaskDoesNoWork, Button, CreateTask, ImportTask, ResumeWaitingTasks,
         PrepareToExit, MonitorLocks, MonitorAdds, PassesOver, Decides, RetryProcessing, RetryBegins, RetryLooksAtThread,
         SetForceFlag, SetContinueFlag, RemoveTask, Exits, Commands, Does, flagVars,
         taskVars, threadVars, Lists, bounds, guiVars, NextTask, GoesTo
<1>3. CASE NextSession
  BY <1>3 DEF StoppedTaskDoesNoWork, NextSession
<1>4. ASSUME NEW t \in Tasks, MonitorStarts(t)
      PROVE  StoppedTaskDoesNoWork'
  BY <1>4, MonitorStartsEffect DEF Inv, TypeOK, StoppedTaskDoesNoWork, taskVars
<1>5. ASSUME NEW t \in Tasks, Current(t), ResumeProcessing(t)
      PROVE  StoppedTaskDoesNoWork'
  BY <1>5 DEF Inv, StoppedTaskDoesNoWork, ResumeProcessing, Sets, threadVars
<1>6. ASSUME NEW t \in Tasks, Current(t), StopThread(t)
      PROVE  StoppedTaskDoesNoWork'
  <2>1. UNCHANGED state /\ \A u \in Tasks \ {t} : pc'[u] = pc[u] /\ (u \in mistimed' <=> u \in mistimed)
    BY <1>6, StopThreadEffect DEF Inv, TypeOK, taskVars
  <2>2. pc'[t] = "none" \/ (pc'[t] = pc[t] /\ (t \in mistimed' <=> t \in mistimed))
    BY <1>6, StopThreadEffect DEF Inv, TypeOK
  <2> QED
    BY <2>1, <2>2 DEF Inv, StoppedTaskDoesNoWork
<1>7. ASSUME NEW t \in Tasks, Current(t), AwaitThread(t)
      PROVE  StoppedTaskDoesNoWork'
  BY <1>7 DEF Inv, TypeOK, StoppedTaskDoesNoWork, AwaitThread, Goes, taskVars
<1>8. ASSUME NEW t \in Tasks, Current(t), EndsPausedOrCancelled(t)
      PROVE  StoppedTaskDoesNoWork'
  BY <1>8
     DEF Inv, StoppedTaskDoesNoWork, EndsPausedOrCancelled, Sets, threadVars, StoppedIsGone
<1>9. ASSUME NEW t \in Tasks, Current(t), RestartProcessing(t)
      PROVE  StoppedTaskDoesNoWork'
  BY <1>9 DEF Inv, StoppedTaskDoesNoWork, RestartProcessing, Sets
<1>10. ASSUME NEW t \in Tasks, Current(t), BeginProcessing(t)
       PROVE  StoppedTaskDoesNoWork'
  <2>1. UNCHANGED state /\ Due(t)
    BY <1>10 DEF BeginProcessing, taskVars, Inv, StartIsDue
  <2>2. \A u \in Tasks \ {t} : pc'[u] = pc[u] /\ (u \in mistimed' <=> u \in mistimed)
    BY <1>10 DEF BeginProcessing, Goes, Inv, TypeOK
  <2>3. t \notin mistimed' /\ state[t] \in Stopped => pc'[t] \notin Working
    <3>1. CASE state[t] = "LoadError"
      BY <1>10, <3>1 DEF BeginProcessing, Inv, StoppedTaskDoesNoWork, Working
    <3>2. CASE state[t] # "LoadError" /\ ~Live(t)
      <4>1. mistimed' = mistimed
        BY <1>10, <3>2 DEF BeginProcessing
      <4> QED
        BY <2>1, <4>1 DEF Due
    <3>3. CASE state[t] # "LoadError" /\ Live(t)
      <4>1. UNCHANGED pc /\ (op \in Resumes => t \in mistimed')
        BY <1>10, <3>3 DEF BeginProcessing
      <4> QED
        BY <2>1, <3>3, <4>1 DEF Due
    <3> QED
      BY <3>1, <3>2, <3>3
  <2> QED
    BY <2>1, <2>2, <2>3 DEF Inv, StoppedTaskDoesNoWork, Stopped, Working
<1>11. CASE UNCHANGED vars
  BY <1>11
     DEF Inv, StoppedTaskDoesNoWork, vars, taskVars, threadVars, flagVars, guiVars, bounds
<1> QED
  BY <1>1, <1>2, <1>3, <1>4, <1>5, <1>6, <1>7, <1>8, <1>9, <1>10, <1>11, ButtonEffect
     DEF Next, UserInterface, GuiStep

LEMMA InvKept ==
    ASSUME Inv, ~EarlyCommands, [Next]_vars
    PROVE  Inv'
BY TypeOKKept, GuiShapeKept, MonitorApartKept, FreshIsNewKept, RunningIsLiveKept,
   KillHasThreadKept, StoppedIsGoneKept, StartIsDueKept, ActiveHasSomebodyKept,
   EndsActiveIfKilledKept, KillHasStopperKept, RemovedTaskHasNoThreadKept,
   StoppedTaskDoesNoWorkKept
   DEF Inv

-----------------------------------------------------------------------------
(* The theorems *)

LEMMA InvAtFirst == Init => Inv
<1> SUFFICES ASSUME Init
             PROVE  Inv
  OBVIOUS
<1>1. TypeOK
  <2>1. fresh \subseteq Tasks /\ listed \subseteq Tasks /\ fresh \cap listed = {} /\ todo = listed
    BY DEF Init, NewNumbers
  <2>2. state \in [Tasks -> States]
    BY StatesAssumption DEF Init, States
  <2>3. pc \in [Tasks -> Places] /\ op \in Operations /\ step \in Steps
    BY DEF Init, Places, Operations, Steps
  <2>4. monitor \in [task : Tasks \cup {NoTask}, locked : BOOLEAN]
    BY DEF Init
  <2>5. locked \in BOOLEAN /\ left \in Nat /\ mistimed \subseteq Tasks
    BY DEF Init
  <2>6. commands \in 0..MaxCommands /\ sessions \in 0..MaxSessions
    BY BoundsAssumption DEF Init
  <2>7. /\ running \subseteq Tasks /\ kill \subseteq Tasks
        /\ cont \subseteq Tasks /\ force \subseteq Tasks /\ slot \subseteq Tasks
    BY DEF Init
  <2> QED
    BY <2>1, <2>2, <2>3, <2>4, <2>5, <2>6, <2>7 DEF TypeOK
<1>2. GuiShape /\ MonitorApart /\ FreshIsNew /\ RunningIsLive /\ KillHasThread
  BY <1>1 DEF Init, GuiShape, MonitorApart, FreshIsNew, RunningIsLive, KillHasThread, Live, TypeOK
<1>3. StoppedIsGone /\ StartIsDue /\ ActiveHasSomebody /\ EndsActiveIfKilled
  BY <1>1 DEF Init, StoppedIsGone, StartIsDue, ActiveHasSomebody, EndsActiveIfKilled, Live, TypeOK
<1>4. KillHasStopper /\ RemovedTaskHasNoThread /\ StoppedTaskDoesNoWork
  BY <1>1 DEF Init, KillHasStopper, RemovedTaskHasNoThread, StoppedTaskDoesNoWork,
     TypeOK
<1> QED
  BY <1>1, <1>2, <1>3, <1>4 DEF Inv

\* The invariant above holds for any number of tasks and commands, and for any limit.
THEOREM InvInvariant ==
    ASSUME ~EarlyCommands
    PROVE  Spec => []Inv
<1>1. Inv /\ [Next]_vars => Inv'
  BY InvKept
<1> QED
  BY <1>1, InvAtFirst, PTL DEF Spec

\* Type correctness.
THEOREM TypeCorrect ==
    ASSUME ~EarlyCommands
    PROVE  Spec => []TypeOK
<1>1. Inv => TypeOK
  BY DEF Inv
<1> QED
  BY <1>1, InvInvariant, PTL

\* TTask::PauseProcessing and CancelProcessing: a task that shows that it was stopped
\* has no thread that works on it, however the wait for the thread came out, unless the
\* retry of a command line met the thread that was just pausing it.
THEOREM StoppedTasksDoNoWork ==
    ASSUME ~EarlyCommands
    PROVE  Spec => []StoppedTaskDoesNoWork
<1>1. Inv => StoppedTaskDoesNoWork
  BY DEF Inv
<1> QED
  BY <1>1, InvInvariant, PTL

\* TTaskManager::RemoveFinished and RemoveAllFinished free no task whose thread, or
\* whose kill event, somebody still uses.
THEOREM RemovedTasksHaveNoThread ==
    ASSUME ~EarlyCommands
    PROVE  Spec => []RemovedTaskHasNoThread
<1>1. Inv => RemovedTaskHasNoThread
  BY DEF Inv
<1> QED
  BY <1>1, InvInvariant, PTL

\* No thread dies of an old request: TWorkerThreadController resets the kill event
\* before the one who set it goes on.
THEOREM KillsHaveStoppers ==
    ASSUME ~EarlyCommands
    PROVE  Spec => []KillHasStopper
<1>1. Inv => KillHasStopper
  BY DEF Inv
<1> QED
  BY <1>1, InvInvariant, PTL

\* Between two commands no task shows that it waits or works without a thread that
\* would take it further, but for tasks whose resume was refused because the thread that
\* paused them was still storing (TTask::ResumeProcessing sets the state first), and for
\* those that the retry of a command line met with a thread.
THEOREM ActiveStatesHaveThreads ==
    ASSUME ~EarlyCommands
    PROVE  Spec => []ActiveStateHasThread
<1>1. Inv => ActiveStateHasThread
  <2> SUFFICES ASSUME Inv, op = "idle", NEW t \in listed \ mistimed, state[t] \in Active
               PROVE  Live(t)
    BY DEF ActiveStateHasThread
  <2>1. todo = {}
    BY DEF Inv, GuiShape
  <2>2. kill = {}
    BY <2>1 DEF Inv, KillHasStopper
  <2> QED
    BY <2>1, <2>2 DEF Inv, ActiveHasSomebody, Current
<1> QED
  BY <1>1, InvInvariant, PTL

\* TWorkerThreadController::StartThread throws only in a resume of a task whose thread
\* is about to end, and in the retry after a command line: a restart, a new task, the
\* retry of a new session and the clipboard monitor never find the thread still there.
THEOREM StartsAreRefusedOnlyLate ==
    ASSUME ~EarlyCommands
    PROVE  Spec => []StartRefusedOnlyLate
<1>1. Inv => StartRefusedOnlyLate
  <2> SUFFICES ASSUME Inv
               PROVE  StartRefusedOnlyLate
    OBVIOUS
  <2>1. monitor.task # NoTask => ~Live(monitor.task)
    BY DEF Inv, MonitorApart
  <2>2. ASSUME NEW t \in Tasks, Current(t), step = "begin", Live(t)
        PROVE  \/ op \in Resumes /\ (pc[t] \in {"store", "ending"} \/ t \in mistimed)
               \/ op = "commandLine"
    <3>1. op \in Resumes \/ op = "commandLine"
      BY <2>2 DEF Inv, StartIsDue, Due
    <3>2. op \in Resumes /\ t \notin mistimed => pc[t] \in Places \ (Working \cup {"none", "ended"})
      BY <2>2 DEF Inv, StartIsDue, Due, Live, TypeOK
    <3> QED
      BY <3>1, <3>2 DEF Places, Working
  <2> QED
    BY <2>1, <2>2 DEF StartRefusedOnlyLate
<1> QED
  BY <1>1, InvInvariant, PTL

-----------------------------------------------------------------------------
(* The limit: TaskSlots, but for its fairness *)

Holders == {t \in slot : pc[t] \in {"granted", "work"}}

\* Tasks that were given the continue flag and have not noticed yet.
Promised == {t \in Tasks : pc[t] = "asleep" /\ t \in cont}

\* When a task shows that it waits, and when it may have a flag or a slot.
FlagShape ==
    /\ \A t \in Tasks : state[t] = "Waiting" => pc[t] \in {"asleep", "granted"}
    /\ \A t \in cont : pc[t] \in {"asleep", "granted", "work", "store", "ending"}
    /\ \A t \in slot : pc[t] \in {"granted", "work", "store", "ending"}

\* ResumeWaitingTasks counts every task with a slot that works.
HoldersAreCounted ==
    /\ \A t \in Tasks : pc[t] \notin {"none", "begin", "ended"} => t \in running
    /\ \A t \in slot : pc[t] = "work" => state[t] = "Processing"

\* Nobody has a thread when the next session begins.
ExitStops ==
    /\ op = "exit" => \A t \in Tasks \ todo : pc[t] = "none"
    /\ op = "closed" => \A t \in Tasks : pc[t] = "none"

\* Slots, promised ones and those that the walk has still to give away.
LimitKept ==
    Limit > 0 =>
        Cardinality(Holders \cup Promised) + (IF op = "grant" THEN left ELSE 0) <= Limit

SlotInv == FlagShape /\ HoldersAreCounted /\ ExitStops /\ LimitKept

Waits == {t \in Tasks : pc[t] = "asleep"}

\* What a step of a thread does to the waiting and to the slots.
LEMMA ThreadSlotEffect ==
    ASSUME TypeOK, NEW t \in Tasks, ThreadStep(t)
    PROVE  /\ pc' = [pc EXCEPT ![t] = pc'[t]]
           /\ state' = [state EXCEPT ![t] = state'[t]]
           /\ UNCHANGED <<listed, op, todo, left>>
           /\ \/ /\ pc[t] = "begin" /\ pc'[t] = "scan"
                 /\ running' = running \cup {t} /\ state'[t] = state[t] /\ UNCHANGED <<cont, slot>>
              \/ /\ pc[t] = "scan" /\ pc'[t] = "asleep"
                 /\ UNCHANGED <<running, cont, slot>>
              \/ /\ pc[t] = "scan" /\ pc'[t] = "work"
                 /\ state'[t] = state[t] /\ UNCHANGED <<running, cont, slot>>
              \/ /\ pc[t] = "asleep" /\ pc'[t] = "granted" /\ cont' = cont \ {t}
                 /\ t \in force /\ slot' = slot
                 /\ state'[t] = state[t] /\ UNCHANGED running
              \/ /\ pc[t] = "asleep" /\ pc'[t] = "granted" /\ cont' = cont \ {t}
                 /\ t \in cont /\ slot' = slot \cup {t}
                 /\ state'[t] = state[t] /\ UNCHANGED running
              \/ /\ pc[t] = "granted" /\ pc'[t] \in {"work", "store"}
                 /\ state'[t] = "Processing" /\ UNCHANGED <<running, cont, slot>>
              \/ /\ pc[t] \in {"scan", "asleep", "work"} /\ pc'[t] \in {"store", "ending"}
                 /\ state'[t] = "Waiting" => state[t] = "Waiting" /\ pc[t] # "asleep"
                 /\ UNCHANGED <<running, cont, slot>>
              \/ /\ pc[t] = "store" /\ pc'[t] = "ending"
                 /\ state'[t] = "Waiting" => state[t] = "Waiting"
                 /\ UNCHANGED <<running, cont, slot>>
              \/ /\ pc[t] = "ending" /\ pc'[t] = "ended" /\ state'[t] = state[t]
                 /\ cont' = cont \ {t} /\ slot' = slot \ {t} /\ running' = running \ {t}
<1>1. ThreadFrame /\ pc \in [Tasks -> Places] /\ state \in [Tasks -> States]
  BY DEF ThreadStep, TypeOK
<1>2. CASE ThreadBegins(t)
  BY <1>1, <1>2 DEF ThreadBegins, ThreadFrame, Goes, guiVars, flagVars
<1>3. CASE StartsToWait(t) \/ NeedsNoWait(t)
  BY <1>1, <1>3 DEF StartsToWait, NeedsNoWait, ThreadFrame, Goes, Sets, guiVars, flagVars
<1>4. CASE CanBegin(t)
  BY <1>1, <1>4 DEF CanBegin, ThreadFrame, Goes, guiVars
<1>5. CASE WaitEnds(t)
  BY <1>1, <1>5 DEF WaitEnds, ThreadFrame, Goes, Sets, guiVars, flagVars
<1>6. CASE Killed(t) \/ Completes(t)
  BY <1>1, <1>6 DEF Killed, Completes, ThreadFrame, Goes, Sets, guiVars, flagVars
<1>7. CASE Breaks(t) \/ Throws(t)
  BY <1>1, <1>7 DEF Breaks, Throws, ThreadFrame, Goes, Sets, guiVars, flagVars
<1>8. CASE Stores(t) \/ ThreadEnds(t)
  BY <1>1, <1>8 DEF Stores, ThreadEnds, ThreadFrame, Goes, guiVars, flagVars
<1> QED
  BY <1>2, <1>3, <1>4, <1>5, <1>6, <1>7, <1>8 DEF ThreadStep

\* A step of a thread keeps the shape of the flags, and gives nobody a slot to whom it
\* was not promised.
LEMMA ThreadSlotsKept ==
    ASSUME Inv, SlotInv, NEW t \in Tasks, ThreadStep(t)
    PROVE  /\ FlagShape' /\ HoldersAreCounted' /\ ExitStops'
           /\ Holders' \cup Promised' \subseteq Holders \cup Promised
<1>1. /\ pc \in [Tasks -> Places] /\ state \in [Tasks -> States]
      /\ cont \subseteq Tasks /\ slot \subseteq Tasks
  BY DEF Inv, TypeOK
<1>2. FlagShape'
  BY <1>1, ThreadSlotEffect DEF SlotInv, FlagShape, Inv
<1>3. HoldersAreCounted'
  BY <1>1, ThreadSlotEffect DEF SlotInv, FlagShape, HoldersAreCounted, Inv
<1>4. ExitStops'
  <2>1. pc[t] # "none"
    BY ThreadStepEffect DEF Inv, Live
  <2> QED
    BY <1>1, <2>1, ThreadSlotEffect DEF SlotInv, ExitStops, Inv
<1>5. Holders' \cup Promised' \subseteq Holders \cup Promised
  BY <1>1, ThreadSlotEffect DEF SlotInv, FlagShape, Holders, Promised, Inv
<1> QED
  BY <1>2, <1>3, <1>4, <1>5

\* What all other steps, but for the next session, do for one task.
LeavesSlots(t) ==
    \/ /\ pc'[t] = pc[t] /\ state'[t] \in {state[t], "Processing"}
       /\ t \in running => t \in running'
    \/ /\ pc[t] \in {"none", "ended"} /\ pc'[t] \in {"none", "begin", "ended"}
       /\ state'[t] = "Waiting" => state[t] = "Waiting"

\* All other steps leave waiting and slots alone: they start threads where there are
\* none, forget those that have ended and set the states of tasks without one.
LEMMA OtherSlotEffect ==
    ASSUME Inv, ~EarlyCommands, [Next]_vars, ~NextSession,
           \A t \in Tasks : ~ThreadStep(t)
    PROVE  slot' = slot /\ \A t \in Tasks : LeavesSlots(t)
<1>1. CASE \/ Button \/ ResumeWaitingTasks \/ PrepareToExit \/ MonitorLocks
           \/ \E t \in Tasks :
                  \/ CreateTask(t) \/ ImportTask(t) \/ MonitorAdds(t)
                  \/ PassesOver(t) \/ Decides(t) \/ RetryProcessing(t) \/ RetryLooksAtThread(t)
                  \/ SetForceFlag(t) \/ SetContinueFlag(t) \/ RemoveTask(t) \/ Exits(t)
  <2>1. UNCHANGED <<pc, state, running, slot>>
    BY <1>1
       DEF Button, CreateTask, ImportTask, ResumeWaitingTasks, PrepareToExit, MonitorLocks,
           MonitorAdds, PassesOver, Decides, RetryProcessing, RetryBegins, RetryLooksAtThread, SetForceFlag,
           SetContinueFlag, RemoveTask, Exits, Commands, taskVars, threadVars, flagVars
  <2> QED
    BY <2>1 DEF LeavesSlots
<1>2. ASSUME NEW t \in Tasks, Current(t), ResumeProcessing(t)
      PROVE  slot' = slot /\ \A u \in Tasks : LeavesSlots(u)
  BY <1>2 DEF Inv, TypeOK, ResumeProcessing, Sets, threadVars, flagVars, LeavesSlots
<1>3. ASSUME NEW t \in Tasks, Current(t), EndsPausedOrCancelled(t) \/ RestartProcessing(t)
      PROVE  slot' = slot /\ \A u \in Tasks : LeavesSlots(u)
  <2>1. pc[t] = "none"
    BY <1>3 DEF Inv, StoppedIsGone, EndsPausedOrCancelled, RestartProcessing
  <2> QED
    BY <1>3, <2>1
       DEF Inv, TypeOK, EndsPausedOrCancelled, RestartProcessing, Sets, threadVars, flagVars,
           LeavesSlots
<1>4. ASSUME NEW t \in Tasks, Current(t), StopThread(t) \/ AwaitThread(t)
      PROVE  slot' = slot /\ \A u \in Tasks : LeavesSlots(u)
  BY <1>4 DEF Inv, TypeOK, StopThread, AwaitThread, Goes, taskVars, flagVars, LeavesSlots
<1>5. ASSUME NEW t \in Tasks, Current(t), BeginProcessing(t)
      PROVE  slot' = slot /\ \A u \in Tasks : LeavesSlots(u)
  BY <1>5 DEF Inv, TypeOK, BeginProcessing, Goes, Live, taskVars, flagVars, LeavesSlots
<1>6. ASSUME NEW t \in Tasks, MonitorStarts(t)
      PROVE  slot' = slot /\ \A u \in Tasks : LeavesSlots(u)
  BY <1>6, MonitorStartsEffect DEF Inv, TypeOK, Live, taskVars, flagVars, LeavesSlots
<1>7. CASE UNCHANGED vars
  BY <1>7 DEF vars, taskVars, threadVars, flagVars, LeavesSlots
<1> QED
  BY <1>1, <1>2, <1>3, <1>4, <1>5, <1>6, <1>7, ButtonEffect
     DEF Next, UserInterface, GuiStep

\* Only the walk over the waiting tasks gives continue flags, one for each slot it has.
LEMMA OtherFlagEffect ==
    ASSUME Inv, ~EarlyCommands, [Next]_vars, ~NextSession, ~ResumeWaitingTasks,
           \A t \in Tasks : ~ThreadStep(t)
    PROVE  \/ cont' = cont /\ (op' = "grant" => op = "grant" /\ left' = left)
           \/ /\ op = "grant" /\ (op' = "grant" => left' = left - 1) /\ left > 0
              /\ \E t \in Tasks : state[t] = "Waiting" /\ cont' = cont \cup {t}
<1>1. ASSUME NEW t \in Tasks, SetContinueFlag(t)
      PROVE  /\ op = "grant" /\ (op' = "grant" => left' = left - 1) /\ left > 0
             /\ \E u \in Tasks : state[u] = "Waiting" /\ cont' = cont \cup {u}
  BY <1>1 DEF Inv, GuiShape, SetContinueFlag, Does
<1>2. CASE \/ Button \/ PrepareToExit \/ MonitorLocks
           \/ \E t \in Tasks :
                  CreateTask(t) \/ ImportTask(t) \/ MonitorAdds(t) \/ MonitorStarts(t)
  BY <1>2
     DEF Button, Stoppers, CreateTask, ImportTask, PrepareToExit, MonitorLocks, MonitorAdds,
         MonitorStarts, Commands, Does, flagVars, guiVars
<1>3. CASE \E t \in Tasks :
               \/ PassesOver(t) \/ Decides(t) \/ ResumeProcessing(t)
               \/ RetryProcessing(t) \/ RetryLooksAtThread(t) \/ SetForceFlag(t) \/ StopThread(t) \/ AwaitThread(t)
               \/ EndsPausedOrCancelled(t) \/ RestartProcessing(t) \/ RemoveTask(t)
  BY <1>3
     DEF PassesOver, Decides, ResumeProcessing, RetryProcessing, RetryBegins, RetryLooksAtThread, SetForceFlag, StopThread,
         AwaitThread, EndsPausedOrCancelled, RestartProcessing, RemoveTask, NextTask, GoesTo,
         Does, flagVars
<1>4. CASE \E t \in Tasks : Exits(t) \/ BeginProcessing(t)
  BY <1>4 DEF Exits, BeginProcessing, NextTask, Does, flagVars
<1>5. CASE UNCHANGED vars
  BY <1>5 DEF vars, flagVars, guiVars
<1> QED
  BY <1>1, <1>2, <1>3, <1>4, <1>5, ButtonEffect DEF Next, UserInterface, GuiStep

\* The places of one task after a step that leaves its slots alone.
LEMMA OtherSetsKept ==
    ASSUME Inv, SlotInv, slot' = slot, \A t \in Tasks : LeavesSlots(t)
    PROVE  Holders' = Holders /\ Waits' = Waits
<1>1. slot \subseteq Tasks
  BY DEF Inv, TypeOK
<1> QED
  BY <1>1 DEF LeavesSlots, Holders, Waits

\* All other steps keep the shape of the flags and what the timer counts.
LEMMA OtherFlagsKept ==
    ASSUME Inv, SlotInv, ~EarlyCommands, [Next]_vars, ~NextSession,
           \A t \in Tasks : ~ThreadStep(t)
    PROVE  FlagShape' /\ HoldersAreCounted'
<1>1. slot' = slot /\ \A t \in Tasks : LeavesSlots(t)
  BY OtherSlotEffect
<1>2. cont \subseteq Tasks /\ slot \subseteq Tasks
  BY DEF Inv, TypeOK
<1>3. cont' = cont \/ \E t \in Tasks : state[t] = "Waiting" /\ cont' = cont \cup {t}
  <2>1. CASE ResumeWaitingTasks
    BY <2>1 DEF ResumeWaitingTasks, flagVars
  <2>2. CASE ~ResumeWaitingTasks
    BY <2>2, OtherFlagEffect
  <2> QED
    BY <2>1, <2>2
<1>4. \A t \in Tasks : state'[t] = "Waiting" => pc'[t] \in {"asleep", "granted"}
  BY <1>1 DEF SlotInv, FlagShape, LeavesSlots
<1>5. \A t \in cont' : pc'[t] \in {"asleep", "granted", "work", "store", "ending"}
  <2> SUFFICES ASSUME NEW t \in cont'
               PROVE  pc'[t] \in {"asleep", "granted", "work", "store", "ending"}
    OBVIOUS
  <2>1. t \in Tasks /\ pc[t] \in {"asleep", "granted", "work", "store", "ending"}
    BY <1>2, <1>3 DEF SlotInv, FlagShape
  <2> QED
    BY <1>1, <2>1 DEF LeavesSlots
<1>6. \A t \in slot' : pc'[t] \in {"granted", "work", "store", "ending"}
  <2> SUFFICES ASSUME NEW t \in slot
               PROVE  pc'[t] \in {"granted", "work", "store", "ending"}
    BY <1>1
  <2>1. t \in Tasks /\ pc[t] \in {"granted", "work", "store", "ending"}
    BY <1>2 DEF SlotInv, FlagShape
  <2> QED
    BY <1>1, <2>1 DEF LeavesSlots
<1>7. \A t \in Tasks : pc'[t] \notin {"none", "begin", "ended"} => t \in running'
  BY <1>1 DEF SlotInv, HoldersAreCounted, LeavesSlots
<1>8. \A t \in slot' : pc'[t] = "work" => state'[t] = "Processing"
  <2> SUFFICES ASSUME NEW t \in slot, pc'[t] = "work"
               PROVE  state'[t] = "Processing"
    BY <1>1
  <2>1. t \in Tasks
    BY <1>2
  <2> QED
    BY <1>1, <2>1 DEF SlotInv, HoldersAreCounted, LeavesSlots
<1> QED
  BY <1>4, <1>5, <1>6, <1>7, <1>8 DEF FlagShape, HoldersAreCounted

\* While the program ends threads end, and none begins.
LEMMA OtherExitStops ==
    ASSUME Inv, SlotInv, ~EarlyCommands, [Next]_vars, ~NextSession,
           \A t \in Tasks : ~ThreadStep(t)
    PROVE  ExitStops'
<1>1. CASE \/ Button \/ ResumeWaitingTasks \/ MonitorLocks
           \/ \E t \in Tasks :
                  \/ CreateTask(t) \/ ImportTask(t) \/ MonitorAdds(t)
                  \/ SetForceFlag(t) \/ SetContinueFlag(t) \/ ResumeProcessing(t)
                  \/ Decides(t) \/ RetryProcessing(t) \/ RetryLooksAtThread(t)
                  \/ EndsPausedOrCancelled(t) \/ RestartProcessing(t) \/ RemoveTask(t)
                  \/ PassesOver(t)
  BY <1>1
     DEF SlotInv, ExitStops, Button, Stoppers, ResumeWaitingTasks, MonitorLocks, CreateTask,
         ImportTask, MonitorAdds, SetForceFlag, SetContinueFlag, ResumeProcessing, Decides,
         RetryProcessing, RetryBegins, RetryLooksAtThread, EndsPausedOrCancelled, RestartProcessing, RemoveTask, PassesOver,
         Commands, Does, NextTask, GoesTo, threadVars, guiVars, Inv, GuiShape
<1>2. CASE PrepareToExit
  BY <1>2 DEF PrepareToExit, Does, Inv, RemovedTaskHasNoThread, ExitStops
<1>3. ASSUME NEW t \in Tasks, Current(t), StopThread(t) \/ AwaitThread(t)
      PROVE  ExitStops'
  <2>1. \A u \in Tasks : pc[u] = "none" => pc'[u] = "none"
    BY <1>3 DEF StopThread, AwaitThread, Goes, Inv, TypeOK
  <2>2. op' = op /\ todo' = todo
    BY <1>3 DEF StopThread, AwaitThread, GoesTo
  <2> QED
    BY <2>1, <2>2 DEF SlotInv, ExitStops
<1>4. ASSUME NEW t \in Tasks, Current(t), Exits(t)
      PROVE  ExitStops'
  <2>1. op = "exit" /\ pc' = pc /\ pc[t] = "none"
    BY <1>4 DEF Exits, threadVars, Inv, StoppedIsGone
  <2>2. (todo = {t} /\ op' = "closed") \/ (todo' = todo \ {t} /\ op' # "closed")
    BY <1>4 DEF Exits, NextTask, Does
  <2> QED
    BY <2>1, <2>2 DEF SlotInv, ExitStops
<1>5. ASSUME NEW t \in Tasks, Current(t), BeginProcessing(t)
      PROVE  ExitStops'
  <2>1. op \notin {"exit", "closed"}
    BY <1>5 DEF BeginProcessing, Inv, GuiShape, Current
  <2>2. op' \in {op, "idle"}
    BY <1>5 DEF BeginProcessing, NextTask, Does
  <2> QED
    BY <2>1, <2>2 DEF ExitStops
<1>6. ASSUME NEW t \in Tasks, MonitorStarts(t)
      PROVE  ExitStops'
  BY <1>6, MonitorStartsEffect DEF ExitStops, guiVars
<1>7. CASE UNCHANGED vars
  BY <1>7 DEF SlotInv, ExitStops, vars, threadVars, guiVars
<1> QED
  BY <1>1, <1>2, <1>3, <1>4, <1>5, <1>6, <1>7, ButtonEffect
     DEF Next, UserInterface, GuiStep

\* The sets that are counted are finite.
LEMMA CountedAreFinite ==
    ASSUME TypeOK
    PROVE  /\ IsFiniteSet(Holders \cup Promised) /\ Cardinality(Holders \cup Promised) \in Nat
           /\ IsFiniteSet(Holders) /\ Cardinality(Holders) \in Nat
           /\ IsFiniteSet(RunningTasks) /\ Cardinality(RunningTasks) \in Nat
<1>1. /\ Holders \cup Promised \subseteq Tasks /\ Holders \subseteq Tasks
      /\ RunningTasks \subseteq Tasks
  BY DEF TypeOK, Holders, Promised, RunningTasks
<1> QED
  BY <1>1, TasksAssumption, FS_Subset, FS_CardinalityType

\* The limit is kept by the threads, which take what they were promised ...
LEMMA ThreadLimitKept ==
    ASSUME Inv, TypeOK', SlotInv, NEW t \in Tasks, ThreadStep(t)
    PROVE  LimitKept'
<1>1. Holders' \cup Promised' \subseteq Holders \cup Promised
  BY ThreadSlotsKept
<1>2. IsFiniteSet(Holders \cup Promised) /\ Cardinality(Holders \cup Promised) \in Nat
  BY CountedAreFinite DEF Inv
<1>3. Cardinality(Holders' \cup Promised') <= Cardinality(Holders \cup Promised)
      /\ Cardinality(Holders' \cup Promised') \in Nat
  BY <1>1, <1>2, FS_Subset, FS_CardinalityType
<1>4. Cardinality(Holders \cup Promised)' = Cardinality(Holders' \cup Promised')
  OBVIOUS
<1>5. op' = op /\ left' = left /\ left \in Nat
  BY ThreadSlotEffect DEF Inv, TypeOK
<1>6. Limit \in Nat
  BY LimitAssumption
<1> QED
  BY <1>2, <1>3, <1>4, <1>5, <1>6 DEF SlotInv, LimitKept

\* ... by the timer, which counts all that have a slot, when none is promised ...
LEMMA TimerLimitKept ==
    ASSUME Inv, SlotInv, PromptWake, ResumeWaitingTasks
    PROVE  LimitKept'
<1>1. UNCHANGED <<pc, slot, cont>>
  BY DEF ResumeWaitingTasks, threadVars, flagVars
<1>2. Holders' \cup Promised' = Holders
  BY <1>1 DEF ResumeWaitingTasks, Holders, Promised
<1>3. Holders \subseteq RunningTasks
  <2> SUFFICES ASSUME NEW t \in Holders PROVE t \in RunningTasks
    OBVIOUS
  <2>1. t \in slot /\ t \in Tasks /\ pc[t] = "work"
    BY DEF Holders, ResumeWaitingTasks, Inv, TypeOK
  <2>2. t \in running /\ state[t] = "Processing"
    BY <2>1 DEF SlotInv, HoldersAreCounted
  <2>3. t \in listed
    BY <2>1 DEF Inv, RemovedTaskHasNoThread
  <2> QED
    BY <2>2, <2>3 DEF RunningTasks
<1>4. /\ Cardinality(Holders) <= Cardinality(RunningTasks)
      /\ Cardinality(Holders) \in Nat /\ Cardinality(RunningTasks) \in Nat
  BY <1>3, CountedAreFinite, FS_Subset DEF Inv
<1>5. Limit > 0 => /\ Cardinality(RunningTasks) < Limit
                   /\ op' = "grant" => left' = Limit - Cardinality(RunningTasks)
  BY LimitAssumption DEF ResumeWaitingTasks, Does
<1>6. Cardinality(Holders \cup Promised)' = Cardinality(Holders)
  BY <1>2
<1> QED
  BY <1>4, <1>5, <1>6, LimitAssumption DEF LimitKept

\* ... and by the walk, which promises one slot less than before with each flag.
LEMMA OtherLimitKept ==
    ASSUME Inv, TypeOK', SlotInv, ~EarlyCommands, [Next]_vars, ~NextSession,
           ~ResumeWaitingTasks, \A t \in Tasks : ~ThreadStep(t)
    PROVE  LimitKept'
<1>1. slot' = slot /\ \A t \in Tasks : LeavesSlots(t)
  BY OtherSlotEffect
<1>2. Holders' = Holders /\ \A t \in Tasks : pc'[t] = "asleep" <=> pc[t] = "asleep"
  <2>1. Holders' = Holders
    BY <1>1, OtherSetsKept
  <2> QED
    BY <1>1, <2>1 DEF LeavesSlots
<1> DEFINE n == Cardinality(Holders \cup Promised)
<1>3. IsFiniteSet(Holders \cup Promised) /\ n \in Nat
  BY CountedAreFinite DEF Inv
<1>4. left \in Nat /\ left' \in Nat /\ Limit \in Nat
  BY LimitAssumption DEF Inv, TypeOK
<1>5. LimitKept' <=>
        (Limit > 0 => Cardinality(Holders' \cup Promised')
                          + (IF op' = "grant" THEN left' ELSE 0) <= Limit)
  BY DEF LimitKept
<1>6. CASE cont' = cont /\ (op' = "grant" => op = "grant" /\ left' = left)
  <2>1. Holders' \cup Promised' = Holders \cup Promised
    BY <1>2, <1>6 DEF Promised
  <2> QED
    BY <1>3, <1>4, <1>5, <1>6, <2>1 DEF SlotInv, LimitKept
<1>7. ASSUME NEW t \in Tasks, cont' = cont \cup {t}, op = "grant", left > 0,
             op' = "grant" => left' = left - 1
      PROVE  LimitKept'
  <2>1. Holders' \cup Promised' \subseteq (Holders \cup Promised) \cup {t}
    BY <1>2, <1>7 DEF Promised
  <2>2. /\ IsFiniteSet((Holders \cup Promised) \cup {t})
        /\ Cardinality((Holders \cup Promised) \cup {t}) \in {n, n + 1}
    BY <1>3, FS_AddElement
  <2>3. /\ Cardinality(Holders' \cup Promised') <= Cardinality((Holders \cup Promised) \cup {t})
        /\ Cardinality(Holders' \cup Promised') \in Nat
    BY <2>1, <2>2, FS_Subset, FS_CardinalityType
  <2>4. Cardinality(Holders' \cup Promised') <= n + 1
    BY <1>3, <2>2, <2>3
  <2>5. Limit > 0 => n + left <= Limit
    BY <1>7 DEF SlotInv, LimitKept
  <2> HIDE DEF n
  <2> QED
    BY <1>3, <1>4, <1>5, <1>7, <2>3, <2>4, <2>5
<1> QED
  BY <1>6, <1>7, OtherFlagEffect

\* When the next session begins nobody waits and no slot is held.
LEMMA NextSessionSlots ==
    ASSUME Inv, SlotInv, "Waiting" \notin LoadedStates, NextSession
    PROVE  SlotInv' /\ UNCHANGED <<Waits, Holders>>
<1>1. /\ \A t \in Tasks : pc[t] = "none" /\ pc'[t] = "none"
      /\ cont' = {} /\ slot' = {} /\ slot \subseteq Tasks /\ op' \in {"retry", "idle"}
  BY DEF NextSession, Does, SlotInv, ExitStops, Inv, TypeOK
<1>2. Waits = {} /\ Waits' = {} /\ Holders = {} /\ Holders' = {} /\ Promised' = {}
  BY <1>1 DEF Waits, Holders, Promised
<1>3. \A t \in Tasks : state'[t] # "Waiting"
  <2>1. \A t \in Tasks : state[t] # "Waiting"
    BY <1>1 DEF SlotInv, FlagShape
  <2> QED
    BY <2>1 DEF NextSession
<1>4. FlagShape' /\ HoldersAreCounted' /\ ExitStops'
  BY <1>1, <1>3 DEF FlagShape, HoldersAreCounted, ExitStops
<1>5. LimitKept'
  <2>1. Cardinality(Holders \cup Promised)' = Cardinality({})
    BY <1>2
  <2>2. Cardinality({}) = 0
    BY FS_EmptySet
  <2> QED
    BY <1>1, <2>1, <2>2, LimitAssumption DEF LimitKept
<1> QED
  BY <1>2, <1>4, <1>5 DEF SlotInv

\* At first nobody waits.
LEMMA SlotInvAtFirst ==
    ASSUME "Waiting" \notin LoadedStates, Init
    PROVE  SlotInv /\ Slots!Init
<1>1. Holders = {} /\ Promised = {} /\ {t \in Tasks : pc[t] = "asleep"} = {}
  BY DEF Init, Holders, Promised
<1>2. FlagShape /\ HoldersAreCounted /\ ExitStops
  BY DEF Init, FlagShape, HoldersAreCounted, ExitStops
<1>3. LimitKept
  <2>1. Cardinality(Holders \cup Promised) = Cardinality({})
    BY <1>1
  <2>2. Cardinality({}) = 0 /\ op # "grant"
    BY FS_EmptySet DEF Init
  <2> QED
    BY <2>1, <2>2, LimitAssumption DEF LimitKept
<1> QED
  BY <1>1, <1>2, <1>3 DEF SlotInv, Slots!Init, Holders

\* The invariant about the slots is inductive.
LEMMA SlotInvKept ==
    ASSUME Inv, Inv', SlotInv, ~EarlyCommands, PromptWake,
           "Waiting" \notin LoadedStates, [Next]_vars
    PROVE  SlotInv'
<1>0. TypeOK'
  BY DEF Inv
<1>1. CASE \E t \in Tasks : ThreadStep(t)
  BY <1>0, <1>1, ThreadSlotsKept, ThreadLimitKept DEF SlotInv
<1>2. CASE NextSession
  BY <1>2, NextSessionSlots
<1>3. CASE ~NextSession /\ \A t \in Tasks : ~ThreadStep(t)
  <2>1. FlagShape' /\ HoldersAreCounted' /\ ExitStops'
    BY <1>3, OtherFlagsKept, OtherExitStops
  <2>2. LimitKept'
    BY <1>0, <1>3, OtherLimitKept, TimerLimitKept
  <2> QED
    BY <2>1, <2>2 DEF SlotInv
<1> QED
  BY <1>1, <1>2, <1>3

\* A thread that leaves its sleep with the flag takes a slot, and there is one.
LEMMA SlotIsFree ==
    ASSUME Inv, SlotInv, NEW t \in Tasks, pc[t] = "asleep", t \in cont
    PROVE  Limit = 0 \/ Cardinality(Holders) < Limit
<1>1. t \notin Holders /\ t \in Promised
  BY DEF Holders, Promised
<1>2. /\ IsFiniteSet(Holders) /\ Cardinality(Holders) \in Nat
      /\ IsFiniteSet(Holders \cup Promised) /\ Cardinality(Holders \cup Promised) \in Nat
  BY CountedAreFinite DEF Inv
<1>3. Cardinality(Holders) <= Cardinality(Holders \cup Promised)
  BY <1>2, FS_Subset
<1>4. Cardinality(Holders) # Cardinality(Holders \cup Promised)
  BY <1>1, <1>2, FS_Subset
<1>5. Limit \in Nat /\ left \in Nat
  BY LimitAssumption DEF Inv, TypeOK
<1> QED
  BY <1>2, <1>3, <1>4, <1>5 DEF SlotInv, LimitKept

\* A step of a thread is one of TaskSlots, or none.
LEMMA ThreadImplements ==
    ASSUME Inv, SlotInv, NEW t \in Tasks, ThreadStep(t)
    PROVE  \/ UNCHANGED <<Waits, Holders>>
           \/ /\ t \notin Waits \cup Holders
              /\ Waits' = Waits \cup {t} /\ Holders' = Holders
           \/ /\ t \in Waits /\ (Limit = 0 \/ Cardinality(Holders) < Limit)
              /\ Waits' = Waits \ {t} /\ Holders' = Holders \cup {t}
           \/ t \in Waits /\ Waits' = Waits \ {t} /\ Holders' = Holders
           \/ t \in Holders /\ Holders' = Holders \ {t} /\ Waits' = Waits
<1>1. pc \in [Tasks -> Places] /\ slot \subseteq Tasks
  BY DEF Inv, TypeOK
<1>2. \A u \in slot : pc[u] \in {"granted", "work", "store", "ending"}
  BY DEF SlotInv, FlagShape
<1>3. pc' = [pc EXCEPT ![t] = pc'[t]]
  BY ThreadSlotEffect DEF Inv
<1>4. CASE pc[t] \in {"begin", "store", "ending"} /\ pc'[t] \notin {"asleep", "granted", "work"}
           /\ (slot' = slot \/ slot' = slot \ {t})
  BY <1>1, <1>3, <1>4 DEF Waits, Holders
<1>5. CASE pc[t] = "scan" /\ pc'[t] \in {"asleep", "work", "store", "ending"} /\ slot' = slot
  BY <1>1, <1>2, <1>3, <1>5 DEF Waits, Holders
<1>6. CASE pc[t] = "asleep" /\ pc'[t] \in {"granted", "store", "ending"} /\ slot' = slot
  BY <1>1, <1>2, <1>3, <1>6 DEF Waits, Holders
<1>7. CASE pc[t] = "asleep" /\ pc'[t] = "granted" /\ t \in cont /\ slot' = slot \cup {t}
  <2>1. Limit = 0 \/ Cardinality(Holders) < Limit
    BY <1>7, SlotIsFree
  <2> QED
    BY <1>1, <1>2, <1>3, <1>7, <2>1 DEF Waits, Holders
<1>8. CASE pc[t] \in {"granted", "work"} /\ pc'[t] \in {"work", "store", "ending"} /\ slot' = slot
  BY <1>1, <1>2, <1>3, <1>8 DEF Waits, Holders
<1> QED
  BY <1>4, <1>5, <1>6, <1>7, <1>8, ThreadSlotEffect DEF Inv

\* TaskSlots counts as this module does.
LEMMA SlotsCardinality == \A S : Slots!Cardinality(S) = Cardinality(S)
  BY DEF Slots!Cardinality, Cardinality

\* Every step is one of TaskSlots, or none.
LEMMA StepImplements ==
    ASSUME Inv, SlotInv, ~EarlyCommands, "Waiting" \notin LoadedStates, [Next]_vars
    PROVE  [Slots!Next]_<<Waits, Holders>>
<1>1. ASSUME NEW t \in Tasks, ThreadStep(t) PROVE [Slots!Next]_<<Waits, Holders>>
  <2>1. CASE UNCHANGED <<Waits, Holders>>
    BY <2>1
  <2>2. CASE t \notin Waits \cup Holders /\ Waits' = Waits \cup {t} /\ Holders' = Holders
    <3>1. Slots!Wait(t)
      BY <2>2 DEF Slots!Wait, Waits, Holders
    <3> QED
      BY <3>1 DEF Slots!Next
  <2>3. CASE /\ t \in Waits /\ (Limit = 0 \/ Cardinality(Holders) < Limit)
             /\ Waits' = Waits \ {t} /\ Holders' = Holders \cup {t}
    <3>1. Slots!Enter(t)
      BY <2>3, SlotsCardinality DEF Slots!Enter, Waits, Holders
    <3> QED
      BY <3>1 DEF Slots!Next
  <2>4. CASE t \in Waits /\ Waits' = Waits \ {t} /\ Holders' = Holders
    <3>1. Slots!WithoutSlot(t)
      BY <2>4 DEF Slots!WithoutSlot, Waits, Holders
    <3> QED
      BY <3>1 DEF Slots!Next
  <2>5. CASE t \in Holders /\ Holders' = Holders \ {t} /\ Waits' = Waits
    <3>1. Slots!Leave(t)
      BY <2>5 DEF Slots!Leave, Waits, Holders
    <3> QED
      BY <3>1 DEF Slots!Next
  <2> QED
    BY <1>1, <2>1, <2>2, <2>3, <2>4, <2>5, ThreadImplements
<1>2. CASE NextSession
  BY <1>2, NextSessionSlots
<1>3. CASE ~NextSession /\ \A t \in Tasks : ~ThreadStep(t)
  BY <1>3, OtherSlotEffect, OtherSetsKept
<1> QED
  BY <1>1, <1>2, <1>3

\* Continue flags, the count of running tasks and the threads that sleep for them keep the
\* limit: a task is let in while fewer than Limit tasks hold a slot, or stops to wait
\* without one (TTaskManager::ResumeWaitingTasks, TTask::CheckForWaitState).
THEOREM LimitImplementsTaskSlots ==
    ASSUME ~EarlyCommands, PromptWake, "Waiting" \notin LoadedStates
    PROVE  Spec => Slots!Safety
<1>1. Inv /\ Inv' /\ SlotInv /\ [Next]_vars => SlotInv'
  BY SlotInvKept
<1>2. Init => SlotInv /\ Slots!Init
  BY SlotInvAtFirst
<1>3. Inv /\ SlotInv /\ [Next]_vars => [Slots!Next]_<<Waits, Holders>>
  BY StepImplements
<1> QED
  BY <1>1, <1>2, <1>3, InvInvariant, PTL DEF Spec, Slots!Safety, Waits, Holders
================================================================================
