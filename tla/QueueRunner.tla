------------------------------- MODULE QueueRunner -------------------------------
(***************************************************************************)
(* The thread that runs the reader, or the writer, of one file after the    *)
(* other: TThreadedQueueRunner with its WaitableQueue.  The thread of the   *)
(* task owns the runner: it pushes functions, may start the thread before,  *)
(* and stops it; the runner's thread waits for the queue's event and the    *)
(* kill event.  Functions are numbered in the order in which they are       *)
(* pushed.  A function returns: what it does is OverlappedCopy's subject.   *)
(***************************************************************************)
EXTENDS Integers, Sequences

CONSTANTS
    MaxPushes,    \* bound: functions that are pushed
    MaxStops      \* bound: calls of Stop

ASSUME BoundsAssumption == MaxPushes \in Nat /\ MaxStops \in Nat

VARIABLES
    queue,        \* m_queue
    hasEntries,   \* m_eventHasEntries
    kill,         \* m_eventLocalKill
    joinable,     \* does m_thread own a thread?
    thread,       \* where that thread is
    func,         \* the function that PopFront has returned
    owner,        \* where the owner is
    pushed, calls,\* functions pushed, functions called, in this order
    stops

ownerVars == <<owner, pushed, stops>>
vars == <<queue, hasEntries, kill, joinable, thread, func, calls, ownerVars>>

Init ==
    /\ queue = <<>> /\ hasEntries = FALSE
    /\ kill = FALSE /\ joinable = FALSE
    /\ thread = "none" /\ func = 0
    /\ owner = "idle" /\ pushed = 0 /\ calls = <<>> /\ stops = 0

-----------------------------------------------------------------------------
(* The owner *)

\* PushTask: the function comes first ...
PushBack ==
    /\ owner = "idle" /\ pushed < MaxPushes
    /\ pushed' = pushed + 1
    /\ queue' = Append(queue, pushed + 1) /\ hasEntries' = TRUE
    /\ owner' = "pushed"
    /\ UNCHANGED <<kill, joinable, thread, func, calls, stops>>

\* ... the thread is started after it.
PushTaskStarts ==
    /\ owner = "pushed"
    /\ owner' = IF joinable THEN "idle" ELSE "starts"
    /\ UNCHANGED <<queue, hasEntries, kill, joinable, thread, func, calls, pushed, stops>>

\* Start, called by the owner itself.
Start ==
    /\ owner = "idle" /\ ~joinable
    /\ owner' = "starts"
    /\ UNCHANGED <<queue, hasEntries, kill, joinable, thread, func, calls, pushed, stops>>

\* The rest of Start.
ResetsKill ==
    /\ owner = "starts"
    /\ kill' = FALSE
    /\ owner' = "creates"
    /\ UNCHANGED <<queue, hasEntries, joinable, thread, func, calls, pushed, stops>>

CreatesThread ==
    /\ owner = "creates"
    /\ joinable' = TRUE /\ thread' = "waits"
    /\ owner' = "idle"
    /\ UNCHANGED <<queue, hasEntries, kill, func, calls, pushed, stops>>

\* Faulty variant: nobody waits for the thread.
StopDetaches ==
    /\ owner = "idle" /\ stops < MaxStops
    /\ kill' = TRUE
    /\ stops' = stops + 1
    /\ joinable' = FALSE
    /\ UNCHANGED <<queue, hasEntries, thread, func, calls, owner, pushed>>

Stop ==
    /\ owner = "idle" /\ stops < MaxStops
    /\ kill' = TRUE
    /\ stops' = stops + 1
    /\ owner' = IF joinable THEN "joins" ELSE "idle"
    /\ UNCHANGED <<queue, hasEntries, joinable, thread, func, calls, pushed>>

Joins ==
    /\ owner = "joins" /\ thread = "ended"
    /\ joinable' = FALSE /\ thread' = "none"
    /\ owner' = "idle"
    /\ UNCHANGED <<queue, hasEntries, kill, func, calls, pushed, stops>>

-----------------------------------------------------------------------------
(* ThreadProc *)

\* Faulty variant: once killed, the thread looks at the queue no more.
QueueSignalledUnlessKilled ==
    /\ thread = "waits" /\ hasEntries /\ ~kill
    /\ thread' = "pops"
    /\ UNCHANGED <<queue, hasEntries, kill, joinable, func, calls, ownerVars>>

\* The queue's event has the lower index: it is reported when both are signalled.
QueueSignalled ==
    /\ thread = "waits" /\ hasEntries
    /\ thread' = "pops"
    /\ UNCHANGED <<queue, hasEntries, kill, joinable, func, calls, ownerVars>>

\* Faulty variant: the kill event is looked at first.
KillFirst ==
    /\ thread = "waits" /\ kill
    /\ thread' = "stops"
    /\ UNCHANGED <<queue, hasEntries, kill, joinable, func, calls, ownerVars>>

KillSignalled ==
    /\ thread = "waits" /\ kill /\ ~hasEntries
    /\ thread' = "stops"
    /\ UNCHANGED <<queue, hasEntries, kill, joinable, func, calls, ownerVars>>

\* Faulty variant: the event stays signalled.
PopsAndStaysSignalled ==
    /\ thread = "pops" /\ queue # <<>>
    /\ func' = Head(queue) /\ queue' = Tail(queue)
    /\ thread' = "calls"
    /\ UNCHANGED <<hasEntries, kill, joinable, calls, ownerVars>>

\* Faulty variant: the latest function is popped.
PopsBack ==
    /\ thread = "pops" /\ queue # <<>>
    /\ func' = queue[Len(queue)] /\ queue' = SubSeq(queue, 1, Len(queue) - 1)
    /\ hasEntries' = (Len(queue) > 1)
    /\ thread' = "calls"
    /\ UNCHANGED <<kill, joinable, calls, ownerVars>>

PopFront ==
    /\ thread = "pops" /\ queue # <<>>
    /\ func' = Head(queue) /\ queue' = Tail(queue)
    /\ hasEntries' = (Tail(queue) # <<>>)
    /\ thread' = "calls"
    /\ UNCHANGED <<kill, joinable, calls, ownerVars>>

FunctionReturns ==
    /\ thread = "calls"
    /\ calls' = Append(calls, func)
    /\ thread' = "waits"
    /\ UNCHANGED <<queue, hasEntries, kill, joinable, func, ownerVars>>

\* The event guard.
ThreadEnds ==
    /\ thread = "stops"
    /\ kill' = TRUE
    /\ thread' = "ended"
    /\ UNCHANGED <<queue, hasEntries, joinable, func, calls, ownerVars>>

ThreadStep ==
    \/ QueueSignalled \/ KillSignalled \/ PopFront \/ FunctionReturns \/ ThreadEnds

OwnerGoesOn == PushTaskStarts \/ ResetsKill \/ CreatesThread \/ Joins

Next == ThreadStep \/ OwnerGoesOn \/ PushBack \/ Start \/ Stop

Spec == Init /\ [][Next]_vars

\* The operating system runs both threads; whether the owner calls is its affair.
FairSpec == Spec /\ WF_vars(ThreadStep) /\ WF_vars(OwnerGoesOn)

-----------------------------------------------------------------------------
(* Properties *)

TypeOK ==
    /\ queue \in Seq(Nat) /\ hasEntries \in BOOLEAN
    /\ kill \in BOOLEAN /\ joinable \in BOOLEAN
    /\ thread \in {"none", "waits", "pops", "calls", "stops", "ended"}
    /\ func \in Nat /\ calls \in Seq(Nat)
    /\ owner \in {"idle", "pushed", "starts", "creates", "joins"}
    /\ pushed \in 0..MaxPushes /\ stops \in 0..MaxStops
    /\ joinable <=> thread # "none"

\* PopFront finds a function whenever the event has let the thread through: it
\* never throws "Tried to pop from empty container" on a thread where nobody catches.
PopFrontNeverThrows == thread = "pops" => queue # <<>>

Running == IF thread = "calls" THEN 1 ELSE 0

\* Every function that was pushed waits, is being called or has been called once,
\* in the order in which they were pushed: the writer of a file never runs before
\* that of the file before it.
CalledInOrder ==
    /\ Len(calls) + Running + Len(queue) = pushed
    /\ \A i \in DOMAIN calls : calls[i] = i
    /\ thread = "calls" => func = Len(calls) + 1
    /\ \A i \in DOMAIN queue : queue[i] = Len(calls) + Running + i

\* "this is to ensure the queued functions are called before thread is killed"
\* (PushTask): when Stop has returned, all of them have been.
StopCallsAll == (owner = "idle" /\ ~joinable) => Len(calls) = pushed

\* Neither thread waits for the other for ever: a function that was pushed is called,
\* whether Stop is called or not, and Stop returns.
NothingHangs ==
    /\ \A n \in 1..MaxPushes : (pushed >= n) ~> (Len(calls) >= n)
    /\ (owner = "joins") ~> (owner = "idle")
=================================================================================
