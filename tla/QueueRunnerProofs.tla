---------------------------- MODULE QueueRunnerProofs ----------------------------
(***************************************************************************)
(* What QueueRunner promises of every number of functions and stops.  The  *)
(* inductive invariant adds to the properties that the event tells whether  *)
(* the queue is empty, and that the kill event of a living thread is set    *)
(* only while its owner waits for it - and pushes nothing.                  *)
(***************************************************************************)
EXTENDS QueueRunner, TLAPS

\* The event is signalled exactly when there is something to pop.
EventShowsQueue == hasEntries <=> queue # <<>>

\* A thread that has been told to stop has an owner that waits for it.
KillHasOwner ==
    /\ (joinable /\ kill) => owner = "joins"
    /\ owner = "joins" => joinable
    /\ owner \in {"starts", "creates"} => ~joinable
    /\ owner = "creates" => ~kill
    /\ thread \in {"stops", "ended"} => owner = "joins" /\ queue = <<>>

\* Functions without a thread have an owner that is about to start it.
NobodyWaitsAlone ==
    (~joinable /\ queue # <<>>) => owner \in {"pushed", "starts", "creates"}

IInv ==
    /\ TypeOK /\ PopFrontNeverThrows /\ CalledInOrder
    /\ EventShowsQueue /\ KillHasOwner /\ NobodyWaitsAlone

\* The initial states satisfy the invariant.
LEMMA InitIInv == Init => IInv
  <1> SUFFICES ASSUME Init PROVE IInv
    OBVIOUS
  <1> USE DEF Init
  <1>1. TypeOK
    <2>1. /\ hasEntries \in BOOLEAN /\ kill \in BOOLEAN /\ joinable \in BOOLEAN
          /\ joinable <=> thread # "none"
      OBVIOUS
    <2>2. /\ queue \in Seq(Nat) /\ calls \in Seq(Nat) /\ func \in Nat
          /\ pushed \in 0..MaxPushes /\ stops \in 0..MaxStops
      BY BoundsAssumption
    <2> QED BY <2>1, <2>2 DEF TypeOK
  <1>2. CalledInOrder
    BY DEF CalledInOrder, Running
  <1>3. PopFrontNeverThrows /\ EventShowsQueue /\ KillHasOwner /\ NobodyWaitsAlone
    BY DEF PopFrontNeverThrows, EventShowsQueue, KillHasOwner, NobodyWaitsAlone
  <1> QED BY <1>1, <1>2, <1>3 DEF IInv

\* PushBack: the new function is the last one of the queue and has the next number.
LEMMA PushBackKeepsIInv == IInv /\ PushBack => IInv'
  <1> SUFFICES ASSUME IInv, PushBack PROVE IInv'
    OBVIOUS
  <1> USE DEF IInv, PushBack
  <1>1. queue' = Append(queue, pushed + 1) /\ Len(queue') = Len(queue) + 1 /\ queue' # <<>>
    BY DEF TypeOK
  <1>2. TypeOK'
    BY BoundsAssumption DEF TypeOK
  <1>3. CalledInOrder'
    <2>1. Running' = Running /\ Running \in Nat /\ Len(calls) \in Nat /\ Len(queue) \in Nat
      BY DEF Running, TypeOK
    <2>0. /\ pushed \in Nat /\ pushed' = pushed + 1 /\ calls' = calls
          /\ Len(calls) + Running + Len(queue) = pushed
      BY BoundsAssumption DEF CalledInOrder, TypeOK
    <2>2. \A i \in DOMAIN queue' : queue'[i] = Len(calls) + Running + i
      <3> SUFFICES ASSUME NEW i \in DOMAIN queue' PROVE queue'[i] = Len(calls) + Running + i
        OBVIOUS
      <3>1. i \in 1..Len(queue) + 1 /\ Len(calls) + Running + Len(queue) = pushed
        BY <1>1, <2>1 DEF CalledInOrder, TypeOK
      <3>2. CASE i \in 1..Len(queue)
        <4>1. queue'[i] = queue[i] /\ i \in DOMAIN queue
          BY <3>2 DEF TypeOK
        <4> QED BY <4>1 DEF CalledInOrder
      <3>3. CASE i = Len(queue) + 1
        <4>1. queue'[i] = pushed + 1
          BY <3>3 DEF TypeOK
        <4> QED BY ONLY <4>1, <3>3, <2>0, <2>1
      <3> QED BY <3>1, <3>2, <3>3, <2>1
    <2>3. Len(calls') + Running' + Len(queue') = pushed'
      BY ONLY <1>1, <2>0, <2>1
    <2>4. calls' = calls /\ thread' = thread /\ func' = func
      OBVIOUS
    <2> QED BY <2>1, <2>2, <2>3, <2>4 DEF CalledInOrder
  <1>4. PopFrontNeverThrows' /\ EventShowsQueue' /\ NobodyWaitsAlone'
    BY <1>1 DEF PopFrontNeverThrows, EventShowsQueue, NobodyWaitsAlone
  <1>5. KillHasOwner'
    BY DEF KillHasOwner
  <1> QED BY <1>2, <1>3, <1>4, <1>5

\* PopFront: the first function of the queue becomes the one that is called.
LEMMA PopFrontKeepsIInv == IInv /\ PopFront => IInv'
  <1> SUFFICES ASSUME IInv, PopFront PROVE IInv'
    OBVIOUS
  <1> USE DEF IInv, PopFront, ownerVars
  <1>1. /\ Len(queue') = Len(queue) - 1 /\ Len(queue) \in Nat /\ Len(queue) > 0
        /\ func' = queue[1] /\ \A i \in DOMAIN queue' : queue'[i] = queue[i + 1]
        /\ \A i \in DOMAIN queue' : i \in Nat /\ i + 1 \in DOMAIN queue
    BY DEF TypeOK
  <1>2. TypeOK'
    <2>1. func' \in Nat /\ queue' \in Seq(Nat)
      BY DEF TypeOK
    <2>2. hasEntries' \in BOOLEAN
      OBVIOUS
    <2> QED BY <2>1, <2>2 DEF TypeOK
  <1>3. CalledInOrder'
    <2>1. Running = 0 /\ Running' = 1 /\ Len(calls) \in Nat
      BY DEF Running, TypeOK
    <2>2. func' = Len(calls) + 1
      BY <1>1, <2>1 DEF CalledInOrder
    <2>3. \A i \in DOMAIN queue' : queue'[i] = Len(calls) + 1 + i
      BY <1>1, <2>1 DEF CalledInOrder
    <2>4. calls' = calls /\ pushed' = pushed
      OBVIOUS
    <2>5. Len(calls') + Running' + Len(queue') = pushed'
      BY <1>1, <2>1, <2>4 DEF CalledInOrder
    <2> QED BY <2>1, <2>2, <2>3, <2>4, <2>5 DEF CalledInOrder
  <1>4. PopFrontNeverThrows' /\ EventShowsQueue' /\ NobodyWaitsAlone' /\ KillHasOwner'
    BY DEF PopFrontNeverThrows, EventShowsQueue, NobodyWaitsAlone, KillHasOwner, TypeOK
  <1> QED BY <1>2, <1>3, <1>4

\* FunctionReturns: the called function is the next of the calls.
LEMMA FunctionReturnsKeepsIInv == IInv /\ FunctionReturns => IInv'
  <1> SUFFICES ASSUME IInv, FunctionReturns PROVE IInv'
    OBVIOUS
  <1> USE DEF IInv, FunctionReturns, ownerVars
  <1>1. Len(calls') = Len(calls) + 1 /\ Len(calls) \in Nat /\ calls' = Append(calls, func)
    BY DEF TypeOK
  <1>2. TypeOK'
    BY DEF TypeOK
  <1>3. CalledInOrder'
    <2>1. Running = 1 /\ Running' = 0
      BY DEF Running
    <2>2. \A i \in DOMAIN calls' : calls'[i] = i
      BY <1>1 DEF CalledInOrder, TypeOK
    <2> QED BY <1>1, <2>1, <2>2 DEF CalledInOrder, TypeOK
  <1>4. PopFrontNeverThrows' /\ EventShowsQueue' /\ NobodyWaitsAlone' /\ KillHasOwner'
    BY DEF PopFrontNeverThrows, EventShowsQueue, NobodyWaitsAlone, KillHasOwner, TypeOK
  <1> QED BY <1>2, <1>3, <1>4

\* The other steps move no function, and leave a running one running.
LEMMA OtherStepsKeepCalledInOrder ==
    ASSUME CalledInOrder, UNCHANGED <<queue, func, calls, pushed>>,
           (thread = "calls") <=> (thread' = "calls")
    PROVE  CalledInOrder'
  BY DEF CalledInOrder, Running

\* The other steps of the runner's thread.
LEMMA OtherThreadStepsKeepIInv ==
    IInv /\ (QueueSignalled \/ KillSignalled \/ ThreadEnds) => IInv'
  <1> SUFFICES ASSUME IInv, QueueSignalled \/ KillSignalled \/ ThreadEnds PROVE IInv'
    OBVIOUS
  <1> USE DEF IInv, QueueSignalled, KillSignalled, ThreadEnds, ownerVars
  <1>1. CalledInOrder'
    BY OtherStepsKeepCalledInOrder
  <1>2. TypeOK'
    BY DEF TypeOK
  <1>3. PopFrontNeverThrows' /\ EventShowsQueue' /\ NobodyWaitsAlone'
    BY DEF PopFrontNeverThrows, EventShowsQueue, NobodyWaitsAlone
  <1>4. KillHasOwner'
    BY DEF KillHasOwner, EventShowsQueue, TypeOK
  <1> QED BY <1>1, <1>2, <1>3, <1>4

\* The other steps of the owner.
LEMMA OwnerStepsKeepIInv ==
    IInv /\ (OwnerGoesOn \/ Start \/ Stop) => IInv'
  <1> SUFFICES ASSUME IInv, OwnerGoesOn \/ Start \/ Stop PROVE IInv'
    OBVIOUS
  <1> USE DEF IInv, OwnerGoesOn, PushTaskStarts, ResetsKill, CreatesThread, Joins, Start, Stop
  <1>1. CalledInOrder'
    BY OtherStepsKeepCalledInOrder DEF KillHasOwner, TypeOK
  <1>2. TypeOK'
    <2>1. /\ joinable' \in BOOLEAN /\ kill' \in BOOLEAN
          /\ joinable' <=> thread' # "none"
      <3>1. CASE PushTaskStarts \/ ResetsKill \/ Start \/ Stop
        <4>1. joinable' = joinable /\ thread' = thread /\ kill' \in BOOLEAN
          BY <3>1 DEF TypeOK
        <4> QED BY <4>1 DEF TypeOK
      <3>2. CASE CreatesThread
        BY <3>2 DEF TypeOK
      <3>3. CASE Joins
        BY <3>3 DEF TypeOK
      <3> QED BY <3>1, <3>2, <3>3
    <2>2. /\ owner' \in {"idle", "pushed", "starts", "creates", "joins"}
          /\ thread' \in {"none", "waits", "pops", "calls", "stops", "ended"}
      BY DEF TypeOK
    <2>3. stops' \in 0..MaxStops
      BY BoundsAssumption DEF TypeOK
    <2> QED BY <2>1, <2>2, <2>3 DEF TypeOK
  <1>3. PopFrontNeverThrows' /\ EventShowsQueue'
    BY DEF PopFrontNeverThrows, EventShowsQueue
  <1>4. KillHasOwner' /\ NobodyWaitsAlone'
    BY DEF KillHasOwner, NobodyWaitsAlone, TypeOK
  <1> QED BY <1>1, <1>2, <1>3, <1>4

\* Every step keeps the invariant.
LEMMA NextKeepsIInv == IInv /\ [Next]_vars => IInv'
  <1> SUFFICES ASSUME IInv, [Next]_vars PROVE IInv'
    OBVIOUS
  <1>1. CASE Next
    BY <1>1, PushBackKeepsIInv, PopFrontKeepsIInv, FunctionReturnsKeepsIInv,
       OtherThreadStepsKeepIInv, OwnerStepsKeepIInv DEF Next, ThreadStep
  <1>2. CASE UNCHANGED vars
    BY <1>2 DEF vars, ownerVars, IInv, TypeOK, PopFrontNeverThrows, CalledInOrder, Running,
                EventShowsQueue, KillHasOwner, NobodyWaitsAlone
  <1> QED BY <1>1, <1>2

\* The invariant holds in every reachable state.
LEMMA AlwaysIInv == Spec => []IInv
  BY InitIInv, NextKeepsIInv, PTL DEF Spec

\* Every variable keeps its type, and a thread exists exactly when it can be joined.
THEOREM TypeCorrect == Spec => []TypeOK
  BY AlwaysIInv, PTL DEF IInv

\* PopFront never throws on the runner's thread.
THEOREM NeverPopsFromEmpty == Spec => []PopFrontNeverThrows
  BY AlwaysIInv, PTL DEF IInv

\* Every function is called once at most, in the order of the pushes, and none is lost.
THEOREM AllInOrder == Spec => []CalledInOrder
  BY AlwaysIInv, PTL DEF IInv

\* When Stop has returned, every function that was pushed has been called.
THEOREM StopLeavesNothing == Spec => []StopCallsAll
  <1>1. IInv => StopCallsAll
    <2> SUFFICES ASSUME IInv, owner = "idle", ~joinable PROVE Len(calls) = pushed
      BY DEF StopCallsAll
    <2>1. queue = <<>> /\ Len(queue) = 0
      BY DEF IInv, NobodyWaitsAlone
    <2>2. Running = 0
      BY DEF IInv, TypeOK, Running
    <2> QED BY <2>1, <2>2 DEF IInv, CalledInOrder, TypeOK
  <1> QED BY <1>1, AlwaysIInv, PTL
=================================================================================
