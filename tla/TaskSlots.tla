-------------------------------- MODULE TaskSlots --------------------------------
(***************************************************************************)
(* What the limit of running operations promises, without threads, flags   *)
(* or timers: a task that has to wait is let in while fewer than Limit     *)
(* tasks hold a slot, or it stops waiting without a slot, because the user *)
(* forced or stopped it.  A slot is held until the work ends.  Nobody      *)
(* waits for ever.                                                         *)
(***************************************************************************)
EXTENDS Integers, FiniteSets

CONSTANTS
    Tasks,
    Limit        \* how many may hold a slot; 0: as many as like

VARIABLES
    waiting,     \* tasks that wait to be let in
    holding      \* tasks that hold a slot

Init == waiting = {} /\ holding = {}

Wait(t) ==
    /\ t \notin waiting \cup holding
    /\ waiting' = waiting \cup {t}
    /\ UNCHANGED holding

Enter(t) ==
    /\ t \in waiting
    /\ Limit = 0 \/ Cardinality(holding) < Limit
    /\ waiting' = waiting \ {t}
    /\ holding' = holding \cup {t}

WithoutSlot(t) ==
    /\ t \in waiting
    /\ waiting' = waiting \ {t}
    /\ UNCHANGED holding

Leave(t) ==
    /\ t \in holding
    /\ holding' = holding \ {t}
    /\ UNCHANGED waiting

Next == \E t \in Tasks : Wait(t) \/ Enter(t) \/ WithoutSlot(t) \/ Leave(t)

Fairness ==
    \A t \in Tasks : WF_<<waiting, holding>>(Enter(t) \/ WithoutSlot(t))

Safety == Init /\ [][Next]_<<waiting, holding>>

Spec == Safety /\ Fairness
=================================================================================
