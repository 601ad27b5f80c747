-------------------------------- MODULE FileCopy --------------------------------
(***************************************************************************)
(* What copying one file promises, without threads, buffers or queues:     *)
(* chunks are stored in any order, but they are accounted for one by one   *)
(* from the start and only once stored; an accounted chunk is never stored *)
(* again; and the copy is complete only when all chunks are accounted for. *)
(* It may stop at any moment before that.                                  *)
(***************************************************************************)
EXTENDS Integers

CONSTANTS
    Chunks,      \* chunks of data in the source
    Starts       \* how many of them may be in the destination already

VARIABLES
    stored,      \* chunks the destination holds
    accounted,   \* how many chunks have been accounted for
    outcome

Init ==
    /\ accounted \in Starts
    /\ stored = 0..(accounted - 1)
    /\ outcome = "Copying"

Store(p) ==
    /\ outcome = "Copying"
    /\ stored' = stored \cup {p}
    /\ UNCHANGED <<accounted, outcome>>

Account ==
    /\ outcome = "Copying"
    /\ accounted \in stored
    /\ accounted' = accounted + 1
    /\ UNCHANGED <<stored, outcome>>

Complete ==
    /\ outcome = "Copying"
    /\ accounted = Chunks
    /\ outcome' = "Complete"
    /\ UNCHANGED <<stored, accounted>>

Stop ==
    /\ outcome = "Copying"
    /\ outcome' = "Stopped"
    /\ UNCHANGED <<stored, accounted>>

Next ==
    \/ \E p \in accounted..(Chunks - 1) : Store(p)
    \/ Account \/ Complete \/ Stop

Spec == Init /\ [][Next]_<<stored, accounted, outcome>>
=================================================================================
