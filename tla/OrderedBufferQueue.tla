--------------------------- MODULE OrderedBufferQueue ---------------------------
(***************************************************************************)
(* The data structure of TOrderedBufferQueue (TOrderedBufferQueue.h/.cpp): *)
(* buffers kept in the order of their file positions, popped only in an    *)
(* unbroken sequence, plus one slot for the buffer whose operation failed  *)
(* at the lowest position.  The reader publishes the data it has read      *)
(* through one such queue and the writer collects the data it has written  *)
(* in another.                                                             *)
(*                                                                         *)
(* A buffer is represented by its file position, counted in chunks.  The   *)
(* functions are pure: each takes a queue record and returns the one that  *)
(* the method leaves behind.  The real object holds its mutex for the      *)
(* whole of each method.                                                   *)
(***************************************************************************)
EXTENDS Integers, FiniteSets

\* std::numeric_limits<unsigned long long>::max() in the code: no position.
NoPosition == -1

Positions == Nat \cup {NoPosition}

(***************************************************************************)
(*   buffers          m_setBuffers                                         *)
(*   error            m_pFirstErrorBuffer (empty, or the one buffer)       *)
(*   errorPosition    m_ullErrorPosition                                   *)
(*   expected         m_ullExpectedBufferPosition                          *)
(*   sourceFinished   m_bDataSourceFinished                                *)
(*   readingFinished  m_eventHasReadingFinished                            *)
(* m_eventHasBuffers and m_eventHasError follow from the first four.       *)
(***************************************************************************)
Queue ==
    [buffers: SUBSET Nat, error: SUBSET Nat, errorPosition: Positions,
     expected: Nat, sourceFinished: BOOLEAN, readingFinished: BOOLEAN]

EmptyQueue(position) ==
    [buffers |-> {}, error |-> {}, errorPosition |-> NoPosition,
     expected |-> position, sourceFinished |-> FALSE, readingFinished |-> FALSE]

Count(q) == Cardinality(q.buffers) + Cardinality(q.error)

\* p is the first element of an ordered set of buffers.
IsFirst(S, p) == p \in S /\ \A other \in S : p <= other

\* S starts at position `from`, if it is not empty, and has no gap.
InSequence(S, from) == \A p \in S : from <= p /\ from..p \subseteq S

\* Faulty variant: any buffer can be popped, expected or not.
HasPoppableAny(q) == q.buffers # {}

HasPoppable(q) == IsFirst(q.buffers, q.expected)

HasError(q) == q.error # {}

\* The two internal errors that Push can raise.
PushThrows(q, p) == p \in q.buffers \/ (p = q.errorPosition /\ HasError(q))

\* Faulty variant: the first buffer with the end of file finishes the reading, without
\* the look for gaps of UpdateReadingFinished.
PushFinishingAtOnce(q, p, last) ==
    [q EXCEPT !.buffers = @ \cup {p},
              !.sourceFinished = @ \/ last,
              !.readingFinished = @ \/ last,
              !.errorPosition = IF @ = p THEN NoPosition ELSE @]

\* Faulty variant: a success does not end the failure at its position.
PushKeepingError(q, p, last) ==
    LET content  == q.buffers \cup {p}
        finished == q.sourceFinished \/ last
    IN  [q EXCEPT !.buffers = content,
                  !.sourceFinished = finished,
                  !.readingFinished =
                      IF finished THEN InSequence(content, q.expected) ELSE @]

Push(q, p, last) ==
    LET content  == q.buffers \cup {p}
        finished == q.sourceFinished \/ last
    IN  [q EXCEPT !.buffers = content,
                  !.sourceFinished = finished,
                  !.readingFinished =
                      IF finished THEN InSequence(content, q.expected) ELSE @,
                  !.errorPosition = IF @ = p THEN NoPosition ELSE @]

Pop(q) == [q EXCEPT !.buffers = @ \ {q.expected}, !.expected = @ + 1]

\* PushError keeps p in the slot when no failure is known at a lower position;
\* an equal position is restored only to an empty slot.
TakesSlot(q, p) ==
    \/ q.errorPosition = NoPosition
    \/ p < q.errorPosition
    \/ p = q.errorPosition /\ ~HasError(q)

PushError(q, p) ==
    IF TakesSlot(q, p) THEN [q EXCEPT !.error = {p}, !.errorPosition = p] ELSE q

\* Faulty variant: the buffer that is displaced from the slot is forgotten.
SentToRetryButDisplaced(q, p) ==
    IF q.errorPosition # NoPosition /\ p > q.errorPosition THEN {p} ELSE {}

\* The buffers that PushError hands to the retry queue: the one it displaces
\* from the slot, or p itself when a failure at a lower position is pending.
SentToRetry(q, p) ==
    IF q.errorPosition = NoPosition THEN {}
    ELSE IF p < q.errorPosition THEN q.error
    ELSE IF p > q.errorPosition THEN {p}
    ELSE {}

\* The error position stays, so that later failures wait for this one.
PopError(q) == [q EXCEPT !.error = {}]

\* Faulty variant: the buffers are given back but not taken out.
ClearKeepingBuffers(q) == [q EXCEPT !.error = {}]

\* Clearing forgets the error position only together with a buffer in the slot,
\* and leaves the reading-finished event as it is.
Clear(q) ==
    [q EXCEPT !.buffers = {}, !.error = {},
              !.errorPosition = IF HasError(q) THEN NoPosition ELSE @]
=================================================================================
