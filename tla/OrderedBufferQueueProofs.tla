------------------------ MODULE OrderedBufferQueueProofs ------------------------
(* What the queue's methods do to its well-formedness and to its contents. *)
EXTENDS OrderedBufferQueue, TLAPS, FiniteSetTheorems

\* A queue of the right type that holds finitely many buffers.
WellFormed(q) == q \in Queue /\ IsFiniteSet(q.buffers) /\ IsFiniteSet(q.error)

\* The slot holds nothing, or just the buffer at the error position.
SlotMatches(q) == q.error = {} \/ q.error = {q.errorPosition}

\* A new queue is well formed and its slot is empty.
LEMMA EmptyQueueWellFormed ==
    ASSUME NEW position \in Nat
    PROVE  WellFormed(EmptyQueue(position)) /\ SlotMatches(EmptyQueue(position))
  BY FS_EmptySet DEF WellFormed, SlotMatches, EmptyQueue, Queue, Positions, NoPosition

\* The number of buffers in a queue is a natural number.
LEMMA CountType ==
    ASSUME NEW q, WellFormed(q)
    PROVE  Count(q) \in Nat
  BY FS_CardinalityType DEF WellFormed, Count

\* Push keeps a queue well formed.
LEMMA PushWellFormed ==
    ASSUME NEW q, WellFormed(q), NEW p \in Nat, NEW last \in BOOLEAN
    PROVE  WellFormed(Push(q, p, last))
<1>1. IsFiniteSet(q.buffers \cup {p})
  BY FS_AddElement DEF WellFormed
<1>2. InSequence(q.buffers \cup {p}, q.expected) \in BOOLEAN
  BY DEF InSequence
<1>. QED
  BY <1>1, <1>2 DEF WellFormed, Push, Queue, Positions, NoPosition

\* Push adds the buffer to the set and changes neither the slot nor the position
\* that is expected next.
LEMMA PushContents ==
    ASSUME NEW q, WellFormed(q), NEW p \in Nat, NEW last \in BOOLEAN
    PROVE  /\ Push(q, p, last).buffers = q.buffers \cup {p}
           /\ Push(q, p, last).error = q.error
           /\ Push(q, p, last).expected = q.expected
           /\ Push(q, p, last).errorPosition =
                IF q.errorPosition = p THEN NoPosition ELSE q.errorPosition
           /\ Push(q, p, last).sourceFinished = (q.sourceFinished \/ last)
           /\ Push(q, p, last).readingFinished =
                IF q.sourceFinished \/ last
                THEN InSequence(q.buffers \cup {p}, q.expected)
                ELSE q.readingFinished
  BY DEF Push, WellFormed, Queue

\* Pop keeps a queue well formed.
LEMMA PopWellFormed ==
    ASSUME NEW q, WellFormed(q)
    PROVE  WellFormed(Pop(q))
<1>1. IsFiniteSet(q.buffers \ {q.expected})
  BY FS_RemoveElement DEF WellFormed
<1>2. q \in Queue /\ q.expected + 1 \in Nat /\ q.buffers \ {q.expected} \in SUBSET Nat
  BY DEF WellFormed, Queue
<1>3. Pop(q) \in Queue
  BY <1>2 DEF Pop, Queue
<1>4. Pop(q).buffers = q.buffers \ {q.expected} /\ Pop(q).error = q.error
  BY <1>2 DEF Pop, Queue
<1>. QED
  BY <1>1, <1>3, <1>4 DEF WellFormed

\* Pop takes out the expected position and expects the next one.
LEMMA PopContents ==
    ASSUME NEW q, WellFormed(q)
    PROVE  /\ Pop(q).buffers = q.buffers \ {q.expected}
           /\ Pop(q).expected = q.expected + 1
           /\ Pop(q).error = q.error
           /\ Pop(q).errorPosition = q.errorPosition
           /\ Pop(q).sourceFinished = q.sourceFinished
           /\ Pop(q).readingFinished = q.readingFinished
  BY DEF Pop, WellFormed, Queue

\* PushError keeps a queue well formed and leaves its slot and its error position
\* in agreement, whatever they were before.
LEMMA PushErrorWellFormed ==
    ASSUME NEW q, WellFormed(q), NEW p \in Nat
    PROVE  /\ WellFormed(PushError(q, p))
           /\ SlotMatches(q) => SlotMatches(PushError(q, p))
  BY FS_Singleton DEF WellFormed, SlotMatches, PushError, TakesSlot, Queue, Positions,
     NoPosition

\* PushError touches nothing but the slot.
LEMMA PushErrorContents ==
    ASSUME NEW q, WellFormed(q), NEW p \in Nat
    PROVE  /\ PushError(q, p).buffers = q.buffers
           /\ PushError(q, p).expected = q.expected
           /\ PushError(q, p).sourceFinished = q.sourceFinished
           /\ PushError(q, p).readingFinished = q.readingFinished
  BY DEF PushError, WellFormed, Queue

\* What PushError sends to the retry queue is a finite set of positions.
LEMMA SentToRetryType ==
    ASSUME NEW q, WellFormed(q), NEW p \in Nat
    PROVE  SentToRetry(q, p) \subseteq Nat /\ IsFiniteSet(SentToRetry(q, p))
  BY FS_EmptySet, FS_Singleton DEF WellFormed, SentToRetry, Queue

\* When the failed position is not in the slot already, PushError loses nothing: the
\* old content of the slot and the failed buffer are in the slot or sent to retry.
LEMMA PushErrorKeepsBuffers ==
    ASSUME NEW q, WellFormed(q), NEW p \in Nat, SlotMatches(q), p \notin q.error
    PROVE  /\ PushError(q, p).error \cup SentToRetry(q, p) = q.error \cup {p}
           /\ PushError(q, p).error \cap SentToRetry(q, p) = {}
<1>1. q.errorPosition \in Nat \cup {-1} /\ q.error \subseteq Nat
  BY DEF WellFormed, Queue, Positions, NoPosition
<1>2. CASE q.errorPosition = NoPosition
  <2>1. q.error = {}
    BY <1>1, <1>2 DEF SlotMatches, NoPosition
  <2>. QED
    BY <1>2, <2>1 DEF PushError, TakesSlot, SentToRetry, WellFormed, Queue
<1>3. CASE q.errorPosition # NoPosition /\ p < q.errorPosition
  BY <1>1, <1>3 DEF PushError, TakesSlot, SentToRetry, WellFormed, Queue, SlotMatches
<1>4. CASE q.errorPosition # NoPosition /\ p > q.errorPosition
  <2>1. ~TakesSlot(q, p)
    BY <1>1, <1>4 DEF TakesSlot, NoPosition
  <2>2. SentToRetry(q, p) = {p}
    BY <1>1, <1>4 DEF SentToRetry, NoPosition
  <2>. QED
    BY <2>1, <2>2 DEF PushError
<1>5. CASE q.errorPosition # NoPosition /\ p = q.errorPosition
  <2>1. q.error = {}
    BY <1>5 DEF SlotMatches
  <2>2. SentToRetry(q, p) = {}
    BY <1>5 DEF SentToRetry, NoPosition
  <2>. QED
    BY <1>5, <2>1, <2>2 DEF PushError, TakesSlot, HasError, WellFormed, Queue
<1>. QED
  BY <1>1, <1>2, <1>3, <1>4, <1>5 DEF NoPosition

\* PopError keeps a queue well formed and empties only the slot.
LEMMA PopErrorWellFormed ==
    ASSUME NEW q, WellFormed(q)
    PROVE  /\ WellFormed(PopError(q))
           /\ PopError(q).error = {}
           /\ PopError(q).buffers = q.buffers
           /\ PopError(q).expected = q.expected
           /\ PopError(q).errorPosition = q.errorPosition
           /\ PopError(q).sourceFinished = q.sourceFinished
           /\ PopError(q).readingFinished = q.readingFinished
  BY FS_EmptySet DEF WellFormed, PopError, Queue

\* The success of a position that is not in the slot leaves the slot and its error
\* position in agreement.
LEMMA PushSlotMatches ==
    ASSUME NEW q, WellFormed(q), NEW p \in Nat, NEW last \in BOOLEAN,
           SlotMatches(q), p \notin q.error
    PROVE  SlotMatches(Push(q, p, last))
  BY DEF Push, SlotMatches, WellFormed, Queue

\* Clear keeps a queue well formed.
LEMMA ClearWellFormed ==
    ASSUME NEW q, WellFormed(q)
    PROVE  WellFormed(Clear(q))
  BY FS_EmptySet DEF WellFormed, Clear, Queue, Positions

\* Clear empties the queue and its slot and leaves the sequence where it was.
LEMMA ClearContents ==
    ASSUME NEW q, WellFormed(q)
    PROVE  /\ Clear(q).buffers = {} /\ Clear(q).error = {}
           /\ Clear(q).expected = q.expected
  BY DEF Clear, WellFormed, Queue
=================================================================================
