------------------------------ MODULE FeedbackRules ------------------------------
(***************************************************************************)
(* The rules that answer a task's questions without the user:              *)
(* FeedbackManager, its lists (SerializableContainer) and their rows in the *)
(* task's database.  The reader and the writer of a copy ask on their own   *)
(* threads, the user edits the rules in the status window, a store runs on  *)
(* either thread.  Whoever changes the rules takes a copy under the lock,   *)
(* shows a dialog without it, and assigns the whole list back.              *)
(*                                                                         *)
(* One list stands for the four: their containers are the same, and so are  *)
(* the functions that ask.  A rule's condition is one question or any; the  *)
(* first rule that matches answers.                                         *)
(***************************************************************************)
EXTENDS Integers, Sequences, FiniteSets

CONSTANTS
    Askers,       \* threads of the task that ask
    Questions,    \* what is asked for: errors, for the list of error rules
    AnyQuestion,  \* the condition of a rule that answers every question
    Results,      \* answers a rule can give
    MaxRules,     \* bound: length of a list
    MaxChanges,   \* bound: assignments to the list
    MaxFaults,    \* bound: flushes that fail
    MaxSessions   \* bound: crashes that are followed by a session

ASSUME ConditionsAssumption == AnyQuestion \notin Questions
ASSUME BoundsAssumption == {MaxRules, MaxChanges, MaxFaults, MaxSessions} \subseteq Nat

Unknown == "unknown"    \* eResult_Unknown: no rule, the user is asked
NoQuestion == "none"
Rules == [condition : Questions \cup {AnyQuestion}, result : Results]

VARIABLES
    on,          \* is the program running?
    entries,     \* m_vEntries of the task's list: rules with id and eMod_Added
    lastId,      \* m_oidLastObjectID
    removed,     \* m_setRemovedObjects
    rows,        \* pending rows of the serializer's container: id -> rule
    deletions,   \* its m_setDeleteItems
    disk,        \* the committed table: id -> rule
    storing,     \* has a store gathered and not yet flushed?
    asking,      \* of each asker: where it is, its question, its modRules
    editor,      \* is the rule editor of the status window open, with what?
    changes, faults, sessions

memory == <<entries, lastId, removed>>
container == <<rows, deletions, storing>>
dialogs == <<asking, editor>>
vars == <<on, memory, container, disk, dialogs, changes, faults, sessions>>

-----------------------------------------------------------------------------
(* Lists of rules *)

ListOf(e) == [i \in DOMAIN e |-> e[i].rule]
IdsOf(e) == {e[i].id : i \in DOMAIN e}
Conditions(list) == {list[i].condition : i \in DOMAIN list}

\* FeedbackErrorRuleList::Matches: the first rule that fits.
Matches(list, q) ==
    LET hits == {i \in DOMAIN list : list[i].condition \in {q, AnyQuestion}}
    IN IF hits = {} THEN Unknown
       ELSE list[CHOOSE i \in hits : \A j \in hits : i <= j].result

\* InsertOrUpdateRule: a rule with this condition is updated, a new one comes first.
Merged(list, rule) ==
    IF rule.condition \in Conditions(list)
    THEN [i \in DOMAIN list |-> IF list[i].condition = rule.condition THEN rule ELSE list[i]]
    ELSE <<rule>> \o list

\* What the rule editor can leave: a rule removed, added at the end, moved or
\* edited.  It does not look for another one with the same condition.
Without(list, i) == [j \in 1..Len(list) - 1 |-> IF j < i THEN list[j] ELSE list[j + 1]]
Edited(list) ==
    {Without(list, i) : i \in DOMAIN list}
    \cup {Append(list, r) : r \in Rules}
    \cup {[list EXCEPT ![i] = list[i - 1], ![i - 1] = list[i]] : i \in DOMAIN list \ {1}}
    \cup {[list EXCEPT ![i] = r] : i \in DOMAIN list, r \in Rules}

\* SerializableContainer::operator=: all entries are removed, and all of the other
\* list added, "with new oids".
Assign(list) ==
    /\ Len(list) <= MaxRules
    /\ changes < MaxChanges /\ changes' = changes + 1
    /\ entries' = [i \in DOMAIN list |-> [id |-> lastId + i, rule |-> list[i], added |-> TRUE]]
    /\ lastId' = lastId + Len(list)
    /\ removed' = removed \cup IdsOf(entries)

AddedIds == {entries[i].id : i \in {i \in DOMAIN entries : entries[i].added}}
RuleOf(id) == entries[CHOOSE i \in DOMAIN entries : entries[i].id = id].rule

NoRows == [id \in {} |-> AnyQuestion]
MaxId(table) == CHOOSE m \in DOMAIN table \cup {0} : \A id \in DOMAIN table : id <= m

\* The rows of a table come "ORDER BY id".
Ordered(ids) ==
    CHOOSE s \in [1..Cardinality(ids) -> ids] :
        \A i, j \in DOMAIN s : i < j => s[i] < s[j]
Loaded(table) ==
    LET ids == Ordered(DOMAIN table)
    IN [i \in DOMAIN ids |-> [id |-> ids[i], rule |-> table[ids[i]], added |-> FALSE]]

-----------------------------------------------------------------------------
(* FeedbackManager::FileError and its like, on a thread of the task *)

Idle == [at |-> "idle", question |-> NoQuestion, copy |-> <<>>]
Closed == [open |-> FALSE, copy |-> <<>>]

\* A rule that matches answers at once.
FindsNoRule(a, q) ==
    /\ on /\ asking[a].at = "idle"
    /\ Matches(ListOf(entries), q) = Unknown
    /\ asking' = [asking EXCEPT ![a] = [Idle EXCEPT !.at = "copies", !.question = q]]
    /\ UNCHANGED <<on, memory, container, disk, editor, changes, faults, sessions>>

\* The lock was released in between.
CopiesRules(a) ==
    /\ asking[a].at = "copies"
    /\ asking' = [asking EXCEPT ![a].at = "asks", ![a].copy = ListOf(entries)]
    /\ UNCHANGED <<on, memory, container, disk, editor, changes, faults, sessions>>

\* The user answers for once, "when the same error is encountered again", or edits
\* the rules.  Whatever it is, the copy is written back.
Answers(a) ==
    /\ asking[a].at = "asks"
    /\ LET copy == asking[a].copy
           q == asking[a].question
       IN \E list \in {copy}
                 \cup {Merged(copy, [condition |-> q, result |-> r]) : r \in Results}
                 \cup Edited(copy) : Assign(list)
    /\ asking' = [asking EXCEPT ![a] = Idle]
    /\ UNCHANGED <<on, container, disk, editor, faults, sessions>>

-----------------------------------------------------------------------------
(* The status window *)

OpensEditor ==
    /\ on /\ ~editor.open
    /\ editor' = [open |-> TRUE, copy |-> ListOf(entries)]
    /\ UNCHANGED <<on, memory, container, disk, asking, changes, faults, sessions>>

SetRules ==
    /\ editor.open
    /\ \E list \in Edited(editor.copy) : Assign(list)
    /\ editor' = Closed
    /\ UNCHANGED <<on, container, disk, asking, faults, sessions>>

CancelsEditor ==
    /\ editor.open
    /\ editor' = Closed
    /\ UNCHANGED <<on, memory, container, disk, asking, changes, faults, sessions>>

\* "Reset automatic responses", and a restart of the task.
RestoreDefaults ==
    /\ on /\ ~editor.open /\ entries # <<>>
    /\ entries' = <<>>
    /\ removed' = removed \cup IdsOf(entries)
    /\ UNCHANGED <<on, lastId, container, disk, dialogs, changes, faults, sessions>>

-----------------------------------------------------------------------------
(* TTask::Store: one at a time.  What is gathered waits in the container until a
   flush succeeds *)

\* Faulty variant: DeleteRows leaves the pending rows alone.
GathersOverDeleted ==
    /\ on /\ ~storing
    /\ storing' = TRUE
    /\ rows' = [id \in DOMAIN rows \cup AddedIds |->
                   IF id \in AddedIds THEN RuleOf(id) ELSE rows[id]]
    /\ deletions' = deletions \cup removed
    /\ removed' = {}
    /\ entries' = [i \in DOMAIN entries |-> [entries[i] EXCEPT !.added = FALSE]]
    /\ UNCHANGED <<on, lastId, disk, dialogs, changes, faults, sessions>>

\* Faulty variant: an empty list has nothing to store.
GathersUnlessEmpty ==
    /\ on /\ ~storing /\ entries # <<>>
    /\ storing' = TRUE
    /\ rows' = [id \in (DOMAIN rows \ removed) \cup AddedIds |->
                   IF id \in AddedIds THEN RuleOf(id) ELSE rows[id]]
    /\ deletions' = deletions \cup removed
    /\ removed' = {}
    /\ entries' = [i \in DOMAIN entries |-> [entries[i] EXCEPT !.added = FALSE]]
    /\ UNCHANGED <<on, lastId, disk, dialogs, changes, faults, sessions>>

\* DeleteRows takes the removed ids out of the pending rows too.
Gathers ==
    /\ on /\ ~storing
    /\ storing' = TRUE
    /\ rows' = [id \in (DOMAIN rows \ removed) \cup AddedIds |->
                   IF id \in AddedIds THEN RuleOf(id) ELSE rows[id]]
    /\ deletions' = deletions \cup removed
    /\ removed' = {}
    /\ entries' = [i \in DOMAIN entries |-> [entries[i] EXCEPT !.added = FALSE]]
    /\ UNCHANGED <<on, lastId, disk, dialogs, changes, faults, sessions>>

\* Rows to insert must not be there; deletions come first.
Acceptable == DOMAIN rows \cap (DOMAIN disk \ deletions) = {}

Written ==
    [id \in (DOMAIN disk \ deletions) \cup DOMAIN rows |->
        IF id \in DOMAIN rows THEN rows[id] ELSE disk[id]]

Flushes ==
    /\ storing /\ Acceptable
    /\ disk' = Written
    /\ storing' = FALSE /\ rows' = NoRows /\ deletions' = {}
    /\ UNCHANGED <<on, memory, dialogs, changes, faults, sessions>>

FlushThrows ==
    /\ storing
    /\ \/ ~Acceptable /\ UNCHANGED faults
       \/ faults < MaxFaults /\ faults' = faults + 1
    /\ storing' = FALSE
    /\ UNCHANGED <<on, memory, rows, deletions, disk, dialogs, changes, sessions>>

-----------------------------------------------------------------------------
(* The program ends at any moment; the next session loads the list *)

Crash ==
    /\ on /\ on' = FALSE
    /\ entries' = <<>> /\ lastId' = 0 /\ removed' = {}
    /\ rows' = NoRows /\ deletions' = {} /\ storing' = FALSE
    /\ asking' = [a \in Askers |-> Idle] /\ editor' = Closed
    /\ UNCHANGED <<disk, changes, faults, sessions>>

\* Faulty variant: the last id starts again.
LoadForgetsLastId ==
    /\ ~on /\ on' = TRUE
    /\ sessions < MaxSessions /\ sessions' = sessions + 1
    /\ entries' = Loaded(disk) /\ lastId' = 0
    /\ UNCHANGED <<removed, container, disk, dialogs, changes, faults>>

\* SerializableContainer::Load: the rows "ORDER BY id", and the highest id.
Load ==
    /\ ~on /\ on' = TRUE
    /\ sessions < MaxSessions /\ sessions' = sessions + 1
    /\ entries' = Loaded(disk) /\ lastId' = MaxId(disk)
    /\ UNCHANGED <<removed, container, disk, dialogs, changes, faults>>

Init ==
    /\ on = TRUE
    /\ entries = <<>> /\ lastId = 0 /\ removed = {}
    /\ rows = NoRows /\ deletions = {} /\ storing = FALSE
    /\ disk = NoRows
    /\ asking = [a \in Askers |-> Idle] /\ editor = Closed
    /\ changes = 0 /\ faults = 0 /\ sessions = 0

Next ==
    \/ \E a \in Askers :
           \/ \E q \in Questions : FindsNoRule(a, q)
           \/ CopiesRules(a) \/ Answers(a)
    \/ OpensEditor \/ SetRules \/ CancelsEditor \/ RestoreDefaults
    \/ Gathers \/ Flushes \/ FlushThrows
    \/ Crash \/ Load

Spec == Init /\ [][Next]_vars

\* The autosave timer stores again and again.
FairSpec == Spec /\ WF_vars(Gathers) /\ WF_vars(Flushes \/ FlushThrows)

-----------------------------------------------------------------------------
(* Properties *)

IsTable(table) == table \in [DOMAIN table -> Rules]
Lists == UNION {[1..n -> Rules] : n \in 0..MaxRules}

TypeOK ==
    /\ on \in BOOLEAN
    /\ ListOf(entries) \in Lists /\ \A i \in DOMAIN entries : entries[i].added \in BOOLEAN
    /\ IdsOf(entries) \cup removed \subseteq 1..lastId
    /\ IsTable(rows) /\ DOMAIN rows \subseteq 1..lastId
    /\ IsTable(disk) /\ (on => DOMAIN disk \subseteq 1..lastId)
    /\ deletions \subseteq 1..lastId /\ storing \in BOOLEAN
    /\ \A a \in Askers :
           /\ asking[a].at \in {"idle", "copies", "asks"}
           /\ asking[a].question \in Questions \cup {NoQuestion}
           /\ asking[a].copy \in Lists
    /\ editor.open \in BOOLEAN /\ editor.copy \in Lists

\* What the next store that succeeds leaves in the database is, read back in the
\* order of the ids, the list in memory: no rule is lost, none comes back, none
\* gets behind another that also fits - whatever was stored, thrown and changed
\* in between.
InTheEnd ==
    [id \in (DOMAIN Written \ removed) \cup AddedIds |->
        IF id \in AddedIds THEN RuleOf(id) ELSE Written[id]]
StoresWhatApplies == on => ListOf(Loaded(InTheEnd)) = ListOf(entries)

\* What the rules answer reaches the database, if it lasts and the session does, also
\* after a store that failed: no row waits to be inserted a second time, which would
\* throw for ever.
Answer(e, q) == Matches(ListOf(e), q)
RulesAreStored ==
    \A q \in Questions, r \in Results \cup {Unknown} :
        (on /\ Answer(entries, q) = r)
            ~> (Answer(Loaded(disk), q) = r \/ Answer(entries, q) # r \/ ~on)
=================================================================================
