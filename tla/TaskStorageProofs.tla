---------------------------- MODULE TaskStorageProofs ----------------------------
(***************************************************************************)
(* Proofs about TaskStorage, for any number of tasks and any bounds: what  *)
(* the session knows and the disk does not is always on its way there, and *)
(* a crash at any moment finds a list of tasks that can be loaded.         *)
(***************************************************************************)
EXTENDS TaskStorage, FiniteSetTheorems, TLAPS

USE DEF loadVars, markVars

-----------------------------------------------------------------------------
(* The inductive invariant *)

\* A program that does not run holds nothing.
NothingHeld == ~on => NoSession

\* What a store of the manager has taken out of the flags, and has still to do.
SaveShape ==
    /\ save.at # "tasks" => save.todo = {}
    /\ save.at # "idle" => goneEntries = {}
    /\ save.at = "flush" => newObsolete = {} /\ goneObsolete = {}

\* Whatever is remembered anywhere has been created once.
NamesUsed ==
    /\ listed \cup disk.list \cup rows.ins \subseteq used
    /\ obsolete \cup disk.obsolete \cup rows.obsIns \subseteq used
    /\ \A t \in Tasks : disk.rows[t] # NoRow => t \in used

\* A task that is being created is known to nobody else, and has its row to insert
\* until that is committed.
MakerShape ==
    /\ \A t \in Tasks : storer[t] = "maker" => maker.task = t
    /\ maker.task # NoTask =>
         LET t == maker.task IN
         /\ t \in used \cap disk.files
         /\ t \notin listed \cup obsolete
         /\ storer[t] \in {"maker", "nobody"}
         /\ obj[t].change = "none" /\ EventualContent(t) = obj[t].value
         /\ storer[t] = "maker" => obj[t].row = "insert"
         /\ storer[t] = "nobody" => disk.rows[t] # NoRow

\* Only tasks that are listed, and do not show a load error, are stored.
StorersLoaded ==
    /\ \A t \in Tasks : storer[t] \in {"thread", "user"} => t \in listed \ loadError
    /\ \A t \in loadError : obj[t].row = "none"

\* A mark that is being written is flagged, or a store has reset its flag too early; a
\* row whose flags are about to be reset is pending.
MarkShape ==
    /\ marking \cap loadError = {}
    /\ \A t \in marking : /\ obj[t].value < MaxValue
                         /\ (obj[t].change # "none" \/ t \in overtaken)
    /\ \A t \in gathering : storer[t] = "user" /\ obj[t].row # "none"

ContentOnItsWay ==
    \A t \in listed \ unloaded :
        /\ obj[t].change # "added"
        /\ obj[t].change = "none" /\ t \notin overtaken => EventualContent(t) = obj[t].value
        /\ obj[t].row = "insert" \/ disk.rows[t] # NoRow

EntriesOnTheirWay ==
    on => /\ ((((disk.list \ rows.del) \cup rows.ins) \ goneEntries) \cup newEntries) = listed
          /\ ((((disk.obsolete \ rows.obsDel) \cup rows.obsIns) \ goneObsolete)
                  \cup newObsolete) = obsolete
          /\ listed \cap obsolete = {}

CommittedFirst ==
    \A t \in (disk.list \cup rows.ins \cup newEntries) \ dropped :
        t \in disk.files /\ disk.rows[t] # NoRow

Inv ==
    /\ TypeOK /\ NothingHeld /\ SaveShape /\ NamesUsed /\ MakerShape /\ StorersLoaded
    /\ MarkShape /\ ContentOnItsWay /\ EntriesOnTheirWay /\ StoresCanSucceed
    /\ CommittedFirst /\ ObsoleteNotListed

-----------------------------------------------------------------------------
(* Types *)

\* The fields of what is on the disk, and back.
LEMMA DiskFields ==
    /\ \A d \in Disks :
           /\ d.list \subseteq Tasks /\ d.obsolete \subseteq Tasks /\ d.files \subseteq Tasks
           /\ d.rows \in [Tasks -> Values \cup {NoRow}]
           /\ d = [list |-> d.list, obsolete |-> d.obsolete, files |-> d.files,
                   rows |-> d.rows]
    /\ \A l, o, f \in SUBSET Tasks, r \in [Tasks -> Values \cup {NoRow}] :
           [list |-> l, obsolete |-> o, files |-> f, rows |-> r] \in Disks
BY DEF Disks

LEMMA RowFields ==
    /\ \A r \in Rows :
           /\ r.ins \subseteq Tasks /\ r.del \subseteq Tasks
           /\ r.obsIns \subseteq Tasks /\ r.obsDel \subseteq Tasks
           /\ r = [ins |-> r.ins, del |-> r.del, obsIns |-> r.obsIns, obsDel |-> r.obsDel]
    /\ \A i, d, oi, od \in SUBSET Tasks :
           [ins |-> i, del |-> d, obsIns |-> oi, obsDel |-> od] \in Rows
BY DEF Rows

LEMMA ObjectsTyped ==
    /\ NoObject \in Objects /\ NewObject \in Objects
    /\ \A o \in Objects : Copied(o) \in Objects /\ Gathered(o) \in Objects
    /\ \A o \in Objects : Flagged(o) \in Objects
    /\ \A o \in Objects : o.value < MaxValue =>
           Changed(o) \in Objects /\ [o EXCEPT !.value = @ + 1] \in Objects
<1>1. NoObject \in Objects /\ NewObject \in Objects
  BY BoundsAssumption DEF NoObject, NewObject, Objects, Values
<1>2. ASSUME NEW o \in Objects
      PROVE  Copied(o) \in Objects
  <2>1. CASE o.change = "none"
    BY <2>1 DEF Copied
  <2>2. CASE o.change # "none"
    BY <2>2 DEF Copied, Objects
  <2> QED
    BY <2>1, <2>2
<1>3. ASSUME NEW o \in Objects
      PROVE  Gathered(o) \in Objects
  BY <1>2 DEF Gathered, Objects
<1>4. ASSUME NEW o \in Objects
      PROVE  Flagged(o) \in Objects
  <2>1. (IF o.change = "added" THEN "added" ELSE "changed") \in {"none", "changed", "added"}
    OBVIOUS
  <2> QED
    BY <2>1 DEF Flagged, Objects
<1>5. ASSUME NEW o \in Objects, o.value < MaxValue
      PROVE  Changed(o) \in Objects /\ [o EXCEPT !.value = @ + 1] \in Objects
  <2>1. o.value + 1 \in Values
    BY <1>5, BoundsAssumption DEF Objects, Values
  <2>2. Flagged(o) \in Objects /\ Flagged(o).value = o.value
    BY <1>4 DEF Flagged, Objects
  <2> QED
    BY <2>1, <2>2 DEF Changed, Objects
<1> QED
  BY <1>1, <1>2, <1>3, <1>4, <1>5

\* A change under the lock, or one half of a mark: only the row in memory changes.
LEMMA ChangesEffect ==
    ASSUME TypeOK, MarkShape, NEW t \in Tasks, Changes(t)
    PROVE  /\ t \in listed \ loadError
           /\ obj'[t] \in Objects /\ obj' = [obj EXCEPT ![t] = obj'[t]]
           /\ obj'[t].row = obj[t].row /\ obj'[t].sent = obj[t].sent
           /\ obj'[t].change \in {obj[t].change, "changed"}
           /\ obj'[t].change = "none" => t \in overtaken
           /\ marking' \subseteq marking \cup {t}
           /\ t \in marking' => obj'[t].value < MaxValue
           /\ UNCHANGED <<on, disk, listVars, obsoleteVars, rows, loadVars, storer,
                          gathering, overtaken, save, maker, names, faults, sessions>>
<1> DEFINE o == obj[t]
<1>1. o \in Objects
  BY DEF TypeOK
<1>2. CASE LockedChange(t)
  <2>1. obj' = [obj EXCEPT ![t] = Changed(o)] /\ o.value < MaxValue /\ t \notin marking
    BY <1>2 DEF LockedChange, Changeable
  <2>2. /\ Changed(o) \in Objects /\ Changed(o).row = o.row /\ Changed(o).sent = o.sent
        /\ Changed(o).change = IF o.change = "added" THEN "added" ELSE "changed"
    <3>1. /\ Flagged(o) \in Objects /\ Flagged(o).row = o.row /\ Flagged(o).sent = o.sent
          /\ Flagged(o).change = IF o.change = "added" THEN "added" ELSE "changed"
      BY <1>1, ObjectsTyped DEF Flagged, Objects
    <3>2. /\ Changed(o).row = Flagged(o).row /\ Changed(o).sent = Flagged(o).sent
          /\ Changed(o).change = Flagged(o).change
      BY <3>1 DEF Changed, Objects
    <3> QED
      BY <1>1, <2>1, <3>1, <3>2, ObjectsTyped
  <2>3. t \in listed \ loadError /\ obj'[t] = Changed(o)
    BY <1>2, <2>1 DEF LockedChange, Works, TypeOK
  <2>4. /\ t \notin marking' /\ marking' = marking
        /\ UNCHANGED <<on, disk, listVars, obsoleteVars, rows, loadVars, storer,
                       gathering, overtaken, save, maker, names, faults, sessions>>
    BY <1>2, <2>1 DEF LockedChange
  <2>5. obj'[t].change \in {obj[t].change, "changed"} /\ obj'[t].change # "none"
    BY <2>2, <2>3
  <2> HIDE DEF o
  <2> QED
    BY <2>1, <2>2, <2>3, <2>4, <2>5 DEF o
<1>3. CASE MarkAsProcessed(t)
  <2>1. obj' = [obj EXCEPT ![t] = Flagged(o)] /\ o.value < MaxValue
    BY <1>3 DEF MarkAsProcessed, Changeable
  <2>2. /\ Flagged(o) \in Objects /\ Flagged(o).row = o.row /\ Flagged(o).sent = o.sent
        /\ Flagged(o).value = o.value
        /\ Flagged(o).change = IF o.change = "added" THEN "added" ELSE "changed"
    BY <1>1, ObjectsTyped DEF Flagged, Objects
  <2> QED
    BY <1>3, <2>1, <2>2 DEF MarkAsProcessed, Works, TypeOK
<1>4. CASE MarkIsWritten(t)
  <2>1. obj' = [obj EXCEPT ![t] = [o EXCEPT !.value = @ + 1]]
    BY <1>4 DEF MarkIsWritten, TypeOK
  <2>2. o.value < MaxValue /\ (o.change # "none" \/ t \in overtaken)
    BY <1>4 DEF MarkIsWritten, MarkShape
  <2>3. [o EXCEPT !.value = @ + 1] \in Objects
    BY <1>1, <2>2, ObjectsTyped
  <2>4. /\ [o EXCEPT !.value = @ + 1].row = o.row /\ [o EXCEPT !.value = @ + 1].sent = o.sent
        /\ [o EXCEPT !.value = @ + 1].change = o.change
    BY <1>1 DEF Objects
  <2> QED
    BY <1>4, <2>1, <2>2, <2>3, <2>4 DEF MarkIsWritten, MarkShape, TypeOK
<1> QED
  BY <1>2, <1>3, <1>4 DEF Changes

LEMMA GatheredEffect ==
    ASSUME NEW o \in Objects, NEW g \in {Copied(o), Gathered(o)}
    PROVE  /\ g \in Objects /\ g.value = o.value /\ g.change \in {o.change, "none"}
           /\ o.change = "none" => g.row = o.row /\ g.sent = o.sent
           /\ o.change # "none" =>
                 /\ g.sent = o.value
                 /\ g.row = IF o.change = "added" \/ o.row = "insert"
                            THEN "insert" ELSE "update"
<1>1. /\ Copied(o) \in Objects /\ Copied(o).value = o.value /\ Copied(o).change = o.change
      /\ o.change = "none" => Copied(o).row = o.row /\ Copied(o).sent = o.sent
      /\ o.change # "none" =>
            /\ Copied(o).sent = o.value
            /\ Copied(o).row = IF o.change = "added" \/ o.row = "insert"
                               THEN "insert" ELSE "update"
  <2>1. CASE o.change = "none"
    BY <2>1 DEF Copied
  <2>2. CASE o.change # "none"
    BY <2>2, ObjectsTyped DEF Copied, Objects
  <2> QED
    BY <2>1, <2>2
<1>2. /\ Gathered(o) \in Objects /\ Gathered(o).value = Copied(o).value
      /\ Gathered(o).change = "none"
      /\ Gathered(o).row = Copied(o).row /\ Gathered(o).sent = Copied(o).sent
  BY <1>1 DEF Gathered, Objects
<1> QED
  BY <1>1, <1>2

\* The row of a task that is being created.
LEMMA NewRow ==
    /\ Gathered(NewObject).value = 0 /\ Gathered(NewObject).change = "none"
    /\ Gathered(NewObject).row = "insert" /\ Gathered(NewObject).sent = 0
<1>1. NewObject.change = "added" /\ NewObject.value = 0
  BY DEF NewObject, NoObject
<1> QED
  BY <1>1, ObjectsTyped, GatheredEffect DEF Gathered, Copied, NewObject, NoObject

\* A store that begins: what is flagged is in the pending row.
LEMMA StoresEffect ==
    ASSUME TypeOK, NEW t \in Tasks, ThreadStores(t) \/ StoresTask(t)
    PROVE  /\ t \in listed \ loadError /\ storer[t] = "nobody"
           /\ storer' \in {[storer EXCEPT ![t] = "thread"], [storer EXCEPT ![t] = "user"]}
           /\ obj'[t] \in {Copied(obj[t]), Gathered(obj[t])}
           /\ obj' = [obj EXCEPT ![t] = obj'[t]]
           /\ gathering' \subseteq gathering \cup {t}
           /\ t \in gathering' \ gathering => storer'[t] = "user" /\ obj[t].change # "none"
           /\ \/ overtaken' = overtaken
              \/ overtaken' = overtaken \ {t} /\ obj[t].change # "none"
           /\ t \in marking => obj'[t].change = obj[t].change /\ overtaken' = overtaken
           /\ UNCHANGED <<on, disk, listVars, obsoleteVars, rows, loadVars, marking,
                          save, maker, names, faults, sessions>>
<1>1. CASE ThreadStores(t)
  BY <1>1 DEF ThreadStores, ThreadGathers, Works, TypeOK
<1>2. CASE StoresTask(t)
  <2>1. obj' = [obj EXCEPT ![t] = Copied(obj[t])]
    BY <1>2 DEF StoresTask, SaveCopies
  <2>2. Copied(obj[t]).change = obj[t].change
    BY DEF Copied, TypeOK, Objects
  <2> QED
    BY <1>2, <2>1, <2>2 DEF StoresTask, SaveCopies, Comes, TypeOK
<1> QED
  BY <1>1, <1>2

\* The flags are reset: what they stood for has been copied, or has been overtaken.
LEMMA ResetsEffect ==
    ASSUME TypeOK, NEW t \in Tasks, SaveResets(t)
    PROVE  /\ t \in gathering /\ t \in listed /\ gathering' = gathering \ {t}
           /\ \A u \in Tasks \ {t} : obj'[u] = obj[u]
           /\ obj' \in [Tasks -> Objects]
           /\ obj'[t].value = obj[t].value /\ obj'[t].change = "none"
           /\ obj'[t].row = obj[t].row /\ obj'[t].sent = obj[t].sent
           /\ \/ overtaken' = overtaken \cup {t}
              \/ /\ overtaken' = overtaken \ {t}
                 /\ t \notin marking /\ obj[t].value = obj[t].sent
           /\ UNCHANGED <<on, disk, listVars, obsoleteVars, rows, loadVars, storer, marking,
                          save, maker, names, faults, sessions>>
<1>1. obj' = [obj EXCEPT ![t] = [obj[t] EXCEPT !.change = "none"]]
  BY DEF SaveResets, FlagsReset, TypeOK
<1>2. obj[t] \in Objects /\ [obj[t] EXCEPT !.change = "none"] \in Objects
  BY DEF TypeOK, Objects
<1> QED
  BY <1>1, <1>2 DEF SaveResets, FlagsReset, TypeOK, Objects

LEMMA FlushedTyped ==
    ASSUME TypeOK, NEW t \in Tasks, Flushed(t)
    PROVE  /\ disk' \in Disks
           /\ obj' \in [Tasks -> Objects]
           /\ storer' \in [Tasks -> {"nobody", "thread", "user", "maker"}]
<1>1. disk' \in Disks
  <2>1. CASE obj[t].row = "none"
    BY <2>1 DEF TypeOK, Flushed
  <2>2. CASE obj[t].row # "none"
    <3>1. obj[t].sent \in Values
      BY DEF TypeOK, Objects
    <3>2. [disk.rows EXCEPT ![t] = obj[t].sent] \in [Tasks -> Values \cup {NoRow}]
      BY <3>1, DiskFields DEF TypeOK
    <3>3. disk' = [list |-> disk.list, obsolete |-> disk.obsolete, files |-> disk.files,
                   rows |-> [disk.rows EXCEPT ![t] = obj[t].sent]]
      BY <2>2 DEF TypeOK, Flushed, Disks
    <3> QED
      BY <3>2, <3>3, DiskFields DEF TypeOK
  <2> QED
    BY <2>1, <2>2
<1>2. obj' \in [Tasks -> Objects]
  <2>1. [obj[t] EXCEPT !.row = "none", !.sent = 0] \in Objects
    <3>1. obj[t] \in Objects /\ 0 \in Values
      BY BoundsAssumption DEF TypeOK, Values
    <3> QED
      BY <3>1 DEF Objects
  <2>2. obj' = [obj EXCEPT ![t] = [obj[t] EXCEPT !.row = "none", !.sent = 0]]
    BY DEF Flushed, TypeOK
  <2> QED
    BY <2>1, <2>2 DEF TypeOK
<1> QED
  BY <1>1, <1>2 DEF Flushed, TypeOK

LEMMA NotFlushedTyped ==
    ASSUME TypeOK, NEW t \in Tasks, NotFlushed(t)
    PROVE  /\ disk' \in Disks
           /\ obj' \in [Tasks -> Objects]
           /\ storer' \in [Tasks -> {"nobody", "thread", "user", "maker"}]
           /\ faults' \in 0..MaxFaults
BY BoundsAssumption DEF NotFlushed, TypeOK

LEMMA StoreListTyped ==
    ASSUME TypeOK, NEW force \in BOOLEAN, StoreList(force)
    PROVE  TypeOK'
<1>1. rows' \in Rows
  <2>1. rows' = [ins |-> (rows.ins \ goneEntries) \cup newEntries,
                 del |-> rows.del \cup goneEntries,
                 obsIns |-> rows.obsIns, obsDel |-> rows.obsDel]
    BY RowFields DEF StoreList, TypeOK
  <2> QED
    BY <2>1, RowFields DEF TypeOK
<1>2. save' \in [at : {"idle", "tasks", "flush"}, todo : SUBSET listed', force : BOOLEAN]
  BY DEF StoreList
<1> QED
  BY <1>1, <1>2 DEF StoreList, TypeOK, taskVars, names, obsoleteVars

LEMMA EndsTyped ==
    ASSUME TypeOK, Ends, disk' \in Disks, UNCHANGED <<names, faults, sessions>>
    PROVE  TypeOK'
<1>1. obj' \in [Tasks -> Objects] /\ rows' \in Rows
  BY ObjectsTyped, RowFields DEF Ends, NoRows
<1>2. on' \in BOOLEAN
  BY DEF Ends
<1>3. /\ save' \in [at : {"idle", "tasks", "flush"}, todo : SUBSET listed', force : BOOLEAN]
      /\ maker' \in [task : Tasks \cup {NoTask}, by : {"nobody", "monitor", "user"}]
      /\ storer' \in [Tasks -> {"nobody", "thread", "user", "maker"}]
  BY DEF Ends, NoSave, NoMaker
<1> QED
  BY <1>1, <1>2, <1>3 DEF Ends, TypeOK, names

\* A session that begins: what the disk holds is in a task's object again.
LEMMA LoadTyped ==
    ASSUME TypeOK, NothingHeld, NamesUsed, Load
    PROVE  TypeOK'
<1>1. PICK deleted \in SUBSET disk.obsolete,
           unopened \in SUBSET disk.list, unreadable \in SUBSET disk.list :
           Loads(deleted, unopened, unreadable)
  BY DEF Load
<1> DEFINE files == disk.files \ deleted
           content == [t \in Tasks |-> IF t \in files THEN disk.rows[t] ELSE NoRow]
           failed == unopened \cup unreadable \cup {t \in disk.list : content[t] = NoRow}
<1>2. disk.list \subseteq Tasks /\ disk.obsolete \subseteq Tasks /\ disk.files \subseteq Tasks
  BY DiskFields DEF TypeOK
<1>3. content \in [Tasks -> Values \cup {NoRow}]
  BY DiskFields DEF TypeOK
<1>4. disk' \in Disks
  <2>1. disk' = [list |-> disk.list, obsolete |-> disk.obsolete,
                 files |-> files \cup (disk.list \ unopened), rows |-> content]
    <3>1. disk' = [disk EXCEPT !.files = files \cup (disk.list \ unopened), !.rows = content]
      BY <1>1 DEF Loads
    <3> HIDE DEF files, content
    <3> QED
      BY <3>1 DEF TypeOK, Disks
  <2> QED
    BY <1>2, <1>3, <2>1, DiskFields
<1>5. obj' \in [Tasks -> Objects]
  <2>1. ASSUME NEW t \in Tasks
        PROVE  (IF t \notin disk.list THEN NoObject
                ELSE IF t \in failed THEN NewObject
                ELSE [NoObject EXCEPT !.value = content[t]]) \in Objects
    <3>1. CASE t \in disk.list \ failed
      <4>1. content[t] \in Values
        BY <1>3, <3>1
      <4>2. [NoObject EXCEPT !.value = content[t]] \in Objects
        BY <4>1, BoundsAssumption DEF NoObject, Objects, Values
      <4> QED
        BY <3>1, <4>2
    <3>2. CASE t \notin disk.list \ failed
      BY <3>2, ObjectsTyped
    <3> QED
      BY <3>1, <3>2
  <2> QED
    BY <1>1, <2>1 DEF Loads
<1>6. faults' \in 0..MaxFaults
  <2>1. Cardinality(unopened) \in Nat /\ Cardinality(unreadable) \in Nat
    BY <1>2, TasksAssumption, FS_Subset, FS_CardinalityType
  <2> QED
    BY <1>1, <2>1, BoundsAssumption DEF Loads, TypeOK
<1>7. sessions' \in 0..MaxSessions /\ on' \in BOOLEAN
  BY BoundsAssumption DEF Load, TypeOK
<1>8. /\ loadError' \subseteq unloaded' /\ fake' \subseteq unloaded' /\ unloaded' \subseteq listed'
      /\ listed' \subseteq Tasks /\ obsolete' \subseteq Tasks /\ goneObsolete' \subseteq Tasks
  BY <1>1, <1>2 DEF Loads
<1>9. /\ UNCHANGED <<newEntries, goneEntries, newObsolete, rows, storer, save, maker, used, dropped>>
      /\ gathering' = {} /\ marking' = {} /\ overtaken' = {}
      /\ newEntries = {} /\ newObsolete = {} /\ save.todo = {}
  BY DEF Load, NothingHeld, NoSession, NoSave, names
<1>10. save' \in [at : {"idle", "tasks", "flush"}, todo : SUBSET listed', force : BOOLEAN]
  BY <1>9 DEF TypeOK
<1> QED
  BY <1>4, <1>5, <1>6, <1>7, <1>8, <1>9, <1>10 DEF TypeOK

LEMMA FileGoesTyped ==
    ASSUME TypeOK, NEW t \in Tasks, FileGoes(t)
    PROVE  disk' \in Disks /\ faults' \in 0..MaxFaults
<1>1. CASE UNCHANGED disk
  BY <1>1, BoundsAssumption DEF FileGoes, TypeOK
<1>2. CASE ~UNCHANGED disk
  <2>1. disk' = [list |-> disk.list, obsolete |-> disk.obsolete, files |-> disk.files \ {t},
                 rows |-> [disk.rows EXCEPT ![t] = NoRow]]
    BY <1>2 DEF FileGoes, TypeOK, Disks
  <2>2. [disk.rows EXCEPT ![t] = NoRow] \in [Tasks -> Values \cup {NoRow}]
    BY DiskFields DEF TypeOK
  <2> QED
    BY <1>2, <2>1, <2>2, DiskFields DEF TypeOK, FileGoes
<1> QED
  BY <1>1, <1>2

\* Every step of the program keeps the types.
LEMMA TypeStep ==
    ASSUME TypeOK, NothingHeld, SaveShape, NamesUsed, MakerShape, MarkShape, [Next]_vars
    PROVE  TypeOK'
<1>1. ASSUME NEW t \in Tasks, Changes(t)
      PROVE  TypeOK'
  <2>1. obj' \in [Tasks -> Objects] /\ marking' \subseteq listed
    BY <1>1, ChangesEffect DEF TypeOK
  <2> QED
    BY <1>1, <2>1, ChangesEffect DEF TypeOK, listVars, obsoleteVars, names
<1>2. ASSUME NEW t \in Tasks, ThreadStores(t) \/ StoresTask(t)
      PROVE  TypeOK'
  <2>1. obj' \in [Tasks -> Objects]
    BY <1>2, StoresEffect, ObjectsTyped DEF TypeOK
  <2>2. /\ storer' \in [Tasks -> {"nobody", "thread", "user", "maker"}]
        /\ gathering' \subseteq listed /\ overtaken' \subseteq listed
    BY <1>2, StoresEffect DEF TypeOK
  <2> QED
    BY <1>2, <2>1, <2>2, StoresEffect DEF TypeOK, listVars, obsoleteVars, names
<1>3. ASSUME NEW t \in Tasks, ThreadFlushes(t)
      PROVE  TypeOK'
  BY <1>3, FlushedTyped, NotFlushedTyped
     DEF ThreadFlushes, Flushed, NotFlushed, TypeOK, listVars, obsoleteVars, names
<1>4. ASSUME NEW t \in Tasks, CreateTask(t)
      PROVE  TypeOK'
  <2>1. disk' \in Disks
    <3>1. disk' = [list |-> disk.list, obsolete |-> disk.obsolete,
                   files |-> disk.files \cup {t}, rows |-> disk.rows]
      BY <1>4 DEF CreateTask, TypeOK, Disks
    <3> QED
      BY <3>1, DiskFields DEF TypeOK
  <2>2. obj' \in [Tasks -> Objects]
    BY <1>4, ObjectsTyped DEF CreateTask, TypeOK
  <2>3. maker' \in [task : Tasks \cup {NoTask}, by : {"nobody", "monitor", "user"}]
    BY <1>4 DEF CreateTask
  <2> QED
    BY <1>4, <2>1, <2>2, <2>3 DEF CreateTask, TypeOK, listVars, obsoleteVars
<1>5. ASSUME NEW t \in Tasks, MakerFlushes(t)
      PROVE  TypeOK'
  BY <1>5, FlushedTyped DEF MakerFlushes, Flushed, TypeOK, listVars, obsoleteVars, names
<1>6. ASSUME NEW t \in Tasks, CreateFails(t)
      PROVE  TypeOK'
  BY <1>6, ObjectsTyped, BoundsAssumption
     DEF CreateFails, TypeOK, NoMaker, listVars, obsoleteVars, names
<1>7. ASSUME NEW t \in Tasks, Add(t)
      PROVE  TypeOK'
  BY <1>7 DEF Add, TypeOK, NoMaker, taskVars, obsoleteVars, names
<1>8. ASSUME Autosave \/ Exit
      PROVE  TypeOK'
  BY <1>8, StoreListTyped DEF Autosave, Exit
<1>9. ASSUME NEW t \in Tasks, SkipsTask(t)
      PROVE  TypeOK'
  BY <1>9 DEF SkipsTask, TypeOK, taskVars, listVars, obsoleteVars, names
<1>10. ASSUME NEW t \in Tasks, SaveResets(t)
       PROVE  TypeOK'
  BY <1>10, ResetsEffect DEF TypeOK, listVars, obsoleteVars, names
<1>11. ASSUME NEW t \in Tasks, FlushesTask(t)
       PROVE  TypeOK'
  <2>1. save' \in [at : {"idle", "tasks", "flush"}, todo : SUBSET listed, force : BOOLEAN]
    BY <1>11 DEF FlushesTask, TypeOK
  <2> QED
    BY <1>11, <2>1, FlushedTyped
       DEF FlushesTask, Flushed, TypeOK, listVars, obsoleteVars, names
<1>12. ASSUME NEW t \in Tasks, TaskStoreThrows(t)
       PROVE  TypeOK'
  <2>1. save' \in [at : {"idle", "tasks", "flush"}, todo : SUBSET listed, force : BOOLEAN]
    BY <1>12 DEF TaskStoreThrows, NoSave
  <2>2. \/ UNCHANGED <<taskVars, disk, faults>>
        \/ NotFlushed(t)
    BY <1>12 DEF TaskStoreThrows
  <2>3. /\ disk' \in Disks /\ obj' \in [Tasks -> Objects]
        /\ storer' \in [Tasks -> {"nobody", "thread", "user", "maker"}]
        /\ faults' \in 0..MaxFaults
        /\ UNCHANGED <<loadVars, gathering, markVars>>
    BY <2>2, NotFlushedTyped DEF TypeOK, taskVars, NotFlushed
  <2> QED
    BY <1>12, <2>1, <2>3 DEF TaskStoreThrows, TypeOK, listVars, obsoleteVars, names
<1>13. CASE StoreObsolete
  <2>1. rows' = [ins |-> rows.ins, del |-> rows.del,
                 obsIns |-> (rows.obsIns \ goneObsolete) \cup newObsolete,
                 obsDel |-> rows.obsDel \cup goneObsolete]
    BY <1>13 DEF StoreObsolete, TypeOK, Rows
  <2>2. rows' \in Rows
    BY <2>1, RowFields DEF TypeOK
  <2>3. save' \in [at : {"idle", "tasks", "flush"}, todo : SUBSET listed, force : BOOLEAN]
    BY <1>13 DEF StoreObsolete, TypeOK
  <2> QED
    BY <1>13, <2>2, <2>3 DEF StoreObsolete, TypeOK, taskVars, listVars, names
<1>14. CASE FlushesManager
  <2>1. disk' \in Disks
    <3>1. disk' = [list |-> (disk.list \ rows.del) \cup rows.ins,
                   obsolete |-> (disk.obsolete \ rows.obsDel) \cup rows.obsIns,
                   files |-> disk.files, rows |-> disk.rows]
      BY <1>14 DEF FlushesManager, Committed, TypeOK, Disks
    <3> QED
      BY <3>1, DiskFields, RowFields DEF TypeOK
  <2>2. CASE save.force
    BY <1>14, <2>1, <2>2, EndsTyped DEF FlushesManager
  <2>3. CASE ~save.force
    <3>1. /\ rows' = NoRows /\ save' = NoSave
          /\ UNCHANGED <<on, listVars, obsoleteVars, taskVars, maker, names, faults, sessions>>
      BY <1>14, <2>3 DEF FlushesManager
    <3>2. /\ save' \in [at : {"idle", "tasks", "flush"}, todo : SUBSET listed, force : BOOLEAN]
          /\ rows' \in Rows
      BY <3>1, RowFields DEF NoSave, NoRows
    <3> QED
      BY <2>1, <3>1, <3>2 DEF TypeOK, taskVars, listVars, obsoleteVars, names
  <2> QED
    BY <2>2, <2>3
<1>15. CASE ManagerFlushThrows
  <2>1. save' \in [at : {"idle", "tasks", "flush"}, todo : SUBSET listed, force : BOOLEAN]
    BY <1>15 DEF ManagerFlushThrows, NoSave
  <2> QED
    BY <1>15, <2>1, BoundsAssumption
       DEF ManagerFlushThrows, TypeOK, taskVars, listVars, obsoleteVars, names
<1>16. ASSUME NEW t \in Tasks, RemoveTask(t)
       PROVE  TypeOK'
  <2>1. FileGoes(t)
    BY <1>16 DEF RemoveTask
  <2>2. disk' \in Disks /\ faults' \in 0..MaxFaults
    BY <2>1, FileGoesTyped
  <2>3. save' \in [at : {"idle", "tasks", "flush"}, todo : SUBSET listed', force : BOOLEAN]
    BY <1>16 DEF RemoveTask, UserInterfaceFree, SaveShape, TypeOK
  <2>4. obj' \in [Tasks -> Objects] /\ dropped' \subseteq used'
    BY <1>16, ObjectsTyped DEF RemoveTask, NamesUsed, TypeOK
  <2>5. obsolete' \subseteq Tasks /\ newObsolete' \subseteq obsolete' /\ goneObsolete' \subseteq Tasks
    BY <2>1 DEF FileGoes, TypeOK, obsoleteVars
  <2>6. gathering' \subseteq listed' /\ marking' \subseteq listed' /\ overtaken' \subseteq listed'
    BY <1>16 DEF RemoveTask, MarkShape, TypeOK
  <2> QED
    BY <1>16, <2>2, <2>3, <2>4, <2>5, <2>6 DEF RemoveTask, TypeOK
<1>17. CASE Crash
  BY <1>17, EndsTyped DEF Crash, TypeOK
<1>18. CASE Load
  BY <1>18, LoadTyped
<1>19. CASE UNCHANGED vars
  BY <1>19 DEF vars, TypeOK, taskVars, listVars, obsoleteVars, names
<1>20. ASSUME NEW t \in Tasks, PauseUnloaded(t)
       PROVE  TypeOK'
  BY <1>20 DEF PauseUnloaded, TypeOK, listVars, obsoleteVars, names, Objects
<1> QED
  BY <1>1, <1>2, <1>3, <1>4, <1>5, <1>6, <1>7, <1>8, <1>9, <1>10, <1>11, <1>12, <1>13,
     <1>14, <1>15, <1>16, <1>17, <1>18, <1>19, <1>20
     DEF Next, SaveStep, ThreadStep, MakerStep

-----------------------------------------------------------------------------
(* What the larger steps do, field by field *)

LEMMA FlushedEffect ==
    ASSUME TypeOK, NEW t \in Tasks, Flushed(t)
    PROVE  /\ disk'.list = disk.list /\ disk'.obsolete = disk.obsolete
           /\ disk'.files = disk.files
           /\ disk'.rows[t] = EventualContent(t)
           /\ \A u \in Tasks \ {t} : disk'.rows[u] = disk.rows[u] /\ obj'[u] = obj[u]
           /\ obj'[t].value = obj[t].value /\ obj'[t].change = obj[t].change
           /\ obj'[t].row = "none"
           /\ obj[t].row # "none" \/ disk.rows[t] # NoRow => disk'.rows[t] # NoRow
           /\ storer' = [storer EXCEPT ![t] = "nobody"]
           /\ UNCHANGED <<loadVars, gathering, markVars>>
<1>1. CASE obj[t].row = "none"
  BY <1>1 DEF TypeOK, Flushed, EventualContent, Disks, Objects
<1>2. CASE obj[t].row # "none"
  BY <1>2 DEF TypeOK, Flushed, EventualContent, Disks, Objects, Values, NoRow
<1> QED
  BY <1>1, <1>2

LEMMA NotFlushedEffect ==
    ASSUME NEW t \in Tasks, NotFlushed(t)
    PROVE  /\ UNCHANGED <<disk, obj, loadVars, gathering, markVars>>
           /\ storer' = [storer EXCEPT ![t] = "nobody"]
BY DEF NotFlushed

LEMMA ThrowsEffect ==
    ASSUME TypeOK, NEW t \in Tasks, TaskStoreThrows(t)
    PROVE  /\ save.at = "tasks"
           /\ UNCHANGED <<disk, obj, loadVars, gathering, markVars>>
           /\ storer' = storer \/ storer' = [storer EXCEPT ![t] = "nobody"]
           /\ save' = NoSave
           /\ UNCHANGED <<on, listVars, obsoleteVars, rows, maker, names>>
BY DEF TaskStoreThrows, Comes, NotFlushed, taskVars

LEMMA RemoveTaskEffect ==
    ASSUME TypeOK, NEW t \in Tasks, RemoveTask(t)
    PROVE  /\ save.at = "idle" /\ t \in listed /\ storer[t] = "nobody"
           /\ t \notin marking /\ overtaken' = overtaken \ {t}
           /\ listed' = listed \ {t} /\ newEntries' = newEntries \ {t}
           /\ goneEntries' = goneEntries \cup {t}
           /\ disk'.list = disk.list /\ disk'.obsolete = disk.obsolete
           /\ disk'.files \in {disk.files, disk.files \ {t}}
           /\ disk'.rows[t] \in {disk.rows[t], NoRow}
           /\ \A u \in Tasks \ {t} : disk'.rows[u] = disk.rows[u] /\ obj'[u] = obj[u]
           /\ obj'[t] = NoObject
           /\ \/ UNCHANGED obsoleteVars
              \/ /\ obsolete' = obsolete \cup {t} /\ newObsolete' = newObsolete \cup {t}
                 /\ goneObsolete' = goneObsolete
           /\ unloaded' = unloaded \ {t} /\ loadError' = loadError \ {t}
           /\ dropped' = dropped \cup {t}
           /\ UNCHANGED <<on, rows, storer, gathering, marking, save, maker, used>>
<1>1. obj' = [obj EXCEPT ![t] = NoObject]
  BY DEF RemoveTask
<1>2. CASE ~UNCHANGED disk
  <2>1. disk' = [list |-> disk.list, obsolete |-> disk.obsolete, files |-> disk.files \ {t},
                 rows |-> [disk.rows EXCEPT ![t] = NoRow]]
    BY <1>2 DEF RemoveTask, FileGoes, TypeOK, Disks
  <2>2. disk.rows \in [Tasks -> Values \cup {NoRow}]
    BY DiskFields DEF TypeOK
  <2> QED
    BY <1>1, <1>2, <2>1, <2>2 DEF RemoveTask, FileGoes, UserInterfaceFree, TypeOK, obsoleteVars
<1>3. CASE UNCHANGED disk
  BY <1>1, <1>3 DEF RemoveTask, FileGoes, UserInterfaceFree, TypeOK, Disks, obsoleteVars
<1> QED
  BY <1>2, <1>3

\* The manager's transaction, after which the program may end.
LEMMA FlushesManagerEffect ==
    ASSUME TypeOK, FlushesManager
    PROVE  /\ save.at = "flush"
           /\ disk'.list = (disk.list \ rows.del) \cup rows.ins
           /\ disk'.obsolete = (disk.obsolete \ rows.obsDel) \cup rows.obsIns
           /\ disk'.files = disk.files /\ disk'.rows = disk.rows
           /\ \/ Ends
              \/ /\ rows' = NoRows /\ save' = NoSave
                 /\ UNCHANGED <<on, listVars, obsoleteVars, taskVars, maker>>
           /\ UNCHANGED names
<1>1. disk' = Committed
  BY DEF FlushesManager
<1> QED
  BY <1>1 DEF FlushesManager, Committed, TypeOK, Disks

LEMMA StoreListEffect ==
    ASSUME TypeOK, NEW force \in BOOLEAN, StoreList(force)
    PROVE  /\ rows'.ins = (rows.ins \ goneEntries) \cup newEntries
           /\ rows'.del = rows.del \cup goneEntries
           /\ rows'.obsIns = rows.obsIns /\ rows'.obsDel = rows.obsDel
           /\ newEntries' = {} /\ goneEntries' = {}
           /\ UNCHANGED <<on, disk, listed, obsoleteVars, taskVars, maker, names>>
BY DEF StoreList, TypeOK, Rows

\* What ends a session leaves nothing of it behind.
LEMMA EndsKeeps ==
    ASSUME Inv, Ends, disk'.rows = disk.rows
    PROVE  /\ NothingHeld' /\ SaveShape' /\ MakerShape' /\ StorersLoaded'
           /\ ContentOnItsWay' /\ EntriesOnTheirWay' /\ StoresCanSucceed'
<1>1. NothingHeld' /\ SaveShape'
  BY DEF Ends, NothingHeld, NoSession, SaveShape, NoSave
<1>2. MakerShape' /\ StorersLoaded' /\ ContentOnItsWay' /\ EntriesOnTheirWay'
  BY DEF Ends, MakerShape, StorersLoaded, ContentOnItsWay, EntriesOnTheirWay, NoMaker
<1>3. StoresCanSucceed'
  BY DEF Ends, StoresCanSucceed, Acceptable, NoObject
<1> QED
  BY <1>1, <1>2, <1>3

-----------------------------------------------------------------------------
(* Every step keeps the invariant, conjunct by conjunct *)

\* A session that has ended leaves nothing in memory.
LEMMA NothingHeldKept ==
    ASSUME Inv, [Next]_vars
    PROVE  NothingHeld'
<1>1. ASSUME NEW t \in Tasks, Changes(t)
      PROVE  NothingHeld'
  BY <1>1, ChangesEffect DEF Inv, NothingHeld, NoSession
<1>2. ASSUME NEW t \in Tasks, ThreadStores(t) \/ StoresTask(t)
      PROVE  NothingHeld'
  BY <1>2, StoresEffect DEF Inv, NothingHeld, NoSession
<1>3. ASSUME NEW t \in Tasks, ThreadFlushes(t)
      PROVE  NothingHeld'
  BY <1>3 DEF Inv, NothingHeld, ThreadFlushes, NoSession
<1>4. ASSUME NEW t \in Tasks, CreateTask(t)
      PROVE  NothingHeld'
  BY <1>4 DEF NothingHeld, CreateTask
<1>5. ASSUME NEW t \in Tasks, MakerFlushes(t)
      PROVE  NothingHeld'
  BY <1>5 DEF Inv, NothingHeld, MakerFlushes, NoSession
<1>6. ASSUME NEW t \in Tasks, CreateFails(t)
      PROVE  NothingHeld'
  BY <1>6 DEF Inv, NothingHeld, CreateFails, NoSession
<1>7. ASSUME NEW t \in Tasks, Add(t)
      PROVE  NothingHeld'
  BY <1>7, TasksAssumption DEF Inv, NothingHeld, Add, NoTask, NoSession, NoMaker
<1>8. CASE Autosave \/ Exit
  BY <1>8 DEF NothingHeld, Autosave, Exit, StoreList
<1>9. ASSUME NEW t \in Tasks, SkipsTask(t)
      PROVE  NothingHeld'
  BY <1>9 DEF Inv, NothingHeld, SkipsTask, NoSession
<1>10. ASSUME NEW t \in Tasks, SaveResets(t)
       PROVE  NothingHeld'
  BY <1>10, ResetsEffect DEF Inv, NothingHeld, NoSession
<1>11. ASSUME NEW t \in Tasks, FlushesTask(t)
       PROVE  NothingHeld'
  BY <1>11 DEF Inv, NothingHeld, FlushesTask, NoSession
<1>12. ASSUME NEW t \in Tasks, TaskStoreThrows(t)
       PROVE  NothingHeld'
  BY <1>12, ThrowsEffect DEF Inv, NothingHeld, NoSave, NoSession
<1>13. CASE StoreObsolete
  BY <1>13 DEF Inv, NothingHeld, StoreObsolete, NoSave, NoSession
<1>14. CASE FlushesManager
  <2>1. CASE Ends
    BY <1>14, <2>1, EndsKeeps, FlushesManagerEffect DEF Inv
  <2>2. CASE ~Ends
    BY <1>14, <2>2, FlushesManagerEffect DEF Inv, NothingHeld, NoSession, NoSave
  <2> QED
    BY <2>1, <2>2
<1>15. CASE ManagerFlushThrows
  BY <1>15
     DEF Inv, NothingHeld, ManagerFlushThrows, NoSession, taskVars, listVars, obsoleteVars
<1>16. ASSUME NEW t \in Tasks, RemoveTask(t)
       PROVE  NothingHeld'
  BY <1>16, RemoveTaskEffect DEF Inv, NothingHeld, NoSession
<1>17. CASE Crash
  BY <1>17 DEF NothingHeld, Crash, NoSession, Ends
<1>18. CASE Load
  BY <1>18 DEF NothingHeld, Load
<1>19. CASE UNCHANGED vars
  BY <1>19 DEF Inv, NothingHeld, NoSession, vars, taskVars, listVars, obsoleteVars, names
<1>20. ASSUME NEW t \in Tasks, PauseUnloaded(t)
       PROVE  NothingHeld'
  BY <1>20 DEF Inv, PauseUnloaded, TypeOK, NothingHeld, listVars, obsoleteVars, names, NoSession
<1> QED
  BY <1>1, <1>2, <1>3, <1>4, <1>5, <1>6, <1>7, <1>8, <1>9, <1>10, <1>11, <1>12, <1>13,
     <1>14, <1>15, <1>16, <1>17, <1>18, <1>19, <1>20
     DEF Next, SaveStep, ThreadStep, MakerStep

\* Behind a store, the flags are reset that it has read.
LEMMA SaveShapeKept ==
    ASSUME Inv, [Next]_vars
    PROVE  SaveShape'
<1>1. ASSUME NEW t \in Tasks, ThreadFlushes(t) \/ CreateTask(t) \/ MakerFlushes(t) \/
             CreateFails(t) \/ Add(t)
      PROVE  SaveShape'
  BY <1>1
     DEF Inv, SaveShape, ThreadFlushes, CreateTask, MakerFlushes, CreateFails, Add,
         listVars, obsoleteVars
<1>0. ASSUME NEW t \in Tasks,
             Changes(t) \/ ThreadStores(t) \/ StoresTask(t) \/ SaveResets(t)
      PROVE  SaveShape'
  BY <1>0, ChangesEffect, StoresEffect, ResetsEffect
     DEF Inv, SaveShape, listVars, obsoleteVars
<1>2. CASE Autosave \/ Exit
  BY <1>2 DEF SaveShape, Autosave, Exit, StoreList
<1>3. ASSUME NEW t \in Tasks, SkipsTask(t)
      PROVE  SaveShape'
  BY <1>3 DEF Inv, SaveShape, SkipsTask, listVars, Comes
<1>4. ASSUME NEW t \in Tasks, FlushesTask(t)
      PROVE  SaveShape'
  BY <1>4 DEF Inv, SaveShape, FlushesTask, listVars, Comes
<1>5. ASSUME NEW t \in Tasks, TaskStoreThrows(t)
      PROVE  SaveShape'
  BY <1>5, ThrowsEffect DEF Inv, SaveShape, NoSave
<1>6. CASE StoreObsolete
  BY <1>6 DEF Inv, SaveShape, StoreObsolete, listVars
<1>7. CASE FlushesManager
  <2>1. CASE Ends
    BY <1>7, <2>1, EndsKeeps, FlushesManagerEffect DEF Inv
  <2>2. CASE ~Ends
    BY <1>7, <2>2, FlushesManagerEffect DEF Inv, SaveShape, NoSave
  <2> QED
    BY <2>1, <2>2
<1>8. CASE ManagerFlushThrows
  BY <1>8 DEF SaveShape, ManagerFlushThrows, NoSave
<1>9. ASSUME NEW t \in Tasks, RemoveTask(t)
      PROVE  SaveShape'
  BY <1>9, RemoveTaskEffect DEF Inv, SaveShape
<1>10. CASE Crash
  BY <1>10 DEF SaveShape, Crash, NoSave, Ends
<1>11. CASE Load
  BY <1>11 DEF Inv, SaveShape, Load, NothingHeld, NoSave, NoSession
<1>12. CASE UNCHANGED vars
  BY <1>12 DEF Inv, SaveShape, vars, taskVars, listVars, obsoleteVars, names
<1>13. ASSUME NEW t \in Tasks, PauseUnloaded(t)
       PROVE  SaveShape'
  BY <1>13 DEF Inv, PauseUnloaded, TypeOK, SaveShape, listVars, obsoleteVars, names
<1> QED
  BY <1>0, <1>1, <1>2, <1>3, <1>4, <1>5, <1>6, <1>7, <1>8, <1>9, <1>10, <1>11, <1>12, <1>13
     DEF Next, SaveStep, ThreadStep, MakerStep

\* Nothing is remembered that was never created.
LEMMA NamesUsedKept ==
    ASSUME Inv, [Next]_vars
    PROVE  NamesUsed'
<1>1. CASE \/ ManagerFlushThrows
           \/ \E t \in Tasks :
                  \/ Changes(t) \/ ThreadStores(t) \/ CreateFails(t) \/ SkipsTask(t)
                  \/ StoresTask(t) \/ SaveResets(t) \/ TaskStoreThrows(t)
  BY <1>1, ThrowsEffect, ChangesEffect, StoresEffect, ResetsEffect
     DEF Inv, NamesUsed, CreateFails, SkipsTask, ManagerFlushThrows, listVars,
         obsoleteVars, names
<1>2. ASSUME NEW t \in Tasks, ThreadFlushes(t)
      PROVE  NamesUsed'
  BY <1>2, FlushedEffect, NotFlushedEffect
     DEF Inv, NamesUsed, ThreadFlushes, listVars, obsoleteVars, names, StorersLoaded
<1>3. ASSUME NEW t \in Tasks, CreateTask(t)
      PROVE  NamesUsed'
  BY <1>3 DEF Inv, NamesUsed, CreateTask, listVars, obsoleteVars
<1>4. ASSUME NEW t \in Tasks, MakerFlushes(t)
      PROVE  NamesUsed'
  BY <1>4, FlushedEffect, TasksAssumption
     DEF Inv, NamesUsed, MakerFlushes, listVars, obsoleteVars, names, NoTask, MakerShape
<1>5. ASSUME NEW t \in Tasks, Add(t)
      PROVE  NamesUsed'
  BY <1>5, TasksAssumption
     DEF Inv, TypeOK, NamesUsed, MakerShape, Add, NoTask, obsoleteVars, names
<1>6. CASE Autosave \/ Exit
  <2>1. PICK force \in BOOLEAN : StoreList(force)
    BY <1>6 DEF Autosave, Exit
  <2> QED
    BY <1>6, <2>1, StoreListEffect DEF Inv, TypeOK, NamesUsed, names, obsoleteVars
<1>7. ASSUME NEW t \in Tasks, FlushesTask(t)
      PROVE  NamesUsed'
  BY <1>7, FlushedEffect
     DEF Inv, NamesUsed, FlushesTask, TypeOK, listVars, obsoleteVars, Comes, names
<1>8. CASE StoreObsolete
  BY <1>8 DEF Inv, NamesUsed, StoreObsolete, TypeOK, listVars, names
<1>9. CASE FlushesManager
  <2>1. CASE Ends
    BY <1>9, <2>1, FlushesManagerEffect DEF Inv, NamesUsed, names, Ends, NoRows
  <2>2. CASE ~Ends
    BY <1>9, <2>2, FlushesManagerEffect
       DEF Inv, NamesUsed, names, NoRows, listVars, obsoleteVars
  <2> QED
    BY <2>1, <2>2
<1>10. ASSUME NEW t \in Tasks, RemoveTask(t)
       PROVE  NamesUsed'
  BY <1>10, RemoveTaskEffect DEF Inv, NamesUsed, obsoleteVars
<1>11. CASE Crash
  BY <1>11 DEF Inv, NamesUsed, Crash, NoRows, names, Ends
<1>12. CASE Load
  BY <1>12 DEF Inv, NamesUsed, Load, Loads, names
<1>13. CASE UNCHANGED vars
  BY <1>13 DEF Inv, NamesUsed, vars, taskVars, listVars, obsoleteVars, names
<1>14. ASSUME NEW t \in Tasks, PauseUnloaded(t)
       PROVE  NamesUsed'
  BY <1>14 DEF Inv, PauseUnloaded, TypeOK, NamesUsed, listVars, obsoleteVars, names
<1> QED
  BY <1>1, <1>2, <1>3, <1>4, <1>5, <1>6, <1>7, <1>8, <1>9, <1>10, <1>11, <1>12, <1>13, <1>14
     DEF Next, SaveStep, ThreadStep, MakerStep

\* A task that is being created is known to nobody else.
LEMMA MakerShapeKept ==
    ASSUME Inv, [Next]_vars
    PROVE  MakerShape'
<1>1. ASSUME NEW t \in Tasks, Changes(t)
      PROVE  MakerShape'
  <2>1. t \in listed /\ \A u \in Tasks \ {t} : obj'[u] = obj[u]
    BY <1>1, ChangesEffect DEF Inv, TypeOK
  <2> QED
    BY <1>1, <2>1, ChangesEffect DEF Inv, TypeOK, MakerShape, EventualContent, listVars, obsoleteVars, names
<1>2. ASSUME NEW t \in Tasks, ThreadStores(t) \/ StoresTask(t)
      PROVE  MakerShape'
  <2>1. t \in listed /\ \A u \in Tasks \ {t} : obj'[u] = obj[u] /\ storer'[u] = storer[u]
    BY <1>2, StoresEffect DEF Inv, TypeOK
  <2>2. storer'[t] # "maker"
    BY <1>2, StoresEffect DEF Inv, TypeOK
  <2> QED
    BY <1>2, <2>1, <2>2, StoresEffect DEF Inv, TypeOK, MakerShape, EventualContent, listVars, obsoleteVars, names
<1>3. ASSUME NEW t \in Tasks, ThreadFlushes(t)
      PROVE  MakerShape'
  <2>1. CASE Flushed(t)
    BY <1>3, <2>1, FlushedEffect
       DEF ThreadFlushes, Inv, TypeOK, MakerShape, EventualContent, names, listVars,
           obsoleteVars
  <2>2. CASE NotFlushed(t)
    BY <1>3, <2>2, NotFlushedEffect
       DEF ThreadFlushes, Inv, TypeOK, MakerShape, EventualContent, names, listVars,
           obsoleteVars
  <2> QED
    BY <1>3, <2>1, <2>2 DEF ThreadFlushes
<1>4. ASSUME NEW t \in Tasks, CreateTask(t)
      PROVE  MakerShape'
  BY <1>4, TasksAssumption, NewRow
     DEF Inv, MakerShape, CreateTask, TypeOK, EventualContent, NoTask, listVars,
         obsoleteVars, NoMaker, NamesUsed
<1>5. ASSUME NEW t \in Tasks, MakerFlushes(t)
      PROVE  MakerShape'
  BY <1>5, FlushedEffect
     DEF Inv, MakerShape, MakerFlushes, TypeOK, EventualContent, listVars, obsoleteVars,
         names
<1>6. ASSUME NEW t \in Tasks, CreateFails(t)
      PROVE  MakerShape'
  BY <1>6 DEF Inv, MakerShape, CreateFails, TypeOK, NoMaker
<1>7. ASSUME NEW t \in Tasks, Add(t)
      PROVE  MakerShape'
  BY <1>7, TasksAssumption
     DEF Inv, TypeOK, MakerShape, Add, NoMaker, NoTask, taskVars
<1>8. CASE Autosave \/ Exit
  BY <1>8
     DEF Inv, MakerShape, Autosave, Exit, EventualContent, StoreList, taskVars,
         obsoleteVars, names
<1>9. CASE \/ ManagerFlushThrows
           \/ \E t \in Tasks :
                  \/ SkipsTask(t)
  BY <1>9
     DEF Inv, MakerShape, SkipsTask, ManagerFlushThrows, EventualContent, taskVars,
         listVars, obsoleteVars, names
<1>10. ASSUME NEW t \in Tasks, SaveResets(t)
       PROVE  MakerShape'
  BY <1>10, ResetsEffect DEF Inv, TypeOK, MakerShape, EventualContent, listVars, obsoleteVars, names
<1>11. ASSUME NEW t \in Tasks, FlushesTask(t)
       PROVE  MakerShape'
  BY <1>11, FlushedEffect
     DEF Inv, MakerShape, FlushesTask, TypeOK, EventualContent, listVars, obsoleteVars,
         names
<1>12. ASSUME NEW t \in Tasks, TaskStoreThrows(t)
       PROVE  MakerShape'
    <3>1. t \in listed BY <1>12 DEF TaskStoreThrows, Comes, Inv, TypeOK
    <3> QED
      BY <1>12, <3>1, ThrowsEffect
         DEF Inv, TypeOK, MakerShape, EventualContent, names, listVars, obsoleteVars
<1>13. CASE StoreObsolete
  BY <1>13 DEF Inv, MakerShape, StoreObsolete, EventualContent, taskVars, listVars, names
<1>14. CASE FlushesManager
  <2>1. CASE Ends
    BY <1>14, <2>1, EndsKeeps, FlushesManagerEffect DEF Inv
  <2>2. CASE ~Ends
    BY <1>14, <2>2, FlushesManagerEffect
       DEF Inv, MakerShape, EventualContent, names, taskVars, listVars, obsoleteVars
  <2> QED
    BY <2>1, <2>2
<1>15. ASSUME NEW t \in Tasks, RemoveTask(t)
       PROVE  MakerShape'
BY <1>15, RemoveTaskEffect DEF Inv, TypeOK, MakerShape, EventualContent, obsoleteVars
<1>16. CASE Crash
  BY <1>16 DEF MakerShape, Crash, Ends, NoMaker
<1>17. CASE Load
  BY <1>17 DEF Inv, MakerShape, Load, NothingHeld, NoSession, NoMaker
<1>18. CASE UNCHANGED vars
  BY <1>18
     DEF Inv, MakerShape, EventualContent, vars, taskVars, listVars, obsoleteVars, names
<1>19. ASSUME NEW t \in Tasks, PauseUnloaded(t)
       PROVE  MakerShape'
  BY <1>19 DEF Inv, PauseUnloaded, TypeOK, MakerShape, listVars, obsoleteVars, names, EventualContent
<1> QED
  BY <1>1, <1>2, <1>3, <1>4, <1>5, <1>6, <1>7, <1>8, <1>9, <1>10, <1>11, <1>12, <1>13,
     <1>14, <1>15, <1>16, <1>17, <1>18, <1>19
     DEF Next, SaveStep, ThreadStep, MakerStep

\* Who stores a task stores one that was loaded.
LEMMA StorersLoadedKept ==
    ASSUME Inv, [Next]_vars
    PROVE  StorersLoaded'
<1>1. ASSUME NEW t \in Tasks, Changes(t)
      PROVE  StorersLoaded'
  BY <1>1, ChangesEffect DEF Inv, TypeOK, StorersLoaded, listVars
<1>2. ASSUME NEW t \in Tasks, ThreadStores(t) \/ StoresTask(t)
      PROVE  StorersLoaded'
  BY <1>2, StoresEffect DEF Inv, TypeOK, StorersLoaded, listVars
<1>3. ASSUME NEW t \in Tasks, ThreadFlushes(t)
      PROVE  StorersLoaded'
  <2>1. CASE Flushed(t)
    BY <1>3, <2>1, FlushedEffect DEF ThreadFlushes, Inv, TypeOK, StorersLoaded, listVars
  <2>2. CASE NotFlushed(t)
    BY <1>3, <2>2, NotFlushedEffect DEF ThreadFlushes, Inv, TypeOK, StorersLoaded, listVars
  <2> QED
    BY <1>3, <2>1, <2>2 DEF ThreadFlushes
<1>4. ASSUME NEW t \in Tasks, CreateTask(t)
      PROVE  StorersLoaded'
  BY <1>4 DEF Inv, StorersLoaded, CreateTask, TypeOK, listVars, NamesUsed
<1>5. ASSUME NEW t \in Tasks, MakerFlushes(t)
      PROVE  StorersLoaded'
BY <1>5, FlushedEffect DEF MakerFlushes, Inv, TypeOK, StorersLoaded, listVars
<1>6. ASSUME NEW t \in Tasks, CreateFails(t)
      PROVE  StorersLoaded'
  BY <1>6 DEF Inv, StorersLoaded, CreateFails, NoObject, listVars
<1>7. ASSUME NEW t \in Tasks, Add(t)
      PROVE  StorersLoaded'
  BY <1>7 DEF Inv, StorersLoaded, Add, taskVars
<1>8. CASE \/ Autosave \/ Exit \/ StoreObsolete \/ ManagerFlushThrows
           \/ \E t \in Tasks :
                  \/ SkipsTask(t)
  BY <1>8
     DEF Inv, StorersLoaded, Autosave, Exit, SkipsTask, StoreObsolete, ManagerFlushThrows,
         StoreList, taskVars, listVars
<1>9. ASSUME NEW t \in Tasks, SaveResets(t)
      PROVE  StorersLoaded'
  BY <1>9, ResetsEffect DEF Inv, TypeOK, StorersLoaded, listVars
<1>10. ASSUME NEW t \in Tasks, FlushesTask(t)
       PROVE  StorersLoaded'
  BY <1>10, FlushedEffect DEF Inv, StorersLoaded, FlushesTask, TypeOK, listVars
<1>11. ASSUME NEW t \in Tasks, TaskStoreThrows(t)
       PROVE  StorersLoaded'
BY <1>11, ThrowsEffect DEF Inv, TypeOK, StorersLoaded, listVars
<1>12. CASE FlushesManager
  <2>1. CASE Ends
    BY <1>12, <2>1, EndsKeeps, FlushesManagerEffect DEF Inv
  <2>2. CASE ~Ends
    BY <1>12, <2>2, FlushesManagerEffect DEF Inv, StorersLoaded, taskVars, listVars
  <2> QED
    BY <2>1, <2>2
<1>13. ASSUME NEW t \in Tasks, RemoveTask(t)
       PROVE  StorersLoaded'
  <2>1. /\ storer' = storer /\ storer[t] = "nobody" /\ listed' = listed \ {t}
      /\ unloaded' = unloaded \ {t} /\ loadError' = loadError \ {t}
      /\ \A u \in Tasks \ {t} : obj'[u] = obj[u]
    BY <1>13, RemoveTaskEffect DEF Inv
  <2> QED
    BY <1>13, <2>1 DEF Inv, TypeOK, StorersLoaded
<1>14. CASE Crash
  BY <1>14 DEF StorersLoaded, Crash, Ends
<1>15. CASE Load
  BY <1>15
     DEF Inv, StorersLoaded, Load, TypeOK, NoObject, Loads, NewObject, NothingHeld,
         NoSession, NamesUsed
<1>16. CASE UNCHANGED vars
  BY <1>16 DEF Inv, StorersLoaded, vars, taskVars, listVars, obsoleteVars, names
<1>17. ASSUME NEW t \in Tasks, PauseUnloaded(t)
       PROVE  StorersLoaded'
  BY <1>17 DEF Inv, PauseUnloaded, TypeOK, StorersLoaded, listVars, obsoleteVars, names
<1> QED
  BY <1>1, <1>2, <1>3, <1>4, <1>5, <1>6, <1>7, <1>8, <1>9, <1>10, <1>11, <1>12, <1>13,
     <1>14, <1>15, <1>16, <1>17
     DEF Next, SaveStep, ThreadStep, MakerStep

\* A flag that is reset too early is known to have been overtaken.
LEMMA MarkShapeKept ==
    ASSUME Inv, [Next]_vars
    PROVE  MarkShape'
<1>1. ASSUME NEW t \in Tasks, Changes(t)
      PROVE  MarkShape'
  <2>1. \A u \in Tasks \ {t} : obj'[u] = obj[u]
    BY <1>1, ChangesEffect DEF Inv, TypeOK
  <2> QED
    BY <1>1, <2>1, ChangesEffect DEF Inv, TypeOK, MarkShape
<1>2. ASSUME NEW t \in Tasks, ThreadStores(t) \/ StoresTask(t)
      PROVE  MarkShape'
  <2>1. /\ \A u \in Tasks \ {t} : obj'[u] = obj[u] /\ storer'[u] = storer[u]
        /\ \A u \in Tasks \ {t} : u \in overtaken' <=> u \in overtaken
        /\ t \notin gathering
    BY <1>2, StoresEffect DEF Inv, TypeOK, MarkShape
  <2>2. obj'[t].value = obj[t].value
    BY <1>2, StoresEffect, GatheredEffect DEF Inv, TypeOK
  <2>3. obj[t].change # "none" => obj'[t].row # "none"
    BY <1>2, StoresEffect, GatheredEffect DEF Inv, TypeOK
  <2> QED
    BY <1>2, <2>1, <2>2, <2>3, StoresEffect DEF Inv, TypeOK, MarkShape
<1>3. ASSUME NEW t \in Tasks, SaveResets(t)
      PROVE  MarkShape'
  BY <1>3, ResetsEffect DEF Inv, TypeOK, MarkShape
<1>4. ASSUME NEW t \in Tasks, ThreadFlushes(t) \/ MakerFlushes(t) \/ FlushesTask(t)
      PROVE  MarkShape'
  <2>1. /\ t \notin gathering /\ UNCHANGED <<loadVars, gathering, markVars>>
        /\ storer' = [storer EXCEPT ![t] = "nobody"]
    BY <1>4 DEF ThreadFlushes, MakerFlushes, FlushesTask, Flushed, NotFlushed
  <2>2. /\ \A u \in Tasks \ {t} : obj'[u] = obj[u]
        /\ obj'[t].value = obj[t].value /\ obj'[t].change = obj[t].change
    BY <1>4, FlushedEffect, NotFlushedEffect
       DEF ThreadFlushes, MakerFlushes, FlushesTask, Inv, TypeOK
  <2> QED
    BY <2>1, <2>2 DEF Inv, TypeOK, MarkShape
<1>5. ASSUME NEW t \in Tasks, CreateTask(t) \/ CreateFails(t)
      PROVE  MarkShape'
  <2>1. t \notin listed
    BY <1>5, TasksAssumption
       DEF CreateTask, CreateFails, Inv, NamesUsed, MakerShape, NoTask, TypeOK
  <2>2. /\ UNCHANGED <<loadVars, gathering, markVars>>
        /\ \A u \in Tasks \ {t} : obj'[u] = obj[u] /\ storer'[u] = storer[u]
    BY <1>5 DEF CreateTask, CreateFails, Inv, TypeOK
  <2> QED
    BY <2>1, <2>2 DEF Inv, TypeOK, MarkShape
<1>6. CASE \/ Autosave \/ Exit \/ StoreObsolete \/ ManagerFlushThrows
           \/ \E t \in Tasks : Add(t) \/ SkipsTask(t)
  BY <1>6
     DEF Inv, MarkShape, Autosave, Exit, StoreObsolete, ManagerFlushThrows, Add, SkipsTask,
         StoreList, taskVars
<1>7. ASSUME NEW t \in Tasks, TaskStoreThrows(t)
      PROVE  MarkShape'
  <2>1. \/ UNCHANGED taskVars
        \/ t \notin gathering /\ UNCHANGED <<loadVars, gathering, markVars>>
    BY <1>7 DEF TaskStoreThrows, NotFlushed
  <2> QED
    BY <1>7, <2>1, ThrowsEffect DEF Inv, TypeOK, MarkShape, taskVars
<1>8. CASE FlushesManager
  <2>1. CASE Ends
    BY <2>1 DEF Ends, MarkShape
  <2>2. CASE ~Ends
    BY <1>8, <2>2, FlushesManagerEffect DEF Inv, MarkShape, taskVars
  <2> QED
    BY <2>1, <2>2
<1>9. ASSUME NEW t \in Tasks, RemoveTask(t)
      PROVE  MarkShape'
  <2>1. t \notin gathering
    BY <1>9, RemoveTaskEffect DEF Inv, MarkShape
  <2>2. /\ t \notin marking /\ overtaken' = overtaken \ {t} /\ loadError' = loadError \ {t}
        /\ UNCHANGED <<storer, gathering, marking>>
        /\ \A u \in Tasks \ {t} : obj'[u] = obj[u]
    BY <1>9, RemoveTaskEffect DEF Inv
  <2> QED
    BY <2>1, <2>2 DEF Inv, TypeOK, MarkShape
<1>10. ASSUME NEW t \in Tasks, PauseUnloaded(t)
       PROVE  MarkShape'
  <2>1. /\ UNCHANGED <<storer, gathering, markVars>> /\ loadError' = loadError \ {t}
        /\ t \notin marking
        /\ \A u \in Tasks \ {t} : obj'[u] = obj[u]
        /\ obj'[t].row = obj[t].row
    BY <1>10 DEF PauseUnloaded, Inv, TypeOK, MarkShape, Objects
  <2> QED
    BY <2>1 DEF Inv, TypeOK, MarkShape
<1>11. CASE Crash
  BY <1>11 DEF Crash, Ends, MarkShape
<1>12. CASE Load
  BY <1>12 DEF Load, Inv, NothingHeld, NoSession, MarkShape
<1>13. CASE UNCHANGED vars
  BY <1>13 DEF Inv, MarkShape, vars, taskVars
<1> QED
  BY <1>1, <1>2, <1>3, <1>4, <1>5, <1>6, <1>7, <1>8, <1>9, <1>10, <1>11, <1>12, <1>13
     DEF Next, SaveStep, ThreadStep, MakerStep

\* No change of a task gets lost between its object and the disk.
LEMMA ContentOnItsWayKept ==
    ASSUME Inv, [Next]_vars
    PROVE  ContentOnItsWay'
<1>1. ASSUME NEW t \in Tasks, Changes(t)
      PROVE  ContentOnItsWay'
  <2>1. \A u \in Tasks \ {t} : obj'[u] = obj[u]
    BY <1>1, ChangesEffect DEF Inv, TypeOK
  <2>2. t \in listed \ unloaded => obj'[t].change # "added"
    BY <1>1, ChangesEffect DEF Inv, ContentOnItsWay
  <2> QED
    BY <1>1, <2>1, <2>2, ChangesEffect DEF Inv, TypeOK, ContentOnItsWay, EventualContent, listVars
<1>2. ASSUME NEW t \in Tasks, ThreadStores(t) \/ StoresTask(t)
      PROVE  ContentOnItsWay'
  <2>1. \A u \in Tasks \ {t} : obj'[u] = obj[u] /\ (u \in overtaken' <=> u \in overtaken)
    BY <1>2, StoresEffect DEF Inv, TypeOK
  <2>2. ASSUME t \notin unloaded
        PROVE  /\ obj'[t].change # "added"
               /\ obj'[t].change = "none" /\ t \notin overtaken' =>
                      EventualContent(t)' = obj'[t].value
               /\ obj'[t].row = "insert" \/ disk.rows[t] # NoRow
    <3>1. /\ obj[t] \in Objects /\ t \in listed /\ disk' = disk
          /\ obj'[t] \in {Copied(obj[t]), Gathered(obj[t])}
      BY <1>2, StoresEffect DEF Inv, TypeOK
    <3>2. /\ obj[t].change # "added"
          /\ obj[t].change = "none" /\ t \notin overtaken => EventualContent(t) = obj[t].value
          /\ obj[t].row = "insert" \/ disk.rows[t] # NoRow
      BY <2>2, <3>1 DEF Inv, ContentOnItsWay
    <3>3. CASE obj[t].change = "none"
      <4>1. overtaken' = overtaken
        BY <1>2, <3>3, StoresEffect DEF Inv
      <4>2. /\ obj'[t].row = obj[t].row /\ obj'[t].sent = obj[t].sent
            /\ obj'[t].value = obj[t].value /\ obj'[t].change = "none"
        BY <3>1, <3>3, GatheredEffect
      <4> QED
        BY <3>1, <3>2, <3>3, <4>1, <4>2 DEF EventualContent
    <3>4. CASE obj[t].change # "none"
      <4>1. /\ obj'[t].sent = obj[t].value /\ obj'[t].value = obj[t].value
            /\ obj'[t].row = IF obj[t].row = "insert" THEN "insert" ELSE "update"
            /\ obj'[t].change \in {obj[t].change, "none"}
        BY <3>1, <3>2, <3>4, GatheredEffect
      <4> QED
        BY <3>1, <3>2, <4>1 DEF EventualContent
    <3> QED
      BY <3>3, <3>4
  <2> QED
    BY <1>2, <2>1, <2>2, StoresEffect DEF Inv, TypeOK, ContentOnItsWay, EventualContent, listVars
<1>3. ASSUME NEW t \in Tasks, ThreadFlushes(t)
      PROVE  ContentOnItsWay'
  BY <1>3, FlushedEffect, NotFlushedEffect
     DEF Inv, ContentOnItsWay, ThreadFlushes, TypeOK, EventualContent, listVars
<1>4. ASSUME NEW t \in Tasks, CreateTask(t)
      PROVE  ContentOnItsWay'
  <2>1. t \notin listed /\ \A u \in Tasks \ {t} : obj'[u] = obj[u]
    BY <1>4 DEF CreateTask, Inv, TypeOK, NamesUsed
  <2>2. disk'.rows = disk.rows
    BY <1>4 DEF CreateTask, Inv, TypeOK, Disks
  <2> QED
    BY <1>4, <2>1, <2>2 DEF Inv, TypeOK, ContentOnItsWay, CreateTask, EventualContent, listVars
<1>5. ASSUME NEW t \in Tasks, MakerFlushes(t)
      PROVE  ContentOnItsWay'
  BY <1>5, FlushedEffect
     DEF Inv, ContentOnItsWay, MakerFlushes, TypeOK, EventualContent, listVars
<1>6. ASSUME NEW t \in Tasks, CreateFails(t)
      PROVE  ContentOnItsWay'
  <2>1. t \notin listed
    BY <1>6, TasksAssumption DEF CreateFails, Inv, MakerShape, NoTask
  <2> QED
    BY <1>6, <2>1 DEF CreateFails, Inv, TypeOK, ContentOnItsWay, EventualContent, listVars
<1>7. ASSUME NEW t \in Tasks, Add(t)
      PROVE  ContentOnItsWay'
  <2>1. t # NoTask
    BY <1>7, TasksAssumption DEF NoTask
  <2> QED
    BY <1>7, <2>1
       DEF Add, Inv, TypeOK, MakerShape, ContentOnItsWay, EventualContent, taskVars
<1>8. CASE Autosave \/ Exit
  BY <1>8 DEF Inv, ContentOnItsWay, Autosave, Exit, EventualContent, StoreList, taskVars
<1>9. CASE \/ ManagerFlushThrows
           \/ \E t \in Tasks :
                  \/ SkipsTask(t) \/ TaskStoreThrows(t)
  BY <1>9, ThrowsEffect
     DEF Inv, ContentOnItsWay, SkipsTask, ManagerFlushThrows, taskVars, listVars,
         EventualContent
<1>10. ASSUME NEW t \in Tasks, SaveResets(t)
       PROVE  ContentOnItsWay'
  <2>1. obj[t].row # "none"
    BY <1>10, ResetsEffect DEF Inv, MarkShape
  <2> QED
    BY <1>10, <2>1, ResetsEffect DEF Inv, TypeOK, ContentOnItsWay, EventualContent, listVars
<1>11. ASSUME NEW t \in Tasks, FlushesTask(t)
       PROVE  ContentOnItsWay'
  BY <1>11, FlushedEffect
     DEF Inv, ContentOnItsWay, FlushesTask, TypeOK, EventualContent, listVars
<1>12. CASE StoreObsolete
  BY <1>12 DEF Inv, ContentOnItsWay, StoreObsolete, EventualContent, taskVars, listVars
<1>13. CASE FlushesManager
  <2>1. CASE Ends
    BY <1>13, <2>1, EndsKeeps, FlushesManagerEffect DEF Inv
  <2>2. CASE ~Ends
    BY <1>13, <2>2, FlushesManagerEffect
       DEF Inv, ContentOnItsWay, EventualContent, taskVars, listVars
  <2> QED
    BY <2>1, <2>2
<1>14. ASSUME NEW t \in Tasks, RemoveTask(t)
       PROVE  ContentOnItsWay'
BY <1>14, RemoveTaskEffect DEF Inv, TypeOK, ContentOnItsWay, EventualContent
<1>15. CASE Crash
  BY <1>15 DEF ContentOnItsWay, Crash, Ends
<1>16. CASE Load
  BY <1>16
     DEF Inv, ContentOnItsWay, Load, TypeOK, EventualContent, NoObject, Loads, NamesUsed
<1>17. CASE UNCHANGED vars
  BY <1>17
     DEF Inv, ContentOnItsWay, EventualContent, vars, taskVars, listVars, obsoleteVars,
         names
<1>18. ASSUME NEW t \in Tasks, PauseUnloaded(t)
       PROVE  ContentOnItsWay'
  BY <1>18 DEF Inv, PauseUnloaded, TypeOK, ContentOnItsWay, listVars, obsoleteVars, names, EventualContent
<1> QED
  BY <1>1, <1>2, <1>3, <1>4, <1>5, <1>6, <1>7, <1>8, <1>9, <1>10, <1>11, <1>12, <1>13,
     <1>14, <1>15, <1>16, <1>17, <1>18
     DEF Next, SaveStep, ThreadStep, MakerStep

\* No entry gets lost between the list and the disk.
LEMMA EntriesOnTheirWayKept ==
    ASSUME Inv, [Next]_vars
    PROVE  EntriesOnTheirWay'
<1>1. CASE \/ ManagerFlushThrows
           \/ \E t \in Tasks :
                  \/ Changes(t) \/ ThreadStores(t) \/ CreateFails(t) \/ SkipsTask(t)
                  \/ StoresTask(t) \/ SaveResets(t) \/ TaskStoreThrows(t)
  <2>1. UNCHANGED <<on, disk, listVars, obsoleteVars, rows>>
    BY <1>1, ThrowsEffect, ChangesEffect, StoresEffect, ResetsEffect
       DEF Inv, CreateFails, SkipsTask, ManagerFlushThrows
  <2> QED
    BY <1>1, <2>1 DEF Inv, EntriesOnTheirWay, listVars, obsoleteVars
<1>2. ASSUME NEW t \in Tasks, ThreadFlushes(t)
      PROVE  EntriesOnTheirWay'
  BY <1>2, FlushedEffect, NotFlushedEffect
     DEF Inv, EntriesOnTheirWay, ThreadFlushes, listVars, obsoleteVars
<1>3. ASSUME NEW t \in Tasks, CreateTask(t)
      PROVE  EntriesOnTheirWay'
  BY <1>3 DEF Inv, EntriesOnTheirWay, CreateTask, listVars, obsoleteVars
<1>4. ASSUME NEW t \in Tasks, MakerFlushes(t)
      PROVE  EntriesOnTheirWay'
  BY <1>4, FlushedEffect DEF Inv, EntriesOnTheirWay, MakerFlushes, listVars, obsoleteVars
<1>5. ASSUME NEW t \in Tasks, Add(t)
      PROVE  EntriesOnTheirWay'
  BY <1>5, TasksAssumption DEF Inv, EntriesOnTheirWay, Add, NoTask, obsoleteVars, MakerShape
<1>6. CASE Autosave \/ Exit
  <2>1. PICK force \in BOOLEAN : StoreList(force)
    BY <1>6 DEF Autosave, Exit
  <2> QED
    BY <1>6, <2>1, StoreListEffect DEF Inv, EntriesOnTheirWay, obsoleteVars
<1>7. ASSUME NEW t \in Tasks, FlushesTask(t)
      PROVE  EntriesOnTheirWay'
  BY <1>7, FlushedEffect DEF Inv, EntriesOnTheirWay, FlushesTask, listVars, obsoleteVars
<1>8. CASE StoreObsolete
  BY <1>8 DEF Inv, EntriesOnTheirWay, StoreObsolete, listVars
<1>9. CASE FlushesManager
  <2>1. CASE Ends
    BY <1>9, <2>1, EndsKeeps, FlushesManagerEffect DEF Inv
  <2>2. CASE ~Ends
    <3>1. rows'.ins = {} /\ rows'.del = {} /\ rows'.obsIns = {} /\ rows'.obsDel = {}
      BY <1>9, <2>2, FlushesManagerEffect DEF Inv, NoRows
    <3> QED
      BY <1>9, <2>2, <3>1, FlushesManagerEffect
         DEF Inv, EntriesOnTheirWay, listVars, obsoleteVars
  <2> QED
    BY <2>1, <2>2
<1>10. ASSUME NEW t \in Tasks, RemoveTask(t)
       PROVE  EntriesOnTheirWay'
  <2>1. rows' = rows /\ disk'.list = disk.list /\ disk'.obsolete = disk.obsolete /\ on' = on
    BY <1>10, RemoveTaskEffect DEF Inv
  <2>2. /\ listed' = listed \ {t} /\ newEntries' = newEntries \ {t}
        /\ goneEntries' = goneEntries \cup {t}
    BY <1>10, RemoveTaskEffect DEF Inv
  <2>3. \/ UNCHANGED obsoleteVars
        \/ /\ obsolete' = obsolete \cup {t} /\ newObsolete' = newObsolete \cup {t}
           /\ goneObsolete' = goneObsolete
    BY <1>10, RemoveTaskEffect DEF Inv
  <2> QED
    BY <1>10, <2>1, <2>2, <2>3 DEF Inv, EntriesOnTheirWay, obsoleteVars
<1>11. CASE Crash
  BY <1>11 DEF EntriesOnTheirWay, Crash, Ends
<1>12. CASE Load
  BY <1>12
     DEF Inv, EntriesOnTheirWay, Load, Loads, NothingHeld, NoRows, NoSession,
         ObsoleteNotListed
<1>13. CASE UNCHANGED vars
  BY <1>13 DEF Inv, EntriesOnTheirWay, vars, taskVars, listVars, obsoleteVars, names
<1>14. ASSUME NEW t \in Tasks, PauseUnloaded(t)
       PROVE  EntriesOnTheirWay'
  BY <1>14 DEF Inv, PauseUnloaded, TypeOK, EntriesOnTheirWay, listVars, obsoleteVars, names
<1> QED
  BY <1>1, <1>2, <1>3, <1>4, <1>5, <1>6, <1>7, <1>8, <1>9, <1>10, <1>11, <1>12, <1>13, <1>14
     DEF Next, SaveStep, ThreadStep, MakerStep

\* A store that begins makes of what is flagged a row that can be written.
LEMMA StoresAcceptable ==
    ASSUME Inv, NEW t \in Tasks, ThreadStores(t) \/ StoresTask(t)
    PROVE  StoresCanSucceed'
<1>1. /\ obj[t] \in Objects /\ t \in listed /\ disk' = disk /\ unloaded' = unloaded
      /\ obj'[t] \in {Copied(obj[t]), Gathered(obj[t])}
      /\ \A u \in Tasks \ {t} : obj'[u] = obj[u]
  BY StoresEffect DEF Inv, TypeOK
<1>2. \A u \in Tasks \ unloaded : Acceptable(u)
  BY DEF Inv, StoresCanSucceed
<1>3. ASSUME t \notin unloaded
      PROVE  Acceptable(t)'
  <2>1. Acceptable(t) /\ obj[t].change # "added"
    BY <1>1, <1>2, <1>3 DEF Inv, ContentOnItsWay
  <2>2. obj[t].row = "insert" \/ disk.rows[t] # NoRow
    BY <1>1, <1>3 DEF Inv, ContentOnItsWay
  <2> QED
    BY <1>1, <2>1, <2>2, GatheredEffect DEF Acceptable
<1> QED
  BY <1>1, <1>2, <1>3 DEF Acceptable, StoresCanSucceed

\* No pending row is refused for ever.
LEMMA StoresCanSucceedKept ==
    ASSUME Inv, [Next]_vars
    PROVE  StoresCanSucceed'
<1>1. ASSUME NEW t \in Tasks, Changes(t)
      PROVE  StoresCanSucceed'
  BY <1>1, ChangesEffect DEF Inv, TypeOK, StoresCanSucceed, Acceptable
<1>2. ASSUME NEW t \in Tasks, ThreadStores(t) \/ StoresTask(t)
      PROVE  StoresCanSucceed'
  BY <1>2, StoresAcceptable
<1>3. ASSUME NEW t \in Tasks, ThreadFlushes(t)
      PROVE  StoresCanSucceed'
  BY <1>3, FlushedEffect, NotFlushedEffect
     DEF Inv, StoresCanSucceed, ThreadFlushes, Acceptable
<1>4. ASSUME NEW t \in Tasks, CreateTask(t)
      PROVE  StoresCanSucceed'
  <2>1. \A u \in Tasks \ {t} : obj'[u] = obj[u]
    BY <1>4 DEF CreateTask, Inv, TypeOK
  <2>2. disk'.rows = disk.rows /\ disk.rows[t] = NoRow
    BY <1>4 DEF CreateTask, Inv, TypeOK, Disks, NamesUsed
  <2>3. obj'[t].row = "insert"
    BY <1>4, NewRow DEF CreateTask, Inv, TypeOK
  <2> QED
    BY <1>4, <2>1, <2>2, <2>3 DEF Inv, StoresCanSucceed, CreateTask, Acceptable
<1>5. ASSUME NEW t \in Tasks, MakerFlushes(t)
      PROVE  StoresCanSucceed'
  BY <1>5, FlushedEffect DEF Inv, StoresCanSucceed, MakerFlushes, Acceptable
<1>6. ASSUME NEW t \in Tasks, CreateFails(t)
      PROVE  StoresCanSucceed'
  BY <1>6 DEF Inv, StoresCanSucceed, CreateFails, Acceptable, NoObject
<1>7. CASE \/ ManagerFlushThrows
           \/ \E t \in Tasks :
                  \/ Add(t) \/ SkipsTask(t) \/ TaskStoreThrows(t)
  BY <1>7, ThrowsEffect
     DEF Inv, StoresCanSucceed, Add, SkipsTask, ManagerFlushThrows, taskVars, Acceptable
<1>8. CASE Autosave \/ Exit
  BY <1>8 DEF Inv, StoresCanSucceed, Autosave, Exit, Acceptable, StoreList, taskVars
<1>9. ASSUME NEW t \in Tasks, SaveResets(t)
      PROVE  StoresCanSucceed'
  BY <1>9, ResetsEffect DEF Inv, StoresCanSucceed, Acceptable
<1>10. ASSUME NEW t \in Tasks, FlushesTask(t)
       PROVE  StoresCanSucceed'
  BY <1>10, FlushedEffect DEF Inv, StoresCanSucceed, FlushesTask, Acceptable
<1>11. CASE StoreObsolete
  BY <1>11 DEF Inv, StoresCanSucceed, StoreObsolete, Acceptable, taskVars
<1>12. CASE FlushesManager
  <2>1. CASE Ends
    BY <1>12, <2>1, EndsKeeps, FlushesManagerEffect DEF Inv
  <2>2. CASE ~Ends
    BY <1>12, <2>2, FlushesManagerEffect DEF Inv, StoresCanSucceed, Acceptable, taskVars
  <2> QED
    BY <2>1, <2>2
<1>13. ASSUME NEW t \in Tasks, RemoveTask(t)
       PROVE  StoresCanSucceed'
  <2>1. /\ obj'[t].row = "none" /\ unloaded' = unloaded \ {t}
        /\ \A u \in Tasks \ {t} : disk'.rows[u] = disk.rows[u] /\ obj'[u] = obj[u]
    BY <1>13, RemoveTaskEffect DEF Inv, NoObject
  <2> QED
    BY <1>13, <2>1 DEF Inv, StoresCanSucceed, Acceptable
<1>14. CASE Crash
  BY <1>14 DEF StoresCanSucceed, Crash, Acceptable, NoObject, Ends
<1>15. CASE Load
  BY <1>15 DEF StoresCanSucceed, Load, Acceptable, NoObject, Loads, NewObject
<1>16. CASE UNCHANGED vars
  BY <1>16
     DEF Inv, StoresCanSucceed, Acceptable, vars, taskVars, listVars, obsoleteVars, names
<1>17. ASSUME NEW t \in Tasks, PauseUnloaded(t)
       PROVE  StoresCanSucceed'
  BY <1>17 DEF Inv, PauseUnloaded, TypeOK, StoresCanSucceed, listVars, obsoleteVars, names, Acceptable
<1> QED
  BY <1>1, <1>2, <1>3, <1>4, <1>5, <1>6, <1>7, <1>8, <1>9, <1>10, <1>11, <1>12, <1>13,
     <1>14, <1>15, <1>16, <1>17
     DEF Next, SaveStep, ThreadStep, MakerStep

\* A task gets into the list after its database.
LEMMA CommittedFirstKept ==
    ASSUME Inv, [Next]_vars
    PROVE  CommittedFirst'
<1>1. CASE \/ ManagerFlushThrows
           \/ \E t \in Tasks :
                  \/ Changes(t) \/ ThreadStores(t) \/ CreateFails(t) \/ SkipsTask(t)
                  \/ StoresTask(t) \/ SaveResets(t) \/ TaskStoreThrows(t)
  BY <1>1, ThrowsEffect, ChangesEffect, StoresEffect, ResetsEffect
     DEF Inv, CommittedFirst, CreateFails, SkipsTask, ManagerFlushThrows, listVars, names
<1>2. ASSUME NEW t \in Tasks, ThreadFlushes(t)
      PROVE  CommittedFirst'
  <2>1. CASE Flushed(t)
    BY <1>2, <2>1, FlushedEffect
       DEF ThreadFlushes, Inv, TypeOK, NamesUsed, CommittedFirst, names, listVars
  <2>2. CASE NotFlushed(t)
    BY <1>2, <2>2, NotFlushedEffect DEF ThreadFlushes, Inv, CommittedFirst, names, listVars
  <2> QED
    BY <1>2, <2>1, <2>2 DEF ThreadFlushes
<1>3. ASSUME NEW t \in Tasks, CreateTask(t)
      PROVE  CommittedFirst'
  BY <1>3 DEF Inv, CommittedFirst, CreateTask, listVars
<1>4. ASSUME NEW t \in Tasks, MakerFlushes(t)
      PROVE  CommittedFirst'
  <2>1. Flushed(t)
    BY <1>4 DEF MakerFlushes
  <2> QED
    BY <1>4, <2>1, FlushedEffect
       DEF MakerFlushes, Inv, TypeOK, NamesUsed, CommittedFirst, names, listVars
<1>5. ASSUME NEW t \in Tasks, Add(t)
      PROVE  CommittedFirst'
  BY <1>5, TasksAssumption DEF Inv, CommittedFirst, Add, NoTask, names, MakerShape
<1>6. CASE Autosave \/ Exit
  <2>1. PICK force \in BOOLEAN : StoreList(force)
    BY <1>6 DEF Autosave, Exit
  <2> QED
    BY <1>6, <2>1, StoreListEffect DEF Inv, CommittedFirst, names
<1>7. ASSUME NEW t \in Tasks, FlushesTask(t)
      PROVE  CommittedFirst'
  BY <1>7, FlushedEffect
     DEF Inv, CommittedFirst, FlushesTask, TypeOK, listVars, names, NamesUsed
<1>8. CASE StoreObsolete
  BY <1>8 DEF Inv, CommittedFirst, StoreObsolete, listVars, names
<1>9. CASE FlushesManager
  <2>1. CASE Ends
    BY <1>9, <2>1, FlushesManagerEffect DEF Inv, CommittedFirst, Ends, NoRows, names
  <2>2. CASE ~Ends
    BY <1>9, <2>2, FlushesManagerEffect DEF Inv, CommittedFirst, NoRows, listVars, names
  <2> QED
    BY <2>1, <2>2
<1>10. ASSUME NEW t \in Tasks, RemoveTask(t)
       PROVE  CommittedFirst'
  <2>1. /\ disk'.list = disk.list /\ rows' = rows /\ newEntries' = newEntries \ {t}
      /\ disk'.files \in {disk.files, disk.files \ {t}} /\ dropped' = dropped \cup {t}
      /\ \A u \in Tasks \ {t} : disk'.rows[u] = disk.rows[u]
    BY <1>10, RemoveTaskEffect DEF Inv
  <2> QED
    BY <1>10, <2>1 DEF Inv, CommittedFirst, NamesUsed, TypeOK
<1>11. CASE Crash
  BY <1>11 DEF Inv, CommittedFirst, Crash, NoRows, names, Ends
<1>12. CASE Load
  BY <1>12
     DEF Inv, CommittedFirst, Load, TypeOK, Loads, names, NothingHeld, NoRows, NoSession,
         NamesUsed, ObsoleteNotListed
<1>13. CASE UNCHANGED vars
  BY <1>13 DEF Inv, CommittedFirst, vars, taskVars, listVars, obsoleteVars, names
<1>14. ASSUME NEW t \in Tasks, PauseUnloaded(t)
       PROVE  CommittedFirst'
  BY <1>14 DEF Inv, PauseUnloaded, TypeOK, CommittedFirst, listVars, obsoleteVars, names
<1> QED
  BY <1>1, <1>2, <1>3, <1>4, <1>5, <1>6, <1>7, <1>8, <1>9, <1>10, <1>11, <1>12, <1>13, <1>14
     DEF Next, SaveStep, ThreadStep, MakerStep

\* A file is to be deleted, or listed.
LEMMA ObsoleteNotListedKept ==
    ASSUME Inv, [Next]_vars
    PROVE  ObsoleteNotListed'
<1>1. CASE \/ Autosave \/ Exit \/ StoreObsolete \/ ManagerFlushThrows
           \/ \E t \in Tasks :
                  \/ Changes(t) \/ ThreadStores(t) \/ CreateFails(t) \/ Add(t)
                  \/ SkipsTask(t) \/ StoresTask(t) \/ SaveResets(t) \/ TaskStoreThrows(t)
  BY <1>1, ThrowsEffect, ChangesEffect, StoresEffect, ResetsEffect
     DEF Inv, ObsoleteNotListed, CreateFails, Add, Autosave, Exit, SkipsTask,
         StoreObsolete, ManagerFlushThrows, StoreList
<1>2. ASSUME NEW t \in Tasks, ThreadFlushes(t)
      PROVE  ObsoleteNotListed'
  BY <1>2, FlushedEffect, NotFlushedEffect DEF Inv, ObsoleteNotListed, ThreadFlushes
<1>3. ASSUME NEW t \in Tasks, CreateTask(t)
      PROVE  ObsoleteNotListed'
  BY <1>3 DEF Inv, ObsoleteNotListed, CreateTask
<1>4. ASSUME NEW t \in Tasks, MakerFlushes(t)
      PROVE  ObsoleteNotListed'
  BY <1>4, FlushedEffect DEF Inv, ObsoleteNotListed, MakerFlushes
<1>5. ASSUME NEW t \in Tasks, FlushesTask(t)
      PROVE  ObsoleteNotListed'
  BY <1>5, FlushedEffect DEF Inv, ObsoleteNotListed, FlushesTask
<1>6. CASE FlushesManager
  <2>1. save.at = "flush" /\ on
    BY <1>6, FlushesManagerEffect DEF Inv, NothingHeld, NoSession, NoSave
  <2>2. disk'.list \subseteq listed /\ disk'.obsolete \subseteq obsolete
    BY <1>6, <2>1, FlushesManagerEffect DEF Inv, SaveShape, EntriesOnTheirWay
  <2> QED
    BY <1>6, <2>1, <2>2 DEF Inv, EntriesOnTheirWay, ObsoleteNotListed
<1>7. ASSUME NEW t \in Tasks, RemoveTask(t)
      PROVE  ObsoleteNotListed'
  BY <1>7, RemoveTaskEffect DEF Inv, ObsoleteNotListed
<1>8. CASE Crash
  BY <1>8 DEF Inv, ObsoleteNotListed, Crash
<1>9. CASE Load
  BY <1>9 DEF Inv, ObsoleteNotListed, Load, Loads
<1>10. CASE UNCHANGED vars
  BY <1>10 DEF Inv, ObsoleteNotListed, vars, taskVars, listVars, obsoleteVars, names
<1>11. ASSUME NEW t \in Tasks, PauseUnloaded(t)
       PROVE  ObsoleteNotListed'
  BY <1>11 DEF Inv, PauseUnloaded, TypeOK, ObsoleteNotListed, listVars, obsoleteVars, names
<1> QED
  BY <1>1, <1>2, <1>3, <1>4, <1>5, <1>6, <1>7, <1>8, <1>9, <1>10, <1>11
     DEF Next, SaveStep, ThreadStep, MakerStep

LEMMA InvKept ==
    ASSUME Inv, [Next]_vars
    PROVE  Inv'
<1>1. TypeOK'
  BY TypeStep DEF Inv
<1> QED
  BY <1>1, NothingHeldKept, SaveShapeKept, NamesUsedKept, MakerShapeKept,
     StorersLoadedKept, MarkShapeKept, ContentOnItsWayKept, EntriesOnTheirWayKept,
     StoresCanSucceedKept, CommittedFirstKept, ObsoleteNotListedKept DEF Inv

-----------------------------------------------------------------------------
(* The theorems *)

LEMMA InvAtFirst == Init => Inv
<1> SUFFICES ASSUME Init
             PROVE  Inv
  OBVIOUS
<1>1. TypeOK
  <2>1. disk \in Disks
    BY DiskFields DEF Init
  <2>2. obj \in [Tasks -> Objects] /\ rows \in Rows
    BY ObjectsTyped, RowFields DEF Init, NoSession, NoRows
  <2>3. /\ save \in [at : {"idle", "tasks", "flush"}, todo : SUBSET listed, force : BOOLEAN]
        /\ maker \in [task : Tasks \cup {NoTask}, by : {"nobody", "monitor", "user"}]
        /\ storer \in [Tasks -> {"nobody", "thread", "user", "maker"}]
    BY DEF Init, NoSession, NoSave, NoMaker
  <2> QED
    BY <2>1, <2>2, <2>3, BoundsAssumption DEF Init, NoSession, TypeOK
<1>2. NothingHeld /\ SaveShape /\ MakerShape
  BY DEF Init, NoSession, NoSave, NoMaker, NothingHeld, SaveShape, MakerShape
<1>3. NamesUsed /\ CommittedFirst /\ ObsoleteNotListed
  BY DEF Init, NoSession, NoRows, NoRow, NamesUsed, CommittedFirst, ObsoleteNotListed
<1>4. StorersLoaded /\ MarkShape /\ ContentOnItsWay /\ EntriesOnTheirWay
  BY DEF Init, NoSession, NoRows, StorersLoaded, MarkShape, ContentOnItsWay,
         EntriesOnTheirWay
<1>5. StoresCanSucceed
  BY DEF Init, NoSession, NoObject, StoresCanSucceed, Acceptable
<1> QED
  BY <1>1, <1>2, <1>3, <1>4, <1>5 DEF Inv

\* The invariant above holds in every reachable state of Spec.
THEOREM InvInvariant ==
    Spec => []Inv
<1>1. Inv /\ [Next]_vars => Inv'
  BY InvKept
<1> QED
  BY <1>1, InvAtFirst, PTL DEF Spec

\* Type correctness, for any number of tasks, failures and sessions.
THEOREM TypeCorrect ==
    Spec => []TypeOK
<1>1. Inv => TypeOK
  BY DEF Inv
<1> QED
  BY <1>1, InvInvariant, PTL

\* Between the objects of TTaskManager and TTask and the databases nothing is
\* forgotten: what is not on the disk is flagged or is a pending row, whichever
\* flushes of TSQLiteSerializer have failed - unless TFileInfo::Store reset the flag
\* of a mark that TFileInfo::MarkAsProcessed had not written when it was copied.
THEOREM NothingIsForgotten ==
    Spec => []NothingForgotten
<1>1. Inv => NothingForgotten
  BY DEF Inv, ContentOnItsWay, EntriesOnTheirWay, NothingForgotten
<1> QED
  BY <1>1, InvInvariant, PTL

\* No pending row of a task's serializer is one that every later flush would refuse.
THEOREM LaterStoresCanSucceed ==
    Spec => []StoresCanSucceed
<1>1. Inv => StoresCanSucceed
  BY DEF Inv
<1> QED
  BY <1>1, InvInvariant, PTL

\* A crash at any moment: what the disk lists was committed to a database of its own
\* before (TTaskManager::CreateTask stores the task before it adds it).
THEOREM ListedTasksCanBeLoaded ==
    Spec => []ListedTaskCanBeLoaded
<1>1. Inv => ListedTaskCanBeLoaded
  BY DEF Inv, CommittedFirst, ListedTaskCanBeLoaded
<1> QED
  BY <1>1, InvInvariant, PTL

\* No session deletes the database of a task that it then loads: entries and obsolete
\* files change places in one transaction of TTaskManager::Store.
THEOREM ListedFilesAreNotDeleted ==
    Spec => []ObsoleteNotListed
<1>1. Inv => ObsoleteNotListed
  BY DEF Inv
<1> QED
  BY <1>1, InvInvariant, PTL

\* TTask::Store leaves tasks alone that show the load error, so long as nobody pauses
\* them.
THEOREM UnloadedTasksAreNotStored ==
    Spec => []UnloadedNotStored
<1>1. ASSUME Inv, NEW t \in loadError
      PROVE  storer[t] = "nobody" /\ obj[t].row = "none"
  <2>1. t \in listed /\ t \in Tasks /\ t # NoTask
    BY <1>1, TasksAssumption DEF Inv, TypeOK, NoTask
  <2>2. storer[t] # "maker"
    BY <1>1, <2>1 DEF Inv, MakerShape
  <2>3. storer[t] \notin {"thread", "user"}
    BY <1>1, <2>1 DEF Inv, StorersLoaded
  <2> QED
    BY <1>1, <2>1, <2>2, <2>3 DEF Inv, TypeOK, StorersLoaded
<1>2. Inv => UnloadedNotStored
  BY <1>1 DEF UnloadedNotStored
<1> QED
  BY <1>2, InvInvariant, PTL
================================================================================
