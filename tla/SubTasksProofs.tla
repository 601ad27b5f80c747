----------------------------- MODULE SubTasksProofs -----------------------------
(***************************************************************************)
(* Proofs about SubTasks, for any files, sizes, paths and plan and any     *)
(* number of kills, saves, skips and stops: the types; and, as long as no  *)
(* stop lands right after a file was passed over, and the process does not *)
(* die, or dies once while nothing is saved behind the back of the thread, *)
(* that no file is lost, that no file of the user's is changed unasked,    *)
(* and that a task that finishes has copied everything.                    *)
(***************************************************************************)
EXTENDS SubTasks, FiniteSetTheorems, TLAPS

-----------------------------------------------------------------------------
(* The sessions the proofs are about.  Each restriction keeps a defect of   *)
(* the code out: a stop right after a file was passed over, a store that    *)
(* overlaps the thread, a second crash, a crash after a restart.            *)

Uninterrupted == ~StaleStops /\ MaxCrashes = 0

CrashingOnce ==
    ~StaleStops /\ ~SavesOverlap /\ MaxCrashes <= 1 /\ MaxRestarts = 0

-----------------------------------------------------------------------------
(* Types, and what they rest on *)

Chunks == {"data", "other", "zero"}

FilePlaces == {"Sizes", "Handled", "Open", "Write", "Copied", "Drop"}

CopyPlaces == FilePlaces \cup {"Copy"}

StatsType == [initialized : BOOLEAN, total : Nat, index : Nat, done : Nat,
              silent : BOOLEAN]

LeftType == [kill : Nat, crash : Nat, save : Nat, restart : Nat, skip : Nat,
             stop : Nat]

\* TypeOK, variable by variable, and what it rests on: positions start at one, also
\* those that were saved, and a file that is being written is open, and there.
Types ==
    /\ src \subseteq Files /\ dst \in [Files -> Contents]
    /\ list \in Seq(Files) /\ complete \in BOOLEAN
    /\ processed \subseteq Files /\ handled \subseteq Paths
    /\ sub \in Nat /\ deleteAt \in Nat /\ moveAt \in Nat
    /\ stats \in StatsType /\ stats.index # 0
    /\ state \in {"Open", "Finished", "Cancelled"}
    /\ saved \in Checkpoints /\ saved.stats.index # 0 /\ gathered \in Checkpoints
    /\ moving \in BOOLEAN /\ kill \in BOOLEAN
    /\ saving \in {"Idle", "Files", "Index", "Stats"}
    /\ pc \in {"None", "Execute", "End", "Next", "FastMove", "Moved", "Scan",
               "Delete"} \cup CopyPlaces
    /\ at \in Nat /\ first \in [done : Nat, silent : BOOLEAN]
    /\ left \in LeftType
    /\ pc = "Copy" => at # 0
    /\ pc = "Moved" => at \in Paths
    /\ pc \in FilePlaces => at \in DOMAIN list
    /\ pc = "Write" => dst[File] # NoFile

-----------------------------------------------------------------------------
(* What a position in the list of files, and a mark in it, stand for *)

IsPast(subTask, index) ==
    \A j \in DOMAIN Plan : Plan[j] = subTask => j < index

\* The sub-task the thread goes on with when it is stopped here.
Reached == IF pc = "Next" THEN sub + 1 ELSE sub

Found == [list |-> list, processed |-> processed]

IsData(content) ==
    /\ content # NoFile
    /\ \A p \in DOMAIN content : content[p] = "data"

\* What was written of a file before, by the length that was noted: either the
\* file will not be continued without a question, or it is right so far.
MarkFits(i, mark) ==
    mark.done # 0 =>
        /\ dst[i] # NoFile /\ Len(dst[i]) # 0
        /\ mark.silent /\ Len(dst[i]) = mark.done => IsData(dst[i])

\* Before a crash the note is exact.
MarkExact(i, mark) ==
    mark.done # 0 =>
        /\ mark.silent /\ IsData(dst[i])
        /\ Len(dst[i]) = mark.done /\ mark.done <= Size[i]

Fits(i, mark) == MarkFits(i, mark) /\ (left.crash # 0 => MarkExact(i, mark))

Arrived(i) == dst[i] = Whole(i) \/ i \in declined

Treated(i, marked) == i \in marked \/ i \in declined \/ i \notin src

\* Files in the list in front of a position need no more copying.
PassedTreated(files, position) ==
    \A p \in DOMAIN files.list :
        p < position => Treated(files.list[p], files.processed)

Listed(i, files) == \E p \in DOMAIN files.list : files.list[p] = i

AllListed(files, paths) ==
    \A i \in src : Listed(i, files) \/ i \in declined \/ PathOf[i] \in paths

HandledArrived(paths) == \A i \in Files : PathOf[i] \in paths => Arrived(i)

MarkedWhole(files, paths) ==
    \A i \in files.processed : dst[i] = Whole(i) \/ PathOf[i] \in paths

ListedOnce(files) ==
    /\ \A p, q \in DOMAIN files.list : files.list[p] = files.list[q] => p = q
    /\ files.list = <<>> => files.processed = {}

AllArrived == \A i \in Files : Arrived(i)

-----------------------------------------------------------------------------
(* The inductive invariant: the task in memory *)

Whereabouts ==
    /\ sub # 0 /\ saved.sub # 0 /\ gathered.sub # 0
    /\ pc \in {"FastMove", "Moved", "Scan", "Delete", "Next"} \cup CopyPlaces
          => sub \in DOMAIN Plan
    /\ pc \in {"FastMove", "Moved"} => Plan[sub] = "FastMove"
    /\ pc = "Scan" => Plan[sub] = "Scan"
    /\ pc \in CopyPlaces => Plan[sub] = "Copy"
    /\ pc = "Delete" => Plan[sub] = "Delete"

\* The list of files is there from the end of the scan on, and nothing was
\* copied before.
ListShape ==
    /\ IsPast("Scan", Reached) => complete \/ list = <<>>
    /\ complete => IsPast("Scan", Reached)
    /\ ~complete => processed = {}
    /\ stats.done # 0 => IsPast("Scan", Reached)
    /\ ~IsPast("Scan", Reached) => stats.index = 1
    /\ ListedOnce(Found)
    /\ pc = "Scan" => at # 0 /\ \A p \in DOMAIN list : PathOf[list[p]] < at

\* Where the statistics tell from where the next run continues, they fit the file
\* that it will meet first.
Pending == pc \notin CopyPlaces \/ (pc = "Copy" /\ at = stats.index)

MarkStands(files, mark) ==
    mark.done # 0 /\ mark.index \in DOMAIN files.list
        => /\ files.list[mark.index] \notin files.processed
           /\ MarkFits(files.list[mark.index], mark)

PendingMark ==
    Pending /\ stats.done # 0 /\ stats.index \in DOMAIN list
        => list[stats.index] \notin processed /\ Fits(list[stats.index], stats)

\* What Exec has kept of the statistics is for the first file that it copies.
FirstMark ==
    /\ pc = "Copy" => /\ at >= stats.index
                      /\ at = stats.index => first.done = stats.done
                                             /\ first.silent = stats.silent
                      /\ at # stats.index => first.done = 0
    /\ pc = "Sizes" => Fits(File, first)
    /\ pc = "Sizes" /\ first.done # 0 => first.silent = stats.silent
    /\ pc \in FilePlaces \ {"Sizes"} => first.done = 0

\* The file that is being copied.
CurrentFile ==
    /\ pc \in FilePlaces => at = stats.index
    /\ pc \in {"Sizes", "Open", "Write", "Copied"} => File \notin processed
    /\ pc = "Handled" => PathOf[File] \in handled
    /\ pc \in {"Open", "Write", "Copied", "Drop"} => PathOf[File] \notin handled
    /\ pc = "Open" => Fits(File, stats)
    /\ pc = "Write" => /\ File \in src /\ IsData(dst[File]) /\ stats.silent
                       /\ Len(dst[File]) \in {stats.done, stats.done + 1}
                       /\ Len(dst[File]) <= Size[File]
    /\ pc \in {"Copied", "Drop"} => dst[File] = Whole(File) /\ stats.done = 0
    /\ pc = "Copied" => stats.silent
    /\ pc = "Drop" => File \in processed

\* Nothing that the user did not decline is left out on the way to the end: the
\* path that was just moved is there, the scan has found what it has been over, the
\* copying has treated what it has been over, and so on.
MovedWhole == pc = "Moved" => \A i \in Files : PathOf[i] = at => dst[i] = Whole(i)

ScannedListed ==
    pc = "Scan" => \A i \in src : PathOf[i] < at =>
        Listed(i, Found) \/ i \in declined \/ PathOf[i] \in handled

SourceListed == IsPast("Scan", Reached) => AllListed(Found, handled)

FrontTreated == PassedTreated(Found, IF pc \in CopyPlaces THEN at ELSE stats.index)

CopiedArrived == IsPast("Copy", Reached) => AllArrived

FinishedAtEnd == state = "Finished" => sub > Len(Plan) /\ pc \in {"End", "None"}

Progress ==
    /\ MovedWhole /\ ScannedListed /\ SourceListed /\ FrontTreated /\ CopiedArrived
    /\ HandledArrived(handled) /\ MarkedWhole(Found, handled)
    /\ FinishedAtEnd

-----------------------------------------------------------------------------
(* The inductive invariant: what is saved *)

Bounded ==
    /\ left.crash <= MaxCrashes /\ left.restart <= MaxRestarts

\* Without overlap the thread stands still while something is saved.
SaveShape ==
    ~SavesOverlap =>
        /\ saving # "Idle" =>
              /\ pc = "None"
              /\ gathered.state = state /\ gathered.handled = handled
        /\ saving \in {"Index", "Stats"} => gathered.files = SavedList
        /\ saving = "Stats" => gathered.sub = sub

\* What is saved is never ahead of what is known.
SavedKept ==
    CrashingOnce => /\ saved.files.processed \subseteq processed
                    /\ saved.handled \subseteq handled
                    /\ MarkedWhole(saved.files, saved.handled)

\* The program could be continued from this.
Resumable(c) ==
    /\ c.files.list # <<>> => IsPast("Scan", c.sub)
    /\ c.stats.done # 0 => IsPast("Scan", c.sub)
    /\ ~IsPast("Scan", c.sub) => c.stats.index = 1
    /\ ListedOnce(c.files)
    /\ MarkStands(c.files, c.stats)
    /\ IsPast("Scan", c.sub) => AllListed(c.files, c.handled)
    /\ PassedTreated(c.files, c.stats.index)
    /\ IsPast("Copy", c.sub) => AllArrived
    /\ HandledArrived(c.handled)
    /\ MarkedWhole(c.files, c.handled)
    /\ c.state = "Finished" => c.sub > Len(Plan)

\* The thread meets the file of a saved mark with the same mark in its hands, so
\* that it continues the file and does not begin it anew.
SameMark(mark, m) == mark.done = m.done /\ mark.silent = m.silent

SavedMarkHeld ==
    LET m == saved.stats IN
    /\ stats.index >= m.index
    /\ m.done # 0 /\ m.index \in DOMAIN list =>
        /\ pc \notin CopyPlaces \cup {"End"} /\ stats.index = m.index
              => SameMark(stats, m)
        /\ pc \in {"Copy", "Sizes"} /\ at = m.index => SameMark(first, m)
        /\ pc = "Open" /\ at = m.index => SameMark(stats, m)

\* A file holds data that was written for it, and is neither marked nor moved.
Written(i) == i \in src \ processed /\ IsData(dst[i]) /\ Len(dst[i]) # 0

WrittenMark(i, mark) ==
    /\ mark.silent
    /\ mark.done = Len(dst[i]) \/ (mark.done = 0 /\ dst[i] = Whole(i))

\* Its place is the current one, whose mark is known, or was passed over.
Remembered(i, p) ==
    /\ p <= stats.index
    /\ p = stats.index =>
        /\ pc \notin CopyPlaces => WrittenMark(i, stats)
        /\ pc = "Copy" => IF at = p THEN WrittenMark(i, first)
                                   ELSE stats.done = Size[i]
        /\ pc = "Sizes" => WrittenMark(i, first)
        /\ pc = "Open" => WrittenMark(i, stats)

\* Such a file is the one to continue with, or was passed over.
WrittenKnown ==
    \A i \in Files : Written(i) =>
        /\ Len(dst[i]) <= Size[i]
        /\ IsPast("Scan", Reached)
        /\ \E p \in DOMAIN list : list[p] = i /\ Remembered(i, p)

SavedListHeld ==
    saved.files.list # <<>> => saved.files.list = list /\ complete

BeforeCrash ==
    left.crash # 0 =>
        /\ Resumable(saved)
        /\ saved.sub <= sub
        /\ SavedListHeld
        /\ SavedMarkHeld
        /\ WrittenKnown

Inv ==
    /\ Whereabouts /\ ListShape /\ PendingMark /\ FirstMark /\ CurrentFile
    /\ NoDataLost /\ Progress
    /\ Bounded /\ SaveShape /\ SavedKept /\ BeforeCrash

-----------------------------------------------------------------------------
(* The steps that open a file or leave it, as far as the invariant sees them *)

OthersUnchanged ==
    /\ UNCHANGED <<src, list, complete, handled, sub, first, saveVars>>
    /\ left'.crash = left.crash /\ left'.restart = left.restart

\* The file is ready to be written; one that a mark tells of is continued.
Opened ==
    /\ pc = "Open" /\ pc' = "Write" /\ File \in src
    /\ \E c \in Seq(Chunks) :
          /\ dst' = [dst EXCEPT ![File] = c]
          /\ IsData(c) /\ Len(c) <= Size[File]
          /\ stats' = [stats EXCEPT !.done = Len(c), !.silent = TRUE]
          /\ left.crash # 0 /\ stats.done # 0 => Len(c) # 0
    /\ OthersUnchanged /\ UNCHANGED <<state, processed, at, declined>>

PassedOver ==
    /\ pc \in {"Open", "Write"} /\ PassOver
    /\ OthersUnchanged /\ UNCHANGED dst

\* The mark that remains is one to go on with.
StoppedInFile ==
    /\ pc \in {"Open", "Write"} /\ pc' = "End" /\ state' \in {"Open", "Cancelled"}
    /\ \E done \in Nat : stats' = [stats EXCEPT !.done = done]
    /\ Fits(File, stats')
    /\ left.crash # 0 /\ Written(File) => WrittenMark(File, stats')
    /\ OthersUnchanged /\ UNCHANGED <<dst, processed, at, declined>>

\* What Next does, with the above in the place of Open and WriteStops.
Steps ==
    \/ UNCHANGED vars
    \/ Begin \/ Finish \/ End \/ NextSubTask \/ FastMove \/ Scan \/ Delete
    \/ StartCopy \/ CopyRefusesList \/ CopyKilled \/ CopySkipsProcessed
    \/ CopySetsIndex \/ CopySetsSizes \/ CopyHandled \/ CopyMarks \/ CopyDrops
    \/ CopyEnds
    \/ Opened \/ PassedOver \/ StoppedInFile \/ WriteChunk \/ AccountChunk
    \/ WriteEnds
    \/ Save \/ Kill \/ Restart \/ Crash

-----------------------------------------------------------------------------
(* The scan meets every file of a path, once *)

\* Finitely many numbers can be put in order: the place of one is the number of
\* those that are not larger.
LEMMA SortedEnumeration ==
    ASSUME NEW T \in SUBSET Nat, IsFiniteSet(T)
    PROVE  \E s \in [1..Cardinality(T) -> T] :
               \A j, k \in DOMAIN s : j < k => s[j] < s[k]
<1> DEFINE n == Cardinality(T)
           UpTo(e) == {x \in T : x <= e}
           rank == [e \in T |-> Cardinality(UpTo(e))]
<1>1. n \in Nat
  BY FS_CardinalityType
<1>2. \A e \in T : IsFiniteSet(UpTo(e)) /\ rank[e] \in 1..n
  <2> SUFFICES ASSUME NEW e \in T
               PROVE  IsFiniteSet(UpTo(e)) /\ Cardinality(UpTo(e)) \in 1..n
    OBVIOUS
  <2>1. UpTo(e) \in SUBSET T /\ e \in UpTo(e)
    OBVIOUS
  <2>2. IsFiniteSet(UpTo(e)) /\ Cardinality(UpTo(e)) <= n
    BY <2>1, FS_Subset
  <2>3. Cardinality(UpTo(e)) \in Nat /\ Cardinality(UpTo(e)) # 0
    BY <2>1, <2>2, FS_CardinalityType, FS_EmptySet
  <2> QED
    BY <1>1, <2>2, <2>3
<1>3. \A e \in T : rank[e] \in 1..n
  BY <1>2
<1>4. \A d, e \in T : d < e => rank[d] < rank[e]
  <2> SUFFICES ASSUME NEW d \in T, NEW e \in T, d < e
               PROVE  Cardinality(UpTo(d)) < Cardinality(UpTo(e))
    OBVIOUS
  <2>1. UpTo(d) \in SUBSET UpTo(e) /\ e \in UpTo(e) /\ e \notin UpTo(d)
    <3>1. d \in Nat /\ e \in Nat
      OBVIOUS
    <3>2. \A x \in T : x <= d => x <= e
      BY <3>1
    <3>3. ~(e <= d) /\ e <= e
      BY <3>1
    <3> QED
      BY <3>2, <3>3
  <2>2. /\ Cardinality(UpTo(d)) <= Cardinality(UpTo(e))
        /\ Cardinality(UpTo(e)) # Cardinality(UpTo(d))
    BY <1>2, <2>1, FS_Subset
  <2>3. Cardinality(UpTo(d)) \in Nat /\ Cardinality(UpTo(e)) \in Nat
    BY <1>2, FS_CardinalityType
  <2> QED
    BY <2>2, <2>3
<1> HIDE DEF rank, n, UpTo
<1>5. rank \in Injection(T, 1..n)
  <2>1. rank \in [T -> 1..n]
    BY <1>2 DEF rank
  <2>2. \A d, e \in T : rank[d] = rank[e] => d = e
    <3> SUFFICES ASSUME NEW d \in T, NEW e \in T, rank[d] = rank[e], d # e
                 PROVE  FALSE
      OBVIOUS
    <3>1. d < e \/ e < d
      OBVIOUS
    <3>2. rank[d] \in Nat /\ rank[e] \in Nat
      BY <1>1, <1>3
    <3> QED
      BY <1>4, <3>1, <3>2
  <2> QED
    BY <2>1, <2>2 DEF Injection, IsInjective
<1>6. rank \in Surjection(T, 1..n)
  <2>1. IsFiniteSet(1..n) /\ Cardinality(1..n) = n
    BY <1>1, FS_Interval
  <2> QED
    BY <1>5, <2>1, FS_Injection DEF n
<1> DEFINE s == [j \in 1..n |-> CHOOSE e \in T : rank[e] = j]
<1>7. \A j \in 1..n : s[j] \in T /\ rank[s[j]] = j
  BY <1>6 DEF Surjection
<1>8. s \in [1..n -> T] /\ DOMAIN s = 1..n
  BY <1>7
<1> HIDE DEF s
<1>9. \A j, k \in 1..n : j < k => s[j] < s[k]
  <2> SUFFICES ASSUME NEW j \in 1..n, NEW k \in 1..n, j < k, ~(s[j] < s[k])
               PROVE  FALSE
    OBVIOUS
  <2>1. s[j] \in T /\ s[k] \in T /\ rank[s[j]] = j /\ rank[s[k]] = k
    BY <1>7
  <2>2. s[j] \in Nat /\ s[k] \in Nat /\ j \in Nat /\ k \in Nat
    <3>1. s[j] \in Nat /\ s[k] \in Nat
      BY <2>1
    <3> QED
      BY <1>1, <3>1
  <2>3. s[k] < s[j] \/ s[k] = s[j]
    BY <2>2
  <2>4. ~(k < j) /\ k # j
    BY <2>2
  <2> QED
    BY <1>4, <2>1, <2>3, <2>4
<1> QED
  BY <1>8, <1>9 DEF n

\* Where a list of the files of a path begins and ends.
LEMMA FilesUnderFinds ==
    ASSUME src \subseteq Files, NEW path
    PROVE  /\ FilesUnder(path) \in Seq(Files)
           /\ \A p \in DOMAIN FilesUnder(path) :
                 FilesUnder(path)[p] \in src /\ PathOf[FilesUnder(path)[p]] = path
           /\ \A i \in src : PathOf[i] = path =>
                 \E p \in DOMAIN FilesUnder(path) : FilesUnder(path)[p] = i
           /\ \A p, q \in DOMAIN FilesUnder(path) :
                 FilesUnder(path)[p] = FilesUnder(path)[q] => p = q
<1> DEFINE found == {i \in src : PathOf[i] = path}
           n == Cardinality(found)
           Sorted(s) == \A j, k \in DOMAIN s : j < k => s[j] < s[k]
           s == CHOOSE s \in [1..n -> found] : Sorted(s)
<1>1. found \in SUBSET Files /\ found \in SUBSET Nat /\ IsFiniteSet(found)
  <2>1. found \in SUBSET Files
    OBVIOUS
  <2>2. Cardinality(Files) \in Nat
    BY FilesAssumption, FS_CardinalityType
  <2>3. Files \in SUBSET Nat
    BY FilesAssumption, <2>2
  <2> QED
    BY <2>1, <2>3, FilesAssumption, FS_Subset
<1>2. n \in Nat
  BY <1>1, FS_CardinalityType
<1>3. \E t \in [1..n -> found] : Sorted(t)
  BY <1>1, SortedEnumeration
<1>4. s \in [1..n -> found] /\ Sorted(s)
  BY <1>3
<1>5. FilesUnder(path) = s
  BY DEF FilesUnder
<1> HIDE DEF s
<1>6. \A p, q \in 1..n : s[p] = s[q] => p = q
  <2> SUFFICES ASSUME NEW p \in 1..n, NEW q \in 1..n, s[p] = s[q], p # q
               PROVE  FALSE
    OBVIOUS
  <2>1. p < q \/ q < p
    OBVIOUS
  <2>2. s[p] \in Nat /\ s[q] \in Nat
    BY <1>1, <1>4
  <2> QED
    BY <1>4, <2>1, <2>2
<1>7. s \in Surjection(1..n, found)
  <2>1. s \in Injection(1..n, found)
    BY <1>4, <1>6 DEF Injection, IsInjective
  <2>2. IsFiniteSet(1..n) /\ Cardinality(1..n) = n
    BY <1>2, FS_Interval
  <2> QED
    BY <1>1, <2>1, <2>2, FS_Injection
<1>8. s \in Seq(found) /\ DOMAIN s = 1..n
  BY <1>2, <1>4
<1>9. s \in Seq(Files)
  BY <1>1, <1>2, <1>4
<1> QED
  BY <1>4, <1>5, <1>6, <1>7, <1>8, <1>9 DEF Surjection

-----------------------------------------------------------------------------
(* Contents of files *)

LEMMA ContentTypes ==
    /\ NoFile \in Contents /\ NoFile \notin Seq(Chunks)
    /\ \A c \in Contents : c # NoFile => c \in Seq(Chunks)
    /\ \A c \in Seq(Chunks) : c \in Contents /\ c # NoFile /\ Len(c) \in Nat
    /\ \A i \in Files : Whole(i) \in Seq(Chunks) /\ Len(Whole(i)) = Size[i]
                        /\ IsData(Whole(i)) /\ Size[i] \in Nat
    /\ <<>> \in Seq(Chunks)
<1>1. \A i \in Files : Whole(i) \in Seq(Chunks) /\ Len(Whole(i)) = Size[i]
                       /\ Size[i] \in Nat
  BY FilesAssumption DEF Whole, Chunks
<1>2. NoFile \notin Seq(Chunks)
  BY FilesAssumption DEF Chunks
<1>3. \A i \in Files : IsData(Whole(i))
  BY <1>1, <1>2 DEF IsData, Whole
<1> QED
  BY <1>1, <1>2, <1>3 DEF Contents, Chunks

LEMMA TruncatedTypes ==
    ASSUME NEW c \in Seq(Chunks), NEW n \in Nat
    PROVE  /\ Truncated(c, n) \in Seq(Chunks) /\ Len(Truncated(c, n)) = n
           /\ n <= Len(c) /\ IsData(c) => IsData(Truncated(c, n))
<1>1. DOMAIN c = 1..Len(c) /\ Len(c) \in Nat /\ \A p \in 1..Len(c) : c[p] \in Chunks
  OBVIOUS
<1>2. \A p \in 1..n :
         (IF p <= Len(c) THEN c[p] ELSE "zero") \in Chunks
  BY <1>1 DEF Chunks
<1>3. Truncated(c, n) \in [1..n -> Chunks]
  BY <1>2 DEF Truncated
<1>4. Truncated(c, n) \in Seq(Chunks) /\ Len(Truncated(c, n)) = n
  BY <1>3
<1>5. ASSUME n <= Len(c), IsData(c)
      PROVE  IsData(Truncated(c, n))
  <2>1. \A p \in 1..n : p \in DOMAIN c /\ p <= Len(c)
    BY <1>1, <1>5
  <2>2. \A p \in 1..n : Truncated(c, n)[p] = "data"
    BY <1>5, <2>1 DEF Truncated, IsData
  <2>3. Truncated(c, n) # NoFile
    BY <1>4, ContentTypes
  <2> QED
    BY <1>3, <2>2, <2>3 DEF IsData
<1> QED
  BY <1>4, <1>5

\* A file of the right length with nothing but data in it is the whole file.
LEMMA DataOfFullLength ==
    ASSUME NEW i \in Files, NEW c \in Seq(Chunks), IsData(c), Len(c) = Size[i]
    PROVE  c = Whole(i)
<1>1. c \in [1..Size[i] -> Chunks]
  BY FilesAssumption
<1> QED
  BY <1>1 DEF IsData, Whole

LEMMA DataAppended ==
    ASSUME NEW c \in Seq(Chunks), IsData(c)
    PROVE  /\ Append(c, "data") \in Seq(Chunks) /\ IsData(Append(c, "data"))
           /\ Len(Append(c, "data")) = Len(c) + 1
<1>1. Append(c, "data") \in Seq(Chunks) /\ Len(Append(c, "data")) = Len(c) + 1
  BY DEF Chunks
<1>2. \A p \in 1..(Len(c) + 1) :
         Append(c, "data")[p] = IF p <= Len(c) THEN c[p] ELSE "data"
  OBVIOUS
<1>3. \A p \in DOMAIN Append(c, "data") : Append(c, "data")[p] = "data"
  BY <1>1, <1>2 DEF IsData
<1> QED
  BY <1>1, <1>3, ContentTypes DEF IsData

LEMMA MinimumBounds ==
    ASSUME NEW a \in Nat, NEW b \in Nat
    PROVE  /\ Minimum(a, b) \in Nat /\ Minimum(a, b) <= a /\ Minimum(a, b) <= b
           /\ Minimum(a, b) = a \/ Minimum(a, b) = b
           /\ a <= b => Minimum(a, b) = a
BY DEF Minimum

-----------------------------------------------------------------------------
(* Types *)

-----------------------------------------------------------------------------
(* Types *)

LEMMA SnapshotTyped == Types => Snapshot \in Checkpoints /\ Snapshot.stats = stats
<1> SUFFICES ASSUME Types
             PROVE  Snapshot \in Checkpoints /\ Snapshot.stats = stats
  OBVIOUS
<1>1. saved.files \in [list : Seq(Files), processed : SUBSET Files]
  BY DEF Types, Checkpoints
<1>2. SavedList \in [list : Seq(Files), processed : SUBSET Files]
  BY <1>1 DEF SavedList, Types
<1> QED
  BY <1>2 DEF Snapshot, Checkpoints, StatsType, Types

LEMMA TypesSuffice == Types => TypeOK
BY SnapshotTyped DEF Types, TypeOK, CopyPlaces, FilePlaces

LEMMA TypesAtFirst == Init => Types
<1> SUFFICES ASSUME Init
             PROVE  Types
  OBVIOUS
<1>1. dst \in [Files -> Contents]
  <2>1. \A n \in Existing : [p \in 1..n |-> "other"] \in Seq(Chunks)
    BY FilesAssumption DEF Chunks
  <2>2. \A c \in {NoFile} \cup {[p \in 1..n |-> "other"] : n \in Existing} : c \in Contents
    BY <2>1, ContentTypes
  <2>3. dst \in [Files -> {NoFile} \cup {[p \in 1..n |-> "other"] : n \in Existing}]
    BY DEF Init
  <2> QED
    BY <2>2, <2>3
<1>2. saved \in Checkpoints /\ saved.stats.index # 0 /\ gathered \in Checkpoints
      /\ stats \in StatsType /\ stats.index # 0
  BY DEF Init, Checkpoints, StatsType, NewStats
<1>3. left \in LeftType
  BY BoundAssumption DEF Init, LeftType
<1>4. moving \in BOOLEAN
  BY DEF Init
<1>5. first \in [done : Nat, silent : BOOLEAN]
  BY DEF Init
<1>6. /\ src = Files /\ list = <<>> /\ complete = FALSE /\ processed = {}
      /\ handled = {} /\ sub = 1 /\ deleteAt = 0 /\ moveAt = 1 /\ state = "Open"
      /\ kill = FALSE /\ saving = "Idle" /\ pc = "None" /\ at = 0
  BY DEF Init
<1>7. <<>> \in Seq(Files)
  OBVIOUS
<1> QED
  BY <1>1, <1>2, <1>3, <1>4, <1>5, <1>6, <1>7 DEF Types, CopyPlaces, FilePlaces

\* What the bounds do.
LEMMA Spending ==
    ASSUME Types
    PROVE  /\ \A bound \in {"kill", "crash", "save", "restart", "skip", "stop"} :
                 Spend(bound) => left' \in LeftType
           /\ \A gone : Skips(gone) => left' \in LeftType
           /\ Stopped => /\ left' \in LeftType /\ pc' = "End"
                         /\ state' \in {"Open", "Cancelled"}
           /\ AnswersStop => /\ left' \in LeftType /\ pc' = "End"
                             /\ state' \in {"Open", "Cancelled"}
<1>1. \A bound \in {"kill", "crash", "save", "restart", "skip", "stop"} :
         Spend(bound) => left' \in LeftType
  BY DEF Spend, Types, LeftType
<1> QED
  BY <1>1 DEF Types, Skips, Stopped, AnswersStop, Halt

LEMMA FileKnown ==
    ASSUME Types, at \in DOMAIN list
    PROVE  File \in Files /\ Size[File] \in Nat /\ dst[File] \in Contents
BY FilesAssumption DEF Types, File

\* What passing over the current file, and stopping at it, does to the types.
LEMMA Leaving ==
    ASSUME Types, at \in DOMAIN list
    PROVE  /\ PassOver =>
                 /\ stats' \in StatsType /\ stats'.index # 0 /\ processed' \subseteq Files
                 /\ pc' = "Copy" /\ at' \in Nat /\ at' # 0 /\ state' = state
                 /\ left' \in LeftType
           /\ \A done \in Nat : StopsWith(done) =>
                 /\ stats' \in StatsType /\ stats'.index # 0 /\ processed' \subseteq Files
                 /\ at' \in Nat
<1>1. stats \in StatsType /\ stats.index # 0 /\ Size[File] \in Nat
  BY FileKnown DEF Types
<1>2. \A done \in Nat : [stats EXCEPT !.done = done] \in StatsType
                        /\ [stats EXCEPT !.done = done].index = stats.index
  BY <1>1 DEF StatsType
<1>3. ASSUME PassOver
      PROVE  /\ stats' \in StatsType /\ stats'.index # 0 /\ processed' \subseteq Files
             /\ pc' = "Copy" /\ at' \in Nat /\ at' # 0 /\ state' = state
             /\ left' \in LeftType
  <2>1. left' \in LeftType
    BY <1>3, Spending DEF PassOver
  <2>2. stats' = [stats EXCEPT !.done = Size[File]]
    BY <1>3 DEF PassOver
  <2>3. stats' \in StatsType /\ stats'.index # 0
    BY <1>1, <1>2, <2>2
  <2>4. processed' \subseteq Files /\ pc' = "Copy" /\ at' = at + 1 /\ state' = state
    BY <1>3 DEF PassOver, Types
  <2> QED
    BY <2>1, <2>3, <2>4 DEF Types
<1> QED
  BY <1>1, <1>2, <1>3 DEF Types, StopsWith

LEMMA WritingStarts ==
    ASSUME Types, pc = "Open", NEW content \in Seq(Chunks), NEW seekTo \in Nat,
           StartWriting(content, seekTo), UNCHANGED <<list, src, first>>
    PROVE  /\ dst' \in [Files -> Contents] /\ stats' \in StatsType /\ stats'.index # 0
           /\ processed' \subseteq Files /\ at' \in Nat /\ left' \in LeftType
           /\ state' \in {"Open", "Finished", "Cancelled"}
           /\ pc' \in {"Write", "Copy", "End"}
           /\ pc' = "Copy" => at' # 0
           /\ pc' = "Write" => at' \in DOMAIN list /\ dst'[list[at']] # NoFile
<1>1. at \in DOMAIN list
  BY DEF Types, FilePlaces
<1> DEFINE from == Minimum(seekTo, Size[File])
<1>2. from \in Nat /\ File \in Files
  BY <1>1, FileKnown, MinimumBounds
<1> HIDE DEF from
<1>3. CASE /\ dst' = [dst EXCEPT ![File] = Truncated(content, from)]
           /\ stats' = [stats EXCEPT !.done = from, !.silent = TRUE]
           /\ pc' = "Write"
           /\ UNCHANGED <<state, processed, at, declined, left>>
  <2>1. Truncated(content, from) \in Contents /\ Truncated(content, from) # NoFile
    BY <1>2, TruncatedTypes, ContentTypes
  <2>2. dst' \in [Files -> Contents] /\ dst'[File] # NoFile
    BY <1>2, <1>3, <2>1 DEF Types
  <2>3. stats' \in StatsType /\ stats'.index # 0
    BY <1>2, <1>3 DEF Types, StatsType
  <2> QED
    BY <1>1, <1>3, <2>2, <2>3 DEF Types, File
<1>4. CASE UNCHANGED dst /\ PassOver
  BY <1>1, <1>4, Leaving DEF Types
<1>5. CASE UNCHANGED dst /\ Stopped /\ StopsWith(from)
  BY <1>1, <1>2, <1>5, Leaving, Spending DEF Types
<1> QED
  BY <1>3, <1>4, <1>5 DEF StartWriting, from

LEMMA TypesKept ==
    ASSUME Types, [Next]_vars
    PROVE  Types'
<1> USE DEF Types, filesVars, progress, threadVars, saveVars, ghosts, CopyPlaces,
        FilePlaces
<1>1. CASE UNCHANGED vars
  BY <1>1 DEF vars, File
<1>2. CASE Begin
  BY <1>2 DEF Begin, File
<1>3. CASE Finish
  BY <1>3 DEF Finish, Halt, File
<1>4. CASE End
  <2>1. Snapshot \in Checkpoints /\ Snapshot.stats = stats
    BY SnapshotTyped
  <2>2. <<>> \in Seq(Files) /\ {} \subseteq Files
    OBVIOUS
  <2>3. /\ saved' = Snapshot /\ pc' = "None"
        /\ list' \in Seq(Files) /\ processed' \subseteq Files
    BY <1>4, <2>2 DEF End
  <2> QED
    BY <1>4, <2>1, <2>3 DEF End, File
<1>5. CASE NextSubTask
  BY <1>5 DEF NextSubTask, File
<1>6. CASE StartFastMove
  BY <1>6 DEF StartFastMove, Starts, File
<1>7. CASE FastMoveSkipsHandled
  BY <1>7 DEF FastMoveSkipsHandled, FastMoveStep, File
<1>8. CASE FastMoveCannotRead
  <2>1. /\ left' \in LeftType /\ state' \in {"Open", "Finished", "Cancelled"}
        /\ pc' \in {"FastMove", "End"} /\ handled' \subseteq Paths /\ at' \in Nat
    <3>1. CASE /\ Skips(~PathExists)
               /\ handled' = handled \cup {at} /\ at' = at + 1
               /\ UNCHANGED <<state, pc>>
      <4>1. pc = "FastMove" /\ at \in Paths /\ at \in Nat /\ handled \subseteq Paths
        BY <1>8 DEF FastMoveCannotRead, FastMoveStep
      <4>2. left' \in LeftType
        BY <3>1, Spending
      <4>3. handled' \subseteq Paths /\ at' \in Nat
        BY <3>1, <4>1
      <4>4. state' = state /\ pc' = pc
        BY <3>1
      <4> QED
        BY <4>1, <4>2, <4>3, <4>4
    <3>2. CASE Stopped /\ UNCHANGED <<handled, at>>
      BY <3>2, Spending
    <3> QED
      BY <1>8, <3>1, <3>2 DEF FastMoveCannotRead
  <2> QED
    BY <1>8, <2>1 DEF FastMoveCannotRead, FastMoveStep, File
<1>9. CASE FastMoveMarks
  BY <1>9 DEF FastMoveMarks, Halt, File
<1>10. CASE FastMoveImpossible
  BY <1>10 DEF FastMoveImpossible, FastMoveStep, Halt, File
<1>11. CASE FastMoveFails
  BY <1>11, Spending DEF FastMoveFails, FastMoveStep, Throw, File
<1>12. CASE FastMoveEnds
  BY <1>12 DEF FastMoveEnds, File
<1>13. CASE FastMoveMoves
  <2>1. dst' \in [Files -> Contents]
    BY <1>13, ContentTypes DEF FastMoveMoves
  <2>2. pc' = "Moved" /\ at' = at /\ at \in Paths /\ moveAt' = at /\ src' \subseteq src
    BY <1>13 DEF FastMoveMoves, FastMoveStep
  <2> QED
    BY <1>13, <2>1, <2>2 DEF FastMoveMoves, FastMoveStep, File
<1>14. CASE StartScan
  <2>1. list' \in Seq(Files) /\ processed' \subseteq Files /\ complete' \in BOOLEAN
        /\ pc' = "Scan" /\ at' = 1
    <3>1. <<>> \in Seq(Files) /\ {} \subseteq Files /\ FALSE \in BOOLEAN
      OBVIOUS
    <3>2. list' = <<>> /\ processed' = {} /\ complete' = FALSE /\ pc' = "Scan" /\ at' = 1
      BY <1>14 DEF StartScan
    <3> QED
      BY <3>1, <3>2
  <2> QED
    BY <1>14, <2>1 DEF StartScan, ScanUnchanged, File
<1>15. CASE ScanSkipsHandled
  BY <1>15 DEF ScanSkipsHandled, ScanUnchanged, File
<1>16. CASE ScanPath
  <2>1. FilesUnder(at) \in Seq(Files)
    BY FilesUnderFinds
  <2>2. list \o FilesUnder(at) \in Seq(Files) /\ <<>> \in Seq(Files)
    BY <2>1
  <2>3. list' \in Seq(Files) /\ at' \in Nat /\ pc' \in {"Scan", "End"}
        /\ state' \in {"Open", "Finished", "Cancelled"}
    <3>1. CASE list' = list \o FilesUnder(at) /\ at' = at + 1 /\ UNCHANGED <<state, pc>>
      BY <1>16, <2>2, <3>1 DEF ScanPath
    <3>2. CASE kill /\ list' = <<>> /\ Halt("Open") /\ UNCHANGED at
      BY <2>2, <3>2 DEF Halt
    <3> QED
      BY <1>16, <3>1, <3>2 DEF ScanPath
  <2> QED
    BY <1>16, <2>3 DEF ScanPath, ScanUnchanged, File
<1>17. CASE ScanCannotRead
  BY <1>17, Spending DEF ScanCannotRead, DeclineAll, ScanUnchanged, File
<1>18. CASE ScanEnds
  BY <1>18 DEF ScanEnds, ScanUnchanged, File
<1>19. CASE StartCopy
  <2>1. stats' \in StatsType /\ stats'.index = stats.index
    <3>1. Len(list) \in Nat
      OBVIOUS
    <3>2. stats' = [stats EXCEPT !.initialized = TRUE, !.total = Len(list)]
      BY <1>19 DEF StartCopy
    <3> QED
      BY <3>1, <3>2 DEF StatsType
  <2>2. [done |-> stats.done, silent |-> stats.silent] \in [done : Nat, silent : BOOLEAN]
        /\ stats.index \in Nat
    BY DEF StatsType
  <2>3. /\ pc' \in {"Copy", "End"} /\ at' \in Nat /\ (pc' = "Copy" => at' # 0)
        /\ first' \in [done : Nat, silent : BOOLEAN] /\ left' \in LeftType
        /\ state' \in {"Open", "Finished", "Cancelled"}
    BY <1>19, <2>2, Spending DEF StartCopy
  <2> QED
    BY <1>19, <2>1, <2>3 DEF StartCopy, CopyUnchanged, File
<1>20. CASE CopyRefusesList
  BY <1>20 DEF CopyRefusesList, Throw, CopyUnchanged, File
<1>21. CASE CopyKilled
  BY <1>21 DEF CopyKilled, Halt, CopyUnchanged, File
<1>22. CASE CopySkipsProcessed
  BY <1>22 DEF CopySkipsProcessed, CopyGoesOn, CopyUnchanged, File
<1>23. CASE CopySetsIndex
  <2>1. at \in Nat /\ at # 0 /\ at <= Len(list) /\ DOMAIN list = 1..Len(list)
    BY <1>23 DEF CopySetsIndex, CopyGoesOn
  <2>2. at \in DOMAIN list
    BY <2>1
  <2>3. stats' \in StatsType /\ stats'.index = at
    BY <1>23 DEF CopySetsIndex, StatsType
  <2> QED
    BY <1>23, <2>1, <2>2, <2>3 DEF CopySetsIndex, CopyUnchanged, File
<1>24. CASE CopySetsSizes
  <2>1. stats' \in StatsType /\ stats'.index = stats.index
    BY <1>24 DEF CopySetsSizes, StatsType
  <2>2. /\ first' \in [done : Nat, silent : BOOLEAN]
        /\ pc' \in {"None", "Handled", "Open"} /\ state' = state
    <3>1. CASE first.done > Size[File]
      BY <1>24, <3>1 DEF CopySetsSizes, Throw
    <3>2. CASE ~(first.done > Size[File])
      <4>1. first' = [done |-> 0, silent |-> FALSE]
            /\ pc' = (IF PathOf[File] \in handled THEN "Handled" ELSE "Open")
            /\ state' = state
        BY <1>24, <3>2 DEF CopySetsSizes
      <4>2. [done |-> 0, silent |-> FALSE] \in [done : Nat, silent : BOOLEAN]
        OBVIOUS
      <4> QED
        BY <4>1, <4>2
    <3> QED
      BY <3>1, <3>2
  <2> QED
    BY <1>24, <2>1, <2>2 DEF CopySetsSizes, CopyUnchanged, File
<1>25. CASE CopyHandled
  <2>1. File \in Files /\ Size[File] \in Nat
    BY <1>25, FileKnown DEF CopyHandled, FilePlaces
  <2>2. stats' \in StatsType /\ stats'.index = stats.index
    BY <1>25, <2>1 DEF CopyHandled, StatsType
  <2>3. processed' \subseteq Files /\ pc' = "Copy" /\ at' = at + 1
    BY <1>25, <2>1 DEF CopyHandled
  <2> QED
    BY <1>25, <2>2, <2>3 DEF CopyHandled, CopyUnchanged, File
<1>26. CASE OpenFails
  <2>1. at \in DOMAIN list
    BY <1>26 DEF OpenFails, FilePlaces
  <2>2. PassOver \/ (Stopped /\ StopsWith(stats.done))
    BY <1>26 DEF OpenFails, OpenFails
  <2>3. /\ stats' \in StatsType /\ stats'.index # 0 /\ processed' \subseteq Files
        /\ at' \in Nat /\ left' \in LeftType /\ state' \in {"Open", "Finished", "Cancelled"}
        /\ pc' \in {"Copy", "End"} /\ (pc' = "Copy" => at' # 0)
    BY <2>1, <2>2, Leaving, Spending, FileKnown, ContentTypes DEF StatsType
  <2> QED
    BY <1>26, <2>3 DEF OpenFails, CopyUnchanged, File
<1>27. CASE OpenFresh
  <2>1. pc = "Open" /\ at \in DOMAIN list /\ UNCHANGED <<list, src, first>>
    BY <1>27 DEF OpenFresh, CanOpen, OpenUnchanged, CopyUnchanged, FilePlaces
  <2>2. <<>> \in Seq(Chunks) /\ <<>> \in Contents /\ 0 \in Nat
    BY ContentTypes
  <2>3. /\ dst' \in [Files -> Contents] /\ stats' \in StatsType /\ stats'.index # 0
        /\ processed' \subseteq Files /\ at' \in Nat /\ left' \in LeftType
        /\ state' \in {"Open", "Finished", "Cancelled"}
        /\ pc' \in {"Write", "Copy", "End", "None"}
        /\ pc' = "Copy" => at' # 0
        /\ pc' = "Write" => at' \in DOMAIN list /\ dst'[list[at']] # NoFile
    <3>1. CASE StartWriting(<<>>, 0)
      BY <2>1, <2>2, <3>1, WritingStarts
    <3>2. CASE dst' = [dst EXCEPT ![File] = <<>>] /\ Throw
               /\ UNCHANGED <<stats, processed, at, declined, left>>
      BY <2>2, <3>2 DEF Throw
    <3> QED
      BY <1>27, <3>1, <3>2 DEF OpenFresh
  <2> QED
    BY <1>27, <2>1, <2>3 DEF OpenFresh, OpenUnchanged, CopyUnchanged, File
<1>28. CASE OpenResumes
  <2>1. pc = "Open" /\ at \in DOMAIN list /\ UNCHANGED <<list, src, first>>
    BY <1>28
       DEF OpenResumes, Asks, OpenExisting, CanOpen, OpenUnchanged, CopyUnchanged,
           FilePlaces
  <2>2. dst[File] \in Seq(Chunks) /\ stats.done \in Nat /\ Len(dst[File]) \in Nat
        /\ Size[File] \in Nat
    BY <1>28, <2>1, FileKnown, ContentTypes
       DEF OpenResumes, Asks, OpenExisting, StatsType
  <2>4. \E seekTo \in Nat : StartWriting(dst[File], seekTo)
    BY <1>28, <2>2 DEF OpenResumes
  <2>3. /\ dst' \in [Files -> Contents] /\ stats' \in StatsType /\ stats'.index # 0
        /\ processed' \subseteq Files /\ at' \in Nat /\ left' \in LeftType
        /\ state' \in {"Open", "Finished", "Cancelled"}
        /\ pc' \in {"Write", "Copy", "End", "None"}
        /\ pc' = "Copy" => at' # 0
        /\ pc' = "Write" => at' \in DOMAIN list /\ dst'[list[at']] # NoFile
    BY <2>1, <2>2, <2>4, WritingStarts
  <2> QED
    BY <1>28, <2>1, <2>3 DEF OpenResumes, OpenUnchanged, CopyUnchanged, File
<1>29. CASE OpenAnew
  <2>1. pc = "Open" /\ at \in DOMAIN list /\ UNCHANGED <<list, src, first>>
    BY <1>29
       DEF OpenAnew, Asks, OpenExisting, CanOpen, OpenUnchanged, CopyUnchanged,
           FilePlaces
  <2>2. dst[File] \in Seq(Chunks) /\ stats.done \in Nat /\ Len(dst[File]) \in Nat
        /\ Size[File] \in Nat
    BY <1>29, <2>1, FileKnown, ContentTypes DEF OpenAnew, Asks, OpenExisting, StatsType
  <2>3. /\ dst' \in [Files -> Contents] /\ stats' \in StatsType /\ stats'.index # 0
        /\ processed' \subseteq Files /\ at' \in Nat /\ left' \in LeftType
        /\ state' \in {"Open", "Finished", "Cancelled"}
        /\ pc' \in {"Write", "Copy", "End", "None"}
        /\ pc' = "Copy" => at' # 0
        /\ pc' = "Write" => at' \in DOMAIN list /\ dst'[list[at']] # NoFile
    BY <1>29, <2>1, <2>2, WritingStarts, MinimumBounds DEF OpenAnew
  <2> QED
    BY <1>29, <2>1, <2>3 DEF OpenAnew, OpenUnchanged, CopyUnchanged, File
<1>30. CASE OpenAppends
  <2>1. pc = "Open" /\ at \in DOMAIN list /\ UNCHANGED <<list, src, first>>
    BY <1>30
       DEF OpenAppends, Asks, OpenExisting, CanOpen, OpenUnchanged, CopyUnchanged,
           FilePlaces
  <2>2. dst[File] \in Seq(Chunks) /\ stats.done \in Nat /\ Len(dst[File]) \in Nat
        /\ Size[File] \in Nat
    BY <1>30, <2>1, FileKnown, ContentTypes
       DEF OpenAppends, Asks, OpenExisting, StatsType
  <2>4. \E seekTo \in Nat : StartWriting(dst[File], seekTo)
    BY <1>30, <2>2, MinimumBounds DEF OpenAppends
  <2>3. /\ dst' \in [Files -> Contents] /\ stats' \in StatsType /\ stats'.index # 0
        /\ processed' \subseteq Files /\ at' \in Nat /\ left' \in LeftType
        /\ state' \in {"Open", "Finished", "Cancelled"}
        /\ pc' \in {"Write", "Copy", "End", "None"}
        /\ pc' = "Copy" => at' # 0
        /\ pc' = "Write" => at' \in DOMAIN list /\ dst'[list[at']] # NoFile
    BY <2>1, <2>2, <2>4, WritingStarts
  <2> QED
    BY <1>30, <2>1, <2>3 DEF OpenAppends, OpenUnchanged, CopyUnchanged, File
<1>31. CASE OpenDeclined
  <2>1. at \in DOMAIN list
    BY <1>31 DEF OpenDeclined, Asks, OpenExisting, CanOpen, FilePlaces
  <2>2. PassOver \/ (AnswersStop /\ StopsWith(stats.done))
    BY <1>31 DEF OpenDeclined, Asks, OpenExisting, CanOpen, OpenFails
  <2>3. /\ stats' \in StatsType /\ stats'.index # 0 /\ processed' \subseteq Files
        /\ at' \in Nat /\ left' \in LeftType /\ state' \in {"Open", "Finished", "Cancelled"}
        /\ pc' \in {"Copy", "End"} /\ (pc' = "Copy" => at' # 0)
    BY <2>1, <2>2, Leaving, Spending, FileKnown, ContentTypes DEF StatsType
  <2> QED
    BY <1>31, <2>3 DEF OpenDeclined, CopyUnchanged, File
<1>32. CASE WriteChunk
  <2>1. pc = "Write" /\ at \in DOMAIN list /\ File \in Files
    BY <1>32, FileKnown DEF WriteChunk, FilePlaces
  <2>2. Append(dst[File], "data") \in Seq(Chunks)
    BY <2>1, FileKnown, ContentTypes DEF Chunks
  <2>3. dst' \in [Files -> Contents] /\ dst'[File] # NoFile
    BY <1>32, <2>1, <2>2, ContentTypes DEF WriteChunk
  <2> QED
    BY <1>32, <2>1, <2>3
       DEF WriteChunk, WriteUnchanged, OpenUnchanged, CopyUnchanged, File
<1>33. CASE AccountChunk
  <2>1. stats' \in StatsType /\ stats'.index = stats.index
    BY <1>33 DEF AccountChunk, StatsType
  <2> QED
    BY <1>33, <2>1 DEF AccountChunk, WriteUnchanged, OpenUnchanged, CopyUnchanged, File
<1>34. CASE WriteEnds
  <2>1. stats' \in StatsType /\ stats'.index = stats.index
    BY <1>34 DEF WriteEnds, StatsType
  <2> QED
    BY <1>34, <2>1
       DEF WriteEnds, Halt, WriteUnchanged, OpenUnchanged, CopyUnchanged, File
<1>35. CASE WriteStops
  <2>1. at \in DOMAIN list /\ dst[File] # NoFile
    BY <1>35 DEF WriteStops, FilePlaces
  <2>2. Len(dst[File]) \in Nat
    BY <2>1, FileKnown, ContentTypes
  <2>3. PassOver \/ (Stopped /\ StopsWith(Len(dst[File])))
    BY <1>35 DEF WriteStops
  <2>4. /\ stats' \in StatsType /\ stats'.index # 0 /\ processed' \subseteq Files
        /\ at' \in Nat /\ left' \in LeftType /\ state' \in {"Open", "Finished", "Cancelled"}
        /\ pc' \in {"Copy", "End"} /\ (pc' = "Copy" => at' # 0)
    BY <2>1, <2>2, <2>3, Leaving, Spending
  <2> QED
    BY <1>35, <2>4 DEF WriteStops, CopyUnchanged, File
<1>36. CASE CopyMarks
  <2>1. File \in Files
    BY <1>36, FileKnown DEF CopyMarks, FilePlaces
  <2> QED
    BY <1>36, <2>1 DEF CopyMarks, CopyUnchanged, File
<1>37. CASE CopyDrops
  BY <1>37, Spending DEF CopyDrops, CopyUnchanged, File
<1>38. CASE CopyEnds
  <2>1. stats' \in StatsType /\ stats'.index = at /\ at # 0
    BY <1>38 DEF CopyEnds, CopyGoesOn, StatsType
  <2> QED
    BY <1>38, <2>1 DEF CopyEnds, CopyUnchanged, File
<1>39. CASE StartDelete
  BY <1>39 DEF StartDelete, Starts, DeleteUnchanged, File
<1>40. CASE DeleteKilled
  BY <1>40 DEF DeleteKilled, DeleteStep, Halt, DeleteUnchanged, File
<1>41. CASE DeleteSkips
  BY <1>41 DEF DeleteSkips, DeleteStep, DeleteUnchanged, File
<1>42. CASE DeleteFile
  BY <1>42, Spending DEF DeleteFile, DeleteStep, DeleteUnchanged, File
<1>43. CASE DeleteEnds
  BY <1>43 DEF DeleteEnds, DeleteUnchanged, File
<1>44. CASE SaveState
  <2>1. gathered' \in Checkpoints
    BY <1>44 DEF SaveState, Checkpoints
  <2> QED
    BY <1>44, <2>1, Spending DEF SaveState, SaveUnchanged, File
<1>45. CASE SaveFiles
  <2>1. SavedList \in [list : Seq(Files), processed : SUBSET Files]
    BY DEF SavedList, Checkpoints
  <2>2. gathered' \in Checkpoints
    BY <1>45, <2>1 DEF SaveFiles, Checkpoints
  <2> QED
    BY <1>45, <2>2 DEF SaveFiles, SaveUnchanged, File
<1>46. CASE SaveIndex
  <2>1. gathered' \in Checkpoints
    BY <1>46 DEF SaveIndex, Checkpoints
  <2> QED
    BY <1>46, <2>1 DEF SaveIndex, SaveUnchanged, File
<1>47. CASE SaveStats
  <2>1. saved' \in Checkpoints /\ saved'.stats = stats
    BY <1>47 DEF SaveStats, Checkpoints, StatsType
  <2> QED
    BY <1>47, <2>1 DEF SaveStats, SaveUnchanged, File
<1>48. CASE Kill
  BY <1>48, Spending DEF Kill, File
<1>49. CASE Restart
  <2>1. NewStats \in StatsType /\ NewStats.index = 1 /\ <<>> \in Seq(Files)
    BY DEF NewStats, StatsType
  <2>2. saved' \in Checkpoints /\ saved'.stats = NewStats
    BY <1>49, <2>1 DEF Restart, Checkpoints, StatsType
  <2> QED
    <3>1. left' \in LeftType
      BY <1>49, Spending DEF Restart
    <3>2. stats' \in StatsType /\ stats'.index # 0 /\ list' \in Seq(Files)
      BY <1>49, <2>1 DEF Restart
    <3> QED
      BY <1>49, <2>2, <3>1, <3>2 DEF Restart, File
<1>50. CASE Crash
  <2>1. /\ saved.state \in {"Open", "Finished", "Cancelled"}
        /\ saved.handled \subseteq Paths
        /\ saved.files.list \in Seq(Files) /\ saved.files.processed \subseteq Files
        /\ saved.sub \in Nat /\ saved.stats \in StatsType
        /\ saved.deleteAt \in Nat /\ saved.moveAt \in Nat
    BY DEF Checkpoints, StatsType
  <2> QED
    BY <1>50, <2>1, Spending DEF Crash, File
<1> QED
  BY <1>1, <1>2, <1>3, <1>4, <1>5, <1>6, <1>7, <1>8, <1>9, <1>10, <1>11, <1>12,
     <1>13, <1>14, <1>15, <1>16, <1>17, <1>18, <1>19, <1>20, <1>21, <1>22, <1>23,
     <1>24, <1>25, <1>26, <1>27, <1>28, <1>29, <1>30, <1>31, <1>32, <1>33, <1>34,
     <1>35, <1>36, <1>37, <1>38, <1>39, <1>40, <1>41, <1>42, <1>43, <1>44, <1>45,
     <1>46, <1>47, <1>48, <1>49, <1>50
     DEF Next, Thread, FastMove, Scan, Copy, Open, Delete, Save

\* Whatever happens to the task, crashes and overlapping stores included, each part
\* of its progress, in memory, in the database and on its way there, has its type,
\* and the copying reads the list of files only where the list has an entry.
THEOREM TypeCorrect == Spec => []TypeOK
<1>1. Spec => []Types
  BY TypesAtFirst, TypesKept, PTL DEF Spec
<1> QED
  BY <1>1, TypesSuffice, PTL

-----------------------------------------------------------------------------
(* The plan: scan before copy before delete, and no file is moved as a whole *)
(* after the copying. *)

LEMMA PlanShape ==
    /\ ~IsPast("Scan", 1) /\ ~IsPast("Copy", 1)
    /\ \A m, n \in Nat : m <= n => /\ IsPast("Scan", m) => IsPast("Scan", n)
                                   /\ IsPast("Copy", m) => IsPast("Copy", n)
    /\ \A n \in Nat : IsPast("Copy", n) => IsPast("Scan", n)
    /\ \A n \in Nat : n > Len(Plan) => IsPast("Copy", n)
    /\ \A n \in DOMAIN Plan :
          /\ Plan[n] \in {"FastMove", "Scan", "Copy", "Delete"}
          /\ Plan[n] = "FastMove" => /\ IsPast("Scan", n + 1) => IsPast("Scan", n)
                                     /\ ~IsPast("Copy", n + 1)
          /\ Plan[n] = "Scan" => /\ ~IsPast("Scan", n) /\ IsPast("Scan", n + 1)
                                 /\ ~IsPast("Copy", n + 1)
          /\ Plan[n] = "Copy" => /\ IsPast("Scan", n) /\ IsPast("Copy", n + 1)
                                 /\ ~IsPast("Copy", n)
          /\ Plan[n] = "Delete" => IsPast("Copy", n)
    /\ DOMAIN Plan = 1..Len(Plan) /\ Len(Plan) \in Nat
<1>1. CASE Plan = <<"Scan", "Copy">>
  BY <1>1 DEF IsPast
<1>2. CASE Plan = <<"FastMove", "Scan", "Copy", "Delete">>
  BY <1>2 DEF IsPast
<1>3. CASE Plan = <<"Scan", "FastMove", "Copy", "Delete">>
  BY <1>3 DEF IsPast
<1> QED
  BY <1>1, <1>2, <1>3, PlanAssumption

LEMMA PathNumbers ==
    /\ \A n \in Paths : n \in Nat \ {0}
    /\ \A i \in Files : PathOf[i] \in Paths /\ PathOf[i] \in Nat \ {0}
    /\ \A n \in Nat \ {0} : n \notin Paths => \A i \in Files : PathOf[i] < n
<1>1. Cardinality(Paths) \in Nat /\ Paths = 1..Cardinality(Paths)
  BY FilesAssumption, FS_CardinalityType
<1>2. \A i \in Files : PathOf[i] \in Paths
  BY FilesAssumption
<1> QED
  BY <1>1, <1>2

-----------------------------------------------------------------------------
(* Crashes and restarts are counted, and nothing else takes from their bounds *)

LEMMA Counting ==
    ASSUME Types
    PROVE  /\ \A bound \in {"kill", "save", "skip", "stop"} :
                 Spend(bound) => left'.crash = left.crash /\ left'.restart = left.restart
           /\ \A gone : Skips(gone) =>
                 left'.crash = left.crash /\ left'.restart = left.restart
           /\ Stopped => left'.crash = left.crash /\ left'.restart = left.restart
           /\ AnswersStop => left'.crash = left.crash /\ left'.restart = left.restart
<1>1. \A bound \in {"kill", "save", "skip", "stop"} :
         Spend(bound) => left'.crash = left.crash /\ left'.restart = left.restart
  BY DEF Spend, Types, LeftType
<1> QED
  BY <1>1 DEF Skips, Stopped, AnswersStop

-----------------------------------------------------------------------------
(* Opening a file and leaving it *)

\* What is known of the current file before a crash.
LEMMA CurrentWritten ==
    ASSUME Types, ListShape, BeforeCrash, CurrentFile, left.crash # 0, pc = "Open",
           Written(File)
    PROVE  Len(dst[File]) <= Size[File] /\ WrittenMark(File, stats)
<1>1. at \in DOMAIN list /\ at = stats.index /\ File \in Files
  BY FileKnown DEF Types, CurrentFile, FilePlaces
<1>2. PICK p \in DOMAIN list : list[p] = File /\ Remembered(File, p)
  BY <1>1 DEF BeforeCrash, WrittenKnown
<1>3. p = at
  BY <1>1, <1>2 DEF ListShape, ListedOnce, Found, File
<1>4. WrittenMark(File, stats)
  BY <1>1, <1>2, <1>3 DEF Remembered
<1>5. Len(dst[File]) <= Size[File]
  BY <1>1 DEF BeforeCrash, WrittenKnown
<1> QED
  BY <1>4, <1>5

\* The writer's Start, for the contents and the position that the code gives it.
LEMMA WritingBegins ==
    ASSUME Types, CurrentFile, pc = "Open", File \in src,
           NEW content \in Seq(Chunks), NEW seekTo \in Nat,
           StartWriting(content, seekTo), OpenUnchanged,
           dst[File] = NoFile => content = <<>>,
           dst[File] # NoFile => content = dst[File],
           seekTo # 0 => IsData(content) /\ seekTo <= Len(content),
           left.crash # 0 /\ stats.done # 0 => seekTo = stats.done,
           left.crash # 0 /\ seekTo # 0 =>
               stats.silent /\ Len(content) <= Size[File] /\ seekTo = Len(content),
           left.crash # 0 /\ Written(File) =>
               WrittenMark(File, [stats EXCEPT !.done = Minimum(seekTo, Size[File])])
    PROVE  Opened \/ PassedOver \/ StoppedInFile
<1> DEFINE from == Minimum(seekTo, Size[File])
<1>1. at \in DOMAIN list /\ File \in Files /\ Size[File] \in Nat /\ Len(content) \in Nat
      /\ stats \in StatsType
  BY FileKnown DEF Types, FilePlaces
<1>2. /\ from \in Nat /\ from <= Size[File] /\ from <= seekTo
      /\ seekTo = 0 => from = 0
      /\ seekTo <= Size[File] => from = seekTo
  BY <1>1, MinimumBounds
<1>3. left.crash # 0 /\ Written(File) => WrittenMark(File, [stats EXCEPT !.done = from])
  OBVIOUS
<1> HIDE DEF from
<1>4. from # 0 => IsData(content) /\ from <= Len(content) /\ Len(content) # 0
  BY <1>1, <1>2
<1>5. CASE /\ dst' = [dst EXCEPT ![File] = Truncated(content, from)]
           /\ stats' = [stats EXCEPT !.done = from, !.silent = TRUE]
           /\ pc' = "Write"
           /\ UNCHANGED <<state, processed, at, declined, left>>
  <2> DEFINE c == Truncated(content, from)
  <2>1. c \in Seq(Chunks) /\ Len(c) = from
    BY <1>2, TruncatedTypes
  <2>2. IsData(c)
    <3>1. CASE from = 0
      BY <2>1, <3>1, ContentTypes DEF IsData
    <3>2. CASE from # 0
      BY <1>2, <1>4, <3>2, TruncatedTypes
    <3> QED
      BY <3>1, <3>2
  <2>3. left.crash # 0 /\ stats.done # 0 => Len(c) # 0
    BY <1>1, <1>2, <2>1
  <2> HIDE DEF c
  <2>4. dst' = [dst EXCEPT ![File] = c]
        /\ stats' = [stats EXCEPT !.done = Len(c), !.silent = TRUE]
    BY <1>5, <2>1 DEF c
  <2>5. OthersUnchanged
    BY <1>5 DEF OthersUnchanged, OpenUnchanged, CopyUnchanged
  <2> QED
    BY <1>2, <1>5, <2>1, <2>2, <2>3, <2>4, <2>5 DEF Opened
<1>6. CASE UNCHANGED dst /\ PassOver
  <2>1. OthersUnchanged
    BY <1>6, Counting DEF OthersUnchanged, OpenUnchanged, CopyUnchanged, PassOver
  <2> QED
    BY <1>6, <2>1 DEF PassedOver
<1>7. CASE dst[File] # NoFile /\ UNCHANGED dst /\ Stopped /\ StopsWith(from)
  <2>1. stats' = [stats EXCEPT !.done = from]
    BY <1>7 DEF StopsWith
  <2>2. stats'.done = from /\ stats'.silent = stats.silent
    BY <1>1, <2>1 DEF StatsType
  <2>3. Fits(File, stats')
    BY <1>1, <1>2, <1>4, <1>7, <2>2, ContentTypes DEF Fits, MarkFits, MarkExact
  <2>4. OthersUnchanged /\ pc' = "End" /\ state' \in {"Open", "Cancelled"}
    BY <1>7, Counting, Spending
       DEF OthersUnchanged, OpenUnchanged, CopyUnchanged, PassOver
  <2>5. UNCHANGED <<dst, processed, at, declined>>
    BY <1>7 DEF StopsWith
  <2>6. left.crash # 0 /\ Written(File) => WrittenMark(File, stats')
    BY <1>3, <2>1
  <2> QED
    BY <1>2, <2>1, <2>3, <2>4, <2>5, <2>6 DEF StoppedInFile
<1> QED
  BY <1>5, <1>6, <1>7 DEF StartWriting, from

\* Opening the destination and leaving the file come down to three steps.
LEMMA OpenedOrLeft ==
    ASSUME Types, ListShape, CurrentFile, BeforeCrash, Open \/ WriteStops
    PROVE  Opened \/ PassedOver \/ StoppedInFile
<1>1. /\ pc \in {"Open", "Write"} /\ at \in DOMAIN list
      /\ File \in Files /\ Size[File] \in Nat /\ dst[File] \in Contents
      /\ stats \in StatsType /\ stats.done \in Nat /\ File \notin processed
  <2>1. pc \in {"Open", "Write"}
    BY DEF Open, OpenFails, OpenFresh, OpenResumes, OpenAnew, OpenAppends,
           OpenDeclined, Asks, OpenExisting, CanOpen, WriteStops
  <2>2. at \in DOMAIN list /\ stats \in StatsType
    BY <2>1 DEF Types, FilePlaces
  <2> QED
    BY <2>1, <2>2, FileKnown DEF CurrentFile, StatsType
<1>2. dst[File] # NoFile => dst[File] \in Seq(Chunks) /\ Len(dst[File]) \in Nat
  BY <1>1, ContentTypes
<1>3. ASSUME PassOver, OthersUnchanged, UNCHANGED dst
      PROVE  PassedOver
  BY <1>1, <1>3 DEF PassedOver
<1>4. ASSUME NEW done \in Nat, Stopped \/ AnswersStop, StopsWith(done),
             CopyUnchanged, UNCHANGED <<filesVars, first>>,
             Fits(File, [stats EXCEPT !.done = done]),
             left.crash # 0 /\ Written(File)
                => WrittenMark(File, [stats EXCEPT !.done = done])
      PROVE  StoppedInFile
  <2>1. pc' = "End" /\ state' \in {"Open", "Cancelled"}
    BY <1>4, Spending
  <2>2. OthersUnchanged
    BY <1>4, Counting DEF OthersUnchanged, CopyUnchanged, filesVars
  <2>3. stats' = [stats EXCEPT !.done = done] /\ UNCHANGED <<dst, processed, at, declined>>
    BY <1>4 DEF StopsWith, filesVars
  <2>4. Fits(File, stats') /\ (left.crash # 0 /\ Written(File) => WrittenMark(File, stats'))
    BY <1>4, <2>3
  <2> QED
    BY <1>1, <2>1, <2>2, <2>3, <2>4 DEF StoppedInFile
<1>5. ASSUME pc = "Open"
      PROVE  /\ Fits(File, stats) /\ [stats EXCEPT !.done = stats.done] = stats
             /\ left.crash # 0 /\ Written(File)
                   => WrittenMark(File, stats) /\ Len(dst[File]) <= Size[File]
  BY <1>1, <1>5, CurrentWritten DEF CurrentFile, StatsType
<1>6. CASE (PassOver \/ ((Stopped \/ AnswersStop) /\ StopsWith(stats.done)))
           /\ pc = "Open" /\ CopyUnchanged /\ UNCHANGED <<filesVars, first, agreed>>
  <2>1. CASE PassOver
    BY <1>3, <1>6, <2>1, Counting
       DEF OthersUnchanged, CopyUnchanged, filesVars, PassOver
  <2>2. CASE (Stopped \/ AnswersStop) /\ StopsWith(stats.done)
    BY <1>1, <1>4, <1>5, <1>6, <2>2
  <2> QED
    BY <1>6, <2>1, <2>2
<1>7. CASE OpenFails
  BY <1>6, <1>7 DEF OpenFails
<1>8. CASE OpenDeclined
  BY <1>6, <1>8 DEF OpenDeclined, Asks, OpenExisting, CanOpen
<1>9. CASE OpenFresh
  <2>1. pc = "Open" /\ File \in src /\ dst[File] = NoFile /\ OpenUnchanged
    BY <1>9 DEF OpenFresh, CanOpen
  <2>2. stats.done = 0
    BY <1>5, <2>1 DEF Fits, MarkFits
  <2>3. ~Written(File)
    BY <2>1 DEF Written, IsData
  <2>4. StartWriting(<<>>, 0)
    BY <1>9, <2>2 DEF OpenFresh
  <2> QED
    BY <2>1, <2>2, <2>3, <2>4, WritingBegins, ContentTypes
<1>10. ASSUME OpenExisting, OpenUnchanged, left.crash # 0, stats.done # 0
       PROVE  SilentResume /\ IsData(dst[File]) /\ stats.silent
  BY <1>5, <1>10 DEF OpenExisting, CanOpen, Fits, MarkExact, SilentResume
<1>11. CASE OpenResumes
  <2>1. pc = "Open" /\ File \in src /\ dst[File] # NoFile /\ OpenUnchanged
        /\ StartWriting(dst[File], stats.done) /\ (SilentResume \/ Len(dst[File]) = 0)
    BY <1>11 DEF OpenResumes, OpenExisting, CanOpen
  <2>2. stats.done # 0 => SilentResume /\ IsData(dst[File])
    BY <1>5, <2>1 DEF Fits, MarkFits, SilentResume
  <2>3. ASSUME left.crash # 0, Written(File)
        PROVE  WrittenMark(File, [stats EXCEPT !.done = Minimum(stats.done, Size[File])])
    <3>1. SilentResume /\ WrittenMark(File, stats)
      BY <1>5, <2>1, <2>3 DEF Written
    <3>2. stats.done <= Size[File]
      BY <1>1, <1>2, <3>1 DEF SilentResume
    <3>3. Minimum(stats.done, Size[File]) = stats.done
      BY <1>1, <3>2, MinimumBounds
    <3> QED
      BY <1>5, <2>1, <3>1, <3>3
  <2> QED
    BY <1>1, <1>2, <2>1, <2>2, <2>3, WritingBegins DEF SilentResume
<1>12. CASE OpenAnew
  <2>1. pc = "Open" /\ File \in src /\ dst[File] # NoFile /\ OpenUnchanged
        /\ StartWriting(dst[File], 0) /\ ~SilentResume /\ OpenExisting
    BY <1>12 DEF OpenAnew, Asks, OpenExisting, CanOpen
  <2>2. left.crash # 0 => stats.done = 0
    BY <1>10, <2>1
  <2>3. ASSUME left.crash # 0, Written(File)
        PROVE  WrittenMark(File, [stats EXCEPT !.done = Minimum(0, Size[File])])
    <3>1. WrittenMark(File, stats) /\ stats.done = 0
      BY <1>5, <2>1, <2>2, <2>3
    <3>2. Minimum(0, Size[File]) = 0
      BY <1>1, MinimumBounds
    <3> QED
      BY <1>5, <2>1, <3>1, <3>2
  <2> QED
    BY <1>1, <1>2, <2>1, <2>2, <2>3, WritingBegins
<1>13. CASE OpenAppends
  <2> DEFINE length == Minimum(Len(dst[File]), Size[File])
  <2>1. pc = "Open" /\ File \in src /\ dst[File] # NoFile /\ OpenUnchanged
        /\ StartWriting(dst[File], length) /\ ~SilentResume /\ OpenExisting
        /\ Len(dst[File]) > 0
    BY <1>13 DEF OpenAppends, Asks, OpenExisting, CanOpen
  <2>2. IsData(dst[File]) /\ Written(File)
    <3>1. DOMAIN dst[File] = 1..Len(dst[File])
      BY <1>2, <2>1
    <3>2. \A p \in 1..Len(dst[File]) : dst[File][p] = "data"
      BY <1>13 DEF OpenAppends
    <3> QED
      BY <1>1, <1>2, <2>1, <3>1, <3>2 DEF IsData, Written
  <2>3. left.crash # 0 => stats.done = 0
    BY <1>10, <2>1
  <2>4. length \in Nat /\ length <= Len(dst[File])
        /\ (Len(dst[File]) <= Size[File] => length = Len(dst[File]))
        /\ (length <= Size[File] => Minimum(length, Size[File]) = length)
        /\ length <= Size[File]
    BY <1>1, <1>2, <2>1, MinimumBounds
  <2> HIDE DEF length
  <2>5. ASSUME left.crash # 0
        PROVE  /\ stats.silent /\ Len(dst[File]) <= Size[File] /\ length = Len(dst[File])
               /\ WrittenMark(File, [stats EXCEPT !.done = Minimum(length, Size[File])])
    <3>1. WrittenMark(File, stats) /\ Len(dst[File]) <= Size[File]
      BY <1>5, <2>1, <2>2, <2>5
    <3>2. [stats EXCEPT !.done = Len(dst[File])].done = Len(dst[File])
          /\ [stats EXCEPT !.done = Len(dst[File])].silent = stats.silent
      BY <1>1 DEF StatsType
    <3> QED
      BY <2>4, <3>1, <3>2 DEF WrittenMark
  <2> QED
    BY <1>1, <1>2, <2>1, <2>2, <2>3, <2>4, <2>5, WritingBegins
<1>14. CASE WriteStops
  <2>1. pc = "Write" /\ dst[File] # NoFile /\ CopyUnchanged
        /\ UNCHANGED <<filesVars, first>>
        /\ (PassOver \/ (Stopped /\ StopsWith(Len(dst[File]))))
    BY <1>14 DEF WriteStops, Types
  <2>2. CASE PassOver
    <3>1. left'.crash = left.crash /\ left'.restart = left.restart
      BY <2>2, Counting DEF PassOver
    <3>2. OthersUnchanged /\ UNCHANGED dst
      BY <2>1, <3>1 DEF OthersUnchanged, CopyUnchanged, filesVars
    <3> QED
      BY <1>3, <2>2, <3>2
  <2>3. CASE Stopped /\ StopsWith(Len(dst[File]))
    <3> DEFINE mark == [stats EXCEPT !.done = Len(dst[File])]
    <3>1. mark.done = Len(dst[File]) /\ mark.silent = stats.silent
      BY <1>1 DEF StatsType
    <3>2. stats.silent /\ IsData(dst[File]) /\ Len(dst[File]) <= Size[File]
      BY <2>1 DEF CurrentFile
    <3> HIDE DEF mark
    <3>3. Fits(File, mark)
      BY <2>1, <3>1, <3>2 DEF Fits, MarkFits, MarkExact
    <3>4. Written(File) => WrittenMark(File, mark)
      BY <3>1, <3>2 DEF WrittenMark
    <3> QED
      BY <1>2, <1>4, <2>1, <2>3, <3>3, <3>4 DEF mark
  <2> QED
    BY <2>1, <2>2, <2>3
<1> QED
  BY <1>7, <1>8, <1>9, <1>11, <1>12, <1>13, <1>14 DEF Open

LEMMA NextTakesSteps ==
    ASSUME Types, ListShape, CurrentFile, BeforeCrash, [Next]_vars
    PROVE  Steps
BY OpenedOrLeft DEF Next, Thread, Copy, Steps

-----------------------------------------------------------------------------
(* The parts of the invariant, one after the other *)

LEMMA WhereaboutsKept ==
    ASSUME Types, Whereabouts, Steps
    PROVE  Whereabouts'
<1> USE DEF Types, Whereabouts
<1> USE DEF vars, filesVars, progress, threadVars, saveVars, ghosts,
        FastMoveStep, ScanUnchanged, CopyUnchanged, OpenUnchanged,
        WriteUnchanged, OthersUnchanged, DeleteUnchanged, DeleteStep,
        SaveUnchanged, Starts, Halt, Throw, CopyPlaces, FilePlaces
<1>1. CASE \/ UNCHANGED vars \/ Begin \/ Finish \/ NextSubTask
  BY <1>1, Spending, PlanShape DEF vars, Begin, Finish, NextSubTask
<1>2. CASE End
  <2>1. saved'.sub = sub /\ sub' = sub /\ gathered' = gathered /\ pc' = "None"
    BY <1>2 DEF End, Snapshot
  <2> QED
    BY <2>1
<1>3. CASE FastMove
  BY <1>3, Spending, PlanShape
     DEF FastMove, StartFastMove, FastMoveSkipsHandled, FastMoveCannotRead,
         Stopped, AnswersStop, FastMoveMarks, FastMoveImpossible, FastMoveFails,
         FastMoveEnds, FastMoveMoves
<1>4. CASE Scan
  BY <1>4, Spending, PlanShape
     DEF Scan, StartScan, ScanSkipsHandled, ScanPath, ScanCannotRead,
         DeclineAll, Stopped, AnswersStop, ScanEnds
<1>5. CASE \/ StartCopy \/ CopyRefusesList \/ CopyKilled \/ CopySkipsProcessed
           \/ CopySetsIndex \/ CopySetsSizes \/ CopyHandled \/ CopyMarks
           \/ CopyDrops \/ CopyEnds
  BY <1>5, Spending, PlanShape
     DEF StartCopy, Stopped, AnswersStop, CopyRefusesList, CopyKilled,
         CopySkipsProcessed, CopyGoesOn, CopySetsIndex, CopySetsSizes,
         CopyHandled, CopyMarks, CopyDrops, CopyEnds
<1>6. CASE Opened
  BY <1>6, Spending, PlanShape DEF Opened
<1>7. CASE PassedOver
  BY <1>7, Spending, PlanShape DEF PassedOver, PassOver
<1>8. CASE StoppedInFile
  BY <1>8, Spending, PlanShape DEF StoppedInFile
<1>9. CASE \/ WriteChunk \/ AccountChunk \/ WriteEnds
  BY <1>9, Spending, PlanShape DEF WriteChunk, AccountChunk, WriteEnds
<1>10. CASE Delete
  BY <1>10, Spending, PlanShape
     DEF Delete, StartDelete, DeleteKilled, DeleteSkips, DeleteFile, Stopped,
         AnswersStop, DeleteEnds
<1>11. CASE SaveState
  BY <1>11, Spending, PlanShape DEF SaveState
<1>12. CASE SaveFiles
  BY <1>12, Spending, PlanShape DEF SaveFiles
<1>13. CASE SaveIndex
  BY <1>13, Spending, PlanShape DEF SaveIndex
<1>14. CASE SaveStats
  BY <1>14, Spending, PlanShape DEF SaveStats
<1>15. CASE Kill
  BY <1>15, Spending, PlanShape DEF Kill
<1>16. CASE Restart
  BY <1>16, Spending, PlanShape DEF Restart
<1>17. CASE Crash
  BY <1>17, Spending, PlanShape DEF Crash
<1> QED
  BY <1>1, <1>2, <1>3, <1>4, <1>5, <1>6, <1>7, <1>8, <1>9, <1>10, <1>11, <1>12,
     <1>13, <1>14, <1>15, <1>16, <1>17
     DEF Steps, FastMove, Scan, Delete, Save

LEMMA NoDataLostKept ==
    ASSUME Types, NoDataLost, Whereabouts, CurrentFile, Progress, Steps
    PROVE  NoDataLost'
<1>0. /\ pc \in FilePlaces => File \in Files
      /\ pc = "Drop" => dst[File] = Whole(File)
      /\ pc = "Write" => File \in src
      /\ \A i \in processed : dst[i] = Whole(i) \/ PathOf[i] \in handled
  BY FileKnown DEF Types, CurrentFile, Progress, MarkedWhole, Found
<1> USE DEF Types, NoDataLost
<1> USE DEF vars, filesVars, progress, threadVars, saveVars, ghosts,
        FastMoveStep, ScanUnchanged, CopyUnchanged, OpenUnchanged,
        WriteUnchanged, OthersUnchanged, DeleteUnchanged, DeleteStep,
        SaveUnchanged, Starts, Halt, Throw, FilePlaces, CopyPlaces, Whole
<1>1. CASE \/ UNCHANGED vars \/ Begin \/ Finish \/ NextSubTask
  BY <1>1, <1>0 DEF vars, Begin, Finish, NextSubTask
<1>2. CASE End
  BY <1>2, <1>0 DEF End
<1>3. CASE FastMove
  BY <1>3, <1>0
     DEF FastMove, StartFastMove, FastMoveSkipsHandled, FastMoveCannotRead,
         Stopped, AnswersStop, FastMoveMarks, FastMoveImpossible, FastMoveFails,
         FastMoveEnds, FastMoveMoves
<1>4. CASE Scan
  BY <1>4, <1>0
     DEF Scan, StartScan, ScanSkipsHandled, ScanPath, ScanCannotRead,
         DeclineAll, Stopped, AnswersStop, ScanEnds
<1>5. CASE \/ StartCopy \/ CopyRefusesList \/ CopyKilled \/ CopySkipsProcessed
           \/ CopySetsIndex \/ CopySetsSizes \/ CopyHandled \/ CopyMarks
           \/ CopyDrops \/ CopyEnds
  BY <1>5, <1>0
     DEF StartCopy, Stopped, AnswersStop, CopyRefusesList, CopyKilled,
         CopySkipsProcessed, CopyGoesOn, CopySetsIndex, CopySetsSizes,
         CopyHandled, CopyMarks, CopyDrops, CopyEnds
<1>6. CASE Opened
  BY <1>6, <1>0 DEF Opened
<1>7. CASE PassedOver
  BY <1>7, <1>0 DEF PassedOver, PassOver
<1>8. CASE StoppedInFile
  BY <1>8, <1>0 DEF StoppedInFile
<1>9. CASE WriteChunk
  BY <1>9, <1>0 DEF WriteChunk
<1>10. CASE AccountChunk
  BY <1>10, <1>0 DEF AccountChunk
<1>11. CASE WriteEnds
  BY <1>11, <1>0 DEF WriteEnds
<1>12. CASE StartDelete
  BY <1>12, <1>0 DEF StartDelete
<1>13. CASE DeleteKilled
  BY <1>13, <1>0 DEF DeleteKilled
<1>14. CASE DeleteSkips
  BY <1>14, <1>0 DEF DeleteSkips
<1>15. CASE DeleteFile
  <2>1. MayDelete /\ dst' = dst /\ (src' = src \/ src' = src \ {Victim})
    BY <1>15 DEF DeleteFile
  <2>2. dst[Victim] = Whole(Victim)
    BY <1>0, <2>1 DEF MayDelete
  <2> QED
    BY <2>1, <2>2
<1>16. CASE DeleteEnds
  BY <1>16, <1>0 DEF DeleteEnds
<1>17. CASE Save
  BY <1>17, <1>0 DEF Save, SaveState, SaveFiles, SaveIndex, SaveStats
<1>18. CASE Kill
  BY <1>18, <1>0 DEF Kill
<1>19. CASE Restart
  BY <1>19, <1>0 DEF Restart
<1>20. CASE Crash
  BY <1>20, <1>0 DEF Crash
<1> QED
  BY <1>1, <1>2, <1>3, <1>4, <1>5, <1>6, <1>7, <1>8, <1>9, <1>10, <1>11, <1>12,
     <1>13, <1>14, <1>15, <1>16, <1>17, <1>18, <1>19, <1>20
     DEF Steps, FastMove, Scan, Delete, Save

LEMMA BoundedKept ==
    ASSUME Types, Bounded, Steps
    PROVE  Bounded' /\ (left'.crash = left.crash \/ Crash)
<1> USE DEF Types, Bounded
<1> USE DEF vars, filesVars, progress, threadVars, saveVars, ghosts,
        FastMoveStep, ScanUnchanged, CopyUnchanged, OpenUnchanged,
        WriteUnchanged, OthersUnchanged, DeleteUnchanged, DeleteStep,
        SaveUnchanged, Starts, Halt, Throw, LeftType
<1>1. CASE \/ UNCHANGED vars \/ Begin \/ Finish \/ NextSubTask
  BY <1>1, Counting DEF vars, Begin, Finish, NextSubTask
<1>2. CASE End
  BY <1>2, Counting DEF End
<1>3. CASE FastMove
  BY <1>3, Counting
     DEF FastMove, StartFastMove, FastMoveSkipsHandled, FastMoveCannotRead,
         Stopped, AnswersStop, FastMoveMarks, FastMoveImpossible, FastMoveFails,
         FastMoveEnds, FastMoveMoves
<1>4. CASE Scan
  BY <1>4, Counting
     DEF Scan, StartScan, ScanSkipsHandled, ScanPath, ScanCannotRead,
         DeclineAll, Stopped, AnswersStop, ScanEnds
<1>5. CASE \/ StartCopy \/ CopyRefusesList \/ CopyKilled \/ CopySkipsProcessed
           \/ CopySetsIndex \/ CopySetsSizes \/ CopyHandled \/ CopyMarks
           \/ CopyDrops \/ CopyEnds
  BY <1>5, Counting
     DEF StartCopy, Stopped, AnswersStop, CopyRefusesList, CopyKilled,
         CopySkipsProcessed, CopyGoesOn, CopySetsIndex, CopySetsSizes,
         CopyHandled, CopyMarks, CopyDrops, CopyEnds
<1>6. CASE Opened
  BY <1>6, Counting DEF Opened
<1>7. CASE PassedOver
  BY <1>7, Counting DEF PassedOver, PassOver
<1>8. CASE StoppedInFile
  BY <1>8, Counting DEF StoppedInFile
<1>9. CASE \/ WriteChunk \/ AccountChunk \/ WriteEnds
  BY <1>9, Counting DEF WriteChunk, AccountChunk, WriteEnds
<1>10. CASE Delete
  BY <1>10, Counting
     DEF Delete, StartDelete, DeleteKilled, DeleteSkips, DeleteFile, Stopped,
         AnswersStop, DeleteEnds
<1>11. CASE Save
  BY <1>11, Counting DEF Save, SaveState, SaveFiles, SaveIndex, SaveStats
<1>12. CASE Kill
  BY <1>12, Counting DEF Kill
<1>13. CASE Restart
  <2>1. left' = [left EXCEPT !.restart = left.restart - 1]
    BY <1>13 DEF Restart, Spend
  <2>2. MaxCrashes \in Nat /\ MaxRestarts \in Nat
    BY BoundAssumption
  <2> QED
    BY <1>13, <2>1, <2>2
<1>14. CASE Crash
  <2>1. left' = [left EXCEPT !.crash = left.crash - 1]
    BY <1>14 DEF Crash, Spend
  <2>2. MaxCrashes \in Nat /\ MaxRestarts \in Nat
    BY BoundAssumption
  <2> QED
    BY <1>14, <2>1, <2>2
<1> QED
  BY <1>1, <1>2, <1>3, <1>4, <1>5, <1>6, <1>7, <1>8, <1>9, <1>10, <1>11, <1>12,
     <1>13, <1>14
     DEF Steps, FastMove, Scan, Delete, Save

LEMMA SaveShapeKept ==
    ASSUME Types, SaveShape, Steps
    PROVE  SaveShape'
<1> USE DEF Types, SaveShape
<1> USE DEF vars, filesVars, progress, threadVars, saveVars, ghosts,
        FastMoveStep, ScanUnchanged, CopyUnchanged, OpenUnchanged,
        WriteUnchanged, OthersUnchanged, DeleteUnchanged, DeleteStep,
        SaveUnchanged, Starts, Halt, Throw, CopyPlaces, FilePlaces, SavedList
<1>1. CASE \/ UNCHANGED vars \/ Begin \/ Finish \/ NextSubTask
  BY <1>1, Spending DEF vars, Begin, Finish, NextSubTask
<1>2. CASE End
  BY <1>2, Spending DEF End
<1>3. CASE FastMove
  BY <1>3, Spending
     DEF FastMove, StartFastMove, FastMoveSkipsHandled, FastMoveCannotRead,
         Stopped, AnswersStop, FastMoveMarks, FastMoveImpossible, FastMoveFails,
         FastMoveEnds, FastMoveMoves
<1>4. CASE Scan
  BY <1>4, Spending
     DEF Scan, StartScan, ScanSkipsHandled, ScanPath, ScanCannotRead,
         DeclineAll, Stopped, AnswersStop, ScanEnds
<1>5. CASE \/ StartCopy \/ CopyRefusesList \/ CopyKilled \/ CopySkipsProcessed
           \/ CopySetsIndex \/ CopySetsSizes \/ CopyHandled \/ CopyMarks
           \/ CopyDrops \/ CopyEnds
  BY <1>5, Spending
     DEF StartCopy, Stopped, AnswersStop, CopyRefusesList, CopyKilled,
         CopySkipsProcessed, CopyGoesOn, CopySetsIndex, CopySetsSizes,
         CopyHandled, CopyMarks, CopyDrops, CopyEnds
<1>6. CASE Opened
  BY <1>6, Spending DEF Opened
<1>7. CASE PassedOver
  BY <1>7, Spending DEF PassedOver, PassOver
<1>8. CASE StoppedInFile
  BY <1>8, Spending DEF StoppedInFile
<1>9. CASE \/ WriteChunk \/ AccountChunk \/ WriteEnds
  BY <1>9, Spending DEF WriteChunk, AccountChunk, WriteEnds
<1>10. CASE Delete
  BY <1>10, Spending
     DEF Delete, StartDelete, DeleteKilled, DeleteSkips, DeleteFile, Stopped,
         AnswersStop, DeleteEnds
<1>11. CASE SaveState
  BY <1>11, Spending DEF SaveState
<1>12. CASE SaveFiles
  BY <1>12, Spending DEF SaveFiles
<1>13. CASE SaveIndex
  BY <1>13, Spending DEF SaveIndex
<1>14. CASE SaveStats
  BY <1>14, Spending DEF SaveStats
<1>15. CASE Kill
  BY <1>15, Spending DEF Kill
<1>16. CASE Restart
  BY <1>16, Spending DEF Restart
<1>17. CASE Crash
  BY <1>17, Spending DEF Crash
<1> QED
  BY <1>1, <1>2, <1>3, <1>4, <1>5, <1>6, <1>7, <1>8, <1>9, <1>10, <1>11, <1>12,
     <1>13, <1>14, <1>15, <1>16, <1>17
     DEF Steps, FastMove, Scan, Delete, Save

LEMMA Scanning ==
    ASSUME Types, Whereabouts, ListShape, pc = "Scan"
    PROVE  /\ ~IsPast("Scan", sub) /\ sub \in Nat
           /\ ~complete /\ processed = {} /\ stats.done = 0 /\ stats.index = 1
           /\ at \in Nat \ {0}
           /\ \A p \in DOMAIN list : PathOf[list[p]] < at
           /\ \A p, q \in DOMAIN list : list[p] = list[q] => p = q
<1>1. ~IsPast("Scan", sub) /\ Reached = sub /\ sub \in Nat /\ at \in Nat
  BY PlanShape DEF Types, Whereabouts, Reached
<1> QED
  BY <1>1 DEF ListShape, ListedOnce, Found

LEMMA ListShapeKept ==
    ASSUME Types, Whereabouts, ListShape, BeforeCrash, Steps
    PROVE  ListShape'
<1>0. \A p \in DOMAIN list : PathOf[list[p]] \in Int
  BY PathNumbers DEF Types
<1> USE DEF vars, filesVars, progress, threadVars, saveVars, ghosts,
        FastMoveStep, ScanUnchanged, CopyUnchanged, OpenUnchanged,
        WriteUnchanged, OthersUnchanged, DeleteUnchanged, DeleteStep,
        SaveUnchanged, Starts, Halt, Throw, CopyPlaces, FilePlaces
<1>1. CASE \/ UNCHANGED vars \/ Begin \/ Finish \/ NextSubTask
  BY <1>1, PlanShape
     DEF vars, Begin, Finish, NextSubTask, Types, Whereabouts, ListShape, Found,
         ListedOnce, Reached
<1>2. CASE End
  BY <1>2, PlanShape DEF End, Types, Whereabouts, ListShape, Found,
         ListedOnce, Reached
<1>3. CASE FastMove
  BY <1>3, PlanShape
     DEF FastMove, StartFastMove, FastMoveSkipsHandled, FastMoveCannotRead,
         Stopped, AnswersStop, FastMoveMarks, FastMoveImpossible, FastMoveFails,
         FastMoveEnds, FastMoveMoves, Types, Whereabouts, ListShape, Found,
         ListedOnce, Reached
<1>4. CASE StartScan
  BY <1>4, PlanShape DEF StartScan, Types, Whereabouts, ListShape, Found,
         ListedOnce, Reached
<1>5. CASE ScanSkipsHandled
  <2>1. /\ list' = list /\ complete' = complete /\ processed' = processed
        /\ stats' = stats /\ sub' = sub /\ pc = "Scan" /\ pc' \in {"Scan", "End"}
        /\ at' = at \/ at' = at + 1
    BY <1>5 DEF ScanSkipsHandled, DeclineAll, Stopped, AnswersStop
  <2>2. \A p \in DOMAIN list : PathOf[list[p]] < at + 1
    BY <1>0, Scanning, <2>1
  <2> QED
    BY Scanning, <2>1, <2>2 DEF ListShape, ListedOnce, Found, Reached
<1>6. CASE ScanPath
  <2>1. /\ complete' = complete /\ processed' = processed
        /\ stats' = stats /\ sub' = sub /\ pc = "Scan" /\ at \in Paths
    BY <1>6 DEF ScanPath
  <2>2. CASE kill /\ list' = <<>> /\ pc' = "End"
    BY Scanning, <2>1, <2>2 DEF ListShape, ListedOnce, Found, Reached
  <2>3. CASE list' = list \o FilesUnder(at) /\ at' = at + 1 /\ pc' = pc
    <3> DEFINE found == FilesUnder(at)
    <3>1. /\ found \in Seq(Files) /\ list \in Seq(Files)
          /\ \A p \in DOMAIN found : PathOf[found[p]] = at
          /\ \A p, q \in DOMAIN found : found[p] = found[q] => p = q
      BY <2>1, FilesUnderFinds DEF Types
    <3> HIDE DEF found
    <3>2. /\ DOMAIN (list \o found) = 1..(Len(list) + Len(found))
          /\ \A p \in DOMAIN (list \o found) :
                \/ p \in DOMAIN list /\ (list \o found)[p] = list[p]
                \/ p - Len(list) \in DOMAIN found
                   /\ (list \o found)[p] = found[p - Len(list)]
      BY <3>1
    <3>3. \A p \in DOMAIN list : PathOf[list[p]] # at /\ PathOf[list[p]] < at + 1
      BY <1>0, Scanning, <2>1
    <3>4. \A p, q \in DOMAIN (list \o found) :
             (list \o found)[p] = (list \o found)[q] => p = q
      <4> SUFFICES ASSUME NEW p \in DOMAIN (list \o found),
                          NEW q \in DOMAIN (list \o found),
                          (list \o found)[p] = (list \o found)[q]
                   PROVE  p = q
        OBVIOUS
      <4>1. p \in Int /\ q \in Int /\ Len(list) \in Int
        BY <3>1, <3>2
      <4>2. CASE p \in DOMAIN list /\ (list \o found)[p] = list[p]
        <5>1. CASE q \in DOMAIN list /\ (list \o found)[q] = list[q]
          BY Scanning, <2>1, <4>2, <5>1
        <5>2. CASE q - Len(list) \in DOMAIN found
                   /\ (list \o found)[q] = found[q - Len(list)]
          BY <3>1, <3>3, <4>2, <5>2
        <5> QED
          BY <3>2, <5>1, <5>2
      <4>3. CASE p - Len(list) \in DOMAIN found
                 /\ (list \o found)[p] = found[p - Len(list)]
        <5>1. CASE q \in DOMAIN list /\ (list \o found)[q] = list[q]
          BY <3>1, <3>3, <4>3, <5>1
        <5>2. CASE q - Len(list) \in DOMAIN found
                   /\ (list \o found)[q] = found[q - Len(list)]
          <6>1. p - Len(list) = q - Len(list)
            BY <3>1, <4>3, <5>2
          <6> QED
            BY <4>1, <6>1
        <5> QED
          BY <3>2, <5>1, <5>2
      <4> QED
        BY <3>2, <4>2, <4>3
    <3>5. \A p \in DOMAIN (list \o found) : PathOf[(list \o found)[p]] < at + 1
      BY Scanning, <2>1, <3>1, <3>2, <3>3
    <3>6. list' = list \o found
      BY <2>3 DEF found
    <3> QED
      BY Scanning, <2>1, <2>3, <3>4, <3>5, <3>6
         DEF ListShape, ListedOnce, Found, Reached
  <2> QED
    BY <1>6, <2>2, <2>3 DEF ScanPath
<1>7. CASE ScanCannotRead
  <2>1. /\ list' = list /\ complete' = complete /\ processed' = processed
        /\ stats' = stats /\ sub' = sub /\ pc = "Scan" /\ pc' \in {"Scan", "End"}
        /\ at' = at \/ at' = at + 1
    BY <1>7 DEF ScanCannotRead, DeclineAll, Stopped, AnswersStop
  <2>2. \A p \in DOMAIN list : PathOf[list[p]] < at + 1
    BY <1>0, Scanning, <2>1
  <2> QED
    BY Scanning, <2>1, <2>2 DEF ListShape, ListedOnce, Found, Reached
<1>8. CASE ScanEnds
  BY <1>8, PlanShape DEF ScanEnds, Types, Whereabouts, ListShape, Found,
         ListedOnce, Reached
<1>9. CASE \/ StartCopy \/ CopyRefusesList \/ CopyKilled \/ CopySkipsProcessed
           \/ CopySetsIndex \/ CopySetsSizes \/ CopyHandled \/ CopyMarks
           \/ CopyDrops \/ CopyEnds
  BY <1>9, PlanShape
     DEF StartCopy, Stopped, AnswersStop, CopyRefusesList, CopyKilled,
         CopySkipsProcessed, CopyGoesOn, CopySetsIndex, CopySetsSizes,
         CopyHandled, CopyMarks, CopyDrops, CopyEnds, Types, Whereabouts, ListShape, Found,
         ListedOnce, Reached
<1>10. CASE Opened
  BY <1>10, PlanShape DEF Opened, Types, Whereabouts, ListShape, Found,
         ListedOnce, Reached
<1>11. CASE PassedOver
  BY <1>11, PlanShape DEF PassedOver, PassOver, Types, Whereabouts, ListShape, Found,
         ListedOnce, Reached
<1>12. CASE StoppedInFile
  BY <1>12, PlanShape DEF StoppedInFile, Types, Whereabouts, ListShape, Found,
         ListedOnce, Reached
<1>13. CASE \/ WriteChunk \/ AccountChunk \/ WriteEnds
  BY <1>13, PlanShape
     DEF WriteChunk, AccountChunk, WriteEnds, Types, Whereabouts, ListShape, Found,
         ListedOnce, Reached
<1>14. CASE Delete
  BY <1>14, PlanShape
     DEF Delete, StartDelete, DeleteKilled, DeleteSkips, DeleteFile, Stopped,
         AnswersStop, DeleteEnds, Types, Whereabouts, ListShape, Found,
         ListedOnce, Reached
<1>15. CASE Save
  BY <1>15, PlanShape
     DEF Save, SaveState, SaveFiles, SaveIndex, SaveStats, Types, Whereabouts,
         ListShape, Found,
         ListedOnce, Reached
<1>16. CASE Kill
  BY <1>16, PlanShape DEF Kill, Types, Whereabouts, ListShape, Found,
         ListedOnce, Reached
<1>17. CASE Restart
  <2>1. /\ list' = <<>> /\ complete' = FALSE /\ processed' = {} /\ sub' = 1
        /\ stats'.done = 0 /\ stats'.index = 1 /\ pc' = "None"
    BY <1>17 DEF Restart, NewStats
  <2> QED
    BY <2>1, PlanShape DEF ListShape, ListedOnce, Found, Reached
<1>18. CASE Crash
  <2>1. Resumable(saved)
    BY <1>18 DEF Crash, Spend, BeforeCrash, LeftType
  <2>2. /\ list' = saved.files.list /\ processed' = saved.files.processed
        /\ complete' = (saved.files.list # <<>>) /\ sub' = saved.sub
        /\ stats' = saved.stats /\ pc' = "None"
    BY <1>18 DEF Crash
  <2>3. ListedOnce(saved.files) /\ (saved.files.list # <<>> => IsPast("Scan", saved.sub))
        /\ (saved.stats.done # 0 => IsPast("Scan", saved.sub))
        /\ (~IsPast("Scan", saved.sub) => saved.stats.index = 1)
    BY <2>1 DEF Resumable
  <2> QED
    BY <2>2, <2>3 DEF ListShape, ListedOnce, Found, Reached
<1> QED
  BY <1>1, <1>2, <1>3, <1>4, <1>5, <1>6, <1>7, <1>8, <1>9, <1>10, <1>11, <1>12,
     <1>13, <1>14, <1>15, <1>16, <1>17, <1>18
     DEF Steps, FastMove, Scan, Delete, Save

\* What the sessions have in common.
LEMMA Restrictions ==
    ASSUME Types, Bounded, Uninterrupted \/ CrashingOnce
    PROVE  /\ ~StaleStops
           /\ left.crash # 0 => CrashingOnce /\ left.crash = 1
           /\ CrashingOnce => ~SavesOverlap /\ left.restart = 0
<1>1. /\ MaxCrashes \in Nat /\ MaxRestarts \in Nat
      /\ left.crash \in Nat /\ left.restart \in Nat
  BY BoundAssumption DEF Types, LeftType
<1> QED
  BY <1>1 DEF Uninterrupted, CrashingOnce, Bounded

LEMMA CrashContinues ==
    ASSUME Types, Bounded, BeforeCrash, Uninterrupted \/ CrashingOnce, Crash
    PROVE  /\ Resumable(saved)
           /\ left'.crash = 0 /\ pc' = "None" /\ saving' = "Idle" /\ saved' = saved
           /\ list' = saved.files.list /\ processed' = saved.files.processed
           /\ complete' = (saved.files.list # <<>>) /\ sub' = saved.sub
           /\ stats' = saved.stats /\ handled' = saved.handled /\ state' = saved.state
           /\ src' = src /\ dst' = dst /\ declined' = declined
<1>1. left.crash # 0 /\ left' = [left EXCEPT !.crash = left.crash - 1]
  <2>1. left.crash \in Nat /\ left.crash > 0
    BY DEF Crash, Spend, Types, LeftType
  <2>2. left' = [left EXCEPT !.crash = left.crash - 1]
    BY DEF Crash, Spend
  <2> QED
    BY <2>1, <2>2
<1>2. left.crash = 1
  BY <1>1, Restrictions
<1>3. left'.crash = 0
  BY <1>1, <1>2 DEF Types, LeftType
<1> QED
  BY <1>1, <1>3 DEF Crash, BeforeCrash, filesVars, ghosts

\* Once no crash is left, none comes back.
LEMMA CrashesLeft ==
    ASSUME Types, Bounded, BeforeCrash, Uninterrupted \/ CrashingOnce, Steps
    PROVE  left'.crash # 0 => left'.crash = left.crash /\ left.crash # 0
BY BoundedKept, CrashContinues

LEMMA AtFile ==
    ASSUME Types, CurrentFile, pc \in FilePlaces
    PROVE  /\ at \in DOMAIN list /\ at \in Nat /\ at = stats.index
           /\ File \in Files /\ File = list[stats.index]
           /\ Size[File] \in Nat /\ dst[File] \in Contents
BY FileKnown DEF Types, CurrentFile, File

\* After a file the thread is past the place that the statistics tell of.
LEMMA FilePassed ==
    ASSUME Types, Whereabouts, CurrentFile, FirstMark,
           CopyHandled \/ CopyMarks \/ CopyDrops \/ PassedOver \/ CopySkipsProcessed
    PROVE  /\ \/ pc' = "Copy" /\ at' = at + 1 /\ at' > stats'.index
              \/ pc' = "Drop" /\ at' = at
           /\ stats'.index = stats.index /\ stats' \in StatsType
<1>1. at \in Nat /\ stats.index \in Nat /\ stats \in StatsType
  BY DEF Types, StatsType
<1>2. at >= stats.index
  BY <1>1 DEF FirstMark, CurrentFile, CopyHandled, CopyMarks, CopyDrops, PassedOver,
              CopySkipsProcessed, CopyGoesOn, FilePlaces
<1>3. \A n \in Nat : [stats EXCEPT !.done = n].index = stats.index
                     /\ [stats EXCEPT !.done = n] \in StatsType
  BY <1>1 DEF StatsType
<1>4. stats'.index = stats.index /\ stats' \in StatsType
  BY <1>1, <1>3, AtFile
     DEF CopyHandled, CopyMarks, CopyDrops, PassedOver, PassOver, CopySkipsProcessed,
         FilePlaces
<1>5. (pc' = "Copy" /\ at' = at + 1) \/ (pc' = "Drop" /\ at' = at)
  BY DEF CopyHandled, CopyMarks, CopyDrops, PassedOver, PassOver, CopySkipsProcessed,
         CopyGoesOn
<1> QED
  BY <1>1, <1>2, <1>4, <1>5

LEMMA ScanStarts ==
    ASSUME Types, Whereabouts, ListShape, StartScan
    PROVE  ~complete /\ processed = {}
<1>1. pc = "Execute" /\ sub \in DOMAIN Plan /\ Plan[sub] = "Scan"
  BY PlanShape DEF StartScan, Starts, Whereabouts, Types
<1>2. ~complete
  BY <1>1, PlanShape DEF ListShape, Reached
<1> QED
  BY <1>2 DEF ListShape

LEMMA PendingMarkKept ==
    ASSUME Types, Whereabouts, ListShape, PendingMark, FirstMark, CurrentFile, Bounded,
           BeforeCrash, Uninterrupted \/ CrashingOnce, Steps
    PROVE  PendingMark'
<1>0. left'.crash # 0 => left'.crash = left.crash
  BY CrashesLeft
<1> USE DEF vars, filesVars, progress, threadVars, saveVars, ghosts,
        FastMoveStep, ScanUnchanged, CopyUnchanged, OpenUnchanged,
        WriteUnchanged, OthersUnchanged, DeleteUnchanged, DeleteStep,
        SaveUnchanged, Starts, Halt, Throw
<1>1. CASE \/ UNCHANGED vars \/ Begin \/ Finish \/ NextSubTask
  BY <1>1, <1>0
     DEF vars, Begin, Finish, NextSubTask, Types, Whereabouts, ListShape,
         PendingMark, Pending, Fits, MarkFits, MarkExact, CopyPlaces, FilePlaces
<1>2. CASE End
  BY <1>2, <1>0
     DEF End, Types, Whereabouts, ListShape, PendingMark, Pending, Fits,
         MarkFits, MarkExact, CopyPlaces, FilePlaces
<1>3. CASE FastMove
  BY <1>3, <1>0
     DEF FastMove, StartFastMove, FastMoveSkipsHandled, FastMoveCannotRead,
         Stopped, AnswersStop, FastMoveMarks, FastMoveImpossible, FastMoveFails,
         FastMoveEnds, FastMoveMoves, Types, Whereabouts, ListShape,
         PendingMark, Pending, Fits, MarkFits, MarkExact, CopyPlaces, FilePlaces
<1>4. CASE StartScan
  BY <1>4, <1>0
     DEF StartScan, Types, Whereabouts, ListShape, PendingMark, Pending, Fits,
         MarkFits, MarkExact, CopyPlaces, FilePlaces
<1>5. CASE ScanSkipsHandled
  BY <1>5, <1>0
     DEF ScanSkipsHandled, Types, Whereabouts, ListShape, PendingMark, Pending,
         Fits, MarkFits, MarkExact, CopyPlaces, FilePlaces
<1>6. CASE ScanPath
  <2>1. pc = "Scan" /\ stats' = stats
    BY <1>6 DEF ScanPath
  <2> QED
    BY <2>1, Scanning DEF PendingMark
<1>7. CASE ScanCannotRead
  BY <1>7, <1>0
     DEF ScanCannotRead, DeclineAll, Stopped, AnswersStop, Types, Whereabouts,
         ListShape, PendingMark, Pending, Fits, MarkFits, MarkExact, CopyPlaces,
         FilePlaces
<1>8. CASE ScanEnds
  BY <1>8, <1>0
     DEF ScanEnds, Types, Whereabouts, ListShape, PendingMark, Pending, Fits,
         MarkFits, MarkExact, CopyPlaces, FilePlaces
<1>9. CASE StartCopy
  BY <1>9, <1>0
     DEF StartCopy, Stopped, AnswersStop, Types, Whereabouts, ListShape,
         PendingMark, Pending, Fits, MarkFits, MarkExact, CopyPlaces, FilePlaces
<1>10. CASE CopyRefusesList
  BY <1>10, <1>0
     DEF CopyRefusesList, Types, Whereabouts, ListShape, PendingMark, Pending,
         Fits, MarkFits, MarkExact, CopyPlaces, FilePlaces
<1>11. CASE CopyKilled
  <2>1. /\ pc = "Copy" /\ pc' = "End" /\ list' = list /\ stats' = stats
        /\ processed' = processed /\ dst' = dst
        /\ stats.done = 0 \/ at = stats.index
    <3>1. at \in Nat /\ stats.index \in Nat /\ at >= stats.index /\ pc = "Copy"
      BY <1>11 DEF CopyKilled, FirstMark, Types, StatsType
    <3>2. stats.done = 0 \/ ~(at > stats.index)
      BY <1>11, Restrictions DEF CopyKilled, Stale
    <3> QED
      BY <1>11, <3>1, <3>2 DEF CopyKilled
  <2> QED
    BY <1>0, <2>1 DEF PendingMark, Pending, Fits, MarkFits, MarkExact
<1>12. CASE CopySkipsProcessed
  BY <1>12, FilePassed DEF PendingMark, Pending, CopyPlaces, FilePlaces, StatsType
<1>13. CASE CopySetsIndex
  BY <1>13, <1>0
     DEF CopySetsIndex, CopyGoesOn, Types, Whereabouts, ListShape, PendingMark,
         Pending, Fits, MarkFits, MarkExact, CopyPlaces, FilePlaces
<1>14. CASE CopySetsSizes
  <2>1. pc = "Sizes" /\ list' = list /\ processed' = processed /\ dst' = dst
    BY <1>14 DEF CopySetsSizes
  <2>2. CASE first.done > Size[File]
    <3>1. stats' = [stats EXCEPT !.done = first.done]
      BY <1>14, <2>2 DEF CopySetsSizes
    <3>2. /\ stats'.done = first.done /\ stats'.silent = stats.silent
          /\ stats'.index = stats.index
      BY <3>1 DEF Types, StatsType
    <3>3. File = list[stats.index] /\ File \notin processed /\ Fits(File, first)
          /\ (first.done # 0 => first.silent = stats.silent)
      BY <2>1, AtFile DEF FirstMark, CurrentFile, FilePlaces
    <3> QED
      BY <1>0, <2>1, <3>2, <3>3 DEF PendingMark, Fits, MarkFits, MarkExact
  <2>3. CASE ~(first.done > Size[File])
    <3>1. pc' \in {"Handled", "Open"}
      BY <1>14, <2>3 DEF CopySetsSizes
    <3> QED
      BY <3>1 DEF PendingMark, Pending, CopyPlaces, FilePlaces
  <2> QED
    BY <2>2, <2>3
<1>15. CASE CopyHandled
  BY <1>15, FilePassed DEF PendingMark, Pending, CopyPlaces, FilePlaces, StatsType
<1>16. CASE CopyMarks
  BY <1>16, FilePassed DEF PendingMark, Pending, CopyPlaces, FilePlaces, StatsType
<1>17. CASE CopyDrops
  BY <1>17, FilePassed DEF PendingMark, Pending, CopyPlaces, FilePlaces, StatsType
<1>18. CASE CopyEnds
  BY <1>18, <1>0
     DEF CopyEnds, CopyGoesOn, Types, Whereabouts, ListShape, PendingMark,
         Pending, Fits, MarkFits, MarkExact, CopyPlaces, FilePlaces
<1>19. CASE Opened
  BY <1>19, <1>0
     DEF Opened, Types, Whereabouts, ListShape, PendingMark, Pending, Fits,
         MarkFits, MarkExact, CopyPlaces, FilePlaces
<1>20. CASE PassedOver
  BY <1>20, FilePassed DEF PendingMark, Pending, CopyPlaces, FilePlaces, StatsType
<1>21. CASE StoppedInFile
  <2>1. /\ File \notin processed /\ File = list[stats.index] /\ Fits(File, stats')
        /\ list' = list /\ processed' = processed /\ dst' = dst
        /\ stats'.index = stats.index
    BY <1>21, AtFile DEF StoppedInFile, CurrentFile, FilePlaces, Types, StatsType
  <2> QED
    BY <1>0, <2>1 DEF PendingMark, Fits, MarkFits, MarkExact
<1>22. CASE WriteChunk
  BY <1>22, <1>0
     DEF WriteChunk, Types, Whereabouts, ListShape, PendingMark, Pending, Fits,
         MarkFits, MarkExact, CopyPlaces, FilePlaces
<1>23. CASE AccountChunk
  BY <1>23, <1>0
     DEF AccountChunk, Types, Whereabouts, ListShape, PendingMark, Pending,
         Fits, MarkFits, MarkExact, CopyPlaces, FilePlaces
<1>24. CASE WriteEnds
  BY <1>24, <1>0
     DEF WriteEnds, Types, Whereabouts, ListShape, PendingMark, Pending, Fits,
         MarkFits, MarkExact, CopyPlaces, FilePlaces
<1>25. CASE Delete
  BY <1>25, <1>0
     DEF Delete, StartDelete, DeleteKilled, DeleteSkips, DeleteFile, Stopped,
         AnswersStop, DeleteEnds, Types, Whereabouts, ListShape, PendingMark,
         Pending, Fits, MarkFits, MarkExact, CopyPlaces, FilePlaces
<1>26. CASE Save
  BY <1>26, <1>0
     DEF Save, SaveState, SaveFiles, SaveIndex, SaveStats, Types, Whereabouts,
         ListShape, PendingMark, Pending, Fits, MarkFits, MarkExact, CopyPlaces,
         FilePlaces
<1>27. CASE Kill
  BY <1>27, <1>0
     DEF Kill, Types, Whereabouts, ListShape, PendingMark, Pending, Fits,
         MarkFits, MarkExact, CopyPlaces, FilePlaces
<1>28. CASE Restart
  BY <1>28, <1>0
     DEF Restart, Types, Whereabouts, ListShape, PendingMark, Pending, Fits,
         MarkFits, MarkExact, CopyPlaces, FilePlaces
<1>29. CASE Crash
  <2>1. MarkStands(saved.files, saved.stats) /\ left'.crash = 0
        /\ list' = saved.files.list /\ processed' = saved.files.processed
        /\ stats' = saved.stats /\ dst' = dst
    BY <1>29, CrashContinues DEF Resumable
  <2> QED
    BY <2>1 DEF PendingMark, MarkStands, Fits, MarkFits
<1> QED
  BY <1>1, <1>2, <1>3, <1>4, <1>5, <1>6, <1>7, <1>8, <1>9, <1>10, <1>11, <1>12,
     <1>13, <1>14, <1>15, <1>16, <1>17, <1>18, <1>19, <1>20, <1>21, <1>22,
     <1>23, <1>24, <1>25, <1>26, <1>27, <1>28, <1>29
     DEF Steps, FastMove, Scan, Delete, Save

LEMMA FirstMarkKept ==
    ASSUME Types, Whereabouts, ListShape, PendingMark, FirstMark, CurrentFile, Bounded,
           BeforeCrash, Uninterrupted \/ CrashingOnce, Steps
    PROVE  FirstMark'
<1>0. left'.crash # 0 => left'.crash = left.crash
  BY CrashesLeft
<1> USE DEF vars, filesVars, progress, threadVars, saveVars, ghosts,
        FastMoveStep, ScanUnchanged, CopyUnchanged, OpenUnchanged,
        WriteUnchanged, OthersUnchanged, DeleteUnchanged, DeleteStep,
        SaveUnchanged, Starts, Halt, Throw
<1>1. CASE \/ UNCHANGED vars \/ Begin \/ Finish \/ NextSubTask
  BY <1>1, <1>0
     DEF vars, Begin, Finish, NextSubTask, Types, FirstMark, Fits, MarkFits,
         MarkExact, CopyPlaces, FilePlaces, File
<1>2. CASE End
  BY <1>2, <1>0
     DEF End, Types, FirstMark, Fits, MarkFits, MarkExact, CopyPlaces,
         FilePlaces, File
<1>3. CASE FastMove
  BY <1>3, <1>0
     DEF FastMove, StartFastMove, FastMoveSkipsHandled, FastMoveCannotRead,
         Stopped, AnswersStop, FastMoveMarks, FastMoveImpossible, FastMoveFails,
         FastMoveEnds, FastMoveMoves, Types, FirstMark, Fits, MarkFits,
         MarkExact, CopyPlaces, FilePlaces, File
<1>4. CASE Scan
  BY <1>4, <1>0
     DEF Scan, StartScan, ScanSkipsHandled, ScanPath, ScanCannotRead,
         DeclineAll, Stopped, AnswersStop, ScanEnds, Types, FirstMark, Fits,
         MarkFits, MarkExact, CopyPlaces, FilePlaces, File
<1>5. CASE StartCopy
  <2>1. /\ stats'.index = stats.index /\ stats'.done = stats.done
        /\ stats'.silent = stats.silent /\ stats.index \in Nat
    BY <1>5 DEF StartCopy, Types, StatsType
  <2>2. \/ pc' = "Copy" /\ at' = stats.index
           /\ first' = [done |-> stats.done, silent |-> stats.silent]
        \/ pc' = "End"
    BY <1>5 DEF StartCopy, Stopped, AnswersStop
  <2> QED
    BY <2>1, <2>2 DEF FirstMark, FilePlaces
<1>6. CASE CopyRefusesList
  BY <1>6, <1>0
     DEF CopyRefusesList, Types, FirstMark, Fits, MarkFits, MarkExact,
         CopyPlaces, FilePlaces, File
<1>7. CASE CopyKilled
  BY <1>7, <1>0
     DEF CopyKilled, Types, FirstMark, Fits, MarkFits, MarkExact, CopyPlaces,
         FilePlaces, File
<1>8. CASE CopySkipsProcessed
  <2>1. /\ pc = "Copy" /\ pc' = "Copy" /\ at' = at + 1 /\ first' = first
        /\ stats' = stats /\ File \in processed /\ at <= Len(list)
    BY <1>8 DEF CopySkipsProcessed, CopyGoesOn
  <2>2. at \in Nat \ {0} /\ stats.index \in Nat /\ at \in DOMAIN list
    BY <2>1 DEF Types, StatsType
  <2>3. at = stats.index => stats.done = 0
    BY <2>1, <2>2 DEF PendingMark, Pending, File
  <2> QED
    BY <2>1, <2>2, <2>3 DEF FirstMark, FilePlaces
<1>9. CASE CopySetsIndex
  <2>1. /\ pc = "Copy" /\ pc' = "Sizes" /\ at' = at /\ first' = first
        /\ stats' = [stats EXCEPT !.index = at] /\ at <= Len(list)
        /\ list' = list /\ dst' = dst
    BY <1>9 DEF CopySetsIndex, CopyGoesOn
  <2>2. at \in Nat \ {0} /\ at \in DOMAIN list /\ stats'.silent = stats.silent
    BY <2>1 DEF Types, StatsType
  <2>3. first.done # 0 => /\ at = stats.index /\ first.done = stats.done
                          /\ first.silent = stats.silent
    BY <2>1 DEF FirstMark
  <2>4. first.done # 0 => Fits(File, stats)
    BY <2>1, <2>2, <2>3 DEF PendingMark, Pending, File
  <2>5. Fits(File, first)
    BY <2>3, <2>4 DEF Fits, MarkFits, MarkExact
  <2>6. Fits(File, first)'
    BY <1>0, <2>1, <2>5 DEF Fits, MarkFits, MarkExact, File
  <2> QED
    BY <2>1, <2>2, <2>3, <2>6 DEF FirstMark, FilePlaces
<1>10. CASE CopySetsSizes
  BY <1>10, <1>0
     DEF CopySetsSizes, Types, FirstMark, Fits, MarkFits, MarkExact, CopyPlaces,
         FilePlaces, File
<1>11. CASE CopyHandled
  <2>1. first' = first /\ first.done = 0 /\ at \in Nat /\ stats'.index \in Nat
    BY <1>11, FilePassed DEF CopyHandled, FirstMark, FilePlaces, Types, StatsType
  <2> QED
    BY <1>11, <2>1, FilePassed DEF FirstMark, FilePlaces
<1>12. CASE CopyMarks
  <2>1. first' = first /\ first.done = 0 /\ at \in Nat /\ stats'.index \in Nat
    BY <1>12, FilePassed DEF CopyMarks, FirstMark, FilePlaces, Types, StatsType
  <2> QED
    BY <1>12, <2>1, FilePassed DEF FirstMark, FilePlaces
<1>13. CASE CopyDrops
  <2>1. first' = first /\ first.done = 0 /\ at \in Nat /\ stats'.index \in Nat
    BY <1>13, FilePassed DEF CopyDrops, FirstMark, FilePlaces, Types, StatsType
  <2> QED
    BY <1>13, <2>1, FilePassed DEF FirstMark, FilePlaces
<1>14. CASE CopyEnds
  BY <1>14, <1>0
     DEF CopyEnds, CopyGoesOn, Types, FirstMark, Fits, MarkFits, MarkExact,
         CopyPlaces, FilePlaces, File
<1>15. CASE Opened
  BY <1>15, <1>0
     DEF Opened, Types, FirstMark, Fits, MarkFits, MarkExact, CopyPlaces,
         FilePlaces, File
<1>16. CASE PassedOver
  <2>1. first' = first /\ first.done = 0 /\ at \in Nat /\ stats'.index \in Nat
    BY <1>16, FilePassed DEF PassedOver, FirstMark, FilePlaces, Types, StatsType
  <2> QED
    BY <1>16, <2>1, FilePassed DEF FirstMark, FilePlaces
<1>17. CASE StoppedInFile
  BY <1>17, <1>0
     DEF StoppedInFile, Types, FirstMark, Fits, MarkFits, MarkExact, CopyPlaces,
         FilePlaces, File
<1>18. CASE \/ WriteChunk \/ AccountChunk \/ WriteEnds
  BY <1>18, <1>0
     DEF WriteChunk, AccountChunk, WriteEnds, Types, FirstMark, Fits, MarkFits,
         MarkExact, CopyPlaces, FilePlaces, File
<1>19. CASE Delete
  BY <1>19, <1>0
     DEF Delete, StartDelete, DeleteKilled, DeleteSkips, DeleteFile, Stopped,
         AnswersStop, DeleteEnds, Types, FirstMark, Fits, MarkFits, MarkExact,
         CopyPlaces, FilePlaces, File
<1>20. CASE Save
  BY <1>20, <1>0
     DEF Save, SaveState, SaveFiles, SaveIndex, SaveStats, Types, FirstMark,
         Fits, MarkFits, MarkExact, CopyPlaces, FilePlaces, File
<1>21. CASE Kill
  BY <1>21, <1>0
     DEF Kill, Types, FirstMark, Fits, MarkFits, MarkExact, CopyPlaces,
         FilePlaces, File
<1>22. CASE Restart
  BY <1>22, <1>0
     DEF Restart, Types, FirstMark, Fits, MarkFits, MarkExact, CopyPlaces,
         FilePlaces, File
<1>23. CASE Crash
  BY <1>23, <1>0
     DEF Crash, Types, FirstMark, Fits, MarkFits, MarkExact, CopyPlaces,
         FilePlaces, File
<1> QED
  BY <1>1, <1>2, <1>3, <1>4, <1>5, <1>6, <1>7, <1>8, <1>9, <1>10, <1>11, <1>12,
     <1>13, <1>14, <1>15, <1>16, <1>17, <1>18, <1>19, <1>20, <1>21, <1>22, <1>23
     DEF Steps, FastMove, Scan, Delete, Save

LEMMA CurrentFileKept ==
    ASSUME Types, Whereabouts, ListShape, FirstMark, CurrentFile, Bounded,
           BeforeCrash, Uninterrupted \/ CrashingOnce, Steps
    PROVE  CurrentFile'
<1>0. left'.crash # 0 => left'.crash = left.crash
  BY CrashesLeft
<1> USE DEF vars, filesVars, progress, threadVars, saveVars, ghosts,
        FastMoveStep, ScanUnchanged, CopyUnchanged, OpenUnchanged,
        WriteUnchanged, OthersUnchanged, DeleteUnchanged, DeleteStep,
        SaveUnchanged, Starts, Halt, Throw
<1>1. CASE \/ UNCHANGED vars \/ Begin \/ Finish \/ NextSubTask
  BY <1>1, <1>0
     DEF vars, Begin, Finish, NextSubTask, Types, CurrentFile, Fits, MarkFits,
         MarkExact, CopyPlaces, FilePlaces, File
<1>2. CASE End
  BY <1>2, <1>0
     DEF End, Types, CurrentFile, Fits, MarkFits, MarkExact, CopyPlaces,
         FilePlaces, File
<1>3. CASE FastMove
  BY <1>3, <1>0
     DEF FastMove, StartFastMove, FastMoveSkipsHandled, FastMoveCannotRead,
         Stopped, AnswersStop, FastMoveMarks, FastMoveImpossible, FastMoveFails,
         FastMoveEnds, FastMoveMoves, Types, CurrentFile, Fits, MarkFits,
         MarkExact, CopyPlaces, FilePlaces, File
<1>4. CASE Scan
  BY <1>4, <1>0
     DEF Scan, StartScan, ScanSkipsHandled, ScanPath, ScanCannotRead,
         DeclineAll, Stopped, AnswersStop, ScanEnds, Types, CurrentFile, Fits,
         MarkFits, MarkExact, CopyPlaces, FilePlaces, File
<1>5. CASE StartCopy
  BY <1>5, <1>0
     DEF StartCopy, Stopped, AnswersStop, Types, CurrentFile, Fits, MarkFits,
         MarkExact, CopyPlaces, FilePlaces, File
<1>6. CASE CopyRefusesList
  BY <1>6, <1>0
     DEF CopyRefusesList, Types, CurrentFile, Fits, MarkFits, MarkExact,
         CopyPlaces, FilePlaces, File
<1>7. CASE CopyKilled
  BY <1>7, <1>0
     DEF CopyKilled, Types, CurrentFile, Fits, MarkFits, MarkExact, CopyPlaces,
         FilePlaces, File
<1>8. CASE CopySkipsProcessed
  BY <1>8, <1>0
     DEF CopySkipsProcessed, CopyGoesOn, Types, CurrentFile, Fits, MarkFits,
         MarkExact, CopyPlaces, FilePlaces, File
<1>9. CASE CopySetsIndex
  BY <1>9, <1>0
     DEF CopySetsIndex, CopyGoesOn, Types, CurrentFile, Fits, MarkFits,
         MarkExact, CopyPlaces, FilePlaces, File
<1>10. CASE CopySetsSizes
  <2>1. /\ pc = "Sizes" /\ pc' \in {"None", "Handled", "Open"} /\ at' = at /\ list' = list
        /\ processed' = processed /\ handled' = handled /\ dst' = dst
        /\ pc' = "Handled" => PathOf[File] \in handled
        /\ pc' = "Open" => /\ PathOf[File] \notin handled
                           /\ stats' = [stats EXCEPT !.done = first.done,
                                                     !.silent = first.silent]
    <3>1. CASE first.done > Size[File]
      BY <1>10, <3>1 DEF CopySetsSizes
    <3>2. CASE ~(first.done > Size[File])
      BY <1>10, <3>2 DEF CopySetsSizes
    <3> QED
      BY <3>1, <3>2
  <2>2. at = stats.index /\ File \notin processed /\ Fits(File, first)
    BY <2>1 DEF CurrentFile, FirstMark, FilePlaces
  <2>3. pc' = "Open" => /\ stats'.done = first.done /\ stats'.silent = first.silent
                        /\ stats'.index = stats.index
    BY <2>1 DEF Types, StatsType
  <2>4. pc' = "Open" => Fits(File, stats)'
    BY <1>0, <2>1, <2>2, <2>3 DEF Fits, MarkFits, MarkExact, File
  <2>5. pc' = "Handled" => stats'.index = stats.index
    BY <1>10, <2>1 DEF CopySetsSizes, Types, StatsType
  <2> QED
    BY <2>1, <2>2, <2>3, <2>4, <2>5 DEF CurrentFile, FilePlaces, File
<1>11. CASE CopyHandled
  BY <1>11, <1>0
     DEF CopyHandled, Types, CurrentFile, Fits, MarkFits, MarkExact, CopyPlaces,
         FilePlaces, File
<1>12. CASE CopyMarks
  BY <1>12, <1>0
     DEF CopyMarks, Types, CurrentFile, Fits, MarkFits, MarkExact, CopyPlaces,
         FilePlaces, File
<1>13. CASE CopyDrops
  BY <1>13, <1>0
     DEF CopyDrops, Types, CurrentFile, Fits, MarkFits, MarkExact, CopyPlaces,
         FilePlaces, File
<1>14. CASE CopyEnds
  BY <1>14, <1>0
     DEF CopyEnds, CopyGoesOn, Types, CurrentFile, Fits, MarkFits, MarkExact,
         CopyPlaces, FilePlaces, File
<1>15. CASE Opened
  BY <1>15, <1>0
     DEF Opened, Types, CurrentFile, Fits, MarkFits, MarkExact, CopyPlaces,
         FilePlaces, File
<1>16. CASE PassedOver
  BY <1>16, <1>0
     DEF PassedOver, PassOver, Types, CurrentFile, Fits, MarkFits, MarkExact,
         CopyPlaces, FilePlaces, File
<1>17. CASE StoppedInFile
  BY <1>17, <1>0
     DEF StoppedInFile, Types, CurrentFile, Fits, MarkFits, MarkExact,
         CopyPlaces, FilePlaces, File
<1>18. CASE WriteChunk
  <2>1. /\ pc = "Write" /\ pc' = "Write" /\ at' = at /\ list' = list /\ src' = src
        /\ stats' = stats /\ processed' = processed /\ handled' = handled
        /\ dst' = [dst EXCEPT ![File] = Append(dst[File], "data")]
        /\ Len(dst[File]) = stats.done /\ stats.done < Size[File]
    BY <1>18 DEF WriteChunk
  <2>2. /\ File \in Files /\ Size[File] \in Nat /\ dst[File] \in Seq(Chunks)
        /\ IsData(dst[File]) /\ stats.done \in Nat
    BY <2>1, AtFile, ContentTypes DEF CurrentFile, FilePlaces, IsData, Types, StatsType
  <2>3. /\ IsData(dst'[File]) /\ Len(dst'[File]) = stats.done + 1
    BY <2>1, <2>2, DataAppended DEF Types
  <2>4. stats.done + 1 <= Size[File]
    BY <2>1, <2>2
  <2> QED
    BY <2>1, <2>3, <2>4 DEF CurrentFile, FilePlaces, File
<1>19. CASE AccountChunk
  BY <1>19, <1>0
     DEF AccountChunk, Types, CurrentFile, Fits, MarkFits, MarkExact,
         CopyPlaces, FilePlaces, File
<1>20. CASE WriteEnds
  <2>1. /\ pc = "Write" /\ pc' \in {"Copied", "End"} /\ at' = at /\ list' = list
        /\ stats' = [stats EXCEPT !.done = 0] /\ stats.done = Size[File]
        /\ processed' = processed /\ handled' = handled /\ dst' = dst
    BY <1>20 DEF WriteEnds, LastWritten
  <2>2. /\ File \in Files /\ Size[File] \in Nat /\ dst[File] \in Seq(Chunks)
        /\ IsData(dst[File]) /\ Len(dst[File]) = Size[File]
    BY <2>1, AtFile, ContentTypes DEF CurrentFile, FilePlaces, IsData, Types
  <2>3. dst[File] = Whole(File)
    BY <2>2, DataOfFullLength
  <2>4. stats'.done = 0 /\ stats'.silent = stats.silent /\ stats'.index = stats.index
    BY <2>1 DEF Types, StatsType
  <2> QED
    BY <2>1, <2>3, <2>4 DEF CurrentFile, FilePlaces, File
<1>21. CASE Delete
  BY <1>21, <1>0
     DEF Delete, StartDelete, DeleteKilled, DeleteSkips, DeleteFile, Stopped,
         AnswersStop, DeleteEnds, Types, CurrentFile, Fits, MarkFits, MarkExact,
         CopyPlaces, FilePlaces, File
<1>22. CASE Save
  BY <1>22, <1>0
     DEF Save, SaveState, SaveFiles, SaveIndex, SaveStats, Types, CurrentFile,
         Fits, MarkFits, MarkExact, CopyPlaces, FilePlaces, File
<1>23. CASE Kill
  BY <1>23, <1>0
     DEF Kill, Types, CurrentFile, Fits, MarkFits, MarkExact, CopyPlaces,
         FilePlaces, File
<1>24. CASE Restart
  BY <1>24, <1>0
     DEF Restart, Types, CurrentFile, Fits, MarkFits, MarkExact, CopyPlaces,
         FilePlaces, File
<1>25. CASE Crash
  BY <1>25, <1>0
     DEF Crash, Types, CurrentFile, Fits, MarkFits, MarkExact, CopyPlaces,
         FilePlaces, File
<1> QED
  BY <1>1, <1>2, <1>3, <1>4, <1>5, <1>6, <1>7, <1>8, <1>9, <1>10, <1>11, <1>12,
     <1>13, <1>14, <1>15, <1>16, <1>17, <1>18, <1>19, <1>20, <1>21, <1>22,
     <1>23, <1>24, <1>25
     DEF Steps, FastMove, Scan, Delete, Save

-----------------------------------------------------------------------------
(* What a step does to the files of the user *)

LEMMA FilesKept ==
    ASSUME Types, CurrentFile, Steps
    PROVE  /\ src' \subseteq src
           /\ Restart \/ declined \subseteq declined'
           /\ Restart \/ Crash \/ handled \subseteq handled'
           /\ \A i \in Files :
                 \/ dst'[i] = dst[i]
                 \/ /\ pc = "FastMove" /\ i \in src \ src'
                    /\ dst[i] = NoFile /\ dst'[i] = Whole(i)
                 \/ pc \in {"Open", "Write"} /\ i = File
<1> USE DEF vars, filesVars, progress, threadVars, saveVars, ghosts,
        FastMoveStep, ScanUnchanged, CopyUnchanged, OpenUnchanged,
        WriteUnchanged, OthersUnchanged, DeleteUnchanged, DeleteStep,
        SaveUnchanged, Starts, Halt, Throw
<1>1. CASE \/ UNCHANGED vars \/ Begin \/ Finish \/ NextSubTask
  BY <1>1 DEF vars, Begin, Finish, NextSubTask, Types, CopyPlaces, FilePlaces
<1>2. CASE End
  BY <1>2 DEF End, Types, CopyPlaces, FilePlaces
<1>3. CASE FastMove
  BY <1>3
     DEF FastMove, StartFastMove, FastMoveSkipsHandled, FastMoveCannotRead,
         DeclineAll, Stopped, AnswersStop, FastMoveMarks, FastMoveImpossible,
         FastMoveFails, FastMoveEnds, FastMoveMoves, Types, CopyPlaces,
         FilePlaces
<1>4. CASE Scan
  BY <1>4
     DEF Scan, StartScan, ScanSkipsHandled, ScanPath, ScanCannotRead,
         DeclineAll, Stopped, AnswersStop, ScanEnds, Types, CopyPlaces,
         FilePlaces
<1>5. CASE \/ StartCopy \/ CopyRefusesList \/ CopyKilled \/ CopySkipsProcessed
           \/ CopySetsIndex \/ CopySetsSizes \/ CopyHandled \/ CopyMarks
           \/ CopyDrops \/ CopyEnds
  BY <1>5
     DEF StartCopy, Stopped, AnswersStop, CopyRefusesList, CopyKilled,
         CopySkipsProcessed, CopyGoesOn, CopySetsIndex, CopySetsSizes,
         CopyHandled, CopyMarks, CopyDrops, CopyEnds, Types, CopyPlaces,
         FilePlaces
<1>6. CASE Opened
  BY <1>6 DEF Opened, Types, CopyPlaces, FilePlaces
<1>7. CASE PassedOver
  BY <1>7 DEF PassedOver, PassOver, Types, CopyPlaces, FilePlaces
<1>8. CASE StoppedInFile
  BY <1>8 DEF StoppedInFile, Types, CopyPlaces, FilePlaces
<1>9. CASE \/ WriteChunk \/ AccountChunk \/ WriteEnds
  BY <1>9 DEF WriteChunk, AccountChunk, WriteEnds, Types, CopyPlaces, FilePlaces
<1>10. CASE Delete
  BY <1>10
     DEF Delete, StartDelete, DeleteKilled, DeleteSkips, DeleteFile, Stopped,
         AnswersStop, DeleteEnds, Types, CopyPlaces, FilePlaces
<1>11. CASE Save
  BY <1>11
     DEF Save, SaveState, SaveFiles, SaveIndex, SaveStats, Types, CopyPlaces,
         FilePlaces
<1>12. CASE Kill
  BY <1>12 DEF Kill, Types, CopyPlaces, FilePlaces
<1>13. CASE Restart
  BY <1>13 DEF Restart, Types, CopyPlaces, FilePlaces
<1>14. CASE Crash
  BY <1>14 DEF Crash, Types, CopyPlaces, FilePlaces
<1> QED
  BY <1>1, <1>2, <1>3, <1>4, <1>5, <1>6, <1>7, <1>8, <1>9, <1>10, <1>11, <1>12,
     <1>13, <1>14
     DEF Steps, FastMove, Scan, Delete, Save

\* Marks are not taken back.
LEMMA ProcessedKept ==
    ASSUME Types, Whereabouts, ListShape, CurrentFile, Steps, ~Restart, ~Crash
    PROVE  processed \subseteq processed'
<1> USE DEF vars, filesVars, progress, threadVars, saveVars, ghosts,
        FastMoveStep, ScanUnchanged, CopyUnchanged, OpenUnchanged,
        WriteUnchanged, OthersUnchanged, DeleteUnchanged, DeleteStep,
        SaveUnchanged, Starts, Halt, Throw
<1>1. CASE \/ UNCHANGED vars \/ Begin \/ Finish \/ NextSubTask
  BY <1>1
     DEF vars, Begin, Finish, NextSubTask, Types, CurrentFile, CopyPlaces,
         FilePlaces
<1>2. CASE End
  BY <1>2 DEF End, ListShape
<1>3. CASE FastMove
  BY <1>3
     DEF FastMove, StartFastMove, FastMoveSkipsHandled, FastMoveCannotRead,
         DeclineAll, Stopped, AnswersStop, FastMoveMarks, FastMoveImpossible,
         FastMoveFails, FastMoveEnds, FastMoveMoves, Types, CurrentFile,
         CopyPlaces, FilePlaces
<1>4. CASE StartScan
  BY <1>4, ScanStarts
<1>5. CASE ScanSkipsHandled
  BY <1>5 DEF ScanSkipsHandled, Types, CurrentFile, CopyPlaces, FilePlaces
<1>6. CASE ScanPath
  BY <1>6 DEF ScanPath, Types, CurrentFile, CopyPlaces, FilePlaces
<1>7. CASE ScanCannotRead
  BY <1>7
     DEF ScanCannotRead, DeclineAll, Stopped, AnswersStop, Types, CurrentFile,
         CopyPlaces, FilePlaces
<1>8. CASE ScanEnds
  BY <1>8 DEF ScanEnds, Types, CurrentFile, CopyPlaces, FilePlaces
<1>9. CASE \/ StartCopy \/ CopyRefusesList \/ CopyKilled \/ CopySkipsProcessed
           \/ CopySetsIndex \/ CopySetsSizes \/ CopyHandled \/ CopyMarks
           \/ CopyDrops \/ CopyEnds
  BY <1>9
     DEF StartCopy, Stopped, AnswersStop, CopyRefusesList, CopyKilled,
         CopySkipsProcessed, CopyGoesOn, CopySetsIndex, CopySetsSizes,
         CopyHandled, CopyMarks, CopyDrops, CopyEnds, Types, CurrentFile,
         CopyPlaces, FilePlaces
<1>10. CASE Opened
  BY <1>10 DEF Opened, Types, CurrentFile, CopyPlaces, FilePlaces
<1>11. CASE PassedOver
  BY <1>11 DEF PassedOver, PassOver, Types, CurrentFile, CopyPlaces, FilePlaces
<1>12. CASE StoppedInFile
  BY <1>12 DEF StoppedInFile, Types, CurrentFile, CopyPlaces, FilePlaces
<1>13. CASE \/ WriteChunk \/ AccountChunk \/ WriteEnds
  BY <1>13
     DEF WriteChunk, AccountChunk, WriteEnds, Types, CurrentFile, CopyPlaces,
         FilePlaces
<1>14. CASE Delete
  BY <1>14
     DEF Delete, StartDelete, DeleteKilled, DeleteSkips, DeleteFile, Stopped,
         AnswersStop, DeleteEnds, Types, CurrentFile, CopyPlaces, FilePlaces
<1>15. CASE Save
  BY <1>15
     DEF Save, SaveState, SaveFiles, SaveIndex, SaveStats, Types, CurrentFile,
         CopyPlaces, FilePlaces
<1>16. CASE Kill
  BY <1>16 DEF Kill, Types, CurrentFile, CopyPlaces, FilePlaces
<1>17. CASE Restart
  BY <1>17 DEF Restart, Types, CurrentFile, CopyPlaces, FilePlaces
<1>18. CASE Crash
  BY <1>18 DEF Crash, Types, CurrentFile, CopyPlaces, FilePlaces
<1> QED
  BY <1>1, <1>2, <1>3, <1>4, <1>5, <1>6, <1>7, <1>8, <1>9, <1>10, <1>11, <1>12,
     <1>13, <1>14, <1>15, <1>16, <1>17, <1>18
     DEF Steps, FastMove, Scan, Delete, Save

\* A file that has arrived stays where it is, unless it is the one being copied.
LEMMA ArrivedKept ==
    ASSUME Types, CurrentFile, Steps, ~Restart, NEW i \in Files,
           pc \in {"Open", "Write"} => i # File
    PROVE  /\ Arrived(i) => Arrived(i)'
           /\ dst[i] = Whole(i) => dst'[i] = Whole(i)
BY FilesKept DEF Arrived, Whole

-----------------------------------------------------------------------------
(* Progress *)

LEMMA MovedWholeKept ==
    ASSUME Types, NoDataLost, MovedWhole, Steps
    PROVE  MovedWhole'
<1> USE DEF vars, filesVars, progress, threadVars, saveVars, ghosts,
        FastMoveStep, ScanUnchanged, CopyUnchanged, OpenUnchanged,
        WriteUnchanged, OthersUnchanged, DeleteUnchanged, DeleteStep,
        SaveUnchanged, Starts, Halt, Throw
<1>1. CASE \/ UNCHANGED vars \/ Begin \/ Finish \/ NextSubTask
  BY <1>1
     DEF vars, Begin, Finish, NextSubTask, Types, MovedWhole, NoDataLost,
         CopyPlaces, FilePlaces
<1>2. CASE End
  BY <1>2 DEF End, Types, MovedWhole, NoDataLost, CopyPlaces, FilePlaces
<1>3. CASE FastMove
  BY <1>3
     DEF FastMove, StartFastMove, FastMoveSkipsHandled, FastMoveCannotRead,
         DeclineAll, Stopped, AnswersStop, FastMoveMarks, FastMoveImpossible,
         FastMoveFails, FastMoveEnds, FastMoveMoves, Types, MovedWhole,
         NoDataLost, CopyPlaces, FilePlaces
<1>4. CASE Scan
  BY <1>4
     DEF Scan, StartScan, ScanSkipsHandled, ScanPath, ScanCannotRead,
         DeclineAll, Stopped, AnswersStop, ScanEnds, Types, MovedWhole,
         NoDataLost, CopyPlaces, FilePlaces
<1>5. CASE \/ StartCopy \/ CopyRefusesList \/ CopyKilled \/ CopySkipsProcessed
           \/ CopySetsIndex \/ CopySetsSizes \/ CopyHandled \/ CopyMarks
           \/ CopyDrops \/ CopyEnds
  BY <1>5
     DEF StartCopy, Stopped, AnswersStop, CopyRefusesList, CopyKilled,
         CopySkipsProcessed, CopyGoesOn, CopySetsIndex, CopySetsSizes,
         CopyHandled, CopyMarks, CopyDrops, CopyEnds, Types, MovedWhole,
         NoDataLost, CopyPlaces, FilePlaces
<1>6. CASE Opened
  BY <1>6 DEF Opened, Types, MovedWhole, NoDataLost, CopyPlaces, FilePlaces
<1>7. CASE PassedOver
  BY <1>7
     DEF PassedOver, PassOver, Types, MovedWhole, NoDataLost, CopyPlaces,
         FilePlaces
<1>8. CASE StoppedInFile
  BY <1>8
     DEF StoppedInFile, Types, MovedWhole, NoDataLost, CopyPlaces, FilePlaces
<1>9. CASE \/ WriteChunk \/ AccountChunk \/ WriteEnds
  BY <1>9
     DEF WriteChunk, AccountChunk, WriteEnds, Types, MovedWhole, NoDataLost,
         CopyPlaces, FilePlaces
<1>10. CASE Delete
  BY <1>10
     DEF Delete, StartDelete, DeleteKilled, DeleteSkips, DeleteFile, Stopped,
         AnswersStop, DeleteEnds, Types, MovedWhole, NoDataLost, CopyPlaces,
         FilePlaces
<1>11. CASE Save
  BY <1>11
     DEF Save, SaveState, SaveFiles, SaveIndex, SaveStats, Types, MovedWhole,
         NoDataLost, CopyPlaces, FilePlaces
<1>12. CASE Kill
  BY <1>12 DEF Kill, Types, MovedWhole, NoDataLost, CopyPlaces, FilePlaces
<1>13. CASE Restart
  BY <1>13 DEF Restart, Types, MovedWhole, NoDataLost, CopyPlaces, FilePlaces
<1>14. CASE Crash
  BY <1>14 DEF Crash, Types, MovedWhole, NoDataLost, CopyPlaces, FilePlaces
<1> QED
  BY <1>1, <1>2, <1>3, <1>4, <1>5, <1>6, <1>7, <1>8, <1>9, <1>10, <1>11, <1>12,
     <1>13, <1>14
     DEF Steps, FastMove, Scan, Delete, Save

LEMMA FinishedAtEndKept ==
    ASSUME Types, Whereabouts, FinishedAtEnd, Bounded, BeforeCrash,
           Uninterrupted \/ CrashingOnce, Steps
    PROVE  FinishedAtEnd'
<1> USE DEF vars, filesVars, progress, threadVars, saveVars, ghosts,
        FastMoveStep, ScanUnchanged, CopyUnchanged, OpenUnchanged,
        WriteUnchanged, OthersUnchanged, DeleteUnchanged, DeleteStep,
        SaveUnchanged, Starts, Halt, Throw
<1>1. CASE \/ UNCHANGED vars \/ Begin \/ Finish \/ NextSubTask
  BY <1>1
     DEF vars, Begin, Finish, NextSubTask, Types, Whereabouts, FinishedAtEnd,
         CopyPlaces, FilePlaces
<1>2. CASE End
  BY <1>2 DEF End, Types, Whereabouts, FinishedAtEnd, CopyPlaces, FilePlaces
<1>3. CASE FastMove
  BY <1>3
     DEF FastMove, StartFastMove, FastMoveSkipsHandled, FastMoveCannotRead,
         DeclineAll, Stopped, AnswersStop, FastMoveMarks, FastMoveImpossible,
         FastMoveFails, FastMoveEnds, FastMoveMoves, Types, Whereabouts,
         FinishedAtEnd, CopyPlaces, FilePlaces
<1>4. CASE Scan
  BY <1>4
     DEF Scan, StartScan, ScanSkipsHandled, ScanPath, ScanCannotRead,
         DeclineAll, Stopped, AnswersStop, ScanEnds, Types, Whereabouts,
         FinishedAtEnd, CopyPlaces, FilePlaces
<1>5. CASE \/ StartCopy \/ CopyRefusesList \/ CopyKilled \/ CopySkipsProcessed
           \/ CopySetsIndex \/ CopySetsSizes \/ CopyHandled \/ CopyMarks
           \/ CopyDrops \/ CopyEnds
  BY <1>5
     DEF StartCopy, Stopped, AnswersStop, CopyRefusesList, CopyKilled,
         CopySkipsProcessed, CopyGoesOn, CopySetsIndex, CopySetsSizes,
         CopyHandled, CopyMarks, CopyDrops, CopyEnds, Types, Whereabouts,
         FinishedAtEnd, CopyPlaces, FilePlaces
<1>6. CASE Opened
  BY <1>6 DEF Opened, Types, Whereabouts, FinishedAtEnd, CopyPlaces, FilePlaces
<1>7. CASE PassedOver
  BY <1>7
     DEF PassedOver, PassOver, Types, Whereabouts, FinishedAtEnd, CopyPlaces,
         FilePlaces
<1>8. CASE StoppedInFile
  BY <1>8
     DEF StoppedInFile, Types, Whereabouts, FinishedAtEnd, CopyPlaces,
         FilePlaces
<1>9. CASE \/ WriteChunk \/ AccountChunk \/ WriteEnds
  BY <1>9
     DEF WriteChunk, AccountChunk, WriteEnds, Types, Whereabouts, FinishedAtEnd,
         CopyPlaces, FilePlaces
<1>10. CASE Delete
  BY <1>10
     DEF Delete, StartDelete, DeleteKilled, DeleteSkips, DeleteFile, Stopped,
         AnswersStop, DeleteEnds, Types, Whereabouts, FinishedAtEnd, CopyPlaces,
         FilePlaces
<1>11. CASE Save
  BY <1>11
     DEF Save, SaveState, SaveFiles, SaveIndex, SaveStats, Types, Whereabouts,
         FinishedAtEnd, CopyPlaces, FilePlaces
<1>12. CASE Kill
  BY <1>12 DEF Kill, Types, Whereabouts, FinishedAtEnd, CopyPlaces, FilePlaces
<1>13. CASE Restart
  BY <1>13
     DEF Restart, Types, Whereabouts, FinishedAtEnd, CopyPlaces, FilePlaces
<1>14. CASE Crash
  BY <1>14, CrashContinues DEF FinishedAtEnd, Resumable
<1> QED
  BY <1>1, <1>2, <1>3, <1>4, <1>5, <1>6, <1>7, <1>8, <1>9, <1>10, <1>11, <1>12,
     <1>13, <1>14
     DEF Steps, FastMove, Scan, Delete, Save

LEMMA ScannedListedKept ==
    ASSUME Types, Whereabouts, ListShape, ScannedListed, Steps
    PROVE  ScannedListed'
<1> USE DEF vars, filesVars, progress, threadVars, saveVars, ghosts,
        FastMoveStep, ScanUnchanged, CopyUnchanged, OpenUnchanged,
        WriteUnchanged, OthersUnchanged, DeleteUnchanged, DeleteStep,
        SaveUnchanged, Starts, Halt, Throw
<1>1. CASE \/ UNCHANGED vars \/ Begin \/ Finish \/ NextSubTask
  BY <1>1
     DEF vars, Begin, Finish, NextSubTask, Types, ScannedListed, Listed, Found,
         CopyPlaces, FilePlaces
<1>2. CASE End
  BY <1>2 DEF End, Types, ScannedListed, Listed, Found, CopyPlaces, FilePlaces
<1>3. CASE FastMove
  BY <1>3
     DEF FastMove, StartFastMove, FastMoveSkipsHandled, FastMoveCannotRead,
         DeclineAll, Stopped, AnswersStop, FastMoveMarks, FastMoveImpossible,
         FastMoveFails, FastMoveEnds, FastMoveMoves, Types, ScannedListed,
         Listed, Found, CopyPlaces, FilePlaces
<1>4. CASE StartScan
  <2>1. src' = src /\ at' = 1
    BY <1>4 DEF StartScan
  <2> QED
    BY <2>1, PathNumbers DEF ScannedListed, Types
<1>5. CASE ScanSkipsHandled
  <2>1. /\ pc = "Scan" /\ src' = src /\ at' = at + 1 /\ at \in handled
        /\ list' = list /\ handled' = handled /\ declined' = declined
    BY <1>5 DEF ScanSkipsHandled
  <2>2. \A i \in src : PathOf[i] < at + 1 => PathOf[i] < at \/ PathOf[i] = at
    BY PathNumbers DEF Types
  <2> QED
    BY <2>1, <2>2 DEF ScannedListed, Listed, Found
<1>6. CASE ScanPath
  <2>1. /\ pc = "Scan" /\ src' = src /\ handled' = handled /\ declined' = declined
        /\ \/ pc' = "End"
           \/ at' = at + 1 /\ list' = list \o FilesUnder(at)
    BY <1>6 DEF ScanPath
  <2>2. \A i \in src : PathOf[i] < at + 1 => PathOf[i] < at \/ PathOf[i] = at
    BY PathNumbers DEF Types
  <2>3. \A i \in src : PathOf[i] = at =>
           \E p \in DOMAIN (list \o FilesUnder(at)) : (list \o FilesUnder(at))[p] = i
    <3>0. src \subseteq Files
      BY DEF Types
    <3>1. /\ FilesUnder(at) \in Seq(Files)
          /\ \A i \in src : PathOf[i] = at =>
                \E q \in DOMAIN FilesUnder(at) : FilesUnder(at)[q] = i
      BY <3>0, FilesUnderFinds
    <3> DEFINE found == FilesUnder(at)
    <3> HIDE DEF found
    <3> SUFFICES ASSUME NEW i \in src, PathOf[i] = at
                 PROVE  \E p \in DOMAIN (list \o FilesUnder(at)) :
                           (list \o FilesUnder(at))[p] = i
      OBVIOUS
    <3>2. PICK q \in DOMAIN found : found[q] = i
      BY <3>1 DEF found
    <3>3. list \in Seq(Files) /\ found \in Seq(Files) /\ q \in 1..Len(found)
      BY <3>1, <3>2 DEF found, Types
    <3>4. /\ Len(list) + q \in DOMAIN (list \o found)
          /\ (list \o found)[Len(list) + q] = found[q]
      BY <3>3
    <3> QED
      BY <3>2, <3>4 DEF found
  <2>4. \A p \in DOMAIN list : p \in DOMAIN (list \o FilesUnder(at))
                               /\ (list \o FilesUnder(at))[p] = list[p]
    <3> DEFINE found == FilesUnder(at)
    <3>1. list \in Seq(Files) /\ found \in Seq(Files)
      BY FilesUnderFinds DEF Types
    <3> HIDE DEF found
    <3>2. \A p \in DOMAIN list : p \in DOMAIN (list \o found)
                                 /\ (list \o found)[p] = list[p]
      BY <3>1
    <3> QED
      BY <3>2 DEF found
  <2>5. CASE pc' = "End"
    BY <2>5 DEF ScannedListed
  <2>6. CASE at' = at + 1 /\ list' = list \o FilesUnder(at)
    <3>1. \A i \in src : Listed(i, Found) => Listed(i, Found)'
      BY <2>4, <2>6 DEF Listed, Found
    <3>2. \A i \in src : PathOf[i] = at => Listed(i, Found)'
      BY <2>3, <2>6 DEF Listed, Found
    <3> QED
      BY <2>1, <2>2, <2>6, <3>1, <3>2 DEF ScannedListed
  <2> QED
    BY <2>1, <2>5, <2>6
<1>7. CASE ScanCannotRead
  <2>1. /\ pc = "Scan" /\ src' = src /\ list' = list /\ handled' = handled
        /\ \/ pc' = "End"
           \/ /\ at' = at + 1
              /\ declined' = declined \cup {i \in src : PathOf[i] = at}
    BY <1>7 DEF ScanCannotRead, DeclineAll, Stopped, AnswersStop
  <2>2. \A i \in src : PathOf[i] < at + 1 => PathOf[i] < at \/ PathOf[i] = at
    BY PathNumbers DEF Types
  <2> QED
    BY <2>1, <2>2 DEF ScannedListed, Listed, Found
<1>8. CASE ScanEnds
  BY <1>8
     DEF ScanEnds, Types, ScannedListed, Listed, Found, CopyPlaces, FilePlaces
<1>9. CASE \/ StartCopy \/ CopyRefusesList \/ CopyKilled \/ CopySkipsProcessed
           \/ CopySetsIndex \/ CopySetsSizes \/ CopyHandled \/ CopyMarks
           \/ CopyDrops \/ CopyEnds
  BY <1>9
     DEF StartCopy, Stopped, AnswersStop, CopyRefusesList, CopyKilled,
         CopySkipsProcessed, CopyGoesOn, CopySetsIndex, CopySetsSizes,
         CopyHandled, CopyMarks, CopyDrops, CopyEnds, Types, ScannedListed,
         Listed, Found, CopyPlaces, FilePlaces
<1>10. CASE Opened
  BY <1>10
     DEF Opened, Types, ScannedListed, Listed, Found, CopyPlaces, FilePlaces
<1>11. CASE PassedOver
  BY <1>11
     DEF PassedOver, PassOver, Types, ScannedListed, Listed, Found, CopyPlaces,
         FilePlaces
<1>12. CASE StoppedInFile
  BY <1>12
     DEF StoppedInFile, Types, ScannedListed, Listed, Found, CopyPlaces,
         FilePlaces
<1>13. CASE \/ WriteChunk \/ AccountChunk \/ WriteEnds
  BY <1>13
     DEF WriteChunk, AccountChunk, WriteEnds, Types, ScannedListed, Listed,
         Found, CopyPlaces, FilePlaces
<1>14. CASE Delete
  BY <1>14
     DEF Delete, StartDelete, DeleteKilled, DeleteSkips, DeleteFile, Stopped,
         AnswersStop, DeleteEnds, Types, ScannedListed, Listed, Found,
         CopyPlaces, FilePlaces
<1>15. CASE Save
  BY <1>15
     DEF Save, SaveState, SaveFiles, SaveIndex, SaveStats, Types, ScannedListed,
         Listed, Found, CopyPlaces, FilePlaces
<1>16. CASE Kill
  BY <1>16 DEF Kill, Types, ScannedListed, Listed, Found, CopyPlaces, FilePlaces
<1>17. CASE Restart
  BY <1>17
     DEF Restart, Types, ScannedListed, Listed, Found, CopyPlaces, FilePlaces
<1>18. CASE Crash
  BY <1>18
     DEF Crash, Types, ScannedListed, Listed, Found, CopyPlaces, FilePlaces
<1> QED
  BY <1>1, <1>2, <1>3, <1>4, <1>5, <1>6, <1>7, <1>8, <1>9, <1>10, <1>11, <1>12,
     <1>13, <1>14, <1>15, <1>16, <1>17, <1>18
     DEF Steps, FastMove, Scan, Delete, Save

LEMMA SourceListedKept ==
    ASSUME Types, Whereabouts, ListShape, CurrentFile, ScannedListed, SourceListed,
           Bounded, BeforeCrash, Uninterrupted \/ CrashingOnce, Steps
    PROVE  SourceListed'
<1> USE DEF vars, filesVars, progress, threadVars, saveVars, ghosts,
        FastMoveStep, ScanUnchanged, CopyUnchanged, OpenUnchanged,
        WriteUnchanged, OthersUnchanged, DeleteUnchanged, DeleteStep,
        SaveUnchanged, Starts, Halt, Throw
<1>1. CASE \/ UNCHANGED vars \/ Begin \/ Finish \/ NextSubTask
  BY <1>1, PlanShape
     DEF vars, Begin, Finish, NextSubTask, Types, Whereabouts, SourceListed,
         AllListed, Listed, Found, Reached, CopyPlaces, FilePlaces
<1>2. CASE End
  <2>1. /\ src' = src /\ declined' = declined /\ handled' = handled /\ sub' = sub
        /\ pc = "End" /\ pc' = "None"
        /\ list' = IF complete THEN list ELSE <<>>
    BY <1>2 DEF End
  <2>2. ASSUME IsPast("Scan", sub)
        PROVE  list' = list /\ AllListed(Found, handled)
    BY <2>1, <2>2 DEF SourceListed, Reached, ListShape
  <2> QED
    BY <2>1, <2>2 DEF SourceListed, Reached, AllListed, Listed, Found
<1>3. CASE FastMove
  BY <1>3, PlanShape
     DEF FastMove, StartFastMove, FastMoveSkipsHandled, FastMoveCannotRead,
         DeclineAll, Stopped, AnswersStop, FastMoveMarks, FastMoveImpossible,
         FastMoveFails, FastMoveEnds, FastMoveMoves, Types, Whereabouts,
         SourceListed, AllListed, Listed, Found, Reached, CopyPlaces, FilePlaces
<1>4. CASE StartScan
  BY <1>4, PlanShape
     DEF StartScan, Types, Whereabouts, SourceListed, AllListed, Listed, Found,
         Reached, CopyPlaces, FilePlaces
<1>5. CASE ScanSkipsHandled
  BY <1>5, PlanShape
     DEF ScanSkipsHandled, Types, Whereabouts, SourceListed, AllListed, Listed,
         Found, Reached, CopyPlaces, FilePlaces
<1>6. CASE ScanPath
  BY <1>6, PlanShape
     DEF ScanPath, Types, Whereabouts, SourceListed, AllListed, Listed, Found,
         Reached, CopyPlaces, FilePlaces
<1>7. CASE ScanCannotRead
  BY <1>7, PlanShape
     DEF ScanCannotRead, DeclineAll, Stopped, AnswersStop, Types, Whereabouts,
         SourceListed, AllListed, Listed, Found, Reached, CopyPlaces, FilePlaces
<1>8. CASE ScanEnds
  <2>1. /\ src' = src /\ declined' = declined /\ handled' = handled /\ list' = list
        /\ pc = "Scan" /\ at \notin Paths
    BY <1>8 DEF ScanEnds
  <2>2. \A i \in src : PathOf[i] < at
    BY <2>1, Scanning, PathNumbers DEF Types
  <2> QED
    BY <2>1, <2>2 DEF SourceListed, ScannedListed, AllListed, Listed, Found
<1>9. CASE \/ StartCopy \/ CopyRefusesList \/ CopyKilled \/ CopySkipsProcessed
           \/ CopySetsIndex \/ CopySetsSizes \/ CopyHandled \/ CopyMarks
           \/ CopyDrops \/ CopyEnds
  BY <1>9, PlanShape
     DEF StartCopy, Stopped, AnswersStop, CopyRefusesList, CopyKilled,
         CopySkipsProcessed, CopyGoesOn, CopySetsIndex, CopySetsSizes,
         CopyHandled, CopyMarks, CopyDrops, CopyEnds, Types, Whereabouts,
         SourceListed, AllListed, Listed, Found, Reached, CopyPlaces, FilePlaces
<1>10. CASE Opened
  BY <1>10, PlanShape
     DEF Opened, Types, Whereabouts, SourceListed, AllListed, Listed, Found,
         Reached, CopyPlaces, FilePlaces
<1>11. CASE PassedOver
  BY <1>11, PlanShape
     DEF PassedOver, PassOver, Types, Whereabouts, SourceListed, AllListed,
         Listed, Found, Reached, CopyPlaces, FilePlaces
<1>12. CASE StoppedInFile
  BY <1>12, PlanShape
     DEF StoppedInFile, Types, Whereabouts, SourceListed, AllListed, Listed,
         Found, Reached, CopyPlaces, FilePlaces
<1>13. CASE \/ WriteChunk \/ AccountChunk \/ WriteEnds
  BY <1>13, PlanShape
     DEF WriteChunk, AccountChunk, WriteEnds, Types, Whereabouts, SourceListed,
         AllListed, Listed, Found, Reached, CopyPlaces, FilePlaces
<1>14. CASE Delete
  BY <1>14, PlanShape
     DEF Delete, StartDelete, DeleteKilled, DeleteSkips, DeleteFile, Stopped,
         AnswersStop, DeleteEnds, Types, Whereabouts, SourceListed, AllListed,
         Listed, Found, Reached, CopyPlaces, FilePlaces
<1>15. CASE Save
  BY <1>15, PlanShape
     DEF Save, SaveState, SaveFiles, SaveIndex, SaveStats, Types, Whereabouts,
         SourceListed, AllListed, Listed, Found, Reached, CopyPlaces, FilePlaces
<1>16. CASE Kill
  BY <1>16, PlanShape
     DEF Kill, Types, Whereabouts, SourceListed, AllListed, Listed, Found,
         Reached, CopyPlaces, FilePlaces
<1>17. CASE Restart
  BY <1>17, PlanShape
     DEF Restart, Types, Whereabouts, SourceListed, AllListed, Listed, Found,
         Reached, CopyPlaces, FilePlaces
<1>18. CASE Crash
  <2>1. /\ IsPast("Scan", saved.sub) => AllListed(saved.files, saved.handled)
        /\ src' = src /\ declined' = declined /\ handled' = saved.handled
        /\ list' = saved.files.list /\ sub' = saved.sub /\ pc' = "None"
    BY <1>18, CrashContinues DEF Resumable
  <2> QED
    BY <2>1 DEF SourceListed, Reached, AllListed, Listed, Found
<1> QED
  BY <1>1, <1>2, <1>3, <1>4, <1>5, <1>6, <1>7, <1>8, <1>9, <1>10, <1>11, <1>12,
     <1>13, <1>14, <1>15, <1>16, <1>17, <1>18
     DEF Steps, FastMove, Scan, Delete, Save

\* One more file is treated.
LEMMA FrontAdvances ==
    ASSUME Types, PassedTreated(Found, at), list' = list, at' = at + 1, pc' = "Copy",
           src' \subseteq src, declined \subseteq declined',
           \A i \in processed : i \in processed' \/ Treated(i, processed)',
           \A i \in Files : at \in DOMAIN list /\ i = list[at] => Treated(i, processed)'
    PROVE  FrontTreated'
<1>1. \A i \in Files : Treated(i, processed) => Treated(i, processed)'
  BY DEF Treated
<1>2. at \in Nat /\ \A p \in DOMAIN list : list[p] \in Files /\ p \in Nat
  BY DEF Types
<1>3. \A p \in DOMAIN list : p < at + 1 => p < at \/ p = at
  BY <1>2
<1>4. \A p \in DOMAIN list : p < at + 1 => Treated(list[p], processed)'
  BY <1>1, <1>2, <1>3 DEF PassedTreated, Found
<1> QED
  BY <1>4 DEF FrontTreated, PassedTreated, Treated, Found, CopyPlaces

LEMMA FrontTreatedKept ==
    ASSUME Types, Types', Whereabouts, ListShape, FirstMark, CurrentFile,
           FrontTreated, Bounded, BeforeCrash, Uninterrupted \/ CrashingOnce, Steps
    PROVE  FrontTreated'
<1> USE DEF vars, filesVars, progress, threadVars, saveVars, ghosts,
        FastMoveStep, ScanUnchanged, CopyUnchanged, OpenUnchanged,
        WriteUnchanged, OthersUnchanged, DeleteUnchanged, DeleteStep,
        SaveUnchanged, Starts, Halt, Throw
<1>1. CASE \/ UNCHANGED vars \/ Begin \/ Finish \/ NextSubTask
  BY <1>1
     DEF vars, Begin, Finish, NextSubTask, Types, FrontTreated, PassedTreated,
         Treated, Found, CurrentFile, CopyPlaces, FilePlaces
<1>2. CASE End
  BY <1>2
     DEF End, Types, FrontTreated, PassedTreated, Treated, Found, CurrentFile,
         CopyPlaces, FilePlaces
<1>3. CASE FastMove
  BY <1>3
     DEF FastMove, StartFastMove, FastMoveSkipsHandled, FastMoveCannotRead,
         DeclineAll, Stopped, AnswersStop, FastMoveMarks, FastMoveImpossible,
         FastMoveFails, FastMoveEnds, FastMoveMoves, Types, FrontTreated,
         PassedTreated, Treated, Found, CurrentFile, CopyPlaces, FilePlaces
<1>4. CASE StartScan
  BY <1>4
     DEF StartScan, Types, FrontTreated, PassedTreated, Treated, Found,
         CurrentFile, CopyPlaces, FilePlaces
<1>5. CASE ScanSkipsHandled
  BY <1>5
     DEF ScanSkipsHandled, Types, FrontTreated, PassedTreated, Treated, Found,
         CurrentFile, CopyPlaces, FilePlaces
<1>6. CASE ScanPath
  <2>1. pc = "Scan" /\ pc' \in {"Scan", "End"} /\ stats' = stats
    BY <1>6 DEF ScanPath
  <2>2. stats'.index = 1 /\ \A p \in DOMAIN list' : ~(p < 1)
    <3>1. list' \in Seq(Files)
      BY DEF Types
    <3> QED
      BY <2>1, <3>1, Scanning
  <2> QED
    BY <2>1, <2>2 DEF FrontTreated, PassedTreated, Found, CopyPlaces, FilePlaces
<1>7. CASE ScanCannotRead
  BY <1>7
     DEF ScanCannotRead, DeclineAll, Stopped, AnswersStop, Types, FrontTreated,
         PassedTreated, Treated, Found, CurrentFile, CopyPlaces, FilePlaces
<1>8. CASE ScanEnds
  BY <1>8
     DEF ScanEnds, Types, FrontTreated, PassedTreated, Treated, Found,
         CurrentFile, CopyPlaces, FilePlaces
<1>9. CASE StartCopy
  BY <1>9
     DEF StartCopy, Stopped, AnswersStop, Types, FrontTreated, PassedTreated,
         Treated, Found, CurrentFile, CopyPlaces, FilePlaces
<1>10. CASE CopyRefusesList
  BY <1>10
     DEF CopyRefusesList, Types, FrontTreated, PassedTreated, Treated, Found,
         CurrentFile, CopyPlaces, FilePlaces
<1>11. CASE CopyKilled
  <2>1. /\ pc = "Copy" /\ pc' = "End" /\ stats' = stats /\ list' = list
        /\ src' = src /\ processed' = processed /\ declined' = declined
    BY <1>11 DEF CopyKilled
  <2>2. at \in Nat /\ stats.index \in Nat /\ at >= stats.index
        /\ \A p \in DOMAIN list : p \in Nat
    BY <2>1 DEF FirstMark, Types, StatsType
  <2> QED
    BY <2>1, <2>2
       DEF FrontTreated, PassedTreated, Treated, Found, CopyPlaces, FilePlaces
<1>12. CASE CopySkipsProcessed
  <2>1. /\ pc = "Copy" /\ pc' = "Copy" /\ at' = at + 1 /\ list' = list
        /\ src' = src /\ processed' = processed /\ declined' = declined
        /\ list[at] \in processed
    BY <1>12 DEF CopySkipsProcessed, CopyGoesOn, File
  <2>2. PassedTreated(Found, at)
    BY <2>1 DEF FrontTreated, CopyPlaces
  <2> QED
    BY <2>1, <2>2, FrontAdvances DEF Treated
<1>13. CASE CopySetsIndex
  BY <1>13
     DEF CopySetsIndex, CopyGoesOn, Types, FrontTreated, PassedTreated, Treated,
         Found, CurrentFile, CopyPlaces, FilePlaces
<1>14. CASE CopySetsSizes
  <2>1. /\ pc = "Sizes" /\ pc' \in {"None", "Handled", "Open"} /\ at' = at
        /\ list' = list /\ src' = src /\ processed' = processed
        /\ declined' = declined /\ stats'.index = stats.index
    <3>1. CASE first.done > Size[File]
      BY <1>14, <3>1 DEF CopySetsSizes, Types, StatsType
    <3>2. CASE ~(first.done > Size[File])
      BY <1>14, <3>2 DEF CopySetsSizes, Types, StatsType
    <3> QED
      BY <3>1, <3>2
  <2>2. at = stats.index
    BY <2>1, AtFile DEF FilePlaces
  <2> QED
    BY <2>1, <2>2
       DEF FrontTreated, PassedTreated, Treated, Found, CopyPlaces, FilePlaces
<1>15. CASE CopyHandled
  <2>1. /\ pc = "Handled" /\ pc' = "Copy" /\ at' = at + 1 /\ list' = list
        /\ src' = src /\ processed' = processed \cup {list[at]}
        /\ declined' = declined
    BY <1>15 DEF CopyHandled, File
  <2>2. PassedTreated(Found, at)
    BY <2>1 DEF FrontTreated, CopyPlaces, FilePlaces
  <2> QED
    BY <2>1, <2>2, FrontAdvances DEF Treated
<1>16. CASE CopyMarks
  <2>1. /\ pc = "Copied" /\ list' = list /\ src' = src /\ declined' = declined
        /\ processed' = processed \cup {list[at]}
        /\ \/ pc' = "Copy" /\ at' = at + 1
           \/ pc' = "Drop" /\ at' = at
    BY <1>16 DEF CopyMarks, File
  <2>2. PassedTreated(Found, at)
    BY <2>1 DEF FrontTreated, CopyPlaces, FilePlaces
  <2>3. CASE pc' = "Copy" /\ at' = at + 1
    BY <2>1, <2>2, <2>3, FrontAdvances DEF Treated
  <2>4. CASE pc' = "Drop" /\ at' = at
    BY <2>1, <2>2, <2>4
       DEF FrontTreated, PassedTreated, Treated, Found, CopyPlaces, FilePlaces
  <2> QED
    BY <2>1, <2>3, <2>4
<1>17. CASE CopyDrops
  <2>1. /\ pc = "Drop" /\ pc' = "Copy" /\ at' = at + 1 /\ list' = list
        /\ src' \subseteq src /\ processed' = processed /\ declined' = declined
    BY <1>17 DEF CopyDrops
  <2>2. PassedTreated(Found, at) /\ list[at] \in processed
    BY <2>1 DEF FrontTreated, CurrentFile, File, CopyPlaces, FilePlaces
  <2> QED
    BY <2>1, <2>2, FrontAdvances DEF Treated
<1>18. CASE CopyEnds
  BY <1>18
     DEF CopyEnds, CopyGoesOn, Types, FrontTreated, PassedTreated, Treated,
         Found, CurrentFile, CopyPlaces, FilePlaces
<1>19. CASE Opened
  BY <1>19
     DEF Opened, Types, FrontTreated, PassedTreated, Treated, Found,
         CurrentFile, CopyPlaces, FilePlaces
<1>20. CASE PassedOver
  <2>1. /\ pc \in {"Open", "Write"} /\ pc' = "Copy" /\ at' = at + 1 /\ list' = list
        /\ src' = src /\ processed' = processed \ {list[at]}
        /\ declined' = declined \cup ({list[at]} \cap src)
    BY <1>20 DEF PassedOver, PassOver, File
  <2>2. PassedTreated(Found, at) /\ list[at] \notin processed
    BY <2>1 DEF FrontTreated, CurrentFile, File, CopyPlaces, FilePlaces
  <2> QED
    BY <2>1, <2>2, FrontAdvances DEF Treated
<1>21. CASE StoppedInFile
  BY <1>21
     DEF StoppedInFile, Types, FrontTreated, PassedTreated, Treated, Found,
         CurrentFile, CopyPlaces, FilePlaces
<1>22. CASE WriteChunk
  BY <1>22
     DEF WriteChunk, Types, FrontTreated, PassedTreated, Treated, Found,
         CurrentFile, CopyPlaces, FilePlaces
<1>23. CASE AccountChunk
  BY <1>23
     DEF AccountChunk, Types, FrontTreated, PassedTreated, Treated, Found,
         CurrentFile, CopyPlaces, FilePlaces
<1>24. CASE WriteEnds
  BY <1>24
     DEF WriteEnds, Types, FrontTreated, PassedTreated, Treated, Found,
         CurrentFile, CopyPlaces, FilePlaces
<1>25. CASE Delete
  BY <1>25
     DEF Delete, StartDelete, DeleteKilled, DeleteSkips, DeleteFile, Stopped,
         AnswersStop, DeleteEnds, Types, FrontTreated, PassedTreated, Treated,
         Found, CurrentFile, CopyPlaces, FilePlaces
<1>26. CASE Save
  BY <1>26
     DEF Save, SaveState, SaveFiles, SaveIndex, SaveStats, Types, FrontTreated,
         PassedTreated, Treated, Found, CurrentFile, CopyPlaces, FilePlaces
<1>27. CASE Kill
  BY <1>27
     DEF Kill, Types, FrontTreated, PassedTreated, Treated, Found, CurrentFile,
         CopyPlaces, FilePlaces
<1>28. CASE Restart
  BY <1>28
     DEF Restart, Types, FrontTreated, PassedTreated, Treated, Found,
         CurrentFile, CopyPlaces, FilePlaces
<1>29. CASE Crash
  <2>1. /\ PassedTreated(saved.files, saved.stats.index) /\ pc' = "None"
        /\ src' = src /\ declined' = declined /\ processed' = saved.files.processed
        /\ list' = saved.files.list /\ stats' = saved.stats
    BY <1>29, CrashContinues DEF Resumable
  <2> QED
    BY <2>1 DEF FrontTreated, PassedTreated, Treated, Found, CopyPlaces, FilePlaces
<1> QED
  BY <1>1, <1>2, <1>3, <1>4, <1>5, <1>6, <1>7, <1>8, <1>9, <1>10, <1>11, <1>12,
     <1>13, <1>14, <1>15, <1>16, <1>17, <1>18, <1>19, <1>20, <1>21, <1>22,
     <1>23, <1>24, <1>25, <1>26, <1>27, <1>28, <1>29
     DEF Steps, FastMove, Scan, Delete, Save

LEMMA CopiedArrivedKept ==
    ASSUME Types, Whereabouts, ListShape, NoDataLost, Progress, CurrentFile,
           Bounded, BeforeCrash, Uninterrupted \/ CrashingOnce, Steps
    PROVE  CopiedArrived'
<1>0. /\ pc \in CopyPlaces => ~IsPast("Copy", sub)
      /\ pc = "Execute" /\ sub \in DOMAIN Plan /\ Plan[sub] = "Copy"
            => ~IsPast("Copy", sub)
      /\ IsPast("Copy", Reached) => AllArrived
  BY PlanShape DEF Whereabouts, Progress, CopiedArrived
<1> USE DEF vars, filesVars, progress, threadVars, saveVars, ghosts,
        FastMoveStep, ScanUnchanged, CopyUnchanged, OpenUnchanged,
        WriteUnchanged, OthersUnchanged, DeleteUnchanged, DeleteStep,
        SaveUnchanged, Starts, Halt, Throw
<1>1. CASE \/ UNCHANGED vars \/ Begin \/ Finish \/ NextSubTask
  BY <1>1, <1>0, PlanShape
     DEF vars, Begin, Finish, NextSubTask, Types, Whereabouts, CopiedArrived,
         AllArrived, Arrived, Reached, CopyPlaces, FilePlaces
<1>2. CASE End
  BY <1>2, <1>0, PlanShape
     DEF End, Types, Whereabouts, CopiedArrived, AllArrived, Arrived, Reached,
         CopyPlaces, FilePlaces
<1>3. CASE FastMove
  BY <1>3, <1>0, PlanShape
     DEF FastMove, StartFastMove, FastMoveSkipsHandled, FastMoveCannotRead,
         DeclineAll, Stopped, AnswersStop, FastMoveMarks, FastMoveImpossible,
         FastMoveFails, FastMoveEnds, FastMoveMoves, Types, Whereabouts,
         CopiedArrived, AllArrived, Arrived, Reached, CopyPlaces, FilePlaces
<1>4. CASE Scan
  BY <1>4, <1>0, PlanShape
     DEF Scan, StartScan, ScanSkipsHandled, ScanPath, ScanCannotRead,
         DeclineAll, Stopped, AnswersStop, ScanEnds, Types, Whereabouts,
         CopiedArrived, AllArrived, Arrived, Reached, CopyPlaces, FilePlaces
<1>5. CASE StartCopy
  BY <1>5, <1>0, PlanShape
     DEF StartCopy, Stopped, AnswersStop, Types, Whereabouts, CopiedArrived,
         AllArrived, Arrived, Reached, CopyPlaces, FilePlaces
<1>6. CASE CopyRefusesList
  BY <1>6, <1>0, PlanShape
     DEF CopyRefusesList, Types, Whereabouts, CopiedArrived, AllArrived,
         Arrived, Reached, CopyPlaces, FilePlaces
<1>7. CASE CopyKilled
  BY <1>7, <1>0, PlanShape
     DEF CopyKilled, Types, Whereabouts, CopiedArrived, AllArrived, Arrived,
         Reached, CopyPlaces, FilePlaces
<1>8. CASE CopySkipsProcessed
  BY <1>8, <1>0, PlanShape
     DEF CopySkipsProcessed, CopyGoesOn, Types, Whereabouts, CopiedArrived,
         AllArrived, Arrived, Reached, CopyPlaces, FilePlaces
<1>9. CASE CopySetsIndex
  BY <1>9, <1>0, PlanShape
     DEF CopySetsIndex, CopyGoesOn, Types, Whereabouts, CopiedArrived,
         AllArrived, Arrived, Reached, CopyPlaces, FilePlaces
<1>10. CASE CopySetsSizes
  BY <1>10, <1>0, PlanShape
     DEF CopySetsSizes, Types, Whereabouts, CopiedArrived, AllArrived, Arrived,
         Reached, CopyPlaces, FilePlaces
<1>11. CASE CopyHandled
  BY <1>11, <1>0, PlanShape
     DEF CopyHandled, Types, Whereabouts, CopiedArrived, AllArrived, Arrived,
         Reached, CopyPlaces, FilePlaces
<1>12. CASE CopyMarks
  BY <1>12, <1>0, PlanShape
     DEF CopyMarks, Types, Whereabouts, CopiedArrived, AllArrived, Arrived,
         Reached, CopyPlaces, FilePlaces
<1>13. CASE CopyDrops
  BY <1>13, <1>0, PlanShape
     DEF CopyDrops, Types, Whereabouts, CopiedArrived, AllArrived, Arrived,
         Reached, CopyPlaces, FilePlaces
<1>14. CASE CopyEnds
  <2>1. /\ pc = "Copy" /\ src' = src /\ dst' = dst /\ declined' = declined
        /\ at > Len(list)
    BY <1>14 DEF CopyEnds, CopyGoesOn
  <2>2. \A p \in DOMAIN list : Treated(list[p], processed)
    BY <2>1 DEF Progress, FrontTreated, PassedTreated, Found, Types, CopyPlaces
  <2>3. AllListed(Found, handled)
    BY <2>1, PlanShape
       DEF Progress, SourceListed, Whereabouts, Reached, CopyPlaces
  <2>4. ASSUME NEW i \in Files
        PROVE  Arrived(i)
    <3>1. i \in processed => Arrived(i)
      BY <2>4 DEF Progress, MarkedWhole, HandledArrived, Found, Arrived
    <3>2. PathOf[i] \in handled => Arrived(i)
      BY <2>4 DEF Progress, HandledArrived
    <3>3. i \notin src => Arrived(i)
      BY <2>4 DEF NoDataLost, Arrived
    <3>4. Listed(i, Found) => Arrived(i)
      BY <2>2, <3>1, <3>3 DEF Listed, Found, Treated, Arrived
    <3> QED
      BY <2>3, <3>2, <3>3, <3>4 DEF AllListed, Arrived
  <2> QED
    BY <2>1, <2>4 DEF CopiedArrived, AllArrived, Arrived, Whole
<1>15. CASE Opened
  BY <1>15, <1>0, PlanShape
     DEF Opened, Types, Whereabouts, CopiedArrived, AllArrived, Arrived,
         Reached, CopyPlaces, FilePlaces
<1>16. CASE PassedOver
  BY <1>16, <1>0, PlanShape
     DEF PassedOver, PassOver, Types, Whereabouts, CopiedArrived, AllArrived,
         Arrived, Reached, CopyPlaces, FilePlaces
<1>17. CASE StoppedInFile
  BY <1>17, <1>0, PlanShape
     DEF StoppedInFile, Types, Whereabouts, CopiedArrived, AllArrived, Arrived,
         Reached, CopyPlaces, FilePlaces
<1>18. CASE \/ WriteChunk \/ AccountChunk \/ WriteEnds
  BY <1>18, <1>0, PlanShape
     DEF WriteChunk, AccountChunk, WriteEnds, Types, Whereabouts, CopiedArrived,
         AllArrived, Arrived, Reached, CopyPlaces, FilePlaces
<1>19. CASE Delete
  BY <1>19, <1>0, PlanShape
     DEF Delete, StartDelete, DeleteKilled, DeleteSkips, DeleteFile, Stopped,
         AnswersStop, DeleteEnds, Types, Whereabouts, CopiedArrived, AllArrived,
         Arrived, Reached, CopyPlaces, FilePlaces
<1>20. CASE Save
  BY <1>20, <1>0, PlanShape
     DEF Save, SaveState, SaveFiles, SaveIndex, SaveStats, Types, Whereabouts,
         CopiedArrived, AllArrived, Arrived, Reached, CopyPlaces, FilePlaces
<1>21. CASE Kill
  BY <1>21, <1>0, PlanShape
     DEF Kill, Types, Whereabouts, CopiedArrived, AllArrived, Arrived, Reached,
         CopyPlaces, FilePlaces
<1>22. CASE Restart
  BY <1>22, <1>0, PlanShape
     DEF Restart, Types, Whereabouts, CopiedArrived, AllArrived, Arrived,
         Reached, CopyPlaces, FilePlaces
<1>23. CASE Crash
  BY <1>23, CrashContinues DEF Resumable, CopiedArrived, AllArrived, Arrived, Reached
<1> QED
  BY <1>1, <1>2, <1>3, <1>4, <1>5, <1>6, <1>7, <1>8, <1>9, <1>10, <1>11, <1>12,
     <1>13, <1>14, <1>15, <1>16, <1>17, <1>18, <1>19, <1>20, <1>21, <1>22, <1>23
     DEF Steps, FastMove, Scan, Delete, Save

LEMMA HandledArrivedKept ==
    ASSUME Types, Whereabouts, ListShape, NoDataLost, Progress, CurrentFile,
           Bounded, BeforeCrash, Uninterrupted \/ CrashingOnce, Steps
    PROVE  HandledArrived(handled)'
<1>0. HandledArrived(handled) /\ MovedWhole
  BY DEF Progress
<1> USE DEF vars, filesVars, progress, threadVars, saveVars, ghosts,
        FastMoveStep, ScanUnchanged, CopyUnchanged, OpenUnchanged,
        WriteUnchanged, OthersUnchanged, DeleteUnchanged, DeleteStep,
        SaveUnchanged, Starts, Halt, Throw
<1>1. CASE \/ UNCHANGED vars \/ Begin \/ Finish \/ NextSubTask
  BY <1>1, <1>0
     DEF vars, Begin, Finish, NextSubTask, Types, NoDataLost, CurrentFile,
         HandledArrived, Arrived, CopyPlaces, FilePlaces
<1>2. CASE End
  BY <1>2, <1>0
     DEF End, Types, NoDataLost, CurrentFile, HandledArrived, Arrived,
         CopyPlaces, FilePlaces
<1>3. CASE StartFastMove
  BY <1>3, <1>0
     DEF StartFastMove, Types, NoDataLost, CurrentFile, HandledArrived, Arrived,
         CopyPlaces, FilePlaces
<1>4. CASE FastMoveSkipsHandled
  BY <1>4, <1>0
     DEF FastMoveSkipsHandled, Types, NoDataLost, CurrentFile, HandledArrived,
         Arrived, CopyPlaces, FilePlaces
<1>5. CASE FastMoveCannotRead
  BY <1>5, <1>0
     DEF FastMoveCannotRead, DeclineAll, Stopped, AnswersStop, Types,
         NoDataLost, CurrentFile, HandledArrived, Arrived, CopyPlaces,
         FilePlaces
<1>6. CASE FastMoveMarks
  <2>1. /\ pc = "Moved" /\ handled' = handled \cup {at}
        /\ dst' = dst /\ declined' = declined
    BY <1>6 DEF FastMoveMarks
  <2> QED
    BY <1>0, <2>1 DEF HandledArrived, Arrived, MovedWhole
<1>7. CASE FastMoveImpossible
  BY <1>7, <1>0
     DEF FastMoveImpossible, Types, NoDataLost, CurrentFile, HandledArrived,
         Arrived, CopyPlaces, FilePlaces
<1>8. CASE FastMoveFails
  BY <1>8, <1>0
     DEF FastMoveFails, Stopped, AnswersStop, Types, NoDataLost, CurrentFile,
         HandledArrived, Arrived, CopyPlaces, FilePlaces
<1>9. CASE FastMoveEnds
  BY <1>9, <1>0
     DEF FastMoveEnds, Types, NoDataLost, CurrentFile, HandledArrived, Arrived,
         CopyPlaces, FilePlaces
<1>10. CASE FastMoveMoves
  BY <1>10, <1>0
     DEF FastMoveMoves, Types, NoDataLost, CurrentFile, HandledArrived, Arrived,
         CopyPlaces, FilePlaces
<1>11. CASE Scan
  BY <1>11, <1>0
     DEF Scan, StartScan, ScanSkipsHandled, ScanPath, ScanCannotRead,
         DeclineAll, Stopped, AnswersStop, ScanEnds, Types, NoDataLost,
         CurrentFile, HandledArrived, Arrived, CopyPlaces, FilePlaces
<1>12. CASE \/ StartCopy \/ CopyRefusesList \/ CopyKilled \/ CopySkipsProcessed
            \/ CopySetsIndex \/ CopySetsSizes \/ CopyHandled \/ CopyMarks
            \/ CopyDrops \/ CopyEnds
  BY <1>12, <1>0
     DEF StartCopy, Stopped, AnswersStop, CopyRefusesList, CopyKilled,
         CopySkipsProcessed, CopyGoesOn, CopySetsIndex, CopySetsSizes,
         CopyHandled, CopyMarks, CopyDrops, CopyEnds, Types, NoDataLost,
         CurrentFile, HandledArrived, Arrived, CopyPlaces, FilePlaces
<1>13. CASE Opened
  BY <1>13, <1>0
     DEF Opened, Types, NoDataLost, CurrentFile, HandledArrived, Arrived,
         CopyPlaces, FilePlaces
<1>14. CASE PassedOver
  BY <1>14, <1>0
     DEF PassedOver, PassOver, Types, NoDataLost, CurrentFile, HandledArrived,
         Arrived, CopyPlaces, FilePlaces
<1>15. CASE StoppedInFile
  BY <1>15, <1>0
     DEF StoppedInFile, Types, NoDataLost, CurrentFile, HandledArrived, Arrived,
         CopyPlaces, FilePlaces
<1>16. CASE \/ WriteChunk \/ AccountChunk \/ WriteEnds
  BY <1>16, <1>0
     DEF WriteChunk, AccountChunk, WriteEnds, Types, NoDataLost, CurrentFile,
         HandledArrived, Arrived, CopyPlaces, FilePlaces
<1>17. CASE Delete
  BY <1>17, <1>0
     DEF Delete, StartDelete, DeleteKilled, DeleteSkips, DeleteFile, Stopped,
         AnswersStop, DeleteEnds, Types, NoDataLost, CurrentFile,
         HandledArrived, Arrived, CopyPlaces, FilePlaces
<1>18. CASE Save
  BY <1>18, <1>0
     DEF Save, SaveState, SaveFiles, SaveIndex, SaveStats, Types, NoDataLost,
         CurrentFile, HandledArrived, Arrived, CopyPlaces, FilePlaces
<1>19. CASE Kill
  BY <1>19, <1>0
     DEF Kill, Types, NoDataLost, CurrentFile, HandledArrived, Arrived,
         CopyPlaces, FilePlaces
<1>20. CASE Restart
  BY <1>20, <1>0
     DEF Restart, Types, NoDataLost, CurrentFile, HandledArrived, Arrived,
         CopyPlaces, FilePlaces
<1>21. CASE Crash
  BY <1>21, CrashContinues DEF Resumable, HandledArrived, Arrived
<1> QED
  BY <1>1, <1>2, <1>3, <1>4, <1>5, <1>6, <1>7, <1>8, <1>9, <1>10, <1>11, <1>12,
     <1>13, <1>14, <1>15, <1>16, <1>17, <1>18, <1>19, <1>20, <1>21
     DEF Steps, FastMove, Scan, Delete, Save

LEMMA MarkedWholeKept ==
    ASSUME Types, Whereabouts, ListShape, NoDataLost, Progress, CurrentFile,
           Bounded, BeforeCrash, Uninterrupted \/ CrashingOnce, Steps
    PROVE  MarkedWhole(Found, handled)'
<1>0. \A i \in processed : dst[i] = Whole(i) \/ PathOf[i] \in handled
  BY DEF Progress, MarkedWhole, Found
<1> USE DEF vars, filesVars, progress, threadVars, saveVars, ghosts,
        FastMoveStep, ScanUnchanged, CopyUnchanged, OpenUnchanged,
        WriteUnchanged, OthersUnchanged, DeleteUnchanged, DeleteStep,
        SaveUnchanged, Starts, Halt, Throw
<1>1. CASE \/ UNCHANGED vars \/ Begin \/ Finish \/ NextSubTask
  BY <1>1, <1>0
     DEF vars, Begin, Finish, NextSubTask, Types, CurrentFile, MarkedWhole,
         Found, CopyPlaces, FilePlaces
<1>2. CASE End
  BY <1>2, <1>0
     DEF End, Types, CurrentFile, MarkedWhole, Found, CopyPlaces, FilePlaces
<1>3. CASE FastMove
  BY <1>3, <1>0
     DEF FastMove, StartFastMove, FastMoveSkipsHandled, FastMoveCannotRead,
         DeclineAll, Stopped, AnswersStop, FastMoveMarks, FastMoveImpossible,
         FastMoveFails, FastMoveEnds, FastMoveMoves, Types, CurrentFile,
         MarkedWhole, Found, CopyPlaces, FilePlaces
<1>4. CASE Scan
  BY <1>4, <1>0
     DEF Scan, StartScan, ScanSkipsHandled, ScanPath, ScanCannotRead,
         DeclineAll, Stopped, AnswersStop, ScanEnds, Types, CurrentFile,
         MarkedWhole, Found, CopyPlaces, FilePlaces
<1>5. CASE \/ StartCopy \/ CopyRefusesList \/ CopyKilled \/ CopySkipsProcessed
           \/ CopySetsIndex \/ CopySetsSizes \/ CopyHandled \/ CopyMarks
           \/ CopyDrops \/ CopyEnds
  BY <1>5, <1>0
     DEF StartCopy, Stopped, AnswersStop, CopyRefusesList, CopyKilled,
         CopySkipsProcessed, CopyGoesOn, CopySetsIndex, CopySetsSizes,
         CopyHandled, CopyMarks, CopyDrops, CopyEnds, Types, CurrentFile,
         MarkedWhole, Found, CopyPlaces, FilePlaces
<1>6. CASE Opened
  BY <1>6, <1>0
     DEF Opened, Types, CurrentFile, MarkedWhole, Found, CopyPlaces, FilePlaces
<1>7. CASE PassedOver
  BY <1>7, <1>0
     DEF PassedOver, PassOver, Types, CurrentFile, MarkedWhole, Found,
         CopyPlaces, FilePlaces
<1>8. CASE StoppedInFile
  BY <1>8, <1>0
     DEF StoppedInFile, Types, CurrentFile, MarkedWhole, Found, CopyPlaces,
         FilePlaces
<1>9. CASE \/ WriteChunk \/ AccountChunk \/ WriteEnds
  BY <1>9, <1>0
     DEF WriteChunk, AccountChunk, WriteEnds, Types, CurrentFile, MarkedWhole,
         Found, CopyPlaces, FilePlaces
<1>10. CASE Delete
  BY <1>10, <1>0
     DEF Delete, StartDelete, DeleteKilled, DeleteSkips, DeleteFile, Stopped,
         AnswersStop, DeleteEnds, Types, CurrentFile, MarkedWhole, Found,
         CopyPlaces, FilePlaces
<1>11. CASE Save
  BY <1>11, <1>0
     DEF Save, SaveState, SaveFiles, SaveIndex, SaveStats, Types, CurrentFile,
         MarkedWhole, Found, CopyPlaces, FilePlaces
<1>12. CASE Kill
  BY <1>12, <1>0
     DEF Kill, Types, CurrentFile, MarkedWhole, Found, CopyPlaces, FilePlaces
<1>13. CASE Restart
  BY <1>13, <1>0
     DEF Restart, Types, CurrentFile, MarkedWhole, Found, CopyPlaces, FilePlaces
<1>14. CASE Crash
  BY <1>14, CrashContinues DEF Resumable, MarkedWhole, Found
<1> QED
  BY <1>1, <1>2, <1>3, <1>4, <1>5, <1>6, <1>7, <1>8, <1>9, <1>10, <1>11, <1>12,
     <1>13, <1>14
     DEF Steps, FastMove, Scan, Delete, Save

-----------------------------------------------------------------------------
(* What is saved *)

\* Without overlap, what is saved is a picture of the task at one moment.
LEMMA Saving ==
    ASSUME Types, SaveShape, ~SavesOverlap, End \/ SaveStats
    PROVE  /\ saved'.files = SavedList /\ saved'.handled = handled
           /\ saved'.sub = sub /\ saved'.stats = stats /\ saved'.state = state
           /\ pc \in {"End", "None"} /\ pc' = "None"
           /\ UNCHANGED <<src, dst, handled, sub, stats, state, complete, declined, left>>
           /\ complete => list' = list /\ processed' = processed
           /\ ~complete => list' \in {list, <<>>} /\ processed' \in {processed, {}}
<1>1. CASE End
  <2>1. saved' = Snapshot /\ pc = "End" /\ pc' = "None"
    BY <1>1 DEF End
  <2> QED
    BY <1>1, <2>1 DEF End, Snapshot, filesVars, ghosts
<1>2. CASE SaveStats
  <2>1. /\ saving = "Stats" /\ gathered \in Checkpoints
        /\ saved' = [gathered EXCEPT !.stats = stats, !.deleteAt = deleteAt,
                                     !.moveAt = moveAt]
    BY <1>2 DEF SaveStats, Types
  <2>2. /\ saved'.files = gathered.files /\ saved'.handled = gathered.handled
        /\ saved'.sub = gathered.sub /\ saved'.stats = stats
        /\ saved'.state = gathered.state
    BY <2>1 DEF Checkpoints
  <2>3. /\ pc = "None" /\ gathered.state = state /\ gathered.handled = handled
        /\ gathered.files = SavedList /\ gathered.sub = sub
    BY <2>1 DEF SaveShape
  <2> QED
    BY <1>2, <2>2, <2>3
       DEF SaveStats, SaveUnchanged, filesVars, progress, threadVars, ghosts
<1> QED
  BY <1>1, <1>2

LEMMA SavedKeptKept ==
    ASSUME Types, Whereabouts, ListShape, NoDataLost, Progress, CurrentFile,
           SaveShape, SavedKept, Bounded, BeforeCrash,
           Uninterrupted \/ CrashingOnce, Steps
    PROVE  SavedKept'
<1>0. CrashingOnce => /\ saved.files.processed \subseteq processed
                      /\ saved.handled \subseteq handled
                      /\ MarkedWhole(saved.files, saved.handled)
  BY DEF SavedKept
<1>50. /\ ~complete => processed = {}
       /\ MarkedWhole(Found, handled)
  BY DEF ListShape, Progress
<1> USE DEF vars, filesVars, progress, threadVars, saveVars, ghosts,
        FastMoveStep, ScanUnchanged, CopyUnchanged, OpenUnchanged,
        WriteUnchanged, OthersUnchanged, DeleteUnchanged, DeleteStep,
        SaveUnchanged, Starts, Halt, Throw
<1>1. CASE \/ UNCHANGED vars \/ Begin \/ Finish \/ NextSubTask
  BY <1>1, <1>0
     DEF vars, Begin, Finish, NextSubTask, Types, CurrentFile, SavedKept,
         MarkedWhole, Found, CopyPlaces, FilePlaces
<1>2. CASE End
  <2>1. CASE CrashingOnce
    <3>1. End \/ SaveStats
      BY <1>2
    <3>2. ~SavesOverlap
      BY <2>1 DEF CrashingOnce
    <3>3. /\ saved'.files = SavedList /\ saved'.handled = handled
          /\ handled' = handled /\ dst' = dst
          /\ complete => processed' = processed
      BY <3>1, <3>2, Saving
    <3>4. complete => /\ saved'.files.processed = processed
                      /\ MarkedWhole(saved'.files, handled)
      BY <1>50, <3>3 DEF SavedList, Found, MarkedWhole
    <3>5. ~complete => saved'.files.processed = {}
      BY <1>0, <1>50, <2>1, <3>3 DEF SavedList
    <3> QED
      BY <3>3, <3>4, <3>5 DEF SavedKept, MarkedWhole, Whole
  <2>2. CASE ~CrashingOnce
    BY <2>2 DEF SavedKept
  <2> QED
    BY <2>1, <2>2
<1>3. CASE FastMove
  BY <1>3, <1>0
     DEF FastMove, StartFastMove, FastMoveSkipsHandled, FastMoveCannotRead,
         DeclineAll, Stopped, AnswersStop, FastMoveMarks, FastMoveImpossible,
         FastMoveFails, FastMoveEnds, FastMoveMoves, Types, CurrentFile,
         SavedKept, MarkedWhole, Found, CopyPlaces, FilePlaces
<1>4. CASE StartScan
  <2>1. pc' = "Scan" /\ pc = "Execute"
    BY <1>4 DEF StartScan
  <2>2. ~Restart /\ ~Crash
    BY <2>1 DEF Restart, Crash
  <2>3. processed \subseteq processed'
    BY <2>2, ProcessedKept
  <2>4. saved' = saved /\ handled' = handled /\ dst' = dst
    BY <1>4 DEF StartScan
  <2> QED
    BY <1>0, <2>3, <2>4 DEF SavedKept, MarkedWhole, Whole
<1>5. CASE ScanSkipsHandled
  BY <1>5, <1>0
     DEF ScanSkipsHandled, Types, CurrentFile, SavedKept, MarkedWhole, Found,
         CopyPlaces, FilePlaces
<1>6. CASE ScanPath
  BY <1>6, <1>0
     DEF ScanPath, Types, CurrentFile, SavedKept, MarkedWhole, Found,
         CopyPlaces, FilePlaces
<1>7. CASE ScanCannotRead
  BY <1>7, <1>0
     DEF ScanCannotRead, DeclineAll, Stopped, AnswersStop, Types, CurrentFile,
         SavedKept, MarkedWhole, Found, CopyPlaces, FilePlaces
<1>8. CASE ScanEnds
  BY <1>8, <1>0
     DEF ScanEnds, Types, CurrentFile, SavedKept, MarkedWhole, Found,
         CopyPlaces, FilePlaces
<1>9. CASE \/ StartCopy \/ CopyRefusesList \/ CopyKilled \/ CopySkipsProcessed
           \/ CopySetsIndex \/ CopySetsSizes \/ CopyHandled \/ CopyMarks
           \/ CopyDrops \/ CopyEnds
  BY <1>9, <1>0
     DEF StartCopy, Stopped, AnswersStop, CopyRefusesList, CopyKilled,
         CopySkipsProcessed, CopyGoesOn, CopySetsIndex, CopySetsSizes,
         CopyHandled, CopyMarks, CopyDrops, CopyEnds, Types, CurrentFile,
         SavedKept, MarkedWhole, Found, CopyPlaces, FilePlaces
<1>10. CASE Opened
  BY <1>10, <1>0
     DEF Opened, Types, CurrentFile, SavedKept, MarkedWhole, Found, CopyPlaces,
         FilePlaces
<1>11. CASE PassedOver
  BY <1>11, <1>0
     DEF PassedOver, PassOver, Types, CurrentFile, SavedKept, MarkedWhole,
         Found, CopyPlaces, FilePlaces
<1>12. CASE StoppedInFile
  BY <1>12, <1>0
     DEF StoppedInFile, Types, CurrentFile, SavedKept, MarkedWhole, Found,
         CopyPlaces, FilePlaces
<1>13. CASE \/ WriteChunk \/ AccountChunk \/ WriteEnds
  BY <1>13, <1>0
     DEF WriteChunk, AccountChunk, WriteEnds, Types, CurrentFile, SavedKept,
         MarkedWhole, Found, CopyPlaces, FilePlaces
<1>14. CASE Delete
  BY <1>14, <1>0
     DEF Delete, StartDelete, DeleteKilled, DeleteSkips, DeleteFile, Stopped,
         AnswersStop, DeleteEnds, Types, CurrentFile, SavedKept, MarkedWhole,
         Found, CopyPlaces, FilePlaces
<1>15. CASE SaveState
  BY <1>15, <1>0
     DEF SaveState, Types, CurrentFile, SavedKept, MarkedWhole, Found,
         CopyPlaces, FilePlaces
<1>16. CASE SaveFiles
  BY <1>16, <1>0
     DEF SaveFiles, Types, CurrentFile, SavedKept, MarkedWhole, Found,
         CopyPlaces, FilePlaces
<1>17. CASE SaveIndex
  BY <1>17, <1>0
     DEF SaveIndex, Types, CurrentFile, SavedKept, MarkedWhole, Found,
         CopyPlaces, FilePlaces
<1>18. CASE SaveStats
  <2>1. CASE CrashingOnce
    <3>1. End \/ SaveStats
      BY <1>18
    <3>2. ~SavesOverlap
      BY <2>1 DEF CrashingOnce
    <3>3. /\ saved'.files = SavedList /\ saved'.handled = handled
          /\ handled' = handled /\ dst' = dst
          /\ complete => processed' = processed
      BY <3>1, <3>2, Saving
    <3>4. complete => /\ saved'.files.processed = processed
                      /\ MarkedWhole(saved'.files, handled)
      BY <1>50, <3>3 DEF SavedList, Found, MarkedWhole
    <3>5. ~complete => saved'.files.processed = {}
      BY <1>0, <1>50, <2>1, <3>3 DEF SavedList
    <3> QED
      BY <3>3, <3>4, <3>5 DEF SavedKept, MarkedWhole, Whole
  <2>2. CASE ~CrashingOnce
    BY <2>2 DEF SavedKept
  <2> QED
    BY <2>1, <2>2
<1>19. CASE Kill
  BY <1>19, <1>0
     DEF Kill, Types, CurrentFile, SavedKept, MarkedWhole, Found, CopyPlaces,
         FilePlaces
<1>20. CASE Restart
  <2>1. left.restart # 0
    BY <1>20 DEF Restart, Spend
  <2> QED
    BY <2>1, Restrictions DEF SavedKept
<1>21. CASE Crash
  BY <1>21, <1>0
     DEF Crash, Types, CurrentFile, SavedKept, MarkedWhole, Found, CopyPlaces,
         FilePlaces
<1> QED
  BY <1>1, <1>2, <1>3, <1>4, <1>5, <1>6, <1>7, <1>8, <1>9, <1>10, <1>11, <1>12,
     <1>13, <1>14, <1>15, <1>16, <1>17, <1>18, <1>19, <1>20, <1>21
     DEF Steps, FastMove, Scan, Delete, Save

-----------------------------------------------------------------------------
(* Before the crash *)

LEMMA SavedAtSaves ==
    ASSUME Types, Steps, ~Restart
    PROVE  saved' = saved \/ End \/ SaveStats
<1> USE DEF vars, filesVars, progress, threadVars, saveVars, ghosts,
        FastMoveStep, ScanUnchanged, CopyUnchanged, OpenUnchanged,
        WriteUnchanged, OthersUnchanged, DeleteUnchanged, DeleteStep,
        SaveUnchanged, Starts, Halt, Throw
<1>1. CASE \/ UNCHANGED vars \/ Begin \/ Finish \/ NextSubTask
  BY <1>1 DEF vars, Begin, Finish, NextSubTask
<1>2. CASE End
  BY <1>2 DEF End
<1>3. CASE FastMove
  BY <1>3
     DEF FastMove, StartFastMove, FastMoveSkipsHandled, FastMoveCannotRead,
         DeclineAll, Stopped, AnswersStop, FastMoveMarks, FastMoveImpossible,
         FastMoveFails, FastMoveEnds, FastMoveMoves
<1>4. CASE Scan
  BY <1>4
     DEF Scan, StartScan, ScanSkipsHandled, ScanPath, ScanCannotRead,
         DeclineAll, Stopped, AnswersStop, ScanEnds
<1>5. CASE \/ StartCopy \/ CopyRefusesList \/ CopyKilled \/ CopySkipsProcessed
           \/ CopySetsIndex \/ CopySetsSizes \/ CopyHandled \/ CopyMarks
           \/ CopyDrops \/ CopyEnds
  BY <1>5
     DEF StartCopy, Stopped, AnswersStop, CopyRefusesList, CopyKilled,
         CopySkipsProcessed, CopyGoesOn, CopySetsIndex, CopySetsSizes,
         CopyHandled, CopyMarks, CopyDrops, CopyEnds
<1>6. CASE Opened
  BY <1>6 DEF Opened
<1>7. CASE PassedOver
  BY <1>7 DEF PassedOver, PassOver
<1>8. CASE StoppedInFile
  BY <1>8 DEF StoppedInFile
<1>9. CASE \/ WriteChunk \/ AccountChunk \/ WriteEnds
  BY <1>9 DEF WriteChunk, AccountChunk, WriteEnds
<1>10. CASE Delete
  BY <1>10
     DEF Delete, StartDelete, DeleteKilled, DeleteSkips, DeleteFile, Stopped,
         AnswersStop, DeleteEnds
<1>11. CASE Save
  BY <1>11 DEF Save, SaveState, SaveFiles, SaveIndex, SaveStats
<1>12. CASE Kill
  BY <1>12 DEF Kill
<1>13. CASE Restart
  BY <1>13 DEF Restart
<1>14. CASE Crash
  BY <1>14 DEF Crash
<1> QED
  BY <1>1, <1>2, <1>3, <1>4, <1>5, <1>6, <1>7, <1>8, <1>9, <1>10, <1>11, <1>12,
     <1>13, <1>14
     DEF Steps, FastMove, Scan, Delete, Save

LEMMA DestinationsKept ==
    ASSUME Types, Steps, pc \in {"Open", "Write"}
    PROVE  Opened \/ WriteChunk \/ dst' = dst
<1> USE DEF vars, filesVars, progress, threadVars, saveVars, ghosts,
        FastMoveStep, ScanUnchanged, CopyUnchanged, OpenUnchanged,
        WriteUnchanged, OthersUnchanged, DeleteUnchanged, DeleteStep,
        SaveUnchanged, Starts, Halt, Throw
<1>1. CASE \/ UNCHANGED vars \/ Begin \/ Finish \/ NextSubTask
  BY <1>1 DEF vars, Begin, Finish, NextSubTask
<1>2. CASE End
  BY <1>2 DEF End
<1>3. CASE FastMove
  BY <1>3
     DEF FastMove, StartFastMove, FastMoveSkipsHandled, FastMoveCannotRead,
         DeclineAll, Stopped, AnswersStop, FastMoveMarks, FastMoveImpossible,
         FastMoveFails, FastMoveEnds, FastMoveMoves
<1>4. CASE Scan
  BY <1>4
     DEF Scan, StartScan, ScanSkipsHandled, ScanPath, ScanCannotRead,
         DeclineAll, Stopped, AnswersStop, ScanEnds
<1>5. CASE \/ StartCopy \/ CopyRefusesList \/ CopyKilled \/ CopySkipsProcessed
           \/ CopySetsIndex \/ CopySetsSizes \/ CopyHandled \/ CopyMarks
           \/ CopyDrops \/ CopyEnds
  BY <1>5
     DEF StartCopy, Stopped, AnswersStop, CopyRefusesList, CopyKilled,
         CopySkipsProcessed, CopyGoesOn, CopySetsIndex, CopySetsSizes,
         CopyHandled, CopyMarks, CopyDrops, CopyEnds
<1>6. CASE Opened
  BY <1>6 DEF Opened
<1>7. CASE PassedOver
  BY <1>7 DEF PassedOver, PassOver
<1>8. CASE StoppedInFile
  BY <1>8 DEF StoppedInFile
<1>9. CASE \/ WriteChunk \/ AccountChunk \/ WriteEnds
  BY <1>9 DEF WriteChunk, AccountChunk, WriteEnds
<1>10. CASE Delete
  BY <1>10
     DEF Delete, StartDelete, DeleteKilled, DeleteSkips, DeleteFile, Stopped,
         AnswersStop, DeleteEnds
<1>11. CASE Save
  BY <1>11 DEF Save, SaveState, SaveFiles, SaveIndex, SaveStats
<1>12. CASE Kill
  BY <1>12 DEF Kill
<1>13. CASE Restart
  BY <1>13 DEF Restart
<1>14. CASE Crash
  BY <1>14 DEF Crash
<1> QED
  BY <1>1, <1>2, <1>3, <1>4, <1>5, <1>6, <1>7, <1>8, <1>9, <1>10, <1>11, <1>12,
     <1>13, <1>14
     DEF Steps, FastMove, Scan, Delete, Save

\* While a crash can still come, none has come yet, and nothing is restarted.
LEMMA StillBefore ==
    ASSUME Types, Bounded, BeforeCrash, Uninterrupted \/ CrashingOnce, Steps,
           left'.crash # 0
    PROVE  /\ left.crash # 0 /\ left'.crash = left.crash
           /\ CrashingOnce /\ ~SavesOverlap /\ ~StaleStops /\ ~Restart /\ ~Crash
           /\ Resumable(saved) /\ saved.sub <= sub /\ SavedListHeld /\ SavedMarkHeld
           /\ WrittenKnown
<1>1. left.crash # 0 /\ left'.crash = left.crash /\ ~Crash
  BY CrashesLeft, CrashContinues
<1>2. CrashingOnce /\ ~SavesOverlap /\ ~StaleStops /\ left.restart = 0
  BY <1>1, Restrictions
<1>3. ~Restart
  <2>1. Restart => left.restart # 0
    BY DEF Restart, Spend
  <2> QED
    BY <1>2, <2>1
<1> QED
  BY <1>1, <1>2, <1>3 DEF BeforeCrash

\* The file that is being copied only gets data, and keeps what a mark tells of.
LEMMA CurrentGrows ==
    ASSUME Types, CurrentFile, Steps, pc \in {"Open", "Write"}
    PROVE  \/ dst'[File] = dst[File]
           \/ /\ dst'[File] # NoFile /\ IsData(dst'[File])
              /\ pc = "Open" /\ left.crash # 0 /\ stats.done # 0
                    => Len(dst'[File]) # 0
              /\ pc = "Write" => Len(dst'[File]) # 0
<1>1. File \in Files /\ dst \in [Files -> Contents]
  BY AtFile DEF Types, FilePlaces
<1>2. CASE Opened
  <2>1. PICK c \in Seq(Chunks) :
           /\ dst' = [dst EXCEPT ![File] = c] /\ IsData(c)
           /\ left.crash # 0 /\ stats.done # 0 => Len(c) # 0
    BY <1>2 DEF Opened
  <2>2. dst'[File] = c
    BY <1>1, <2>1
  <2> QED
    BY <1>2, <2>1, <2>2 DEF IsData, Opened
<1>3. CASE WriteChunk
  <2>1. /\ pc = "Write" /\ dst' = [dst EXCEPT ![File] = Append(dst[File], "data")]
    BY <1>3 DEF WriteChunk
  <2>2. dst[File] \in Seq(Chunks) /\ IsData(dst[File]) /\ Len(dst[File]) \in Nat
    BY <1>1, <2>1, ContentTypes DEF CurrentFile, IsData
  <2>3. dst'[File] = Append(dst[File], "data")
    BY <1>1, <2>1
  <2> QED
    BY <2>1, <2>2, <2>3, DataAppended DEF IsData
<1>4. CASE dst' = dst
  BY <1>4
<1> QED
  BY <1>2, <1>3, <1>4, DestinationsKept

\* What was saved can be continued from after any step that leaves it alone.
LEMMA StaysResumable ==
    ASSUME Types, Whereabouts, ListShape, FirstMark, CurrentFile, Progress, SavedKept,
           Bounded, BeforeCrash, Uninterrupted \/ CrashingOnce, Steps,
           left'.crash # 0, saved' = saved
    PROVE  Resumable(saved)'
<1> DEFINE m == saved.stats
           files == saved.files
<1>1. /\ left.crash # 0 /\ CrashingOnce /\ ~Restart /\ ~Crash
      /\ Resumable(saved) /\ saved.sub <= sub /\ SavedListHeld /\ SavedMarkHeld
  BY StillBefore
<1>2. /\ src' \subseteq src /\ declined \subseteq declined'
  BY <1>1, FilesKept
<1>3. /\ saved.sub \in Nat /\ sub \in Nat /\ files.list \in Seq(Files)
      /\ files.processed \subseteq Files /\ m.done \in Nat /\ m.index \in Nat
  BY DEF Types, Checkpoints
<1>4. ASSUME pc \in {"Open", "Write"}
      PROVE  /\ File \in Files /\ File \notin files.processed
             /\ PathOf[File] \notin saved.handled
             /\ ~IsPast("Copy", saved.sub)
  <2>1. File \in Files /\ File \notin processed /\ PathOf[File] \notin handled
    BY <1>4, AtFile DEF CurrentFile, FilePlaces
  <2>2. ~IsPast("Copy", sub)
    BY <1>4, PlanShape DEF Whereabouts, CopyPlaces, FilePlaces
  <2>3. ~IsPast("Copy", saved.sub)
    BY <1>1, <1>3, <2>2, PlanShape
  <2> QED
    BY <1>1, <2>1, <2>3 DEF SavedKept
<1>5. ASSUME NEW i \in Files, pc \in {"Open", "Write"} => i # File, Arrived(i)
      PROVE  Arrived(i)'
  BY <1>1, <1>5, ArrivedKept
<1>6. ASSUME NEW i \in Files, pc \in {"Open", "Write"} => i # File, dst[i] = Whole(i)
      PROVE  dst'[i] = Whole(i)
  BY <1>1, <1>6, ArrivedKept
<1>7. MarkStands(files, m)'
  <2> SUFFICES ASSUME m.done # 0, m.index \in DOMAIN files.list
               PROVE  /\ files.list[m.index] \notin files.processed
                      /\ MarkFits(files.list[m.index], m)'
    BY DEF MarkStands
  <2> DEFINE f == files.list[m.index]
  <2>1. f \notin files.processed /\ f \in Files /\ MarkFits(f, m)
    BY <1>1, <1>3 DEF Resumable, MarkStands
  <2>2. /\ dst[f] # NoFile /\ Len(dst[f]) # 0
        /\ m.silent /\ Len(dst[f]) = m.done => IsData(dst[f])
    BY <2>1 DEF MarkFits
  <2>3. dst'[f] = dst[f] \/ (pc \in {"Open", "Write"} /\ f = File)
    BY <2>1, <2>2, FilesKept
  <2>4. CASE dst'[f] = dst[f]
    BY <2>1, <2>2, <2>4 DEF MarkFits, IsData
  <2>5. CASE pc \in {"Open", "Write"} /\ f = File /\ dst'[f] # dst[f]
    <3>1. files.list = list /\ m.index \in DOMAIN list /\ at \in DOMAIN list
      BY <1>1, <1>3, <2>5, AtFile DEF SavedListHeld, FilePlaces
    <3>2. at = m.index
      BY <2>5, <3>1 DEF ListShape, ListedOnce, Found, File
    <3>3. pc = "Open" => stats.done # 0
      BY <1>1, <3>1, <3>2 DEF SavedMarkHeld, SameMark
    <3>4. dst'[f] # NoFile /\ IsData(dst'[f]) /\ Len(dst'[f]) # 0
      BY <1>1, <2>5, <3>3, CurrentGrows
    <3> QED
      BY <2>1, <3>4 DEF MarkFits, IsData
  <2> QED
    BY <2>3, <2>4, <2>5
<1>8. IsPast("Scan", saved.sub) => AllListed(files, saved.handled)'
  BY <1>1, <1>2 DEF Resumable, AllListed, Listed
<1>9. PassedTreated(files, m.index)'
  BY <1>1, <1>2 DEF Resumable, PassedTreated, Treated
<1>10. IsPast("Copy", saved.sub) => AllArrived'
  BY <1>1, <1>4, <1>5 DEF Resumable, AllArrived
<1>11. HandledArrived(saved.handled)'
  BY <1>1, <1>4, <1>5 DEF Resumable, HandledArrived
<1>12. MarkedWhole(files, saved.handled)'
  <2>1. \A i \in files.processed : dst[i] = Whole(i) \/ PathOf[i] \in saved.handled
    BY <1>1 DEF Resumable, MarkedWhole
  <2>2. \A i \in files.processed : dst'[i] = Whole(i) \/ PathOf[i] \in saved.handled
    BY <1>3, <1>4, <1>6, <2>1
  <2> QED
    BY <2>2 DEF MarkedWhole, Whole
<1> HIDE DEF m, files
<1> QED
  BY <1>1, <1>7, <1>8, <1>9, <1>10, <1>11, <1>12 DEF Resumable, ListedOnce, m, files

\* What is saved anew can be continued from.
LEMMA SavedResumable ==
    ASSUME Types, Whereabouts, ListShape, PendingMark, Progress, SaveShape, SavedKept,
           Bounded, BeforeCrash, Uninterrupted \/ CrashingOnce, Steps,
           left'.crash # 0, End \/ SaveStats
    PROVE  /\ Resumable(saved)' /\ SavedListHeld' /\ SavedMarkHeld'
           /\ saved'.sub <= sub'
<1>1. /\ left.crash # 0 /\ CrashingOnce /\ ~SavesOverlap
      /\ Resumable(saved) /\ SavedListHeld
  BY StillBefore
<1>2. /\ saved'.files = SavedList /\ saved'.handled = handled
      /\ saved'.sub = sub /\ saved'.stats = stats /\ saved'.state = state
      /\ pc \in {"End", "None"} /\ pc' = "None"
      /\ UNCHANGED <<src, dst, handled, sub, stats, state, complete, declined>>
      /\ complete => list' = list /\ processed' = processed
  BY <1>1, Saving
<1>3. Reached = sub /\ pc \notin CopyPlaces /\ sub \in Nat /\ stats \in StatsType
  BY <1>2 DEF Reached, CopyPlaces, FilePlaces, Types
<1>4. ~complete => SavedList = saved.files /\ saved.files.list = <<>>
  BY <1>1 DEF SavedList, SavedListHeld
<1>5. complete => SavedList = Found
  BY DEF SavedList, Found
<1>6. /\ IsPast("Scan", sub) => complete \/ list = <<>>
      /\ complete => IsPast("Scan", sub)
      /\ stats.done # 0 => IsPast("Scan", sub)
      /\ ~IsPast("Scan", sub) => stats.index = 1
      /\ ListedOnce(Found)
  BY <1>3 DEF ListShape
<1>7. ListedOnce(SavedList) /\ (SavedList.list # <<>> => IsPast("Scan", sub))
  BY <1>1, <1>4, <1>5, <1>6 DEF Resumable
<1>8. MarkStands(SavedList, stats)
  <2>1. CASE complete
    BY <1>3, <1>5, <2>1
       DEF PendingMark, Pending, MarkStands, Fits, Found
  <2>2. CASE ~complete
    BY <1>4, <2>2 DEF MarkStands
  <2> QED
    BY <2>1, <2>2
<1>9. ASSUME IsPast("Scan", sub)
      PROVE  AllListed(SavedList, handled)
  <2>1. AllListed(Found, handled)
    BY <1>3, <1>9 DEF Progress, SourceListed
  <2>2. SavedList.list = Found.list
    BY <1>4, <1>5, <1>6, <1>9 DEF Found
  <2> QED
    BY <2>1, <2>2 DEF AllListed, Listed
<1>10. PassedTreated(SavedList, stats.index)
  <2>1. PassedTreated(Found, stats.index)
    BY <1>3 DEF Progress, FrontTreated
  <2>2. CASE complete
    BY <1>5, <2>1, <2>2
  <2>3. CASE ~complete
    BY <1>4, <2>3 DEF PassedTreated
  <2> QED
    BY <2>2, <2>3
<1>11. /\ IsPast("Copy", sub) => AllArrived
       /\ HandledArrived(handled)
       /\ state = "Finished" => sub > Len(Plan)
  BY <1>3 DEF Progress, CopiedArrived, FinishedAtEnd
<1>12. MarkedWhole(SavedList, handled)
  <2>1. ~complete => saved.files.processed = {}
    BY <1>1, <1>4 DEF Resumable, ListedOnce
  <2> QED
    BY <1>4, <1>5, <2>1 DEF Progress, MarkedWhole
<1>13. Resumable(saved)'
  <2>1. /\ MarkStands(SavedList, stats) = MarkStands(saved.files, saved.stats)'
        /\ AllListed(SavedList, handled) = AllListed(saved.files, saved.handled)'
        /\ PassedTreated(SavedList, stats.index)
              = PassedTreated(saved.files, saved.stats.index)'
    BY <1>2 DEF MarkStands, MarkFits, IsData, AllListed, Listed, PassedTreated, Treated
  <2>2. /\ AllArrived = AllArrived'
        /\ HandledArrived(handled) = HandledArrived(saved.handled)'
        /\ MarkedWhole(SavedList, handled) = MarkedWhole(saved.files, saved.handled)'
        /\ ListedOnce(SavedList) = ListedOnce(saved.files)'
    BY <1>2 DEF AllArrived, HandledArrived, Arrived, MarkedWhole, Whole, ListedOnce
  <2> QED
    BY <1>2, <1>6, <1>7, <1>8, <1>9, <1>10, <1>11, <1>12, <2>1, <2>2 DEF Resumable
<1>14. SavedListHeld'
  BY <1>2, <1>4, <1>5 DEF SavedListHeld, Found
<1>15. SavedMarkHeld'
  BY <1>2, <1>3 DEF SavedMarkHeld, SameMark, CopyPlaces, FilePlaces, StatsType
<1> QED
  BY <1>2, <1>3, <1>13, <1>14, <1>15

LEMMA SavedListStays ==
    ASSUME Types, Whereabouts, ListShape, Bounded, BeforeCrash,
           Uninterrupted \/ CrashingOnce, Steps, left'.crash # 0, saved' = saved
    PROVE  SavedListHeld' /\ saved'.sub <= sub'
<1>0. /\ left.crash # 0 /\ ~Restart /\ ~Crash
      /\ SavedListHeld /\ saved.sub <= sub /\ saved.sub \in Nat /\ sub \in Nat
  BY StillBefore DEF Types, Checkpoints
<1> USE DEF vars, filesVars, progress, threadVars, saveVars, ghosts,
        FastMoveStep, ScanUnchanged, CopyUnchanged, OpenUnchanged,
        WriteUnchanged, OthersUnchanged, DeleteUnchanged, DeleteStep,
        SaveUnchanged, Starts, Halt, Throw
<1>1. CASE \/ UNCHANGED vars \/ Begin \/ Finish \/ NextSubTask
  BY <1>1, <1>0 DEF vars, Begin, Finish, NextSubTask, SavedListHeld
<1>2. CASE End
  BY <1>2, <1>0 DEF End, SavedListHeld
<1>3. CASE FastMove
  BY <1>3, <1>0
     DEF FastMove, StartFastMove, FastMoveSkipsHandled, FastMoveCannotRead,
         DeclineAll, Stopped, AnswersStop, FastMoveMarks, FastMoveImpossible,
         FastMoveFails, FastMoveEnds, FastMoveMoves, SavedListHeld
<1>4. CASE StartScan
  BY <1>0, <1>4, ScanStarts DEF StartScan, SavedListHeld
<1>5. CASE ScanSkipsHandled
  BY <1>5, <1>0 DEF ScanSkipsHandled, SavedListHeld
<1>6. CASE ScanPath
  <2>1. ~complete
    BY <1>6, Scanning DEF ScanPath
  <2> QED
    BY <1>0, <1>6, <2>1 DEF ScanPath, SavedListHeld
<1>7. CASE ScanCannotRead
  BY <1>7, <1>0
     DEF ScanCannotRead, DeclineAll, Stopped, AnswersStop, SavedListHeld
<1>8. CASE ScanEnds
  BY <1>8, <1>0 DEF ScanEnds, SavedListHeld
<1>9. CASE \/ StartCopy \/ CopyRefusesList \/ CopyKilled \/ CopySkipsProcessed
           \/ CopySetsIndex \/ CopySetsSizes \/ CopyHandled \/ CopyMarks
           \/ CopyDrops \/ CopyEnds
  BY <1>9, <1>0
     DEF StartCopy, Stopped, AnswersStop, CopyRefusesList, CopyKilled,
         CopySkipsProcessed, CopyGoesOn, CopySetsIndex, CopySetsSizes,
         CopyHandled, CopyMarks, CopyDrops, CopyEnds, SavedListHeld
<1>10. CASE Opened
  BY <1>10, <1>0 DEF Opened, SavedListHeld
<1>11. CASE PassedOver
  BY <1>11, <1>0 DEF PassedOver, PassOver, SavedListHeld
<1>12. CASE StoppedInFile
  BY <1>12, <1>0 DEF StoppedInFile, SavedListHeld
<1>13. CASE \/ WriteChunk \/ AccountChunk \/ WriteEnds
  BY <1>13, <1>0 DEF WriteChunk, AccountChunk, WriteEnds, SavedListHeld
<1>14. CASE Delete
  BY <1>14, <1>0
     DEF Delete, StartDelete, DeleteKilled, DeleteSkips, DeleteFile, Stopped,
         AnswersStop, DeleteEnds, SavedListHeld
<1>15. CASE Save
  BY <1>15, <1>0
     DEF Save, SaveState, SaveFiles, SaveIndex, SaveStats, SavedListHeld
<1>16. CASE Kill
  BY <1>16, <1>0 DEF Kill, SavedListHeld
<1>17. CASE Restart
  BY <1>17, <1>0 DEF Restart, SavedListHeld
<1>18. CASE Crash
  BY <1>18, <1>0 DEF Crash, SavedListHeld
<1> QED
  BY <1>1, <1>2, <1>3, <1>4, <1>5, <1>6, <1>7, <1>8, <1>9, <1>10, <1>11, <1>12,
     <1>13, <1>14, <1>15, <1>16, <1>17, <1>18
     DEF Steps, FastMove, Scan, Delete, Save

LEMMA SavedMarkStays ==
    ASSUME Types, Whereabouts, ListShape, FirstMark, CurrentFile, Progress, Bounded,
           BeforeCrash, Uninterrupted \/ CrashingOnce, Steps, left'.crash # 0,
           saved' = saved
    PROVE  SavedMarkHeld'
<1>0. /\ left.crash # 0 /\ ~Restart /\ ~Crash /\ SavedMarkHeld
      /\ stats.index \in Nat /\ saved.stats.index \in Nat /\ at \in Nat
  BY StillBefore DEF Types, Checkpoints, StatsType
<1> USE DEF vars, filesVars, progress, threadVars, saveVars, ghosts,
        FastMoveStep, ScanUnchanged, CopyUnchanged, OpenUnchanged,
        WriteUnchanged, OthersUnchanged, DeleteUnchanged, DeleteStep,
        SaveUnchanged, Starts, Halt, Throw
<1>1. CASE \/ UNCHANGED vars \/ Begin \/ Finish \/ NextSubTask
  BY <1>1, <1>0
     DEF vars, Begin, Finish, NextSubTask, Types, StatsType, SavedMarkHeld,
         SameMark, CopyPlaces, FilePlaces
<1>2. CASE End
  <2>1. saved'.stats = stats' /\ stats' = stats /\ pc' = "None"
    BY <1>2 DEF End, Snapshot
  <2> DEFINE m == saved'.stats
  <2>2. m = stats' /\ stats'.index >= m.index
    BY <1>0, <2>1
  <2> HIDE DEF m
  <2> QED
    BY <2>1, <2>2 DEF SavedMarkHeld, SameMark, m, CopyPlaces, FilePlaces
<1>3. CASE FastMove
  BY <1>3, <1>0
     DEF FastMove, StartFastMove, FastMoveSkipsHandled, FastMoveCannotRead,
         DeclineAll, Stopped, AnswersStop, FastMoveMarks, FastMoveImpossible,
         FastMoveFails, FastMoveEnds, FastMoveMoves, Types, StatsType,
         SavedMarkHeld, SameMark, CopyPlaces, FilePlaces
<1>4. CASE StartScan
  BY <1>4, <1>0
     DEF StartScan, Types, StatsType, SavedMarkHeld, SameMark, CopyPlaces,
         FilePlaces
<1>5. CASE ScanSkipsHandled
  BY <1>5, <1>0
     DEF ScanSkipsHandled, Types, StatsType, SavedMarkHeld, SameMark,
         CopyPlaces, FilePlaces
<1>6. CASE ScanPath
  <2>1. stats' = stats /\ pc = "Scan"
    BY <1>6 DEF ScanPath
  <2>2. saved.stats.done = 0
    <3>1. Resumable(saved) /\ saved.sub <= sub /\ saved.sub \in Nat
      BY StillBefore DEF Types, Checkpoints
    <3> QED
      BY <2>1, <3>1, Scanning, PlanShape DEF Resumable
  <2> QED
    BY <1>0, <2>1, <2>2 DEF SavedMarkHeld
<1>7. CASE ScanCannotRead
  BY <1>7, <1>0
     DEF ScanCannotRead, DeclineAll, Stopped, AnswersStop, Types, StatsType,
         SavedMarkHeld, SameMark, CopyPlaces, FilePlaces
<1>8. CASE ScanEnds
  BY <1>8, <1>0
     DEF ScanEnds, Types, StatsType, SavedMarkHeld, SameMark, CopyPlaces,
         FilePlaces
<1>9. CASE StartCopy
  BY <1>9, <1>0
     DEF StartCopy, Stopped, AnswersStop, Types, StatsType, SavedMarkHeld,
         SameMark, CopyPlaces, FilePlaces
<1>10. CASE CopyRefusesList
  BY <1>10, <1>0
     DEF CopyRefusesList, Types, StatsType, SavedMarkHeld, SameMark, CopyPlaces,
         FilePlaces
<1>11. CASE CopyKilled
  BY <1>11, <1>0
     DEF CopyKilled, Types, StatsType, SavedMarkHeld, SameMark, CopyPlaces,
         FilePlaces
<1>12. CASE CopySkipsProcessed
  <2>1. list' = list /\ pc \in CopyPlaces
    BY <1>12 DEF CopySkipsProcessed, CopyGoesOn, CopyPlaces, FilePlaces
  <2>2. pc \in FilePlaces => at = stats.index
    BY AtFile
  <2>3. pc = "Copy" => at >= stats.index
    BY DEF FirstMark
  <2> QED
    BY <1>0, <1>12, <2>1, <2>2, <2>3, FilePassed
       DEF SavedMarkHeld, CopyPlaces, FilePlaces
<1>13. CASE CopySetsIndex
  <2>1. /\ pc = "Copy" /\ pc' = "Sizes" /\ at' = at /\ first' = first /\ list' = list
        /\ stats' = [stats EXCEPT !.index = at]
    BY <1>13 DEF CopySetsIndex, CopyGoesOn
  <2>2. stats'.index = at /\ at >= stats.index
    BY <2>1 DEF FirstMark, Types, StatsType
  <2> QED
    BY <1>0, <2>1, <2>2 DEF SavedMarkHeld, SameMark, CopyPlaces, FilePlaces
<1>14. CASE CopySetsSizes
  <2>1. pc = "Sizes" /\ at' = at /\ list' = list /\ at = stats.index
    BY <1>14, AtFile DEF CopySetsSizes, FilePlaces
  <2>2. first.done # 0 => first.silent = stats.silent
    BY <2>1 DEF FirstMark
  <2>3. CASE first.done > Size[File]
    <3>1. stats' = [stats EXCEPT !.done = first.done] /\ pc' = "None"
      BY <1>14, <2>3 DEF CopySetsSizes
    <3>2. /\ stats'.done = first.done /\ stats'.silent = stats.silent
          /\ stats'.index = stats.index
      BY <3>1 DEF Types, StatsType
    <3> QED
      BY <1>0, <2>1, <2>2, <3>1, <3>2
         DEF SavedMarkHeld, SameMark, CopyPlaces, FilePlaces
  <2>4. CASE ~(first.done > Size[File])
    <3>1. /\ stats' = [stats EXCEPT !.done = first.done, !.silent = first.silent]
          /\ pc' \in {"Handled", "Open"}
      BY <1>14, <2>4 DEF CopySetsSizes
    <3>2. /\ stats'.done = first.done /\ stats'.silent = first.silent
          /\ stats'.index = stats.index
      BY <3>1 DEF Types, StatsType
    <3> QED
      BY <1>0, <2>1, <3>1, <3>2 DEF SavedMarkHeld, SameMark, CopyPlaces, FilePlaces
  <2> QED
    BY <2>3, <2>4
<1>15. CASE CopyHandled
  <2>1. list' = list /\ pc \in CopyPlaces
    BY <1>15 DEF CopyHandled, CopyGoesOn, CopyPlaces, FilePlaces
  <2>2. pc \in FilePlaces => at = stats.index
    BY AtFile
  <2>3. pc = "Copy" => at >= stats.index
    BY DEF FirstMark
  <2> QED
    BY <1>0, <1>15, <2>1, <2>2, <2>3, FilePassed
       DEF SavedMarkHeld, CopyPlaces, FilePlaces
<1>16. CASE CopyMarks
  <2>1. list' = list /\ pc \in CopyPlaces
    BY <1>16 DEF CopyMarks, CopyGoesOn, CopyPlaces, FilePlaces
  <2>2. pc \in FilePlaces => at = stats.index
    BY AtFile
  <2>3. pc = "Copy" => at >= stats.index
    BY DEF FirstMark
  <2> QED
    BY <1>0, <1>16, <2>1, <2>2, <2>3, FilePassed
       DEF SavedMarkHeld, CopyPlaces, FilePlaces
<1>17. CASE CopyDrops
  <2>1. list' = list /\ pc \in CopyPlaces
    BY <1>17 DEF CopyDrops, CopyGoesOn, CopyPlaces, FilePlaces
  <2>2. pc \in FilePlaces => at = stats.index
    BY AtFile
  <2>3. pc = "Copy" => at >= stats.index
    BY DEF FirstMark
  <2> QED
    BY <1>0, <1>17, <2>1, <2>2, <2>3, FilePassed
       DEF SavedMarkHeld, CopyPlaces, FilePlaces
<1>18. CASE CopyEnds
  <2>1. /\ pc = "Copy" /\ pc' = "Next" /\ list' = list /\ at > Len(list)
        /\ stats' = [stats EXCEPT !.index = at]
    BY <1>18 DEF CopyEnds, CopyGoesOn
  <2>2. /\ stats'.index = at /\ at >= stats.index
        /\ \A p \in DOMAIN list : p <= Len(list) /\ p \in Nat
    BY <2>1 DEF FirstMark, Types, StatsType
  <2>3. at \notin DOMAIN list
    BY <1>0, <2>1, <2>2 DEF Types
  <2> QED
    BY <1>0, <2>1, <2>2, <2>3 DEF SavedMarkHeld, SameMark, CopyPlaces, FilePlaces
<1>19. CASE Opened
  BY <1>19, <1>0
     DEF Opened, Types, StatsType, SavedMarkHeld, SameMark, CopyPlaces,
         FilePlaces
<1>20. CASE PassedOver
  <2>1. list' = list /\ pc \in CopyPlaces
    BY <1>20 DEF PassedOver, CopyGoesOn, CopyPlaces, FilePlaces
  <2>2. pc \in FilePlaces => at = stats.index
    BY AtFile
  <2>3. pc = "Copy" => at >= stats.index
    BY DEF FirstMark
  <2> QED
    BY <1>0, <1>20, <2>1, <2>2, <2>3, FilePassed
       DEF SavedMarkHeld, CopyPlaces, FilePlaces
<1>21. CASE StoppedInFile
  BY <1>21, <1>0
     DEF StoppedInFile, Types, StatsType, SavedMarkHeld, SameMark, CopyPlaces,
         FilePlaces
<1>22. CASE \/ WriteChunk \/ AccountChunk \/ WriteEnds
  BY <1>22, <1>0
     DEF WriteChunk, AccountChunk, WriteEnds, Types, StatsType, SavedMarkHeld,
         SameMark, CopyPlaces, FilePlaces
<1>23. CASE Delete
  BY <1>23, <1>0
     DEF Delete, StartDelete, DeleteKilled, DeleteSkips, DeleteFile, Stopped,
         AnswersStop, DeleteEnds, Types, StatsType, SavedMarkHeld, SameMark,
         CopyPlaces, FilePlaces
<1>24. CASE Save
  BY <1>24, <1>0
     DEF Save, SaveState, SaveFiles, SaveIndex, SaveStats, Types, StatsType,
         SavedMarkHeld, SameMark, CopyPlaces, FilePlaces
<1>25. CASE Kill
  BY <1>25, <1>0
     DEF Kill, Types, StatsType, SavedMarkHeld, SameMark, CopyPlaces, FilePlaces
<1>26. CASE Restart
  BY <1>26, <1>0
     DEF Restart, Types, StatsType, SavedMarkHeld, SameMark, CopyPlaces,
         FilePlaces
<1>27. CASE Crash
  BY <1>27, <1>0
     DEF Crash, Types, StatsType, SavedMarkHeld, SameMark, CopyPlaces,
         FilePlaces
<1> QED
  BY <1>1, <1>2, <1>3, <1>4, <1>5, <1>6, <1>7, <1>8, <1>9, <1>10, <1>11, <1>12,
     <1>13, <1>14, <1>15, <1>16, <1>17, <1>18, <1>19, <1>20, <1>21, <1>22,
     <1>23, <1>24, <1>25, <1>26, <1>27
     DEF Steps, FastMove, Scan, Delete, Save

\* Once the scan is over, its list stays as long as the process lives.
LEMMA ListStays ==
    ASSUME Types, Whereabouts, ListShape, Steps, ~Restart, ~Crash,
           IsPast("Scan", Reached), list # <<>>
    PROVE  list' = list /\ IsPast("Scan", Reached)'
<1>0. /\ sub \in Nat /\ \A n \in Nat : n <= n + 1 /\ n + 1 \in Nat
      /\ IsPast("Scan", sub) => IsPast("Scan", sub + 1)
      /\ complete
  BY PlanShape DEF Types, ListShape
<1> USE DEF vars, filesVars, progress, threadVars, saveVars, ghosts,
        FastMoveStep, ScanUnchanged, CopyUnchanged, OpenUnchanged,
        WriteUnchanged, OthersUnchanged, DeleteUnchanged, DeleteStep,
        SaveUnchanged, Starts, Halt, Throw, IsPast, Reached, CopyPlaces,
        FilePlaces
<1>1. CASE \/ UNCHANGED vars \/ Begin \/ Finish \/ NextSubTask
  BY <1>1, <1>0 DEF vars, Begin, Finish, NextSubTask
<1>2. CASE End
  BY <1>2, <1>0 DEF End
<1>3. CASE FastMove
  BY <1>3, <1>0
     DEF FastMove, StartFastMove, FastMoveSkipsHandled, FastMoveCannotRead,
         DeclineAll, Stopped, AnswersStop, FastMoveMarks, FastMoveImpossible,
         FastMoveFails, FastMoveEnds, FastMoveMoves
<1>4. CASE StartScan
  BY <1>4, <1>0, ScanStarts
<1>5. CASE ScanSkipsHandled
  BY <1>5, <1>0 DEF ScanSkipsHandled
<1>6. CASE ScanPath
  BY <1>6, <1>0, Scanning DEF ScanPath
<1>7. CASE ScanCannotRead
  BY <1>7, <1>0 DEF ScanCannotRead, DeclineAll, Stopped, AnswersStop
<1>8. CASE ScanEnds
  BY <1>8, <1>0 DEF ScanEnds
<1>9. CASE \/ StartCopy \/ CopyRefusesList \/ CopyKilled \/ CopySkipsProcessed
           \/ CopySetsIndex \/ CopySetsSizes \/ CopyHandled \/ CopyMarks
           \/ CopyDrops \/ CopyEnds
  BY <1>9, <1>0
     DEF StartCopy, Stopped, AnswersStop, CopyRefusesList, CopyKilled,
         CopySkipsProcessed, CopyGoesOn, CopySetsIndex, CopySetsSizes,
         CopyHandled, CopyMarks, CopyDrops, CopyEnds
<1>10. CASE Opened
  BY <1>10, <1>0 DEF Opened
<1>11. CASE PassedOver
  BY <1>11, <1>0 DEF PassedOver, PassOver
<1>12. CASE StoppedInFile
  BY <1>12, <1>0 DEF StoppedInFile
<1>13. CASE \/ WriteChunk \/ AccountChunk \/ WriteEnds
  BY <1>13, <1>0 DEF WriteChunk, AccountChunk, WriteEnds
<1>14. CASE Delete
  BY <1>14, <1>0
     DEF Delete, StartDelete, DeleteKilled, DeleteSkips, DeleteFile, Stopped,
         AnswersStop, DeleteEnds
<1>15. CASE Save
  BY <1>15, <1>0 DEF Save, SaveState, SaveFiles, SaveIndex, SaveStats
<1>16. CASE Kill
  BY <1>16, <1>0 DEF Kill
<1>17. CASE Restart
  BY <1>17, <1>0 DEF Restart
<1>18. CASE Crash
  BY <1>18, <1>0 DEF Crash
<1> QED
  BY <1>1, <1>2, <1>3, <1>4, <1>5, <1>6, <1>7, <1>8, <1>9, <1>10, <1>11, <1>12,
     <1>13, <1>14, <1>15, <1>16, <1>17, <1>18
     DEF Steps, FastMove, Scan, Delete, Save

\* A file that is written, but is not the current one, was written before.
LEMMA WrittenBefore ==
    ASSUME Types, Whereabouts, ListShape, CurrentFile, Steps, ~Restart, ~Crash,
           NEW i \in Files, Written(i)'
    PROVE  \/ Written(i) /\ dst'[i] = dst[i]
           \/ pc \in {"Open", "Write"} /\ i = File /\ (Opened \/ WriteChunk)
<1>1. src' \subseteq src /\ processed \subseteq processed'
  BY FilesKept, ProcessedKept
<1>2. CASE dst'[i] = dst[i]
  BY <1>1, <1>2 DEF Written, IsData
<1>3. CASE pc \in {"Open", "Write"} /\ i = File /\ dst'[i] # dst[i]
  BY <1>3, DestinationsKept
<1> QED
  BY <1>2, <1>3, FilesKept DEF Written

\* What is known of a written file stays known.
LEMMA RememberedStays ==
    ASSUME Types, Whereabouts, ListShape, FirstMark, CurrentFile, Steps, ~Restart,
           ~Crash, ~StaleStops, left.crash # 0,
           NEW i \in Files, Written(i), dst'[i] = dst[i], i \notin processed',
           Len(dst[i]) <= Size[i],
           NEW p \in DOMAIN list, list[p] = i, Remembered(i, p)
    PROVE  Remembered(i, p)'
<1>0. /\ p \in Nat /\ at \in Nat /\ stats.index \in Nat /\ stats.done \in Nat
      /\ p <= stats.index /\ Size[i] \in Nat /\ Len(dst[i]) # 0
      /\ i \notin processed /\ i \in src
  BY FileKnown, ContentTypes
     DEF Types, StatsType, Remembered, Written
<1>a. pc \in FilePlaces /\ p = stats.index => File = i /\ at = p
  BY AtFile
<1>b. pc = "Copy" => at >= stats.index
  BY DEF FirstMark
<1> USE DEF vars, filesVars, progress, threadVars, saveVars, ghosts,
        FastMoveStep, ScanUnchanged, CopyUnchanged, OpenUnchanged,
        WriteUnchanged, OthersUnchanged, DeleteUnchanged, DeleteStep,
        SaveUnchanged, Starts, Halt, Throw, Remembered, WrittenMark, Whole,
        CopyPlaces, FilePlaces
<1>1. CASE \/ UNCHANGED vars \/ Begin \/ Finish \/ NextSubTask
  BY <1>1, <1>0 DEF vars, Begin, Finish, NextSubTask
<1>2. CASE End
  BY <1>2, <1>0 DEF End
<1>3. CASE FastMove
  BY <1>3, <1>0
     DEF FastMove, StartFastMove, FastMoveSkipsHandled, FastMoveCannotRead,
         DeclineAll, Stopped, AnswersStop, FastMoveMarks, FastMoveImpossible,
         FastMoveFails, FastMoveEnds, FastMoveMoves
<1>4. CASE Scan
  BY <1>4, <1>0
     DEF Scan, StartScan, ScanSkipsHandled, ScanPath, ScanCannotRead,
         DeclineAll, Stopped, AnswersStop, ScanEnds
<1>5. CASE StartCopy
  BY <1>5, <1>0 DEF StartCopy, Stopped, AnswersStop
<1>6. CASE CopyRefusesList
  BY <1>6, <1>0 DEF CopyRefusesList
<1>7. CASE CopyKilled
  <2>1. /\ pc = "Copy" /\ pc' = "End" /\ stats' = stats
        /\ ~(stats.done # 0 /\ at > stats.index)
    BY <1>7 DEF CopyKilled, Stale
  <2>2. CASE at = stats.index
    BY <1>0, <2>1, <2>2 DEF FirstMark
  <2>3. CASE at # stats.index
    <3>1. stats.done = 0
      BY <1>0, <1>b, <2>1, <2>3
    <3>2. p # stats.index
      BY <1>0, <2>1, <2>3, <3>1
    <3> QED
      BY <1>0, <2>1, <3>2
  <2> QED
    BY <2>2, <2>3
<1>8. CASE CopySkipsProcessed
  <2>1. /\ pc = "Copy" /\ pc' = "Copy" /\ stats' = stats /\ at' = at + 1
        /\ list[at] \in processed /\ first' = first
    BY <1>8 DEF CopySkipsProcessed, CopyGoesOn, File
  <2>2. at # p
    BY <1>0, <2>1
  <2> QED
    BY <1>0, <1>b, <2>1, <2>2
<1>9. CASE CopySetsIndex
  <2>1. /\ pc = "Copy" /\ pc' = "Sizes" /\ first' = first
        /\ stats' = [stats EXCEPT !.index = at]
    BY <1>9 DEF CopySetsIndex, CopyGoesOn
  <2>2. stats'.index = at
    BY <2>1 DEF Types, StatsType
  <2> QED
    BY <1>0, <1>b, <2>1, <2>2
<1>10. CASE CopySetsSizes
  <2>1. pc = "Sizes" /\ first.done \in Nat /\ stats \in StatsType
    BY <1>10 DEF CopySetsSizes, Types
  <2>2. CASE p # stats.index
    <3>1. stats'.index = stats.index
      BY <1>10, <2>1 DEF CopySetsSizes, StatsType
    <3> QED
      BY <1>0, <2>2, <3>1
  <2>3. CASE p = stats.index
    <3>1. File = i
      BY <1>a, <2>1, <2>3
    <3>2. first.done # 0 => first.done <= Size[i]
      BY <1>0, <2>1, <3>1 DEF FirstMark, Fits, MarkExact
    <3>3. ~(first.done > Size[File])
      BY <1>0, <2>1, <3>1, <3>2
    <3>4. /\ stats' = [stats EXCEPT !.done = first.done, !.silent = first.silent]
          /\ pc' \in {"Handled", "Open"}
      BY <1>10, <3>3 DEF CopySetsSizes
    <3>5. stats'.done = first.done /\ stats'.silent = first.silent
      BY <2>1, <3>4 DEF StatsType
    <3> QED
      BY <1>0, <2>1, <2>3, <3>4, <3>5
  <2> QED
    BY <2>2, <2>3
<1>11. CASE CopyHandled
  <2>1. /\ pc = "Handled" /\ File \in processed'
        /\ stats' = [stats EXCEPT !.done = Size[File]]
    BY <1>11 DEF CopyHandled
  <2>2. p # stats.index /\ stats'.index = stats.index
    BY <1>a, <2>1 DEF Types, StatsType
  <2> QED
    BY <1>0, <2>2
<1>12. CASE CopyMarks
  <2>1. pc = "Copied" /\ File \in processed' /\ stats' = stats
    BY <1>12 DEF CopyMarks
  <2>2. p # stats.index
    BY <1>a, <2>1
  <2> QED
    BY <1>0, <2>1, <2>2
<1>13. CASE CopyDrops
  <2>1. pc = "Drop" /\ File \in processed /\ stats' = stats
    BY <1>13 DEF CopyDrops, CurrentFile
  <2>2. p # stats.index
    BY <1>0, <1>a, <2>1
  <2> QED
    BY <1>0, <2>1, <2>2
<1>14. CASE CopyEnds
  BY <1>14, <1>0 DEF CopyEnds, CopyGoesOn
<1>15. CASE Opened
  BY <1>15, <1>0 DEF Opened
<1>16. CASE PassedOver
  <2>1. /\ pc \in {"Open", "Write"} /\ pc' = "Copy" /\ at' = at + 1
        /\ stats' = [stats EXCEPT !.done = Size[File]]
    BY <1>16 DEF PassedOver, PassOver
  <2>2. p = stats.index => File = i /\ at = p
    BY <1>a, <2>1
  <2>3. stats' = [stats EXCEPT !.done = Size[File]] /\ stats'.index = stats.index
    BY <2>1 DEF Types, StatsType
  <2>4. p = stats.index => stats'.done = Size[i]
    BY <2>2, <2>3 DEF Types, StatsType
  <2> QED
    BY <1>0, <2>1, <2>2, <2>3, <2>4
<1>17. CASE StoppedInFile
  <2>1. PICK done \in Nat : stats' = [stats EXCEPT !.done = done]
    BY <1>17 DEF StoppedInFile
  <2>2. stats'.index = stats.index /\ pc' = "End" /\ pc \in {"Open", "Write"}
    BY <1>17, <2>1 DEF StoppedInFile, Types, StatsType
  <2>3. p = stats.index => File = i
    BY <1>a, <2>2
  <2>4. p = stats.index => WrittenMark(i, stats')
    BY <1>17, <2>3 DEF StoppedInFile
  <2> QED
    BY <1>0, <2>2, <2>4
<1>18. CASE WriteChunk
  BY <1>18, <1>0 DEF WriteChunk
<1>19. CASE AccountChunk
  BY <1>19, <1>0 DEF AccountChunk
<1>20. CASE WriteEnds
  <2>1. /\ pc = "Write" /\ pc' \in {"Copied", "End"} /\ stats.done = Size[File]
        /\ stats' = [stats EXCEPT !.done = 0]
    BY <1>20 DEF WriteEnds, LastWritten
  <2>2. stats'.index = stats.index /\ stats'.done = 0 /\ stats'.silent = stats.silent
    BY <2>1 DEF Types, StatsType
  <2>3. CASE p # stats.index
    BY <1>0, <2>2, <2>3
  <2>4. CASE p = stats.index
    <3>1. File = i
      BY <1>a, <2>1, <2>4
    <3>2. /\ IsData(dst[i]) /\ stats.silent /\ Len(dst[i]) \in {Size[i], Size[i] + 1}
          /\ Len(dst[i]) <= Size[i]
      BY <2>1, <3>1 DEF CurrentFile
    <3>3. dst[i] \in Seq(Chunks)
      BY <3>2, ContentTypes DEF IsData, Types
    <3>4. dst[i] = Whole(i)
      BY <1>0, <3>2, <3>3, DataOfFullLength
    <3> QED
      BY <1>0, <2>1, <2>2, <3>2, <3>4
  <2> QED
    BY <2>3, <2>4
<1>21. CASE Delete
  BY <1>21, <1>0
     DEF Delete, StartDelete, DeleteKilled, DeleteSkips, DeleteFile, Stopped,
         AnswersStop, DeleteEnds
<1>22. CASE Save
  BY <1>22, <1>0 DEF Save, SaveState, SaveFiles, SaveIndex, SaveStats
<1>23. CASE Kill
  BY <1>23, <1>0 DEF Kill
<1>24. CASE Restart
  BY <1>24, <1>0 DEF Restart
<1>25. CASE Crash
  BY <1>25, <1>0 DEF Crash
<1> QED
  BY <1>1, <1>2, <1>3, <1>4, <1>5, <1>6, <1>7, <1>8, <1>9, <1>10, <1>11, <1>12,
     <1>13, <1>14, <1>15, <1>16, <1>17, <1>18, <1>19, <1>20, <1>21, <1>22,
     <1>23, <1>24, <1>25
     DEF Steps, FastMove, Scan, Delete, Save

LEMMA WrittenKnownKept ==
    ASSUME Types, Whereabouts, ListShape, FirstMark, CurrentFile, Progress, Bounded,
           BeforeCrash, Uninterrupted \/ CrashingOnce, Steps, left'.crash # 0
    PROVE  WrittenKnown'
<1>1. /\ left.crash # 0 /\ ~Restart /\ ~Crash /\ ~StaleStops /\ WrittenKnown
  BY StillBefore
<1>2. SUFFICES ASSUME NEW i \in Files, Written(i)'
               PROVE  /\ Len(dst'[i]) <= Size[i] /\ IsPast("Scan", Reached)'
                      /\ \E p \in DOMAIN list' : list'[p] = i /\ Remembered(i, p)'
  BY DEF WrittenKnown
<1>3. CASE Written(i) /\ dst'[i] = dst[i]
  <2>1. Len(dst[i]) <= Size[i] /\ IsPast("Scan", Reached)
    BY <1>1, <1>3 DEF WrittenKnown
  <2>2. PICK p \in DOMAIN list : list[p] = i /\ Remembered(i, p)
    BY <1>1, <1>3 DEF WrittenKnown
  <2>3. list' = list /\ IsPast("Scan", Reached)'
    BY <1>1, <2>1, <2>2, ListStays DEF Types
  <2>4. i \notin processed'
    BY <1>2 DEF Written
  <2>5. Remembered(i, p)'
    BY <1>1, <1>3, <2>1, <2>2, <2>4, RememberedStays
  <2> QED
    BY <1>3, <2>1, <2>2, <2>3, <2>5
<1>4. CASE pc \in {"Open", "Write"} /\ i = File /\ (Opened \/ WriteChunk)
  <2>1. /\ at \in DOMAIN list /\ at \in Nat /\ at = stats.index /\ list[at] = i
        /\ Size[i] \in Nat /\ dst[i] \in Contents
    BY <1>4, AtFile DEF FilePlaces, File
  <2>2. IsPast("Scan", sub) /\ pc # "Next"
    BY <1>4, PlanShape DEF Whereabouts, CopyPlaces, FilePlaces
  <2>3. list' = list /\ sub' = sub /\ pc' = "Write"
    BY <1>4 DEF Opened, OthersUnchanged, WriteChunk, WriteUnchanged, OpenUnchanged,
                CopyUnchanged
  <2>4. stats'.index = stats.index /\ stats'.index \in Nat
    BY <1>4 DEF Opened, WriteChunk, Types, StatsType
  <2>5. Len(dst'[i]) <= Size[i]
    <3>1. CASE Opened
      <4>1. PICK c \in Seq(Chunks) : dst' = [dst EXCEPT ![File] = c] /\ Len(c) <= Size[File]
        BY <3>1 DEF Opened
      <4> QED
        BY <1>4, <4>1 DEF Types
    <3>2. CASE WriteChunk
      <4>1. /\ pc = "Write" /\ dst' = [dst EXCEPT ![File] = Append(dst[File], "data")]
            /\ Len(dst[File]) = stats.done /\ stats.done < Size[File]
        BY <3>2 DEF WriteChunk
      <4>2. dst[i] \in Seq(Chunks) /\ IsData(dst[i])
        BY <1>4, <2>1, <4>1, ContentTypes DEF CurrentFile, IsData
      <4>3. dst'[i] = Append(dst[i], "data")
        BY <1>4, <4>1 DEF Types
      <4>4. Len(dst'[i]) = Len(dst[i]) + 1 /\ Len(dst[i]) \in Nat
        BY <4>2, <4>3, DataAppended
      <4> QED
        BY <1>4, <2>1, <4>1, <4>4
    <3> QED
      BY <1>4, <3>1, <3>2
  <2>6. IsPast("Scan", Reached)'
    BY <2>2, <2>3 DEF Reached, IsPast
  <2>7. PICK p \in DOMAIN list : p = at
    BY <2>1
  <2>8. Remembered(i, p)'
    BY <2>1, <2>3, <2>4, <2>7 DEF Remembered, CopyPlaces, FilePlaces
  <2> QED
    BY <2>1, <2>3, <2>5, <2>6, <2>7, <2>8
<1> QED
  BY <1>1, <1>2, <1>3, <1>4, WrittenBefore

LEMMA BeforeCrashKept ==
    ASSUME Types, Inv, Uninterrupted \/ CrashingOnce, Steps
    PROVE  BeforeCrash'
<1>1. SUFFICES ASSUME left'.crash # 0
               PROVE  /\ Resumable(saved)' /\ saved'.sub <= sub'
                      /\ SavedListHeld' /\ SavedMarkHeld' /\ WrittenKnown'
  BY DEF BeforeCrash
<1> USE DEF Inv
<1>2. WrittenKnown'
  BY <1>1, WrittenKnownKept
<1>3. CASE saved' = saved
  <2>1. Resumable(saved)'
    BY <1>1, <1>3, StaysResumable
  <2>2. SavedListHeld' /\ saved'.sub <= sub'
    BY <1>1, <1>3, SavedListStays
  <2>3. SavedMarkHeld'
    BY <1>1, <1>3, SavedMarkStays
  <2> QED
    BY <1>2, <2>1, <2>2, <2>3
<1>4. CASE End \/ SaveStats
  BY <1>1, <1>2, <1>4, SavedResumable
<1>5. ~Restart
  BY <1>1, StillBefore
<1> QED
  BY <1>3, <1>4, <1>5, SavedAtSaves

-----------------------------------------------------------------------------
(* The inductive invariant *)

LEMMA InvAtFirst == Init => Inv
<1> SUFFICES ASSUME Init PROVE Inv
  OBVIOUS
<1> USE DEF Init
<1>1. /\ pc = "None" /\ sub = 1 /\ list = <<>> /\ Reached = 1 /\ DOMAIN list = {}
      /\ stats.done = 0 /\ stats.index = 1
  BY DEF Reached, NewStats
<1>2. ~IsPast("Scan", Reached) /\ ~IsPast("Copy", Reached)
  BY <1>1, PlanShape
<1>3. \A i \in Files : ~IsData(dst[i]) \/ Len(dst[i]) = 0
  <2> SUFFICES ASSUME NEW i \in Files, IsData(dst[i]) PROVE Len(dst[i]) = 0
    OBVIOUS
  <2>1. PICK n \in Existing : dst[i] = [p \in 1..n |-> "other"]
    BY DEF IsData
  <2>2. n \in Nat /\ \A p \in 1..n : dst[i][p] = "other"
    BY <2>1, FilesAssumption
  <2>3. n = 0
    BY <2>1, <2>2 DEF IsData
  <2> QED
    BY <2>1, <2>3
<1>4. Whereabouts /\ ListShape /\ PendingMark /\ FirstMark /\ CurrentFile
  BY <1>1, <1>2
     DEF Whereabouts, ListShape, PendingMark, FirstMark, CurrentFile, CopyPlaces,
         FilePlaces, ListedOnce, Found
<1>5. NoDataLost
  BY DEF NoDataLost
<1>6. Progress
  BY <1>1, <1>2
     DEF Progress, MovedWhole, ScannedListed, SourceListed, FrontTreated,
         PassedTreated, CopiedArrived, HandledArrived, MarkedWhole, FinishedAtEnd,
         Found
<1>7. Bounded /\ SaveShape
  BY BoundAssumption DEF Bounded, SaveShape
<1>8. SavedKept
  BY DEF SavedKept, MarkedWhole
<1>9. BeforeCrash
  <2>1. saved.sub = 1 /\ saved.stats.done = 0 /\ saved.stats.index = 1
        /\ saved.files.list = <<>> /\ saved.files.processed = {} /\ saved.handled = {}
        /\ saved.state = "Open"
    BY DEF NewStats
  <2>2. Resumable(saved)
    BY <1>1, <1>2, <2>1
       DEF Resumable, ListedOnce, MarkStands, PassedTreated, HandledArrived,
           MarkedWhole
  <2>3. SavedListHeld /\ SavedMarkHeld
    BY <1>1, <2>1 DEF SavedListHeld, SavedMarkHeld
  <2>4. WrittenKnown
    BY <1>3 DEF WrittenKnown, Written
  <2> QED
    BY <1>1, <2>1, <2>2, <2>3, <2>4 DEF BeforeCrash
<1> QED
  BY <1>4, <1>5, <1>6, <1>7, <1>8, <1>9 DEF Inv

LEMMA InvKept ==
    ASSUME Types, Types', Inv, Uninterrupted \/ CrashingOnce, [Next]_vars
    PROVE  Inv'
<1> USE DEF Inv
<1>1. Steps
  BY NextTakesSteps
<1>2. Whereabouts' /\ ListShape' /\ Bounded' /\ SaveShape' /\ NoDataLost'
  BY <1>1, WhereaboutsKept, ListShapeKept, BoundedKept, SaveShapeKept, NoDataLostKept
<1>3. PendingMark' /\ FirstMark' /\ CurrentFile'
  BY <1>1, PendingMarkKept, FirstMarkKept, CurrentFileKept
<1>4. Progress'
  <2>1. /\ MovedWhole /\ ScannedListed /\ SourceListed /\ FrontTreated
        /\ CopiedArrived /\ FinishedAtEnd
    BY DEF Progress
  <2>2. MovedWhole' /\ ScannedListed' /\ SourceListed' /\ FinishedAtEnd'
    BY <1>1, <2>1, MovedWholeKept, ScannedListedKept, SourceListedKept,
       FinishedAtEndKept
  <2>3. FrontTreated' /\ CopiedArrived'
    BY <1>1, <2>1, FrontTreatedKept, CopiedArrivedKept
  <2>4. HandledArrived(handled)' /\ MarkedWhole(Found, handled)'
    BY <1>1, HandledArrivedKept, MarkedWholeKept
  <2> QED
    BY <2>2, <2>3, <2>4 DEF Progress
<1>5. SavedKept'
  BY <1>1, SavedKeptKept
<1>6. BeforeCrash'
  BY <1>1, BeforeCrashKept
<1> QED
  BY <1>2, <1>3, <1>4, <1>5, <1>6

-----------------------------------------------------------------------------
(* Destinations of the user *)

LEMMA DestinationsWritten ==
    ASSUME Types, [Next]_vars, pc \in {"Open", "Write"}
    PROVE  Open \/ WriteChunk \/ dst' = dst
<1> USE DEF vars, filesVars, progress, threadVars, saveVars, ghosts,
        FastMoveStep, ScanUnchanged, CopyUnchanged, OpenUnchanged,
        WriteUnchanged, OthersUnchanged, DeleteUnchanged, DeleteStep,
        SaveUnchanged, Starts, Halt, Throw
<1>1. CASE \/ Begin \/ Finish \/ NextSubTask
  BY <1>1 DEF Begin, Finish, NextSubTask
<1>2. CASE End
  BY <1>2 DEF End
<1>3. CASE FastMove
  BY <1>3
     DEF FastMove, StartFastMove, FastMoveSkipsHandled, FastMoveCannotRead,
         DeclineAll, Stopped, AnswersStop, FastMoveMarks, FastMoveImpossible,
         FastMoveFails, FastMoveEnds, FastMoveMoves
<1>4. CASE Scan
  BY <1>4
     DEF Scan, StartScan, ScanSkipsHandled, ScanPath, ScanCannotRead,
         DeclineAll, Stopped, AnswersStop, ScanEnds
<1>5. CASE \/ StartCopy \/ CopyRefusesList \/ CopyKilled \/ CopySkipsProcessed
           \/ CopySetsIndex \/ CopySetsSizes \/ CopyHandled \/ CopyMarks
           \/ CopyDrops \/ CopyEnds
  BY <1>5
     DEF StartCopy, Stopped, AnswersStop, CopyRefusesList, CopyKilled,
         CopySkipsProcessed, CopyGoesOn, CopySetsIndex, CopySetsSizes,
         CopyHandled, CopyMarks, CopyDrops, CopyEnds
<1>6. CASE Open
  BY <1>6
<1>7. CASE WriteStops
  BY <1>7 DEF WriteStops
<1>8. CASE UNCHANGED vars
  BY <1>8
<1>9. CASE \/ WriteChunk \/ AccountChunk \/ WriteEnds
  BY <1>9 DEF WriteChunk, AccountChunk, WriteEnds
<1>10. CASE Delete
  BY <1>10
     DEF Delete, StartDelete, DeleteKilled, DeleteSkips, DeleteFile, Stopped,
         AnswersStop, DeleteEnds
<1>11. CASE Save
  BY <1>11 DEF Save, SaveState, SaveFiles, SaveIndex, SaveStats
<1>12. CASE Kill
  BY <1>12 DEF Kill
<1>13. CASE Restart
  BY <1>13 DEF Restart
<1>14. CASE Crash
  BY <1>14 DEF Crash
<1> QED
  BY <1>1, <1>2, <1>3, <1>4, <1>5, <1>6, <1>7, <1>8, <1>9, <1>10, <1>11, <1>12,
     <1>13, <1>14
     DEF Next, Thread, FastMove, Scan, Copy, Delete, Save

\* Only data is appended to a file that is being written; one that is opened keeps
\* what it holds, unless the user was asked, or it holds only data.
LEMMA DestinationsOfUsersKept ==
    ASSUME Types, CurrentFile, Steps, [Next]_vars,
           NEW i \in Files, dst[i] # NoFile, dst'[i] # dst[i],
           NEW p \in DOMAIN dst[i], dst[i][p] = "other"
    PROVE  i \in agreed'
<1>1. pc \in {"Open", "Write"} /\ i = File
  BY FilesKept
<1>2. /\ File \in Files /\ Size[File] \in Nat /\ dst[File] \in Seq(Chunks)
      /\ stats.done \in Nat /\ dst \in [Files -> Contents]
  BY <1>1, AtFile, ContentTypes DEF FilePlaces, Types, StatsType
<1>3. ~IsData(dst[i]) /\ p \in 1..Len(dst[i]) /\ Len(dst[i]) # 0
  BY <1>1, <1>2 DEF IsData
<1>4. ~WriteChunk
  BY <1>1, <1>3 DEF WriteChunk, CurrentFile
<1>5. ~OpenFails /\ ~OpenFresh /\ ~OpenDeclined
  BY <1>1 DEF OpenFails, OpenFresh, OpenDeclined, filesVars
<1>6. ~OpenResumes
  <2> SUFFICES ASSUME OpenResumes PROVE FALSE
    OBVIOUS
  <2>1. /\ Len(dst[File]) = stats.done /\ Len(dst[File]) <= Size[File]
    BY <1>1, <1>3 DEF OpenResumes, SilentResume
  <2>2. Minimum(stats.done, Size[File]) = Len(dst[File])
    BY <1>2, <2>1 DEF Minimum
  <2>3. Truncated(dst[File], Len(dst[File])) = dst[File]
    BY <1>2 DEF Truncated
  <2>4. dst'[File] = dst[File]
    BY <1>2, <2>2, <2>3 DEF OpenResumes, StartWriting
  <2> QED
    BY <1>1, <2>4
<1>7. ~OpenAppends
  BY <1>1, <1>3 DEF OpenAppends, IsData
<1>8. Open
  BY <1>1, <1>4, DestinationsWritten
<1> QED
  BY <1>1, <1>5, <1>6, <1>7, <1>8 DEF Open, OpenAnew, Agree

-----------------------------------------------------------------------------
(* What the task promises *)

LEMMA InvInvariant ==
    ASSUME Uninterrupted \/ CrashingOnce
    PROVE  Spec => [](Types /\ Inv)
<1>1. Init => Types /\ Inv
  BY TypesAtFirst, InvAtFirst
<1>2. Types /\ Inv /\ [Next]_vars => Types' /\ Inv'
  BY TypesKept, InvKept
<1> QED
  BY <1>1, <1>2, PTL DEF Spec

\* TSubTaskDelete and the fast move take a file from the source only when it has
\* arrived, or moves with it, whatever is skipped and wherever the thread is stopped,
\* but right after a file was passed over: however often it is restarted, or saved
\* while it runs, if the process does not die; or else when it dies once.
THEOREM NoDataIsLost ==
    ASSUME Uninterrupted \/ CrashingOnce
    PROVE  Spec => []NoDataLost
<1>1. Types /\ Inv => NoDataLost
  BY DEF Inv
<1> QED
  BY <1>1, InvInvariant, PTL

\* When TTask::ThrdProc reports Finished no file was left out that the user did not
\* skip, for any sub-tasks and any stops but those right after a file was passed over;
\* with restarts, or, in the second case, a crash between any two steps and the
\* continuation from what was saved.
THEOREM FinishedTasksHaveCopied ==
    ASSUME Uninterrupted \/ CrashingOnce
    PROVE  Spec => []FinishedMeansCopied
<1>1. ASSUME Types, Inv, state = "Finished"
      PROVE  \A i \in Files : dst[i] = Whole(i) \/ i \in declined
  <2>1. sub \in Nat /\ sub > Len(Plan) /\ pc # "Next"
    BY <1>1 DEF Inv, Progress, FinishedAtEnd, Types
  <2>2. IsPast("Copy", Reached)
    BY <2>1, PlanShape DEF Reached
  <2> QED
    BY <1>1, <2>2 DEF Inv, Progress, CopiedArrived, AllArrived, Arrived
<1>2. Types /\ Inv => FinishedMeansCopied
  BY <1>1 DEF FinishedMeansCopied
<1> QED
  BY <1>2, InvInvariant, PTL

\* The flag eFlag_Processed, in TFileInfoArray and in the database, is never ahead of
\* the file: a continued task passes over nothing that has not arrived.  A stop right
\* after a file was passed over is excluded: its skipped size survives, and the next
\* file is marked with a hole (the run stale_skip).
THEOREM ProcessedFilesAreWhole ==
    ASSUME CrashingOnce
    PROVE  Spec => []ProcessedIsWhole
<1>1. Types /\ Inv => ProcessedIsWhole
  BY DEF Inv, Progress, SavedKept, MarkedWhole, Found, ProcessedIsWhole
<1> QED
  BY <1>1, InvInvariant, PTL

\* What the user had at a destination is changed only in a step that asked about it,
\* or after such a step: unless a stop lands right after a file was passed over, no
\* mark in the statistics makes the copying resume a file that holds something else.
THEOREM UsersFilesAreKept ==
    ASSUME Uninterrupted \/ CrashingOnce
    PROVE  Spec => KeepsUsersFiles
<1> DEFINE Kept ==
        \A i \in Files :
            dst[i] # NoFile /\ (\E p \in DOMAIN dst[i] : dst[i][p] = "other")
                /\ dst'[i] # dst[i] => i \in agreed'
<1>1. Types /\ Inv /\ [Next]_vars => Kept
  BY NextTakesSteps, DestinationsOfUsersKept DEF Inv
<1>2. Types /\ Inv /\ [Next]_vars => [Kept]_vars
  BY <1>1
<1> HIDE DEF Kept
<1>3. Spec => [][Kept]_vars
  BY <1>2, InvInvariant, PTL DEF Spec
<1> USE DEF Kept
<1> QED
  BY <1>3 DEF KeepsUsersFiles
=============================================================================
