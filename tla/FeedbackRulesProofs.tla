-------------------------- MODULE FeedbackRulesProofs --------------------------
(***************************************************************************)
(* Proofs about FeedbackRules, for any number of threads that ask, any     *)
(* questions, results and length of the list, and any number of changes,   *)
(* flushes that fail and sessions: the types; that no store is refused for *)
(* rows that are there already; and that the next store that succeeds      *)
(* leaves in the database the list that is in memory.                      *)
(***************************************************************************)
EXTENDS FeedbackRules, FiniteSetTheorems, TLAPS

-----------------------------------------------------------------------------
(* The inductive invariant *)

Entry == [id : Nat, rule : Rules, added : BOOLEAN]

\* What an asker and the editor hold; who has got further than to be idle asks something.
DialogTypes ==
    /\ asking \in [Askers -> [at : {"idle", "copies", "asks"},
                              question : Questions \cup {NoQuestion}, copy : Lists]]
    /\ \A a \in Askers : asking[a].at # "idle" => asking[a].question \in Questions
    /\ editor \in [open : BOOLEAN, copy : Lists]

\* A program that does not run holds nothing.
NothingHeld ==
    ~on => /\ entries = <<>> /\ lastId = 0 /\ removed = {}
           /\ rows = NoRows /\ deletions = {} /\ ~storing
           /\ asking = [a \in Askers |-> Idle] /\ editor = Closed

\* A sequence of n ids in their order that has all of them.
Listing(s, n, ids) ==
    /\ s \in [1..n -> ids]
    /\ \A i, j \in 1..n : i < j => s[i] < s[j]
    /\ \A id \in ids : \E i \in 1..n : s[i] = id

\* The rows of a list of rules: they can be put in order, and are not too many.
Listable(ids) == \E n \in 0..MaxRules : \E s \in [1..n -> ids] : Listing(s, n, ids)

Types ==
    /\ \E n \in 0..MaxRules : entries \in [1..n -> Entry]
    /\ lastId \in Nat
    /\ DialogTypes
    /\ DOMAIN disk \subseteq Nat \ {0}
    /\ Listable(DOMAIN disk) /\ Listable(DOMAIN Written)

\* The list is in the order of the ids, and has none that was removed.
InOrder ==
    /\ \A i, j \in DOMAIN entries : i < j => entries[i].id < entries[j].id
    /\ removed \cap IdsOf(entries) = {}

\* A rule that was not stored has an id that nothing else has, and rows to insert are
\* neither in the table nor to be deleted.
NewIdsAreNew ==
    /\ AddedIds \cap (DOMAIN disk \cup DOMAIN rows \cup deletions) = {}
    /\ DOMAIN rows \cap (DOMAIN disk \cup deletions) = {}

\* What is in the table, once the container is flushed, is in the list or among the
\* removed; and a rule of the list that is not new is in the table.
TableFollowsList ==
    on => /\ DOMAIN Written \subseteq removed \cup IdsOf(entries)
          /\ \A i \in DOMAIN entries :
                ~entries[i].added => /\ entries[i].id \in DOMAIN Written
                                     /\ Written[entries[i].id] = entries[i].rule

Inv == TypeOK /\ Types /\ NothingHeld /\ InOrder /\ NewIdsAreNew /\ TableFollowsList

-----------------------------------------------------------------------------
(* Lists of rules *)

\* The lists are the sequences of at most MaxRules rules.
LEMMA ListsAreSequences ==
    /\ \A list \in Lists : list \in Seq(Rules) /\ Len(list) <= MaxRules
    /\ \A list \in Seq(Rules) : Len(list) <= MaxRules => list \in Lists
    /\ <<>> \in Lists
<1>1. MaxRules \in Nat
  BY BoundsAssumption
<1>2. ASSUME NEW list \in Lists PROVE list \in Seq(Rules) /\ Len(list) <= MaxRules
  <2>1. PICK n \in 0..MaxRules : list \in [1..n -> Rules]
    BY DEF Lists
  <2>2. n \in Nat /\ n <= MaxRules
    BY <1>1
  <2> QED
    BY <2>1, <2>2
<1>3. ASSUME NEW list \in Seq(Rules), Len(list) <= MaxRules PROVE list \in Lists
  <2>1. list \in [1..Len(list) -> Rules] /\ Len(list) \in 0..MaxRules
    BY <1>1, <1>3
  <2> QED
    BY <2>1 DEF Lists
<1>4. <<>> \in Seq(Rules) /\ Len(<<>>) <= MaxRules
  BY <1>1
<1> QED
  BY <1>2, <1>3, <1>4

\* The list of the rules of some entries.
LEMMA ListOfEntries ==
    ASSUME NEW n \in 0..MaxRules, NEW e \in [1..n -> Entry]
    PROVE  ListOf(e) \in [1..n -> Rules] /\ ListOf(e) \in Lists
<1>1. n \in Nat
  BY BoundsAssumption
<1>2. ListOf(e) \in [1..n -> Rules]
  BY <1>1 DEF ListOf, Entry
<1> QED
  BY <1>2 DEF Lists

\* What an answer makes of a list is a list of rules.
LEMMA MergedIsList ==
    ASSUME NEW list \in Seq(Rules), NEW rule \in Rules
    PROVE  Merged(list, rule) \in Seq(Rules)
<1>1. CASE rule.condition \in Conditions(list)
  <2>1. Merged(list, rule) \in [1..Len(list) -> Rules] /\ Len(list) \in Nat
    BY <1>1 DEF Merged
  <2> QED
    BY <2>1
<1>2. CASE rule.condition \notin Conditions(list)
  BY <1>2 DEF Merged
<1> QED
  BY <1>1, <1>2

\* What the editor leaves is a list of rules.
LEMMA EditedIsList ==
    ASSUME NEW list \in Seq(Rules), NEW edited \in Edited(list)
    PROVE  edited \in Seq(Rules)
<1> DEFINE n == Len(list)
<1>1. n \in Nat /\ DOMAIN list = 1..n /\ \A i \in 1..n : list[i] \in Rules
  OBVIOUS
<1> HIDE DEF n
<1>0. \A m \in Nat : \A s \in [1..m -> Rules] : s \in Seq(Rules)
  OBVIOUS
<1>2. ASSUME NEW i \in DOMAIN list, edited = Without(list, i)
      PROVE  edited \in Seq(Rules)
  <2>1. n - 1 \in Nat /\ edited = [j \in 1..n - 1 |-> IF j < i THEN list[j] ELSE list[j + 1]]
    BY <1>1, <1>2 DEF Without, n
  <2>2. \A j \in 1..n - 1 : j \in 1..n /\ j + 1 \in 1..n
    BY <1>1
  <2>3. edited \in [1..n - 1 -> Rules]
    BY <1>1, <2>1, <2>2
  <2> QED
    BY <1>0, <2>1, <2>3
<1>3. ASSUME NEW r \in Rules, edited = Append(list, r)
      PROVE  edited \in Seq(Rules)
  BY <1>3
<1>4. ASSUME NEW i \in DOMAIN list \ {1},
             edited = [list EXCEPT ![i] = list[i - 1], ![i - 1] = list[i]]
      PROVE  edited \in Seq(Rules)
  <2>1. i - 1 \in 1..n /\ i \in 1..n
    BY <1>1
  <2>2. list \in [1..n -> Rules]
    BY <1>1
  <2>3. edited \in [1..n -> Rules]
    BY <1>4, <2>1, <2>2
  <2> QED
    BY <1>1, <2>3
<1>5. ASSUME NEW i \in DOMAIN list, NEW r \in Rules, edited = [list EXCEPT ![i] = r]
      PROVE  edited \in Seq(Rules)
  <2>1. list \in [1..n -> Rules]
    BY <1>1
  <2>2. edited \in [1..n -> Rules]
    BY <1>5, <2>1
  <2> QED
    BY <1>1, <2>2
<1> QED
  BY <1>2, <1>3, <1>4, <1>5 DEF Edited

-----------------------------------------------------------------------------
(* Rows in the order of their ids *)

\* Ids that are in order are different.
LEMMA DifferentPlaces ==
    ASSUME NEW n \in Nat, NEW s, \A i \in 1..n : s[i] \in Nat,
           \A i, j \in 1..n : i < j => s[i] < s[j]
    PROVE  \A i, j \in 1..n : s[i] = s[j] => i = j
<1> SUFFICES ASSUME NEW i \in 1..n, NEW j \in 1..n, s[i] = s[j], i # j
             PROVE  FALSE
  OBVIOUS
<1>1. i < j \/ j < i
  OBVIOUS
<1>2. s[i] \in Nat /\ s[j] \in Nat
  OBVIOUS
<1> QED
  BY <1>1, <1>2

\* A listing has as many ids as its length.
LEMMA ListingCounts ==
    ASSUME NEW ids \in SUBSET Nat, NEW n \in Nat, NEW s, Listing(s, n, ids)
    PROVE  IsFiniteSet(ids) /\ Cardinality(ids) = n
<1>1. \A i, j \in 1..n : s[i] = s[j] => i = j
  BY DifferentPlaces DEF Listing
<1>2. s \in Bijection(1..n, ids)
  BY <1>1 DEF Listing, Bijection, Injection, Surjection, IsInjective
<1>3. ExistsBijection(1..n, ids)
  BY <1>2 DEF ExistsBijection
<1>4. IsFiniteSet(1..n) /\ Cardinality(1..n) = n
  BY FS_Interval
<1> QED
  BY <1>3, <1>4, FS_Bijection

\* As many ids come up to a place as the place says.
LEMMA PlaceIsRank ==
    ASSUME NEW ids \in SUBSET Nat, NEW n \in Nat, NEW s, Listing(s, n, ids),
           NEW m \in 1..n
    PROVE  Cardinality({id \in ids : id <= s[m]}) = m
<1> DEFINE upTo == {id \in ids : id <= s[m]}
           f == [i \in 1..m |-> s[i]]
<1>1. m \in Nat /\ 1..m \subseteq 1..n
  OBVIOUS
<1>2. \A i \in 1..n : s[i] \in Nat /\ s[i] \in ids
  BY DEF Listing
<1>3. \A i \in 1..n : s[i] <= s[m] <=> i <= m
  <2> SUFFICES ASSUME NEW i \in 1..n PROVE s[i] <= s[m] <=> i <= m
    OBVIOUS
  <2>1. i < m \/ i = m \/ m < i
    OBVIOUS
  <2>2. s[i] \in Nat /\ s[m] \in Nat
    BY <1>2
  <2>3. (i < m => s[i] < s[m]) /\ (m < i => s[m] < s[i])
    BY DEF Listing
  <2> QED
    BY <2>1, <2>2, <2>3
<1>4. \A i \in 1..m : f[i] \in upTo
  BY <1>1, <1>2, <1>3
<1>5. \A id \in upTo : \E i \in 1..m : f[i] = id
  <2> SUFFICES ASSUME NEW id \in upTo PROVE \E i \in 1..m : f[i] = id
    OBVIOUS
  <2>1. PICK i \in 1..n : s[i] = id
    BY DEF Listing
  <2>2. i <= m
    BY <1>3, <2>1
  <2> QED
    BY <2>1, <2>2
<1>6. \A i, j \in 1..m : i < j => f[i] < f[j]
  BY <1>1 DEF Listing
<1>7. Listing(f, m, upTo)
  BY <1>4, <1>5, <1>6 DEF Listing
<1> HIDE DEF f, upTo
<1>8. upTo \in SUBSET Nat
  BY DEF upTo
<1>9. Cardinality(upTo) = m
  BY <1>1, <1>7, <1>8, ListingCounts
<1> QED
  BY <1>9 DEF upTo

\* There is one listing only: what the query returns.
LEMMA OrderedIsUnique ==
    ASSUME NEW ids \in SUBSET Nat, NEW n \in Nat, NEW s, Listing(s, n, ids)
    PROVE  Ordered(ids) = s
<1>1. Cardinality(ids) = n
  BY ListingCounts
<1> DEFINE t == Ordered(ids)
<1>2. t \in [1..n -> ids] /\ \A i, j \in DOMAIN t : i < j => t[i] < t[j]
  BY <1>1 DEF Ordered, Listing
<1> HIDE DEF t
<1>3. \A i \in 1..n : t[i] \in ids /\ t[i] \in Nat
  BY <1>2
<1>4. t \in Injection(1..n, ids)
  <2>1. \A i, j \in 1..n : t[i] = t[j] => i = j
    BY <1>2, <1>3, DifferentPlaces
  <2> QED
    BY <1>2, <2>1 DEF Injection, IsInjective
<1>5. t \in Surjection(1..n, ids)
  <2>1. IsFiniteSet(1..n) /\ Cardinality(1..n) = n
    BY FS_Interval
  <2>2. IsFiniteSet(ids)
    BY ListingCounts
  <2> QED
    BY <1>1, <1>4, <2>1, <2>2, FS_Injection
<1>6. Listing(t, n, ids)
  BY <1>2, <1>5 DEF Listing, Surjection
<1>7. \A m \in 1..n : t[m] = s[m]
  <2> SUFFICES ASSUME NEW m \in 1..n PROVE t[m] = s[m]
    OBVIOUS
  <2>1. PICK k \in 1..n : t[k] = s[m]
    BY <1>6 DEF Listing
  <2>2. Cardinality({id \in ids : id <= t[k]}) = k
    BY <1>6, PlaceIsRank
  <2>3. Cardinality({id \in ids : id <= s[m]}) = m
    BY PlaceIsRank
  <2> QED
    BY <2>1, <2>2, <2>3
<1>8. t = s
  <2>1. s \in [1..n -> ids]
    BY DEF Listing
  <2> QED
    BY <1>2, <1>7, <2>1
<1> QED
  BY <1>8 DEF t

\* What is loaded is the rows in the order of a listing, none of them new.
LEMMA LoadedInOrder ==
    ASSUME NEW table, IsTable(table), DOMAIN table \in SUBSET Nat,
           NEW n \in 0..MaxRules, NEW s, Listing(s, n, DOMAIN table)
    PROVE  /\ Loaded(table) \in [1..n -> Entry]
           /\ \A i \in 1..n : Loaded(table)[i] =
                  [id |-> s[i], rule |-> table[s[i]], added |-> FALSE]
<1>1. n \in Nat
  BY BoundsAssumption
<1>2. Ordered(DOMAIN table) = s
  BY <1>1, OrderedIsUnique
<1>3. DOMAIN s = 1..n /\ \A i \in 1..n : s[i] \in DOMAIN table /\ s[i] \in Nat
  BY DEF Listing
<1>4. Loaded(table) =
          [i \in 1..n |-> [id |-> s[i], rule |-> table[s[i]], added |-> FALSE]]
  BY <1>2, <1>3 DEF Loaded
<1>5. \A i \in 1..n : [id |-> s[i], rule |-> table[s[i]], added |-> FALSE] \in Entry
  BY <1>3 DEF IsTable, Entry
<1> QED
  BY <1>4, <1>5

\* The last id of a table bounds its ids.
LEMMA MaxIdIsLargest ==
    ASSUME NEW table, DOMAIN table \in SUBSET (Nat \ {0}), Listable(DOMAIN table)
    PROVE  MaxId(table) \in Nat /\ DOMAIN table \subseteq 1..MaxId(table)
<1>n. PICK n \in 0..MaxRules : \E s \in [1..n -> DOMAIN table] : Listing(s, n, DOMAIN table)
  BY DEF Listable
<1>1. PICK s \in [1..n -> DOMAIN table] : Listing(s, n, DOMAIN table)
  BY <1>n
<1>2. n \in Nat
  BY BoundsAssumption
<1>3. \A i \in 1..n : s[i] \in DOMAIN table /\ s[i] \in Nat
  BY <1>1 DEF Listing
<1>4. \E m \in DOMAIN table \cup {0} : \A id \in DOMAIN table : id <= m
  <2>1. CASE n = 0
    <3>1. DOMAIN table = {}
      BY <1>1, <2>1 DEF Listing
    <3> QED
      BY <3>1
  <2>2. CASE n # 0
    <3>1. n \in 1..n
      BY <1>2, <2>2
    <3>2. \A i \in 1..n : s[i] <= s[n]
      <4> SUFFICES ASSUME NEW i \in 1..n PROVE s[i] <= s[n]
        OBVIOUS
      <4>1. i < n \/ i = n
        BY <1>2
      <4>2. s[i] \in Nat /\ s[n] \in Nat
        BY <1>3, <3>1
      <4>3. i < n => s[i] < s[n]
        BY <1>1, <3>1 DEF Listing
      <4> QED
        BY <4>1, <4>2, <4>3
    <3>3. \A id \in DOMAIN table : id <= s[n]
      BY <1>1, <3>2 DEF Listing
    <3> QED
      BY <1>3, <3>1, <3>3
  <2> QED
    BY <2>1, <2>2
<1>5. /\ MaxId(table) \in DOMAIN table \cup {0}
      /\ \A id \in DOMAIN table : id <= MaxId(table)
  BY <1>4 DEF MaxId
<1>6. MaxId(table) \in Nat
  BY <1>5
<1>7. \A id \in DOMAIN table : id \in 1..MaxId(table)
  <2> SUFFICES ASSUME NEW id \in DOMAIN table PROVE id \in 1..MaxId(table)
    OBVIOUS
  <2>1. id \in Nat /\ id # 0 /\ id <= MaxId(table)
    BY <1>5
  <2> QED
    BY <1>6, <2>1
<1> QED
  BY <1>6, <1>7

-----------------------------------------------------------------------------
(* What a store that succeeds leaves *)

\* What a flush writes is a table; without anything pending it is what is there.
LEMMA WrittenIsTable ==
    ASSUME TypeOK
    PROVE  /\ IsTable(Written)
           /\ DOMAIN Written = (DOMAIN disk \ deletions) \cup DOMAIN rows
           /\ \A id \in DOMAIN rows : Written[id] = rows[id]
           /\ \A id \in DOMAIN disk \ deletions :
                 id \notin DOMAIN rows => Written[id] = disk[id]
           /\ rows = NoRows /\ deletions = {} => Written = disk
<1>1. /\ \A id \in DOMAIN rows : rows[id] \in Rules
      /\ \A id \in DOMAIN disk : disk[id] \in Rules
      /\ disk = [id \in DOMAIN disk |-> disk[id]]
  BY DEF TypeOK, IsTable
<1>2. /\ DOMAIN Written = (DOMAIN disk \ deletions) \cup DOMAIN rows
      /\ \A id \in DOMAIN rows : Written[id] = rows[id]
      /\ \A id \in DOMAIN disk \ deletions :
            id \notin DOMAIN rows => Written[id] = disk[id]
  BY DEF Written
<1>3. IsTable(Written)
  BY <1>1 DEF Written, IsTable
<1>4. ASSUME rows = NoRows, deletions = {} PROVE Written = disk
  <2>1. DOMAIN rows = {}
    BY <1>4 DEF NoRows
  <2>2. Written = [id \in DOMAIN disk |-> disk[id]]
    BY <1>4, <2>1 DEF Written
  <2> QED
    BY <1>1, <2>2
<1> QED
  BY <1>2, <1>3, <1>4

\* The ids of the list are its listing, and each names one rule.
LEMMA IdsInOrder ==
    ASSUME NEW n \in 0..MaxRules, entries \in [1..n -> Entry], InOrder
    PROVE  /\ Listing([i \in 1..n |-> entries[i].id], n, IdsOf(entries))
           /\ \A i \in 1..n : RuleOf(entries[i].id) = entries[i].rule
           /\ \A i \in 1..n : entries[i].id \in AddedIds <=> entries[i].added
           /\ IdsOf(entries) \subseteq Nat /\ AddedIds \subseteq IdsOf(entries)
<1> DEFINE s == [i \in 1..n |-> entries[i].id]
<1>1. n \in Nat /\ DOMAIN entries = 1..n
  BY BoundsAssumption
<1>2. \A i \in 1..n : entries[i] \in Entry /\ s[i] = entries[i].id /\ s[i] \in Nat
  BY DEF Entry
<1>3. \A i, j \in 1..n : i < j => s[i] < s[j]
  BY <1>1 DEF InOrder
<1>4. s \in [1..n -> IdsOf(entries)] /\ \A id \in IdsOf(entries) : \E i \in 1..n : s[i] = id
  BY <1>1 DEF IdsOf
<1>5. Listing(s, n, IdsOf(entries))
  BY <1>3, <1>4 DEF Listing
<1>6. \A i, j \in 1..n : entries[i].id = entries[j].id => i = j
  <2>1. \A i, j \in 1..n : s[i] = s[j] => i = j
    <3> HIDE DEF s
    <3> QED
      BY <1>1, <1>2, <1>3, DifferentPlaces
  <2> QED
    BY <2>1
<1>7. ASSUME NEW i \in 1..n PROVE RuleOf(entries[i].id) = entries[i].rule
  <2> DEFINE j == CHOOSE k \in DOMAIN entries : entries[k].id = entries[i].id
  <2>1. j \in 1..n /\ entries[j].id = entries[i].id
    BY <1>1
  <2> HIDE DEF j
  <2>2. j = i
    BY <1>6, <2>1
  <2> QED
    BY <2>2 DEF RuleOf, j
<1>8. ASSUME NEW i \in 1..n PROVE entries[i].id \in AddedIds <=> entries[i].added
  BY <1>1, <1>6 DEF AddedIds
<1>9. IdsOf(entries) \subseteq Nat
  BY <1>1, <1>2 DEF IdsOf
<1>10. AddedIds \subseteq IdsOf(entries)
  BY DEF AddedIds, IdsOf
<1> QED
  BY <1>5, <1>7, <1>8, <1>9, <1>10

\* After the next store that succeeds the table has the rules of the list.
LEMMA StoreLeavesList ==
    ASSUME Inv, on, NEW n \in 0..MaxRules, entries \in [1..n -> Entry]
    PROVE  /\ DOMAIN InTheEnd = IdsOf(entries)
           /\ (DOMAIN Written \ removed) \cup AddedIds = IdsOf(entries)
           /\ \A i \in 1..n : InTheEnd[entries[i].id] = entries[i].rule
<1>1. InOrder /\ TableFollowsList /\ DOMAIN entries = 1..n
  BY DEF Inv
<1>2. /\ \A i \in 1..n : RuleOf(entries[i].id) = entries[i].rule
      /\ \A i \in 1..n : entries[i].id \in AddedIds <=> entries[i].added
      /\ AddedIds \subseteq IdsOf(entries)
  BY <1>1, IdsInOrder
<1>3. \A i \in 1..n :
          ~entries[i].added => /\ entries[i].id \in DOMAIN Written
                               /\ Written[entries[i].id] = entries[i].rule
  BY <1>1 DEF TableFollowsList
<1>4. \A i \in 1..n : entries[i].id \in IdsOf(entries) /\ entries[i].id \notin removed
  BY <1>1 DEF InOrder, IdsOf
<1>5. (DOMAIN Written \ removed) \cup AddedIds = IdsOf(entries)
  <2>1. (DOMAIN Written \ removed) \cup AddedIds \subseteq IdsOf(entries)
    BY <1>1, <1>2 DEF TableFollowsList
  <2>2. ASSUME NEW id \in IdsOf(entries)
        PROVE  id \in (DOMAIN Written \ removed) \cup AddedIds
    <3>1. PICK i \in 1..n : id = entries[i].id
      BY <1>1 DEF IdsOf
    <3> QED
      BY <1>2, <1>3, <1>4, <3>1
  <2> QED
    BY <2>1, <2>2
<1>6. InTheEnd = [id \in IdsOf(entries) |->
                    IF id \in AddedIds THEN RuleOf(id) ELSE Written[id]]
  BY <1>5 DEF InTheEnd
<1>7. ASSUME NEW i \in 1..n PROVE InTheEnd[entries[i].id] = entries[i].rule
  BY <1>2, <1>3, <1>4, <1>6
<1> QED
  BY <1>5, <1>6, <1>7

\* The invariant is enough.
LEMMA InvStores == Inv => StoresWhatApplies
<1> SUFFICES ASSUME Inv, on PROVE ListOf(Loaded(InTheEnd)) = ListOf(entries)
  BY DEF StoresWhatApplies
<1>1. PICK n \in 0..MaxRules : entries \in [1..n -> Entry]
  BY DEF Inv, Types
<1>2. InOrder
  BY DEF Inv
<1> DEFINE s == [i \in 1..n |-> entries[i].id]
<1>3. Listing(s, n, IdsOf(entries)) /\ IdsOf(entries) \subseteq Nat
  BY <1>1, <1>2, IdsInOrder
<1>4. /\ DOMAIN InTheEnd = IdsOf(entries)
      /\ \A i \in 1..n : InTheEnd[entries[i].id] = entries[i].rule
  BY <1>1, StoreLeavesList
<1>5. IsTable(InTheEnd)
  <2>1. \A id \in IdsOf(entries) : InTheEnd[id] \in Rules
    <3> SUFFICES ASSUME NEW id \in IdsOf(entries) PROVE InTheEnd[id] \in Rules
      OBVIOUS
    <3>1. PICK i \in 1..n : id = entries[i].id
      BY <1>1 DEF IdsOf
    <3>2. entries[i].rule \in Rules
      BY <1>1 DEF Entry
    <3> QED
      BY <1>4, <3>1, <3>2
  <2>2. InTheEnd = [id \in DOMAIN InTheEnd |-> InTheEnd[id]]
    BY DEF InTheEnd
  <2> QED
    BY <1>4, <2>1, <2>2 DEF IsTable
<1> HIDE DEF s
<1>6. /\ Loaded(InTheEnd) \in [1..n -> Entry]
      /\ \A i \in 1..n : Loaded(InTheEnd)[i] =
            [id |-> s[i], rule |-> InTheEnd[s[i]], added |-> FALSE]
  BY <1>3, <1>4, <1>5, LoadedInOrder
<1>7. \A i \in 1..n : Loaded(InTheEnd)[i].rule = entries[i].rule
  <2>1. \A i \in 1..n : s[i] = entries[i].id
    BY DEF s
  <2> QED
    BY <1>4, <1>6, <2>1
<1>8. DOMAIN Loaded(InTheEnd) = 1..n /\ DOMAIN entries = 1..n
  BY <1>1, <1>6
<1> QED
  BY <1>7, <1>8 DEF ListOf

-----------------------------------------------------------------------------
(* Every step keeps the invariant *)

\* What the invariant says of the dialogs is all the types say of them.
LEMMA DialogsTyped ==
    ASSUME NEW ask, NEW edit,
           ask \in [Askers -> [at : {"idle", "copies", "asks"},
                               question : Questions \cup {NoQuestion}, copy : Lists]],
           edit \in [open : BOOLEAN, copy : Lists]
    PROVE  /\ \A a \in Askers :
                 /\ ask[a].at \in {"idle", "copies", "asks"}
                 /\ ask[a].question \in Questions \cup {NoQuestion}
                 /\ ask[a].copy \in Lists
           /\ edit.open \in BOOLEAN /\ edit.copy \in Lists
  OBVIOUS

\* Nobody asks, and the editor is closed.
LEMMA IdleTyped ==
    /\ [a \in Askers |-> Idle] \in
           [Askers -> [at : {"idle", "copies", "asks"},
                       question : Questions \cup {NoQuestion}, copy : Lists]]
    /\ \A b \in Askers : [a \in Askers |-> Idle][b].at = "idle"
    /\ Closed \in [open : BOOLEAN, copy : Lists]
  BY ListsAreSequences DEF Idle, Closed

\* No rows are a table, and can be listed.
LEMMA NoRowsListable ==
    IsTable(NoRows) /\ DOMAIN NoRows = {} /\ Listable({})
<1>1. IsTable(NoRows) /\ DOMAIN NoRows = {}
  BY DEF IsTable, NoRows
<1>2. 0 \in 0..MaxRules /\ <<>> \in [1..0 -> {}] /\ Listing(<<>>, 0, {})
  BY BoundsAssumption DEF Listing
<1> QED
  BY <1>1, <1>2 DEF Listable

\* At first there is nothing.
LEMMA InitInv == Init => Inv
<1> SUFFICES ASSUME Init PROVE Inv
  OBVIOUS
<1> USE DEF Init
<1>1. entries \in [1..0 -> Entry] /\ DOMAIN entries = {} /\ 0 \in 0..MaxRules
  BY BoundsAssumption
<1>2. IdsOf(entries) = {} /\ AddedIds = {} /\ ListOf(entries) \in Lists
  BY <1>1, ListOfEntries DEF IdsOf, AddedIds
<1>3. DialogTypes
  BY IdleTyped DEF DialogTypes
<1>4. TypeOK
  <2>1. /\ \A a \in Askers :
              /\ asking[a].at \in {"idle", "copies", "asks"}
              /\ asking[a].question \in Questions \cup {NoQuestion}
              /\ asking[a].copy \in Lists
        /\ editor.open \in BOOLEAN /\ editor.copy \in Lists
    BY <1>3, DialogsTyped DEF DialogTypes
  <2>2. /\ IsTable(rows) /\ IsTable(disk) /\ DOMAIN rows = {} /\ DOMAIN disk = {}
    BY NoRowsListable
  <2> HIDE DEF Init
  <2>3. on \in BOOLEAN /\ storing \in BOOLEAN /\ removed = {} /\ deletions = {}
    BY DEF Init
  <2> QED
    BY <1>1, <1>2, <2>1, <2>2, <2>3 DEF TypeOK
<1>5. DOMAIN Written = {} /\ DOMAIN disk = {} /\ DOMAIN rows = {}
  BY <1>4, NoRowsListable, WrittenIsTable
<1>6. Types
  BY <1>1, <1>3, <1>5, NoRowsListable DEF Types
<1>7. NothingHeld /\ InOrder /\ NewIdsAreNew /\ TableFollowsList
  BY <1>1, <1>2, <1>5 DEF NothingHeld, InOrder, NewIdsAreNew, TableFollowsList
<1> QED
  BY <1>4, <1>6, <1>7 DEF Inv

\* A step that is only about the dialogs keeps the rest.
LEMMA DialogStepInv ==
    ASSUME Inv, UNCHANGED <<on, memory, container, disk>>, DialogTypes',
           ~on => asking' = [a \in Askers |-> Idle] /\ editor' = Closed
    PROVE  Inv'
<1> USE DEF memory, container
<1>1. /\ ListOf(entries)' = ListOf(entries) /\ IdsOf(entries)' = IdsOf(entries)
      /\ AddedIds' = AddedIds /\ Written' = Written
  BY DEF ListOf, IdsOf, AddedIds, Written
<1>2. TypeOK'
  <2>1. /\ \A a \in Askers :
              /\ asking'[a].at \in {"idle", "copies", "asks"}
              /\ asking'[a].question \in Questions \cup {NoQuestion}
              /\ asking'[a].copy \in Lists
        /\ editor'.open \in BOOLEAN /\ editor'.copy \in Lists
    BY DialogsTyped DEF DialogTypes
  <2> QED
    BY <1>1, <2>1 DEF Inv, TypeOK
<1>3. Types'
  BY <1>1 DEF Inv, Types
<1>4. NothingHeld' /\ InOrder' /\ NewIdsAreNew' /\ TableFollowsList'
  BY <1>1 DEF Inv, NothingHeld, InOrder, NewIdsAreNew, TableFollowsList
<1> QED
  BY <1>2, <1>3, <1>4 DEF Inv

\* An assignment gives all rules new ids and removes the old ones.
LEMMA AssignInv ==
    ASSUME Inv, on, NEW list \in Seq(Rules), Assign(list),
           UNCHANGED <<on, container, disk>>, DialogTypes'
    PROVE  Inv'
<1> DEFINE n == Len(list)
<1>1. n \in 0..MaxRules /\ n \in Nat /\ DOMAIN list = 1..n /\ MaxRules \in Nat
  BY BoundsAssumption DEF Assign
<1>2. PICK m \in 0..MaxRules : entries \in [1..m -> Entry]
  BY DEF Inv, Types
<1>3. lastId \in Nat /\ lastId' = lastId + n /\ removed' = removed \cup IdsOf(entries)
  BY DEF Inv, Types, Assign
<1>4. entries' = [i \in 1..n |-> [id |-> lastId + i, rule |-> list[i], added |-> TRUE]]
  BY <1>1 DEF Assign
<1>5. \A i \in 1..n : list[i] \in Rules
  OBVIOUS
<1> HIDE DEF n
<1>6. entries' \in [1..n -> Entry] /\ DOMAIN entries' = 1..n
  BY <1>1, <1>3, <1>4, <1>5 DEF Entry
<1>7. \A i \in 1..n : entries'[i].id = lastId + i /\ entries'[i].added = TRUE
  BY <1>4
<1>8. IdsOf(entries)' \subseteq (lastId + 1)..lastId' /\ AddedIds' = IdsOf(entries)'
  <2>1. IdsOf(entries)' = {entries'[i].id : i \in 1..n}
    BY <1>6 DEF IdsOf
  <2>2. AddedIds' = {entries'[i].id : i \in 1..n}
    BY <1>6, <1>7 DEF AddedIds
  <2>3. \A i \in 1..n : lastId + i \in (lastId + 1)..(lastId + n)
    BY <1>1, <1>3
  <2> QED
    BY <1>3, <1>7, <2>1, <2>2, <2>3
<1>9. /\ IdsOf(entries) \cup removed \subseteq 1..lastId /\ DOMAIN rows \subseteq 1..lastId
      /\ DOMAIN disk \subseteq 1..lastId /\ deletions \subseteq 1..lastId
  BY DEF Inv, TypeOK
<1>10. 1..lastId \subseteq 1..lastId' /\ (lastId + 1)..lastId' \subseteq 1..lastId'
       /\ (lastId + 1)..lastId' \cap 1..lastId = {}
  BY <1>1, <1>3
<1>11. Written' = Written /\ DOMAIN Written \subseteq removed \cup IdsOf(entries)
  BY DEF Inv, TableFollowsList, Written, container
<1>12. TypeOK'
  <2>1. /\ \A a \in Askers :
              /\ asking'[a].at \in {"idle", "copies", "asks"}
              /\ asking'[a].question \in Questions \cup {NoQuestion}
              /\ asking'[a].copy \in Lists
        /\ editor'.open \in BOOLEAN /\ editor'.copy \in Lists
    BY DialogsTyped DEF DialogTypes
  <2>2. ListOf(entries)' \in Lists
    <3>1. ListOf(entries') \in Lists
      BY <1>1, <1>6, ListOfEntries
    <3> QED
      BY <3>1 DEF ListOf
  <2>3. \A i \in DOMAIN entries' : entries'[i].added \in BOOLEAN
    BY <1>6, <1>7
  <2>4. IdsOf(entries)' \cup removed' \subseteq 1..lastId'
    BY <1>3, <1>8, <1>9, <1>10
  <2>5. /\ IsTable(rows)' /\ (DOMAIN rows \subseteq 1..lastId)'
        /\ IsTable(disk)' /\ (DOMAIN disk \subseteq 1..lastId)'
        /\ (deletions \subseteq 1..lastId)' /\ (storing \in BOOLEAN)' /\ (on \in BOOLEAN)'
    BY <1>9, <1>10 DEF Inv, TypeOK, IsTable, container
  <2> QED
    BY <2>1, <2>2, <2>3, <2>4, <2>5 DEF TypeOK
<1>13. Types'
  <2>1. lastId' \in Nat
    BY <1>1, <1>3
  <2> QED
    BY <1>1, <1>6, <1>11, <2>1 DEF Inv, Types
<1>14. NothingHeld'
  BY DEF NothingHeld
<1>15. InOrder'
  <2>1. \A i, j \in 1..n : i < j => entries'[i].id < entries'[j].id
    BY <1>1, <1>3, <1>7
  <2>2. removed' \cap IdsOf(entries)' = {}
    BY <1>3, <1>8, <1>9, <1>10
  <2> QED
    BY <1>6, <2>1, <2>2 DEF InOrder
<1>16. NewIdsAreNew'
  BY <1>8, <1>9, <1>10 DEF Inv, NewIdsAreNew, container
<1>17. TableFollowsList'
  BY <1>3, <1>6, <1>7, <1>11 DEF TableFollowsList
<1> QED
  BY <1>12, <1>13, <1>14, <1>15, <1>16, <1>17 DEF Inv

\* A reset of the list removes what was in it.
LEMMA RestoreInv == Inv /\ RestoreDefaults => Inv'
<1> SUFFICES ASSUME Inv, RestoreDefaults PROVE Inv'
  OBVIOUS
<1> USE DEF RestoreDefaults, container, dialogs
<1>1. entries' \in [1..0 -> Entry] /\ DOMAIN entries' = {} /\ 0 \in 0..MaxRules
  BY BoundsAssumption
<1>2. IdsOf(entries)' = {} /\ AddedIds' = {} /\ ListOf(entries)' \in Lists
  <2>1. ListOf(entries') \in Lists
    BY <1>1, ListOfEntries
  <2> QED
    BY <1>1, <2>1 DEF IdsOf, AddedIds, ListOf
<1>3. Written' = Written
  BY DEF Written
<1>4. /\ removed' = removed \cup IdsOf(entries)
      /\ IdsOf(entries) \cup removed \subseteq 1..lastId
  BY DEF Inv, TypeOK
<1>5. TypeOK'
  BY <1>1, <1>2, <1>4 DEF Inv, TypeOK
<1>6. Types'
  <2>1. DialogTypes'
    BY DEF Inv, Types, DialogTypes
  <2> QED
    BY <1>1, <1>3, <2>1 DEF Inv, Types
<1>7. TableFollowsList'
  BY <1>1, <1>3, <1>4 DEF Inv, TableFollowsList
<1>8. NothingHeld' /\ InOrder' /\ NewIdsAreNew'
  BY <1>1, <1>2 DEF Inv, NothingHeld, InOrder, NewIdsAreNew
<1> QED
  BY <1>5, <1>6, <1>7, <1>8 DEF Inv

\* A store that gathers makes the container's rows what the list is.
LEMMA GathersInv == Inv /\ Gathers => Inv'
<1> SUFFICES ASSUME Inv, Gathers PROVE Inv'
  OBVIOUS
<1> USE DEF dialogs
<1>1. on /\ on' = on /\ disk' = disk /\ lastId' = lastId /\ removed' = {}
      /\ deletions' = deletions \cup removed /\ UNCHANGED <<asking, editor>>
  BY DEF Gathers
<1>2. PICK n \in 0..MaxRules : entries \in [1..n -> Entry]
  BY DEF Inv, Types
<1>3. InOrder /\ DOMAIN entries = 1..n
  BY <1>2 DEF Inv
<1>4. /\ Listing([i \in 1..n |-> entries[i].id], n, IdsOf(entries))
      /\ \A i \in 1..n : RuleOf(entries[i].id) = entries[i].rule
      /\ \A i \in 1..n : entries[i].id \in AddedIds <=> entries[i].added
      /\ AddedIds \subseteq IdsOf(entries)
  BY <1>2, <1>3, IdsInOrder
<1>5. /\ (DOMAIN Written \ removed) \cup AddedIds = IdsOf(entries)
      /\ \A i \in 1..n : InTheEnd[entries[i].id] = entries[i].rule
      /\ DOMAIN InTheEnd = IdsOf(entries)
  BY <1>1, <1>2, StoreLeavesList
<1>6. entries' = [i \in 1..n |-> [entries[i] EXCEPT !.added = FALSE]]
  BY <1>3 DEF Gathers
<1>7. \A i \in 1..n : entries[i] \in Entry
  BY <1>2
<1>8. /\ entries' \in [1..n -> Entry] /\ DOMAIN entries' = 1..n
      /\ \A i \in 1..n : /\ entries'[i].id = entries[i].id
                         /\ entries'[i].rule = entries[i].rule
                         /\ entries'[i].added = FALSE
  BY <1>6, <1>7 DEF Entry
<1>9. IdsOf(entries)' = IdsOf(entries) /\ AddedIds' = {}
  BY <1>3, <1>8 DEF IdsOf, AddedIds
<1>10. /\ DOMAIN rows' = (DOMAIN rows \ removed) \cup AddedIds
       /\ rows' = [id \in DOMAIN rows' |->
                      IF id \in AddedIds THEN RuleOf(id) ELSE rows[id]]
  BY DEF Gathers
<1>11. IsTable(rows)'
  <2>1. \A id \in AddedIds : RuleOf(id) \in Rules
    <3> SUFFICES ASSUME NEW id \in AddedIds PROVE RuleOf(id) \in Rules
      OBVIOUS
    <3>1. PICK i \in 1..n : id = entries[i].id
      BY <1>3, <1>4 DEF IdsOf
    <3> QED
      BY <1>4, <1>7, <3>1 DEF Entry
  <2>2. \A id \in DOMAIN rows : rows[id] \in Rules
    BY DEF Inv, TypeOK, IsTable
  <2>3. \A id \in DOMAIN rows' :
            (IF id \in AddedIds THEN RuleOf(id) ELSE rows[id]) \in Rules
    BY <1>10, <2>1, <2>2
  <2> QED
    BY <1>10, <2>3 DEF IsTable
<1>12. /\ IdsOf(entries) \cup removed \subseteq 1..lastId /\ DOMAIN rows \subseteq 1..lastId
       /\ DOMAIN disk \subseteq 1..lastId /\ deletions \subseteq 1..lastId
       /\ IsTable(disk)
  BY <1>1 DEF Inv, TypeOK
<1>13. TypeOK'
  <2>1. ListOf(entries)' \in Lists
    <3>1. ListOf(entries') \in Lists
      BY <1>8, ListOfEntries
    <3> QED
      BY <3>1 DEF ListOf
  <2>2. DOMAIN rows' \subseteq 1..lastId /\ deletions' \subseteq 1..lastId
    BY <1>1, <1>4, <1>10, <1>12
  <2>3. storing' \in BOOLEAN /\ on' \in BOOLEAN
    BY <1>1 DEF Gathers
  <2>4. \A i \in DOMAIN entries' : entries'[i].added \in BOOLEAN
    BY <1>8
  <2>5. IsTable(disk)' /\ DOMAIN disk' \subseteq 1..lastId'
    BY <1>1, <1>12 DEF IsTable
  <2>6. IdsOf(entries)' \cup removed' \subseteq 1..lastId'
    BY <1>1, <1>9, <1>12
  <2>7. /\ \A a \in Askers :
              /\ asking'[a].at \in {"idle", "copies", "asks"}
              /\ asking'[a].question \in Questions \cup {NoQuestion}
              /\ asking'[a].copy \in Lists
        /\ editor'.open \in BOOLEAN /\ editor'.copy \in Lists
    BY <1>1 DEF Inv, TypeOK
  <2> QED
    BY <1>1, <1>11, <2>1, <2>2, <2>3, <2>4, <2>5, <2>6, <2>7 DEF TypeOK
<1>14. /\ DOMAIN Written = (DOMAIN disk \ deletions) \cup DOMAIN rows
       /\ \A id \in DOMAIN rows : Written[id] = rows[id]
       /\ \A id \in DOMAIN disk \ deletions :
             id \notin DOMAIN rows => Written[id] = disk[id]
  BY WrittenIsTable DEF Inv
<1>15. /\ DOMAIN Written' = (DOMAIN disk' \ deletions') \cup DOMAIN rows'
       /\ \A id \in DOMAIN rows' : Written'[id] = rows'[id]
       /\ \A id \in DOMAIN disk' \ deletions' :
             id \notin DOMAIN rows' => Written'[id] = disk'[id]
  BY DEF Written
<1>16. /\ AddedIds \cap (DOMAIN disk \cup DOMAIN rows \cup deletions) = {}
       /\ DOMAIN rows \cap (DOMAIN disk \cup deletions) = {}
       /\ removed \cap IdsOf(entries) = {}
  BY DEF Inv, NewIdsAreNew, InOrder
<1>17. DOMAIN Written' = IdsOf(entries)
  <2>1. DOMAIN Written' = (DOMAIN disk \ (deletions \cup removed))
                              \cup (DOMAIN rows \ removed) \cup AddedIds
    BY <1>1, <1>10, <1>15
  <2> QED
    BY <1>5, <1>14, <1>16, <2>1
<1>18. \A i \in 1..n : Written'[entries[i].id] = entries[i].rule
  <2> SUFFICES ASSUME NEW i \in 1..n PROVE Written'[entries[i].id] = entries[i].rule
    OBVIOUS
  <2> DEFINE id == entries[i].id
  <2>1. id \in IdsOf(entries) /\ id \notin removed
    BY <1>3, <1>16 DEF IdsOf
  <2>2. CASE id \in AddedIds
    BY <1>4, <1>10, <1>15, <2>2
  <2>3. CASE id \notin AddedIds
    <3>1. id \in DOMAIN Written /\ Written[id] = entries[i].rule
      BY <1>1, <1>3, <1>4, <2>3 DEF Inv, TableFollowsList
    <3>2. CASE id \in DOMAIN rows
      BY <1>10, <1>14, <1>15, <2>1, <2>3, <3>1, <3>2
    <3>3. CASE id \notin DOMAIN rows
      BY <1>1, <1>10, <1>14, <1>15, <2>1, <2>3, <3>1, <3>3
    <3> QED
      BY <3>2, <3>3
  <2> QED
    BY <2>2, <2>3
<1>19. Types'
  <2>1. Listable(DOMAIN Written')
    <3> DEFINE t == [i \in 1..n |-> entries[i].id]
    <3>1. t \in [1..n -> DOMAIN Written'] /\ Listing(t, n, DOMAIN Written')
      BY <1>4, <1>17 DEF Listing
    <3> HIDE DEF t
    <3> QED
      BY <3>1 DEF Listable
  <2>2. DialogTypes'
    BY <1>1 DEF Inv, Types, DialogTypes
  <2> QED
    BY <1>1, <1>8, <2>1, <2>2 DEF Inv, Types
<1>20. NothingHeld'
  BY <1>1 DEF NothingHeld
<1>21. InOrder'
  BY <1>1, <1>3, <1>8, <1>9 DEF InOrder
<1>22. NewIdsAreNew'
  BY <1>1, <1>4, <1>9, <1>10, <1>16 DEF NewIdsAreNew
<1>23. TableFollowsList'
  <2>1. \A i \in 1..n : entries[i].id \in IdsOf(entries)
    BY <1>3 DEF IdsOf
  <2> QED
    BY <1>1, <1>8, <1>9, <1>17, <1>18, <2>1 DEF TableFollowsList
<1> QED
  BY <1>13, <1>19, <1>20, <1>21, <1>22, <1>23 DEF Inv

\* A flush writes what it is to write.
LEMMA FlushesInv == Inv /\ Flushes => Inv'
<1> SUFFICES ASSUME Inv, Flushes PROVE Inv'
  OBVIOUS
<1>1. /\ disk' = Written /\ rows' = NoRows /\ deletions' = {} /\ storing' = FALSE
      /\ UNCHANGED <<on, entries, lastId, removed, asking, editor>>
  BY DEF Flushes, memory, dialogs
<1>2. IsTable(Written) /\ DOMAIN Written = (DOMAIN disk \ deletions) \cup DOMAIN rows
  BY WrittenIsTable DEF Inv
<1>3. /\ ListOf(entries)' = ListOf(entries) /\ IdsOf(entries)' = IdsOf(entries)
      /\ AddedIds' = AddedIds
  BY <1>1 DEF ListOf, IdsOf, AddedIds
<1>4. on
  BY DEF Inv, NothingHeld, Flushes
<1>5. DOMAIN Written \subseteq 1..lastId
  BY <1>2, <1>4 DEF Inv, TypeOK
<1>6. DOMAIN rows' = {} /\ IsTable(rows')
  BY <1>1, NoRowsListable
<1>7. TypeOK'
  <2>1. IsTable(rows)' /\ IsTable(disk)'
    BY <1>1, <1>2, <1>6 DEF IsTable
  <2> QED
    BY <1>1, <1>3, <1>5, <1>6, <2>1 DEF Inv, TypeOK
<1>8. Written' = Written
  <2>1. Written' = [id \in DOMAIN disk' |-> disk'[id]]
    BY <1>1, <1>6 DEF Written
  <2>2. disk' = [id \in DOMAIN disk' |-> disk'[id]]
    BY <1>1, <1>2 DEF IsTable
  <2> QED
    BY <1>1, <2>1, <2>2
<1>9. Types'
  <2>1. DialogTypes'
    BY <1>1 DEF Inv, Types, DialogTypes
  <2>2. DOMAIN Written \subseteq Nat \ {0}
    BY <1>5 DEF Inv, Types
  <2>3. Listable(DOMAIN disk)' /\ Listable(DOMAIN Written)'
    BY <1>1, <1>8 DEF Inv, Types
  <2> QED
    BY <1>1, <2>1, <2>2, <2>3 DEF Inv, Types
<1>10. AddedIds \cap DOMAIN Written = {}
  BY <1>2 DEF Inv, NewIdsAreNew
<1>11. NothingHeld' /\ InOrder' /\ NewIdsAreNew' /\ TableFollowsList'
  BY <1>1, <1>3, <1>4, <1>6, <1>8, <1>10
  DEF Inv, NothingHeld, InOrder, NewIdsAreNew, TableFollowsList
<1> QED
  BY <1>7, <1>9, <1>11 DEF Inv

\* A flush that fails leaves what is to be written for the next.
LEMMA FlushThrowsInv == Inv /\ FlushThrows => Inv'
<1> SUFFICES ASSUME Inv, FlushThrows PROVE Inv'
  OBVIOUS
<1>1. /\ storing' = FALSE
      /\ UNCHANGED <<on, entries, lastId, removed, rows, deletions, disk, asking, editor>>
  BY DEF FlushThrows, memory, dialogs
<1>2. /\ ListOf(entries)' = ListOf(entries) /\ IdsOf(entries)' = IdsOf(entries)
      /\ AddedIds' = AddedIds /\ Written' = Written
  BY <1>1 DEF ListOf, IdsOf, AddedIds, Written
<1>3. TypeOK'
  BY <1>1, <1>2 DEF Inv, TypeOK
<1>4. Types'
  <2>1. DialogTypes'
    BY <1>1 DEF Inv, Types, DialogTypes
  <2> QED
    BY <1>1, <1>2, <2>1 DEF Inv, Types
<1>5. NothingHeld' /\ InOrder' /\ NewIdsAreNew' /\ TableFollowsList'
  BY <1>1, <1>2 DEF Inv, NothingHeld, InOrder, NewIdsAreNew, TableFollowsList
<1> QED
  BY <1>3, <1>4, <1>5 DEF Inv

\* After a crash only the table is left.
LEMMA CrashInv == Inv /\ Crash => Inv'
<1> SUFFICES ASSUME Inv, Crash PROVE Inv'
  OBVIOUS
<1>1. /\ ~on' /\ entries' = <<>> /\ lastId' = 0 /\ removed' = {} /\ rows' = NoRows
      /\ deletions' = {} /\ storing' = FALSE /\ disk' = disk
      /\ asking' = [a \in Askers |-> Idle] /\ editor' = Closed /\ on' \in BOOLEAN
  BY DEF Crash
<1>2. entries' \in [1..0 -> Entry] /\ DOMAIN entries' = {} /\ 0 \in 0..MaxRules
  BY <1>1, BoundsAssumption
<1>3. IdsOf(entries)' = {} /\ AddedIds' = {} /\ ListOf(entries)' \in Lists
  <2>1. ListOf(entries') \in Lists
    BY <1>2, ListOfEntries
  <2> QED
    BY <1>2, <2>1 DEF IdsOf, AddedIds, ListOf
<1>4. IsTable(disk)' /\ IsTable(rows)' /\ DOMAIN rows' = {}
  BY <1>1, NoRowsListable DEF Inv, TypeOK, IsTable
<1>5. DialogTypes'
  BY <1>1, IdleTyped DEF DialogTypes
<1>6. TypeOK'
  <2>1. /\ \A a \in Askers :
              /\ asking'[a].at \in {"idle", "copies", "asks"}
              /\ asking'[a].question \in Questions \cup {NoQuestion}
              /\ asking'[a].copy \in Lists
        /\ editor'.open \in BOOLEAN /\ editor'.copy \in Lists
    BY <1>5, DialogsTyped DEF DialogTypes
  <2> QED
    BY <1>1, <1>2, <1>3, <1>4, <2>1 DEF TypeOK
<1>7. Written' = disk'
  <2>1. Written' = [id \in DOMAIN disk' |-> disk'[id]]
    BY <1>1, <1>4 DEF Written
  <2> QED
    BY <1>4, <2>1 DEF IsTable
<1>8. Types'
  BY <1>1, <1>2, <1>5, <1>7 DEF Inv, Types
<1>9. NothingHeld' /\ InOrder' /\ NewIdsAreNew' /\ TableFollowsList'
  BY <1>1, <1>2, <1>3, <1>4 DEF NothingHeld, InOrder, NewIdsAreNew, TableFollowsList
<1> QED
  BY <1>6, <1>8, <1>9 DEF Inv

\* The next session has what was in the table.
LEMMA LoadInv == Inv /\ Load => Inv'
<1> SUFFICES ASSUME Inv, Load PROVE Inv'
  OBVIOUS
<1>1. /\ ~on /\ on' = TRUE /\ entries' = Loaded(disk) /\ lastId' = MaxId(disk)
      /\ UNCHANGED <<removed, rows, deletions, storing, disk, asking, editor>>
  BY DEF Load, container, dialogs
<1>2. removed = {} /\ rows = NoRows /\ deletions = {}
  BY <1>1 DEF Inv, NothingHeld
<1>3. IsTable(disk) /\ DOMAIN disk \in SUBSET (Nat \ {0}) /\ Listable(DOMAIN disk)
  BY DEF Inv, TypeOK, Types
<1>n. PICK n \in 0..MaxRules : \E s \in [1..n -> DOMAIN disk] : Listing(s, n, DOMAIN disk)
  BY <1>3 DEF Listable
<1>4. PICK s \in [1..n -> DOMAIN disk] : Listing(s, n, DOMAIN disk)
  BY <1>n
<1>5. /\ entries' \in [1..n -> Entry]
      /\ \A i \in 1..n : entries'[i] =
            [id |-> s[i], rule |-> disk[s[i]], added |-> FALSE]
  <2>1. DOMAIN disk \in SUBSET Nat
    BY <1>3
  <2> QED
    BY <1>1, <1>3, <1>4, <2>1, LoadedInOrder
<1>6. DOMAIN entries' = 1..n
  BY <1>5
<1>7. IdsOf(entries)' = DOMAIN disk /\ AddedIds' = {}
  <2>1. \A i \in 1..n : entries'[i].id = s[i] /\ entries'[i].added = FALSE
    BY <1>5
  <2>2. \A i \in 1..n : s[i] \in DOMAIN disk
    BY <1>4 DEF Listing
  <2>3. \A id \in DOMAIN disk : \E i \in 1..n : s[i] = id
    BY <1>4 DEF Listing
  <2>4. IdsOf(entries)' = {entries'[i].id : i \in 1..n}
    BY <1>6 DEF IdsOf
  <2>5. AddedIds' = {}
    BY <1>6, <2>1 DEF AddedIds
  <2>6. IdsOf(entries)' \subseteq DOMAIN disk
    BY <2>1, <2>2, <2>4
  <2>7. DOMAIN disk \subseteq IdsOf(entries)'
    BY <2>1, <2>3, <2>4
  <2> QED
    BY <2>5, <2>6, <2>7
<1>8. MaxId(disk) \in Nat /\ DOMAIN disk \subseteq 1..MaxId(disk)
  BY <1>3, MaxIdIsLargest
<1>9. DOMAIN rows = {}
  BY <1>2, NoRowsListable
<1>10. TypeOK'
  <2>1. ListOf(entries)' \in Lists
    <3>1. ListOf(entries') \in Lists
      BY <1>5, ListOfEntries
    <3> QED
      BY <3>1 DEF ListOf
  <2>2. \A i \in DOMAIN entries' : entries'[i].added \in BOOLEAN
    BY <1>5, <1>6 DEF Entry
  <2>3. IsTable(rows)' /\ IsTable(disk)'
    BY <1>1 DEF Inv, TypeOK, IsTable
  <2>4. /\ IdsOf(entries)' \cup removed' \subseteq 1..lastId' /\ deletions' \subseteq 1..lastId'
        /\ DOMAIN rows' \subseteq 1..lastId' /\ DOMAIN disk' \subseteq 1..lastId'
    BY <1>1, <1>2, <1>7, <1>8, <1>9
  <2>5. /\ \A a \in Askers :
              /\ asking'[a].at \in {"idle", "copies", "asks"}
              /\ asking'[a].question \in Questions \cup {NoQuestion}
              /\ asking'[a].copy \in Lists
        /\ editor'.open \in BOOLEAN /\ editor'.copy \in Lists /\ storing' \in BOOLEAN
    BY <1>1 DEF Inv, TypeOK
  <2> QED
    BY <1>1, <2>1, <2>2, <2>3, <2>4, <2>5 DEF TypeOK
<1>11. Written = disk /\ Written' = Written
  <2>1. Written = disk
    BY <1>2, WrittenIsTable DEF Inv
  <2>2. Written' = Written
    BY <1>1 DEF Written
  <2> QED
    BY <2>1, <2>2
<1>12. Types'
  <2>1. DialogTypes'
    BY <1>1 DEF Inv, Types, DialogTypes
  <2> QED
    BY <1>1, <1>3, <1>5, <1>8, <1>11, <2>1 DEF Types
<1>13. InOrder'
  <2>1. \A i, j \in 1..n : i < j => s[i] < s[j]
    BY <1>4 DEF Listing
  <2> QED
    BY <1>1, <1>2, <1>5, <1>6, <2>1 DEF InOrder
<1>14. NewIdsAreNew'
  BY <1>1, <1>7, <1>9 DEF NewIdsAreNew
<1>15. TableFollowsList'
  <2>1. \A i \in 1..n : s[i] \in DOMAIN disk
    BY <1>4 DEF Listing
  <2> QED
    BY <1>1, <1>5, <1>6, <1>7, <1>11, <2>1 DEF TableFollowsList
<1>16. NothingHeld'
  BY <1>1 DEF NothingHeld
<1> QED
  BY <1>10, <1>12, <1>13, <1>14, <1>15, <1>16 DEF Inv

\* A thread that asks takes the rules that answer nothing.
LEMMA AskInv ==
    ASSUME Inv, NEW a \in Askers,
           (\E q \in Questions : FindsNoRule(a, q)) \/ CopiesRules(a)
    PROVE  Inv'
<1>1. PICK n \in 0..MaxRules : entries \in [1..n -> Entry]
  BY DEF Inv, Types
<1>2. ListOf(entries) \in Lists /\ <<>> \in Lists
  BY <1>1, ListOfEntries, ListsAreSequences
<1>3. /\ asking \in [Askers -> [at : {"idle", "copies", "asks"},
                                question : Questions \cup {NoQuestion}, copy : Lists]]
      /\ \A b \in Askers : asking[b].at # "idle" => asking[b].question \in Questions
      /\ editor \in [open : BOOLEAN, copy : Lists]
  BY DEF Inv, Types, DialogTypes
<1>4. ASSUME NEW q \in Questions, FindsNoRule(a, q) PROVE Inv'
  <2>1. /\ asking' = [asking EXCEPT ![a] = [Idle EXCEPT !.at = "copies", !.question = q]]
        /\ UNCHANGED <<on, memory, container, disk, editor>> /\ on
    BY <1>4 DEF FindsNoRule
  <2> DEFINE asks == [Idle EXCEPT !.at = "copies", !.question = q]
  <2>2. /\ asks \in [at : {"idle", "copies", "asks"},
                    question : Questions \cup {NoQuestion}, copy : Lists]
        /\ asks.question = q
    BY <1>2 DEF Idle
  <2> HIDE DEF asks
  <2>3. asking' = [asking EXCEPT ![a] = asks]
    BY <2>1 DEF asks
  <2>4. DialogTypes'
    <3>1. /\ asking' \in [Askers -> [at : {"idle", "copies", "asks"},
                              question : Questions \cup {NoQuestion}, copy : Lists]]
          /\ \A b \in Askers : b # a => asking'[b] = asking[b]
          /\ asking'[a] = asks
      BY <1>3, <2>2, <2>3
    <3>2. \A b \in Askers : asking'[b].at # "idle" => asking'[b].question \in Questions
      BY <1>3, <2>2, <3>1
    <3> QED
      BY <1>3, <2>1, <3>1, <3>2 DEF DialogTypes
  <2> QED
    BY <2>1, <2>4, DialogStepInv
<1>5. ASSUME CopiesRules(a) PROVE Inv'
  <2>1. /\ asking[a].at = "copies"
        /\ asking' = [asking EXCEPT ![a].at = "asks", ![a].copy = ListOf(entries)]
        /\ UNCHANGED <<on, memory, container, disk, editor>>
    BY <1>5 DEF CopiesRules
  <2>2. on
    BY <2>1, IdleTyped DEF Inv, NothingHeld
  <2>3. DialogTypes'
    BY <1>2, <1>3, <2>1 DEF DialogTypes
  <2> QED
    BY <2>1, <2>2, <2>3, DialogStepInv
<1> QED
  BY <1>4, <1>5

\* An answer assigns the copy, as it is, with a rule more or edited.
LEMMA AnswersInv ==
    ASSUME Inv, NEW a \in Askers, Answers(a)
    PROVE  Inv'
<1>1. /\ asking \in [Askers -> [at : {"idle", "copies", "asks"},
                                question : Questions \cup {NoQuestion}, copy : Lists]]
      /\ \A b \in Askers : asking[b].at # "idle" => asking[b].question \in Questions
      /\ editor \in [open : BOOLEAN, copy : Lists]
  BY DEF Inv, Types, DialogTypes
<1>2. /\ asking[a].at = "asks" /\ asking' = [asking EXCEPT ![a] = Idle]
      /\ UNCHANGED <<on, container, disk, editor>>
  BY DEF Answers
<1>3. on
  BY <1>2, IdleTyped DEF Inv, NothingHeld
<1> DEFINE copy == asking[a].copy
           q == asking[a].question
<1>4. q \in Questions /\ copy \in Seq(Rules)
  BY <1>1, <1>2, ListsAreSequences
<1>5. \A r \in Results : [condition |-> q, result |-> r] \in Rules
  BY <1>4 DEF Rules
<1>6. PICK list \in {copy}
                 \cup {Merged(copy, [condition |-> q, result |-> r]) : r \in Results}
                 \cup Edited(copy) : Assign(list)
  BY DEF Answers
<1> HIDE DEF copy, q
<1>7. list \in Seq(Rules)
  BY <1>4, <1>5, <1>6, MergedIsList, EditedIsList
<1>8. DialogTypes'
  <2>1. Idle \in [at : {"idle", "copies", "asks"},
                  question : Questions \cup {NoQuestion}, copy : Lists]
        /\ Idle.at = "idle"
    BY ListsAreSequences DEF Idle
  <2> QED
    BY <1>1, <1>2, <2>1 DEF DialogTypes
<1> QED
  BY <1>2, <1>3, <1>6, <1>7, <1>8, AssignInv

\* The editor of the status window takes the rules, is closed, or assigns what it has.
LEMMA EditorInv ==
    ASSUME Inv, OpensEditor \/ CancelsEditor \/ SetRules
    PROVE  Inv'
<1>1. PICK n \in 0..MaxRules : entries \in [1..n -> Entry]
  BY DEF Inv, Types
<1>2. ListOf(entries) \in Lists /\ <<>> \in Lists
  BY <1>1, ListOfEntries, ListsAreSequences
<1>3. /\ asking \in [Askers -> [at : {"idle", "copies", "asks"},
                                question : Questions \cup {NoQuestion}, copy : Lists]]
      /\ \A b \in Askers : asking[b].at # "idle" => asking[b].question \in Questions
      /\ editor \in [open : BOOLEAN, copy : Lists]
  BY DEF Inv, Types, DialogTypes
<1>4. CASE OpensEditor
  <2>1. /\ on /\ editor' = [open |-> TRUE, copy |-> ListOf(entries)]
        /\ UNCHANGED <<on, memory, container, disk, asking>>
    BY <1>4 DEF OpensEditor
  <2>2. DialogTypes'
    BY <1>2, <1>3, <2>1 DEF DialogTypes
  <2> QED
    BY <2>1, <2>2, DialogStepInv
<1>5. CASE CancelsEditor
  <2>1. editor' = Closed /\ UNCHANGED <<on, memory, container, disk, asking>>
    BY <1>5 DEF CancelsEditor
  <2>2. DialogTypes'
    BY <1>3, <2>1, IdleTyped DEF DialogTypes
  <2>3. ~on => asking' = [a \in Askers |-> Idle] /\ editor' = Closed
    BY <2>1 DEF Inv, NothingHeld
  <2> QED
    BY <2>1, <2>2, <2>3, DialogStepInv
<1>6. CASE SetRules
  <2>1. editor.open /\ editor' = Closed /\ UNCHANGED <<on, container, disk, asking>>
    BY <1>6 DEF SetRules
  <2>2. on
    BY <2>1 DEF Inv, NothingHeld, Closed
  <2>3. PICK list \in Edited(editor.copy) : Assign(list)
    BY <1>6 DEF SetRules
  <2>4. list \in Seq(Rules)
    BY <1>3, <2>3, EditedIsList, ListsAreSequences
  <2>5. DialogTypes'
    BY <1>3, <2>1, IdleTyped DEF DialogTypes
  <2> QED
    BY <2>1, <2>2, <2>3, <2>4, <2>5, AssignInv
<1> QED
  BY <1>4, <1>5, <1>6

\* The invariant is inductive.
LEMMA StepInv == Inv /\ [Next]_vars => Inv'
<1> SUFFICES ASSUME Inv, [Next]_vars PROVE Inv'
  OBVIOUS
<1>1. ASSUME NEW a \in Askers,
             (\E q \in Questions : FindsNoRule(a, q)) \/ CopiesRules(a) \/ Answers(a)
      PROVE  Inv'
  BY <1>1, AskInv, AnswersInv
<1>2. CASE OpensEditor \/ SetRules \/ CancelsEditor \/ RestoreDefaults
  BY <1>2, EditorInv, RestoreInv
<1>3. CASE Gathers \/ Flushes \/ FlushThrows
  BY <1>3, GathersInv, FlushesInv, FlushThrowsInv
<1>4. CASE Crash \/ Load
  BY <1>4, CrashInv, LoadInv
<1>5. CASE UNCHANGED vars
  <2>1. /\ UNCHANGED <<on, memory, container, disk>> /\ asking' = asking /\ editor' = editor
    BY <1>5 DEF vars, dialogs
  <2>2. DialogTypes'
    BY <2>1 DEF Inv, Types, DialogTypes
  <2>3. ~on => asking' = [a \in Askers |-> Idle] /\ editor' = Closed
    BY <2>1 DEF Inv, NothingHeld
  <2> QED
    BY <2>1, <2>2, <2>3, DialogStepInv
<1> QED
  BY <1>1, <1>2, <1>3, <1>4, <1>5 DEF Next

-----------------------------------------------------------------------------
(* Theorems *)

\* The lists in memory, in the dialogs and in the copies, the pending rows and the
\* table stay what they are meant to be, and no id is above the last one given.
THEOREM TypeCorrect == Spec => []TypeOK
<1>1. Inv => TypeOK
  BY DEF Inv
<1> QED
  BY InitInv, StepInv, <1>1, PTL DEF Spec

\* The next store that succeeds leaves in the database the rules that apply, in their
\* order (FeedbackManager::Store, SerializableContainer).
THEOREM RulesThatApplyAreStored == Spec => []StoresWhatApplies
  BY InitInv, StepInv, InvStores, PTL DEF Spec

\* No row that waits to be inserted is there already: only the disk can make a flush
\* fail, and none that failed once fails for ever (TSQLiteSerializerContainer::Flush).
THEOREM StoresAreAccepted == Spec => []Acceptable
<1>1. Inv => Acceptable
  BY DEF Inv, NewIdsAreNew, Acceptable
<1> QED
  BY InitInv, StepInv, <1>1, PTL DEF Spec
=================================================================================
