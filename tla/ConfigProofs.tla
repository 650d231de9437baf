---------------------------- MODULE ConfigProofs ----------------------------
(***************************************************************************)
(* Theorems about ConfigManager, for any number of requests, edits,        *)
(* entries and devices.                                                    *)
(*                                                                         *)
(* The running tables are one sweep over the files.  A request reads the   *)
(* files in their order, and what it reads of a file is the last edit      *)
(* before: so its tables, whenever they are installed, hold every edit     *)
(* that is older than one they hold of a file read earlier (IInv).         *)
(*                                                                         *)
(* Each running table is what its loader makes of the file after the edit  *)
(* that is noted for it (RInv): what a loader promises of a table of its   *)
(* own, by induction over the entries of the file, the process promises at *)
(* every moment.                                                           *)
(***************************************************************************)
EXTENDS ConfigManager, FoldLemmas, SequenceTheorems

-----------------------------------------------------------------------------
(* The files are distinct, so a place has one file and a file one place.   *)
Place(f) == SelectInSeq(Files, LAMBDA g : g = f)

LEMMA Places == \A i \in 1..Len(Files) : Place(Files[i]) = i
  <1> SUFFICES ASSUME NEW i \in 1..Len(Files) PROVE Place(Files[i]) = i
    OBVIOUS
  <1> DEFINE I == {j \in 1..Len(Files) : Files[j] = Files[i]}
  <1>1. Len(Files) = 7
    BY DEF Files
  <1>2. I = {i}
    BY <1>1 DEF Files
  <1>3. Min(I) = i
    BY <1>1, <1>2 DEF Min
  <1> QED
    BY <1>2, <1>3 DEF Place, SelectInSeq

LEMMA FilePlaces == \A f \in FileSet : Place(f) \in 1..Len(Files) /\ Files[Place(f)] = f
  BY Places DEF FileSet, Files

AllContents == UNION ({{Initial[f]} : f \in FileSet} \cup {Contents[f] : f \in FileSet})
EditType == [file : FileSet, content : AllContents]
AllTables == UNION {{LoadFile(f, c).table : c \in AllContents} : f \in FileSet}
StagedType == [table : AllTables, edit : Nat]

(* What a request reads of a file: the last edit so far, and no older one. *)
LEMMA LastEditIs ==
  ASSUME NEW f \in FileSet, edits \in Seq(EditType)
  PROVE  /\ LastEdit(f) \in 0..Len(edits)
         /\ \A k \in DOMAIN edits : edits[k].file = f => k <= LastEdit(f)
         /\ LastEdit(f) # 0 => edits[LastEdit(f)].file = f
         /\ ContentAt(f, LastEdit(f)) \in AllContents
  <1> DEFINE I == {k \in 1..Len(edits) : edits[k].file = f}
  <1>1. Len(edits) \in Nat /\ DOMAIN edits = 1..Len(edits) /\ I \in SUBSET (1..Len(edits))
    OBVIOUS
  <1>2. LastEdit(f) = IF I # {} THEN Max(I) ELSE 0
    BY DEF LastEdit, SelectLastInSeq
  <1>3. I # {} => Max(I) \in I /\ \A k \in I : Max(I) >= k
    BY <1>1, MaxIs
  <1>4. \A k \in DOMAIN edits : edits[k].content \in AllContents
    <2>1. \A k \in DOMAIN edits : edits[k] \in EditType
      OBVIOUS
    <2> QED
      BY <2>1 DEF EditType
  <1>5. Initial[f] \in AllContents
    BY DEF AllContents
  <1> HIDE DEF I
  <1>6. CASE I # {}
    <2>1. LastEdit(f) \in I /\ \A k \in I : k <= LastEdit(f)
      BY <1>1, <1>2, <1>3, <1>6
    <2> QED
      BY <1>1, <1>4, <2>1 DEF I, ContentAt
  <1>7. CASE I = {}
    BY <1>1, <1>2, <1>5, <1>7 DEF I, ContentAt
  <1> QED
    BY <1>6, <1>7

-----------------------------------------------------------------------------
(* at[f] is the edit a table of f was read after, for the first m files:   *)
(* an edit that is older than one of a file before its own is in it.       *)
Sweep(at, m) ==
  \A i, j \in 1..m : \A k, l \in DOMAIN edits :
    (/\ i < j /\ k < l
     /\ edits[l].file = Files[i] /\ edits[k].file = Files[j] /\ at[i] >= l) => at[j] >= k

StagedSweep(s) == Sweep([i \in 1..Len(s) |-> s[i].edit], Len(s))
InstalledSweep == Sweep([i \in 1..Len(Files) |-> installed[Files[i]]], Len(Files))

PhaseOf(at, s) == /\ at = "idle" => s = <<>>
                  /\ at = "read" => Len(s) < Len(Files)
                  /\ at = "install" => Len(s) = Len(Files)

RequestInv(r) ==
  /\ \A i \in 1..Len(staged[r]) : staged[r][i].edit <= Len(edits)
  /\ StagedSweep(staged[r])
  /\ PhaseOf(pc[r], staged[r])

IInv ==
  /\ edits \in Seq(EditType)
  /\ pc \in [Reloaders -> {"idle", "read", "install"}]
  /\ staged \in [Reloaders -> Seq(StagedType)]
  /\ installed \in [FileSet -> Nat]
  /\ \A f \in FileSet : installed[f] <= Len(edits)
  /\ InstalledSweep
  /\ \A r \in Reloaders : RequestInv(r)

LEMMA InitIInv == Init => IInv
  BY DEF Init, IInv, RequestInv, InstalledSweep, StagedSweep, Sweep, PhaseOf

(* Of the requests only those whose own state changes can be disturbed.    *)
LEMMA RequestStays ==
  ASSUME NEW r, RequestInv(r), UNCHANGED <<edits, staged[r], pc[r]>>
  PROVE  RequestInv(r)'
  BY DEF RequestInv, StagedSweep, Sweep, PhaseOf

LEMMA StagedEdits ==
  ASSUME IInv, NEW r \in Reloaders, NEW i \in 1..Len(staged[r])
  PROVE  staged[r][i] \in StagedType /\ staged[r][i].edit \in Nat
  <1>1. staged[r] \in Seq(StagedType)
    BY DEF IInv
  <1>2. staged[r][i] \in StagedType
    BY <1>1
  <1> QED
    BY <1>2 DEF StagedType

(* An edit is younger than all that was read before.                       *)
LEMMA EditSweep ==
  ASSUME NEW m \in Nat, NEW at, \A i \in 1..m : at[i] \in Nat /\ at[i] <= Len(edits),
         edits \in Seq(EditType), NEW e \in EditType, edits' = Append(edits, e), Sweep(at, m)
  PROVE  \A i, j \in 1..m : \A k, l \in DOMAIN edits' :
           (/\ i < j /\ k < l
            /\ edits'[l].file = Files[i] /\ edits'[k].file = Files[j] /\ at[i] >= l) => at[j] >= k
  <1> TAKE i, j \in 1..m
  <1> TAKE k, l \in DOMAIN edits'
  <1> HAVE /\ i < j /\ k < l
           /\ edits'[l].file = Files[i] /\ edits'[k].file = Files[j] /\ at[i] >= l
  <1>1. /\ \A n \in 1..Len(edits) : edits'[n] = edits[n]
        /\ DOMAIN edits' = 1..(Len(edits) + 1) /\ DOMAIN edits = 1..Len(edits) /\ Len(edits) \in Nat
    OBVIOUS
  <1>2. l \in DOMAIN edits /\ k \in DOMAIN edits
    BY <1>1
  <1> QED
    BY <1>1, <1>2 DEF Sweep

LEMMA EditIInv == ASSUME IInv, Edit PROVE IInv'
  <1>1. PICK f \in FileSet : \E c \in Contents[f] : edits' = Append(edits, [file |-> f, content |-> c])
    BY DEF Edit
  <1>0. PICK c \in Contents[f] : edits' = Append(edits, [file |-> f, content |-> c])
    BY <1>1
  <1> DEFINE e == [file |-> f, content |-> c]
  <1>2. e \in EditType /\ edits \in Seq(EditType) /\ edits' = Append(edits, e)
    BY <1>0 DEF AllContents, IInv, EditType
  <1> HIDE DEF e
  <1>3. edits' \in Seq(EditType) /\ Len(edits') = Len(edits) + 1 /\ Len(edits) \in Nat
    BY <1>2
  <1>4. UNCHANGED <<pc, staged, installed>>
    BY DEF Edit
  <1>5. InstalledSweep'
    <2> DEFINE at == [i \in 1..Len(Files) |-> installed[Files[i]]]
    <2>1. Len(Files) = 7 /\ \A i \in 1..Len(Files) : Files[i] \in FileSet
      BY DEF Files, FileSet
    <2>2. \A i \in 1..Len(Files) : at[i] \in Nat /\ at[i] <= Len(edits)
      BY <2>1 DEF IInv
    <2>3. Sweep(at, Len(Files))
      BY DEF IInv, InstalledSweep
    <2>4. at' = at
      BY <1>4
    <2> HIDE DEF at
    <2>5. Sweep(at, Len(Files))'
      BY <1>2, <2>1, <2>2, <2>3, <2>4, EditSweep DEF Sweep
    <2> QED
      BY <2>5 DEF InstalledSweep, at
  <1>6. ASSUME NEW r \in Reloaders PROVE StagedSweep(staged[r])'
    <2> DEFINE m == Len(staged[r])
               at == [i \in 1..m |-> staged[r][i].edit]
    <2>1. staged[r] \in Seq(StagedType) /\ m \in Nat
      BY DEF IInv
    <2>2. \A i \in 1..m : at[i] \in Nat /\ at[i] <= Len(edits)
      BY <2>1, StagedEdits DEF IInv, RequestInv
    <2>3. Sweep(at, m)
      BY DEF IInv, RequestInv, StagedSweep
    <2>4. at' = at /\ m' = m
      BY <1>4
    <2> HIDE DEF at, m
    <2>5. Sweep(at, m)'
      BY <1>2, <2>1, <2>2, <2>3, <2>4, EditSweep DEF Sweep
    <2> QED
      BY <2>5 DEF StagedSweep, at, m
  <1>7. \A g \in FileSet : installed[g] \in Nat /\ installed[g] <= Len(edits')
    BY <1>3 DEF IInv
  <1>8. \A r \in Reloaders : \A i \in 1..Len(staged[r]) : staged[r][i].edit <= Len(edits')
    <2> TAKE r \in Reloaders
    <2> TAKE i \in 1..Len(staged[r])
    <2>1. staged[r][i].edit \in Nat /\ staged[r][i].edit <= Len(edits)
      BY StagedEdits DEF IInv, RequestInv
    <2> QED
      BY <1>3, <2>1
  <1> QED
    BY <1>3, <1>4, <1>5, <1>6, <1>7, <1>8 DEF IInv, RequestInv

(* A request that has nothing staged, at rest.                             *)
LEMMA EmptyIInv ==
  ASSUME IInv, NEW r \in Reloaders, staged' = [staged EXCEPT ![r] = <<>>],
         pc' = [pc EXCEPT ![r] = "idle"], UNCHANGED edits,
         installed' \in [FileSet -> Nat], \A f \in FileSet : installed'[f] <= Len(edits),
         InstalledSweep'
  PROVE  IInv'
  <1>1. /\ staged' \in [Reloaders -> Seq(StagedType)]
        /\ pc' \in [Reloaders -> {"idle", "read", "install"}]
        /\ staged'[r] = <<>> /\ pc'[r] = "idle"
        /\ \A q \in Reloaders \ {r} : UNCHANGED <<staged[q], pc[q]>>
    BY DEF IInv
  <1>2. StagedSweep(staged[r])'
    BY <1>1 DEF StagedSweep, Sweep
  <1>3. \A i \in 1..Len(staged'[r]) : staged'[r][i].edit <= Len(edits')
    BY <1>1
  <1>4. ASSUME NEW q \in Reloaders \ {r}
        PROVE  RequestInv(q)'
    <2>1. UNCHANGED <<edits, staged[q], pc[q]>>
      BY <1>1
    <2> QED
      BY <2>1, RequestStays DEF IInv
  <1> QED
    <2>1. RequestInv(r)'
      BY <1>1, <1>2, <1>3 DEF RequestInv, PhaseOf
    <2> QED
      BY <1>1, <1>4, <2>1 DEF IInv

LEMMA ReadIInv == ASSUME IInv, NEW r \in Reloaders, ReadFile(r) PROVE IInv'
  <1> DEFINE m == Len(staged[r])
             f == Files[m + 1]
             result == LoadFile(f, ContentAt(f, LastEdit(f)))
             e == [table |-> result.table, edit |-> LastEdit(f)]
  <1>1. /\ staged[r] \in Seq(StagedType) /\ m \in Nat /\ m < Len(Files) /\ f \in FileSet
        /\ edits \in Seq(EditType) /\ pc[r] = "read"
    BY DEF IInv, RequestInv, PhaseOf, ReadFile, Files, FileSet
  <1>2. UNCHANGED <<edits, tables, installed>>
    BY DEF ReadFile
  <1>3. ContentAt(f, LastEdit(f)) \in AllContents /\ LastEdit(f) \in 0..Len(edits)
    BY <1>1, LastEditIs
  <1>4. result.table \in AllTables
    BY <1>1, <1>3 DEF AllTables
  <1>5. e \in StagedType
    BY <1>3, <1>4 DEF StagedType
  <1>6. CASE result.ok
    <2>1. /\ staged' = [staged EXCEPT ![r] = Append(@, e)]
          /\ pc' = [pc EXCEPT ![r] = IF m + 1 = Len(Files) THEN "install" ELSE @]
      BY <1>6 DEF ReadFile
    <2>2. e.edit = LastEdit(f)
      OBVIOUS
    <2> HIDE DEF e, result
    <2>3. /\ staged' \in [Reloaders -> Seq(StagedType)]
          /\ pc' \in [Reloaders -> {"idle", "read", "install"}]
          /\ staged'[r] = Append(staged[r], e)
          /\ \A q \in Reloaders \ {r} : UNCHANGED <<staged[q], pc[q]>>
      BY <1>1, <1>5, <2>1 DEF IInv
    <2>4. /\ Len(staged'[r]) = m + 1 /\ staged'[r][m + 1] = e
          /\ \A i \in 1..m : staged'[r][i] = staged[r][i]
      BY <1>1, <1>5, <2>3
    <2>5. pc'[r] = IF m + 1 = Len(Files) THEN "install" ELSE "read"
      BY <1>1, <2>1 DEF IInv
    <2>6. ASSUME NEW i \in 1..(m + 1) PROVE staged'[r][i].edit <= Len(edits)
      <3>1. CASE i = m + 1
        BY <1>1, <1>3, <2>2, <2>4, <3>1
      <3>2. CASE i \in 1..m
        BY <2>4, <3>2 DEF IInv, RequestInv
      <3> QED
        BY <1>1, <3>1, <3>2
    <2>7. StagedSweep(staged'[r])
      <3> SUFFICES ASSUME NEW i \in 1..(m + 1), NEW j \in 1..(m + 1), NEW k \in DOMAIN edits,
                          NEW l \in DOMAIN edits, i < j, k < l, edits[l].file = Files[i],
                          edits[k].file = Files[j], staged'[r][i].edit >= l
                   PROVE  staged'[r][j].edit >= k
        BY <2>4 DEF StagedSweep, Sweep
      <3>1. i \in 1..m
        BY <1>1
      <3>2. CASE j = m + 1
        BY <1>1, <1>3, <2>2, <2>4, <3>2, LastEditIs
      <3>3. CASE j \in 1..m
        BY <2>4, <3>1, <3>3 DEF IInv, RequestInv, StagedSweep, Sweep
      <3> QED
        BY <1>1, <3>2, <3>3
    <2>8. StagedSweep(staged[r])'
      BY <1>2, <2>7 DEF StagedSweep, Sweep
    <2>9. ASSUME NEW q \in Reloaders \ {r} PROVE RequestInv(q)'
      BY <1>2, <2>3, RequestStays DEF IInv
    <2>10. InstalledSweep'
      BY <1>2 DEF IInv, InstalledSweep, Sweep
    <2> HIDE DEF m, f
    <2>11. RequestInv(r)'
      <3>1. Len(Files) \in Nat
        BY DEF Files
      <3>2. PhaseOf(pc'[r], staged'[r])
        BY <1>1, <2>4, <2>5, <3>1 DEF PhaseOf
      <3>3. \A i \in 1..Len(staged'[r]) : staged'[r][i].edit <= Len(edits')
        BY <1>2, <2>4, <2>6
      <3> QED
        BY <2>8, <3>2, <3>3 DEF RequestInv
    <2> QED
      BY <1>2, <2>3, <2>9, <2>10, <2>11 DEF IInv
  <1>7. CASE ~result.ok
    <2>1. /\ staged' = [staged EXCEPT ![r] = <<>>] /\ pc' = [pc EXCEPT ![r] = "idle"]
      BY <1>7 DEF ReadFile
    <2>2. InstalledSweep'
      BY <1>2 DEF IInv, InstalledSweep, Sweep
    <2> QED
      BY <1>2, <2>1, <2>2, EmptyIInv DEF IInv
  <1> QED
    BY <1>6, <1>7

(* The tables installed are the ones staged, each in the place of its file.*)
LEMMA InstallIInv == ASSUME IInv, NEW r \in Reloaders, Install(r) PROVE IInv'
  <1>1. /\ pc[r] = "install" /\ Len(staged[r]) = Len(Files) /\ UNCHANGED edits
        /\ installed' = [f \in FileSet |-> staged[r][Place(f)].edit]
        /\ staged' = [staged EXCEPT ![r] = <<>>] /\ pc' = [pc EXCEPT ![r] = "idle"]
    BY DEF Install, Place, IInv, RequestInv, PhaseOf
  <1>2. ASSUME NEW f \in FileSet PROVE installed'[f] \in Nat /\ installed'[f] <= Len(edits)
    <2>1. Place(f) \in 1..Len(staged[r])
      BY <1>1, FilePlaces
    <2> QED
      BY <1>1, <2>1, StagedEdits DEF IInv, RequestInv
  <1>3. installed' \in [FileSet -> Nat]
    BY <1>1, <1>2
  <1>4. \A i \in 1..Len(Files) : installed'[Files[i]] = staged[r][i].edit
    <2>1. \A i \in 1..Len(Files) : Files[i] \in FileSet
      BY DEF Files, FileSet
    <2> QED
      BY <1>1, <2>1, Places
  <1>5. InstalledSweep'
    <2>1. StagedSweep(staged[r])
      BY DEF IInv, RequestInv
    <2> QED
      BY <1>1, <1>4, <2>1 DEF InstalledSweep, StagedSweep, Sweep
  <1> QED
    BY <1>1, <1>2, <1>3, <1>5, EmptyIInv

LEMMA BeginIInv == ASSUME IInv, NEW r \in Reloaders, BeginReload(r) PROVE IInv'
  <1>1. pc[r] = "idle" /\ pc' = [pc EXCEPT ![r] = "read"] /\ UNCHANGED <<edits, staged, installed>>
    BY DEF BeginReload
  <1>2. pc' \in [Reloaders -> {"idle", "read", "install"}] /\ pc'[r] = "read"
    BY <1>1 DEF IInv
  <1>3. ASSUME NEW q \in Reloaders \ {r} PROVE RequestInv(q)'
    BY <1>1, RequestStays DEF IInv
  <1>4. RequestInv(r)'
    <2>1. staged[r] = <<>> /\ RequestInv(r)
      BY <1>1 DEF IInv, RequestInv, PhaseOf
    <2> QED
      BY <1>1, <1>2, <2>1 DEF RequestInv, PhaseOf, StagedSweep, Sweep, Files
  <1>5. InstalledSweep'
    BY <1>1 DEF IInv, InstalledSweep, Sweep
  <1> QED
    BY <1>1, <1>2, <1>3, <1>4, <1>5 DEF IInv

LEMMA SpecIInv == Spec => []IInv
  <1>1. IInv /\ [Next]_vars => IInv'
    <2> SUFFICES ASSUME IInv, [Next]_vars PROVE IInv'
      OBVIOUS
    <2>1. CASE UNCHANGED vars
      <3>1. \A r \in Reloaders : RequestInv(r)'
        BY <2>1, RequestStays DEF vars, IInv
      <3>2. InstalledSweep'
        BY <2>1 DEF vars, IInv, InstalledSweep, Sweep
      <3> QED
        BY <2>1, <3>1, <3>2 DEF vars, IInv
    <2> QED
      BY <2>1, EditIInv, BeginIInv, ReadIInv, InstallIInv DEF Next
  <1> QED
    BY <1>1, InitIInv, PTL DEF Spec

(* The running tables are one sweep over the files, whatever reloads       *)
(* overlap and whatever is edited while they read.                         *)
THEOREM OneSweepHolds == Spec => []OneSweep
  <1>1. IInv => OneSweep
    <2> SUFFICES ASSUME IInv, NEW k \in DOMAIN edits, NEW l \in DOMAIN edits, k < l,
                        Place(edits[l].file) < Place(edits[k].file),
                        installed[edits[l].file] >= l
                 PROVE  installed[edits[k].file] >= k
      BY DEF OneSweep, Place
    <2>1. edits[k] \in EditType /\ edits[l] \in EditType
      BY DEF IInv
    <2>2. edits[k].file \in FileSet /\ edits[l].file \in FileSet
      BY <2>1 DEF EditType
    <2> DEFINE i == Place(edits[l].file)
               j == Place(edits[k].file)
    <2>3. /\ i \in 1..Len(Files) /\ j \in 1..Len(Files)
          /\ Files[i] = edits[l].file /\ Files[j] = edits[k].file
      BY <2>2, FilePlaces
    <2>4. InstalledSweep
      BY DEF IInv
    <2> HIDE DEF i, j
    <2>5. i < j
      BY DEF i, j
    <2> QED
      BY <2>3, <2>4, <2>5 DEF InstalledSweep, Sweep
  <1> QED
    BY <1>1, SpecIInv, PTL

-----------------------------------------------------------------------------
(* What the loop of a loader has made of the first k entries, unless it    *)
(* has ended with an error: each has a name of its own in the table.       *)
NamesApart(entries, K) ==
  \A i, j \in K : entries[i].name = entries[j].name => i = j

LoadedOf(entries, k, Valid(_), Normal(_), acc) ==
  acc.ok =>
    /\ \A i \in 1..k : Valid(entries[i])
    /\ NamesApart(entries, 1..k)
    /\ DOMAIN acc.table = {entries[i].name : i \in 1..k}
    /\ \A i \in 1..k : acc.table[entries[i].name] = Normal(entries[i])

LoadsTo(entries, Valid(_), Normal(_), result) == LoadedOf(entries, Len(entries), Valid, Normal, result)

LEMMA LoadedIs ==
  /\ ~Failed.ok
  /\ \A table : Loaded(table).ok /\ Loaded(table).table = table
  BY DEF Failed, Loaded

LEMMA LoadEntriesLoads ==
  ASSUME NEW entries, Len(entries) \in Nat, DOMAIN entries = 1..Len(entries),
         NEW Valid(_), NEW Normal(_)
  PROVE  LoadsTo(entries, Valid, Normal, LoadEntries(entries, Valid, Normal))
  <1> DEFINE n == Len(entries)
             add(acc, e) ==
               IF ~acc.ok \/ e.name = 0 \/ Taken(acc.table, e.name) \/ ~Valid(e) THEN Failed
               ELSE Loaded(With(acc.table, e.name, Normal(e)))
             start == Loaded(NoTable)
             P(k, acc) == LoadedOf(entries, k, Valid, Normal, acc)
  <1>1. n \in Nat /\ DOMAIN entries = 1..n
    OBVIOUS
  <1>2. LoadEntries(entries, Valid, Normal) = FoldLeft(add, start, entries)
    BY DEF LoadEntries
  <1>3. ASSUME NEW acc, NEW e, add(acc, e).ok
        PROVE  /\ acc.ok /\ e.name \notin DOMAIN acc.table /\ Valid(e)
               /\ add(acc, e).table = With(acc.table, e.name, Normal(e))
    BY <1>3, LoadedIs DEF Taken
  <1>4. P(0, start)
    BY LoadedIs DEF LoadedOf, NamesApart, NoTable
  <1>5. ASSUME NEW k \in 0..n - 1, NEW acc, P(k, acc) PROVE P(k + 1, add(acc, entries[k + 1]))
    <2> DEFINE e == entries[k + 1]
               w == add(acc, e)
    <2>1. SUFFICES ASSUME w.ok PROVE P(k + 1, w)
      BY DEF LoadedOf
    <2>2. /\ acc.ok /\ e.name \notin DOMAIN acc.table /\ Valid(e)
          /\ w.table = With(acc.table, e.name, Normal(e))
      BY <1>3, <2>1
    <2>3. /\ \A i \in 1..k : Valid(entries[i])
          /\ NamesApart(entries, 1..k)
          /\ DOMAIN acc.table = {entries[i].name : i \in 1..k}
          /\ \A i \in 1..k : acc.table[entries[i].name] = Normal(entries[i])
      BY <1>5, <2>2 DEF LoadedOf
    <2>4. 1..k + 1 = 1..k \cup {k + 1} /\ k + 1 \notin 1..k
      BY <1>1
    <2> HIDE DEF w, add
    <2>5. /\ DOMAIN w.table = DOMAIN acc.table \cup {e.name} /\ w.table[e.name] = Normal(e)
          /\ \A x \in DOMAIN acc.table \ {e.name} : w.table[x] = acc.table[x]
      BY <2>2 DEF With
    <2>6. \A i \in 1..k + 1 : Valid(entries[i])
      BY <2>2, <2>3, <2>4
    <2>7. NamesApart(entries, 1..k + 1)
      BY <2>2, <2>3, <2>4 DEF NamesApart
    <2>8. DOMAIN w.table = {entries[i].name : i \in 1..k + 1}
      BY <2>3, <2>4, <2>5
    <2>9. \A i \in 1..k + 1 : w.table[entries[i].name] = Normal(entries[i])
      BY <2>2, <2>3, <2>4, <2>5
    <2> QED
      BY <2>6, <2>7, <2>8, <2>9 DEF LoadedOf
  <1> HIDE DEF add, start, P, n
  <1>6. \E g : FoldSteps(add, start, entries, n, g) /\ FoldLeft(add, start, entries) = g[n]
    BY <1>1, FoldLeftSteps
  <1>7. PICK g : FoldSteps(add, start, entries, n, g) /\ FoldLeft(add, start, entries) = g[n]
    BY <1>6
  <1>8. g[0] = start /\ \A k \in 1..n : g[k] = add(g[k - 1], entries[k])
    BY <1>7 DEF FoldSteps
  <1> DEFINE K == {k \in 0..n : P(k, g[k])}
  <1>9. 0 \in K
    BY <1>1, <1>4, <1>8
  <1>10. ASSUME NEW k \in 0..n - 1, k \in K PROVE k + 1 \in K
    <2>1. k + 1 \in 1..n /\ (k + 1) - 1 = k /\ k + 1 \in 0..n
      BY <1>1
    <2>2. g[k + 1] = add(g[k], entries[k + 1])
      BY <1>8, <2>1
    <2> QED
      BY <1>5, <1>10, <2>1, <2>2
  <1>11. n \in K
    <2> HIDE DEF K
    <2>1. \A k \in 0..n : k \in K
      BY <1>1, <1>9, <1>10, UpTo
    <2> QED
      BY <1>1, <2>1
  <1> QED
    BY <1>2, <1>7, <1>11 DEF P, n, LoadsTo

(* The names of entries that are apart are as many as the entries.         *)
NamesIn(entries, K) == {entries[i].name : i \in K}

LEMMA NamesCount ==
  ASSUME NEW entries, NEW n \in Nat, NEW K \in SUBSET (1..n), NamesApart(entries, K)
  PROVE  Cardinality(NamesIn(entries, K)) = Cardinality(K)
  <1> USE DEF NamesIn
  <1> DEFINE N == {entries[i].name : i \in K}
             f == [i \in K |-> entries[i].name]
  <1>1. IsFiniteSet(K)
    <2>1. IsFiniteSet(1..n)
      BY FS_Interval
    <2> QED
      BY <2>1, FS_Subset
  <1>2. f \in Bijection(K, N)
    BY DEF Bijection, Injection, Surjection, IsInjective, NamesApart
  <1>3. ExistsBijection(K, N)
    BY <1>2 DEF ExistsBijection
  <1> QED
    BY <1>1, <1>3, FS_Bijection

LEMMA NamesFinite ==
  ASSUME NEW entries, NEW n \in Nat
  PROVE  IsFiniteSet(NamesIn(entries, 1..n))
  <1> DEFINE f == [i \in 1..n |-> entries[i].name]
  <1>1. f \in Surjection(1..n, NamesIn(entries, 1..n))
    BY DEF Surjection, NamesIn
  <1> QED
    BY <1>1, FS_Interval, FS_Surjection

-----------------------------------------------------------------------------
(* A file without entries is as good as one that is read.                  *)
Readable(file) ==
  /\ Len(file.entries) \in Nat /\ DOMAIN file.entries = 1..Len(file.entries)
  /\ file.state # "present" => file.entries = <<>>

LEMMA OptionalLoads ==
  ASSUME NEW file, Readable(file), NEW Valid(_), NEW Normal(_)
  PROVE  /\ LoadsTo(file.entries, Valid, Normal,
                    Present(file, LoadEntries(file.entries, Valid, Normal)))
         /\ LoadsTo(file.entries, Valid, Normal,
                    Optional(file, Present(file, LoadEntries(file.entries, Valid, Normal))))
  <1> DEFINE R == LoadEntries(file.entries, Valid, Normal)
  <1>1. LoadsTo(file.entries, Valid, Normal, R)
    BY LoadEntriesLoads DEF Readable
  <1> HIDE DEF R
  <1>2. LoadsTo(file.entries, Valid, Normal, Present(file, R))
    BY <1>1, LoadedIs DEF Present, LoadsTo, LoadedOf
  <1>3. CASE file.state = "missing"
    <2>1. file.entries = <<>> /\ Len(<<>>) = 0 /\ 1..0 = {}
      BY <1>3 DEF Readable
    <2>2. LoadsTo(file.entries, Valid, Normal, Loaded(NoTable))
      BY <2>1, LoadedIs DEF LoadsTo, LoadedOf, NamesApart, NoTable
    <2> QED
      BY <1>2, <1>3, <2>2 DEF Optional, R
  <1> QED
    BY <1>2, <1>3 DEF Optional, R

LEMMA FileReadable ==
  ASSUME NEW f \in FileSet \ {"snmp"}, NEW file, IsFile(f, file)
  PROVE  Readable(file) /\ \A i \in 1..Len(file.entries) : IsEntry(f, file.entries[i])
  <1>1. /\ file.entries \in Seq(Range(file.entries)) /\ \A e \in Range(file.entries) : IsEntry(f, e)
        /\ file.state # "present" => file.entries = <<>>
    BY DEF IsFile
  <1>2. Len(file.entries) \in Nat /\ DOMAIN file.entries = 1..Len(file.entries)
    BY <1>1, LenProperties
  <1> QED
    BY <1>1, <1>2 DEF Readable, Range

(* What LoadExact says of the table of a file, and TypeOK.                 *)
KeptOf(f, entries) ==
  {i \in DOMAIN entries :
     f = "commands" => \E p \in Range(entries[i].paths) : Available(p) /\ p # "blank"}

Exact(f, entries, table) ==
  /\ DOMAIN table = NamesIn(entries, KeptOf(f, entries))
  /\ Cardinality(DOMAIN table) = Cardinality(KeptOf(f, entries))

Fits(f, table) ==
  /\ f \in {"databases", "redis", "kafka"} => \A n \in DOMAIN table : table[n].limit > 0
  /\ f = "redis" => \A n \in DOMAIN table : table[n].port # 0
  /\ f = "kafka" => \A n \in DOMAIN table : table[n].brokers > 0
  /\ f = "apis" => \A n \in DOMAIN table : table[n].path = "text" /\ table[n].baseURL = "text"
  /\ f = "commands" => \A n \in DOMAIN table : Available(table[n].path)
  /\ f = "snmp" => BoundsSet(table.defaults)

LEMMA LoadsToExact ==
  ASSUME NEW f \in FileSet \ {"commands", "snmp"}, NEW file, IsFile(f, file),
         NEW Valid(_), NEW Normal(_), NEW result,
         result.ok, LoadsTo(file.entries, Valid, Normal, result)
  PROVE  Exact(f, file.entries, result.table)
  <1> DEFINE entries == file.entries
             n == Len(entries)
  <1>1. n \in Nat /\ DOMAIN entries = 1..n
    BY FileReadable DEF Readable
  <1>2. KeptOf(f, entries) = 1..n
    BY <1>1 DEF KeptOf
  <1>3. DOMAIN result.table = NamesIn(entries, 1..n) /\ NamesApart(entries, 1..n)
    BY DEF LoadsTo, LoadedOf, NamesIn
  <1>0. 1..n \in SUBSET (1..n)
    OBVIOUS
  <1> HIDE DEF n, entries
  <1>4. Cardinality(NamesIn(entries, 1..n)) = Cardinality(1..n)
    BY <1>0, <1>1, <1>3, NamesCount
  <1> QED
    BY <1>2, <1>3, <1>4 DEF Exact, entries

LEMMA PositiveIs ==
  /\ \A n \in Int : \A d \in Nat \ {0} : PositiveOr(n, d) > 0
  /\ \A n \in Int : \A d \in Int \ {0} : OrElse(n, d) # 0
  BY DEF PositiveOr, OrElse

LEMMA loadHostsLoads ==
  ASSUME NEW file, IsFile("hosts", file), loadHosts(file).ok
  PROVE  Exact("hosts", file.entries, loadHosts(file).table)
  <1> DEFINE normal(h) == [h EXCEPT !.port = OrElse(@, 22)]
  <1>1. loadHosts(file) = Present(file, LoadEntries(file.entries, Always, normal))
    BY DEF loadHosts
  <1>2. "hosts" \in FileSet \ {"commands", "snmp"}
    BY DEF FileSet, Files
  <1> HIDE DEF normal
  <1>3. LoadsTo(file.entries, Always, normal, loadHosts(file))
    BY <1>1, <1>2, FileReadable, OptionalLoads
  <1> QED
    BY <1>2, <1>3, LoadsToExact

LEMMA loadRedisLoads ==
  ASSUME NEW file, IsFile("redis", file), loadRedis(file).ok
  PROVE  /\ Exact("redis", file.entries, loadRedis(file).table)
         /\ Fits("redis", loadRedis(file).table)
  <1> DEFINE normal(r) == [r EXCEPT !.limit = PositiveOr(@, DefaultQueryLimit), !.port = OrElse(@, 6379)]
             entries == file.entries
  <1>1. loadRedis(file) = Optional(file, Present(file, LoadEntries(entries, Always, normal)))
    BY DEF loadRedis
  <1>2. "redis" \in FileSet \ {"commands", "snmp"}
    BY DEF FileSet, Files
  <1>3. ASSUME NEW e, IsEntry("redis", e) PROVE normal(e).limit > 0 /\ normal(e).port # 0
    <2>1. e \in [name : Nat, limit : Int, port : Int]
      BY <1>3 DEF IsEntry
    <2>2. normal(e).limit = PositiveOr(e.limit, DefaultQueryLimit) /\ normal(e).port = OrElse(e.port, 6379)
      BY <2>1
    <2>3. e.limit \in Int /\ e.port \in Int
      BY <2>1
    <2> HIDE DEF normal
    <2> QED
      BY <2>2, <2>3, LimitAssumption, PositiveIs
  <1> HIDE DEF normal
  <1>4. LoadsTo(entries, Always, normal, loadRedis(file))
    BY <1>1, <1>2, FileReadable, OptionalLoads
  <1>5. Exact("redis", entries, loadRedis(file).table)
    BY <1>2, <1>4, LoadsToExact
  <1>6. ASSUME NEW n \in DOMAIN loadRedis(file).table
        PROVE  loadRedis(file).table[n].limit > 0 /\ loadRedis(file).table[n].port # 0
    <2>1. PICK i \in 1..Len(entries) : loadRedis(file).table[n] = normal(entries[i])
      BY <1>4 DEF LoadsTo, LoadedOf
    <2>2. IsEntry("redis", entries[i])
      BY <1>2, FileReadable
    <2> QED
      BY <1>3, <2>1, <2>2
  <1> QED
    BY <1>5, <1>6 DEF Fits

LEMMA loadDatabasesLoads ==
  ASSUME NEW file, IsFile("databases", file), loadDatabases(file).ok
  PROVE  /\ Exact("databases", file.entries, loadDatabases(file).table)
         /\ Fits("databases", loadDatabases(file).table)
  <1> DEFINE port(db) == CASE db.type = "mysql" -> 3306 [] db.type = "postgresql" -> 5432 [] OTHER -> 0
             normal(db) == [db EXCEPT !.limit = PositiveOr(@, DefaultQueryLimit),
                                      !.port = OrElse(@, port(db))]
             entries == file.entries
  <1>1. loadDatabases(file) = Optional(file, Present(file, LoadEntries(entries, Always, normal)))
    BY DEF loadDatabases
  <1>2. "databases" \in FileSet \ {"commands", "snmp"}
    BY DEF FileSet, Files
  <1>3. ASSUME NEW e, IsEntry("databases", e) PROVE normal(e).limit > 0
    <2>1. e \in [name : Nat, type : {"mysql", "postgresql", "other"}, limit : Int, port : Int]
      BY <1>3 DEF IsEntry
    <2>2. e.limit \in Int
      BY <2>1
    <2> HIDE DEF port
    <2>3. normal(e).limit = PositiveOr(e.limit, DefaultQueryLimit)
      BY <2>1
    <2> HIDE DEF normal
    <2> QED
      BY <2>2, <2>3, LimitAssumption, PositiveIs
  <1> HIDE DEF normal
  <1>4. LoadsTo(entries, Always, normal, loadDatabases(file))
    BY <1>1, <1>2, FileReadable, OptionalLoads
  <1>5. Exact("databases", entries, loadDatabases(file).table)
    BY <1>2, <1>4, LoadsToExact
  <1>6. ASSUME NEW n \in DOMAIN loadDatabases(file).table
        PROVE  loadDatabases(file).table[n].limit > 0
    <2>1. PICK i \in 1..Len(entries) : loadDatabases(file).table[n] = normal(entries[i])
      BY <1>4 DEF LoadsTo, LoadedOf
    <2>2. IsEntry("databases", entries[i])
      BY <1>2, FileReadable
    <2> QED
      BY <1>3, <2>1, <2>2
  <1> QED
    BY <1>5, <1>6 DEF Fits

LEMMA loadKafkaLoads ==
  ASSUME NEW file, IsFile("kafka", file), loadKafka(file).ok
  PROVE  /\ Exact("kafka", file.entries, loadKafka(file).table)
         /\ Fits("kafka", loadKafka(file).table)
  <1> DEFINE valid(k) == k.brokers > 0
             normal(k) == [k EXCEPT !.limit = PositiveOr(@, DefaultQueryLimit)]
             entries == file.entries
  <1>1. loadKafka(file) = Optional(file, Present(file, LoadEntries(entries, valid, normal)))
    BY DEF loadKafka
  <1>2. "kafka" \in FileSet \ {"commands", "snmp"}
    BY DEF FileSet, Files
  <1>3. ASSUME NEW e, IsEntry("kafka", e), valid(e) PROVE normal(e).limit > 0 /\ normal(e).brokers > 0
    <2>1. e \in [name : Nat, limit : Int, brokers : Nat]
      BY <1>3 DEF IsEntry
    <2>2. e.limit \in Int /\ e.brokers > 0
      BY <1>3, <2>1
    <2>3. normal(e).limit = PositiveOr(e.limit, DefaultQueryLimit) /\ normal(e).brokers = e.brokers
      BY <2>1
    <2> HIDE DEF normal
    <2> QED
      BY <2>2, <2>3, LimitAssumption, PositiveIs
  <1> HIDE DEF normal, valid
  <1>4. LoadsTo(entries, valid, normal, loadKafka(file))
    BY <1>1, <1>2, FileReadable, OptionalLoads
  <1>5. Exact("kafka", entries, loadKafka(file).table)
    BY <1>2, <1>4, LoadsToExact
  <1>6. ASSUME NEW n \in DOMAIN loadKafka(file).table
        PROVE  loadKafka(file).table[n].limit > 0 /\ loadKafka(file).table[n].brokers > 0
    <2>1. PICK i \in 1..Len(entries) : loadKafka(file).table[n] = normal(entries[i]) /\ valid(entries[i])
      BY <1>4 DEF LoadsTo, LoadedOf
    <2>2. IsEntry("kafka", entries[i])
      BY <1>2, FileReadable
    <2> QED
      BY <1>3, <2>1, <2>2
  <1> QED
    BY <1>5, <1>6 DEF Fits

LEMMA loadAPIsLoads ==
  ASSUME NEW file, IsFile("apis", file), loadAPIs(file).ok
  PROVE  /\ Exact("apis", file.entries, loadAPIs(file).table)
         /\ Fits("apis", loadAPIs(file).table)
  <1> DEFINE valid(a) == /\ expandEnvStrict(a.path).ok /\ expandEnvStrict(a.path).text # ""
                         /\ expandEnvStrict(a.baseURL).ok /\ expandEnvStrict(a.baseURL).text # ""
                         /\ expandEnvStrict(a.header).ok
             normal(a) == [a EXCEPT !.path = expandEnvStrict(@).text,
                                    !.baseURL = expandEnvStrict(@).text,
                                    !.header = expandEnvStrict(@).text]
             entries == file.entries
  <1>1. loadAPIs(file) = Optional(file, Present(file, LoadEntries(entries, valid, normal)))
    BY DEF loadAPIs
  <1>2. "apis" \in FileSet \ {"commands", "snmp"}
    BY DEF FileSet, Files
  <1>0. ASSUME NEW t \in Texts, expandEnvStrict(t).ok, expandEnvStrict(t).text # ""
        PROVE  expandEnvStrict(t).text = "text"
    BY <1>0 DEF Texts, expandEnvStrict
  <1>3. ASSUME NEW e, IsEntry("apis", e), valid(e)
        PROVE  normal(e).path = "text" /\ normal(e).baseURL = "text"
    <2>1. e \in [name : Nat, path : Texts, baseURL : Texts, header : Texts]
      BY <1>3 DEF IsEntry
    <2>2. normal(e).path = expandEnvStrict(e.path).text /\ normal(e).baseURL = expandEnvStrict(e.baseURL).text
      BY <2>1
    <2>3. e.path \in Texts /\ e.baseURL \in Texts
      BY <2>1
    <2> HIDE DEF normal
    <2> QED
      BY <1>0, <1>3, <2>2, <2>3
  <1> HIDE DEF normal, valid
  <1>4. LoadsTo(entries, valid, normal, loadAPIs(file))
    BY <1>1, <1>2, FileReadable, OptionalLoads
  <1>5. Exact("apis", entries, loadAPIs(file).table)
    BY <1>2, <1>4, LoadsToExact
  <1>6. ASSUME NEW n \in DOMAIN loadAPIs(file).table
        PROVE  loadAPIs(file).table[n].path = "text" /\ loadAPIs(file).table[n].baseURL = "text"
    <2>1. PICK i \in 1..Len(entries) : loadAPIs(file).table[n] = normal(entries[i]) /\ valid(entries[i])
      BY <1>4 DEF LoadsTo, LoadedOf
    <2>2. IsEntry("apis", entries[i])
      BY <1>2, FileReadable
    <2> QED
      BY <1>3, <2>1, <2>2
  <1> QED
    BY <1>5, <1>6 DEF Fits

-----------------------------------------------------------------------------
(* The candidates of a command are its paths that are not blank.           *)
LEMMA CandidatesAre ==
  ASSUME NEW paths \in Seq(STRING)
  PROVE  /\ normalizePathCandidates(paths) \in Seq(STRING)
         /\ Range(normalizePathCandidates(paths)) = Range(paths) \ {"blank"}
  <1> DEFINE op(out, p) == IF p = "blank" THEN out ELSE Append(out, p)
             n == Len(paths)
             Q(k, out) == out \in Seq(STRING) /\ Range(out) = {paths[i] : i \in 1..k} \ {"blank"}
  <1>1. n \in Nat /\ DOMAIN paths = 1..n /\ \A i \in 1..n : paths[i] \in STRING
    OBVIOUS
  <1>2. normalizePathCandidates(paths) = FoldLeft(op, <<>>, paths)
    BY DEF normalizePathCandidates
  <1>3. Q(0, <<>>)
    BY DEF Range
  <1>4. ASSUME NEW k \in 0..n - 1, NEW out, Q(k, out) PROVE Q(k + 1, op(out, paths[k + 1]))
    <2>1. k + 1 \in 1..n /\ 1..k + 1 = 1..k \cup {k + 1} /\ paths[k + 1] \in STRING
      BY <1>1
    <2>2. {paths[i] : i \in 1..k + 1} = {paths[i] : i \in 1..k} \cup {paths[k + 1]}
      BY <2>1
    <2>3. Range(Append(out, paths[k + 1])) = Range(out) \cup {paths[k + 1]}
      <3>1. /\ DOMAIN out = 1..Len(out) /\ Len(out) \in Nat
            /\ DOMAIN Append(out, paths[k + 1]) = 1..Len(out) + 1
            /\ \A i \in 1..Len(out) : Append(out, paths[k + 1])[i] = out[i]
            /\ Append(out, paths[k + 1])[Len(out) + 1] = paths[k + 1]
        BY <1>4, <2>1
      <3>2. 1..Len(out) + 1 = 1..Len(out) \cup {Len(out) + 1}
        BY <3>1
      <3> QED
        BY <3>1, <3>2 DEF Range
    <2>4. CASE paths[k + 1] = "blank"
      BY <1>4, <2>2, <2>4
    <2>5. CASE paths[k + 1] # "blank"
      <3>1. op(out, paths[k + 1]) = Append(out, paths[k + 1])
        BY <2>5
      <3>2. Append(out, paths[k + 1]) \in Seq(STRING)
        BY <1>4, <2>1
      <3> QED
        BY <1>4, <2>2, <2>3, <2>5, <3>1, <3>2
    <2> QED
      BY <2>4, <2>5
  <1> HIDE DEF op, Q, n
  <1>5. \E g : FoldSteps(op, <<>>, paths, n, g) /\ FoldLeft(op, <<>>, paths) = g[n]
    BY <1>1, FoldLeftSteps
  <1>6. PICK g : FoldSteps(op, <<>>, paths, n, g) /\ FoldLeft(op, <<>>, paths) = g[n]
    BY <1>5
  <1>7. g[0] = <<>> /\ \A k \in 1..n : g[k] = op(g[k - 1], paths[k])
    BY <1>6 DEF FoldSteps
  <1> DEFINE K == {k \in 0..n : Q(k, g[k])}
  <1>8. 0 \in K
    BY <1>1, <1>3, <1>7
  <1>9. ASSUME NEW k \in 0..n - 1, k \in K PROVE k + 1 \in K
    <2>1. k + 1 \in 1..n /\ (k + 1) - 1 = k /\ k + 1 \in 0..n
      BY <1>1
    <2>2. g[k + 1] = op(g[k], paths[k + 1])
      BY <1>7, <2>1
    <2> QED
      BY <1>4, <1>9, <2>1, <2>2
  <1>10. n \in K
    <2> HIDE DEF K
    <2>1. \A k \in 0..n : k \in K
      BY <1>1, <1>8, <1>9, UpTo
    <2> QED
      BY <1>1, <2>1
  <1> QED
    BY <1>1, <1>2, <1>6, <1>10 DEF Q, Range

(* The path of a command is available, if any of its paths is.             *)
HasPath(c) == \E p \in Range(c.paths) : Available(p) /\ p # "blank"

LEMMA ResolvesPath ==
  ASSUME NEW paths \in Seq(STRING)
  PROVE  LET candidates == normalizePathCandidates(paths)
             at == resolveCommandPath(candidates)
         IN /\ at = 0 <=> ~\E p \in Range(paths) : Available(p) /\ p # "blank"
            /\ at # 0 => Available(candidates[at])
  <1> DEFINE candidates == normalizePathCandidates(paths)
             at == resolveCommandPath(candidates)
             I == {i \in 1..Len(candidates) : Available(candidates[i])}
  <1>1. candidates \in Seq(STRING) /\ Range(candidates) = Range(paths) \ {"blank"}
    BY CandidatesAre
  <1>2. at = IF I # {} THEN Min(I) ELSE 0
    BY DEF resolveCommandPath, SelectInSeq
  <1> HIDE DEF candidates
  <1>3. Len(candidates) \in Nat /\ DOMAIN candidates = 1..Len(candidates)
    BY <1>1, LenProperties
  <1>4. I # {} => Min(I) \in I
    BY <1>3, MinIs
  <1>5. I = {} <=> ~\E p \in Range(paths) : Available(p) /\ p # "blank"
    <2>1. I = {} <=> ~\E p \in Range(candidates) : Available(p)
      BY <1>3 DEF Range
    <2> QED
      BY <1>1, <2>1
  <1>6. \A i \in I : i # 0 /\ Available(candidates[i])
    BY <1>3
  <1> HIDE DEF I, at
  <1>7. at = 0 <=> I = {}
    BY <1>2, <1>4, <1>6
  <1>8. at # 0 => Available(candidates[at])
    BY <1>2, <1>4, <1>6
  <1> QED
    BY <1>5, <1>7, <1>8 DEF at, candidates

(* What the loop over the commands has made of the first k.                *)
CommandsOf(entries, k, acc) ==
  acc.ok =>
    LET kept == {i \in 1..k : HasPath(entries[i])}
    IN /\ NamesApart(entries, kept)
       /\ DOMAIN acc.table = NamesIn(entries, kept)
       /\ \A n \in DOMAIN acc.table : Available(acc.table[n].path)

LEMMA loadCommandsLoads ==
  ASSUME NEW file, IsFile("commands", file), loadCommands(file).ok
  PROVE  /\ Exact("commands", file.entries, loadCommands(file).table)
         /\ Fits("commands", loadCommands(file).table)
  <1> DEFINE entries == file.entries
             n == Len(entries)
             candidates(c) == normalizePathCandidates(c.paths)
             at(c) == resolveCommandPath(candidates(c))
             valid(c) == candidates(c) # <<>> /\ "relative" \notin Range(candidates(c))
             new(c) == [path |-> candidates(c)[at(c)]]
             add(acc, c) ==
               IF ~acc.ok \/ c.name = 0 \/ ~valid(c) \/ Taken(acc.table, c.name) THEN Failed
               ELSE IF at(c) = 0 THEN acc
               ELSE Loaded(With(acc.table, c.name, new(c)))
             start == Loaded(NoTable)
             result == FoldLeft(add, start, entries)
  <1>1. "commands" \in FileSet \ {"snmp"}
    BY DEF FileSet, Files
  <1>2. Readable(file) /\ \A i \in 1..n : IsEntry("commands", entries[i])
    BY <1>1, FileReadable
  <1>3. n \in Nat /\ DOMAIN entries = 1..n
    BY <1>2 DEF Readable
  <1>4. loadCommands(file) = Optional(file, Present(file, result))
    BY DEF loadCommands
  <1>5. ASSUME NEW i \in 1..n
        PROVE  /\ at(entries[i]) = 0 <=> ~HasPath(entries[i])
               /\ at(entries[i]) # 0 => Available(new(entries[i]).path)
    <2>1. entries[i].paths \in Seq(STRING)
      BY <1>2 DEF IsEntry
    <2> QED
      BY <2>1, ResolvesPath DEF HasPath
  <1> HIDE DEF at, new, valid, candidates
  <1>6. CommandsOf(entries, 0, start)
    BY LoadedIs DEF CommandsOf, NamesApart, NamesIn, NoTable
  <1>7. ASSUME NEW k \in 0..n - 1, NEW acc, CommandsOf(entries, k, acc)
        PROVE  CommandsOf(entries, k + 1, add(acc, entries[k + 1]))
    <2> DEFINE e == entries[k + 1]
               w == add(acc, e)
               kept(m) == {i \in 1..m : HasPath(entries[i])}
    <2>0. k + 1 \in 1..n /\ 1..k + 1 = 1..k \cup {k + 1} /\ k + 1 \notin 1..k
      BY <1>3
    <2>1. SUFFICES ASSUME w.ok PROVE CommandsOf(entries, k + 1, w)
      BY DEF CommandsOf
    <2>2. /\ acc.ok /\ e.name \notin DOMAIN acc.table
          /\ w = IF at(e) = 0 THEN acc ELSE Loaded(With(acc.table, e.name, new(e)))
      BY <2>1, LoadedIs DEF Taken
    <2>3. /\ NamesApart(entries, kept(k)) /\ DOMAIN acc.table = NamesIn(entries, kept(k))
          /\ \A m \in DOMAIN acc.table : Available(acc.table[m].path)
      BY <1>7, <2>2 DEF CommandsOf
    <2>4. SUFFICES /\ NamesApart(entries, kept(k + 1)) /\ DOMAIN w.table = NamesIn(entries, kept(k + 1))
                   /\ \A m \in DOMAIN w.table : Available(w.table[m].path)
      BY DEF CommandsOf
    <2> HIDE DEF w, add
    <2>5. CASE at(e) = 0
      <3>1. kept(k + 1) = kept(k)
        BY <1>5, <2>0, <2>5
      <3> QED
        BY <2>2, <2>3, <2>5, <3>1
    <2>6. CASE at(e) # 0
      <3>1. kept(k + 1) = kept(k) \cup {k + 1} /\ k + 1 \notin kept(k) /\ Available(new(e).path)
        BY <1>5, <2>0, <2>6
      <3>2. w.table = With(acc.table, e.name, new(e))
        BY <2>2, <2>6, LoadedIs
      <3>3. /\ DOMAIN w.table = DOMAIN acc.table \cup {e.name} /\ w.table[e.name] = new(e)
            /\ \A x \in DOMAIN acc.table \ {e.name} : w.table[x] = acc.table[x]
        BY <3>2 DEF With
      <3> HIDE DEF kept
      <3>4. NamesApart(entries, kept(k + 1))
        BY <2>2, <2>3, <3>1 DEF NamesApart, NamesIn
      <3>5. DOMAIN w.table = NamesIn(entries, kept(k + 1))
        BY <2>3, <3>1, <3>3 DEF NamesIn
      <3>6. \A m \in DOMAIN w.table : Available(w.table[m].path)
        BY <2>2, <2>3, <3>1, <3>3
      <3> QED
        BY <3>4, <3>5, <3>6
    <2> QED
      BY <2>5, <2>6
  <1> HIDE DEF add, start, n, entries
  <1>8. \E g : FoldSteps(add, start, entries, n, g) /\ FoldLeft(add, start, entries) = g[n]
    BY <1>3, FoldLeftSteps
  <1>9. PICK g : FoldSteps(add, start, entries, n, g) /\ FoldLeft(add, start, entries) = g[n]
    BY <1>8
  <1>10. g[0] = start /\ \A k \in 1..n : g[k] = add(g[k - 1], entries[k])
    BY <1>9 DEF FoldSteps
  <1> DEFINE K == {k \in 0..n : CommandsOf(entries, k, g[k])}
  <1>11. 0 \in K
    BY <1>3, <1>6, <1>10
  <1>12. ASSUME NEW k \in 0..n - 1, k \in K PROVE k + 1 \in K
    <2>1. k + 1 \in 1..n /\ (k + 1) - 1 = k /\ k + 1 \in 0..n
      BY <1>3
    <2>2. g[k + 1] = add(g[k], entries[k + 1])
      BY <1>10, <2>1
    <2> QED
      BY <1>7, <1>12, <2>1, <2>2
  <1>13. CommandsOf(entries, n, result)
    <2> HIDE DEF K
    <2>1. \A k \in 0..n : k \in K
      BY <1>3, <1>11, <1>12, UpTo
    <2>2. n \in K
      BY <1>3, <2>1
    <2> QED
      BY <1>9, <2>2 DEF K
  <1> HIDE DEF result
  <1>14. CommandsOf(entries, n, loadCommands(file))
    <2>1. CommandsOf(entries, n, Present(file, result))
      BY <1>13, LoadedIs DEF Present, CommandsOf
    <2>2. CASE file.state = "missing"
      <3>1. entries = <<>> /\ n = 0
        BY <1>2, <2>2 DEF Readable, entries, n
      <3> QED
        BY <1>4, <1>6, <2>2, <3>1 DEF Optional, start
    <2> QED
      BY <1>4, <2>1, <2>2 DEF Optional
  <1> DEFINE kept == {i \in 1..n : HasPath(entries[i])}
             table == loadCommands(file).table
  <1>15. /\ NamesApart(entries, kept) /\ DOMAIN table = NamesIn(entries, kept)
         /\ \A m \in DOMAIN table : Available(table[m].path)
    BY <1>14 DEF CommandsOf
  <1>16. KeptOf("commands", entries) = kept
    BY <1>3 DEF KeptOf, HasPath
  <1>17. kept \in SUBSET (1..n)
    OBVIOUS
  <1> HIDE DEF kept, table
  <1>18. Cardinality(NamesIn(entries, kept)) = Cardinality(kept)
    BY <1>3, <1>15, <1>17, NamesCount
  <1> QED
    BY <1>15, <1>16, <1>18 DEF Exact, Fits, table, entries

-----------------------------------------------------------------------------
(* The authentication a device of a table of snmp.yaml resolves to.        *)
AuthIn(table, d) ==
  IF d.credential = 0 THEN d.auth
  ELSE IF d.credential \in DOMAIN table.credentials THEN table.credentials[d.credential].auth
  ELSE Unresolved

Numbered(table) == DOMAIN table.devices \in SUBSET Nat /\ IsFiniteSet(DOMAIN table.devices)

Resolves(table) == \A n \in DOMAIN table.devices : validateSNMPAuth(AuthIn(table, table.devices[n]))

SNMPDefaults == [timeout : STRING, retries : Int, maxRepetitions : Int, walkMaxOIDs : Int]

LEMMA DefaultsAreSet ==
  BoundsSet(DefaultSNMP) /\ \A d \in SNMPDefaults : BoundsSet(applySNMPDefaults(d))
  <1>1. BoundsSet(DefaultSNMP)
    BY DEF DefaultSNMP, BoundsSet
  <1>2. ASSUME NEW d \in SNMPDefaults
        PROVE  BoundsSet(applySNMPDefaults(d))
    <2>1. d.retries \in Int /\ d.maxRepetitions \in Int /\ d.walkMaxOIDs \in Int
      BY DEF SNMPDefaults
    <2>2. /\ applySNMPDefaults(d).timeout = IF d.timeout = "" THEN "5s" ELSE d.timeout
          /\ applySNMPDefaults(d).retries = PositiveOr(d.retries, 1)
          /\ applySNMPDefaults(d).maxRepetitions = PositiveOr(d.maxRepetitions, 25)
          /\ applySNMPDefaults(d).walkMaxOIDs = PositiveOr(d.walkMaxOIDs, 1000)
      BY DEF applySNMPDefaults, DefaultSNMP
    <2> DEFINE out == applySNMPDefaults(d)
               tries == PositiveOr(d.retries, 1)
               reps == PositiveOr(d.maxRepetitions, 25)
               oids == PositiveOr(d.walkMaxOIDs, 1000)
    <2>3. tries \in Nat \ {0} /\ reps \in Nat \ {0} /\ oids \in Nat \ {0}
      BY <2>1 DEF PositiveOr
    <2>4. out.timeout = IF d.timeout = "" THEN "5s" ELSE d.timeout
      BY <2>2
    <2>5. out.retries = tries /\ out.maxRepetitions = reps /\ out.walkMaxOIDs = oids
      BY <2>2
    <2> HIDE DEF out, tries, reps, oids
    <2>6. BoundsSet(out)
      <3>1. out.timeout # ""
        BY <2>4
      <3>2. out.retries > 0
        BY <2>3, <2>5
      <3>3. out.maxRepetitions > 0
        BY <2>3, <2>5
      <3>4. out.walkMaxOIDs > 0
        BY <2>3, <2>5
      <3> QED
        BY <3>1, <3>2, <3>3, <3>4 DEF BoundsSet
    <2> QED
      BY <2>6 DEF out
  <1> QED
    BY <1>1, <1>2

LEMMA loadSNMPLoads ==
  ASSUME NEW file, IsFile("snmp", file), loadSNMP(file).ok
  PROVE  /\ Fits("snmp", loadSNMP(file).table)
         /\ Resolves(loadSNMP(file).table) /\ Numbered(loadSNMP(file).table)
  <1> DEFINE table == loadSNMP(file).table
             checked(c) == validateSNMPAuth(c.auth)
             kept(c) == [auth |-> c.auth]
             creds == LoadEntries(file.credentials, checked, kept)
             valid(d) == /\ d.host
                         /\ (d.credential # 0) # (d.auth # NoAuth)
                         /\ IF d.credential # 0 THEN d.credential \in DOMAIN creds.table
                            ELSE validateSNMPAuth(d.auth)
             normal(d) == [d EXCEPT !.port = OrElse(@, 161)]
             devs == LoadEntries(file.devices, valid, normal)
             none == [credentials |-> NoTable, devices |-> NoTable, defaults |-> DefaultSNMP]
             new == [credentials |-> creds.table, devices |-> devs.table,
                     defaults |-> applySNMPDefaults(file.defaults)]
  <1>1. /\ file.credentials \in Seq(Range(file.credentials))
        /\ file.devices \in Seq(Range(file.devices))
        /\ \A d \in Range(file.devices) : IsDevice(d)
        /\ file.defaults \in SNMPDefaults
    BY DEF IsFile, SNMPDefaults
  <1>2. loadSNMP(file) = IF file.state = "missing" THEN Loaded(none)
                         ELSE IF file.state # "present" \/ ~creds.ok \/ ~devs.ok THEN Failed
                         ELSE Loaded(new)
    BY DEF loadSNMP
  <1>3. CASE file.state = "missing"
    <2>1. table = none
      BY <1>2, <1>3, LoadedIs
    <2>2. table.devices = NoTable /\ table.defaults = DefaultSNMP
      BY <2>1
    <2> HIDE DEF table, none
    <2>3. Resolves(table) /\ Numbered(table)
      BY <2>2, FS_EmptySet DEF Resolves, Numbered, NoTable
    <2>4. Fits("snmp", table)
      BY <2>2, DefaultsAreSet DEF Fits
    <2> QED
      BY <2>3, <2>4 DEF table
  <1>4. CASE file.state # "missing"
    <2>1. table = new /\ creds.ok /\ devs.ok
      BY <1>2, <1>4, LoadedIs
    <2> HIDE DEF table, checked, kept, creds, valid, normal, devs
    <2>2. /\ table.credentials = creds.table /\ table.devices = devs.table
          /\ table.defaults = applySNMPDefaults(file.defaults)
      BY <2>1
    <2> HIDE DEF new
    <2>3. LoadsTo(file.credentials, checked, kept, creds)
      BY <1>1, LenProperties, LoadEntriesLoads DEF creds
    <2>4. ASSUME NEW c \in DOMAIN creds.table PROVE validateSNMPAuth(creds.table[c].auth)
      <3>1. PICK i \in 1..Len(file.credentials) :
              creds.table[c] = kept(file.credentials[i]) /\ checked(file.credentials[i])
        BY <2>1, <2>3 DEF LoadsTo, LoadedOf
      <3> QED
        BY <3>1 DEF kept, checked
    <2>5. ASSUME NEW d, IsDevice(d)
          PROVE  normal(d).credential = d.credential /\ normal(d).auth = d.auth
      BY <2>5 DEF IsDevice, normal
    <2>6. LoadsTo(file.devices, valid, normal, devs)
      BY <1>1, LenProperties, LoadEntriesLoads DEF devs
    <2>7. ASSUME NEW n \in DOMAIN devs.table PROVE validateSNMPAuth(AuthIn(table, devs.table[n]))
      <3>1. PICK i \in 1..Len(file.devices) :
              devs.table[n] = normal(file.devices[i]) /\ valid(file.devices[i])
        BY <2>1, <2>6 DEF LoadsTo, LoadedOf
      <3> DEFINE d == file.devices[i]
      <3>2. IsDevice(d)
        BY <1>1, LenProperties DEF Range
      <3>3. devs.table[n].credential = d.credential /\ devs.table[n].auth = d.auth
        BY <2>5, <3>1, <3>2
      <3>4. IF d.credential # 0 THEN d.credential \in DOMAIN creds.table ELSE validateSNMPAuth(d.auth)
        BY <3>1 DEF valid
      <3> HIDE DEF d
      <3> QED
        BY <2>2, <2>4, <3>3, <3>4 DEF AuthIn
    <2>8. Resolves(table)
      BY <2>2, <2>7 DEF Resolves
    <2>9. Fits("snmp", table)
      BY <1>1, <2>2, DefaultsAreSet DEF Fits
    <2>10. Numbered(table)
      <3>1. Len(file.devices) \in Nat /\ \A i \in 1..Len(file.devices) : file.devices[i].name \in Nat
        BY <1>1, LenProperties DEF Range, IsDevice
      <3>2. DOMAIN devs.table = NamesIn(file.devices, 1..Len(file.devices))
        BY <2>1, <2>6 DEF LoadsTo, LoadedOf, NamesIn
      <3>3. NamesIn(file.devices, 1..Len(file.devices)) \in SUBSET Nat
        BY <3>1 DEF NamesIn
      <3> QED
        BY <2>2, <3>1, <3>2, <3>3, NamesFinite DEF Numbered
    <2> QED
      BY <2>8, <2>9, <2>10 DEF table
  <1> QED
    BY <1>3, <1>4

-----------------------------------------------------------------------------
(* What is true of a table that was made of a file.                        *)
Made(f, file, table) ==
  /\ f # "snmp" => Exact(f, file.entries, table)
  /\ Fits(f, table)
  /\ f = "snmp" => Resolves(table) /\ Numbered(table)

LEMMA LoadFileMakes ==
  ASSUME NEW f \in FileSet, NEW file, IsFile(f, file), LoadFile(f, file).ok
  PROVE  Made(f, file, LoadFile(f, file).table)
  <1>1. f \in {"hosts", "databases", "redis", "kafka", "apis", "commands", "snmp"}
    BY DEF FileSet, Files
  <1>2. CASE f = "hosts"
    <2>1. LoadFile(f, file) = loadHosts(file)
      BY <1>2 DEF LoadFile
    <2> QED
      BY <1>2, <2>1, loadHostsLoads DEF Made, Fits
  <1>3. CASE f = "databases"
    <2>1. LoadFile(f, file) = loadDatabases(file)
      BY <1>3 DEF LoadFile
    <2> QED
      BY <1>3, <2>1, loadDatabasesLoads DEF Made
  <1>4. CASE f = "redis"
    <2>1. LoadFile(f, file) = loadRedis(file)
      BY <1>4 DEF LoadFile
    <2> QED
      BY <1>4, <2>1, loadRedisLoads DEF Made
  <1>5. CASE f = "kafka"
    <2>1. LoadFile(f, file) = loadKafka(file)
      BY <1>5 DEF LoadFile
    <2> QED
      BY <1>5, <2>1, loadKafkaLoads DEF Made
  <1>6. CASE f = "apis"
    <2>1. LoadFile(f, file) = loadAPIs(file)
      BY <1>6 DEF LoadFile
    <2> QED
      BY <1>6, <2>1, loadAPIsLoads DEF Made
  <1>7. CASE f = "commands"
    <2>1. LoadFile(f, file) = loadCommands(file)
      BY <1>7 DEF LoadFile
    <2> QED
      BY <1>7, <2>1, loadCommandsLoads DEF Made
  <1>8. CASE f = "snmp"
    <2>1. LoadFile(f, file) = loadSNMP(file)
      BY <1>8 DEF LoadFile
    <2> QED
      BY <1>8, <2>1, loadSNMPLoads DEF Made
  <1> QED
    BY <1>1, <1>2, <1>3, <1>4, <1>5, <1>6, <1>7, <1>8

-----------------------------------------------------------------------------
(* A table of f that was read after edit k is what the loader makes of the *)
(* file as it was then.                                                    *)
ReadAfter(f, table, k) ==
  /\ k \in 0..Len(edits)
  /\ k # 0 => edits[k].file = f
  /\ LoadFile(f, ContentAt(f, k)).ok
  /\ table = LoadFile(f, ContentAt(f, k)).table

EditsBounded == Len(edits) <= MaxEdits
EditsOfFiles == \A k \in 1..Len(edits) : edits[k].content \in Contents[edits[k].file]
TablesRead == \A f \in FileSet : ReadAfter(f, tables[f], installed[f])
StagedRead(r) ==
  \A i \in 1..Len(staged[r]) : ReadAfter(Files[i], staged[r][i].table, staged[r][i].edit)

RInv == EditsBounded /\ EditsOfFiles /\ TablesRead /\ \A r \in Reloaders : StagedRead(r)

LEMMA InitRInv == Init => RInv
  <1> SUFFICES ASSUME Init PROVE RInv
    OBVIOUS
  <1>1. edits = <<>> /\ Len(edits) = 0 /\ 1..0 = {} /\ MaxEdits \in Nat
    BY ConfigAssumption DEF Init
  <1>2. ASSUME NEW f \in FileSet PROVE ReadAfter(f, tables[f], installed[f])
    <2>1. LoadFile(f, Initial[f]).ok /\ tables[f] = LoadFile(f, Initial[f]).table /\ installed[f] = 0
      BY DEF Init
    <2> QED
      BY <1>1, <2>1 DEF ReadAfter, ContentAt
  <1>3. \A r \in Reloaders : Len(staged[r]) = 0
    BY DEF Init
  <1>4. EditsBounded
    BY <1>1 DEF EditsBounded
  <1> QED
    BY <1>1, <1>2, <1>3, <1>4 DEF RInv, EditsOfFiles, TablesRead, StagedRead

(* What was read stays what it was when an edit is added.                  *)
LEMMA ReadStays ==
  ASSUME edits \in Seq(EditType), NEW e, edits' = Append(edits, e),
         NEW f, NEW table, NEW k, ReadAfter(f, table, k)
  PROVE  ReadAfter(f, table, k)'
  <1>1. k \in 0..Len(edits) /\ Len(edits) \in Nat /\ Len(edits') = Len(edits) + 1
    BY DEF ReadAfter
  <1>2. k # 0 => edits'[k] = edits[k]
    BY <1>1
  <1>3. ContentAt(f, k)' = ContentAt(f, k)
    BY <1>2 DEF ContentAt
  <1>4. k \in 0..Len(edits')
    BY <1>1
  <1> QED
    BY <1>2, <1>3, <1>4 DEF ReadAfter

LEMMA EditRInv == ASSUME IInv, RInv, Edit PROVE RInv'
  <1>1. PICK f \in FileSet : \E c \in Contents[f] : edits' = Append(edits, [file |-> f, content |-> c])
    BY DEF Edit
  <1>2. PICK c \in Contents[f] : edits' = Append(edits, [file |-> f, content |-> c])
    BY <1>1
  <1> DEFINE e == [file |-> f, content |-> c]
  <1>3. edits \in Seq(EditType) /\ edits' = Append(edits, e) /\ e.content \in Contents[e.file]
    BY <1>2 DEF IInv
  <1> HIDE DEF e
  <1>4. UNCHANGED <<tables, installed, staged>> /\ Len(edits) < MaxEdits
    BY DEF Edit
  <1>5. Len(edits) \in Nat /\ Len(edits') = Len(edits) + 1
    BY <1>3
  <1>6. EditsBounded'
    BY <1>4, <1>5, ConfigAssumption DEF EditsBounded
  <1>7. EditsOfFiles'
    <2> SUFFICES ASSUME NEW k \in 1..Len(edits') PROVE edits'[k].content \in Contents[edits'[k].file]
      BY DEF EditsOfFiles
    <2>1. CASE k \in 1..Len(edits)
      <3>1. edits'[k] = edits[k]
        BY <1>3, <2>1
      <3> QED
        BY <2>1, <3>1 DEF RInv, EditsOfFiles
    <2>2. CASE k = Len(edits) + 1
      <3>1. edits'[k] = e
        BY <1>3, <1>5, <2>2
      <3> QED
        BY <1>3, <3>1
    <2> QED
      BY <1>5, <2>1, <2>2
  <1>8. ASSUME NEW g \in FileSet PROVE ReadAfter(g, tables[g], installed[g])'
    <2>1. ReadAfter(g, tables[g], installed[g])
      BY DEF RInv, TablesRead
    <2> DEFINE t == tables[g]
               k == installed[g]
    <2>2. t' = t /\ k' = k
      BY <1>4
    <2> HIDE DEF t, k
    <2>3. ReadAfter(g, t, k)'
      BY <1>3, <2>1, <2>2, ReadStays DEF ReadAfter, t, k
    <2> QED
      BY <2>3 DEF t, k
  <1>9. ASSUME NEW r \in Reloaders, NEW i \in 1..Len(staged'[r])
        PROVE  ReadAfter(Files[i], staged[r][i].table, staged[r][i].edit)'
    <2> DEFINE g == Files[i]
               t == staged[r][i].table
               k == staged[r][i].edit
    <2>1. ReadAfter(g, t, k)
      BY <1>4 DEF RInv, StagedRead
    <2>2. t' = t /\ k' = k
      BY <1>4
    <2> HIDE DEF t, k, g
    <2>3. ReadAfter(g, t, k)'
      BY <1>3, <2>1, <2>2, ReadStays DEF ReadAfter
    <2> QED
      BY <2>3 DEF t, k, g
  <1> QED
    BY <1>6, <1>7, <1>8, <1>9 DEF RInv, TablesRead, StagedRead

(* Without an edit, what was read of any file stays.                       *)
LEMMA ReadUnchanged ==
  ASSUME UNCHANGED edits, NEW f, NEW table, NEW k, ReadAfter(f, table, k)
  PROVE  ReadAfter(f, table, k)'
  BY DEF ReadAfter, ContentAt

LEMMA ReadRInv == ASSUME IInv, RInv, NEW r \in Reloaders, ReadFile(r) PROVE RInv'
  <1> DEFINE m == Len(staged[r])
             f == Files[m + 1]
             k == LastEdit(f)
             result == LoadFile(f, ContentAt(f, k))
             e == [table |-> result.table, edit |-> k]
  <1>1. /\ staged[r] \in Seq(StagedType) /\ m \in Nat /\ m < Len(Files) /\ f \in FileSet
        /\ edits \in Seq(EditType) /\ staged \in [Reloaders -> Seq(StagedType)]
    BY DEF IInv, RequestInv, PhaseOf, ReadFile, Files, FileSet
  <1>2. UNCHANGED <<edits, tables, installed>>
    BY DEF ReadFile
  <1>3. EditsBounded' /\ EditsOfFiles' /\ TablesRead'
    BY <1>2, ReadUnchanged DEF RInv, EditsBounded, EditsOfFiles, TablesRead, ReadAfter, ContentAt
  <1>4. ASSUME NEW q \in Reloaders, UNCHANGED staged[q] PROVE StagedRead(q)'
    BY <1>2, <1>4 DEF RInv, StagedRead, ReadAfter, ContentAt
  <1>5. CASE result.ok
    <2>1. k \in 0..Len(edits) /\ (k # 0 => edits[k].file = f)
      BY <1>1, LastEditIs
    <2>2. e.table = result.table /\ e.edit = k
      OBVIOUS
    <2>3. staged' = [staged EXCEPT ![r] = Append(@, e)]
      BY <1>5 DEF ReadFile
    <2>4. ReadAfter(f, e.table, e.edit)
      BY <1>5, <2>1, <2>2 DEF ReadAfter
    <2> HIDE DEF e, result, k
    <2>5. /\ staged'[r] = Append(staged[r], e)
          /\ \A q \in Reloaders \ {r} : UNCHANGED staged[q]
      BY <1>1, <2>3
    <2>6. /\ Len(staged'[r]) = m + 1 /\ staged'[r][m + 1] = e
          /\ \A i \in 1..m : staged'[r][i] = staged[r][i]
      BY <1>1, <2>5
    <2>7. ASSUME NEW i \in 1..m + 1 PROVE ReadAfter(Files[i], staged'[r][i].table, staged'[r][i].edit)
      <3>1. CASE i = m + 1
        BY <2>4, <2>6, <3>1
      <3>2. CASE i \in 1..m
        BY <2>6, <3>2 DEF RInv, StagedRead
      <3> QED
        BY <1>1, <3>1, <3>2
    <2>8. StagedRead(r)'
      BY <1>2, <2>6, <2>7 DEF StagedRead, ReadAfter, ContentAt
    <2> QED
      BY <1>3, <1>4, <2>5, <2>8 DEF RInv
  <1>6. CASE ~result.ok
    <2>1. staged' = [staged EXCEPT ![r] = <<>>]
      BY <1>6 DEF ReadFile
    <2>2. staged'[r] = <<>> /\ \A q \in Reloaders \ {r} : UNCHANGED staged[q]
      BY <1>1, <2>1
    <2>3. StagedRead(r)'
      BY <2>2 DEF StagedRead
    <2> QED
      BY <1>3, <1>4, <2>2, <2>3 DEF RInv
  <1> QED
    BY <1>5, <1>6

LEMMA InstallRInv == ASSUME IInv, RInv, NEW r \in Reloaders, Install(r) PROVE RInv'
  <1>1. /\ pc[r] = "install" /\ Len(staged[r]) = Len(Files) /\ UNCHANGED edits
        /\ tables' = [f \in FileSet |-> staged[r][Place(f)].table]
        /\ installed' = [f \in FileSet |-> staged[r][Place(f)].edit]
        /\ staged' = [staged EXCEPT ![r] = <<>>]
        /\ staged \in [Reloaders -> Seq(StagedType)]
    BY DEF Install, Place, IInv, RequestInv, PhaseOf
  <1>2. EditsBounded' /\ EditsOfFiles'
    BY <1>1 DEF RInv, EditsBounded, EditsOfFiles
  <1>3. ASSUME NEW f \in FileSet PROVE ReadAfter(f, tables'[f], installed'[f])
    <2>1. Place(f) \in 1..Len(staged[r]) /\ Files[Place(f)] = f
      BY <1>1, FilePlaces
    <2>2. ReadAfter(f, staged[r][Place(f)].table, staged[r][Place(f)].edit)
      BY <2>1 DEF RInv, StagedRead
    <2> QED
      BY <1>1, <2>2
  <1>4. TablesRead'
    BY <1>1, <1>3 DEF TablesRead, ReadAfter, ContentAt
  <1>5. staged'[r] = <<>> /\ \A q \in Reloaders \ {r} : UNCHANGED staged[q]
    BY <1>1
  <1>6. StagedRead(r)'
    BY <1>5 DEF StagedRead
  <1>7. ASSUME NEW q \in Reloaders \ {r} PROVE StagedRead(q)'
    BY <1>1, <1>5 DEF RInv, StagedRead, ReadAfter, ContentAt
  <1> QED
    BY <1>2, <1>4, <1>6, <1>7 DEF RInv

LEMMA SpecRInv == Spec => [](IInv /\ RInv)
  <1>1. IInv /\ RInv /\ [Next]_vars => RInv'
    <2> SUFFICES ASSUME IInv, RInv, [Next]_vars PROVE RInv'
      OBVIOUS
    <2>1. CASE UNCHANGED <<edits, tables, installed, staged>>
      BY <2>1 DEF RInv, EditsBounded, EditsOfFiles, TablesRead, StagedRead, ReadAfter, ContentAt
    <2>2. \A r \in Reloaders : BeginReload(r) => RInv'
      BY <2>1 DEF BeginReload
    <2> QED
      BY <2>1, <2>2, EditRInv, ReadRInv, InstallRInv DEF Next, vars
  <1> QED
    BY <1>1, InitRInv, SpecIInv, PTL DEF Spec

(* Each table of the process was made of a file.                           *)
LEMMA TablesMade ==
  ASSUME IInv, RInv, NEW f \in FileSet
  PROVE  Made(f, ContentAt(f, installed[f]), tables[f])
  <1>1. ReadAfter(f, tables[f], installed[f])
    BY DEF RInv, TablesRead
  <1>2. IsFile(f, ContentAt(f, installed[f]))
    <2>1. CASE installed[f] = 0
      BY <2>1, ContentsAssumption DEF ContentAt
    <2>2. CASE installed[f] # 0
      <3>1. installed[f] \in 1..Len(edits) /\ edits[installed[f]].file = f
        <4>1. Len(edits) \in Nat
          BY DEF IInv
        <4> QED
          BY <1>1, <2>2, <4>1 DEF ReadAfter
      <3>2. edits[installed[f]].content \in Contents[f]
        BY <3>1 DEF RInv, EditsOfFiles
      <3> QED
        BY <2>2, <3>2, ContentsAssumption DEF ContentAt
    <2> QED
      BY <2>1, <2>2
  <1> QED
    BY <1>1, <1>2, LoadFileMakes DEF ReadAfter

(* The tables hold what the connectors count on, whatever the files say.   *)
THEOREM TypeOKHolds == Spec => []TypeOK
  <1>1. IInv /\ RInv => TypeOK
    <2> SUFFICES ASSUME IInv, RInv PROVE TypeOK
      OBVIOUS
    <2>1. \A f \in FileSet : Fits(f, tables[f])
      BY TablesMade DEF Made
    <2>2. {"databases", "redis", "kafka", "apis", "commands", "snmp"} \subseteq FileSet
      BY DEF FileSet, Files
    <2>3. /\ \A f \in {"databases", "redis", "kafka"} :
               \A n \in DOMAIN tables[f] : tables[f][n].limit > 0
          /\ \A n \in DOMAIN tables["redis"] : tables["redis"][n].port # 0
          /\ \A n \in DOMAIN tables["kafka"] : tables["kafka"][n].brokers > 0
          /\ \A n \in DOMAIN tables["apis"] :
               tables["apis"][n].path = "text" /\ tables["apis"][n].baseURL = "text"
          /\ \A n \in DOMAIN tables["commands"] : Available(tables["commands"][n].path)
          /\ BoundsSet(tables["snmp"].defaults)
      BY <2>1, <2>2 DEF Fits
    <2>4. \A f \in FileSet : installed[f] \in 0..Len(edits)
      BY DEF RInv, TablesRead, ReadAfter
    <2>5. pc \in [Reloaders -> {"idle", "read", "install"}] /\ Len(edits) <= MaxEdits
      BY DEF IInv, RInv, EditsBounded
    <2>6. \A r \in Reloaders : PhaseOf(pc[r], staged[r])
      BY DEF IInv, RequestInv
    <2> QED
      BY <2>3, <2>4, <2>5, <2>6 DEF TypeOK, PhaseOf
  <1> QED
    BY <1>1, SpecRInv, PTL

(* No entry of a file that was loaded is lost or replaced by another, and  *)
(* nothing else is in its table, whatever the files hold and whatever      *)
(* reloads overlap.                                                        *)
THEOREM LoadExactHolds == Spec => []LoadExact
  <1>1. IInv /\ RInv => LoadExact
    <2> SUFFICES ASSUME IInv, RInv, NEW f \in FileSet \ {"snmp"}
                 PROVE  Exact(f, ContentAt(f, installed[f]).entries, tables[f])
      BY DEF LoadExact, Exact, KeptOf, NamesIn
    <2> QED
      BY TablesMade DEF Made
  <1> QED
    BY <1>1, SpecRInv, PTL

(* Each device of the table has an authentication that suffices, at every  *)
(* moment: credentials and devices are replaced together.                  *)
THEOREM CredentialsResolveHolds == Spec => []CredentialsResolve
  <1>1. IInv /\ RInv => CredentialsResolve
    <2> SUFFICES ASSUME IInv, RInv, NEW n \in DOMAIN devices
                 PROVE  validateSNMPAuth(ResolveSNMPAuth(n))
      BY DEF CredentialsResolve
    <2>1. "snmp" \in FileSet
      BY DEF FileSet, Files
    <2>2. Resolves(tables["snmp"])
      BY <2>1, TablesMade DEF Made
    <2>3. ResolveSNMPAuth(n) = AuthIn(tables["snmp"], tables["snmp"].devices[n])
      BY DEF ResolveSNMPAuth, AuthIn, devices
    <2> QED
      BY <2>2, <2>3 DEF Resolves, devices
  <1> QED
    BY <1>1, SpecRInv, PTL

-----------------------------------------------------------------------------
(* The names of a finite set in their order: each has as many before it as *)
(* are smaller.                                                            *)
Below(S, n) == {m \in S : m < n}

Increasing(s) == \A i, j \in DOMAIN s : i < j => s[i] < s[j]

LEMMA BelowCounts ==
  ASSUME NEW S \in SUBSET Nat, IsFiniteSet(S)
  PROVE  /\ \A n \in S : Cardinality(Below(S, n)) \in 0..Cardinality(S) - 1
         /\ \A m, n \in S : m < n => Cardinality(Below(S, m)) < Cardinality(Below(S, n))
  <1>0. /\ Cardinality(S) \in Nat
        /\ \A T \in SUBSET S : IsFiniteSet(T) /\ Cardinality(T) \in Nat /\ Cardinality(T) <= Cardinality(S)
    BY FS_Subset, FS_CardinalityType
  <1>1. ASSUME NEW n \in S PROVE Cardinality(Below(S, n)) \in 0..Cardinality(S) - 1
    <2>1. Below(S, n) \in SUBSET S /\ n \notin Below(S, n)
      BY DEF Below
    <2>2. Cardinality(Below(S, n)) # Cardinality(S)
      BY <2>1, FS_Subset
    <2> QED
      BY <1>0, <2>1, <2>2
  <1>2. ASSUME NEW m \in S, NEW n \in S, m < n
        PROVE  Cardinality(Below(S, m)) < Cardinality(Below(S, n))
    <2>0. \A k \in S : k \in Nat
      OBVIOUS
    <2>1. Below(S, m) \in SUBSET Below(S, n) /\ m \in Below(S, n) /\ m \notin Below(S, m)
      <3>1. m \in Below(S, n) /\ m \notin Below(S, m)
        BY <1>2, <2>0 DEF Below
      <3>2. ASSUME NEW k \in Below(S, m) PROVE k \in Below(S, n)
        <4>1. k \in S /\ k < m
          BY DEF Below
        <4>2. k \in Nat /\ m \in Nat /\ n \in Nat
          BY <2>0, <4>1
        <4>3. k < n
          BY <1>2, <4>1, <4>2
        <4> QED
          BY <4>1, <4>3 DEF Below
      <3> QED
        BY <3>1, <3>2
    <2>2. Below(S, m) \in SUBSET S /\ Below(S, n) \in SUBSET S
      BY DEF Below
    <2>3. /\ Cardinality(Below(S, m)) <= Cardinality(Below(S, n))
          /\ Cardinality(Below(S, m)) # Cardinality(Below(S, n))
      <3>1. IsFiniteSet(Below(S, n)) /\ Below(S, m) # Below(S, n)
        BY <1>0, <2>1, <2>2
      <3> QED
        BY <2>1, <3>1, FS_Subset
    <2>4. Cardinality(Below(S, m)) \in Nat /\ Cardinality(Below(S, n)) \in Nat
      BY <1>0, <2>2
    <2> QED
      BY <2>3, <2>4
  <1> QED
    BY <1>1, <1>2

LEMMA OrderExists ==
  ASSUME NEW S \in SUBSET Nat, IsFiniteSet(S)
  PROVE  \E s \in [1..Cardinality(S) -> S] : Increasing(s)
  <1> DEFINE N == Cardinality(S)
             f == [n \in S |-> Cardinality(Below(S, n)) + 1]
             s == [i \in 1..N |-> CHOOSE n \in S : f[n] = i]
  <1>0. N \in Nat
    BY FS_CardinalityType
  <1>1. \A n \in S : f[n] \in 1..N
    <2> SUFFICES ASSUME NEW n \in S PROVE Cardinality(Below(S, n)) + 1 \in 1..N
      OBVIOUS
    <2>1. Cardinality(Below(S, n)) \in 0..N - 1
      BY BelowCounts
    <2> HIDE DEF N
    <2> QED
      BY <1>0, <2>1
  <1>2. \A m, n \in S : m < n => f[m] < f[n]
    <2> SUFFICES ASSUME NEW m \in S, NEW n \in S, m < n
                 PROVE  Cardinality(Below(S, m)) + 1 < Cardinality(Below(S, n)) + 1
      OBVIOUS
    <2>1. /\ Cardinality(Below(S, m)) \in 0..N - 1 /\ Cardinality(Below(S, n)) \in 0..N - 1
          /\ Cardinality(Below(S, m)) < Cardinality(Below(S, n))
      BY BelowCounts
    <2> HIDE DEF N
    <2> QED
      BY <1>0, <2>1
  <1>3. \A m, n \in S : f[m] = f[n] => m = n
    <2> SUFFICES ASSUME NEW m \in S, NEW n \in S, m # n PROVE f[m] # f[n]
      OBVIOUS
    <2>1. f[m] < f[n] \/ f[n] < f[m]
      BY <1>2
    <2>2. f[m] \in Int /\ f[n] \in Int
      BY <1>1
    <2> HIDE DEF f
    <2> QED
      BY <2>1, <2>2
  <1>4. f \in Injection(S, 1..N)
    <2>1. f \in [S -> 1..N]
      BY <1>1
    <2> HIDE DEF f, N
    <2> QED
      BY <1>3, <2>1 DEF Injection, IsInjective
  <1>5. IsFiniteSet(1..N) /\ Cardinality(1..N) = N
    <2> HIDE DEF N
    <2> QED
      BY <1>0, FS_Interval
  <1>6. f \in Surjection(S, 1..N)
    <2>1. Cardinality(S) = Cardinality(1..N)
      BY <1>5
    <2> HIDE DEF f, N
    <2> QED
      BY <1>4, <1>5, <2>1, FS_Injection
  <1>7. \A i \in 1..N : \E n \in S : f[n] = i
    <2> HIDE DEF f, N
    <2> QED
      BY <1>6 DEF Surjection
  <1> HIDE DEF f
  <1>8. \A i \in 1..N : s[i] \in S /\ f[s[i]] = i
    BY <1>7
  <1>9. \A i, j \in 1..N : i < j => s[i] < s[j]
    <2> SUFFICES ASSUME NEW i \in 1..N, NEW j \in 1..N, i < j, ~(s[i] < s[j]) PROVE FALSE
      OBVIOUS
    <2>1. s[i] \in Nat /\ s[j] \in Nat /\ s[i] \in S /\ s[j] \in S /\ f[s[i]] = i /\ f[s[j]] = j
      BY <1>8
    <2> HIDE DEF s
    <2>2. s[i] # s[j]
      BY <2>1
    <2>3. s[j] < s[i]
      BY <2>1, <2>2
    <2>4. j < i
      BY <1>2, <2>1, <2>3
    <2> QED
      BY <1>0, <2>4
  <1>10. s \in [1..N -> S] /\ DOMAIN s = 1..N
    BY <1>8
  <1> HIDE DEF s
  <1> QED
    BY <1>9, <1>10 DEF Increasing

LEMMA InOrderIs ==
  ASSUME NEW S \in SUBSET Nat, IsFiniteSet(S)
  PROVE  /\ InOrder(S) \in [1..Cardinality(S) -> S] /\ Increasing(InOrder(S))
         /\ \A n \in S : \E i \in 1..Cardinality(S) : InOrder(S)[i] = n
         /\ \A i \in 1..Cardinality(S) : Cardinality(Below(S, InOrder(S)[i])) = i - 1
  <1> DEFINE N == Cardinality(S)
             s == InOrder(S)
  <1>0. N \in Nat
    BY FS_CardinalityType
  <1>1. s \in [1..N -> S] /\ Increasing(s)
    BY OrderExists DEF InOrder, Increasing
  <1> HIDE DEF s
  <1>2. \A i \in 1..N : s[i] \in S /\ s[i] \in Nat
    BY <1>1
  <1>3. \A i, j \in 1..N : (i < j => s[i] < s[j]) /\ (s[i] = s[j] => i = j)
    <2> SUFFICES ASSUME NEW i \in 1..N, NEW j \in 1..N
                 PROVE  (i < j => s[i] < s[j]) /\ (s[i] = s[j] => i = j)
      OBVIOUS
    <2>1. (i < j => s[i] < s[j]) /\ (j < i => s[j] < s[i])
      BY <1>1 DEF Increasing
    <2> QED
      BY <1>0, <1>2, <2>1
  <1>4. s \in Injection(1..N, S)
    <2> HIDE DEF N
    <2> QED
      BY <1>1, <1>3 DEF Injection, IsInjective
  <1>5. IsFiniteSet(1..N) /\ Cardinality(1..N) = N
    <2> HIDE DEF N
    <2> QED
      BY <1>0, FS_Interval
  <1>6. s \in Surjection(1..N, S)
    BY <1>4, <1>5, FS_Injection
  <1>7. \A n \in S : \E i \in 1..N : s[i] = n
    BY <1>6 DEF Surjection
  <1>8. ASSUME NEW i \in 1..N PROVE Cardinality(Below(S, s[i])) = i - 1
    <2> DEFINE f == [j \in 1..i - 1 |-> s[j]]
    <2>0. i - 1 \in Nat /\ 1..i - 1 \in SUBSET (1..N) /\ \A j \in 1..N : j \in 1..i - 1 <=> j < i
      BY <1>0
    <2> HIDE DEF N
    <2>1. \A j \in 1..N : s[j] \in Below(S, s[i]) <=> j \in 1..i - 1
      <3> SUFFICES ASSUME NEW j \in 1..N PROVE s[j] < s[i] <=> j < i
          BY <1>2, <2>0 DEF Below
      <3>1. (j < i => s[j] < s[i]) /\ (i < j => s[i] < s[j]) /\ s[i] \in Nat /\ s[j] \in Nat
        BY <1>2, <1>3
      <3>2. j = i => ~(s[j] < s[i])
        BY <3>1
      <3> QED
        BY <1>0, <3>1, <3>2
    <2>2. \A n \in Below(S, s[i]) : \E j \in 1..i - 1 : s[j] = n
      BY <1>7, <2>1 DEF Below
    <2>3. f \in Bijection(1..i - 1, Below(S, s[i]))
      BY <1>3, <2>0, <2>1, <2>2 DEF Bijection, Injection, Surjection, IsInjective
    <2>4. ExistsBijection(1..i - 1, Below(S, s[i]))
      BY <2>3 DEF ExistsBijection
    <2> QED
      BY <2>0, <2>4, FS_CountingElements
  <1> QED
    BY <1>1, <1>7, <1>8 DEF s

(* A page of devices.                                                      *)
PageOf(S, limit, from, result) ==
  /\ ~result.panics
  /\ \A i, j \in DOMAIN result.page : i < j => result.page[i] < result.page[j]
  /\ Range(result.page) = {n \in S : Cardinality(Below(S, n)) \in from..from + limit - 1}

Matching(want) == {n \in DOMAIN devices : labelsMatch(devices[n].labels, want)}

LEMMA PageIs ==
  ASSUME DOMAIN devices \in SUBSET Nat, IsFiniteSet(DOMAIN devices),
         NEW want, NEW limit \in 1..MaxInt, NEW from \in 0..MaxInt - limit
  PROVE  PageOf(Matching(want), limit, from, ListSNMPDeviceSummaries(want, limit, from))
  <1> DEFINE S == Matching(want)
             N == Cardinality(S)
             out == InOrder(S)
             result == ListSNMPDeviceSummaries(want, limit, from)
             end == IF from + limit > N THEN N ELSE from + limit
  <1>1. S \in SUBSET Nat /\ IsFiniteSet(S)
    BY FS_Subset DEF Matching
  <1>2. MaxInt \in Int /\ limit \in Nat /\ limit > 0 /\ from \in Nat /\ from + limit <= MaxInt
    BY ConfigAssumption
  <1>3. N \in Nat
    BY <1>1, FS_CardinalityType
  <1>4. /\ out \in [1..N -> S] /\ Increasing(out)
        /\ \A n \in S : \E i \in 1..N : out[i] = n
        /\ \A i \in 1..N : Cardinality(Below(S, out[i])) = i - 1
    BY <1>1, InOrderIs
  <1>5. /\ out \in Seq(S) /\ Len(out) = N /\ DOMAIN out = 1..N
    BY <1>3, <1>4
  <1>6. Wrap(from + limit) = from + limit /\ PositiveOr(limit, DefaultListLimit) = limit /\ ~(from < 0)
    BY <1>2 DEF Wrap, PositiveOr
  <1> HIDE DEF N, S
  <1>7. result = IF from >= Len(out) THEN [panics |-> FALSE, page |-> <<>>]
                 ELSE IF end < from THEN [panics |-> TRUE, page |-> <<>>]
                 ELSE [panics |-> FALSE, page |-> SubSeq(out, from + 1, end)]
    BY <1>5, <1>6 DEF ListSNMPDeviceSummaries, S, Matching
  <1> HIDE DEF result, out
  <1>8. CASE from >= N
    <2>1. ~result.panics /\ result.page = <<>>
      BY <1>5, <1>7, <1>8
    <2>2. Range(<<>>) = {} /\ DOMAIN <<>> = {}
      BY DEF Range
    <2>3. \A n \in S : Cardinality(Below(S, n)) \in 0..N - 1
      BY <1>1, BelowCounts DEF N
    <2>4. \A n \in S : Cardinality(Below(S, n)) \notin from..from + limit - 1
      BY <1>2, <1>3, <1>8, <2>3
    <2> QED
      BY <2>1, <2>2, <2>4 DEF PageOf, S, result
  <1>9. CASE from < N
    <2>1. end \in from + 1..N /\ end <= from + limit
      BY <1>2, <1>3, <1>9
    <2>2. \A i \in 1..N : from + 1 <= i /\ i <= end <=> i - 1 \in from..from + limit - 1
      BY <1>2, <1>3, <1>9
    <2> HIDE DEF end
    <2>3. ~result.panics /\ result.page = SubSeq(out, from + 1, end)
      BY <1>2, <1>3, <1>5, <1>7, <1>9, <2>1
    <2> DEFINE page == SubSeq(out, from + 1, end)
               L == end - from
    <2>4. L \in 1..N /\ \A i \in 1..L : i + from \in 1..N /\ from + 1 <= i + from /\ i + from <= end
      BY <1>2, <1>3, <1>9, <2>1
    <2>5. /\ DOMAIN page = 1..L /\ \A i \in 1..L : page[i] = out[i + from]
      <3>0. /\ from + 1 \in 1..Len(out) + 1 /\ end \in from + 1 - 1..Len(out)
            /\ end - (from + 1) + 1 = L /\ from + 1 <= end + 1
        BY <1>2, <1>3, <1>5, <1>9, <2>1
      <3> HIDE DEF L
      <3>1. Len(page) = L /\ page \in Seq(S) /\ \A i \in 1..L : page[i] = out[from + 1 + i - 1]
        BY <1>5, <3>0, SubSeqProperties
      <3>2. DOMAIN page = 1..L
        BY <3>1
      <3>3. \A i \in 1..L : from + 1 + i - 1 = i + from
        BY <1>2
      <3> QED
        BY <3>1, <3>2, <3>3
    <2> HIDE DEF page, L
    <2>6. \A i, j \in DOMAIN page : i < j => page[i] < page[j]
      <3> SUFFICES ASSUME NEW i \in 1..L, NEW j \in 1..L, i < j PROVE out[i + from] < out[j + from]
        BY <2>5
      <3>1. i + from \in 1..N /\ j + from \in 1..N /\ i + from < j + from
        BY <1>2, <2>4
      <3> QED
        BY <1>4, <1>5, <3>1 DEF Increasing
    <2>7. Range(page) = {out[i] : i \in {j \in 1..N : from + 1 <= j /\ j <= end}}
      <3>1. \A i \in 1..L : \E j \in 1..N : from + 1 <= j /\ j <= end /\ out[i + from] = out[j]
        BY <2>4
      <3>2. ASSUME NEW j \in 1..N, from + 1 <= j, j <= end PROVE \E i \in 1..L : page[i] = out[j]
        <4>1. j - from \in 1..L /\ (j - from) + from = j
          BY <1>2, <1>3, <2>1, <3>2 DEF L
        <4> QED
          BY <2>5, <4>1
      <3> DEFINE J == {j \in 1..N : from + 1 <= j /\ j <= end}
      <3>3. \A i \in 1..L : \E j \in J : page[i] = out[j]
        BY <2>5, <3>1
      <3>4. \A j \in J : \E i \in 1..L : page[i] = out[j]
        BY <3>2
      <3> HIDE DEF J
      <3>5. Range(page) = {out[i] : i \in J}
        <4>1. \A y : y \in Range(page) <=> \E i \in 1..L : y = page[i]
          BY <2>5 DEF Range
        <4>2. \A y : y \in {out[i] : i \in J} <=> \E j \in J : y = out[j]
          OBVIOUS
        <4>3. \A y : y \in Range(page) <=> y \in {out[i] : i \in J}
          BY <3>3, <3>4, <4>1, <4>2
        <4> QED
          BY <4>3
      <3> QED
        BY <3>5 DEF J
    <2>8. Range(page) = {n \in S : Cardinality(Below(S, n)) \in from..from + limit - 1}
      <3> DEFINE w == from..from + limit - 1
                 J == {j \in 1..N : from + 1 <= j /\ j <= end}
      <3>1. \A i \in 1..N : i \in J <=> Cardinality(Below(S, out[i])) \in w
        BY <1>4, <2>2
      <3> HIDE DEF w
      <3>2. Range(page) = {out[i] : i \in J} /\ J \subseteq 1..N
        BY <2>7
      <3> HIDE DEF J
      <3>3. {out[i] : i \in J} = {n \in S : Cardinality(Below(S, n)) \in w}
        BY <1>4, <3>1, <3>2
      <3> QED
        BY <3>2, <3>3 DEF w
    <2> QED
      BY <2>3, <2>6, <2>8 DEF PageOf, S, result, page
  <1> QED
    BY <1>2, <1>3, <1>8, <1>9 DEF S, N

(* Each page holds exactly the devices of its window that match, in order, *)
(* and none panics, whatever the table holds at the moment.                *)
THEOREM PagesCoverHolds == Spec => []PagesCover
  <1>1. IInv /\ RInv => PagesCover
    <2> SUFFICES ASSUME IInv, RInv, NEW want, NEW limit \in 1..MaxInt, NEW from \in 0..MaxInt - limit
                 PROVE  PageOf(Matching(want), limit, from, ListSNMPDeviceSummaries(want, limit, from))
      BY DEF PagesCover, PageOf, Matching, Below
    <2>1. "snmp" \in FileSet
      BY DEF FileSet, Files
    <2>2. Numbered(tables["snmp"])
      BY <2>1, TablesMade DEF Made
    <2>3. DOMAIN devices \in SUBSET Nat /\ IsFiniteSet(DOMAIN devices)
      BY <2>2 DEF Numbered, devices
    <2> QED
      BY <2>3, PageIs
  <1> QED
    BY <1>1, SpecRInv, PTL
=============================================================================
