--------------------------- MODULE ConfigManager ---------------------------
(***************************************************************************)
(* config.Manager: the tables of the seven resource files, loaded by       *)
(* requests that may overlap, while an operator edits the files.           *)
(* reloadResources reads one file after the other without a lock, and      *)
(* installs all the tables at once under the lock; it gives up at the      *)
(* first file that does not load.  (Module Reload has this load as one     *)
(* step, together with what else a reload replaces.)                       *)
(***************************************************************************)
EXTENDS ConfigFiles

CONSTANTS Reloaders,         \* goroutines that serve a reload of the configuration
          Initial,           \* the files when the process starts
          Contents,          \* for each file, what an edit may make of it
          MaxEdits,          \* bound on edits
          MaxEvents,         \* bound on edits so far and reloads in flight together
          DefaultListLimit,  \* DefaultSNMPListLimit
          MaxInt             \* the largest int

Files == <<"hosts", "databases", "redis", "kafka", "apis", "commands", "snmp">>
FileSet == {Files[i] : i \in DOMAIN Files}

ASSUME ConfigAssumption ==
  /\ DOMAIN Initial = FileSet /\ DOMAIN Contents = FileSet
  /\ MaxEdits \in Nat /\ MaxEvents \in Nat
  /\ MaxInt \in Nat /\ DefaultListLimit \in 1..MaxInt

ASSUME ContentsAssumption ==
  \A f \in FileSet : IsFile(f, Initial[f]) /\ \A c \in Contents[f] : IsFile(f, c)

VARIABLES
  edits,      \* what the operator did: [file, content], in order
  tables,     \* the Manager's tables, one for each file
  installed,  \* for each table, the number of the edit it was read after
  pc, staged  \* where each request is, and the tables it has loaded

vars == <<edits, tables, installed, pc, staged>>

(* The number of the last edit of a file, or 0; what the file then holds.  *)
LastEdit(f) == SelectLastInSeq(edits, LAMBDA e : e.file = f)
ContentAt(f, k) == IF k = 0 THEN Initial[f] ELSE edits[k].content

(* Load of the process: an error ends it before it serves requests.        *)
Init ==
  /\ edits = <<>>
  /\ \A f \in FileSet : LoadFile(f, Initial[f]).ok
  /\ tables = [f \in FileSet |-> LoadFile(f, Initial[f]).table]
  /\ installed = [f \in FileSet |-> 0]
  /\ pc = [r \in Reloaders |-> "idle"]
  /\ staged = [r \in Reloaders |-> <<>>]

Edit ==
  /\ Len(edits) < MaxEdits
  /\ \E f \in FileSet : \E c \in Contents[f] :
       edits' = Append(edits, [file |-> f, content |-> c])
  /\ UNCHANGED <<tables, installed, pc, staged>>

BeginReload(r) ==
  /\ Len(edits) + Cardinality({q \in Reloaders : pc[q] # "idle"}) < MaxEvents
  /\ pc[r] = "idle"
  /\ pc' = [pc EXCEPT ![r] = "read"]
  /\ UNCHANGED <<edits, tables, installed, staged>>

(* Mutant of ReadFile: each table is installed when its file was read.     *)
ReadFileInstalling(r) ==
  LET f == Files[Len(staged[r]) + 1]
      result == LoadFile(f, ContentAt(f, LastEdit(f)))
  IN /\ pc[r] = "read" /\ result.ok
     /\ staged' = [staged EXCEPT ![r] = Append(@, [table |-> result.table, edit |-> LastEdit(f)])]
     /\ tables' = [tables EXCEPT ![f] = result.table]
     /\ installed' = [installed EXCEPT ![f] = LastEdit(f)]
     /\ pc' = [pc EXCEPT ![r] = IF Len(staged[r]) + 1 = Len(Files) THEN "install" ELSE @]
     /\ UNCHANGED edits

(* One loader: the next file, or the end of the reload.                    *)
ReadFile(r) ==
  LET f == Files[Len(staged[r]) + 1]
      result == LoadFile(f, ContentAt(f, LastEdit(f)))
  IN /\ pc[r] = "read"
     /\ \/ /\ result.ok
           /\ staged' = [staged EXCEPT ![r] = Append(@, [table |-> result.table, edit |-> LastEdit(f)])]
           /\ pc' = [pc EXCEPT ![r] = IF Len(staged[r]) + 1 = Len(Files) THEN "install" ELSE @]
        \/ /\ ~result.ok
           /\ staged' = [staged EXCEPT ![r] = <<>>]
           /\ pc' = [pc EXCEPT ![r] = "idle"]
     /\ UNCHANGED <<edits, tables, installed>>

(* All the tables are replaced under the lock.                             *)
Install(r) ==
  LET place(f) == SelectInSeq(Files, LAMBDA g : g = f)
  IN /\ pc[r] = "install"
     /\ tables' = [f \in FileSet |-> staged[r][place(f)].table]
     /\ installed' = [f \in FileSet |-> staged[r][place(f)].edit]
     /\ staged' = [staged EXCEPT ![r] = <<>>]
     /\ pc' = [pc EXCEPT ![r] = "idle"]
     /\ UNCHANGED edits

Next == Edit \/ \E r \in Reloaders : BeginReload(r) \/ ReadFile(r) \/ Install(r)

Spec == Init /\ [][Next]_vars

-----------------------------------------------------------------------------
(* What others read of the tables, each read under the lock.               *)

devices == tables["snmp"].devices

(* ResolveSNMPAuth: the authentication of a device, by name or its own.    *)
Unresolved == NoAuth
ResolveSNMPAuth(n) ==
  LET d == devices[n]
  IN IF d.credential = 0 THEN d.auth
     ELSE IF d.credential \in DOMAIN tables["snmp"].credentials
       THEN tables["snmp"].credentials[d.credential].auth
       ELSE Unresolved

(* labelsMatch: a label that a device lacks counts as the empty text.      *)
labelsMatch(have, want) ==
  \A k \in DOMAIN want : (IF k \in DOMAIN have THEN have[k] ELSE "") = want[k]

Wrap(n) == IF n > MaxInt THEN n - 2 * (MaxInt + 1) ELSE n

(* Names in their order.                                                   *)
InOrder(names) ==
  CHOOSE out \in [1..Cardinality(names) -> names] :
    \A i, j \in DOMAIN out : i < j => out[i] < out[j]

(* Mutant of ListSNMPDeviceSummaries: the end of a page counts from 0.     *)
ListSNMPDeviceSummariesShort(want, asked, from) ==
  LET matching == {n \in DOMAIN devices : labelsMatch(devices[n].labels, want)}
      out == InOrder(matching)
      limit == PositiveOr(asked, DefaultListLimit)
      offset == IF from < 0 THEN 0 ELSE from
      end == IF limit > Len(out) THEN Len(out) ELSE limit
  IN [panics |-> FALSE, page |-> SubSeq(out, offset + 1, end)]

(* A page of the devices that match, in the order of their names.  The     *)
(* slice panics if its end is before its start, which only an overflow of  *)
(* offset + limit brings about.                                            *)
ListSNMPDeviceSummaries(want, asked, from) ==
  LET matching == {n \in DOMAIN devices : labelsMatch(devices[n].labels, want)}
      out == InOrder(matching)
      limit == PositiveOr(asked, DefaultListLimit)
      offset == IF from < 0 THEN 0 ELSE from
      sum == Wrap(offset + limit)
      end == IF sum > Len(out) THEN Len(out) ELSE sum
  IN IF offset >= Len(out) THEN [panics |-> FALSE, page |-> <<>>]
     ELSE IF end < offset THEN [panics |-> TRUE, page |-> <<>>]
     ELSE [panics |-> FALSE, page |-> SubSeq(out, offset + 1, end)]

-----------------------------------------------------------------------------
(* Bounds for walks, and a timeout that need not be a duration: the SNMP   *)
(* connector puts 5s in the place of one that is none or is not positive.  *)
BoundsSet(defaults) ==
  /\ defaults.timeout # ""
  /\ defaults.retries > 0 /\ defaults.maxRepetitions > 0 /\ defaults.walkMaxOIDs > 0

(* TYPE.  The tables hold what the connectors count on: a positive limit,  *)
(* a port, an address, a broker, bounds for walks.  (A port that is there  *)
(* may be any number: nobody looks at it.)                                 *)
TypeOK ==
  /\ \A f \in {"databases", "redis", "kafka"} : \A n \in DOMAIN tables[f] : tables[f][n].limit > 0
  /\ \A n \in DOMAIN tables["redis"] : tables["redis"][n].port # 0
  /\ \A n \in DOMAIN tables["kafka"] : tables["kafka"][n].brokers > 0
  /\ \A n \in DOMAIN tables["apis"] :
       tables["apis"][n].path = "text" /\ tables["apis"][n].baseURL = "text"
  /\ \A n \in DOMAIN tables["commands"] : Available(tables["commands"][n].path)
  /\ BoundsSet(tables["snmp"].defaults)
  /\ \A f \in FileSet : installed[f] \in 0..Len(edits)
  /\ Len(edits) <= MaxEdits
  /\ pc \in [Reloaders -> {"idle", "read", "install"}]
  /\ \A r \in Reloaders :
       /\ pc[r] = "idle" => staged[r] = <<>>
       /\ pc[r] = "read" => Len(staged[r]) < Len(Files)
       /\ pc[r] = "install" => Len(staged[r]) = Len(Files)

(* The running tables are one sweep over the files in their fixed order,   *)
(* whichever reloads overlap: if of two edits the later one is in force,   *)
(* and its file is read first, the earlier one is in force too.  (In the   *)
(* other order of reading there is no such promise.)                       *)
OneSweep ==
  \A k, l \in DOMAIN edits :
    LET before(f, g) == SelectInSeq(Files, LAMBDA h : h = f) < SelectInSeq(Files, LAMBDA h : h = g)
    IN (k < l /\ before(edits[l].file, edits[k].file) /\ installed[edits[l].file] >= l) =>
         installed[edits[k].file] >= k

(* No entry of a file that was loaded is lost or replaced by another: each *)
(* has a name of its own in the table, except commands that have no path   *)
(* available, and nothing else is in it.  (Of snmp.yaml, whose two lists   *)
(* become two tables, CredentialsResolve says what matters.)               *)
LoadExact ==
  \A f \in FileSet \ {"snmp"} :
    LET entries == ContentAt(f, installed[f]).entries
        kept == {i \in DOMAIN entries :
                   f = "commands" => \E p \in Range(entries[i].paths) : Available(p) /\ p # "blank"}
    IN /\ DOMAIN tables[f] = {entries[i].name : i \in kept}
       /\ Cardinality(DOMAIN tables[f]) = Cardinality(kept)

(* At every moment each device of the table can be reached: its            *)
(* credential is in the table of the same moment, and carries the secrets  *)
(* its version and security level need.                                    *)
CredentialsResolve ==
  \A n \in DOMAIN devices : validateSNMPAuth(ResolveSNMPAuth(n))

(* A page holds the devices that match whose ranks by name are in its      *)
(* window, each once, in order, and does not panic, as long as offset and  *)
(* limit add up to an int: so whoever follows the pages, whatever their    *)
(* size, sees each device that matches exactly once.                       *)
PagesCover ==
  \A want \in {<<>>, [role |-> "core"], [role |-> ""]} :
    LET matching == {n \in DOMAIN devices : labelsMatch(devices[n].labels, want)}
        rank(n) == Cardinality({m \in matching : m < n})
    IN \A limit \in 1..MaxInt : \A from \in 0..MaxInt - limit :
         LET result == ListSNMPDeviceSummaries(want, limit, from)
         IN /\ ~result.panics
            /\ \A i, j \in DOMAIN result.page : i < j => result.page[i] < result.page[j]
            /\ Range(result.page) = {n \in matching : rank(n) \in from..from + limit - 1}
=============================================================================
