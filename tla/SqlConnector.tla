---------------------------- MODULE SqlConnector ----------------------------
(***************************************************************************)
(* ctx.mysql and ctx.postgres: query and version.  One lookup gives the    *)
(* limit and the address.  EnsureSelect refuses everything but one SELECT  *)
(* and wraps it in an outer LIMIT; the rows are then read one by one.  The *)
(* database is external: it sends the rows there are up to that LIMIT, and *)
(* may fail after any of them.                                             *)
(***************************************************************************)
EXTENDS ConnectorCall

CONSTANT MaxRows  \* bound on the rows a statement has

ASSUME SqlAssumption == MaxRows \in Nat

QueryOps == {"mysql.query", "postgres.query"}
VersionOps == {"mysql.version", "postgres.version"}
SqlOps == QueryOps \cup VersionOps

(* want tells a single SELECT (1) from any other statement (0).            *)
BeginQuery ==
  \E o \in QueryOps, n \in {0, 1}, rows \in 0..MaxRows :
    Begin(o, n, "lookup", [rows |-> rows], [n |-> 0, next |-> "more"])

BeginVersion == \E o \in VersionOps : Begin(o, 1, "lookup", Nothing, Nothing)

(* An entry of the other type is refused like an unsuitable statement.     *)
EnsureSelect(sound) == sound /\ want = 1

SqlLookup ==
  /\ op \in SqlOps
  /\ \/ /\ entry = Absent
        /\ Answer("lookup", "CONNECTOR_ERROR")
        /\ UNCHANGED limit
     \/ /\ entry # Absent /\ ~EnsureSelect(entry.sound)
        /\ Answer("lookup", "INVALID_PARAMS")
        /\ UNCHANGED limit
     \/ /\ EnsureSelect(entry.sound)
        /\ Goto("lookup", "dial")
        /\ limit' = entry.limit
        /\ UNCHANGED code
  /\ UNCHANGED <<request, config, client, remote, got>>

(* sql.Open with the settings that were looked up.                         *)
OpenPing ==
  /\ op \in SqlOps
  /\ \/ Answer("dial", "CONNECTOR_ERROR") /\ UNCHANGED client
     \/ Goto("dial", "ping") /\ client' = "open" /\ UNCHANGED code
  /\ UNCHANGED <<request, config, limit, remote, got>>

(* The loop of Query: rows.Next reads a row, or says that there is none to *)
(* read, alike at the end of the rows and where the connection broke.      *)
NextRow ==
  /\ At(QueryOps) /\ got.next = "more"
  /\ \/ /\ got.n < Smaller(remote.rows, limit)
        /\ got' = [got EXCEPT !.n = @ + 1]
     \/ /\ got.n = Smaller(remote.rows, limit)
        /\ got' = [got EXCEPT !.next = "end"]
     \/ got' = [got EXCEPT !.next = "broken"]
  /\ UNCHANGED <<pc, request, config, limit, client, remote, code>>

RowsOver == At(QueryOps) /\ got.next # "more"

(* Mutant of RowsErr: the loop is over, so the rows are complete.          *)
RowsErrForgotten ==
  /\ RowsOver
  /\ Answer("exchange", "ok")
  /\ UNCHANGED <<request, config, limit, client, remote, got>>

(* rows.Err tells the two apart; the rows that were read are discarded if  *)
(* it fails.                                                               *)
RowsErr ==
  /\ RowsOver
  /\ Answer("exchange", IF got.next = "end" THEN "ok" ELSE "CONNECTOR_ERROR")
  /\ UNCHANGED <<request, config, limit, client, remote, got>>

QueryVersion == At(VersionOps) /\ Reply(got)

SqlStep == SqlLookup \/ OpenPing \/ NextRow \/ RowsErr \/ QueryVersion

-----------------------------------------------------------------------------
(* A query answers all its rows, up to the limit of its database, or an    *)
(* error: a connection that breaks between two rows never passes a part of *)
(* the rows off as the whole.                                              *)
RowsAllOrNothing ==
  (op \in QueryOps /\ pc = "done" /\ code = "ok") => got.n = Smaller(remote.rows, limit)
=============================================================================
