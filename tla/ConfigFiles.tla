---------------------------- MODULE ConfigFiles ----------------------------
(***************************************************************************)
(* What the loaders of config.go make of a resource file: a table from     *)
(* names to entries with their defaults put in, or an error.               *)
(*                                                                         *)
(* A file is missing, unreadable (or no YAML), or present with its entries *)
(* in order.  A name is a natural number, 0 where the file has none, and a *)
(* number of an entry is 0 where the file has none; a duration is a text.  *)
(* What an entry holds beyond the fields that are checked or get a default *)
(* is left out.                                                            *)
(***************************************************************************)
EXTENDS Integers, SequencesExt

CONSTANT DefaultQueryLimit
ASSUME LimitAssumption == DefaultQueryLimit \in Nat \ {0}

NoTable == <<>>
Failed == [ok |-> FALSE, table |-> NoTable]
Loaded(table) == [ok |-> TRUE, table |-> table]

OrElse(n, default) == IF n = 0 THEN default ELSE n
PositiveOr(n, default) == IF n <= 0 THEN default ELSE n

(* The table with one entry more.                                          *)
With(table, name, entry) ==
  [n \in DOMAIN table \cup {name} |-> IF n = name THEN entry ELSE table[n]]

(* Mutant of Taken: nobody looks whether a name is taken.                  *)
TakenNever(table, name) == FALSE
Taken(table, name) == name \in DOMAIN table

(* The loop of the loaders: an entry without a name, with one that is      *)
(* taken or with contents that are refused ends it with an error.          *)
LoadEntries(entries, Valid(_), Normal(_)) ==
  LET add(acc, e) ==
        IF ~acc.ok \/ e.name = 0 \/ Taken(acc.table, e.name) \/ ~Valid(e) THEN Failed
        ELSE Loaded(With(acc.table, e.name, Normal(e)))
  IN FoldLeft(add, Loaded(NoTable), entries)

Always(e) == TRUE

(* Only hosts.yaml must be there.                                          *)
Optional(file, result) == IF file.state = "missing" THEN Loaded(NoTable) ELSE result
Present(file, result) == IF file.state = "present" THEN result ELSE Failed

loadHosts(file) ==
  LET normal(h) == [h EXCEPT !.port = OrElse(@, 22)]
  IN Present(file, LoadEntries(file.entries, Always, normal))

loadDatabases(file) ==
  LET port(db) == CASE db.type = "mysql" -> 3306 [] db.type = "postgresql" -> 5432 [] OTHER -> 0
      normal(db) == [db EXCEPT !.limit = PositiveOr(@, DefaultQueryLimit),
                               !.port = OrElse(@, port(db))]
  IN Optional(file, Present(file, LoadEntries(file.entries, Always, normal)))

(* Mutant of loadRedis: only a limit that is missing gets the default.     *)
loadRedisNegative(file) ==
  LET normal(r) == [r EXCEPT !.limit = OrElse(@, DefaultQueryLimit), !.port = OrElse(@, 6379)]
  IN Optional(file, Present(file, LoadEntries(file.entries, Always, normal)))

loadRedis(file) ==
  LET normal(r) == [r EXCEPT !.limit = PositiveOr(@, DefaultQueryLimit), !.port = OrElse(@, 6379)]
  IN Optional(file, Present(file, LoadEntries(file.entries, Always, normal)))

loadKafka(file) ==
  LET valid(k) == k.brokers > 0
      normal(k) == [k EXCEPT !.limit = PositiveOr(@, DefaultQueryLimit)]
  IN Optional(file, Present(file, LoadEntries(file.entries, valid, normal)))

(* A text may refer to a variable of the environment: one that is not set  *)
(* is an error, one that is set to nothing leaves nothing.                 *)
expandEnvStrict(v) == CASE v = "set" -> [ok |-> TRUE, text |-> "text"]
                        [] v = "blank" -> [ok |-> TRUE, text |-> ""]
                        [] v = "unset" -> [ok |-> FALSE, text |-> ""]
                        [] OTHER -> [ok |-> TRUE, text |-> v]

loadAPIs(file) ==
  LET valid(a) == /\ expandEnvStrict(a.path).ok /\ expandEnvStrict(a.path).text # ""
                  /\ expandEnvStrict(a.baseURL).ok /\ expandEnvStrict(a.baseURL).text # ""
                  /\ expandEnvStrict(a.header).ok
      normal(a) == [a EXCEPT !.path = expandEnvStrict(@).text,
                             !.baseURL = expandEnvStrict(@).text,
                             !.header = expandEnvStrict(@).text]
  IN Optional(file, Present(file, LoadEntries(file.entries, valid, normal)))

-----------------------------------------------------------------------------
(* A path of a command is blank, relative, or absolute; an absolute one is *)
(* available (an executable file) or gone.                                 *)
normalizePathCandidates(paths) ==
  FoldLeft(LAMBDA out, p : IF p = "blank" THEN out ELSE Append(out, p), <<>>, paths)

Available(p) == p \notin {"gone", "relative"}
resolveCommandPath(candidates) == SelectInSeq(candidates, Available)

(* A command none of whose paths is available is left out with a warning,  *)
(* and its name stays free for a later entry.                              *)
loadCommands(file) ==
  LET candidates(c) == normalizePathCandidates(c.paths)
      valid(c) == candidates(c) # <<>> /\ "relative" \notin Range(candidates(c))
      add(acc, c) ==
        IF ~acc.ok \/ c.name = 0 \/ ~valid(c) \/ Taken(acc.table, c.name) THEN Failed
        ELSE IF resolveCommandPath(candidates(c)) = 0 THEN acc
        ELSE Loaded(With(acc.table, c.name,
                         [path |-> candidates(c)[resolveCommandPath(candidates(c))]]))
  IN Optional(file, Present(file, FoldLeft(add, Loaded(NoTable), file.entries)))

-----------------------------------------------------------------------------
(* The secrets of an authentication are a set of the fields that are there. *)
validateSNMPAuth(a) ==
  \/ a.version = "2c" /\ "community" \in a.has
  \/ /\ a.version = "3" /\ "username" \in a.has
     /\ \/ a.level \in {"", "noauthnopriv"}
        \/ a.level = "authnopriv" /\ "auth_password" \in a.has
        \/ a.level = "authpriv" /\ {"auth_password", "priv_password"} \subseteq a.has

DefaultSNMP == [timeout |-> "5s", retries |-> 1, maxRepetitions |-> 25, walkMaxOIDs |-> 1000]

(* Only a timeout that is missing is replaced: one that is no duration, or *)
(* not a positive one, stays as it is.                                     *)
applySNMPDefaults(d) ==
  [timeout |-> IF d.timeout = "" THEN DefaultSNMP.timeout ELSE d.timeout,
   retries |-> PositiveOr(d.retries, DefaultSNMP.retries),
   maxRepetitions |-> PositiveOr(d.maxRepetitions, DefaultSNMP.maxRepetitions),
   walkMaxOIDs |-> PositiveOr(d.walkMaxOIDs, DefaultSNMP.walkMaxOIDs)]

NoDefaults == [timeout |-> "", retries |-> 0, maxRepetitions |-> 0, walkMaxOIDs |-> 0]
NoAuth == [version |-> "", level |-> "", has |-> {}]

(* Mutant of loadSNMP: a device may name a credential that is not there.   *)
loadSNMPUnchecked(file) ==
  LET creds == LoadEntries(file.credentials, LAMBDA c : validateSNMPAuth(c.auth),
                           LAMBDA c : [auth |-> c.auth])
      valid(d) == /\ d.host
                  /\ (d.credential # 0) # (d.auth # NoAuth)
                  /\ d.credential = 0 => validateSNMPAuth(d.auth)
      devices == LoadEntries(file.devices, valid, LAMBDA d : [d EXCEPT !.port = OrElse(@, 161)])
      none == [credentials |-> NoTable, devices |-> NoTable, defaults |-> DefaultSNMP]
  IN IF file.state = "missing" THEN Loaded(none)
     ELSE IF file.state # "present" \/ ~creds.ok \/ ~devices.ok THEN Failed
     ELSE Loaded([credentials |-> creds.table, devices |-> devices.table,
                  defaults |-> applySNMPDefaults(file.defaults)])

(* Credentials first; a device has either the name of one of them or an    *)
(* authentication of its own.                                              *)
loadSNMP(file) ==
  LET creds == LoadEntries(file.credentials, LAMBDA c : validateSNMPAuth(c.auth),
                           LAMBDA c : [auth |-> c.auth])
      valid(d) == /\ d.host
                  /\ (d.credential # 0) # (d.auth # NoAuth)
                  /\ IF d.credential # 0 THEN d.credential \in DOMAIN creds.table
                     ELSE validateSNMPAuth(d.auth)
      devices == LoadEntries(file.devices, valid, LAMBDA d : [d EXCEPT !.port = OrElse(@, 161)])
      none == [credentials |-> NoTable, devices |-> NoTable, defaults |-> DefaultSNMP]
  IN IF file.state = "missing" THEN Loaded(none)
     ELSE IF file.state # "present" \/ ~creds.ok \/ ~devices.ok THEN Failed
     ELSE Loaded([credentials |-> creds.table, devices |-> devices.table,
                  defaults |-> applySNMPDefaults(file.defaults)])

-----------------------------------------------------------------------------
(* What the YAML of each file may hold; a file that cannot be read has no  *)
(* entries.                                                                *)
Texts == {"", "text", "set", "blank", "unset"}

IsEntry(f, e) ==
  CASE f = "hosts" -> e \in [name : Nat, port : Int]
    [] f = "databases" ->
         e \in [name : Nat, type : {"mysql", "postgresql", "other"}, limit : Int, port : Int]
    [] f = "redis" -> e \in [name : Nat, limit : Int, port : Int]
    [] f = "kafka" -> e \in [name : Nat, limit : Int, brokers : Nat]
    [] f = "apis" -> e \in [name : Nat, path : Texts, baseURL : Texts, header : Texts]
    [] f = "commands" -> DOMAIN e = {"name", "paths"} /\ e.name \in Nat /\ e.paths \in Seq(STRING)

IsCredential(c) == c.name \in Nat
IsDevice(d) ==
  /\ DOMAIN d = {"name", "host", "port", "credential", "auth", "labels"}
  /\ d.name \in Nat /\ d.credential \in Nat

IsFile(f, file) ==
  /\ file.state \in {"missing", "unreadable", "present"}
  /\ IF f = "snmp"
       THEN /\ file.credentials \in Seq(Range(file.credentials))
            /\ file.devices \in Seq(Range(file.devices))
            /\ \A c \in Range(file.credentials) : IsCredential(c)
            /\ \A d \in Range(file.devices) : IsDevice(d)
            /\ file.defaults \in [timeout : STRING, retries : Int, maxRepetitions : Int,
                                 walkMaxOIDs : Int]
       ELSE /\ file.entries \in Seq(Range(file.entries))
            /\ \A e \in Range(file.entries) : IsEntry(f, e)
            /\ file.state # "present" => file.entries = <<>>

-----------------------------------------------------------------------------
LoadFile(f, file) ==
  CASE f = "hosts" -> loadHosts(file)
    [] f = "databases" -> loadDatabases(file)
    [] f = "redis" -> loadRedis(file)
    [] f = "kafka" -> loadKafka(file)
    [] f = "apis" -> loadAPIs(file)
    [] f = "commands" -> loadCommands(file)
    [] f = "snmp" -> loadSNMP(file)
=============================================================================
