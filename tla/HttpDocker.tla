----------------------------- MODULE HttpDocker -----------------------------
(***************************************************************************)
(* ctx.http (the Do of every HTTP request, OpenAPI tools included) and     *)
(* ctx.docker, which runs docker through ssh.exec and reads its output.    *)
(* The HTTP peer, ssh.exec (module ProcessExec) and docker are external.   *)
(***************************************************************************)
EXTENDS ConnectorCall, Sequences

CONSTANT MaxLines  \* bound on the lines docker prints

ASSUME DockerAssumption == MaxLines \in Nat

RecordOps == {"docker.ps", "docker.stats", "docker.history"}
TextOps == {"docker.logs", "docker.top"}
DockerOps == RecordOps \cup TextOps \cup {"docker.info", "docker.inspect"}

HttpOps == {"http", "openapi"}

BeginHttp == \E to \in {"lookup", "connect"} : Begin("http", 0, to, Nothing, Nothing)
BeginDocker == \E o \in DockerOps : Begin(o, 0, "connect", Nothing, Nothing)

(* API mode: the service is looked up (for an OpenAPI tool not the first   *)
(* time); its base URL and the path make the target, or do not parse.      *)
TargetURL ==
  LET from == IF op = "openapi" THEN "resolve" ELSE "lookup"
  IN /\ op \in HttpOps
     /\ \/ entry = Absent /\ Answer(from, "CONNECTOR_ERROR")
        \/ /\ entry # Absent /\ ~entry.sound
           /\ \E c \in {"INVALID_PARAMS", "CONNECTOR_ERROR"} : Answer(from, c)
        \/ entry.sound /\ Goto(from, "connect") /\ UNCHANGED code
     /\ UNCHANGED <<request, config, limit, client, remote, got>>

(* The body to send is encoded, then client.Do; every status is a result,  *)
(* and so has a body to be closed.                                         *)
Do ==
  /\ op \in HttpOps
  /\ \/ /\ \E c \in {"INVALID_PARAMS", "CONNECTOR_ERROR"} : Answer("connect", c)
        /\ UNCHANGED client
     \/ Goto("connect", "exchange") /\ client' = "open" /\ UNCHANGED code
  /\ UNCHANGED <<request, config, limit, remote, got>>

(* The body is read up to a cap, and parsed if it looks like JSON.  What   *)
(* lies beyond the cap is lost without a word, and a document that was cut *)
(* no longer parses: it is passed on as text.                              *)
ReadBody ==
  /\ At(HttpOps)
  /\ \E body \in {"empty", "json", "text", "longJson", "longText"} :
       got' = [body |-> CASE body = "empty" -> "null"
                          [] body = "json" -> "value"
                          [] OTHER -> "text"]
  /\ Answer("exchange", "ok")
  /\ UNCHANGED <<request, config, limit, client, remote>>

-----------------------------------------------------------------------------
(* parseDockerPSJSON and its like: blank lines are skipped, a line that is *)
(* not JSON fails the call.                                                *)
ParseRecords(lines) ==
  IF \E i \in DOMAIN lines : lines[i] = "garbage"
    THEN [code |-> "CONNECTOR_ERROR", n |-> 0]
    ELSE [code |-> "ok", n |-> Len(SelectSeq(lines, LAMBDA l : l = "record"))]

Lines == UNION {[1..n -> {"record", "blank", "garbage"}] : n \in 0..MaxLines}

(* runDocker: an error of ssh.exec is passed on with its code, the one of  *)
(* a context that ended included; an exit code other than 0 is             *)
(* CONNECTOR_ERROR; only the standard output is used.                      *)
RunDockerFails ==
  /\ op \in DockerOps
  /\ \E c \in {"INVALID_PARAMS", "CONNECTOR_ERROR", "PLUGIN_TIMEOUT"} : Answer("connect", c)
  /\ UNCHANGED <<request, config, limit, client, remote, got>>

DockerRecords ==
  /\ op \in RecordOps
  /\ \E lines \in Lines :
       /\ remote' = [lines |-> lines]
       /\ got' = [n |-> ParseRecords(lines).n]
       /\ Answer("connect", ParseRecords(lines).code)
  /\ UNCHANGED <<request, config, limit, client>>

(* logs and top return the text; info falls back to it, inspect does not.  *)
DockerText ==
  /\ op \in TextOps
  /\ got' = [format |-> "text"]
  /\ Answer("connect", "ok")
  /\ UNCHANGED <<request, config, limit, client, remote>>

DockerInfo ==
  /\ op = "docker.info"
  /\ \E format \in {"json", "text"} : got' = [format |-> format]
  /\ Answer("connect", "ok")
  /\ UNCHANGED <<request, config, limit, client, remote>>

DockerInspect ==
  /\ op = "docker.inspect"
  /\ \E parsed \in BOOLEAN :
       /\ got' = IF parsed THEN [format |-> "json"] ELSE got
       /\ Answer("connect", IF parsed THEN "ok" ELSE "CONNECTOR_ERROR")
  /\ UNCHANGED <<request, config, limit, client, remote>>

HttpDockerStep ==
  \/ TargetURL \/ Do \/ ReadBody
  \/ RunDockerFails \/ DockerRecords \/ DockerText \/ DockerInfo \/ DockerInspect

=============================================================================
