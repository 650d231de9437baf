---------------------------- MODULE ProcessExec ----------------------------
(***************************************************************************)
(* ctx.command.exec and ctx.ssh.exec: a call starts a process, local or    *)
(* remote, collects its output and ends with the process or with the       *)
(* context.                                                                *)
(*                                                                         *)
(* A local process is run by exec.Cmd.Run (external), in the goroutine of  *)
(* the call: when the context ends it kills the process, it reaps it, and  *)
(* it reads the output until nobody has the pipe open any more.  The       *)
(* process may leave a child in its process group.  A remote process is    *)
(* run by ssh.Session.Run (external) in a second goroutine.                *)
(*                                                                         *)
(* Calls share nothing.  hinders describes the other side of a call: the   *)
(* children of a local process keep its output open, or the SSH peer       *)
(* accepts the connection and stays silent.                                *)
(***************************************************************************)
CONSTANT Calls

VARIABLES
  kind, hinders,  \* what is called, and how the other side behaves
  pc,             \* the goroutine of the call
  expired,        \* its context has ended
  leader,         \* the process that was started
  status,         \* how it has exited
  child,          \* the process it left in its group
  cancelled,      \* Cmd: the watcher has killed the process (local only)
  runner, done,   \* the goroutine of session.Run and its channel (remote only)
  code            \* the answer

plugin == <<kind, hinders>>
proc == <<leader, status, child>>
session == <<runner, done>>
vars == <<plugin, pc, expired, proc, cancelled, session, code>>

Labels == {"called", "handshake", "running", "killing", "answered"}
Codes == {"result", "INVALID_PARAMS", "CONNECTOR_ERROR", "PLUGIN_TIMEOUT"}

Init ==
  /\ kind \in [Calls -> {"command", "ssh"}]
  /\ hinders \in [Calls -> BOOLEAN]
  /\ pc = [c \in Calls |-> "called"]
  /\ expired = [c \in Calls |-> FALSE]
  /\ leader = [c \in Calls |-> "none"]
  /\ status = [c \in Calls |-> "none"]
  /\ child = [c \in Calls |-> "none"]
  /\ cancelled = [c \in Calls |-> FALSE]
  /\ runner = [c \in Calls |-> "none"]
  /\ done = [c \in Calls |-> "empty"]
  /\ code = [c \in Calls |-> "none"]

Goto(c, from, to) == pc[c] = from /\ pc' = [pc EXCEPT ![c] = to]

Answer(c, from, answer) ==
  /\ Goto(c, from, "answered")
  /\ code' = [code EXCEPT ![c] = answer]

-----------------------------------------------------------------------------
(* Parameters are incomplete, or the configuration knows no such command   *)
(* or host.                                                                *)
Refuse(c) ==
  /\ \/ Answer(c, "called", "INVALID_PARAMS")
     \/ Answer(c, "called", "CONNECTOR_ERROR")
  /\ UNCHANGED <<plugin, expired, proc, cancelled, session>>

(* Local: Cmd.Start.  A context that has ended fails it as well.           *)
StartFails(c) ==
  /\ kind[c] = "command"
  /\ Answer(c, "called", IF expired[c] THEN "PLUGIN_TIMEOUT" ELSE "CONNECTOR_ERROR")
  /\ UNCHANGED <<plugin, expired, proc, cancelled, session>>

Start(c) ==
  /\ kind[c] = "command" /\ ~expired[c]
  /\ Goto(c, "called", "running")
  /\ leader' = [leader EXCEPT ![c] = "running"]
  /\ UNCHANGED <<plugin, expired, status, child, cancelled, session, code>>

(* The process, wherever it runs.                                          *)
LeaderForks(c) ==
  /\ leader[c] = "running" /\ child[c] = "none"
  /\ child' = [child EXCEPT ![c] = "running"]
  /\ UNCHANGED <<plugin, pc, expired, leader, status, cancelled, session, code>>

LeaderExits(c) ==
  /\ leader[c] = "running"
  /\ leader' = [leader EXCEPT ![c] = "exited"]
  /\ \E s \in {"zero", "nonzero"} : status' = [status EXCEPT ![c] = s]
  /\ UNCHANGED <<plugin, pc, expired, child, cancelled, session, code>>

ChildEnds(c) ==
  /\ child[c] = "running"
  /\ child' = [child EXCEPT ![c] = "ended"]
  /\ UNCHANGED <<plugin, pc, expired, leader, status, cancelled, session, code>>

Reap(c) ==
  /\ kind[c] = "command" /\ leader[c] = "exited"
  /\ leader' = [leader EXCEPT ![c] = "reaped"]
  /\ UNCHANGED <<plugin, pc, expired, status, child, cancelled, session, code>>

(* Mutant of Watch: exec.Command instead of exec.CommandContext.           *)
WatchNothing(c) == FALSE /\ Reap(c)

(* Cmd's watcher: the context has ended before the process was reaped.     *)
(* Killing a process that has exited by itself succeeds too.               *)
Watch(c) ==
  /\ kind[c] = "command" /\ expired[c] /\ ~cancelled[c]
  /\ leader[c] \in {"running", "exited"}
  /\ cancelled' = [cancelled EXCEPT ![c] = TRUE]
  /\ leader' = [leader EXCEPT ![c] = "exited"]
  /\ status' = [status EXCEPT ![c] = IF leader[c] = "running" THEN "nonzero" ELSE @]
  /\ UNCHANGED <<plugin, pc, expired, child, session, code>>

OutputOpen(c) == leader[c] = "running" \/ (hinders[c] /\ child[c] = "running")

(* Mutant of RunReturns: it waits neither for the output nor to reap.      *)
RunReturnsEarly(c) ==
  /\ kind[c] = "command" /\ leader[c] \in {"exited", "reaped"}
  /\ \/ Answer(c, "running", "result") /\ ~expired[c]
     \/ Goto(c, "running", "killing") /\ expired[c] /\ UNCHANGED code
  /\ UNCHANGED <<plugin, expired, proc, cancelled, session>>

(* Run returns when the process was reaped and the output is closed.  An   *)
(* error is a timeout if the context has ended; otherwise an exit code is  *)
(* a result and any other error, such as one of the pipe, is not.          *)
RunReturns(c) ==
  LET failed == status[c] = "nonzero" \/ cancelled[c]
  IN /\ kind[c] = "command"
     /\ leader[c] = "reaped" /\ ~OutputOpen(c)
     /\ \/ Answer(c, "running", "result") /\ ~(failed /\ expired[c])
        \/ Answer(c, "running", "CONNECTOR_ERROR") /\ ~failed /\ ~expired[c]
        \/ Goto(c, "running", "killing") /\ expired[c] /\ UNCHANGED code
     /\ UNCHANGED <<plugin, expired, proc, cancelled, session>>

(* killProcessGroup: Getpgid knows only a process that was not reaped, and *)
(* killing the process itself, which comes instead, finds it finished.     *)
KillProcessGroup(c) ==
  /\ Answer(c, "killing", "PLUGIN_TIMEOUT")
  /\ child' = IF leader[c] # "reaped" /\ child[c] = "running"
              THEN [child EXCEPT ![c] = "ended"] ELSE child
  /\ UNCHANGED <<plugin, expired, leader, status, cancelled, session>>

-----------------------------------------------------------------------------
(* Remote: dialling obeys the context and a timeout of its own ...         *)
Dial(c) ==
  /\ kind[c] = "ssh"
  /\ \/ Goto(c, "called", "handshake") /\ ~expired[c] /\ UNCHANGED code
     \/ Answer(c, "called", "CONNECTOR_ERROR")
  /\ UNCHANGED <<plugin, expired, proc, cancelled, session>>

(* ... the handshake and the opening of the session obey neither.          *)
Handshake(c) ==
  /\ \/ /\ Goto(c, "handshake", "running")
        /\ leader' = [leader EXCEPT ![c] = "running"]
        /\ runner' = [runner EXCEPT ![c] = "running"]
        /\ UNCHANGED code
     \/ /\ Answer(c, "handshake", "CONNECTOR_ERROR")
        /\ UNCHANGED <<leader, runner>>
  /\ UNCHANGED <<plugin, expired, status, child, cancelled, done>>

(* Mutant of RunnerEnds: the channel has no buffer.                        *)
RunnerEndsUnbuffered(c) ==
  /\ pc[c] = "running"
  /\ runner[c] = "running"
  /\ \/ leader[c] = "exited" /\ done' = [done EXCEPT ![c] = "exit"]
     \/ done' = [done EXCEPT ![c] = "error"]
  /\ runner' = [runner EXCEPT ![c] = "ended"]
  /\ UNCHANGED <<plugin, pc, expired, proc, cancelled, code>>

(* session.Run returns: the process has exited, or the connection is lost  *)
(* or closed.  The channel has room for its only result.                   *)
RunnerEnds(c) ==
  /\ runner[c] = "running"
  /\ \/ leader[c] = "exited" /\ done' = [done EXCEPT ![c] = "exit"]
     \/ done' = [done EXCEPT ![c] = "error"]
  /\ runner' = [runner EXCEPT ![c] = "ended"]
  /\ UNCHANGED <<plugin, pc, expired, proc, cancelled, code>>

(* Mutant of SelectDone: the error of Run is handed on as it is.           *)
SelectDoneUnwrapped(c) ==
  /\ kind[c] = "ssh" /\ done[c] # "empty"
  /\ Answer(c, "running", done[c])
  /\ done' = [done EXCEPT ![c] = "empty"]
  /\ UNCHANGED <<plugin, expired, proc, cancelled, runner>>

SelectDone(c) ==
  /\ kind[c] = "ssh" /\ done[c] # "empty"
  /\ Answer(c, "running", IF done[c] = "exit" THEN "result" ELSE "CONNECTOR_ERROR")
  /\ done' = [done EXCEPT ![c] = "empty"]
  /\ UNCHANGED <<plugin, expired, proc, cancelled, runner>>

(* Mutant of SelectContext: what was collected so far is returned.         *)
SelectContextPartial(c) ==
  /\ kind[c] = "ssh" /\ expired[c]
  /\ Answer(c, "running", "result")
  /\ UNCHANGED <<plugin, expired, proc, cancelled, session>>

(* The deferred calls close the session and the connection.                *)
SelectContext(c) ==
  /\ kind[c] = "ssh" /\ expired[c]
  /\ Answer(c, "running", "PLUGIN_TIMEOUT")
  /\ UNCHANGED <<plugin, expired, proc, cancelled, session>>

Expire(c) ==
  /\ pc[c] # "answered" /\ ~expired[c]
  /\ expired' = [expired EXCEPT ![c] = TRUE]
  /\ UNCHANGED <<plugin, pc, proc, cancelled, session, code>>

-----------------------------------------------------------------------------
Local(c) == \/ Start(c) \/ StartFails(c) \/ Watch(c) \/ Reap(c) \/ RunReturns(c)
            \/ KillProcessGroup(c)

Remote(c) == Dial(c) \/ SelectDone(c) \/ SelectContext(c)

Done == (\A c \in Calls : pc[c] = "answered") /\ UNCHANGED vars

Next == \/ \E c \in Calls :
             \/ Refuse(c) \/ Local(c) \/ Remote(c) \/ Handshake(c) \/ RunnerEnds(c)
             \/ LeaderForks(c) \/ LeaderExits(c) \/ ChildEnds(c) \/ Expire(c)
        \/ Done

Spec == Init /\ [][Next]_vars

(* The code and the libraries it calls go on, the deadline passes, and a   *)
(* closed connection ends session.Run.  Nothing is assumed of processes,   *)
(* and of an SSH peer only that it answers if it does not hinder.          *)
FairSpec ==
  /\ Spec
  /\ \A c \in Calls : /\ WF_vars(Local(c)) /\ WF_vars(Remote(c))
                      /\ WF_vars(~hinders[c] /\ Handshake(c))
                      /\ WF_vars(Expire(c))
                      /\ WF_vars(pc[c] = "answered" /\ RunnerEnds(c))

-----------------------------------------------------------------------------
(* TYPE.  The answer is there exactly when the call has returned.          *)
TypeOK ==
  /\ kind \in [Calls -> {"command", "ssh"}]
  /\ hinders \in [Calls -> BOOLEAN]
  /\ pc \in [Calls -> Labels]
  /\ expired \in [Calls -> BOOLEAN]
  /\ leader \in [Calls -> {"none", "running", "exited", "reaped"}]
  /\ status \in [Calls -> {"none", "zero", "nonzero"}]
  /\ child \in [Calls -> {"none", "running", "ended"}]
  /\ cancelled \in [Calls -> BOOLEAN]
  /\ runner \in [Calls -> {"none", "running", "ended"}]
  /\ done \in [Calls -> {"empty", "exit", "error"}]
  /\ code \in [Calls -> Codes \cup {"none"}]
  /\ \A c \in Calls : code[c] = "none" <=> pc[c] # "answered"

(* The buffers are read when nobody writes to them any more: a result is   *)
(* returned only after the process was reaped and the pipe closed, or      *)
(* after session.Run has ended.                                            *)
OutputSettled ==
  \A c \in Calls :
    code[c] = "result" => IF kind[c] = "command"
                          THEN leader[c] = "reaped" /\ ~OutputOpen(c)
                          ELSE runner[c] = "ended"

(* No answer leaves a local process behind that was started for it,        *)
(* running or as a zombie; its children are another matter.                *)
LeaderReaped ==
  \A c \in Calls :
    (kind[c] = "command" /\ pc[c] = "answered") => leader[c] \in {"none", "reaped"}

(* A call ends with its context, unless children keep the output of a      *)
(* command open or an SSH peer stays silent after it has accepted.         *)
ExecEnds == \A c \in Calls : ~hinders[c] ~> pc[c] = "answered"

(* The goroutine of session.Run ends after its caller has gone.            *)
RunnerEventuallyEnds ==
  \A c \in Calls : pc[c] = "answered" ~> runner[c] \in {"none", "ended"}

-----------------------------------------------------------------------------
(* Statements of the documentation that the code does not keep.            *)

(* "Respects cancellation and timeout of the context"                      *)
(* (docs/connector.md:38, 221): every call ends.                           *)
ExecRespectsContext == \A c \in Calls : expired[c] ~> pc[c] = "answered"

(* "New process group so cancel can kill children" (command.go:81): no     *)
(* child survives a local call that has timed out.                         *)
CancelKillsChildren ==
  \A c \in Calls :
    (kind[c] = "command" /\ code[c] = "PLUGIN_TIMEOUT") => child[c] # "running"
=============================================================================
