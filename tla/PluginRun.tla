----------------------------- MODULE PluginRun -----------------------------
(***************************************************************************)
(* One tools/call of a disk plugin: Executor.Execute and Runtime.Execute.  *)
(* The calling goroutine loads the script into a fresh VM, starts a second *)
(* goroutine that runs execute(ctx), and waits for the first of three      *)
(* events: the context ends, the timer fires, the goroutine's result is in *)
(* the channel.  The script is free to compute, throw, loop, call          *)
(* connectors and catch their errors; a connector call is native code,     *)
(* which Interrupt does not stop.                                          *)
(*                                                                         *)
(* Calls share nothing but the connectors, so each has a variable slot of  *)
(* its own.  Results are kept by their error code, "value" for success.    *)
(***************************************************************************)
EXTENDS Naturals

CONSTANT Calls

VARIABLES
  toplevel,     \* whether the script's top-level code ends or loops
  connectors,   \* whether connectors return once the context has ended, or hang
  main,         \* the calling goroutine
  worker,       \* the goroutine that runs execute(ctx)
  expired,      \* ctx.Done() is closed: deadline, client gone, or cancel()
  timer,        \* time.NewTimer(timeout)
  interrupted,  \* vm.Interrupt was called
  result,       \* what the worker is about to send
  ch,           \* the channel, of capacity 1
  answer        \* the code the caller gets

plugin == <<toplevel, connectors>>
vars == <<plugin, main, worker, expired, timer, interrupted, result, ch, answer>>

Codes == {"value", "RUNTIME_ERROR", "CONNECTOR_ERROR", "PLUGIN_TIMEOUT", "INVALID_PARAMS"}
Empty == "empty"

Init ==
  /\ toplevel \in [Calls -> {"ends", "loops"}]
  /\ connectors \in [Calls -> {"return", "hang"}]
  /\ main = [c \in Calls |-> "called"]
  /\ worker = [c \in Calls |-> "none"]
  /\ expired = [c \in Calls |-> FALSE]
  /\ timer = [c \in Calls |-> "unset"]
  /\ interrupted = [c \in Calls |-> FALSE]
  /\ result = [c \in Calls |-> Empty]
  /\ ch = [c \in Calls |-> Empty]
  /\ answer = [c \in Calls |-> Empty]

-----------------------------------------------------------------------------
(* The calling goroutine.  Execute returns through "defer cancel()", which *)
(* ends the context, and through "defer timer.Stop()".                     *)

Return(c, code) ==
  /\ main' = [main EXCEPT ![c] = "answered"]
  /\ answer' = [answer EXCEPT ![c] = code]
  /\ expired' = [expired EXCEPT ![c] = TRUE]
  /\ timer' = [timer EXCEPT ![c] = "unset"]

(* validateParams, then context.WithTimeout.                               *)
Refuse(c) ==
  /\ main[c] = "called"
  /\ main' = [main EXCEPT ![c] = "answered"]
  /\ answer' = [answer EXCEPT ![c] = "INVALID_PARAMS"]
  /\ UNCHANGED <<plugin, worker, expired, timer, interrupted, result, ch>>

BeginLoad(c) ==
  /\ main[c] = "called"
  /\ main' = [main EXCEPT ![c] = "loading"]
  /\ UNCHANGED <<plugin, worker, expired, timer, interrupted, result, ch, answer>>

(* vm.RunString fails, or the script defines no execute function.          *)
LoadFails(c) ==
  /\ main[c] = "loading" /\ toplevel[c] = "ends"
  /\ Return(c, "RUNTIME_ERROR")
  /\ UNCHANGED <<plugin, worker, interrupted, result, ch>>

(* RunString runs on: one more turn of a loop at top level.                *)
LoadLoops(c) ==
  /\ main[c] = "loading" /\ toplevel[c] = "loops"
  /\ UNCHANGED vars

(* The script's top-level code has ended: start the goroutine and the      *)
(* timer.  Nothing before this point watches the time.                     *)
LoadEnds(c) ==
  /\ main[c] = "loading" /\ toplevel[c] = "ends"
  /\ main' = [main EXCEPT ![c] = "selecting"]
  /\ worker' = [worker EXCEPT ![c] = "script"]
  /\ timer' = [timer EXCEPT ![c] = "armed"]
  /\ UNCHANGED <<plugin, expired, interrupted, result, ch, answer>>

(* Mutants of GiveUp: the script is not interrupted; the caller waits for  *)
(* the worker to hand over its result.                                     *)
GiveUpQuietly(c) ==
  /\ Return(c, "PLUGIN_TIMEOUT")
  /\ UNCHANGED <<plugin, worker, interrupted, result, ch>>

GiveUpJoining(c) ==
  /\ ch[c] # Empty
  /\ interrupted' = [interrupted EXCEPT ![c] = TRUE]
  /\ Return(c, "PLUGIN_TIMEOUT")
  /\ UNCHANGED <<plugin, worker, result, ch>>

(* The select of Runtime.Execute: any branch that is ready may be taken.   *)
GiveUp(c) ==
  /\ interrupted' = [interrupted EXCEPT ![c] = TRUE]
  /\ Return(c, "PLUGIN_TIMEOUT")
  /\ UNCHANGED <<plugin, worker, result, ch>>

SelectContext(c) == main[c] = "selecting" /\ expired[c] /\ GiveUp(c)

SelectTimer(c) == main[c] = "selecting" /\ timer[c] = "fired" /\ GiveUp(c)

(* Mutant of SelectResult: the branch forgets to return the result.        *)
SelectResultUnanswered(c) ==
  /\ main[c] = "selecting"
  /\ ch[c] # Empty
  /\ ch' = [ch EXCEPT ![c] = Empty]
  /\ Return(c, Empty)
  /\ UNCHANGED <<plugin, worker, interrupted, result>>

SelectResult(c) ==
  /\ main[c] = "selecting"
  /\ ch[c] # Empty
  /\ ch' = [ch EXCEPT ![c] = Empty]
  /\ Return(c, ch[c])
  /\ UNCHANGED <<plugin, worker, interrupted, result>>

-----------------------------------------------------------------------------
(* Time, and the client.                                                   *)

ContextEnds(c) ==
  /\ main[c] \in {"loading", "selecting"}
  /\ ~expired[c]
  /\ expired' = [expired EXCEPT ![c] = TRUE]
  /\ UNCHANGED <<plugin, main, worker, timer, interrupted, result, ch, answer>>

TimerFires(c) ==
  /\ timer[c] = "armed"
  /\ timer' = [timer EXCEPT ![c] = "fired"]
  /\ UNCHANGED <<plugin, main, worker, expired, interrupted, result, ch, answer>>

-----------------------------------------------------------------------------
(* The worker goroutine.                                                   *)

Produce(c, from, code) ==
  /\ worker[c] = from
  /\ worker' = [worker EXCEPT ![c] = "sending"]
  /\ result' = [result EXCEPT ![c] = code]
  /\ UNCHANGED <<plugin, main, expired, timer, interrupted, ch, answer>>

(* execute(ctx) returns a value, throws (a plain exception is wrapped as   *)
(* RUNTIME_ERROR, an object with a code keeps that code) or panics.        *)
ScriptEnds(c) == ~interrupted[c] /\ \E code \in Codes : Produce(c, "script", code)

(* An interrupted script stops at its next instruction; InterruptedError   *)
(* cannot be caught in JavaScript and is wrapped as RUNTIME_ERROR.         *)
ScriptInterrupted(c) == interrupted[c] /\ Produce(c, "script", "RUNTIME_ERROR")

Worker(c, from, to) ==
  /\ worker[c] = from
  /\ worker' = [worker EXCEPT ![c] = to]
  /\ UNCHANGED <<plugin, main, expired, timer, interrupted, result, ch, answer>>

CallConnector(c) == ~interrupted[c] /\ Worker(c, "script", "native")

(* The connector answers, or the script catches its error.                 *)
ConnectorReturns(c) == Worker(c, "native", "script")

(* The connector's error is thrown into the script and not caught.  When   *)
(* the context has ended it is PLUGIN_TIMEOUT from ssh.exec and            *)
(* command.exec, CONNECTOR_ERROR from snmp, http, tcp, udp and the stores. *)
ConnectorFails(c) ==
  \/ \E code \in {"CONNECTOR_ERROR", "INVALID_PARAMS"} : Produce(c, "native", code)
  \/ expired[c] /\ Produce(c, "native", "PLUGIN_TIMEOUT")

(* Mutants of Send: a recovered panic sends a second result; the channel   *)
(* has no buffer.                                                          *)
SendTwice(c) ==
  /\ worker[c] = "sending"
  /\ ch[c] = Empty
  /\ ch' = [ch EXCEPT ![c] = result[c]]
  /\ worker' = [worker EXCEPT ![c] = IF result[c] = "RUNTIME_ERROR" THEN "sending"
                                      ELSE "ended"]
  /\ UNCHANGED <<plugin, main, expired, timer, interrupted, result, answer>>

SendUnbuffered(c) ==
  /\ main[c] = "selecting"
  /\ worker[c] = "sending"
  /\ ch[c] = Empty
  /\ ch' = [ch EXCEPT ![c] = result[c]]
  /\ worker' = [worker EXCEPT ![c] = "ended"]
  /\ UNCHANGED <<plugin, main, expired, timer, interrupted, result, answer>>

Send(c) ==
  /\ worker[c] = "sending"
  /\ ch[c] = Empty
  /\ ch' = [ch EXCEPT ![c] = result[c]]
  /\ worker' = [worker EXCEPT ![c] = "ended"]
  /\ UNCHANGED <<plugin, main, expired, timer, interrupted, result, answer>>

-----------------------------------------------------------------------------
Main(c) == \/ Refuse(c) \/ BeginLoad(c) \/ LoadFails(c) \/ LoadLoops(c) \/ LoadEnds(c)
           \/ SelectContext(c) \/ SelectTimer(c) \/ SelectResult(c)

Script(c) == \/ ScriptEnds(c) \/ ScriptInterrupted(c) \/ CallConnector(c)
             \/ ConnectorReturns(c) \/ ConnectorFails(c) \/ Send(c)

Done == /\ \A c \in Calls : main[c] = "answered" /\ worker[c] \in {"none", "ended"}
        /\ UNCHANGED vars

Next == \/ \E c \in Calls : Main(c) \/ Script(c) \/ ContextEnds(c) \/ TimerFires(c)
        \/ Done

Spec == Init /\ [][Next]_vars

(* The scheduler runs every goroutine that can run and the clock goes on.  *)
(* Nothing is assumed of execute(ctx) while it is not interrupted: it may  *)
(* loop.  Top-level code loops only where toplevel says so, and a          *)
(* connector is sure to return after its context has ended only where      *)
(* connectors says so.                                                     *)
Select(c) == SelectContext(c) \/ SelectTimer(c) \/ SelectResult(c)

ConnectorEnds(c) ==
  connectors[c] = "return" /\ expired[c] /\ (ConnectorReturns(c) \/ ConnectorFails(c))

FairSpec ==
  /\ Spec
  /\ \A c \in Calls : /\ WF_vars(Refuse(c) \/ BeginLoad(c))
                      /\ WF_vars(LoadFails(c) \/ LoadEnds(c))
                      /\ WF_vars(Select(c))
                      /\ WF_vars(ContextEnds(c))
                      /\ WF_vars(TimerFires(c))
                      /\ WF_vars(ScriptInterrupted(c))
                      /\ WF_vars(ConnectorEnds(c))
                      /\ WF_vars(Send(c))

-----------------------------------------------------------------------------
(* TYPE.  In particular a result is sent at most once and the answer is    *)
(* there exactly when the call has returned.                               *)
TypeOK ==
  /\ toplevel \in [Calls -> {"ends", "loops"}]
  /\ connectors \in [Calls -> {"return", "hang"}]
  /\ main \in [Calls -> {"called", "loading", "selecting", "answered"}]
  /\ worker \in [Calls -> {"none", "script", "native", "sending", "ended"}]
  /\ expired \in [Calls -> BOOLEAN]
  /\ timer \in [Calls -> {"unset", "armed", "fired"}]
  /\ interrupted \in [Calls -> BOOLEAN]
  /\ result \in [Calls -> Codes \cup {Empty}]
  /\ ch \in [Calls -> Codes \cup {Empty}]
  /\ answer \in [Calls -> Codes \cup {Empty}]
  /\ \A c \in Calls : answer[c] = Empty <=> main[c] # "answered"

(* The worker's send never blocks, whether or not anybody still receives:  *)
(* a goroutine whose caller has given up does not leak on the channel.     *)
SendNeverBlocks == \A c \in Calls : worker[c] = "sending" => ch[c] = Empty

(* No script runs on unsupervised: once its call is answered, a worker     *)
(* that still runs has been interrupted and its context has ended.         *)
NoStrayScript ==
  \A c \in Calls :
    (main[c] = "answered" /\ worker[c] \in {"script", "native"})
       => interrupted[c] /\ expired[c]

(* Whatever execute(ctx) and its connectors do, the call is answered, as   *)
(* long as the script's top-level code ends.                               *)
LoadedCallAnswered == \A c \in Calls : toplevel[c] = "ends" ~> main[c] = "answered"

(* After the answer the worker goroutine ends, provided connectors return  *)
(* after their context has ended.                                          *)
WorkerEnds ==
  \A c \in Calls :
    (main[c] = "answered" /\ connectors[c] = "return") ~> worker[c] \in {"none", "ended"}

-----------------------------------------------------------------------------
(* Statements of the documentation that the code does not keep.            *)

(* "Plugins obey the timeout of plugin.yml; the Executor starts the clock" *)
(* (docs/runtime.md:9, 539): every call is answered.                       *)
EveryCallAnswered == \A c \in Calls : <>(main[c] = "answered")
=============================================================================
