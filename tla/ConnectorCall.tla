--------------------------- MODULE ConnectorCall ---------------------------
(***************************************************************************)
(* What the calls of the resource connectors have in common.  A script     *)
(* makes one call at a time: the request is validated, the named resource  *)
(* is looked up in the configuration (once for a limit, again for its      *)
(* address where the code does so), a client is opened and tried, requests *)
(* are exchanged, and the deferred Close runs on the way out.  A reload of *)
(* the configuration may fall between any two steps.                       *)
(*                                                                         *)
(* The modules that extend this one say what each connector exchanges.     *)
(* They keep the state of the other side in remote and what the call has   *)
(* collected in got; both are reset between calls.  Requests that are      *)
(* refused for their own contents share one action, Refuse.                *)
(***************************************************************************)
EXTENDS Integers, FiniteSets

CONSTANTS MaxLimit,   \* bound on the limits of requests and resources
          MaxReloads  \* bound on reloads of the configuration during a call

ASSUME CallAssumption == MaxLimit \in Nat \ {0} /\ MaxReloads \in Nat

VARIABLES
  pc, op, want,        \* where the call is, its operation, the limit it asks for
  entry, gen,          \* what the name stands for; how often that was replaced
  limit, client,       \* the limit in force; the client
  remote, got, code    \* the other side; what was collected; how the call ends

request == <<op, want>>
config == <<entry, gen>>
vars == <<pc, request, config, limit, client, remote, got, code>>

(* At "lookup", "resolve" and "dial" a call is about to read, or has just   *)
(* read, the configuration; at the next three it has no use for it.         *)
Labels == {"idle", "lookup", "resolve", "dial", "address", "connect", "load",
           "write", "ping", "exchange", "close", "done"}

(* PLUGIN_TIMEOUT is what ssh.exec answers when the context ends; docker   *)
(* passes it on.                                                           *)
Codes == {"pending", "ok", "INVALID_PARAMS", "CONNECTOR_ERROR", "PLUGIN_TIMEOUT"}
Nothing == [kind |-> "nothing"]

(* A name is unknown, or stands for settings with a positive limit (the    *)
(* loaders put DefaultQueryLimit where the file has none); the settings    *)
(* are sound unless the client cannot be built from them and the request:  *)
(* TLS material, SASL, a blank broker list, a negative database number.    *)
Absent == [known |-> FALSE, sound |-> FALSE, limit |-> 0]
Entries == {Absent} \cup [known : {TRUE}, sound : BOOLEAN, limit : 1..MaxLimit]

Smaller(a, b) == IF a < b THEN a ELSE b

Init ==
  /\ pc = "idle" /\ op = "none" /\ want = 0
  /\ entry = Absent /\ gen = 0
  /\ limit = 0
  /\ client = "none"
  /\ remote = Nothing /\ got = Nothing /\ code = "pending"

Goto(from, to) == pc = from /\ pc' = to

(* Return; the deferred Close comes first if there is a client.            *)
Answer(from, c) ==
  /\ Goto(from, IF client = "open" THEN "close" ELSE "done")
  /\ code' = c

(* The call is in the exchange of one of the operations os, which ends it  *)
(* well with the result g.                                                 *)
At(os) == pc = "exchange" /\ op \in os

Reply(g) ==
  /\ Answer("exchange", "ok")
  /\ got' = g
  /\ UNCHANGED <<request, config, limit, client, remote>>

-----------------------------------------------------------------------------
(* A script calls operation o.  The configuration is what it then is,      *)
(* where the call reads it at all.                                         *)
Begin(o, n, to, there, empty) ==
  /\ Goto("idle", to)
  /\ op' = o
  /\ want' = n
  /\ remote' = there
  /\ got' = empty
  /\ entry' \in IF to \in {"lookup", "dial"} THEN Entries ELSE {Absent}
  /\ UNCHANGED <<gen, limit, client, code>>

(* A required field is missing, empty or malformed.                        *)
Refuse(o) ==
  /\ Answer("idle", "INVALID_PARAMS")
  /\ op' = o
  /\ UNCHANGED <<want, config, limit, client, remote, got>>

(* Mutant of Ping: a client that cannot reach its server is not closed.    *)
PingLeaking ==
  /\ \/ Goto("ping", "exchange") /\ UNCHANGED code
     \/ Goto("ping", "done") /\ code' = "CONNECTOR_ERROR"
  /\ UNCHANGED <<request, config, limit, client, remote, got>>

(* The server is tried before the first request; a client that does not    *)
(* reach it is closed at once.                                             *)
Ping ==
  /\ \/ Goto("ping", "exchange") /\ UNCHANGED <<client, code>>
     \/ Goto("ping", "done") /\ client' = "closed" /\ code' = "CONNECTOR_ERROR"
  /\ UNCHANGED <<request, config, limit, remote, got>>

(* A request fails: the server refuses it, the connection breaks, or the   *)
(* context of the call has ended.  A malformed one (-1) is never sent.     *)
RequestFails ==
  /\ want >= 0
  /\ Answer("exchange", "CONNECTOR_ERROR")
  /\ UNCHANGED <<request, config, limit, client, remote, got>>

Close ==
  /\ Goto("close", "done")
  /\ client' = "closed"
  /\ UNCHANGED <<request, config, limit, remote, got, code>>

Finish ==
  /\ Goto("done", "idle")
  /\ op' = "none" /\ want' = 0
  /\ entry' = Absent /\ gen' = 0
  /\ limit' = 0
  /\ client' = "none"
  /\ remote' = Nothing /\ got' = Nothing /\ code' = "pending"

(* POST /api/reload installs another configuration.  Reloads after the     *)
(* dialling are left out: no call reads the configuration any more.        *)
Reload ==
  /\ pc \in {"lookup", "resolve", "dial"}
  /\ gen < MaxReloads
  /\ gen' = gen + 1
  /\ entry' \in Entries \ {entry}
  /\ UNCHANGED <<pc, request, limit, client, remote, got, code>>

-----------------------------------------------------------------------------
CallTypeOK ==
  /\ pc \in Labels
  /\ want \in Int
  /\ entry \in Entries
  /\ gen \in 0..MaxReloads
  /\ limit \in 0..MaxLimit
  /\ client \in {"none", "open", "closed"}
  /\ code \in Codes
  /\ (code = "pending") = (pc \notin {"close", "done"})

(* An answered call has no client left: every path out of it, a refusal,   *)
(* a failed ping, an error in the middle of an exchange, closed what it    *)
(* opened, and a client is in use only between dialling and closing.       *)
ClientReleased ==
  /\ pc \in {"idle", "lookup", "resolve", "dial", "address", "connect", "load", "done"} =>
       client # "open"
  /\ pc \in {"write", "ping", "exchange", "close"} => client = "open"
=============================================================================
