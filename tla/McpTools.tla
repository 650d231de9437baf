------------------------------ MODULE McpTools ------------------------------
(***************************************************************************)
(* tools/call and tools/list (mcp.Server) while reloads replace the tables *)
(* they read.  A call looks its name up among the plugins, then among the  *)
(* OpenAPI tools, where Registry.Call looks it up once more, reads the     *)
(* service from the configuration for its timeout and again in http.Do for *)
(* its address: up to five reads under three locks.  A list reads the two  *)
(* tables one after the other.  What a plugin or an HTTP request then does *)
(* is not modelled here.                                                   *)
(***************************************************************************)
EXTENDS Reload

CONSTANT Clients  \* goroutines that serve tools/call and tools/list requests

VARIABLES
  cpc, cname,   \* where each request is, and the name a call asks for
  route,        \* the table entry the call has found, or the <<"none", None>> entry
  outcome,      \* how the call was answered
  listed,       \* for each kind, the names a list has read
  seen,         \* history: the bindings cname has had since the call began
  steady        \* history: names that were never unbound since the list began

local == <<cname, route, outcome, listed>>
watch == <<seen, steady>>
mcpVars == <<vars, cpc, local, watch>>

NoRoute == <<"none", None>>
Kinds == {"plugin", "api"}
CallLabels == {"idle", "findPlugin", "findTool", "callTool", "readService",
               "send", "done"}
ListLabels == {"listPlugins", "listTools", "listed"}
Outcomes == {"pending", "ran", "sent", "notFound", "invalidParams", "noService"}

McpInit ==
  /\ Init
  /\ cpc = [c \in Clients |-> "idle"]
  /\ cname \in [Clients -> Names]
  /\ route = [c \in Clients |-> NoRoute]
  /\ outcome = [c \in Clients |-> "pending"]
  /\ listed = [c \in Clients |-> [k \in Kinds |-> {}]]
  /\ seen = [c \in Clients |-> {}]
  /\ steady = [c \in Clients |-> {}]

(* A step of a reload or of the operator, watched by calls and lists.      *)
TablesStep ==
  /\ Next
  /\ UNCHANGED <<cpc, local>>
  /\ seen' = [c \in Clients |->
                IF cpc[c] \in CallLabels \ {"idle", "done"}
                THEN seen[c] \cup {BindingOf(cname[c])'} ELSE seen[c]]
  /\ steady' = [c \in Clients |->
                  {n \in steady[c] : BindingOf(n)' # NoRoute}]

-----------------------------------------------------------------------------
(* tools/call                                                              *)

Proceed(c, from, to) == cpc[c] = from /\ cpc' = [cpc EXCEPT ![c] = to]

Answer(c, o) == outcome' = [outcome EXCEPT ![c] = o]

BeginCall(c, n) ==
  /\ Proceed(c, "idle", "findPlugin")
  /\ cname' = [cname EXCEPT ![c] = n]
  /\ seen' = [seen EXCEPT ![c] = {BindingOf(n)}]
  /\ UNCHANGED <<vars, route, outcome, listed, steady>>

(* s.plugins.Get(name): the executor runs the plugin that was found, even  *)
(* if a reload replaces it meanwhile.                                      *)
FindPlugin(c) ==
  /\ \/ /\ plugins[cname[c]] # None
        /\ Proceed(c, "findPlugin", "done")
        /\ route' = [route EXCEPT ![c] = <<"plugin", plugins[cname[c]]>>]
        /\ Answer(c, "ran")
     \/ /\ plugins[cname[c]] = None
        /\ Proceed(c, "findPlugin", "findTool")
        /\ UNCHANGED <<route, outcome>>
  /\ UNCHANGED <<vars, cname, listed, watch>>

(* s.apiTools.Get(name)                                                    *)
FindTool(c) ==
  /\ \/ /\ tools[cname[c]] # None
        /\ Proceed(c, "findTool", "callTool")
        /\ UNCHANGED outcome
     \/ /\ tools[cname[c]] = None
        /\ Proceed(c, "findTool", "done")
        /\ Answer(c, "notFound")
  /\ UNCHANGED <<vars, cname, route, listed, watch>>

(* Mutant of CallTool: the second lookup is taken to succeed.              *)
CallToolUnchecked(c) ==
  /\ route' = [route EXCEPT ![c] = <<"api", tools[cname[c]]>>]
  /\ \/ Proceed(c, "callTool", "readService") /\ UNCHANGED outcome
     \/ Proceed(c, "callTool", "done") /\ Answer(c, "invalidParams")
  /\ UNCHANGED <<vars, cname, listed, watch>>

(* Registry.Call gets the tool again; its arguments may be refused.        *)
CallTool(c) ==
  /\ \/ /\ tools[cname[c]] = None
        /\ Proceed(c, "callTool", "done")
        /\ Answer(c, "notFound")
        /\ UNCHANGED route
     \/ /\ tools[cname[c]] # None
        /\ route' = [route EXCEPT ![c] = <<"api", tools[cname[c]]>>]
        /\ \/ Proceed(c, "callTool", "readService") /\ UNCHANGED outcome
           \/ Proceed(c, "callTool", "done") /\ Answer(c, "invalidParams")
  /\ UNCHANGED <<vars, cname, listed, watch>>

(* cfg.GetAPI in Registry.Call, and again in http.Do.                      *)
ReadService(c) ==
  /\ \/ route[c][2] \in cfg /\ Proceed(c, "readService", "send") /\ UNCHANGED outcome
     \/ route[c][2] \notin cfg /\ Proceed(c, "readService", "done")
          /\ Answer(c, "noService")
  /\ UNCHANGED <<vars, cname, route, listed, watch>>

Send(c) ==
  /\ Proceed(c, "send", "done")
  /\ Answer(c, IF route[c][2] \in cfg THEN "sent" ELSE "noService")
  /\ UNCHANGED <<vars, cname, route, listed, watch>>

EndCall(c) ==
  /\ Proceed(c, "done", "idle")
  /\ route' = [route EXCEPT ![c] = NoRoute]
  /\ outcome' = [outcome EXCEPT ![c] = "pending"]
  /\ seen' = [seen EXCEPT ![c] = {}]
  /\ UNCHANGED <<vars, cname, listed, steady>>

-----------------------------------------------------------------------------
(* tools/list                                                              *)

BeginList(c) ==
  /\ Proceed(c, "idle", "listPlugins")
  /\ steady' = [steady EXCEPT ![c] = {n \in Names : BindingOf(n) # NoRoute}]
  /\ UNCHANGED <<vars, local, seen>>

ListPlugins(c) ==
  /\ Proceed(c, "listPlugins", "listTools")
  /\ listed' = [listed EXCEPT ![c]["plugin"] = Bound(plugins)]
  /\ UNCHANGED <<vars, cname, route, outcome, watch>>

ListTools(c) ==
  /\ Proceed(c, "listTools", "listed")
  /\ listed' = [listed EXCEPT ![c]["api"] = Bound(tools)]
  /\ UNCHANGED <<vars, cname, route, outcome, watch>>

EndList(c) ==
  /\ Proceed(c, "listed", "idle")
  /\ listed' = [listed EXCEPT ![c] = [k \in Kinds |-> {}]]
  /\ steady' = [steady EXCEPT ![c] = {}]
  /\ UNCHANGED <<vars, cname, route, outcome, seen>>

-----------------------------------------------------------------------------
McpNext ==
  \/ TablesStep
  \/ \E c \in Clients :
        \/ \E n \in Names : BeginCall(c, n)
        \/ FindPlugin(c) \/ FindTool(c) \/ CallTool(c)
        \/ ReadService(c) \/ Send(c) \/ EndCall(c)
        \/ BeginList(c) \/ ListPlugins(c) \/ ListTools(c) \/ EndList(c)

McpSpec == McpInit /\ [][McpNext]_mcpVars

-----------------------------------------------------------------------------
(* TYPE.  A call that has an entry of the OpenAPI table has it before it   *)
(* reads the service of that entry; answers and labels agree.              *)
McpTypeOK ==
  /\ TypeOK
  /\ cpc \in [Clients -> CallLabels \cup ListLabels]
  /\ cname \in [Clients -> Names]
  /\ route \in [Clients -> Table!Binding]
  /\ outcome \in [Clients -> Outcomes]
  /\ \A c \in Clients : /\ outcome[c] # "pending" <=> cpc[c] = "done"
                        /\ cpc[c] \in {"readService", "send"} => route[c][1] = "api"
  /\ listed \in [Clients -> [Kinds -> SUBSET Names]]

(* A call's several reads amount to one: as long as requests writing       *)
(* different tables do not overlap, what a call reached, or its not        *)
(* finding the name, was the name's binding at one instant of the call.    *)
LookupLinearizable ==
  \A c \in Clients :
    (~overlapped /\ cpc[c] = "done") => route[c] \in seen[c]

(* tools/list leaves out no name that was bound all the while, although it *)
(* reads the tables at different times and a name may move from one to the *)
(* other: each reload frees a name before another one may take it.         *)
ListComplete ==
  \A c \in Clients :
    (~overlapped /\ cpc[c] = "listed")
       => steady[c] \subseteq listed[c]["plugin"] \cup listed[c]["api"]
=============================================================================
