----------------------------- MODULE McpProofs -----------------------------
(***************************************************************************)
(* Theorems about McpTools, for any number of clients, requests, names,    *)
(* services and directories.  What tools/call and tools/list rely on is    *)
(* that a name is never in both tables and that one step replaces one      *)
(* table: a name that leaves one table and enters the other is bound to    *)
(* nothing in between, and a request that runs meanwhile has seen that.    *)
(***************************************************************************)
EXTENDS McpTools, ReloadProofs

NotYet == {"idle", "findPlugin", "findTool", "callTool"} \cup ListLabels

McpTyped ==
  /\ cpc \in [Clients -> CallLabels \cup ListLabels]
  /\ cname \in [Clients -> Names]
  /\ route \in [Clients -> Table!Binding]
  /\ outcome \in [Clients -> Outcomes]
  /\ listed \in [Clients -> [Kinds -> SUBSET Names]]
  /\ \A c \in Clients : /\ outcome[c] # "pending" <=> cpc[c] = "done"
                        /\ cpc[c] \in {"readService", "send"} => route[c][1] = "api"
                        /\ cpc[c] \in NotYet => route[c] = NoRoute

McpTypeInv == TypeOK /\ McpTyped

-----------------------------------------------------------------------------
(* What the reload handler promises holds here too.                        *)
ClientStep(c) ==
  \/ \E n \in Names : BeginCall(c, n)
  \/ FindPlugin(c) \/ FindTool(c) \/ CallTool(c) \/ ReadService(c) \/ Send(c) \/ EndCall(c)
  \/ BeginList(c) \/ ListPlugins(c) \/ ListTools(c) \/ EndList(c)

LEMMA ClientsOnlyRead == ASSUME NEW c \in Clients, ClientStep(c) PROVE UNCHANGED vars
  BY DEF ClientStep, BeginCall, FindPlugin, FindTool, CallTool, ReadService, Send, EndCall,
         BeginList, ListPlugins, ListTools, EndList

LEMMA McpStepsAreSteps == [McpNext]_mcpVars => [Next]_vars
  BY ClientsOnlyRead DEF McpNext, ClientStep, TablesStep, mcpVars

LEMMA McpIInv == McpSpec => []IInv
  <1>1. McpInit => IInv
    BY InitTypeOK, InitPhaseInv, InitReservedInv DEF McpInit, IInv
  <1>2. IInv /\ [McpNext]_mcpVars => IInv'
    BY McpStepsAreSteps, NextTypeOK, NextPhaseInv, NextReservedInv DEF IInv
  <1> QED
    BY <1>1, <1>2, PTL DEF McpSpec

(* One step replaces one of the two tables at most.                        *)
LEMMA OneTable == ASSUME [Next]_vars PROVE tools' = tools \/ plugins' = plugins
  BY DEF Next, Step, EditConfig, EditDoc, EditDir, Edit, BeginReload, ReadConfig, CommitConfig,
         ListAPIs, ReserveForTools, BuildTools, CommitTools, ScanPlugins, ReserveForPlugins,
         CommitPlugins, Reply, vars, tables

LEMMA OverlapStays == ASSUME IInv, [Next]_vars, ~overlapped' PROVE ~overlapped
  BY DEF IInv, TypeOK, Next, Step, EditConfig, EditDoc, EditDir, Edit, BeginReload, ReadConfig,
         CommitConfig, ListAPIs, ReserveForTools, BuildTools, CommitTools, ScanPlugins,
         ReserveForPlugins, CommitPlugins, Reply, vars, history

LEMMA Unique == ASSUME IInv, ~overlapped, NEW n \in Names PROVE tools[n] = None \/ plugins[n] = None
  BY DEF IInv, ReservedInv, Bound

-----------------------------------------------------------------------------
LEMMA Bindings ==
  /\ \A i \in Dirs : <<"plugin", i>> \in Table!Binding
  /\ \A s \in Services : <<"api", s>> \in Table!Binding
  /\ NoRoute \in Table!Binding
  BY DEF Table!Binding, NoRoute

(* A call gets on, with or without an entry and an answer.                 *)
LEMMA CallMoves ==
  ASSUME McpTyped, NEW c \in Clients, NEW to \in CallLabels,
         NEW o \in Outcomes, NEW b \in Table!Binding,
         cpc' = [cpc EXCEPT ![c] = to],
         outcome' = [outcome EXCEPT ![c] = o] \/ (outcome' = outcome /\ outcome[c] = o),
         route' = [route EXCEPT ![c] = b] \/ (route' = route /\ route[c] = b),
         UNCHANGED <<cname, listed>>,
         o # "pending" <=> to = "done",
         to \in {"readService", "send"} => b[1] = "api",
         to \in NotYet => b = NoRoute
  PROVE  McpTyped'
  <1>1. /\ cpc' \in [Clients -> CallLabels \cup ListLabels]
        /\ outcome' \in [Clients -> Outcomes]
        /\ route' \in [Clients -> Table!Binding]
    BY DEF McpTyped
  <1>2. /\ cpc'[c] = to /\ outcome'[c] = o /\ route'[c] = b
        /\ \A d \in Clients \ {c} : cpc'[d] = cpc[d] /\ outcome'[d] = outcome[d] /\ route'[d] = route[d]
    BY DEF McpTyped
  <1> QED
    BY <1>1, <1>2 DEF McpTyped

LEMMA NextMcpTyped ==
  ASSUME TypeOK, McpTyped, [McpNext]_mcpVars
  PROVE  McpTyped'
  <1> USE DEF McpTyped, CallLabels, ListLabels, Outcomes, NotYet, Proceed, Answer
  <1>1. CASE TablesStep
    BY <1>1 DEF TablesStep, local
  <1>2. CASE UNCHANGED mcpVars
    BY <1>2 DEF mcpVars, local
  <1>3. ASSUME NEW c \in Clients, NEW n \in Names, BeginCall(c, n) PROVE McpTyped'
    BY <1>3 DEF BeginCall
  <1>4. ASSUME NEW c \in Clients, FindPlugin(c) PROVE McpTyped'
    <2>0. cname[c] \in Names /\ plugins \in [Names -> Dirs \cup {None}]
      BY DEF TypeOK
    <2>1. plugins[cname[c]] \in Dirs \cup {None}
      BY <2>0
    <2>2. plugins[cname[c]] # None => <<"plugin", plugins[cname[c]]>> \in Table!Binding
      BY <2>1, Bindings
    <2>3. route[c] = NoRoute /\ outcome[c] = "pending"
      BY <1>4 DEF FindPlugin
    <2>4. CASE plugins[cname[c]] # None
      <3> DEFINE b == <<"plugin", plugins[cname[c]]>>
      <3>1. b \in Table!Binding
        BY <2>2, <2>4
      <3>2. /\ cpc' = [cpc EXCEPT ![c] = "done"] /\ outcome' = [outcome EXCEPT ![c] = "ran"]
            /\ route' = [route EXCEPT ![c] = b] /\ UNCHANGED <<cname, listed>>
        BY <1>4, <2>4 DEF FindPlugin
      <3> HIDE DEF b
      <3> QED
        BY <3>1, <3>2, CallMoves
    <2>5. CASE plugins[cname[c]] = None
      BY <1>4, <2>3, <2>5, Bindings, CallMoves DEF FindPlugin
    <2> QED
      BY <2>4, <2>5
  <1>5. ASSUME NEW c \in Clients, FindTool(c) PROVE McpTyped'
    <2>1. route[c] = NoRoute /\ outcome[c] = "pending"
      BY <1>5 DEF FindTool
    <2> QED
      BY <1>5, <2>1, Bindings, CallMoves DEF FindTool
  <1>6. ASSUME NEW c \in Clients, CallTool(c) PROVE McpTyped'
    <2>0. cname[c] \in Names /\ tools \in [Names -> Services \cup {None}]
      BY DEF TypeOK
    <2>1. tools[cname[c]] \in Services \cup {None}
      BY <2>0
    <2>2. tools[cname[c]] # None => <<"api", tools[cname[c]]>> \in Table!Binding
      BY <2>1, Bindings
    <2>3. route[c] = NoRoute /\ outcome[c] = "pending"
      BY <1>6 DEF CallTool
    <2>4. CASE tools[cname[c]] = None
      BY <1>6, <2>3, <2>4, Bindings, CallMoves DEF CallTool
    <2>5. CASE tools[cname[c]] # None
      <3> DEFINE b == <<"api", tools[cname[c]]>>
      <3>1. b \in Table!Binding /\ b[1] = "api"
        BY <2>2, <2>5
      <3>2. /\ route' = [route EXCEPT ![c] = b] /\ UNCHANGED <<cname, listed>>
            /\ \/ cpc' = [cpc EXCEPT ![c] = "readService"] /\ outcome' = outcome
               \/ cpc' = [cpc EXCEPT ![c] = "done"] /\ outcome' = [outcome EXCEPT ![c] = "invalidParams"]
        BY <1>6, <2>5 DEF CallTool
      <3> HIDE DEF b
      <3> QED
        BY <2>3, <3>1, <3>2, CallMoves
    <2> QED
      BY <2>4, <2>5
  <1>7. ASSUME NEW c \in Clients, ReadService(c) PROVE McpTyped'
    <2>1. route[c] \in Table!Binding /\ route[c][1] = "api" /\ outcome[c] = "pending"
      BY <1>7 DEF ReadService
    <2> QED
      BY <1>7, <2>1, CallMoves DEF ReadService
  <1>8. ASSUME NEW c \in Clients, Send(c) PROVE McpTyped'
    BY <1>8 DEF Send
  <1>9. ASSUME NEW c \in Clients, EndCall(c) PROVE McpTyped'
    BY <1>9, Bindings DEF EndCall
  <1>10. ASSUME NEW c \in Clients, BeginList(c) PROVE McpTyped'
    BY <1>10 DEF BeginList, local
  <1>11. ASSUME NEW c \in Clients, ListPlugins(c) PROVE McpTyped'
    BY <1>11 DEF ListPlugins, Kinds, Bound
  <1>12. ASSUME NEW c \in Clients, ListTools(c) PROVE McpTyped'
    BY <1>12 DEF ListTools, Kinds, Bound
  <1>13. ASSUME NEW c \in Clients, EndList(c) PROVE McpTyped'
    BY <1>13 DEF EndList, Kinds
  <1> QED
    BY <1>1, <1>2, <1>3, <1>4, <1>5, <1>6, <1>7, <1>8, <1>9, <1>10, <1>11, <1>12, <1>13
       DEF McpNext

LEMMA McpTypedHolds == McpSpec => [](IInv /\ McpTyped)
  <1>1. McpInit => McpTyped
    BY Bindings DEF McpInit, McpTyped, CallLabels, Outcomes, Kinds, NotYet
  <1>2. IInv /\ McpTyped /\ [McpNext]_mcpVars => McpTyped'
    BY NextMcpTyped DEF IInv
  <1> QED
    BY <1>1, <1>2, McpIInv, PTL DEF McpSpec

(* A call has the entry whose service it reads, and an answer exactly when *)
(* it is done.                                                             *)
THEOREM McpTypeCorrect == McpSpec => []McpTypeOK
  <1>1. IInv /\ McpTyped => McpTypeOK
    BY DEF IInv, McpTyped, McpTypeOK
  <1> QED
    BY <1>1, McpTypedHolds, PTL

-----------------------------------------------------------------------------
(* A call that is looking has seen what its name is bound to now; if what  *)
(* it has just found, or found missing, is no longer so, it has seen its   *)
(* name bound to nothing.                                                  *)
Looking == {"findPlugin", "findTool", "callTool", "readService", "send"}

Lin(at, n, r, S) ==
  /\ at \in Looking => BindingOf(n) \in S
  /\ at = "findTool" => plugins[n] = None \/ NoRoute \in S
  /\ at = "callTool" => tools[n] # None \/ NoRoute \in S
  /\ at \in {"readService", "send", "done"} => r \in S

LinInv ==
  /\ seen \in [Clients -> SUBSET Table!Binding]
  /\ ~overlapped => \A c \in Clients : Lin(cpc[c], cname[c], route[c], seen[c])

LEMMA UnboundIs ==
  ASSUME NEW n
  PROVE  BindingOf(n) = NoRoute <=> (plugins[n] = None /\ tools[n] = None)
  BY DEF BindingOf, NoRoute

LEMMA UnboundIsNext ==
  ASSUME NEW n
  PROVE  BindingOf(n)' = NoRoute <=> (plugins'[n] = None /\ tools'[n] = None)
  BY DEF BindingOf, NoRoute

LEMMA TablesLin ==
  ASSUME IInv, IInv', McpTyped, LinInv, TablesStep, ~overlapped'
  PROVE  LinInv'
  <1>1. ~overlapped /\ (tools' = tools \/ plugins' = plugins)
    BY OverlapStays, OneTable DEF TablesStep
  <1>2. seen' \in [Clients -> SUBSET Table!Binding]
    <2>1. \A n \in Names : BindingOf(n)' \in Table!Binding
      BY BindingType DEF IInv, TypeOK, BindingOf, Table!Binding
    <2> QED
      BY <2>1 DEF TablesStep, LinInv, McpTyped, local
  <1>3. ASSUME NEW c \in Clients PROVE Lin(cpc[c], cname[c], route[c], seen[c])'
    <2>0. PICK n \in Names : n = cname[c] /\ n = cname'[c]
      BY DEF McpTyped, TablesStep, local
    <2>1. UNCHANGED <<cpc[c], cname[c], route[c]>>
      BY DEF TablesStep, local
    <2>2. seen'[c] = IF cpc[c] \in CallLabels \ {"idle", "done"}
                       THEN seen[c] \cup {BindingOf(n)'} ELSE seen[c]
      BY <2>0 DEF TablesStep, local, BindingOf
    <2>3. Lin(cpc[c], n, route[c], seen[c]) /\ seen[c] \subseteq seen'[c]
      BY <1>1, <2>0, <2>2 DEF LinInv
    <2>4. cpc[c] \in Looking => BindingOf(n)' \in seen'[c] /\ BindingOf(n) \in seen[c]
      BY <2>2, <2>3 DEF Looking, CallLabels, Lin
    <2>5. ASSUME cpc[c] = "findTool" PROVE plugins'[n] = None \/ NoRoute \in seen'[c]
      <3> SUFFICES ASSUME plugins[n] = None, plugins'[n] # None PROVE NoRoute \in seen'[c]
        BY <2>3, <2>5 DEF Lin
      <3>1. tools'[n] = None
        BY <2>0 DEF IInv, ReservedInv, Bound
      <3>2. BindingOf(n) = NoRoute
        BY <1>1, <3>1, UnboundIs
      <3> QED
        BY <2>3, <2>4, <2>5, <3>2 DEF Looking
    <2>6. ASSUME cpc[c] = "callTool" PROVE tools'[n] # None \/ NoRoute \in seen'[c]
      <3> SUFFICES ASSUME tools[n] # None, tools'[n] = None PROVE NoRoute \in seen'[c]
        BY <2>3, <2>6 DEF Lin
      <3>1. plugins'[n] = None
        BY <1>1, <2>0, Unique
      <3>2. BindingOf(n)' = NoRoute
        BY <3>1, UnboundIsNext
      <3> QED
        BY <2>4, <2>6, <3>2 DEF Looking
    <2>7. cpc[c] \in {"readService", "send", "done"} => route[c] \in seen'[c]
      BY <2>3 DEF Lin
    <2> QED
      BY <2>0, <2>1, <2>4, <2>5, <2>6, <2>7 DEF Lin, BindingOf
  <1> QED
    BY <1>2, <1>3 DEF LinInv

(* A step of client c, seen from the others and from itself.               *)
LEMMA ClientLin ==
  ASSUME IInv, McpTyped, LinInv, ~overlapped, UNCHANGED vars, NEW c \in Clients,
         \A d \in Clients \ {c} : UNCHANGED <<cpc[d], cname[d], route[d], seen[d]>>,
         seen' \in [Clients -> SUBSET Table!Binding],
         Lin(cpc[c], cname[c], route[c], seen[c])'
  PROVE  LinInv'
  <1>1. UNCHANGED <<tools, plugins, overlapped>>
    BY DEF vars, tables, history
  <1>2. ASSUME NEW d \in Clients \ {c} PROVE Lin(cpc[d], cname[d], route[d], seen[d])'
    <2>1. Lin(cpc[d], cname[d], route[d], seen[d])
      BY DEF LinInv
    <2>2. UNCHANGED <<cpc[d], cname[d], route[d], seen[d]>>
      OBVIOUS
    <2> QED
      BY <1>1, <2>1, <2>2 DEF Lin, BindingOf
  <1> QED
    BY <1>2 DEF LinInv

LEMMA StepLin ==
  ASSUME IInv, McpTyped, LinInv, NEW c \in Clients, ClientStep(c), ~overlapped'
  PROVE  LinInv'
  <1>1. UNCHANGED vars
    BY ClientsOnlyRead
  <1>2. UNCHANGED <<tools, plugins, overlapped>> /\ ~overlapped
    BY <1>1 DEF vars, tables, history
  <1>3. /\ cpc[c] \in CallLabels \cup ListLabels /\ cname[c] \in Names
        /\ cpc[c] \in NotYet => route[c] = NoRoute
        /\ Lin(cpc[c], cname[c], route[c], seen[c])
    BY <1>2 DEF McpTyped, LinInv
  <1>4. seen \in [Clients -> SUBSET Table!Binding] /\ cname \in [Clients -> Names]
    BY DEF LinInv, McpTyped
  <1>5. tools[cname[c]] = None \/ plugins[cname[c]] = None
    BY <1>2, <1>3, Unique
  <1>6. DOMAIN cpc = Clients /\ DOMAIN route = Clients
    BY DEF McpTyped
  <1> USE DEF Proceed, Looking, NotYet, ListLabels
  <1>7. ASSUME NEW n \in Names, BeginCall(c, n) PROVE LinInv'
    <2>1. BindingOf(n) \in Table!Binding
      BY BindingType DEF IInv
    <2>2. cpc'[c] = "findPlugin" /\ cname'[c] = n /\ seen'[c] = {BindingOf(n)}
      BY <1>4, <1>6, <1>7 DEF BeginCall
    <2>3. Lin(cpc[c], cname[c], route[c], seen[c])'
      BY <1>2, <2>2 DEF Lin, BindingOf
    <2>4. /\ \A d \in Clients \ {c} : UNCHANGED <<cpc[d], cname[d], route[d], seen[d]>>
          /\ seen' \in [Clients -> SUBSET Table!Binding]
      BY <1>4, <1>6, <1>7, <2>1 DEF BeginCall
    <2> QED
      BY <1>1, <1>2, <2>3, <2>4, ClientLin
  <1>8. ASSUME UNCHANGED <<cname, seen>>,
               \A d \in Clients \ {c} : UNCHANGED <<cpc[d], route[d]>>,
               Lin(cpc'[c], cname[c], route'[c], seen[c])
        PROVE  LinInv'
    <2>1. Lin(cpc[c], cname[c], route[c], seen[c])'
      BY <1>2, <1>8 DEF Lin, BindingOf
    <2> QED
      BY <1>1, <1>2, <1>4, <1>8, <2>1, ClientLin
  <1>9. CASE FindPlugin(c)
    <2>1. UNCHANGED <<cname, seen>> /\ \A d \in Clients \ {c} : UNCHANGED <<cpc[d], route[d]>>
      BY <1>6, <1>9 DEF FindPlugin, watch
    <2>2. CASE plugins[cname[c]] # None
      <3>1. cpc'[c] = "done" /\ route'[c] = BindingOf(cname[c]) /\ cpc[c] = "findPlugin"
        BY <1>6, <1>9, <2>2 DEF FindPlugin, BindingOf
      <3> QED
        BY <1>3, <1>8, <2>1, <3>1 DEF Lin
    <2>3. CASE plugins[cname[c]] = None
      <3>1. cpc'[c] = "findTool" /\ cpc[c] = "findPlugin"
        BY <1>6, <1>9, <2>3 DEF FindPlugin
      <3> QED
        BY <1>3, <1>8, <2>1, <2>3, <3>1 DEF Lin
    <2> QED
      BY <2>2, <2>3
  <1>10. CASE FindTool(c)
    <2>1. /\ UNCHANGED <<cname, seen, route>> /\ \A d \in Clients \ {c} : UNCHANGED cpc[d]
          /\ cpc[c] = "findTool" /\ route[c] = NoRoute
      BY <1>3, <1>6, <1>10 DEF FindTool, watch
    <2>2. CASE tools[cname[c]] # None
      <3>1. cpc'[c] = "callTool"
        BY <1>6, <1>10, <2>2 DEF FindTool
      <3> QED
        BY <1>3, <1>8, <2>1, <2>2, <3>1 DEF Lin
    <2>3. CASE tools[cname[c]] = None
      <3>1. cpc'[c] = "done"
        BY <1>6, <1>10, <2>3 DEF FindTool
      <3>2. NoRoute \in seen[c]
        BY <1>3, <2>1, <2>3, UnboundIs DEF Lin
      <3> QED
        BY <1>8, <2>1, <3>1, <3>2 DEF Lin
    <2> QED
      BY <2>2, <2>3
  <1>11. CASE CallTool(c)
    <2>1. /\ UNCHANGED <<cname, seen>> /\ \A d \in Clients \ {c} : UNCHANGED <<cpc[d], route[d]>>
          /\ cpc[c] = "callTool" /\ route[c] = NoRoute
      BY <1>3, <1>6, <1>11 DEF CallTool, watch
    <2>2. CASE tools[cname[c]] = None
      <3>1. cpc'[c] = "done" /\ route' = route
        BY <1>6, <1>11, <2>2 DEF CallTool
      <3> QED
        BY <1>3, <1>8, <2>1, <2>2, <3>1 DEF Lin
    <2>3. CASE tools[cname[c]] # None
      <3>1. cpc'[c] \in {"readService", "done"} /\ route'[c] = <<"api", tools[cname[c]]>>
        BY <1>6, <1>11, <2>3 DEF CallTool
      <3>2. BindingOf(cname[c]) = <<"api", tools[cname[c]]>>
        BY <1>5, <2>3 DEF BindingOf
      <3> QED
        BY <1>3, <1>8, <2>1, <3>1, <3>2 DEF Lin
    <2> QED
      BY <2>2, <2>3
  <1>12. CASE ReadService(c) \/ Send(c)
    <2>1. /\ UNCHANGED <<cname, seen, route>> /\ \A d \in Clients \ {c} : UNCHANGED cpc[d]
          /\ cpc[c] \in {"readService", "send"} /\ cpc'[c] \in {"send", "done"}
      BY <1>6, <1>12 DEF ReadService, Send, watch
    <2> QED
      BY <1>3, <1>8, <2>1 DEF Lin
  <1>13. CASE EndCall(c)
    <2>1. /\ \A d \in Clients \ {c} : UNCHANGED <<cpc[d], cname[d], route[d], seen[d]>>
          /\ seen' \in [Clients -> SUBSET Table!Binding] /\ cpc'[c] = "idle"
      BY <1>4, <1>6, <1>13 DEF EndCall
    <2> QED
      BY <1>1, <1>2, <2>1, ClientLin DEF Lin
  <1>14. CASE BeginList(c) \/ ListPlugins(c) \/ ListTools(c) \/ EndList(c)
    <2>1. /\ UNCHANGED <<cname, seen, route>> /\ \A d \in Clients \ {c} : UNCHANGED cpc[d]
          /\ cpc'[c] \in ListLabels \cup {"idle"}
      BY <1>6, <1>14 DEF BeginList, ListPlugins, ListTools, EndList, local, watch
    <2> QED
      BY <1>8, <2>1 DEF Lin
  <1> QED
    BY <1>7, <1>9, <1>10, <1>11, <1>12, <1>13, <1>14 DEF ClientStep

(* While requests for different tables overlap nothing is claimed but the  *)
(* type of the history.                                                    *)
LEMMA SeenTyped ==
  ASSUME IInv, McpTyped, LinInv, [McpNext]_mcpVars, IInv'
  PROVE  seen' \in [Clients -> SUBSET Table!Binding]
  <1>1. seen \in [Clients -> SUBSET Table!Binding] /\ cname \in [Clients -> Names]
    BY DEF LinInv, McpTyped
  <1>2. CASE TablesStep
    <2>1. \A n \in Names : BindingOf(n)' \in Table!Binding
      BY BindingType DEF IInv, TypeOK, BindingOf, Table!Binding
    <2> QED
      BY <1>1, <1>2, <2>1 DEF TablesStep, local
  <1>3. CASE UNCHANGED mcpVars
    BY <1>1, <1>3 DEF mcpVars, watch
  <1>4. ASSUME NEW c \in Clients, NEW n \in Names, BeginCall(c, n)
        PROVE  seen' \in [Clients -> SUBSET Table!Binding]
    <2>1. BindingOf(n) \in Table!Binding
      BY BindingType DEF IInv
    <2> QED
      BY <1>1, <1>4, <2>1 DEF BeginCall
  <1>5. ASSUME NEW c \in Clients,
               \/ FindPlugin(c) \/ FindTool(c) \/ CallTool(c) \/ ReadService(c) \/ Send(c)
               \/ EndCall(c) \/ BeginList(c) \/ ListPlugins(c) \/ ListTools(c) \/ EndList(c)
        PROVE  seen' \in [Clients -> SUBSET Table!Binding]
    BY <1>1, <1>5 DEF FindPlugin, FindTool, CallTool, ReadService, Send, EndCall, BeginList,
                      ListPlugins, ListTools, EndList, watch
  <1> QED
    BY <1>2, <1>3, <1>4, <1>5 DEF McpNext

LEMMA LinHolds == McpSpec => []LinInv
  <1>1. McpInit => LinInv
    BY DEF McpInit, LinInv, Lin, Looking
  <1>2. ASSUME IInv, IInv', McpTyped, LinInv, [McpNext]_mcpVars PROVE LinInv'
    <2>1. CASE overlapped'
      BY <1>2, <2>1, SeenTyped DEF LinInv
    <2>2. CASE ~overlapped' /\ TablesStep
      BY <1>2, <2>2, TablesLin
    <2>3. CASE ~overlapped' /\ \E c \in Clients : ClientStep(c)
      BY <1>2, <2>3, StepLin
    <2>4. CASE UNCHANGED mcpVars
      BY <1>2, <2>4 DEF LinInv, Lin, BindingOf, mcpVars, vars, local, watch, tables, history
    <2> QED
      BY <1>2, <2>1, <2>2, <2>3, <2>4 DEF McpNext, ClientStep
  <1> QED
    BY <1>1, <1>2, McpTypedHolds, PTL DEF McpSpec

(* What a call reached, or its not finding the name, was the binding of    *)
(* its name at one instant of the call.                                    *)
THEOREM LookupLinearizableHolds == McpSpec => []LookupLinearizable
  <1>1. LinInv => LookupLinearizable
    BY DEF LinInv, Lin, LookupLinearizable
  <1> QED
    BY <1>1, LinHolds, PTL

-----------------------------------------------------------------------------
(* A list.  A name that was never unbound and is not in the table already  *)
(* read is in the other: it cannot have moved without being unbound.       *)
Kept(at, S, L) ==
  /\ at = "listPlugins" => \A n \in S : plugins[n] # None \/ tools[n] # None
  /\ at = "listTools" => \A n \in S : n \in L["plugin"] \/ tools[n] # None
  /\ at = "listed" => S \subseteq L["plugin"] \cup L["api"]

ListInv ==
  /\ steady \in [Clients -> SUBSET Names]
  /\ ~overlapped => \A c \in Clients : Kept(cpc[c], steady[c], listed[c])

LEMMA TablesKeep ==
  ASSUME IInv, IInv', McpTyped, ListInv, TablesStep
  PROVE  ListInv'
  <1>1. steady' \in [Clients -> SUBSET Names]
    BY DEF TablesStep, ListInv
  <1>2. ASSUME ~overlapped', NEW c \in Clients PROVE Kept(cpc[c], steady[c], listed[c])'
    <2>1. ~overlapped /\ (tools' = tools \/ plugins' = plugins)
      BY <1>2, OverlapStays, OneTable DEF TablesStep
    <2>2. UNCHANGED <<cpc[c], listed[c]>> /\ Kept(cpc[c], steady[c], listed[c])
      BY <2>1 DEF TablesStep, local, ListInv
    <2>3. steady'[c] = {n \in steady[c] : BindingOf(n)' # NoRoute}
      BY DEF TablesStep
    <2>4. ASSUME NEW n \in steady'[c]
          PROVE  n \in steady[c] /\ n \in Names /\ (plugins'[n] # None \/ tools'[n] # None)
      <3>1. n \in steady[c] /\ BindingOf(n)' # NoRoute
        BY <2>3, <2>4
      <3> QED
        BY <3>1, UnboundIsNext DEF ListInv
    <2>5. ASSUME cpc[c] = "listTools", NEW n \in steady'[c], n \notin listed[c]["plugin"]
          PROVE  tools'[n] # None
      <3>1. tools[n] # None /\ n \in Names
        BY <2>2, <2>4, <2>5 DEF Kept
      <3>2. plugins[n] = None
        BY <2>1, <3>1, Unique
      <3> QED
        BY <2>1, <2>4, <3>1, <3>2
    <2> QED
      BY <2>2, <2>4, <2>5 DEF Kept
  <1> QED
    BY <1>1, <1>2 DEF ListInv

LEMMA StepKeep ==
  ASSUME McpTyped, ListInv, NEW c \in Clients, ClientStep(c)
  PROVE  ListInv'
  <1>1. UNCHANGED <<tools, plugins, overlapped>>
    BY ClientsOnlyRead DEF vars, tables, history
  <1>2. /\ cpc \in [Clients -> CallLabels \cup ListLabels]
        /\ listed \in [Clients -> [Kinds -> SUBSET Names]]
        /\ steady \in [Clients -> SUBSET Names]
    BY DEF McpTyped, ListInv
  <1>3. ASSUME steady' \in [Clients -> SUBSET Names],
               \A d \in Clients \ {c} : UNCHANGED <<cpc[d], steady[d], listed[d]>>,
               ~overlapped => Kept(cpc'[c], steady'[c], listed'[c])
        PROVE  ListInv'
    <2>1. ASSUME ~overlapped, NEW d \in Clients PROVE Kept(cpc[d], steady[d], listed[d])'
      <3>1. CASE d = c
        BY <1>1, <1>3, <2>1, <3>1 DEF Kept
      <3>2. CASE d # c
        BY <1>1, <1>3, <2>1, <3>2 DEF Kept, ListInv
      <3> QED
        BY <3>1, <3>2
    <2> QED
      BY <1>1, <1>3, <2>1 DEF ListInv
  <1> USE DEF Proceed
  <1>4. CASE \/ \E n \in Names : BeginCall(c, n)
             \/ FindPlugin(c) \/ FindTool(c) \/ CallTool(c) \/ ReadService(c) \/ Send(c) \/ EndCall(c)
    <2>1. UNCHANGED <<steady, listed>> /\ \A d \in Clients \ {c} : UNCHANGED cpc[d]
      BY <1>2, <1>4 DEF BeginCall, FindPlugin, FindTool, CallTool, ReadService, Send, EndCall, watch
    <2>2. cpc'[c] \notin ListLabels
      BY <1>2, <1>4 DEF BeginCall, FindPlugin, FindTool, CallTool, ReadService, Send, EndCall, ListLabels
    <2> QED
      BY <1>2, <1>3, <2>1, <2>2 DEF Kept, ListLabels
  <1>5. CASE BeginList(c)
    <2>1. /\ steady' = [steady EXCEPT ![c] = {n \in Names : BindingOf(n) # NoRoute}]
          /\ cpc' = [cpc EXCEPT ![c] = "listPlugins"] /\ UNCHANGED listed
      BY <1>5 DEF BeginList, local
    <2>2. \A n \in Names : BindingOf(n) # NoRoute => plugins[n] # None \/ tools[n] # None
      BY UnboundIs
    <2> QED
      BY <1>2, <1>3, <2>1, <2>2 DEF Kept
  <1>6. CASE ListPlugins(c)
    <2>1. /\ cpc[c] = "listPlugins" /\ cpc' = [cpc EXCEPT ![c] = "listTools"]
          /\ UNCHANGED steady /\ listed' = [listed EXCEPT ![c]["plugin"] = Bound(plugins)]
      BY <1>6 DEF ListPlugins, watch
    <2>2. listed'[c]["plugin"] = Bound(plugins)
      BY <1>2, <2>1 DEF Kinds
    <2>3. ~overlapped => \A n \in steady[c] : n \in Bound(plugins) \/ tools[n] # None
      BY <1>2, <2>1 DEF ListInv, Kept, Bound
    <2> QED
      BY <1>2, <1>3, <2>1, <2>2, <2>3 DEF Kept
  <1>7. CASE ListTools(c)
    <2>1. /\ cpc[c] = "listTools" /\ cpc' = [cpc EXCEPT ![c] = "listed"]
          /\ UNCHANGED steady /\ listed' = [listed EXCEPT ![c]["api"] = Bound(tools)]
      BY <1>7 DEF ListTools, watch
    <2>2. listed'[c]["api"] = Bound(tools) /\ listed'[c]["plugin"] = listed[c]["plugin"]
      BY <1>2, <2>1 DEF Kinds
    <2>3. ~overlapped => \A n \in steady[c] : n \in listed[c]["plugin"] \/ n \in Bound(tools)
      BY <1>2, <2>1 DEF ListInv, Kept, Bound
    <2> QED
      BY <1>2, <1>3, <2>1, <2>2, <2>3 DEF Kept
  <1>8. CASE EndList(c)
    <2>1. /\ cpc' = [cpc EXCEPT ![c] = "idle"] /\ steady' = [steady EXCEPT ![c] = {}]
          /\ \A d \in Clients \ {c} : UNCHANGED listed[d]
      BY <1>2, <1>8 DEF EndList
    <2> QED
      BY <1>2, <1>3, <2>1 DEF Kept
  <1> QED
    BY <1>4, <1>5, <1>6, <1>7, <1>8 DEF ClientStep

(* tools/list leaves out no name that was bound all the while.             *)
THEOREM ListCompleteHolds == McpSpec => []ListComplete
  <1>1. McpInit => ListInv
    BY DEF McpInit, ListInv, Kept
  <1>2. ASSUME IInv, IInv', McpTyped, ListInv, [McpNext]_mcpVars PROVE ListInv'
    <2>1. CASE TablesStep
      BY <1>2, <2>1, TablesKeep
    <2>2. CASE \E c \in Clients : ClientStep(c)
      BY <1>2, <2>2, StepKeep
    <2>3. CASE UNCHANGED mcpVars
      BY <1>2, <2>3 DEF ListInv, Kept, mcpVars, vars, local, watch, tables, history
    <2> QED
      BY <1>2, <2>1, <2>2, <2>3 DEF McpNext, ClientStep
  <1>3. McpTyped /\ ListInv => ListComplete
    BY DEF ListInv, Kept, ListComplete
  <1> QED
    BY <1>1, <1>2, <1>3, McpTypedHolds, PTL DEF McpSpec

=============================================================================
