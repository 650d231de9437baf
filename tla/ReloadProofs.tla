---------------------------- MODULE ReloadProofs ----------------------------
(***************************************************************************)
(* Theorems about Reload, for every set of names, services, directories    *)
(* and requests.  The inductive invariant has two parts: PhaseInv relates  *)
(* the point a request has reached to what it asked for and what it has    *)
(* replaced; ReservedInv says that, while requests that write different    *)
(* tables have not overlapped, the names a request has read from the other *)
(* table are still that table's names when it commits.                     *)
(***************************************************************************)
EXTENDS Reload, TLAPS

ConfigPhase == {"readConfig", "commitConfig", "listAPIs", "reserveForTools",
                "build", "commitTools"}
PluginPhase == {"scan", "reserveForPlugins", "commitPlugins"}

PhaseInv ==
  \A r \in Reloaders :
    /\ pc[r] \in ConfigPhase => "config" \in req[r]
    /\ pc[r] \in PluginPhase => "plugins" \in req[r]
    /\ "tools" \in wrote[r] =>
          /\ "config" \in req[r]
          /\ pc[r] \in PluginPhase \cup {"ok", "failed"}
          /\ pc[r] = "failed" => "plugins" \in req[r]
    /\ "plugins" \in wrote[r] => pc[r] = "ok"

ReservedInv ==
  /\ \A q, r \in Reloaders :
        (q # r /\ InFlight(q) /\ InFlight(r)) => ~CrossWrites(req[q], req[r])
  /\ \A r \in Reloaders :
        /\ pc[r] = "build" => reserved[r] = Bound(plugins)
        /\ pc[r] = "commitTools" => Bound(newTools[r]) \cap Bound(plugins) = {}
        /\ pc[r] = "commitPlugins" => Bound(newPlugins[r]) \cap Bound(tools) = {}
  /\ Bound(tools) \cap Bound(plugins) = {}

IInv == TypeOK /\ PhaseInv /\ (~overlapped => ReservedInv)

-----------------------------------------------------------------------------
(* The tables that the two Load functions build, and what their checks     *)
(* ensure about the names in them.                                         *)

LEMMA ToolsOfType ==
  ASSUME NEW svcs \in SUBSET Services, NEW docs
  PROVE  ToolsOf(svcs, docs) \in [Names -> Services \cup {None}]
  BY DEF ToolsOf

LEMMA PluginsOfType ==
  ASSUME NEW dirs
  PROVE  PluginsOf(dirs) \in [Names -> Dirs \cup {None}]
  BY DEF PluginsOf, Loaded, Walked

(* A tool table that passed Registry.Load's checks has no reserved name.   *)
LEMMA ToolsAvoidReserved ==
  ASSUME NEW svcs \in SUBSET Services, NEW docs, NEW taken,
         ToolsLoad(svcs, docs, taken)
  PROVE  Bound(ToolsOf(svcs, docs)) \cap taken = {}
  BY DEF ToolsOf, ToolsLoad, Bound

(* A plugin table that passed Manager.Load's checks has no reserved name.  *)
LEMMA PluginsAvoidReserved ==
  ASSUME NEW dirs, NEW taken, PluginsLoad(dirs, taken)
  PROVE  Bound(PluginsOf(dirs)) \cap taken = {}
  <1> SUFFICES ASSUME NEW n \in Bound(PluginsOf(dirs)) PROVE n \notin taken
    OBVIOUS
  <1>1. PICK i \in Loaded(dirs) : dirs[i] = n
    BY DEF PluginsOf, Bound
  <1> QED
    BY <1>1 DEF PluginsLoad

-----------------------------------------------------------------------------
(* A configuration in memory is a set of services.                         *)
LEMMA ConfigsType == Configs \subseteq SUBSET Services
  BY ContentsAssumption DEF Configs

LEMMA InitTypeOK == Init => TypeOK
  <1> SUFFICES ASSUME Init PROVE TypeOK
    OBVIOUS
  <1>1. diskCfg \in SUBSET Services
    BY ContentsAssumption DEF Init
  <1>2. tools \in [Names -> Services \cup {None}]
    BY <1>1, ToolsOfType DEF Init
  <1>3. plugins \in [Names -> Dirs \cup {None}]
    BY PluginsOfType DEF Init
  <1>4. edits \in 0..MaxEdits
    BY BoundsAssumption DEF Init
  <1>5. scan \in [Reloaders -> [Dirs -> Names \cup {Absent, Broken, Unreadable}]]
    BY DEF Init, NoScan
  <1>6. newTools \in [Reloaders -> [Names -> Services \cup {None}]]
    BY DEF Init, NoTools
  <1>7. newPlugins \in [Reloaders -> [Names -> Dirs \cup {None}]]
    BY DEF Init, NoPlugins
  <1>8. pc \in [Reloaders -> Labels] /\ req \in [Reloaders -> SUBSET Flags]
    BY DEF Init, Labels
  <1>9. /\ staged \in [Reloaders -> Configs]
        /\ apis \in [Reloaders -> Configs]
        /\ reserved \in [Reloaders -> SUBSET Names]
        /\ wrote \in [Reloaders -> SUBSET {"config", "tools", "plugins"}]
        /\ unedited \in [Reloaders -> BOOLEAN]
        /\ alone \in [Reloaders -> BOOLEAN]
        /\ overlapped \in BOOLEAN
    BY DEF Init, Configs
  <1>10. /\ diskCfg \in CfgFiles
         /\ diskDocs \in [Services -> DocFiles]
         /\ diskDirs \in [Dirs -> DirFiles]
         /\ cfg \in Configs
    BY DEF Init, Configs
  <1> QED
    BY <1>2, <1>3, <1>4, <1>5, <1>6, <1>7, <1>8, <1>9, <1>10 DEF TypeOK

LEMMA NextTypeOK == TypeOK /\ [Next]_vars => TypeOK'
  <1> SUFFICES ASSUME TypeOK, [Next]_vars PROVE TypeOK'
    OBVIOUS
  <1> USE DEF TypeOK
  <1>1. CASE EditConfig
    BY <1>1, BoundsAssumption DEF EditConfig, Edit, tables, locals
  <1>2. CASE EditDoc
    BY <1>2, BoundsAssumption DEF EditDoc, Edit, tables, locals
  <1>3. CASE EditDir
    BY <1>3, BoundsAssumption DEF EditDir, Edit, tables, locals
  <1>4. ASSUME NEW r \in Reloaders, NEW c \in BOOLEAN, NEW p \in BOOLEAN,
               BeginReload(r, c, p)
        PROVE  TypeOK'
    <2>1. Requested(c, p) \in SUBSET Flags
      BY DEF Requested, Flags
    <2>2. overlapped' \in BOOLEAN /\ alone' \in [Reloaders -> BOOLEAN]
      BY <1>4 DEF BeginReload
    <2> QED
      BY <1>4, <2>1, <2>2 DEF BeginReload, Goto, Labels, disk, tables, locals
  <1>5. ASSUME NEW r \in Reloaders, ReadConfig(r)
        PROVE  TypeOK'
    <2>1. diskCfg # Bad => diskCfg \in Configs
      BY DEF Configs
    <2>2. staged' \in [Reloaders -> Configs]
      BY <1>5, <2>1 DEF ReadConfig
    <2>3. pc' \in [Reloaders -> Labels]
      BY <1>5 DEF ReadConfig, Goto, Labels
    <2> QED
      BY <1>5, <2>2, <2>3 DEF ReadConfig, disk, tables, history
  <1>6. ASSUME NEW r \in Reloaders, CommitConfig(r)
        PROVE  TypeOK'
    BY <1>6 DEF CommitConfig, Goto, Labels, disk, Configs
  <1>7. ASSUME NEW r \in Reloaders, ListAPIs(r)
        PROVE  TypeOK'
    BY <1>7 DEF ListAPIs, Goto, Labels, disk, tables, history
  <1>8. ASSUME NEW r \in Reloaders, ReserveForTools(r)
        PROVE  TypeOK'
    BY <1>8 DEF ReserveForTools, Goto, Labels, disk, tables, history, Bound
  <1>9. ASSUME NEW r \in Reloaders, BuildTools(r)
        PROVE  TypeOK'
    <2>1. ToolsOf(apis[r], diskDocs) \in [Names -> Services \cup {None}]
      BY <1>9, ConfigsType, ToolsOfType
    <2>2. newTools' \in [Reloaders -> [Names -> Services \cup {None}]]
      BY <1>9, <2>1 DEF BuildTools
    <2>3. pc' \in [Reloaders -> Labels]
      BY <1>9 DEF BuildTools, Goto, Labels
    <2> QED
      BY <1>9, <2>2, <2>3 DEF BuildTools, disk, tables, history, Configs
  <1>10. ASSUME NEW r \in Reloaders, CommitTools(r)
         PROVE  TypeOK'
    BY <1>10 DEF CommitTools, Goto, Labels, disk, NoTools
  <1>11. ASSUME NEW r \in Reloaders, ScanPlugins(r)
         PROVE  TypeOK'
    <2>1. diskDirs \in [Dirs -> Names \cup {Absent, Broken, Unreadable}]
      BY ContentsAssumption
    <2> QED
      BY <1>11, <2>1 DEF ScanPlugins, Goto, Labels, disk, tables, history
  <1>12. ASSUME NEW r \in Reloaders, ReserveForPlugins(r)
         PROVE  TypeOK'
    <2>1. PluginsOf(scan[r]) \in [Names -> Dirs \cup {None}]
      BY PluginsOfType
    <2>2. NoScan \in [Dirs -> Names \cup {Absent, Broken, Unreadable}]
      BY DEF NoScan
    <2>3. newPlugins' \in [Reloaders -> [Names -> Dirs \cup {None}]]
      BY <1>12, <2>1 DEF ReserveForPlugins
    <2>4. pc' \in [Reloaders -> Labels]
      BY <1>12 DEF ReserveForPlugins, Goto, Labels
    <2> QED
      BY <1>12, <2>2, <2>3, <2>4 DEF ReserveForPlugins, disk, tables, history
  <1>13. ASSUME NEW r \in Reloaders, CommitPlugins(r)
         PROVE  TypeOK'
    BY <1>13 DEF CommitPlugins, Goto, Labels, disk, NoPlugins
  <1>14. ASSUME NEW r \in Reloaders, Reply(r)
         PROVE  TypeOK'
    BY <1>14 DEF Reply, Labels, disk, tables, locals
  <1>15. CASE UNCHANGED vars
    BY <1>15 DEF vars, disk, tables, locals, history
  <1> QED
    BY <1>1, <1>2, <1>3, <1>4, <1>5, <1>6, <1>7, <1>8, <1>9, <1>10, <1>11,
       <1>12, <1>13, <1>14, <1>15 DEF Next, Step

(* The tables, the requests' locals and their program counters keep their  *)
(* types in every reachable state.                                         *)
THEOREM TypeCorrect == Spec => []TypeOK
  BY InitTypeOK, NextTypeOK, PTL DEF Spec

-----------------------------------------------------------------------------
LEMMA InitPhaseInv == Init => PhaseInv
  BY DEF Init, PhaseInv, ConfigPhase, PluginPhase

LEMMA NextPhaseInv == TypeOK /\ PhaseInv /\ [Next]_vars => PhaseInv'
  <1> SUFFICES ASSUME TypeOK, PhaseInv, [Next]_vars PROVE PhaseInv'
    OBVIOUS
  <1> USE DEF PhaseInv, ConfigPhase, PluginPhase
  <1>1. CASE UNCHANGED <<pc, req, wrote>>
    BY <1>1
  <1>2. ASSUME NEW r \in Reloaders, NEW c \in BOOLEAN, NEW p \in BOOLEAN,
               BeginReload(r, c, p)
        PROVE  PhaseInv'
    <2>1. "config" \notin Requested(c, p) => "plugins" \in Requested(c, p)
      BY DEF Requested, Flags
    <2> QED
      BY <1>2, <2>1 DEF BeginReload, Goto, TypeOK
  <1>3. ASSUME NEW r \in Reloaders, ReadConfig(r)
        PROVE  PhaseInv'
    BY <1>3 DEF ReadConfig, Goto, TypeOK, history
  <1>4. ASSUME NEW r \in Reloaders, CommitConfig(r)
        PROVE  PhaseInv'
    BY <1>4 DEF CommitConfig, Goto, TypeOK
  <1>5. ASSUME NEW r \in Reloaders, ListAPIs(r)
        PROVE  PhaseInv'
    BY <1>5 DEF ListAPIs, Goto, TypeOK, history
  <1>6. ASSUME NEW r \in Reloaders, ReserveForTools(r)
        PROVE  PhaseInv'
    BY <1>6 DEF ReserveForTools, Goto, TypeOK, history
  <1>7. ASSUME NEW r \in Reloaders, BuildTools(r)
        PROVE  PhaseInv'
    BY <1>7 DEF BuildTools, Goto, TypeOK, history
  <1>8. ASSUME NEW r \in Reloaders, CommitTools(r)
        PROVE  PhaseInv'
    BY <1>8 DEF CommitTools, Goto, TypeOK
  <1>9. ASSUME NEW r \in Reloaders, ScanPlugins(r)
        PROVE  PhaseInv'
    BY <1>9 DEF ScanPlugins, Goto, TypeOK, history
  <1>10. ASSUME NEW r \in Reloaders, ReserveForPlugins(r)
         PROVE  PhaseInv'
    BY <1>10 DEF ReserveForPlugins, Goto, TypeOK, history
  <1>11. ASSUME NEW r \in Reloaders, CommitPlugins(r)
         PROVE  PhaseInv'
    BY <1>11 DEF CommitPlugins, Goto, TypeOK
  <1>12. ASSUME NEW r \in Reloaders, Reply(r)
         PROVE  PhaseInv'
    BY <1>12 DEF Reply, TypeOK
  <1>13. EditConfig \/ EditDoc \/ EditDir \/ UNCHANGED vars
            => UNCHANGED <<pc, req, wrote>>
    BY DEF EditConfig, EditDoc, EditDir, Edit, vars, history
  <1> QED
    BY <1>1, <1>2, <1>3, <1>4, <1>5, <1>6, <1>7, <1>8, <1>9, <1>10, <1>11,
       <1>12, <1>13 DEF Next, Step

(* A reload that answers 500 has left the plugins alone, for any number of *)
(* concurrent requests: it reaches its last step before it replaces them.  *)
THEOREM PluginsSurviveFailureHolds == Spec => []PluginsSurviveFailure
  <1>1. PhaseInv => PluginsSurviveFailure
    BY DEF PhaseInv, PluginsSurviveFailure
  <1> QED
    BY <1>1, TypeCorrect, InitPhaseInv, NextPhaseInv, PTL DEF Spec

-----------------------------------------------------------------------------
(* A step of one request, other than its first, starts no request: those   *)
(* that may not run at the same time still do not.                         *)
LEMMA NoCrossWriter ==
  ASSUME TypeOK, PhaseInv, ReservedInv,
         NEW q \in Reloaders, NEW r \in Reloaders,
         pc[q] \in ConfigPhase, pc[r] \in PluginPhase
  PROVE  FALSE
  <1>1. q # r
    BY DEF ConfigPhase, PluginPhase
  <1>2. InFlight(q) /\ InFlight(r)
    BY DEF InFlight, ConfigPhase, PluginPhase
  <1>3. CrossWrites(req[q], req[r])
    BY DEF PhaseInv, CrossWrites
  <1> QED
    BY <1>1, <1>2, <1>3 DEF ReservedInv

LEMMA InitReservedInv == Init => ReservedInv
  <1> SUFFICES ASSUME Init PROVE ReservedInv
    OBVIOUS
  <1>1. diskCfg \in SUBSET Services
    BY ContentsAssumption DEF Init
  <1>2. Bound(tools) \cap Bound(plugins) = {}
    BY <1>1, ToolsAvoidReserved DEF Init
  <1>3. \A r \in Reloaders : pc[r] = "idle"
    BY DEF Init
  <1> QED
    BY <1>2, <1>3 DEF ReservedInv, InFlight

LEMMA NextReservedInv ==
  ASSUME TypeOK, PhaseInv, ~overlapped => ReservedInv, [Next]_vars, ~overlapped'
  PROVE  ReservedInv'
  <1>1. ~overlapped /\ ReservedInv
    <2>1. overlapped => overlapped'
      BY DEF Next, Step, EditConfig, EditDoc, EditDir, Edit, BeginReload, ReadConfig,
             CommitConfig, ListAPIs, ReserveForTools, BuildTools, CommitTools,
             ScanPlugins, ReserveForPlugins, CommitPlugins, Reply, vars, history
    <2> QED
      BY <2>1 DEF TypeOK
  <1> DEFINE Shared == <<tools, plugins, req, reserved, newTools, newPlugins>>
  (* A step of r that moves it between two labels where nothing is claimed. *)
  <1>2. ASSUME NEW r \in Reloaders,
               \A q \in Reloaders : q # r => pc'[q] = pc[q],
               InFlight(r)' => InFlight(r),
               pc'[r] \notin {"build", "commitTools", "commitPlugins"},
               UNCHANGED Shared
        PROVE  ReservedInv'
    BY <1>1, <1>2 DEF ReservedInv, InFlight, Bound, CrossWrites
  <1>3. CASE UNCHANGED <<pc, Shared>>
    BY <1>1, <1>3 DEF ReservedInv, InFlight, Bound, CrossWrites
  <1>4. ASSUME NEW r \in Reloaders, NEW c \in BOOLEAN, NEW p \in BOOLEAN,
               BeginReload(r, c, p)
        PROVE  ReservedInv'
    <2>1. \A q \in Reloaders :
             (q # r /\ InFlight(q)) => ~CrossWrites(Requested(c, p), req[q])
      BY <1>4 DEF BeginReload
    <2>2. /\ req'[r] = Requested(c, p)
          /\ \A q \in Reloaders : q # r => req'[q] = req[q] /\ pc'[q] = pc[q]
          /\ pc'[r] \in {"readConfig", "scan"}
          /\ UNCHANGED <<tools, plugins, reserved, newTools, newPlugins>>
      BY <1>4 DEF BeginReload, Goto, TypeOK, tables, locals
    <2>3. \A q, s \in Reloaders :
             (q # s /\ InFlight(q)' /\ InFlight(s)') => ~CrossWrites(req'[q], req'[s])
      BY <1>1, <2>1, <2>2 DEF ReservedInv, InFlight, CrossWrites
    <2> QED
      BY <1>1, <2>2, <2>3 DEF ReservedInv, Bound, CrossWrites
  <1>5. ASSUME NEW r \in Reloaders, ReadConfig(r)
        PROVE  ReservedInv'
    BY <1>2, <1>5 DEF ReadConfig, Goto, InFlight, TypeOK, tables
  <1>6. ASSUME NEW r \in Reloaders, CommitConfig(r)
        PROVE  ReservedInv'
    BY <1>2, <1>6 DEF CommitConfig, Goto, InFlight, TypeOK
  <1>7. ASSUME NEW r \in Reloaders, ListAPIs(r)
        PROVE  ReservedInv'
    BY <1>2, <1>7 DEF ListAPIs, Goto, InFlight, TypeOK, tables
  <1>8. ASSUME NEW r \in Reloaders, ScanPlugins(r)
        PROVE  ReservedInv'
    BY <1>2, <1>8 DEF ScanPlugins, Goto, InFlight, TypeOK, tables
  <1>9. ASSUME NEW r \in Reloaders, ReserveForTools(r)
        PROVE  ReservedInv'
    BY <1>1, <1>9 DEF ReserveForTools, Goto, InFlight, TypeOK, tables, ReservedInv,
                      Bound, CrossWrites
  <1>10. ASSUME NEW r \in Reloaders, BuildTools(r)
         PROVE  ReservedInv'
    <2>1. CASE ~ToolsLoad(apis[r], diskDocs, reserved[r])
      <3>1. /\ \A q \in Reloaders : q # r => pc'[q] = pc[q] /\ reserved'[q] = reserved[q]
            /\ pc'[r] = "failed"
            /\ UNCHANGED <<tools, plugins, req, newTools, newPlugins>>
        BY <1>10, <2>1 DEF BuildTools, Goto, TypeOK, tables
      <3> QED
        BY <1>1, <3>1 DEF ReservedInv, InFlight, Bound, CrossWrites
    <2>2. CASE ToolsLoad(apis[r], diskDocs, reserved[r])
      <3>1. /\ \A q \in Reloaders : q # r => /\ pc'[q] = pc[q]
                                             /\ reserved'[q] = reserved[q]
                                             /\ newTools'[q] = newTools[q]
            /\ pc[r] = "build" /\ pc'[r] = "commitTools"
            /\ newTools'[r] = ToolsOf(apis[r], diskDocs)
            /\ UNCHANGED <<tools, plugins, req, newPlugins>>
        BY <1>10, <2>2 DEF BuildTools, Goto, TypeOK, tables
      <3>2. apis[r] \in SUBSET Services
        BY ConfigsType DEF TypeOK
      <3>3. Bound(newTools'[r]) \cap Bound(plugins) = {}
        BY <1>1, <2>2, <3>1, <3>2, ToolsAvoidReserved DEF ReservedInv
      <3> QED
        BY <1>1, <3>1, <3>3 DEF ReservedInv, InFlight, Bound, CrossWrites
    <2> QED
      BY <2>1, <2>2
  <1>11. ASSUME NEW r \in Reloaders, CommitTools(r)
         PROVE  ReservedInv'
    <2>1. /\ \A q \in Reloaders : q # r => pc'[q] = pc[q] /\ newTools'[q] = newTools[q]
          /\ pc[r] = "commitTools" /\ pc'[r] \in {"scan", "ok"}
          /\ tools' = newTools[r]
          /\ UNCHANGED <<plugins, req, reserved, newPlugins>>
      BY <1>11 DEF CommitTools, Goto, TypeOK
    <2>2. \A q \in Reloaders : pc[q] # "commitPlugins"
      BY <1>1, <2>1, NoCrossWriter DEF ConfigPhase, PluginPhase
    <2> QED
      BY <1>1, <2>1, <2>2 DEF ReservedInv, InFlight, Bound, CrossWrites
  <1>12. ASSUME NEW r \in Reloaders, ReserveForPlugins(r)
         PROVE  ReservedInv'
    <2>1. CASE ~PluginsLoad(scan[r], Bound(tools))
      BY <1>2, <1>12, <2>1 DEF ReserveForPlugins, Goto, InFlight, TypeOK, tables
    <2>2. CASE PluginsLoad(scan[r], Bound(tools))
      <3>1. /\ \A q \in Reloaders : q # r => /\ pc'[q] = pc[q]
                                             /\ newPlugins'[q] = newPlugins[q]
            /\ pc[r] = "reserveForPlugins" /\ pc'[r] = "commitPlugins"
            /\ newPlugins'[r] = PluginsOf(scan[r])
            /\ UNCHANGED <<tools, plugins, req, reserved, newTools>>
        BY <1>12, <2>2 DEF ReserveForPlugins, Goto, TypeOK, tables
      <3>2. Bound(newPlugins'[r]) \cap Bound(tools) = {}
        BY <2>2, <3>1, PluginsAvoidReserved
      <3> QED
        BY <1>1, <3>1, <3>2 DEF ReservedInv, InFlight, Bound, CrossWrites
    <2> QED
      BY <2>1, <2>2
  <1>13. ASSUME NEW r \in Reloaders, CommitPlugins(r)
         PROVE  ReservedInv'
    <2>1. /\ \A q \in Reloaders : q # r => pc'[q] = pc[q] /\ newPlugins'[q] = newPlugins[q]
          /\ pc[r] = "commitPlugins" /\ pc'[r] = "ok"
          /\ plugins' = newPlugins[r]
          /\ UNCHANGED <<tools, req, reserved, newTools>>
      BY <1>13 DEF CommitPlugins, Goto, TypeOK
    <2>2. \A q \in Reloaders : pc[q] \notin {"build", "commitTools"}
      BY <1>1, <2>1, NoCrossWriter DEF ConfigPhase, PluginPhase
    <2> QED
      BY <1>1, <2>1, <2>2 DEF ReservedInv, InFlight, Bound, CrossWrites
  <1>14. ASSUME NEW r \in Reloaders, Reply(r)
         PROVE  ReservedInv'
    BY <1>1, <1>14 DEF Reply, InFlight, TypeOK, tables, locals, ReservedInv, Bound,
                       CrossWrites
  <1>15. EditConfig \/ EditDoc \/ EditDir \/ UNCHANGED vars
            => UNCHANGED <<pc, Shared>>
    BY DEF EditConfig, EditDoc, EditDir, Edit, vars, tables, locals
  <1> QED
    BY <1>3, <1>4, <1>5, <1>6, <1>7, <1>8, <1>9, <1>10, <1>11, <1>12, <1>13,
       <1>14, <1>15 DEF Next, Step

(* The two checks of names against the other table are enough as long as   *)
(* requests writing different tables do not overlap; for any number of     *)
(* requests, names, services and directories.                              *)
THEOREM UniqueUnlessOverlapHolds == Spec => []UniqueUnlessOverlap
  <1>1. Init => IInv
    BY InitTypeOK, InitPhaseInv, InitReservedInv DEF IInv
  <1>2. IInv /\ [Next]_vars => IInv'
    BY NextTypeOK, NextPhaseInv, NextReservedInv DEF IInv
  <1>3. IInv => UniqueUnlessOverlap
    BY DEF IInv, ReservedInv, UniqueUnlessOverlap, NamesUnique, Bound
  <1> QED
    BY <1>1, <1>2, <1>3, PTL DEF Spec

-----------------------------------------------------------------------------
(* As long as no requests that write different tables have overlapped, the *)
(* two tables, looked up plugins first, implement the single table of      *)
(* ToolTable.                                                              *)
SingleReloader == \A q, r \in Reloaders : q = r

SerialInv == IInv /\ ~overlapped

LEMMA BindingType == TypeOK => \A n \in Names : BindingOf(n) \in Table!Binding
  BY DEF TypeOK, BindingOf, Table!Binding

LEMMA InitTable == Init => Table!Init
  BY InitTypeOK, BindingType DEF Table!Init, Table!TypeOK, bindings

(* A step that leaves tools and plugins alone is a stutter of ToolTable.   *)
LEMMA TableStutter ==
  ASSUME UNCHANGED <<tools, plugins>>
  PROVE  bindings' = bindings
  BY DEF bindings, BindingOf

LEMMA StepTable ==
  ASSUME SerialInv, SerialInv', [Next]_vars
  PROVE  [Table!Next]_bindings
  <1>1. TypeOK /\ TypeOK' /\ ReservedInv
    BY DEF SerialInv, IInv
  <1>2. \A n \in Names : BindingOf(n)' \in Table!Binding
    BY <1>1, BindingType DEF TypeOK, BindingOf, Table!Binding
  <1>3. \A n \in Names : tools[n] = None \/ plugins[n] = None
    BY <1>1 DEF ReservedInv, Bound
  <1>4. ASSUME NEW r \in Reloaders, CommitTools(r)
        PROVE  Table!Replace("api")
    <2>1. plugins' = plugins
      BY <1>4 DEF CommitTools
    <2>2. ASSUME NEW n \in Names,
                 BindingOf(n)[1] = "plugin" \/ BindingOf(n)'[1] = "plugin"
          PROVE  BindingOf(n)' = BindingOf(n)
      BY <2>1, <2>2 DEF BindingOf
    <2>3. \A n \in Names : /\ BindingOf(n)[1] \in {"plugin", "api", "none"}
                           /\ BindingOf(n)'[1] \in {"plugin", "api", "none"}
      BY DEF BindingOf
    <2> QED
      BY <1>2, <2>2, <2>3 DEF Table!Replace, Table!Kind, bindings
  <1>5. ASSUME NEW r \in Reloaders, CommitPlugins(r)
        PROVE  Table!Replace("plugin")
    <2>1. tools' = tools /\ plugins' = newPlugins[r] /\ pc[r] = "commitPlugins"
      BY <1>5 DEF CommitPlugins, Goto
    <2>2. \A n \in Names : tools[n] = None \/ plugins'[n] = None
      BY <1>1, <2>1 DEF ReservedInv, Bound
    <2>3. ASSUME NEW n \in Names,
                 BindingOf(n)[1] = "api" \/ BindingOf(n)'[1] = "api"
          PROVE  BindingOf(n)' = BindingOf(n)
      BY <1>3, <2>1, <2>2, <2>3 DEF BindingOf
    <2>4. \A n \in Names : /\ BindingOf(n)[1] \in {"plugin", "api", "none"}
                           /\ BindingOf(n)'[1] \in {"plugin", "api", "none"}
      BY DEF BindingOf
    <2> QED
      BY <1>2, <2>3, <2>4 DEF Table!Replace, Table!Kind, bindings
  <1>6. \/ \E r \in Reloaders : CommitTools(r) \/ CommitPlugins(r)
        \/ UNCHANGED <<tools, plugins>>
    BY DEF Next, Step, EditConfig, EditDoc, EditDir, Edit, BeginReload, ReadConfig,
           CommitConfig, ListAPIs, ReserveForTools, BuildTools, ScanPlugins,
           ReserveForPlugins, Reply, vars, tables
  <1> QED
    BY <1>4, <1>5, <1>6, TableStutter DEF Table!Next

(* Every step, of however many requests, that leaves overlapped FALSE is a *)
(* step of ToolTable or a stutter.                                         *)
THEOREM ImplementsToolTableHolds == Spec => ImplementsToolTable
  <1>1. Init => IInv
    BY InitTypeOK, InitPhaseInv, InitReservedInv DEF IInv
  <1>2. IInv /\ [Next]_vars => IInv'
    BY NextTypeOK, NextPhaseInv, NextReservedInv DEF IInv
  <1>3. IInv /\ IInv' /\ [Next]_vars => [~overlapped' => Table!Next]_bindings
    <2> SUFFICES ASSUME IInv, IInv', [Next]_vars, ~overlapped'
                 PROVE  [Table!Next]_bindings
      OBVIOUS
    <2>1. ~overlapped
      BY DEF Next, Step, EditConfig, EditDoc, EditDir, Edit, BeginReload, ReadConfig,
             CommitConfig, ListAPIs, ReserveForTools, BuildTools, CommitTools, ScanPlugins,
             ReserveForPlugins, CommitPlugins, Reply, vars, history
    <2> QED
      BY <2>1, StepTable DEF SerialInv
  <1> QED
    BY <1>1, <1>2, <1>3, InitTable, PTL DEF Spec, ImplementsToolTable

(* A handler that served one request at a time would implement ToolTable   *)
(* without any condition.                                                  *)
THEOREM SerialImplementsToolTable == SingleReloader => (Spec => Table!Spec)
  <1> SUFFICES ASSUME SingleReloader PROVE Spec => Table!Spec
    OBVIOUS
  <1>1. Init => SerialInv
    BY InitTypeOK, InitPhaseInv, InitReservedInv DEF SerialInv, IInv, Init
  <1>2. SerialInv /\ [Next]_vars => SerialInv'
    <2> SUFFICES ASSUME SerialInv, [Next]_vars PROVE SerialInv'
      OBVIOUS
    <2>1. ~overlapped'
      <3>1. ASSUME NEW r \in Reloaders, NEW c \in BOOLEAN, NEW p \in BOOLEAN,
                   BeginReload(r, c, p)
            PROVE  ~overlapped'
        BY <3>1 DEF SingleReloader, BeginReload, SerialInv
      <3> QED
        BY <3>1 DEF SerialInv, Next, Step, EditConfig, EditDoc, EditDir, Edit,
           ReadConfig, CommitConfig, ListAPIs, ReserveForTools, BuildTools,
           CommitTools, ScanPlugins, ReserveForPlugins, CommitPlugins, Reply,
           vars, history
    <2> QED
      BY <2>1, NextTypeOK, NextPhaseInv, NextReservedInv DEF SerialInv, IInv
  <1> QED
    BY <1>1, <1>2, InitTable, StepTable, PTL DEF Spec, Table!Spec

-----------------------------------------------------------------------------
(* A reload that runs alone.  What it has read, staged or built so far is  *)
(* what the files say, as long as nobody edits one: no other request is in *)
(* flight that could replace a table, and one that begins ends the claim.  *)

LEMMA ToolsOfReflects ==
  ASSUME NEW svcs \in SUBSET Services, NEW docs \in [Services -> DocFiles], NEW taken,
         ToolsLoad(svcs, docs, taken)
  PROVE  /\ \A s \in svcs : \A n \in docs[s] : ToolsOf(svcs, docs)[n] = s
         /\ \A n \in Names : ToolsOf(svcs, docs)[n] # None =>
              ToolsOf(svcs, docs)[n] \in svcs /\ n \in docs[ToolsOf(svcs, docs)[n]]
  <1>1. \A s \in svcs : docs[s] \subseteq Names
    BY ContentsAssumption DEF ToolsLoad
  <1>2. ASSUME NEW s \in svcs, NEW n \in docs[s] PROVE ToolsOf(svcs, docs)[n] = s
    <2>1. n \in Names
      BY <1>1
    <2>2. \A t \in svcs : n \in docs[t] => t = s
      BY DEF ToolsLoad
    <2> QED
      BY <2>1, <2>2 DEF ToolsOf
  <1>3. ASSUME NEW n \in Names, ToolsOf(svcs, docs)[n] # None
        PROVE  ToolsOf(svcs, docs)[n] \in svcs /\ n \in docs[ToolsOf(svcs, docs)[n]]
    BY <1>3 DEF ToolsOf
  <1> QED
    BY <1>2, <1>3

LEMMA PluginsOfReflects ==
  ASSUME NEW dirs, NEW taken, PluginsLoad(dirs, taken), \A i \in Dirs : dirs[i] # Unreadable
  PROVE  /\ \A i \in Dirs : dirs[i] \in Names => PluginsOf(dirs)[dirs[i]] = i
         /\ \A n \in Names : PluginsOf(dirs)[n] # None => dirs[PluginsOf(dirs)[n]] = n
  <1>1. Loaded(dirs) = {i \in Dirs : dirs[i] \in Names}
    BY BoundsAssumption DEF Loaded, Walked, Dirs
  <1>2. \A i, j \in Loaded(dirs) : dirs[i] = dirs[j] => i = j
    BY DEF PluginsLoad
  <1>3. ASSUME NEW i \in Dirs, dirs[i] \in Names PROVE PluginsOf(dirs)[dirs[i]] = i
    <2>1. i \in Loaded(dirs) /\ \A j \in Loaded(dirs) : dirs[j] = dirs[i] => j = i
      BY <1>1, <1>2, <1>3
    <2> QED
      BY <1>3, <2>1 DEF PluginsOf
  <1>4. ASSUME NEW n \in Names, PluginsOf(dirs)[n] # None PROVE dirs[PluginsOf(dirs)[n]] = n
    BY <1>4 DEF PluginsOf
  <1> QED
    BY <1>3, <1>4

Built == {"scan", "reserveForPlugins", "commitPlugins", "ok"}
Readable == \A i \in Dirs : diskDirs[i] # Unreadable

Reflects(r) ==
  /\ pc[r] = "commitConfig" => staged[r] = diskCfg
  /\ pc[r] \in {"listAPIs", "reserveForTools", "build", "commitTools"} => cfg = diskCfg
  /\ pc[r] \in {"reserveForTools", "build"} => apis[r] = cfg
  /\ pc[r] = "commitTools" =>
        newTools[r] = ToolsOf(cfg, diskDocs) /\ \E taken : ToolsLoad(cfg, diskDocs, taken)
  /\ pc[r] \in Built /\ "config" \in req[r] => ToolsReflectDisk
  /\ pc[r] = "reserveForPlugins" => scan[r] = diskDirs
  /\ pc[r] = "commitPlugins" =>
        newPlugins[r] = PluginsOf(diskDirs) /\ \E taken : PluginsLoad(diskDirs, taken)
  /\ pc[r] = "ok" /\ "plugins" \in req[r] /\ Readable => PluginsReflectDisk

LoneInv ==
  \A r \in Reloaders : /\ alone[r] => \A q \in Reloaders \ {r} : ~InFlight(q)
                       /\ alone[r] /\ unedited[r] => Reflects(r)

(* A step of a request in flight: if another ran alone, it would not be.   *)
LEMMA StepLone ==
  ASSUME LoneInv, NEW r \in Reloaders, InFlight(r), UNCHANGED <<unedited, alone>>,
         \A q \in Reloaders \ {r} : UNCHANGED pc[q],
         alone[r] /\ unedited[r] => Reflects(r)'
  PROVE  LoneInv'
  <1>1. ASSUME NEW q \in Reloaders, alone'[q] PROVE \A p \in Reloaders \ {q} : ~InFlight(p)'
    <2>1. alone[q] /\ \A p \in Reloaders \ {q} : ~InFlight(p)
      BY <1>1 DEF LoneInv
    <2>2. q = r
      BY <2>1
    <2> QED
      BY <2>1, <2>2 DEF InFlight
  <1>2. ASSUME NEW q \in Reloaders, alone'[q], unedited'[q] PROVE Reflects(q)'
    <2>1. alone[q] /\ unedited[q]
      BY <1>2
    <2>2. q = r
      BY <2>1 DEF LoneInv
    <2> QED
      BY <2>1, <2>2
  <1> QED
    BY <1>1, <1>2 DEF LoneInv

LEMMA NextLone ==
  ASSUME TypeOK, PhaseInv, LoneInv, [Next]_vars
  PROVE  LoneInv'
  <1> USE DEF Goto
  <1>0. pc \in [Reloaders -> Labels] /\ DOMAIN pc = Reloaders
    BY DEF TypeOK
  <1>1. CASE UNCHANGED vars
    BY <1>1 DEF vars, disk, tables, locals, history, LoneInv, InFlight, Reflects,
                ToolsReflectDisk, PluginsReflectDisk, Readable
  <1>2. CASE EditConfig \/ EditDoc \/ EditDir
    <2>1. unedited' = [r \in Reloaders |-> FALSE] /\ UNCHANGED <<pc, alone>>
      BY <1>2 DEF EditConfig, EditDoc, EditDir, Edit
    <2> QED
      BY <2>1 DEF LoneInv, InFlight
  <1>3. ASSUME NEW r \in Reloaders, NEW c \in BOOLEAN, NEW p \in BOOLEAN, BeginReload(r, c, p)
        PROVE  LoneInv'
    <2>1. /\ alone' = [q \in Reloaders |-> q = r /\ {s \in Reloaders : s # r /\ InFlight(s)} = {}]
          /\ pc[r] = "idle" /\ pc'[r] \in {"readConfig", "scan"}
          /\ \A q \in Reloaders \ {r} : UNCHANGED pc[q]
          /\ req'[r] = Requested(c, p)
          /\ pc'[r] = "scan" => "config" \notin Requested(c, p)
      BY <1>0, <1>3 DEF BeginReload, TypeOK
    <2>2. ASSUME NEW q \in Reloaders, alone'[q] PROVE \A s \in Reloaders \ {q} : ~InFlight(s)'
      BY <2>1, <2>2 DEF InFlight
    <2>3. ASSUME NEW q \in Reloaders, alone'[q] PROVE Reflects(q)'
      <3>1. q = r
        BY <2>1, <2>3
      <3> QED
        BY <2>1, <3>1 DEF Reflects, Built
    <2> QED
      BY <2>2, <2>3 DEF LoneInv
  <1>4. ASSUME NEW r \in Reloaders, Reply(r) PROVE LoneInv'
    <2>1. /\ pc' = [pc EXCEPT ![r] = "idle"] /\ alone' = [alone EXCEPT ![r] = FALSE]
          /\ req' = [req EXCEPT ![r] = {}] /\ unedited' = [unedited EXCEPT ![r] = FALSE]
          /\ UNCHANGED <<disk, tables, locals>> /\ ~InFlight(r)
      BY <1>4 DEF Reply, InFlight
    <2>2. /\ ~alone'[r]
          /\ \A q \in Reloaders \ {r} : UNCHANGED <<pc[q], alone[q], req[q], unedited[q]>>
          /\ ~InFlight(r)'
      BY <1>0, <2>1 DEF TypeOK, InFlight
    <2>3. ASSUME NEW q \in Reloaders \ {r}, alone'[q] PROVE \A s \in Reloaders \ {q} : ~InFlight(s)'
      BY <2>2, <2>3 DEF LoneInv, InFlight
    <2>4. ASSUME NEW q \in Reloaders \ {r}, alone'[q], unedited'[q] PROVE Reflects(q)'
      <3>1. Reflects(q)
        BY <2>2, <2>4 DEF LoneInv
      <3> QED
        BY <2>1, <2>2, <3>1 DEF Reflects, ToolsReflectDisk, PluginsReflectDisk, Readable,
                                disk, tables, locals
    <2> QED
      BY <2>2, <2>3, <2>4 DEF LoneInv
  <1>5. ASSUME NEW r \in Reloaders, Step(r), ~Reply(r) PROVE LoneInv'
    <2>1. /\ UNCHANGED <<disk, req, unedited, alone>> /\ InFlight(r)
          /\ pc[r] \notin {"ok", "failed"}
          /\ \A q \in Reloaders \ {r} : UNCHANGED pc[q]
      BY <1>0, <1>5 DEF Step, ReadConfig, CommitConfig, ListAPIs, ReserveForTools, BuildTools,
           CommitTools, ScanPlugins, ReserveForPlugins, CommitPlugins, history, InFlight
    <2> SUFFICES ASSUME alone[r], unedited[r], Reflects(r) PROVE Reflects(r)'
      BY <1>5, <2>1, StepLone DEF LoneInv
    <2>2. CASE ReadConfig(r)
      BY <1>0, <2>1, <2>2 DEF ReadConfig, Reflects, Built, disk, tables, TypeOK
    <2>3. CASE CommitConfig(r)
      BY <1>0, <2>1, <2>3 DEF CommitConfig, Reflects, Built, disk, TypeOK
    <2>4. CASE ListAPIs(r)
      BY <1>0, <2>1, <2>4 DEF ListAPIs, Reflects, Built, disk, tables, TypeOK
    <2>5. CASE ReserveForTools(r)
      BY <1>0, <2>1, <2>5 DEF ReserveForTools, Reflects, Built, disk, tables, TypeOK
    <2>6. CASE BuildTools(r)
      BY <1>0, <2>1, <2>6 DEF BuildTools, Reflects, Built, disk, tables, TypeOK
    <2>7. CASE CommitTools(r)
      <3>1. PICK taken : ToolsLoad(cfg, diskDocs, taken)
        BY <2>7 DEF CommitTools, Reflects
      <3>2. /\ tools' = ToolsOf(cfg, diskDocs) /\ cfg = diskCfg
            /\ UNCHANGED <<cfg, diskCfg, diskDocs>>
        BY <2>1, <2>7 DEF CommitTools, Reflects, disk
      <3>3. cfg \in SUBSET Services /\ diskDocs \in [Services -> DocFiles]
        BY ConfigsType DEF TypeOK
      <3>4. ToolsReflectDisk'
        BY <3>1, <3>2, <3>3, ToolsOfReflects DEF ToolsReflectDisk
      <3>5. pc'[r] = "scan" \/ (pc'[r] = "ok" /\ "plugins" \notin req'[r])
        BY <1>0, <2>1, <2>7 DEF CommitTools
      <3> QED
        BY <3>4, <3>5 DEF Reflects
    <2>8. CASE ScanPlugins(r)
      BY <1>0, <2>1, <2>8 DEF ScanPlugins, Reflects, ToolsReflectDisk, Built, disk, tables, TypeOK
    <2>9. CASE ReserveForPlugins(r)
      BY <1>0, <2>1, <2>9 DEF ReserveForPlugins, Reflects, ToolsReflectDisk, Built, disk, tables, TypeOK
    <2>10. CASE CommitPlugins(r)
      <3>1. PICK taken : PluginsLoad(diskDirs, taken)
        BY <2>10 DEF CommitPlugins, Reflects
      <3>2. plugins' = PluginsOf(diskDirs) /\ UNCHANGED <<diskDirs, diskCfg, diskDocs, cfg, tools>>
        BY <2>1, <2>10 DEF CommitPlugins, Reflects, disk
      <3>3. Readable' => PluginsReflectDisk'
        BY <3>1, <3>2, PluginsOfReflects DEF Readable, PluginsReflectDisk
      <3>4. "config" \in req'[r] => ToolsReflectDisk'
        BY <2>1, <2>10, <3>2 DEF CommitPlugins, Reflects, Built, ToolsReflectDisk
      <3>5. pc'[r] = "ok"
        BY <1>0, <2>10 DEF CommitPlugins
      <3> QED
        BY <3>3, <3>4, <3>5 DEF Reflects
    <2> QED
      BY <1>5, <2>2, <2>3, <2>4, <2>5, <2>6, <2>7, <2>8, <2>9, <2>10 DEF Step
  <1> QED
    BY <1>1, <1>2, <1>3, <1>4, <1>5 DEF Next, Step

(* A 200 of a request that ran alone, with no file edited meanwhile, means *)
(* that the tables asked for are those of the files.                       *)
THEOREM LoneReloadReflectsDiskHolds == Spec => []LoneReloadReflectsDisk
  <1>1. Init => TypeOK /\ PhaseInv /\ LoneInv
    BY InitTypeOK, InitPhaseInv DEF Init, LoneInv
  <1>2. TypeOK /\ PhaseInv /\ LoneInv /\ [Next]_vars => (TypeOK /\ PhaseInv /\ LoneInv)'
    BY NextTypeOK, NextPhaseInv, NextLone
  <1>3. LoneInv => LoneReloadReflectsDisk
    BY DEF LoneInv, Reflects, Built, Readable, LoneReloadReflectsDisk
  <1> QED
    BY <1>1, <1>2, <1>3, PTL DEF Spec
=============================================================================
