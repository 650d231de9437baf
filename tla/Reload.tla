------------------------------- MODULE Reload -------------------------------
(***************************************************************************)
(* POST /api/reload and the three tables it refreshes: the configuration   *)
(* (config.Manager), the OpenAPI tools (openapi.Registry) and the disk     *)
(* plugins (plugin.Manager).  Every request runs in a goroutine of its     *)
(* own; each table has its own lock and no lock spans two of them, so the  *)
(* steps of two requests interleave at every access to a table or to the   *)
(* disk.  One action below is one such access, with the local computation  *)
(* that follows it; the operator edits the files at any moment.            *)
(*                                                                         *)
(* Abstractions.  Of the configuration only the set of API services is     *)
(* kept: it is what the tool tables depend on.  An OpenAPI document is the *)
(* set of tool names its discovered operations yield (prefix included), or *)
(* Bad when loading or expanding it fails.  A plugin directory is the name *)
(* its plugin.yml declares, or one of three conditions.  The files read by *)
(* one step are read at one instant.                                       *)
(***************************************************************************)
EXTENDS Naturals

CONSTANTS Names,      \* tool names
          Services,   \* API services apis.yaml may list
          NumDirs,    \* plugin directories, walked in the order 1..NumDirs
          Reloaders,  \* goroutines that serve POST /api/reload
          CfgFiles,   \* contents the configuration files may take
          DocFiles,   \* contents an OpenAPI document may take
          DirFiles,   \* contents a plugin directory may take
          MaxEdits,   \* bound on the operator's edits
          None,       \* no target
          Bad,        \* a file that does not load
          Absent,     \* no plugin.yml
          Broken,     \* loadOne fails: skipped with a warning
          Unreadable  \* the directory cannot be listed: WalkDir stops

Dirs == 1..NumDirs

Configs == {{}} \cup (CfgFiles \ {Bad})

ASSUME BoundsAssumption == NumDirs \in Nat /\ MaxEdits \in Nat

ASSUME ContentsAssumption ==
  /\ \A c \in CfgFiles : c = Bad \/ c \subseteq Services
  /\ \A d \in DocFiles : d = Bad \/ d \subseteq Names
  /\ DirFiles \subseteq Names \cup {Absent, Broken, Unreadable}

ASSUME SentinelAssumption ==
  /\ None \notin Services \cup Dirs
  /\ \A c \in SUBSET Services : c # Bad
  /\ \A d \in SUBSET Names : d # Bad
  /\ {Absent, Broken, Unreadable} \cap Names = {}

VARIABLES
  diskCfg, diskDocs, diskDirs,  \* the files
  edits,                        \* edits made so far
  cfg,                          \* Manager.apis: services of the running configuration
  tools,                        \* Registry.tools: name -> service, or None
  plugins,                      \* Manager.plugins: name -> directory, or None
  pc, req,                      \* where each request is, and what it asks for
  staged,                       \* reloadResources: the configuration read
  apis, reserved,               \* Load's locals: services, names of the other table
  scan,                         \* LoadAll's result
  newTools, newPlugins,         \* the tables built, not yet installed
  wrote, unedited, alone, overlapped  \* history, see BeginReload

disk   == <<diskCfg, diskDocs, diskDirs>>
tables == <<cfg, tools, plugins>>
locals == <<staged, apis, reserved, scan, newTools, newPlugins>>
history == <<wrote, unedited, alone, overlapped>>
vars   == <<disk, edits, tables, pc, req, locals, history>>

Flags  == {"config", "plugins"}
Labels == {"idle", "readConfig", "commitConfig", "listAPIs", "reserveForTools",
           "build", "commitTools", "scan", "reserveForPlugins",
           "commitPlugins", "ok", "failed"}

NoTools   == [n \in Names |-> None]
NoPlugins == [n \in Names |-> None]
NoScan    == [i \in Dirs |-> Absent]

Bound(table) == {n \in Names : table[n] # None}

InFlight(r) == pc[r] \notin {"idle", "ok", "failed"}

-----------------------------------------------------------------------------
(* plugin.LoadAll: the walk stops at the first directory it cannot list.   *)

Walked(dirs) == {i \in Dirs : \A j \in 1..i : dirs[j] # Unreadable}

Loaded(dirs) == {i \in Walked(dirs) : dirs[i] \in Names}

LoadErrs(dirs) == Walked(dirs) # Dirs \/ \E i \in Walked(dirs) : dirs[i] = Broken

(* plugin.Manager.Load: what the scanned directories amount to.            *)
PluginsOf(dirs) ==
  [n \in Names |-> IF \E i \in Loaded(dirs) : dirs[i] = n
                   THEN CHOOSE i \in Loaded(dirs) : dirs[i] = n
                   ELSE None]

(* Mutant of PluginsLoad: a name of an OpenAPI tool is not refused.        *)
PluginsLoadUnreserved(dirs, taken) ==
  /\ \A i, j \in Loaded(dirs) : dirs[i] = dirs[j] => i = j
  /\ ~(Loaded(dirs) = {} /\ LoadErrs(dirs))

PluginsLoad(dirs, taken) ==
  /\ \A i, j \in Loaded(dirs) : dirs[i] = dirs[j] => i = j
  /\ \A i \in Loaded(dirs) : dirs[i] \notin taken
  /\ ~(Loaded(dirs) = {} /\ LoadErrs(dirs))

(* openapi.Registry.Load: the tools of the services, or an error.          *)
ToolsOf(svcs, docs) ==
  [n \in Names |-> IF \E s \in svcs : n \in docs[s]
                   THEN CHOOSE s \in svcs : n \in docs[s]
                   ELSE None]

ToolsLoad(svcs, docs, taken) ==
  /\ \A s \in svcs : docs[s] # Bad
  /\ \A s, t \in svcs : s # t => docs[s] \cap docs[t] = {}
  /\ \A s \in svcs : docs[s] \cap taken = {}

-----------------------------------------------------------------------------
(* main.run: configuration, then plugins, then OpenAPI tools; an error in  *)
(* any of them ends the process before it serves requests.                 *)
Init ==
  /\ diskCfg \in CfgFiles \ {Bad}
  /\ diskDocs \in [Services -> DocFiles]
  /\ diskDirs \in [Dirs -> DirFiles]
  /\ edits = 0
  /\ PluginsLoad(diskDirs, {})
  /\ ToolsLoad(diskCfg, diskDocs, Bound(PluginsOf(diskDirs)))
  /\ cfg = diskCfg
  /\ plugins = PluginsOf(diskDirs)
  /\ tools = ToolsOf(diskCfg, diskDocs)
  /\ pc = [r \in Reloaders |-> "idle"]
  /\ req = [r \in Reloaders |-> {}]
  /\ staged = [r \in Reloaders |-> {}]
  /\ apis = [r \in Reloaders |-> {}]
  /\ reserved = [r \in Reloaders |-> {}]
  /\ scan = [r \in Reloaders |-> NoScan]
  /\ newTools = [r \in Reloaders |-> NoTools]
  /\ newPlugins = [r \in Reloaders |-> NoPlugins]
  /\ wrote = [r \in Reloaders |-> {}]
  /\ unedited = [r \in Reloaders |-> FALSE]
  /\ alone = [r \in Reloaders |-> FALSE]
  /\ overlapped = FALSE

-----------------------------------------------------------------------------
(* The operator edits one file.                                            *)
Edit ==
  /\ edits < MaxEdits
  /\ edits' = edits + 1
  /\ unedited' = [r \in Reloaders |-> FALSE]
  /\ UNCHANGED <<tables, pc, req, locals, wrote, alone, overlapped>>

EditConfig == /\ Edit
              /\ diskCfg' \in CfgFiles
              /\ UNCHANGED <<diskDocs, diskDirs>>

EditDoc == /\ Edit
           /\ \E s \in Services, d \in DocFiles : diskDocs' = [diskDocs EXCEPT ![s] = d]
           /\ UNCHANGED <<diskCfg, diskDirs>>

EditDir == /\ Edit
           /\ \E i \in Dirs, d \in DirFiles : diskDirs' = [diskDirs EXCEPT ![i] = d]
           /\ UNCHANGED <<diskCfg, diskDocs>>

-----------------------------------------------------------------------------
(* The request handler.                                                    *)

Goto(r, from, to) == pc[r] = from /\ pc' = [pc EXCEPT ![r] = to]

(* An empty or absent body asks for the plugins.                           *)
Requested(config, plugs) ==
  IF ~config /\ ~plugs THEN {"plugins"}
  ELSE {f \in Flags : (f = "config" /\ config) \/ (f = "plugins" /\ plugs)}

(* Requests f and g write different tables, each checked against the other. *)
CrossWrites(f, g) == \/ "config" \in f /\ "plugins" \in g
                     \/ "plugins" \in f /\ "config" \in g

(* History: wrote[r] collects the tables r replaced; unedited[r] says that *)
(* nobody edited a file since r began, alone[r] that no other request was  *)
(* in flight since; overlapped records that two requests writing different *)
(* tables once ran at the same time.                                       *)
BeginReload(r, config, plugs) ==
  LET flags == Requested(config, plugs)
      others == {q \in Reloaders : q # r /\ InFlight(q)}
  IN /\ Goto(r, "idle", IF "config" \in flags THEN "readConfig" ELSE "scan")
     /\ req' = [req EXCEPT ![r] = flags]
     /\ wrote' = [wrote EXCEPT ![r] = {}]
     /\ unedited' = [unedited EXCEPT ![r] = TRUE]
     /\ alone' = [q \in Reloaders |-> q = r /\ others = {}]
     /\ overlapped' = (overlapped \/ \E q \in others : CrossWrites(flags, req[q]))
     /\ UNCHANGED <<disk, edits, tables, locals>>

(* reloadResources reads the files without holding the lock ...            *)
ReadConfig(r) ==
  /\ \/ /\ diskCfg = Bad
        /\ Goto(r, "readConfig", "failed")
        /\ UNCHANGED staged
     \/ /\ diskCfg # Bad
        /\ Goto(r, "readConfig", "commitConfig")
        /\ staged' = [staged EXCEPT ![r] = diskCfg]
  /\ UNCHANGED <<disk, edits, tables, req, apis, reserved, scan, newTools,
                 newPlugins, history>>

(* ... and installs all the maps under it.                                 *)
CommitConfig(r) ==
  /\ Goto(r, "commitConfig", "listAPIs")
  /\ cfg' = staged[r]
  /\ staged' = [staged EXCEPT ![r] = {}]
  /\ wrote' = [wrote EXCEPT ![r] = @ \cup {"config"}]
  /\ UNCHANGED <<disk, edits, tools, plugins, req, apis, reserved, scan,
                 newTools, newPlugins, unedited, alone, overlapped>>

(* Registry.Load takes a snapshot of the services ...                      *)
ListAPIs(r) ==
  /\ Goto(r, "listAPIs", "reserveForTools")
  /\ apis' = [apis EXCEPT ![r] = cfg]
  /\ UNCHANGED <<disk, edits, tables, req, staged, reserved, scan, newTools,
                 newPlugins, history>>

(* ... then of the plugins' names ...                                      *)
ReserveForTools(r) ==
  /\ Goto(r, "reserveForTools", "build")
  /\ reserved' = [reserved EXCEPT ![r] = Bound(plugins)]
  /\ UNCHANGED <<disk, edits, tables, req, staged, apis, scan, newTools,
                 newPlugins, history>>

(* ... reads the documents and builds the tools, or gives up ...           *)
BuildTools(r) ==
  /\ \/ /\ ToolsLoad(apis[r], diskDocs, reserved[r])
        /\ Goto(r, "build", "commitTools")
        /\ newTools' = [newTools EXCEPT ![r] = ToolsOf(apis[r], diskDocs)]
     \/ /\ ~ToolsLoad(apis[r], diskDocs, reserved[r])
        /\ Goto(r, "build", "failed")
        /\ UNCHANGED newTools
  /\ apis' = [apis EXCEPT ![r] = {}]
  /\ reserved' = [reserved EXCEPT ![r] = {}]
  /\ UNCHANGED <<disk, edits, tables, req, staged, scan, newPlugins, history>>

(* ... and installs them.                                                  *)
CommitTools(r) ==
  /\ Goto(r, "commitTools", IF "plugins" \in req[r] THEN "scan" ELSE "ok")
  /\ tools' = newTools[r]
  /\ newTools' = [newTools EXCEPT ![r] = NoTools]
  /\ wrote' = [wrote EXCEPT ![r] = @ \cup {"tools"}]
  /\ UNCHANGED <<disk, edits, cfg, plugins, req, staged, apis, reserved, scan,
                 newPlugins, unedited, alone, overlapped>>

(* Manager.Load scans the plugin directories ...                           *)
ScanPlugins(r) ==
  /\ Goto(r, "scan", "reserveForPlugins")
  /\ scan' = [scan EXCEPT ![r] = diskDirs]
  /\ UNCHANGED <<disk, edits, tables, req, staged, apis, reserved, newTools,
                 newPlugins, history>>

(* Mutant of ReserveForPlugins: the table is filled while it is checked.   *)
ReserveForPluginsInPlace(r) ==
  /\ Goto(r, "reserveForPlugins",
          IF PluginsLoad(scan[r], Bound(tools)) THEN "commitPlugins" ELSE "failed")
  /\ plugins' = PluginsOf(scan[r])
  /\ newPlugins' = [newPlugins EXCEPT ![r] = PluginsOf(scan[r])]
  /\ wrote' = [wrote EXCEPT ![r] = @ \cup {"plugins"}]
  /\ scan' = [scan EXCEPT ![r] = NoScan]
  /\ UNCHANGED <<disk, edits, cfg, tools, req, staged, apis, reserved, newTools,
                 unedited, alone, overlapped>>

(* ... checks what it found against the OpenAPI tools' names ...           *)
ReserveForPlugins(r) ==
  /\ \/ /\ PluginsLoad(scan[r], Bound(tools))
        /\ Goto(r, "reserveForPlugins", "commitPlugins")
        /\ newPlugins' = [newPlugins EXCEPT ![r] = PluginsOf(scan[r])]
     \/ /\ ~PluginsLoad(scan[r], Bound(tools))
        /\ Goto(r, "reserveForPlugins", "failed")
        /\ UNCHANGED newPlugins
  /\ scan' = [scan EXCEPT ![r] = NoScan]
  /\ UNCHANGED <<disk, edits, tables, req, staged, apis, reserved, newTools,
                 history>>

(* Mutant of CommitPlugins: plugins that are gone from the disk stay.      *)
CommitPluginsMerging(r) ==
  /\ Goto(r, "commitPlugins", "ok")
  /\ plugins' = [n \in Names |-> IF newPlugins[r][n] # None THEN newPlugins[r][n]
                                 ELSE plugins[n]]
  /\ newPlugins' = [newPlugins EXCEPT ![r] = NoPlugins]
  /\ wrote' = [wrote EXCEPT ![r] = @ \cup {"plugins"}]
  /\ UNCHANGED <<disk, edits, cfg, tools, req, staged, apis, reserved, scan,
                 newTools, unedited, alone, overlapped>>

(* ... and installs it.                                                    *)
CommitPlugins(r) ==
  /\ Goto(r, "commitPlugins", "ok")
  /\ plugins' = newPlugins[r]
  /\ newPlugins' = [newPlugins EXCEPT ![r] = NoPlugins]
  /\ wrote' = [wrote EXCEPT ![r] = @ \cup {"plugins"}]
  /\ UNCHANGED <<disk, edits, cfg, tools, req, staged, apis, reserved, scan,
                 newTools, unedited, alone, overlapped>>

(* The response, 200 or 500, is written and the goroutine is free again.   *)
Reply(r) ==
  /\ pc[r] \in {"ok", "failed"}
  /\ pc' = [pc EXCEPT ![r] = "idle"]
  /\ req' = [req EXCEPT ![r] = {}]
  /\ wrote' = [wrote EXCEPT ![r] = {}]
  /\ unedited' = [unedited EXCEPT ![r] = FALSE]
  /\ alone' = [alone EXCEPT ![r] = FALSE]
  /\ UNCHANGED <<disk, edits, tables, locals, overlapped>>

-----------------------------------------------------------------------------
Step(r) == \/ ReadConfig(r) \/ CommitConfig(r)
           \/ ListAPIs(r) \/ ReserveForTools(r) \/ BuildTools(r) \/ CommitTools(r)
           \/ ScanPlugins(r) \/ ReserveForPlugins(r) \/ CommitPlugins(r)
           \/ Reply(r)

Next == \/ EditConfig \/ EditDoc \/ EditDir
        \/ \E r \in Reloaders :
              \/ \E c, p \in BOOLEAN : BeginReload(r, c, p)
              \/ Step(r)

Spec == Init /\ [][Next]_vars

-----------------------------------------------------------------------------
(* TYPE.  Every table, local and program counter has the shape the code    *)
(* gives it; in particular the running configuration and the tool tables   *)
(* never hold the content of a file that does not load.                    *)
TypeOK ==
  /\ diskCfg \in CfgFiles
  /\ diskDocs \in [Services -> DocFiles]
  /\ diskDirs \in [Dirs -> DirFiles]
  /\ edits \in 0..MaxEdits
  /\ cfg \in Configs
  /\ tools \in [Names -> Services \cup {None}]
  /\ plugins \in [Names -> Dirs \cup {None}]
  /\ pc \in [Reloaders -> Labels]
  /\ req \in [Reloaders -> SUBSET Flags]
  /\ staged \in [Reloaders -> Configs]
  /\ apis \in [Reloaders -> Configs]
  /\ reserved \in [Reloaders -> SUBSET Names]
  /\ scan \in [Reloaders -> [Dirs -> Names \cup {Absent, Broken, Unreadable}]]
  /\ newTools \in [Reloaders -> [Names -> Services \cup {None}]]
  /\ newPlugins \in [Reloaders -> [Names -> Dirs \cup {None}]]
  /\ wrote \in [Reloaders -> SUBSET {"config", "tools", "plugins"}]
  /\ unedited \in [Reloaders -> BOOLEAN]
  /\ alone \in [Reloaders -> BOOLEAN]
  /\ overlapped \in BOOLEAN

(* "Tool names are globally unique" (docs/apis.md:21): no name is both a   *)
(* disk plugin and an OpenAPI tool.  Registry.Load and Manager.Load each   *)
(* check the other table before they commit, but hold no lock over both.   *)
NamesUnique == \A n \in Names : tools[n] = None \/ plugins[n] = None

(* What the two checks do guarantee: names stay unique as long as no       *)
(* request that rebuilds the OpenAPI tools has overlapped a request that   *)
(* rescans the plugins.                                                    *)
UniqueUnlessOverlap == ~overlapped => NamesUnique

(* A request that answers 500 has not replaced the plugins: the table is   *)
(* complete and checked before plugin.Manager.Load installs it.  (It may   *)
(* have replaced the configuration and the OpenAPI tools by then, see      *)
(* FailedReloadKeepsSet.)                                                  *)
PluginsSurviveFailure ==
  \A r \in Reloaders : pc[r] = "failed" => "plugins" \notin wrote[r]

(* The tables hold what the files say, directory by directory and document *)
(* by document.                                                            *)
PluginsReflectDisk ==
  /\ \A i \in Dirs : diskDirs[i] \in Names => plugins[diskDirs[i]] = i
  /\ \A n \in Names : plugins[n] # None => diskDirs[plugins[n]] = n

ToolsReflectDisk ==
  /\ cfg = diskCfg
  /\ \A s \in cfg : \A n \in diskDocs[s] : tools[n] = s
  /\ \A n \in Names : tools[n] # None => tools[n] \in cfg /\ n \in diskDocs[tools[n]]

(* A 200 means that the tables asked for are those of the files, provided  *)
(* the request ran alone, nobody edited a file meanwhile and every         *)
(* directory could be listed.                                              *)
LoneReloadReflectsDisk ==
  \A r \in Reloaders :
    (pc[r] = "ok" /\ alone[r] /\ unedited[r])
       => /\ "config" \in req[r] => ToolsReflectDisk
          /\ ("plugins" \in req[r] /\ \A i \in Dirs : diskDirs[i] # Unreadable)
                => PluginsReflectDisk

(* Seen by a client the two tables are one: a call looks the name up among *)
(* the plugins first.  With one request at a time this is the table of     *)
(* ToolTable.                                                              *)
BindingOf(n) == IF plugins[n] # None THEN <<"plugin", plugins[n]>>
                ELSE IF tools[n] # None THEN <<"api", tools[n]>>
                ELSE <<"none", None>>

bindings == [n \in Names |-> BindingOf(n)]

Table == INSTANCE ToolTable WITH Plugins <- Dirs, binding <- bindings

(* The reload handler implements ToolTable, however many requests run, up  *)
(* to the moment when requests that write different tables overlap: every  *)
(* step replaces the bindings of one kind and takes no name over from the  *)
(* other.                                                                  *)
ImplementsToolTable == Table!Init /\ [][~overlapped' => Table!Next]_bindings

-----------------------------------------------------------------------------
(* Statements of the documentation that the handler does not keep.         *)

(* "A failed reload keeps the previous usable set" (docs/plugin.md:234,    *)
(* docs/apis.md:21): a request that answers 500 has replaced no tools, and *)
(* those that are kept belong to configured services, or their calls could *)
(* only fail.                                                              *)
FailedReloadKeepsSet ==
  \A r \in Reloaders :
    pc[r] = "failed" => /\ wrote[r] \subseteq {"config"}
                        /\ \A n \in Bound(tools) : tools[n] \in cfg
=============================================================================
