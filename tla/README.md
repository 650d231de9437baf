# ops-mcp: TLA+ models, checks and proofs

ops-mcp is an MCP server written in Go. It offers two kinds of tools under one
namespace of names: *disk plugins* (a `plugin.yml` and a JavaScript `main.js`
run in goja) and *OpenAPI tools* (operations discovered in the OpenAPI
documents of configured API services). Plugins reach the outside world through
connectors (`ctx.ssh`, `ctx.http`, `ctx.redis`, `ctx.snmp`, ...). The files can
be re-read at run time with `POST /api/reload`.

This directory holds TLA+ models of the program's state and control: the reload,
the configuration, tool lookup, plugin runs and every connector, with TLC
configurations for small instances and TLAPS proofs for all instances. `PROJECT.json` maps every definition to the
lines it models and lists runs, mutants, findings, hazards and theorems.

## 1. Inventory

| Component | State it keeps | Operations | Talks to |
|---|---|---|---|
| Reload handler (`internal/api/server.go`) | none of its own | `reload`: configuration, then OpenAPI tools, then plugins | configuration manager, registry, plugin manager |
| Plugin manager and loader (`internal/plugin`) | `plugins`: name -> metadata, under an RWMutex | `Load` (scan, check, install), `Get`, `List`, `Names` | disk; the registry's names through a callback |
| OpenAPI registry (`internal/openapi/registry.go`) | `tools`, `byAPI`, under an RWMutex | `Load`, `Get`, `List`, `Names`, `Call` | configuration, documents; the plugins' names through a callback; HTTP connector |
| OpenAPI documents (`internal/openapi/*`) | none (pure) | extraction, discovery rules, tool metadata, the request of a call | registry |
| Configuration manager (`internal/config`) | one map per resource kind, under one RWMutex | seven loaders, `ReloadConfig`, lookups, paged summaries | disk, environment |
| MCP server (`internal/mcp`) | none | `initialize`, `tools/list`, `tools/call`, `ping` | plugin manager, registry, executor |
| Executor and JS runtime (`internal/executor`, `internal/runtime`) | per call: VM, goroutine, channel, timer, context | `Execute`, bridge functions | connectors |
| SNMP connector | a semaphore channel of capacity 32 shared by all calls | `Get`, `Walk`, `Bulk` | configuration, gosnmp |
| SSH and command connectors | per call: a process or an SSH session, a goroutine and its channel | `Exec` | processes, network |
| TCP and UDP connectors | per call: a connection and its deadline | `Exchange` | network |
| HTTP connector | per call | `Do` by URL or by service | configuration, network |
| Docker connector | per call | seven operations, each one `ssh.exec` | SSH connector |
| Redis connector | per call: a client | some twenty read commands, `SCAN`/`HSCAN` loops | configuration, Redis |
| Kafka connector | per call: an admin client | ten read-only actions | configuration, Kafka |
| SQL connectors | per call: a connection | `Query` (one `SELECT`), `Version` | configuration, database |
| REST listings, authentication | none | read-only handlers, token check | configuration, managers |

How they interact. The three tables (configuration, tools, plugins) each have a
lock; no lock spans two of them. A reload request is served by a goroutine that
reads and writes the tables one after the other; any number of such requests
and of tool calls run at the same time. A plugin call is served by two
goroutines, the caller and a worker that runs the script, joined by a channel
of capacity one; the worker outlives the call when the time is up. SNMP
operations of all workers share one semaphore.

What is hard, and what makes each part correct:

* **Reload.** Interleaved requests, edits of the files between two steps, a
  failure after part of the work was done. Correct: names are unique over both
  tables; a failed request keeps the tools as they were; a successful one
  shows what is on disk; a client sees one table whose kinds are replaced one at
  a time. (The code keeps only part of this: see section 3.)
* **Tool lookup.** A call reads up to three tables five times; a list reads two.
  Correct: the reads of a call amount to one read at some instant; a list
  leaves out no tool that was there all the while.
* **Plugin run.** Timer, context, result and interruption race. Correct: every
  call is answered in time, a worker whose caller has gone neither blocks nor
  runs on uninterrupted.
* **SNMP.** Slots on every path, cancellation while waiting, limits at their
  boundary. Correct: slots are neither lost nor invented, every operation ends,
  `truncated` is exact.
* **Processes.** A process, its children, the pipe they write to, the watcher
  that kills and the goroutine that waits. Deadlines that cover less than they
  should (SSH handshake), clean-up of process groups. Correct: output is read
  when nobody writes it any more, nothing that was started is left behind, a
  call ends with its context.
* **Configuration.** Seven files are read one after the other without a lock,
  while requests overlap and files change; defaults, checks for duplicates,
  references between devices and credentials, paging with `int`s. Correct: what
  is in force is one sweep over the files, no entry is lost, every device can be
  reached with the credentials of the same moment, pages cover the devices.
* **Resource connectors.** A client that must be closed on every path; cursor
  loops that stop at a limit while other clients write; two reads of a cluster
  that changes in between; rows of a connection that may break; bytes cut into
  arbitrary segments under a deadline. Correct: every client is closed, an answer
  that claims to be whole is whole, `truncated` and counts mean what they say,
  every call ends.
* **OpenAPI tools.** Documents are walked in the random order of Go's maps;
  parameters are declared on two levels and in five places. Correct: the tools
  of a document do not depend on the order, what is sent is what was declared
  and given, and required arguments are there.

## 2. Modules

| Module | Models | Role |
|---|---|---|
| `ToolTable` | what a client may rely on: one binding per name, replaced kind by kind | abstract specification |
| `Reload` | `POST /api/reload`, the three tables, the files and their edits | core |
| `MCReload` | small instances of `Reload` | TLC |
| `ReloadProofs` | theorems about `Reload` | TLAPS |
| `McpTools` (EXTENDS `Reload`) | `tools/call` and `tools/list` while reloads run | composition |
| `MCMcpTools` | a small instance of `McpTools` | TLC |
| `PluginRun` | `Executor.Execute` and `Runtime.Execute` | component |
| `MCPluginRun`, `PluginRunProofs` | instances and theorems | TLC, TLAPS |
| `SnmpConnector` | `Get`, `Walk`, `Bulk`, the semaphore | component |
| `MCSnmpConnector`, `SnmpProofs` | instances and theorems | TLC, TLAPS |
| `ProcessExec` | `command.Exec` and `ssh.Exec` | component |
| `MCProcessExec`, `ProcessExecProofs` | instances and theorems | TLC, TLAPS |
| `McpProofs` (EXTENDS `McpTools`, `ReloadProofs`) | theorems about `McpTools` | TLAPS |
| `ConfigFiles` | what each loader makes of its file | operators |
| `ConfigManager` (EXTENDS `ConfigFiles`) | overlapping loads of the seven files, the reads of the tables | component |
| `MCConfigManager`, `ConfigProofs` | an instance and theorems | TLC, TLAPS |
| `ConnectorCall` | the skeleton of a connector call: lookup, client, exchange, close | shared part |
| `RedisConnector`, `KafkaConnector`, `SqlConnector`, `NetExchange`, `HttpDocker` (each EXTENDS `ConnectorCall`) | the operations of `ctx.redis`, `ctx.kafka`, `ctx.mysql`/`ctx.postgres`, `ctx.tcp`/`ctx.udp`, `ctx.http`/`ctx.docker` | components |
| `OpenApiTool` | merging of parameters, tool metadata, arguments to request | operators |
| `OpenApiLoad`, `OpenApiCall` | the load of one document, the call of one tool | components |
| `Connectors` | all of these, one call after the other | composition |
| `MCConnectors`, `ConnectorProofs` | an instance and theorems | TLC, TLAPS |
| `FoldLemmas` | least and largest numbers, induction, folds and sums | lemmas for `ConfigProofs` and `ConnectorProofs` |

### Reload

`cfg`, `tools` and `plugins` are the three tables; `diskCfg`, `diskDocs` and
`diskDirs` the files. `pc[r]` says where the goroutine `r` is between two
accesses to a table or to the disk, so that everything one lock protects is one
action and nothing more is. The locals that live across such accesses are
variables: `staged` (the maps `reloadResources` has read but not installed),
`apis` and `reserved` (the snapshots `Registry.Load` takes), `newTools`, `scan`
and `newPlugins`. The early returns of the handler are the branches to
`"failed"`.

| Action | Code |
|---|---|
| `BeginReload` | the JSON body; an empty one asks for plugins |
| `ReadConfig`, `CommitConfig` | `reloadResources`: all files without the lock, then all maps under it |
| `ListAPIs`, `ReserveForTools`, `BuildTools`, `CommitTools` | `Registry.Load` |
| `ScanPlugins`, `ReserveForPlugins`, `CommitPlugins` | `Manager.Load` |
| `Reply` | 200 or 500 |
| `EditConfig`, `EditDoc`, `EditDir` | the operator (external) |

`Init` is a server that `main.run` has started: everything it loaded did load.

Data is abstracted to what decides a load: the configuration to its set of API
services, a document to the set of tool names it yields or `Bad`, a plugin
directory to its name or to one of `Absent`, `Broken` (skipped with a warning),
`Unreadable` (ends the walk). The files one step reads are read at one instant.

Histories: `wrote`, `unedited` and `alone` belong to a request in flight;
`overlapped` says that two requests writing *different* tables once ran at the
same time.

### McpTools

A client goroutine serves one request, a call or a list. `FindPlugin`,
`FindTool`, `CallTool`, `ReadService` and `Send` are the five reads of a call;
`ListPlugins` and `ListTools` the two of a list. The plugin's run itself is
`PluginRun`, the HTTP request `OpenApiCall`. `seen` and `steady` record what
the tables held since the request began.

### PluginRun

`main` and `worker` are the two goroutines of a call, `ch` the channel,
`expired` the context, `timer` the timer. The caller's select takes any branch
that is ready. The worker's script may compute, loop, throw, call connectors
and catch their errors. `interrupted` stops a script at its next instruction
but not native code. `toplevel` and `connectors` describe the plugin: whether
its top-level code ends, and whether its connectors return once the context has
ended. They never change.

### SnmpConnector

`sem` counts the tokens in the channel; `pc` tells where an operation is, and
`Holding` which operations have taken a token. `Get` acquires first and looks
the device up afterwards; `Walk` and `Bulk` (which differ in the protocol
message only) look it up with the limit, then acquire, then read the credentials.
`ReloadDevices` may change the configuration between any two of these. gosnmp
is external: it passes variables to `walkFn` one at a time (`Offer`) and ends
well or badly (`EndExchange`). `resolveSettings` reads the defaults by a second
lookup; since `walkMax` may take any value at any reload, one read stands for
both.

### ProcessExec

`kind` says whether a call is `command.exec` or `ssh.exec`, `hinders` whether
the other side may keep it waiting: the children of a local process keep its
output open, or an SSH peer accepts the connection and stays silent. `pc` is
the goroutine of the call, `leader` the process and `status` its exit, `child`
a process it left in its group.

| Action | Code |
|---|---|
| `Refuse` | parameters, `GetCommand`, `GetHost` |
| `Start`, `StartFails` | `exec.CommandContext`, `Cmd.Start` |
| `Watch`, `Reap` | os/exec: the watcher of the context, `Wait` (external) |
| `RunReturns` | `Cmd.Run` returns; what its error becomes |
| `KillProcessGroup` | `killProcessGroup`, after `Run` has returned |
| `Dial`, `Handshake` | `dialSSH`, `NewSession` |
| `RunnerEnds` | the goroutine of `session.Run` sends its only result |
| `SelectDone`, `SelectContext` | the select of `ssh.Exec` and its deferred calls |
| `LeaderForks`, `LeaderExits`, `ChildEnds` | the processes (external) |

`Getpgid` no longer finds a process that has been reaped, so `KillProcessGroup`
kills nothing then. The reuse of process ids, the remote signal that `ssh.Exec`
sends before it gives up (a server may ignore it) and the truncation of the
output are left out.

### ConfigFiles and ConfigManager

`LoadFile(f, content)` is the loader of file `f`: a table from names to entries
with their defaults, or an error; it folds over the entries the way the loop of
the code does. A file is missing, unreadable or present; an entry keeps only the
fields that are checked or get a default. `ReadFile` reads the next of the seven
files, in the order of `reloadResources`, without the lock; `Install` replaces
all tables under it; an error ends the request. `installed[f]` numbers the edit
that a table was read after, a history. `ResolveSNMPAuth` and
`ListSNMPDeviceSummaries` are the reads with a computation of their own;
`InOrder` is the sort by name, `Wrap` is what happens to `offset + limit` beyond `MaxInt`. `Reload` has this
load as one step, because there only the set of services matters.

### ConnectorCall and the connectors

A script makes one call at a time, so one call is the state: `pc` is where it
is, `op` and `want` what it asks for, `entry` what the resource's name stands
for at this moment (`Reload` may replace it between two lookups), `client`
whether a client is open. `remote` is the other side, `got` what was collected;
their fields depend on the operation.

| Step | Code |
|---|---|
| `Begin...`, `Refuse` | the parameters, decoded and validated by the bridge and the connector |
| `LookupLimit`, `SqlLookup`, `...Dial`, `TargetURL` | lookups in the configuration, building the client |
| `Ping`, `OpenPing` | the client is tried and closed if it does not reach its server |
| at `"exchange"` | one action per request that is sent, or per turn of a loop |
| `RequestFails` | any request may fail: the server refuses, the connection breaks, the context ends |
| `Close`, `Finish` | the deferred `Close`; the answer is delivered |
| `Modify`, `LogChanges`, `GroupChanges`, `Deliver`, `Reload` | other clients, the cluster, the peer, the operator (external) |

* **Redis.** `ScanLoop` is one turn of the loop of `SCAN` and `HSCAN`: Redis
  returns the elements of one or more buckets after the cursor and may repeat
  some. The code appends what a batch holds, repetitions included, and stops at
  the limit. `remote.stable` are the elements that were there all the while, a
  history.
* **Kafka.** A partition is a log between two offsets that grows, is trimmed, or
  goes away when its topic is recreated, between `ReadStarts` and `ReadEnds`; groups
  come and go between `ListGroups` and `DescribeGroups`.
* **SQL.** `NextRow` is one turn of the row loop. `rows.Next` says no more alike
  after the last row and where the connection broke; `RowsErr` is the step after
  the loop that asks which it was.
* **TCP and UDP.** Time is counted in ticks from the dialling on; `Deliver` lets
  any part of a response arrive, and the peer may end the stream, reset it or
  stay silent. `ResolveUDPAddr` comes before the dialling and no clock bounds it.
* **HTTP and Docker.** The body of a response is read up to its limit;
  `ssh.exec` (module `ProcessExec`) gives lines that are parsed one by one, or an
  error that is passed on, its `PLUGIN_TIMEOUT` included.
* **OpenAPI.** `ReadPath` extracts the operations of one path, in any order of
  the paths; `RegistryLoad` projects bodies, applies the discovery rules and
  rejects duplicates. `PrepareRequest` validates arguments and distributes them
  over path, query, headers and body. An argument may be absent, null, a value, or
  (in a path) a value with `?`, `#` or `/` in it: then `ParsedPaths` lets
  `url.Parse` read any other path and a query out of the filled template.

## 3. Runs

All passing runs are exhaustive over their instance, with deadlock checked.

| Run | Instance | Shows |
|---|---|---|
| `Tools` | 2 reload goroutines (symmetric), 1 client, 1 name, 1 service, 1 directory, 2 edits | `McpTypeOK`, `LookupLinearizable`, `ListComplete`, and what holds of the tables when requests interleave: `UniqueUnlessOverlap`, `PluginsSurviveFailure`, `LoneReloadReflectsDisk`, `ImplementsToolTable` (refinement) |
| `PluginRun` | 2 calls, every plugin behaviour, fairness | `TypeOK`, `SendNeverBlocks`, `NoStrayScript`, `LoadedCallAnswered`, `WorkerEnds` |
| `Snmp` | 2 operations, 1 slot, limits 1..2, up to 3 variables, fairness | `TypeOK`, `SlotsMatchHolders`, `TruncationExact`, `EveryOpEnds` |
| `Exec` | 2 calls, local or remote, every behaviour of processes and peers, fairness | `TypeOK`, `OutputSettled`, `LeaderReaped`, `ExecEnds`, `RunnerEventuallyEnds` |
| `Connectors` | any call of any connector, 3 elements in 3 buckets, 2 partitions, 2 groups, limits 1..2, up to 3 rows, bytes or items, 1 reload; 4 documents, 5 sets of rules, 4 operations; fairness | `TypeOK`, `ClientReleased`, `ScanComplete`, `SampleExact`, `OffsetsSound`, `GroupsAccounted`, `RowsAllOrNothing`, `ResponseWhole`, `TwoTimeouts`, `RequestFaithful`, `ToolsExact`, `CallEnds` |
| `Config` | 2 requests, 7 files, 24 contents for edits, 2 edits; at most 3 edits and requests in flight together | `TypeOK`, `OneSweep`, `LoadExact`, `CredentialsResolve`, `PagesCover` |

Why the bounds are enough. In `Tools`, a name can move from one table to the other and back only if both
files change, hence two edits; one name is enough because lookups of different
names do not interact. Duplicates within one table, directories that cannot be
listed and more than two requests are left to the theorems, which hold for all
sets of names, services, directories and goroutines. Two plugin calls share nothing, nor do two processes: the
second one only shows that nothing leaks. One SNMP slot with two operations is contention at
its sharpest; limits and variables meet below, at and above each other. In
`Connectors` every collection is one larger than the largest limit, so results
fall below, at and above it; two elements share a bucket, so that a batch
crosses the limit and the cursor moves past what was dropped; two partitions
and two groups are one that changes and one that does not; one reload falls
between any two lookups, and no call has more than two; calls leave nothing
behind, so one after the other covers any sequence. The documents have what the
order of paths could confuse: an id used twice, once where the operation cannot
be sent, bodies of two JSON types, references to references and to nothing; the
operations declare one name in two places. In `Config` two overlapping requests
with one edit, and one request with two, are the least that could mix two states
of the files. A page of two devices out of three, and `MaxInt` of 7, reach both
ends of every sum. The bounds themselves are constants: `MaxEdits`, `MaxEvents`,
`MaxReloads`, `NumDirs`, `MaxLimit`, `MaxVars`, `MaxLen`, `MaxOffset`, `MaxLag`,
`MaxGroups`, `MaxRows`, `MaxBytes`, `MaxTimeout`, `MaxLines` and the sets of
contents in the MC modules.

Fairness. `PluginRun!FairSpec`: goroutines that can run do,
timer and deadline fire, an interrupted script stops; nothing is assumed of a
script that has not been interrupted, and connectors return after the context
has ended only where `connectors` says so. `SnmpConnector!FairSpec`: an
operation that can go on does, gosnmp's timeout and retry count end an exchange,
the plugin's deadline ends its context; nobody is promised a free slot.
`ProcessExec!FairSpec`: the code and os/exec go on, the deadline passes, a
connection that was closed ends `session.Run`, and a peer answers the handshake
unless it hinders. Nothing is assumed of processes: they may run for ever.
`Connectors!FairSpec`: the goroutine of the call runs, a server that was reached
answers or fails, the resolver of names and docker over SSH do too, and time
passes. (`net.ResolveUDPAddr` has no time-out of its own, and `ExecContext` shows
that `ssh.exec` may not return: for UDP and Docker, `CallEnds` is no stronger
than this assumption.) Nothing is assumed of TCP and UDP peers nor of
other clients, and no request has to fail: `CallEnds` rests on the loops alone,
on cursors that come back to 0 and on deadlines. `Reload`, `McpTools` and
`ConfigManager` need none: no property of theirs is a liveness property.

Where the code departs from its documentation (each a run that ends in a
violation):

| Run | Statement | What happens |
|---|---|---|
| `ReloadNames` | `docs/apis.md:21`: tool names are globally unique, a clash fails the reload | A config request and a plugin request overlap. Each reads the other table's names before the other has installed, and both answer 200 with one name in both tables. |
| `ReloadUsable` | `docs/plugin.md:234`, `docs/apis.md:21`: on failure the previous usable set is kept | The new services are installed before the documents are read; when that fails, the tools that were kept belong to services that are gone. And a request for both kinds answers 500 after it has replaced the OpenAPI tools, when its plugins do not load. |
| `PluginRunHang` | `docs/runtime.md:539`: the clock starts and the script is interrupted when the time is up | Top-level code runs before the timer exists and outside the select. |
| `ExecContext` | `docs/connector.md:38`, `:221`: cancellation and timeout of the context are respected | `Cmd.Run` kills the process only and waits, without `WaitDelay`, until its children close the output; the SSH handshake has no deadline. The call never ends. |
| `ExecChildren` | `command.go:81`: a new process group, so that cancel can kill children | The group is looked up after the process was reaped, when it is no longer found; the children survive. |
| `TcpReset` | `docs/connector.md:303`, `:327`: a response is read to its end, the deadline or the limit; a read that fails is `CONNECTOR_ERROR` | The peer resets the connection in the middle of its response; what was read before is answered as the result. |

Further departures have no run of their own; they are listed as hazards or in
the comments of the properties that leave them out.

* A directory that cannot be listed ends the walk of `LoadAll`: good plugins after
  it disappear with a 200, although `docs/plugin.md:233` says that a damaged
  plugin does not affect the others.
* When the deadline passes during a connector call the caller may get the
  connector's error instead of the `PLUGIN_TIMEOUT` of `docs/runtime.md:541`. An
  `ssh.exec` in its turn answers `PLUGIN_TIMEOUT` (`ssh.go:98`) and a docker call
  passes it on (`docker.go:274`), as the tables of `docs/connector.md` do not say.
* `net.ResolveUDPAddr` (`udp.go:57`) has neither the time-out nor the context that
  `docs/connector.md:375` promises.
* `docs/apis.md:295` gives tools to bodies of `application/json`, and of `*/*` with
  an object schema. `pickJSONMedia` and `projectRequestBody` also take any other
  type with `json` in its name, and `*/*` with any schema. `Disputed` names these
  bodies, and `ToolsExact` does not say whether they become tools.
* `fillPath` (`schema.go:142`) splices arguments into the path unescaped and
  `http.Do` parses the result: a `?`, `#` or `/` in a value changes the query, the
  fragment or the segments of the request.

The qualifications of the passing properties mark further limits of the
code. `LoneReloadReflectsDisk` speaks of a request that ran alone: of two
overlapping plugin reloads the older scan may be installed last. It accepts an
empty plugin table: `Load` refuses one only if some directory reported an error.
`PluginsSurviveFailure` is what is left of the documented claim that `ReloadUsable`
refutes: plugins are replaced last, so no 500 follows. `ImplementsToolTable`
promises steps of `ToolTable` only until requests that write different tables have
overlapped, since `ReloadNames` shows what may happen then; and it replaces kind
by kind, while the documentation speaks of one atomic replacement. `ListComplete` says nothing of duplicates: a name that moves
from the plugins to the tools between the two reads of a list is shown twice.
`SampleExact` speaks of starts that are not negative: with a negative one,
`start + limit` crosses zero and `LRANGE` returns the wrong end. `ScanComplete`
lets a truncated scan lose what its last batch held beyond the limit: its cursor
is already past it. `OffsetsSound` is not about topics recreated between the two
reads. `ResponseWhole` is about connections that are not broken and time that
is not up; otherwise bytes read before are the answer (`TcpReset`).
`RequestFaithful`: a name declared for the path and for the query or a header is
sent in both; of query, headers and body it is sent in one, whichever declaration
stands; and of a path with a special value in it nothing is said. `ToolsExact`
says which operations become tools, not what their
schemas say; where a body has two JSON media types and the reference of one
does not resolve, `pickJSONMedia` takes either, and whether the operation becomes
a tool changes from load to load. `ConfigManager!TypeOK` says of a Redis port that
it is not 0: a negative one passes the loader. Of the SNMP time-out it says that it
is not empty: `applySNMPDefaults` keeps `0s`, negative or unreadable ones as they
are written, and `resolveSettings` (`snmp.go:251`) takes 5 seconds for them.
`LoadExact` is about all files but `snmp.yaml`, whose two lists become two tables.
`OneSweep` promises nothing for edits made in the opposite of the
order of reading. `PagesCover` needs `offset + limit` to fit an `int`; beyond
that the slice panics. `TwoTimeouts` is twice the time asked for, because the
deadline of the exchange starts after the dialling, and does not count what the
resolution of a UDP host's name took before.

## 4. Proofs

Every theorem is about the specification without fairness, for every value of
the constants that satisfies the assumptions stated in the modules. The bounds
are numbers; contents are sets of services and names; sentinels are different
from what they stand in for; sets of partitions and elements are finite. Three
assumptions give data its shape: an entry of a resource file has the fields and
types of its structure in `internal/model` (`ConfigManager!ContentsAssumption`,
`IsFile`), the operations of a path of a document are a sequence
(`DocumentsAssumption`), and the operations a tool can be made of have sequences
of parameters and properties of a body only where the body is expanded
(`OperationsAssumption`, which is what `BuildTool` hands on).

Every safety invariant and action property of the passing runs is a theorem.

* **`ReloadProofs`.** `TypeCorrect`, `PluginsSurviveFailureHolds`,
  `UniqueUnlessOverlapHolds`, `LoneReloadReflectsDiskHolds`,
  `ImplementsToolTableHolds`, `SerialImplementsToolTable`. `NamesUnique` is not inductive even without
  overlap: that a commit cannot introduce a duplicate depends on a check made
  two steps before, against the other table as it was then. The invariant is
  `TypeOK /\ PhaseInv /\ (~overlapped => ReservedInv)`. `PhaseInv` ties `pc[r]`
  to what request `r` asked for and has written, which gives `PluginsSurviveFailure`.
  `ReservedInv` says that as long as nothing has overlapped, a request's snapshot
  of the other table still covers it and what the request has built avoids it: a
  request that could write the other table would be in flight, and beginning it
  would have set `overlapped`. For `LoneReloadReflectsDisk`, `LoneInv` says what
  a request that is alone has read, staged or built at each of its phases, in
  terms of the files; two lemmas say that a table that passed the checks of a
  load is the one the files describe. For the refinement, while nothing has
  overlapped names are unique before and after a step, so a commit of plugins or
  of tools is a `Replace` of that kind and every other step a stutter; one
  goroutine never sets `overlapped`, which makes the refinement unconditional.
* **`McpProofs`.** `McpTypeCorrect`, `LookupLinearizableHolds`,
  `ListCompleteHolds`. The steps of clients leave the tables alone, so the
  invariant of `ReloadProofs` carries over. Then three facts do the work: a step
  replaces one of the two tables at most, a name is not in both, hence a name
  that leaves one table and enters the other is bound to nothing in between.
  `Lin` says what a call may have seen at each of its five reads: if what it has
  found or found missing is no longer so, it has seen its name unbound. `Kept`
  says the same of a list that has read one table.
* **`PluginRunProofs`.** `TypeCorrect`, `SendNeverBlocksHolds`, `NoStrayScriptHolds`. The
  invariant adds that the channel is empty until the worker has ended, that
  there is no worker before the select, and that an answered call's running
  worker has been interrupted and its context has ended.
* **`SnmpProofs`.** `TypeCorrect`, `SlotsMatchHoldersHolds`,
  `TruncationExactHolds`. The first two are one induction: that `sem` stays
  within the capacity when a slot is released needs the count to be exact. Each
  action either leaves `Holders` alone or adds or removes one operation, and the
  cardinality facts of the library do the rest. Truncation rests on a relation
  between `offered`, `count` and `limit` that every step of a walk keeps.
* **`ProcessExecProofs`.** `TypeCorrect`, `OutputSettledHolds`,
  `LeaderReapedHolds`. The last two speak of calls that were answered; the
  invariant carries them through the phases before. `LocalInv` says that there is
  no process before `Start`, that it was reaped when the group is killed, and
  that a settled pipe stays settled, which holds because a process that was
  reaped starts no children. `RemoteInv` says that a result in the channel means
  its sender has ended.
* **`ConfigProofs`.** `OneSweepHolds`, `TypeOKHolds`, `LoadExactHolds`,
  `CredentialsResolveHolds`, `PagesCoverHolds`. What a request has staged is a
  sweep of the files so far (`StagedSweep`): the file it reads next is read after
  its last edit, so at least as late as any edit that an earlier file's table
  holds; an edit made later is younger than all of that. `Install` makes the
  staged sweep the installed one. The second invariant, `RInv`, says that every
  table, staged or running, is what its loader makes of the file after the edit
  that is noted for it. With it, what a loader promises of its result holds of
  the running table at every moment, and the rest is about loaders:
  `LoadEntriesLoads` says by induction over the entries what the loop of six of
  them has put into the table (`LoadedOf`), `loadCommandsLoads` does so for the
  one that leaves entries out, and one lemma per file draws the limits, ports,
  paths and authentications from it. For pages, `InOrderIs` shows that the sorted
  names exist and that the one at place `i` has `i - 1` below it; a window of
  places is then a window of ranks.
* **`ConnectorProofs`.** `ClientReleasedHolds`, `ScanCompleteHolds`,
  `SampleExactHolds`, `RowsAllOrNothingHolds`, `ResponseWholeHolds`,
  `TwoTimeoutsHolds`, `TypeOKHolds`, `GroupsAccountedHolds`, `OffsetsSoundHolds`,
  `RequestFaithfulHolds`, `ToolsExactHolds`. `Harmless` lists the ways a step may
  treat `pc` and `client`; every action is one of them. A good answer stays what
  it was (`AnswerStays`) and comes from a step of the exchange of its own connector
  (`AnswerComes`, `FamilyOf`), so each property needs an invariant of one
  connector's exchange only: for scans, that everything stable between the first
  cursor and the present one has been kept, and that what is kept is within the
  limit; for rows, that no more were read than there are, and that the loop has
  come to its end only with all of them; for TCP, that no more
  was read than arrived, and that the clock has not passed the deadline; for
  groups, that those that were there all the while are among those listed, and
  that the first so many of a set of names are so many; for offsets, that a start
  that was read is not past the present start of the log unless its topic was
  recreated, and that a total of natural numbers is at least each of them. The
  request of a tool is a computation of one step: the merge of two lists of
  parameters is a fold, and the lemmas about it say which declaration of a name
  stands and in which places it is sent. The tools of a document
  are collected path by path in an order that is not known: the invariant says
  what has been collected of the paths read, and a fold over a path's operations
  what one path gives.
* **`FoldLemmas`.** The folds of the community modules are functions chosen over
  the subsets of a finite set; `IterationExists` shows that such a function exists,
  by induction on cardinality, and `FoldLeftSteps` and `SumBounds` that a fold has
  one value for each prefix and a sum is at least each of its terms. Induction is
  used through sets (`UpTo`, `SubsetsUp`): the library's induction theorems take a
  predicate as a parameter, which none of the provers instantiates, but a set of
  numbers they do.

Only model-checked: liveness (`LoadedCallAnswered`, `WorkerEnds`,
`EveryOpEnds`, `ExecEnds`, `RunnerEventuallyEnds`, `CallEnds`), because
fairness and ENABLED are out of the prover's reach, and the findings, which
are counterexamples. No module that is proved about has a recursive operator.

## 5. Plan

Done: `ToolTable`, `Reload`, `McpTools`, `PluginRun`, `SnmpConnector`,
`ProcessExec`, `ConfigManager`, the resource connectors with OpenAPI documents
and calls (`Connectors`), and the theorems of section 4.

Left, in order of importance:

1. The composition of `ProcessExec` and `PluginRun`, a connector call of a worker
   being an `Exec`. `ExecEnds` is what justifies `connectors = "return"` there,
   and `ExecContext` shows when that is not so.
2. `McpProtocol`: JSON-RPC requests and notifications, one answer per
   request.
3. Several calls of scripts at once, which share nothing but the configuration
   and the SNMP semaphore.

## 6. Not modelled

* REST listings, authentication, sessions: read-only handlers and a comparison
  of tokens, no state.
* JSON-RPC framing, `initialize` and `ping`: each answer depends on one request
  alone.
* Conversion of arguments and results (bridges, SNMP values, SQL rows, fields of
  Kafka and Docker records), logging, the web page, certificates, TLS and SASL
  material: data that no property tells apart.
* Regular expressions and globs of discovery rules, and the contents of JSON
  schemas: a rule lists what it matches.
* The statement guard of the SQL connectors is a classification of strings; a
  statement is one `SELECT` or it is not.
* Counters per service (`byAPI`) and the counts in replies: displayed only.
* The Go memory model: the tables are accessed under their locks, the channel
  and the context are synchronised, so each modelled step is atomic. The VM's
  interrupt flag is the only thing the two goroutines of a call share otherwise.
