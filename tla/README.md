# A TLA+ model of the Deephaven extension for VS Code

The extension connects editors to Deephaven servers: *Core* servers (DHC), which
have one connection each, and *Enterprise* servers (DHE), on which every
connection is a worker created for it. All of it runs on the one thread of the
extension host, so what can go wrong lies between the awaits: a handler reads a
map, waits for a login, a session, a query or a quick pick, and goes on with what
it read, while commands, events from the servers, status checks and configuration
changes run in between. The models here are about that. In all of them **a step
is the code between two awaits that wait for something outside the process**; an
await on promises that are settled already does not end a step.

All paths below are relative to `src/` of the repository's root (`src/services/…`).

## Inventory

| Part | State | Operations | What makes it correct |
|---|---|---|---|
| `services/ServerManager.ts`, Core | `_serverMap` (kind, running, `connectionCount`), `_connectionMap`, `_pendingConnectionMap`, `_uriConnectionsMap`, `_coreClientCache` | `connectToServer`, `disconnectFromServer`, `setEditorConnection`, `disconnectEditor`, `loadServerConfig`, `syncManagedServers`, `updateStatus`, `updateConnectionCount` | one connection per server; the count tells the truth; nothing connected is out of reach; editors are unbound when a connection ends; every request is answered |
| `services/ServerManager.ts`, Enterprise | the same maps and `_workerURLToServerURLMap` | placeholders, worker creation, cancellation, `disconnectFromDHEServer` | placeholders go; a cancelled worker does not connect; terminated workers disconnect; the count never overstates |
| `services/DheService.ts`, `dh/dhe.ts` | `_clientPromise`, `_workerInfoMap`, `_querySerialSet`, the client's known queries | `getClient`, `createWorker`, `deleteWorker`, termination and status events | one login at a time; it can delete exactly the workers ServerManager has; a known query is used or deleted |
| `services/DhcService.ts` | `clientPromise`, `initSessionPromise`, `cn`, `session`, `isRunningCode`, diagnostics | `getClient`, `initSession`, `runCode`, `supportsConsoleType`, `dispose` | disposed once; code runs after its own update; an error is marked at its line |
| `controllers/ConnectionController.ts` | none of its own | `connectEditor`, `getOrCreateConnection`, connect and disconnect commands, quick pick, automatic connection | as above, for editors; a run goes where it was asked to |
| `controllers/UserLoginController.ts` | the client caches | logins to Core, Enterprise and workers, key pairs | a refused login leaves no client and no secret that does not work |
| `controllers/PipServerController.ts`, `services/PollingService.ts` | `_serverUrlTerminalMap`, `_pollers`, `_reservedPorts` | start, stop, poll, reconnect | every terminal can be stopped; no poll outlives its server; the configuration wins |
| `services/RemoteFileSourceService.ts`, `util/remoteFileSourceUtils.ts` | import prefixes, prefixes to evict, the execution-context queue, the Groovy dirty flag | register plugins, set execution contexts, answer servers | code sees the sources as they were when it was started, or newer; what servers are told to ask for is answered |
| `services/FilteredWorkspace.ts` | file tree, marks, top-level marks | mark, unmark, refresh | what is shown as marked is what servers get, whatever refreshes overlap |
| `controllers/PanelController.ts`, `services/PanelService.ts` | panels and variables by connection, pending loads | open, refresh, close, clear | a panel in view shows the current value, or a load is under way |
| `providers/CreateQueryViewProvider.ts` | two sets of promise resolvers | show, hide, resolve | a cancelled creation does not hide the next one |
| `providers/Server*TreeProvider.ts`, `util/treeViewUtils.ts` | none of their own | read nodes, read items | what a tree shows is read again after every change |
| `shared/webViewContentUtils`, `util/webViewUtils.ts` | pending requests by message | ask for the theme, pass changes on | the page ends up with the active theme |
| `controllers/McpController.ts`, `mcp/McpServer.ts`, `services/ConfigService.ts` | the MCP server, its port, Windsurf's file | toggle, start with retry, stop, update the file | one server at most, its port the published one |
| `mcp/tools/*`, `mcp/utils/*` | none of their own | run code, read tables, mark sources, list | they use the connection that was named; an agent is told of its own error; pages cover the table |
| `services/SecretService.ts` | JSON records in the secret store | get, store, delete | no stored secret is lost |
| `providers/SamlAuthProvider.ts` | one pending state per server | login, callback, timeout | the callback answers its own login |
| `services/cache/*` | promises by URL | get, invalidate | a failure can be retried |

`ExtensionController` wires these together; hover providers, loggers and formatters
keep no state of their own. `PROJECT.json` lists every part with what is modelled of it.

They interact by calls and callbacks. `ConnectionController` calls
`ServerManager`; `ServerManager` creates a `DhcService` per Core connection or
worker and listens to its `onDidDisconnect`, and a `DheService` per Enterprise
server and listens to its `onDidWorkerTerminate`; both services ask
`UserLoginController` for a client by a command and find it in a cache that they
share with `ServerManager`. The pip controller feeds `syncManagedServers`, and a
status change of a managed server makes `ConnectionController` connect. A marked
folder makes `FilteredWorkspace` fire `onDidUpdate`, on which `RemoteFileSourceService`
queues an update for every Python session; `DhcService.runCode` queues one of its own.
Trees and panels listen to `onDidUpdate` and `onDidConnect` of `ServerManager` and to
`PanelService`. Agents call tools, which execute the same commands as the user.

## Modules

**`CoreConnections`** is `ServerManager` for Core servers, the part of `DhcService` it
drives and `ConnectionController`'s binding of editors. `kind`, `isRunning` and
`count` are the entries of `_serverMap`; `pending`, `connMap`, `clients` and
`editorConn` are the maps of the same meaning. `phase` says where a connection
attempt stands, from `login` (awaiting `getClient`) through `session` (awaiting
`initDhcSession`) and `plugins` (awaiting the registration of the remote file
source plugins) to `open`, and `request` what the handler of an editor awaits.
`Start`, `LoginOk`, `LoginFail`, `LoginThrows`, `SessionCreated`, `Connected` and
`SessionFail` are the pieces of `connectToServer` between awaits; `Disconnect` is
`disconnectFromServer`, used by the disconnect command, a dropped session, a stopped
server, an unsupported console type and the two ways servers leave the configuration.

**`ConnectionSlots`** is what this promises, with two variables: each server has a
slot that is free, busy with one attempt, or holds one connection, and a
connection that has left its slot never returns. `CoreConnections` implements it
with `slot <- Slot, used <- Used`; the pending promise decides over the
connection map when both are set.

**`EnterpriseWorkers`** is the DHE branch: `ServerManager`, `DheService` and the
logins to one Enterprise server (different servers share no map entry). `placeholder`,
`worker` and `mapped` are what `_connectionMap` and `_workerURLToServerURLMap` hold;
`info` is `_workerInfoMap`; `client` and `promise` are the cached client and
`_clientPromise`, which are not the same thing: setting the cache clears the
promise, and a rejected promise is never cleared. `deleting`, `doomed` and
`closing` are the calls that await a deletion, those nobody awaits, and the loop
of `disconnectFromDHEServer`.

**`WorkerEntries`** is what the tree promises of each attempt: nothing is shown of it, then a placeholder,
once, which does not outlive the attempt, then its worker, once; what has been taken away does not come back,
but an attempt whose placeholder was cancelled may still become a worker (`CancelIsFinal` is
violated). `EnterpriseWorkers` implements it with `entry <- Entry, turn <- Turn`.

**`PipServers`** is `PipServerController` with `pollUntilTrue`, and the entries of
`ServerManager._serverMap` for the same ports (`kind`). `terminals` is what
`_serverUrlTerminalMap` holds, and the loop of `reconnectToExistingTerminals`
(`reconnect`, `visited`) walks through it while it changes; `window` and `older` are the
terminals that VS Code shows and their order, `stopping` those that were told to exit and have not. `pollers` is `_pollers` and
`poll` what each caller of `pollUntilServerStarts` awaits. `toAdd` and `added` are the
locals of the one `syncManagedServers` that prefers stored PSKs, and so awaits. `Restart`
replaces the extension host, with or without a call of `dispose`; the terminals stay.

### Sources

**`FilteredWorkspace`** is the tree of one workspace folder and one language. `tree` is the
files of the last scan that was applied, from which all node maps follow, `marked` the
nodes with `isMarked`, `topLevel` is `_topLevelMarkedUriMap`; `request` holds the
calls of `refresh` under way, which have scanned the disk at some time and replace the
maps in one step together with the marks of the command that called them. `unmarkFolder` calls
itself through the folders whose names conflict; it is a recursive function over how deep it
may, up to `Depth`, which is more than it can need: each call unmarks something, or takes a folder
out of the map that had lost its mark.
**`SourceResolution`** adds what is answered to a server in any such state.

**`RemoteFileSources`** is a run of code from `runCode` to the end of its text, with what
happens to the connections meanwhile. `queue` is `_pythonExecutionContextQueue`, shared by
all Python sessions; `commands` is what a server was sent and has not executed,
`context` the execution context it has, with the version of the workspace it was made from.
Of `FilteredWorkspace` it sees that `version` changed (`WorkspaceChanged`); `ListenersAreTold`
justifies that. **`MCSources`** checks the two, each in behaviours of its own.

### Views

**`Panels`** is the panels of one connection over disconnects: `panelOf` and `known` are the
maps of `PanelService`, `pending` and `timer` the panels to load and the debounced handler,
`refresh` the calls of `_onRefreshPanelsContent` between awaits. **`QueryView`** works at the
level of microtasks (`jobs`), because show and hide of `CreateQueryViewProvider` resolve
and reject promises whose handlers run in an order that matters. **`WebviewTheme`** is the
theme protocol between extension, web view and page. **`ServerViews`** is what the three
trees show and when VS Code reads them again: `due` after an update was fired, `reading` between
the nodes and their items, `stale` when what is shown has changed since; the changes are
those of `ServerManager`, each with the updates it fires. **`MCViews`** checks the four.

### Requests

**`Secrets`** is a record of the secret store as a queue of requests; `meant` is what the record
would be had the calls been made one by one. **`CoreLogins`** and **`EnterpriseLogins`** extend it with
the two handlers of `UserLoginController`, key pairs included; **`SamlLogins`** is
`SamlAuthProvider`. **`WorkerQueries`** is what `createWorker` and `dh/dhe.ts` do with queries and
their events. **`RunTargets`** is the choice of a connection by `getOrCreateConnection` and the
tools; **`RunDiagnostics`** which lines are sent, and which is marked when they fail;
**`ImportHints`** what an agent is told of a failure; **`TableTools`** the tools that read tables.
**`McpLifecycle`** is the MCP server under its setting, its port in the workspace storage, VS
Code's definitions and Windsurf's file. **`MCRequests`** checks them; the two login modules
share `SecretService`'s variables, the others share none.

**`MCCoreConnections`**, **`MCEnterpriseWorkers`** and **`MCPipServers`** extend their modules for TLC.
The proofs are in **`CoreConnectionsProofs`** and **`EnterpriseWorkersProofs`** (each with its refinement),
**`PipServersProofs`**, **`RunsProofs`** (of `RemoteFileSources`), **`ViewsProofs`** (of the four modules
of views), **`LoginsProofs`** (of the logins and `WorkerQueries`), **`McpProofs`** (of `McpLifecycle`, `TableTools`,
`RunTargets`, `RunDiagnostics` and `ImportHints`) and **`SourcesProofs`** (of `FilteredWorkspace` and
`SourceResolution`).

Definitions used nowhere that stand before another of the same stem
(`CountKept` before `CountAfter`) are plausible bugs: substituted for the real
definition, each makes TLC report a violation of the property `PROJECT.json` names,
which shows that the property depends on the code being right there.

## Runs

| Run | Shows | Bounds |
|---|---|---|
| `core` | `OnePerServer`, `CountTellsConnected`, `NothingUntracked`, `ClientsFollowConnections`, `EndedIsUnbound`, and that `CoreConnections` implements `ConnectionSlots` | 2 servers, 3 attempts, 2 editors, one of them markdown |
| `core_live` | `RequestsSettle` | 1 server, 2 attempts, 2 editors |
| `core_removed` | `OnePerServer` is violated when a server may leave the configuration during an attempt | 1 server, 2 attempts |
| `core_bound` | `BoundToHeldConnection` is violated: a late answer binds an editor to a closed connection | 1 server, 2 attempts, 2 editors |
| `dhe` | `CountNeverOverstates`, `OpenIsListed`, `PlaceholderIsPending`, `OwnersAgree`, `PlaceholdersGo`, `ClosingEnds`, and that `EnterpriseWorkers` implements `WorkerEntries` | 1 server, 2 workers |
| `dhe_termination` | `TerminationIsHandled` is violated after a cancelled first login | 1 server, 2 workers |
| `dhe_cancel` | `CancelIsFinal` is violated when the placeholder is cancelled during the login to the worker | 1 server, 2 workers |
| `pip` | `NoOrphans`, `ManagedHaveTerminals`, `ConfigurationWins`, `ConfiguredPortsAreFreed` | 2 ports, 2 terminals at a time, 1 configuration load under way |
| `pip_reconnect` | `ReconnectSparesServers` is violated: reconnecting stops a server that is starting | the same |
| `sources` | `SourcesAreMarked`, `ServersAreAnswered`, `OnlyCommandsTakeSources`, `ListenersAreTold`; `RunsHaveTheirContext`, `GroovyIsFresh`, `RunningIsNotStuck`, `RunsEnd` | 5 files in nested folders of equal names, one of them volatile, 3 folders (the workspace folder too) and 2 lists to mark or unmark, 2 refreshes; 2 connections at once, 2 runs, 1 prefix, 1 change |
| `views` | `VisibleIsCurrent`, `WaitingIsVisible`, `ThemeIsApplied`, `ViewsAreCurrent` | 2 variables, 2 panels, 2 refreshes; 3 creations; 2 themes, 3 requests; a Core server, an Enterprise server with a worker |
| `requests` | `SecretsAreKept`, `StoredSecretsWork`, `LoginsWereConfirmed`, `KnownQueriesAreHandled`, `RunsWhereAsked`, `OwnErrorsAreFlagged`, `OwnErrorIsAnswered`, `PagesCoverTable`, `DefinitionsFollow`, `DisabledIsRemoved` | 2 servers, 2 users, 2 key pairs; 3 browser logins; 3 query names; 3 connections, 2 documents, 2 runs; 3 lines; 2 Groovy documents; 4 rows; 2 ports, 2 MCP servers |

Three attempts let a server be connected, lost and connected again while another
is under way; two editors are enough for one to wait for the attempt of the other,
or to be bound to a connection the other loses; the second server shows that nothing
leaks between entries. An attempt identifies one `DhcService` and is used once, which
is the only bound on behaviours: when all are used no further attempt starts.
Nothing else is bounded; `count` is bounded by what is counted. Two workers are
enough for one to be created, cancelled or ended while the other's deletion is awaited.
In `pip` a closed terminal's identity is used again, so behaviours are not bounded;
two terminals can have two ports, or the same one when the first is stopping.
`MaxLoads` bounds the configuration loads that await server statuses at once.

Of the folders of `sources`, one holds a folder of its own name further down, one a folder and a file of the
same module name, three have the same name, one outside and one further down than the third, and the root has the name
of a folder, which is what conflicts, promotions and the calls of `unmarkFolder` to itself turn on; two refreshes let the older scan finish last. Python sessions are two, because the
queue is shared, and Groovy's one, because its calls are not queued. Three creations in `QueryView`
let one be cancelled by a second that is cancelled by a third. In `requests` the constraint
`CallsDoNotOverlap` prunes what follows when calls of the secret store have overlapped, of which nothing is
claimed; three lines hold a code block and a line outside it; of two ports one can be taken;
two servers are one that is stopped and one that takes its place; `Updates` lets an
update of Windsurf's file be asked for while another awaits its prompt.

`sources`, `views` and `requests` check modules that share no state side by side: a variable of
the MC module says which one is active, the others keep an initial state. That gives the
union of their behaviours, not their product.

**Deadlock** is checked in the runs of `CoreConnections`, `EnterpriseWorkers` and `PipServers`, where
configuration changes are always possible. The other three end when their
runs, creations or logins are used up, and do not check it.

**Fairness.** In `CoreConnections` an attempt that awaits its login, its session or its
plugins gets on (`WF` of `Attempt`), and the quick pick and the console-type request
of an editor end (`WF` of `Answer`): dialogs can be dismissed, and requests to a
server are answered or fail. Nothing is assumed of commands, drops, status or
configuration. In `EnterpriseWorkers` logins end, a *connected* client gets answers,
and the loop of `disconnectFromDHEServer` resumes. No fairness is assumed of a client
that has been disconnected: `getWorkerInfoFromQuery` has no timeout and waits for an
event such a client never gets, which is why `PlaceholdersGo` excepts `stranded`
attempts. In `PipServers` the loop goes on when its await is over, and a
configuration load's event comes: the status requests before it are answered or fail,
and the event waits in a first-in-first-out queue (hence `SF`: the loop may come first
again and again, but not for ever). In `RemoteFileSources` calls of a server are answered or
fail, and code that fetches one source after the other ends at some time (`SF` of
`TextExecuted`); a fetch that is `lost` is not answered, because the code does not. `RunsEnd`
is the only property of `sources` that uses it. Runs that expect a violation use the fair specification too.

## What the violations show

1. *Removed during an attempt* (`core_removed`). `loadServerConfig` disconnects what
   `_connectionMap` holds; an attempt that still awaits its login is not there yet. It
   becomes a connection of no server, and the same URL configured again gets a second.
   `RemoveWhilePending = FALSE` excludes this from the other runs and the theorems: it
   is the assumption under which the rest holds.
2. *Late binding* (`core_bound`). `setEditorConnection` does not ask after its await
   whether the connection is still held.
3. *Unheard termination* (`dhe_termination`). `isNewDheService` is decided before the
   login, so a cancelled login uses up the only subscription.
4. *Late cancellation* (`dhe_cancel`). The placeholder is looked for only when
   `createWorker` returns, and stays in the tree until the worker's login is over.
5. *Superseded poll* (`pip_reconnect`). Reconnecting awaits one server after another and
   comes to one the user has started meanwhile; cancelling its poller makes the poller's
   `catch` block stop the server.

`ManagedHaveTerminals` and `ConfigurationWins` except the ports in `toAdd`. The exception
is needed: `syncManagedServers` sets an entry after awaiting the stored PSK, when the
terminal may be closed or the port configured.

## Where properties make exceptions

The exceptions in the statements of properties are behaviours of the code.

*Sources.*
- Prefixes to evict belong to no connection: the next update takes and clears all of them, also
  when it is another connection's or fails (`RemoteFileSourceService.ts:323`). `RunsHaveTheirContext`
  therefore speaks of the connection id and the version, not of prefixes.
- A Python fetch whose document cannot be opened is never answered. The code that asked waits, and
  with it the queue of all Python sessions; `RunsEnd` excepts it (`lost`). Groovy's listener answers.
- The dirty flag is cleared for the first Groovy call after a change; another Groovy server, or a run
  after a failed call, keeps old classes. `GroovyIsFresh` excepts both.
- `SourcesAreMarked` excepts the commands for which the code is wrong (`Mistaken`): whatever was marked before, marks
  and map agree after every other refresh and command, one that follows a mistaken command too. `MCSources` has an
  example of each kind, as an assumption that TLC evaluates on the operators:
  - *Unmarked while promoted* (`FilteredWorkspace.ts:219`). With `a`, `a/b/a` and `a/b/c`, mark `a` and unmark `a/b/c`: what is
    left of `a/b` is to be promoted, `a/b/a` first. Its name is that of `a`, which is therefore unmarked with all it
    holds, `a/b/a` included; then `a/b/a` is made top-level all the same. Servers are given a folder that nothing
    shows as marked. `Mistaken` is the removal of a folder beside the way to which there is such a `Namesake`; it
    does not ask how much of `a` is still marked by then.
  - *The workspace folder* (`FilteredWorkspace.ts:132`). `markFolder` skips the root node, also where it would enter the
    folder into the map: all is shown as marked and no server is given any. The Explorer offers the command for
    it (`package.json:946`), and the tool takes any URI.
  - *The name is taken again* (`FilteredWorkspace.ts:129`). With `a/b/c`, `a/c` and `b/c`, mark `a` and let an agent add
    `a/b/c` and `b/c`: making room for the second unmarks the first, and with it `a`, whose child `a/c` is promoted under
    the same name; its entry is overwritten and `a/c` stays marked. `Mistaken` is a list with a folder inside
    another one and a later one of its name, whether or not there is a third.
- What one folder's command takes from other folders (`OnlyCommandsTakeSources`) is claimed of lists of one folder and
  not of mistaken commands; what the folders of the list themselves provide in the end is claimed of all. The property
  allows *a promotion that is lost* (`FilteredWorkspace.ts:219`): with `src/a`, `src/x/a` and `src/x/u`, mark `src` and
  remove `src/x/u`: `src/x/a` is promoted, then `src/a` under the same name, and the sources of `src/x/a` are lost. Marks and
  map agree; which folder keeps the name is nobody's choice. Real workspaces look like that. `MCSources` has it as
  a fourth example. Folders that commands are given are taken to be folders.
- A tool that is given an empty list refreshes without telling anybody (`ExtensionController.ts:1055`), so
  files that came or went are told with the next change; `ListenersAreTold` excepts it.
- The change of a workspace during the first registration of a session, before it subscribes, is
  missed (`RemoteFileSourceService.ts:233`) unless a run updates the context, which every run does.

*Views.*
- A refresh of several panels stops at the first exception, such as that of a panel that was closed
  (`PanelController.ts:290`); the rest is `givenUp`.
- An untracked panel that is closed after a reconnect deletes the entry of the new panel of its
  variable (`PanelController.ts:267`), which is then refreshed no more: `VisibleIsCurrent` speaks
  of panels that have an entry.
- Two creations that show the view in one turn both await the second's view. `WaitingIsVisible` holds.
- After a failed `initSession` the removed connection stays in the tree of connections until
  the next update (`ServerManager.ts:346`); `ViewsAreCurrent` excepts it (`untold`).

*Requests.*
- Calls of `SecretService` that overlap can lose an update; `storePsk` is not awaited
  (`UserLoginController.ts:252`, `ServerManager.ts:755`). A failed login with an old key forgets the
  user's key by name, also a newer one. Two key generations that overlap leave a public key behind.
- A redirect of another login, or of one given up, rejects a login that waits
  (`SamlAuthProvider.ts:102`); one that comes before the page is reported open is lost.
- Cancelling the creation of a worker looks up the unversioned name only, so a query the page
  started as a second version stays (`DheService.ts:334`). A query that is deleted elsewhere while it is
  waited for is never heard of (`dhe.ts:476`).
- Lines of errors in other files are looked up in the document that was run, which throws when it
  is shorter (`DhcService.ts:603`): the document's own error is then not marked.
  `OwnErrorsAreFlagged` excepts imported errors, and several selections, whose lines are
  all translated by the first. A Groovy error is marked at line 1.
- What an agent is told of a failed run is collected from all marks of the language
  (`runCodeFromUri.ts:141`). When its own error cannot be marked, old errors of other documents
  take its place; `OwnErrorIsAnswered` excepts that.
- The format of panel URLs is that of the first connection of a URL (`serverUtils.ts:159`), and the
  tool that runs a text takes that connection, also if it has another language.
- Updates of Windsurf's file that overlap, such as a prompt that is answered after MCP was disabled,
  can write an entry of a dead server; `DisabledIsRemoved` excepts `overlapping`.

*Caches.* A promise that rejects stays in `ByURLAsyncCache`, and `invalidate` has no caller. When the
JS API of a server could not be loaded once, every later login to its URL
(`UserLoginController.ts:233`, `DheService.ts:194`) fails with the old error until the window is reloaded.
In `CoreConnections` and `CoreLogins` a login may fail any number of times, which includes this. The client
promise of `DheService` behaves the same way and is part of `EnterpriseWorkers`.

## What is proved

`CoreConnectionsProofs` proves, for all servers, connections and editors, under
`~RemoveWhilePending` and the named assumption `CoreAssumption` (`None` is no
connection, markdown editors are editors), that `Spec` implies `TypeOK`, `OnePerServer`,
`CountTellsConnected`, `NothingUntracked`, `ClientsFollowConnections` and `EndedIsUnbound`.
None of these is inductive alone: that a second attempt cannot start depends on what
the pending entry, the connection map and the count say together about the attempt
under way. `IInv` says it: an attempt in flight is the one its server's
pending entry names, the connection map holds exactly the attempts past their login,
the count follows the phase of the held connection, an attempt that has begun has
its server's URL, a server that is not configured has neither connection nor attempt,
and editors wait for or are bound to attempts that have begun.
`InvCorrect` proves `IInv` invariant, with one lemma per action; the properties
follow from it, and `EndedIsUnbound` from it and the step. Types are in every inductive invariant
here, so that the proofs establish them for all instances and no run checks them.

It also proves `SlotsAreImplemented`: the initial state maps to an initial state of
`ConnectionSlots`, and each action to `Begin`, `Establish`, `End` or a stutter.

`EnterpriseWorkersProofs` proves `OwnersAgree`, `PlaceholderIsPending`, `OpenIsListed` and
`CountNeverOverstates` for any set of attempts. The first three are inductive with the types, with when
the URLs of an attempt can be mapped at all (`UnbegunIsUnmapped`) and which attempts can have a
worker (`WorkersHaveBegun`): this is `Shape`. The count is bounded by the attempts it may be for,
`Backed`; an attempt that waits for its worker's login is one only while the worker is mapped, because what
disconnects it meanwhile counts down although the attempt goes on.
It also proves `EntriesAreImplemented`: `BeginWorker` maps to `Place` or `Leave`, `CoreClient` to `List`
or `Leave`, and every other action only takes entries away (`EntriesLeave`), which is a `Leave` or a stutter. The
step needs `Shape`: a placeholder goes with its attempt because it only stands for one under way.

`PipServersProofs` proves `NoOrphans`, `ManagedHaveTerminals` and `ConfigurationWins` for any ports and
terminals. The map has the latest of the terminals of a port (`TerminalsAreMapped`), which is why one that is not
told to stop is in it; a poller is awaited by someone who removes it (`PollersAreAwaited`); and when the loop
awaits its check, no set of servers waits to be added (in `ServersFollow`). `LowestIsThere`, that a set of free ports has a
lowest one, is proved from a well-founded order.

`RunsProofs` proves `RunsHaveTheirContext`, `RunningIsNotStuck` and `GroovyIsFresh` for any connections, runs,
prefixes and number of workspace events. The heart of `SourcesInv` is `FitsAt`: what a Python server was sent and has
not executed is the code of at most one run, whose context is the one that is set, and behind it at most
the script of the first update of the queue, if that update is for this server. That the
queue and the commands stay in step needs to know that a run has one update and one call at a time
(`WaitingIsSingle`, `RegistrationIsSingle`, `TokensAreOfRuns`). For Groovy, the versions of what a server
has and is sent never go back (`VersionsRise`), each run has one command (`CommandsAreLive`), and
what a run needs has been reached when the commands before its text have executed (`GroovyCommandsReach`).

`ViewsProofs` proves the safety properties of the views, for any creations, themes, workers, panels
and variables. In `QueryView` the queue of microtasks has one of four forms: empty, creations whose view is given, one
creation that ends, or creations that start, where whatever hides the view is followed by something that shows it. In
`WebviewTheme` the last message under way has the active theme (`LastIsActive`), an answer repeats the theme
before it (`AnswersRepeat`), and the page has what the next answer repeats (`AppliedIsNext`). In
`ServerViews` each change of the manager either fires an update, leaves something under way that will, or changes
nothing that is shown (`IsTold`). In `Panels` a panel has loaded its variable's value, waits for its first
load, was given up, or is in the list of a refresh (`PanelsAreCovered`); one in front that waits has
its timer set (`FrontIsTimed`).

`LoginsProofs` proves `SecretsAreKept` of `CoreLogins` and of `EnterpriseLogins`, for any servers, users,
keys and numbers of calls in the queue of the secret store. It is not inductive: what the record
will be is decided by the requests that are still queued. `Settles` says how: as long as no calls
overlapped, at most one request of the queue writes, and the record after it (`Outcome`) is what the
calls meant; when none writes, the record is that already. A store or a deletion answered becomes a
request to write with the same outcome, and forgetting a user one to store. Each action of the two
modules answers a read, makes one call, or does neither, so that three lemmas (`ReadIsAnswered`,
`CallKeeps`, `StorageKeeps`) cover both. It proves `StoredSecretsWork` of the specification
of `MCRequests`, for the two login modules over the one storage: the record is meant to have a rejected
pre-shared key only while the login with it is under way (`PsksInv`), and the key pairs that the
record is meant to have are of requests that have published them and are not about to delete them
(`MeantKeysWork`), as are those that are uploaded and not stored yet (`NewKeysWork`). It also proves
`LoginsWereConfirmed`, which is inductive with the types of sessions and pending states.

For `WorkerQueries` it proves `KnownQueriesAreHandled` for any creations and queries, with one fact about
serials: a creation that waits has the serial of its query, one that has not been created has none.
`McpProofs` proves `PagesCoverTable` for tables and pages of any size, with `SeenSoFar`: while the
agent is told of more, it has seen all rows before its next page. It proves `DefinitionsFollow` and `DisabledIsRemoved` for
any ports and MCP servers: only the current server has a port, and only while MCP is enabled
(`OnlyCurrentListens`), a closed window leaves nothing under way (`NothingIsLeft`), VS Code was told of each server
whose port is stored (`ListedIsProvided`), and while MCP is disabled no update asks first or adds an entry (`FileIsCleared`).
It proves `RunsWhereAsked` for any connections and runs, from what a run holds at each stage (`AsAsked`): what it found,
chose or connected to has the URL it was asked for, and nobody else can change what it holds. `LeastIsThere` is
proved from a well-founded order again; the first connection of a URL rests on it. It proves `OwnErrorsAreFlagged` for documents of any
length: a single range lies within the document (`OneIsSelected`), and translating a line of the text sent by that
range undoes how the text was made of it (`OwnLineIsMarked`). And it proves `OwnErrorIsAnswered` for any documents, packages
and folders: what is answered is made of what is marked after the run (`AnswerIsOwn`), and among several missing
imports one's own still finds its folders (`OwnHint`).

`SourcesProofs` proves `SourcesAreMarked`, `OnlyCommandsTakeSources`, `ListenersAreTold` and `ServersAreAnswered` for
any files that come and go, any folders, lists and number of overlapping refreshes, with no assumption on names: what the
code gets wrong is excepted command by command (`Mistaken`, above). Both properties of the commands are about a step
and need no invariant but the types (`WorkspaceType`), because a refresh makes all marks anew (`ReapplyKeeps`).
But a command is a fold of `markFolder` or `unmarkFolder` over its list, and `unmarkFolder` a fold over ancestors, each
a fold over children, each a call of itself:
- *Folds and recursion.* The induction theorems of the library cannot be applied (see below), so `LeastNumber` gets
  induction from a well-founded order on finite sets, for properties that are sets. From it follow that recursive
  functions on numbers exist (`Iteration`), that `FoldLeft` follows its step (`FoldExists`), and `FoldReaches`:
  a fold whose i-th step leads from the set `P[i - 1]` into `P[i]` ends in the last set. The five folds are
  instances of it, and `unmarkFolder` is one of a sequence of functions (`UnmarkFolderIs`).
- *Half unmarked.* Between the steps of unmarking `u`, which is in the top-level folder `t`, marks and map
  disagree. The nodes of `t` outside `u` are the way from `t` to `u` and the folders and files beside it, which with the
  other top-level folders are the `Parts`; each part is marked as a whole or not at all (`Shape`). A marked part
  that is not top-level yet is `Pending`, a top-level one that is not marked `Unsound`: there is at most one, and a
  pending one has its name (`Names1`): a call may have given the name of the folder its caller has in hand to one
  further up, from which the caller takes it back (`ReplaceTop`). Of two
  parts of one name, the pending one is always further up (`Names2`). Up to the ancestor that was reached the way is
  unmarked and nothing is pending (`UpTo`). A folder that has lost its mark has lost its name to another, or will (`Held`).
- *The calls from within.* A promotion that needs the name of a top-level folder outside `t` unmarks a folder above
  which nothing is marked, and that clears what is below it and no more (`QuietOther`, `QuietStep`). One that needs the
  name of a part promoted before unmarks that part, whose ancestors are the rest of the way: the call does all
  that is left to do itself, up to `t` (`Returns`), and its caller finds nothing more to promote but the folder it had in
  hand. This is proved of every depth by induction (`DeepEnough`): what a call clears first leaves fewer
  nodes marked, or no unsound one (`Size`), and `Depth` is more than that. `t` itself is never called for: only a `Namesake` has its
  name (`TopStays`). At the end marks follow the map, and of the sources that are lost it is known why (`Ends`).
- *In any case.* Whatever was marked before, mistaken or not, what is unmarked with a folder does not come back
  (`FreeOf`): nothing is promoted that is not marked, at any depth (`FreeAll`). So folders that were removed provide
  nothing (`UnmarkAllFrees`).
- *Lists.* After some folders of a list to add, one may be inside another top-level folder; only folders of the
  list are (`Marking`), and such a folder is not ousted by a later one of its name. The next refresh leaves the
  outermost ones (`ReapplyKeeps`).

`ServersAreAnswered` needs no more than the types: a path a server is told is taken apart again into its folder and the
rest (`PathIs`).

Only model-checked: `RequestsSettle`, `PlaceholdersGo`, `ClosingEnds`, `ConfiguredPortsAreFreed` and
`RunsEnd`, because liveness under fairness is out of the prover's reach. The properties
that are violated are not theorems, of course. Every safety property of the runs is proved. Theorems
of the library that take an operator as a parameter, such as induction over natural numbers, cannot
be instantiated by the installed provers; where a proof needs one, a lemma about sets stands in for it.
The inductive invariants were checked by TLC on the instances of the runs before they were proved;
the unbounded quantifiers in them (over the queue's types, over `Nat`) were left out or bounded for that.

The assumptions on constants are named and stand in the modules that declare the constants: that what
stands for nothing differs from what stands for something, which sets are disjoint, finite or contained in
one another, and that bounds are numbers.

## Abstractions

URLs, editors and services are model values; the console types an editor asks for are
an answer yes or no. Toasts, logging, the status bar and tree events are left out.
`syncManagedServers` is modelled without `preferExistingPsk`, which is set in
one call at start-up. Secrets, the JS API caches and the text of logins are
not in the state; their effect on an attempt (client, no client, rejection)
is. A service disposed during `initDhcSession` is taken to fail when the
promise settles. The termination event of a worker may fire once or twice. Each pass
of the loop of `disconnectFromDHEServer` is a step, which allows a few more
interleavings than the code; a second such loop of the same server does not start before the first has ended. In `PipServers`, who answers a poll is left open, PSKs
are left out, and a check of the Python environment is a wait only while extensions
activate; the loop of `reconnectToExistingTerminals` takes the entries in any order, of which that of the map is one.

In `FilteredWorkspace` files and folders are sequences of segments, children have a fixed order, and
marks of one language are independent of the other's. In `RemoteFileSources` a session executes
what it is sent in order, Groovy's calls included; names of modules are abstracted to the version
and prefixes they were made from; no run is started on a disposed service, and a registration that a run
and `ServerManager` both start is two; sessions hear of a workspace event in any order. In `Panels` the page's login handshake, and in `QueryView`
authentication messages, a view that resolves after it was hidden and a second server, are left out. Labels
and descriptions in `ServerViews` are abstracted to what they depend on. `CoreLogins`, `EnterpriseLogins`
and `SamlLogins` have one login per server at a time; the record of preferences and unreadable
records are left out. In `RunTargets` servers run, and each Core server has its own host. A
document is run once at a time in `RunDiagnostics` and `ImportHints`; a dotted
module name of Python matches no folder, as in the code. In `McpLifecycle` an HTTP server listens or
fails before anything else happens, its second attempt included when the port is used: `start` is one choice, and the
promise that both attempts settle is not modelled. The status bar of a server that has not started yet shows nothing,
which is not told from "Disabled". The user does not edit the file during the prompt.

## Not modelled

The async caches as a component of their own (see above); the rendering of HTML, icons, dialogs and
code lenses; URLs, messages and their encoding; downloads, loggers and telemetry of `dh/` and
`util/`; tools that only format what a map holds; `PanelFocusManager`, which the extension does not
use; the end-to-end tests. `DhcService.deleteVariable`, `generateRequirementsTxt` and `getSession` read or
forward. Activation is sequential.

## Plan

1. `DhcSessions`: `getSession` and the plugins inside one service as a refinement of the phases
   `CoreConnections` uses.
2. What a mistaken removal leaves: which folders are top-level without being marked, so that `Mistaken` can
   ask whether the namesake is still marked when its turn comes.
3. `ByURLAsyncCache` as a module of its own, for the one hazard without a property.
