---------------------------- MODULE McpLifecycle ----------------------------
(***************************************************************************)
(* Starting and stopping the MCP server with its setting, and what names it: *)
(* the status bar, the definitions VS Code asks for and, in Windsurf, a      *)
(* configuration file (McpController, McpServer, McpServerDefinition-        *)
(* Provider, ConfigService, configUtils.ts).  An HTTP server listens, or     *)
(* fails to, before anything else happens; the workspace storage, the file   *)
(* and its prompt are awaited.                                             *)
(***************************************************************************)
EXTENDS Naturals

CONSTANTS
    Ports,
    NoPort,
    MaxServers,     \* bound: servers that are created
    Updates         \* bound: updates of the Windsurf file that are pending at a time

ASSUME McpAssumption == NoPort \notin Ports /\ MaxServers \in Nat

VARIABLES
    windsurf,           \* isWindsurf
    active,             \* the extension runs in a window
    settings,           \* deephaven.mcp.enabled, .docsEnabled, .autoUpdateConfig
    taken,              \* ports of other programs
    created,            \* servers created since the extension was activated
    port,               \* the port each server listens on
    _mcpServer,         \* 0 stands for null
    storing,            \* the ports that servers await the storage of
    provided,           \* the definition provider's server
    asked,              \* VS Code has been told to ask for the definitions again
    listed,             \* the definitions it got
    statusBar,          \* a port; NoPort for "Disabled"
    storedPort,
    file,               \* Windsurf's entries for the server and for the documentation
    update,             \* updates of the file
    overlapping         \* history: two of them overlapped, or one failed

mcpVars == <<windsurf, active, settings, taken, created, port, _mcpServer, storing, provided,
             asked, listed, statusBar, storedPort, file, update, overlapping>>

Settings == [mcp : BOOLEAN, docs : BOOLEAN, auto : BOOLEAN]
Entries == [server : Ports \cup {NoPort}, docs : {"none", "named", "other name"}]
NoServer == [s \in 0 .. MaxServers |-> NoPort]
NoUpdate == [at |-> "none", port |-> NoPort, content |-> [server |-> NoPort, docs |-> "none"]]
Pending == {u \in Updates : update[u].at # "none"}

McpInit ==
    /\ windsurf \in BOOLEAN
    /\ active = FALSE /\ settings \in Settings
    /\ taken = {} /\ created = 0 /\ port = NoServer /\ _mcpServer = 0 /\ storing = NoServer
    /\ provided = 0 /\ asked = FALSE /\ listed = {} /\ statusBar = NoPort
    /\ storedPort \in Ports \cup {NoPort}
    /\ file \in IF windsurf THEN Entries ELSE {NoUpdate.content}
    /\ update = [u \in Updates |-> NoUpdate]
    /\ overlapping = FALSE

-----------------------------------------------------------------------------
(* The file of Windsurf                                                    *)

\* Updates of the file are asked for with a port, or with none, and go on by themselves.
updateWindsurfMcpConfig(p) ==
    IF ~windsurf THEN UNCHANGED <<update, overlapping>>
    ELSE \E u \in Updates \ Pending :
           /\ update' = [update EXCEPT ![u] = [NoUpdate EXCEPT !.at = "reading", !.port = p]]
           /\ overlapping' = (overlapping \/ Pending # {})

deleteConfigKeys(entries, keys) ==
    [server |-> IF "server" \in keys THEN NoPort ELSE entries.server,
     docs |-> IF "docs" \in keys /\ entries.docs = "named" THEN "none" ELSE entries.docs]

\* The documentation is added unless its URL is there under any name.
updateWindsurfDocsMcpServerConfig(entries) ==
    [entries EXCEPT !.docs = IF @ = "none" THEN "named" ELSE @]

\* The entries after an update with a port.  A faulty variant stands before the operator.
EntriesOfPort(p) ==
    IF p = NoPort THEN deleteConfigKeys(file, {"server"})
    ELSE updateWindsurfDocsMcpServerConfig([file EXCEPT !.server = p])
UpdatedEntries(p) ==
    LET served == [file EXCEPT !.server = p] IN
    IF ~settings.mcp THEN deleteConfigKeys(file, {"server", "docs"})
    ELSE IF p = NoPort THEN deleteConfigKeys(file, {"server"})
    ELSE IF settings.docs THEN updateWindsurfDocsMcpServerConfig(served)
    ELSE deleteConfigKeys(served, {"docs"})

\* The file has been read.  Entries are deleted without a question.
ReadConfig(u) ==
    LET content == UpdatedEntries(update[u].port)
        silent == ~settings.mcp \/ update[u].port = NoPort \/ settings.auto
    IN /\ update[u].at = "reading"
       /\ update' = [update EXCEPT ![u] =
            IF content = file THEN NoUpdate
            ELSE [@ EXCEPT !.at = IF silent THEN "writing" ELSE "prompt", !.content = content]]
       /\ UNCHANGED <<windsurf, active, settings, taken, created, port, _mcpServer, storing, provided, asked,
                      listed, statusBar, storedPort, file, overlapping>>

promptForMcpConfigUpdate(u) ==
    /\ update[u].at = "prompt"
    /\ \E response \in {"Yes", "Always", "No"} :
         /\ update' = [update EXCEPT ![u] = IF response = "No" THEN NoUpdate ELSE [@ EXCEPT !.at = "writing"]]
         /\ settings' = [settings EXCEPT !.auto = @ \/ response = "Always"]
    /\ UNCHANGED <<windsurf, active, taken, created, port, _mcpServer, storing, provided, asked, listed,
                   statusBar, storedPort, file, overlapping>>

\* Reading and writing may fail.
WriteConfig(u) ==
    /\ \/ update[u].at = "writing" /\ file' = update[u].content /\ UNCHANGED overlapping
       \/ update[u].at \in {"reading", "writing"} /\ overlapping' = TRUE /\ UNCHANGED file
    /\ update' = [update EXCEPT ![u] = NoUpdate]
    /\ UNCHANGED <<windsurf, active, settings, taken, created, port, _mcpServer, storing, provided, asked,
                   listed, statusBar, storedPort>>

-----------------------------------------------------------------------------
(* The server                                                              *)

\* A faulty variant of the operator it stands before.
keepListening == port
stop == [port EXCEPT ![_mcpServer] = NoPort]

\* The preferred port, or any other when another program has it; the start may fail.
start(preferred) ==
    IF preferred \in Ports \ taken THEN {preferred, NoPort} ELSE (Ports \ taken) \cup {NoPort}

\* A faulty variant of the operator it stands before.
ServerStarted(s) == s
ServerProvided(s) == _mcpServer'

\* What follows when the port of server s has been stored, with the server that is then current.
ServerStored(s, p) ==
    IF windsurf THEN updateWindsurfMcpConfig(p) /\ UNCHANGED <<provided, asked>>
    ELSE provided' = ServerProvided(s) /\ asked' = TRUE /\ UNCHANGED <<update, overlapping>>

\* The server that runs is stopped; one is started if MCP is enabled.
initializeMcpServer(enabled) ==
    IF ~enabled
    THEN /\ _mcpServer' = 0 /\ port' = stop /\ provided' = 0 /\ asked' = TRUE /\ statusBar' = NoPort
         /\ updateWindsurfMcpConfig(NoPort)
         /\ UNCHANGED <<created, storing, storedPort>>
    ELSE \E p \in start(storedPort) :
         /\ created < MaxServers
         /\ created' = created + 1 /\ _mcpServer' = created'
         /\ statusBar' = IF p = NoPort THEN statusBar ELSE p
         /\ port' = [stop EXCEPT ![created'] = p]
         /\ IF p = NoPort
            THEN provided' = 0 /\ UNCHANGED <<storing, storedPort, asked, update, overlapping>>
            ELSE IF p # storedPort
            THEN /\ storedPort' = p /\ storing' = [storing EXCEPT ![created'] = p]
                 /\ provided' = 0 /\ UNCHANGED <<asked, update, overlapping>>
            ELSE ServerStored(created', p) /\ UNCHANGED <<storing, storedPort>>

PortStored(s) ==
    /\ storing[s] # NoPort
    /\ storing' = [storing EXCEPT ![s] = NoPort]
    /\ UNCHANGED <<windsurf, active, settings, taken, created, port, _mcpServer, listed, statusBar,
                   storedPort, file>>
    /\ ServerStored(s, storing[s])

onDidChangeConfiguration(mcp, docs) ==
    /\ active
    /\ <<mcp, docs>> # <<settings.mcp, settings.docs>>
    /\ settings' = [settings EXCEPT !.mcp = mcp, !.docs = docs]
    /\ IF mcp # settings.mcp THEN initializeMcpServer(mcp)
       ELSE /\ asked' = TRUE
            /\ updateWindsurfMcpConfig(port[_mcpServer])
            /\ UNCHANGED <<created, port, _mcpServer, storing, provided, statusBar, storedPort>>
    /\ UNCHANGED <<windsurf, active, taken, listed, file>>

\* The window of Windsurf gets the focus, or the user copies the server's URL.
maybeUpdateWindsurfMcpConfig ==
    /\ windsurf /\ port[_mcpServer] # NoPort
    /\ updateWindsurfMcpConfig(port[_mcpServer])
    /\ UNCHANGED <<windsurf, active, settings, taken, created, port, _mcpServer, storing, provided, asked,
                   listed, statusBar, storedPort, file>>

Definitions(p) == IF p = NoPort THEN {} ELSE {p} \cup (IF settings.docs THEN {"docs"} ELSE {})

provideMcpServerDefinitions ==
    /\ asked
    /\ asked' = FALSE /\ listed' = Definitions(port[provided])
    /\ UNCHANGED <<windsurf, active, settings, taken, created, port, _mcpServer, storing, provided,
                   statusBar, storedPort, file, update, overlapping>>

\* The extension is activated in a window, and the window is closed: the setting, the stored
\* port and the file remain.
Activate ==
    /\ ~active /\ active' = TRUE
    /\ \E mcp \in BOOLEAN : settings' = [settings EXCEPT !.mcp = mcp] /\ initializeMcpServer(mcp)
    /\ UNCHANGED <<windsurf, taken, listed, file>>

CloseWindow ==
    /\ active /\ active' = FALSE
    /\ created' = 0 /\ port' = NoServer /\ _mcpServer' = 0 /\ storing' = NoServer
    /\ provided' = 0 /\ asked' = FALSE /\ listed' = {} /\ statusBar' = NoPort
    /\ update' = [u \in Updates |-> NoUpdate] /\ overlapping' = FALSE
    /\ UNCHANGED <<windsurf, settings, taken, storedPort, file>>

OtherPrograms ==
    /\ \E ports \in SUBSET {p \in Ports : \A s \in DOMAIN port : port[s] # p} : taken' = ports
    /\ UNCHANGED <<windsurf, active, settings, created, port, _mcpServer, storing, provided, asked,
                   listed, statusBar, storedPort, file, update, overlapping>>

McpNext ==
    \/ \E u \in Updates : ReadConfig(u) \/ promptForMcpConfigUpdate(u) \/ WriteConfig(u)
    \/ \E s \in 1 .. MaxServers : PortStored(s)
    \/ \E mcp, docs \in BOOLEAN : onDidChangeConfiguration(mcp, docs)
    \/ maybeUpdateWindsurfMcpConfig \/ provideMcpServerDefinitions
    \/ Activate \/ CloseWindow \/ OtherPrograms

McpSpec == McpInit /\ [][McpNext]_mcpVars

-----------------------------------------------------------------------------
(* Properties.                                                             *)

\* However often MCP is switched off and on while ports are being stored, only the current
\* server listens, and once that is over VS Code lists this server, and none when there is
\* none (initializeMcpServer reads _mcpServer again after its awaits).
DefinitionsFollow ==
    /\ \A s \in DOMAIN port : port[s] # NoPort => s = _mcpServer /\ settings.mcp
    /\ (active /\ ~windsurf /\ ~asked /\ storing = NoServer) => listed = Definitions(port[_mcpServer])

\* When MCP is disabled and all updates have ended, Windsurf's file names no Deephaven server
\* under its own name, even if the port was still being stored or the window was closed in
\* between, unless updates overlapped or failed (updateWindsurfMcpConfig).
DisabledIsRemoved ==
    (active /\ windsurf /\ ~settings.mcp /\ Pending = {} /\ storing = NoServer /\ ~overlapping) =>
        file.server = NoPort /\ file.docs # "named"

=============================================================================
