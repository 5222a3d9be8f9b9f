----------------------------- MODULE ServerViews -----------------------------
(***************************************************************************)
(* The views SERVERS, CONNECTIONS and PANELS: the trees of providers/Server*- *)
(* TreeProvider.ts and util/treeViewUtils.ts, which VS Code reads again when *)
(* ServerManager or PanelService tells of an update.  It reads the nodes, and *)
(* then, awaiting the console types of connections, their items.  The changes *)
(* are those of ServerManager, with the updates in the order it tells them;  *)
(* CoreConnections and EnterpriseWorkers say when they happen.  Views do not  *)
(* influence anything: in a behaviour one of them is watched.              *)
(***************************************************************************)
EXTENDS Integers, FiniteSets

CONSTANTS
    Cores,          \* Core servers, each with the URL of its connection
    Manageable,     \* those that the extension may have started
    Enterprise,     \* an Enterprise server
    Workers,        \* its workers
    Documents,
    Exported,       \* variables that a server has
    MaxCount,       \* bound: connections counted of the Enterprise server, also those that are lost
    NoConn

ASSUME ServerViewsAssumption ==
    /\ Manageable \subseteq Cores /\ Enterprise \notin Cores /\ Workers \cap Cores = {}
    /\ NoConn \notin Cores \cup Workers /\ MaxCount \in Nat

VARIABLES
    view,           \* the view that is watched
    server,         \* _serverMap
    canStartServer,
    reload,         \* a configuration was loaded, and the refresh that follows is under way
    entry,          \* what _connectionMap holds: how far a connection is
    ending,         \* workers whose deletion disconnectFromServer awaits
    closing,        \* connections whose disposal it awaits
    running,        \* isRunningCode
    editors,        \* _uriConnectionsMap
    variables,      \* _cnVariableMap
    due,            \* VS Code has been told of an update and has not read the view since
    reading,        \* a read is under way
    outdated,       \* the nodes it has read have changed since
    stale,          \* what the view shows has changed since it was read
    untold          \* history: a creation failed after its last update, and none came since

managerVars == <<server, canStartServer, reload, entry, ending, closing, running, editors, variables>>
displayVars == <<due, reading, untold>>
viewVars == <<view, managerVars, displayVars, outdated, stale>>

Servers == Cores \cup {Enterprise}
Conns == Cores \cup Workers
Trees == {"servers", "connections", "panels"}
Unlisted == [listed |-> FALSE, isManaged |-> FALSE, isRunning |-> FALSE, isConnected |-> FALSE, connectionCount |-> 0]
Initial == [Unlisted EXCEPT !.listed = TRUE]
Held(e) == {c \in Conns : e[c] # "none"}

-----------------------------------------------------------------------------
(* The trees                                                               *)

Link(state) == IF state.isConnected THEN "connected" ELSE "disconnected"
getServerContextValue(s, state) ==
    IF state.isManaged THEN <<"managed", IF state.isRunning THEN Link(state) ELSE
                                         IF state.isConnected THEN "connected" ELSE "connecting">>
    ELSE IF state.isRunning THEN <<IF s = Enterprise THEN "DHE" ELSE "DHC", Link(state)>>
    ELSE <<"server", "stopped">>

getServerIconID(state) ==
    IF state.isRunning THEN Link(state) ELSE IF state.isManaged THEN "connecting" ELSE "stopped"

getServerTreeItem(s, state) ==
    LET contextValue == getServerContextValue(s, state) IN
    [contextValue |-> contextValue, iconPath |-> getServerIconID(state), count |-> state.connectionCount,
     canConnect |-> contextValue[2] = "disconnected" \/ contextValue = <<"DHE", "connected">>]

groupServers(servers) ==
    LET Group(name, P(_)) == <<name, {<<s, getServerTreeItem(s, servers[s])>> :
                                         s \in {t \in Servers : servers[t].listed /\ P(servers[t])}}>>
    IN <<Group("Managed", LAMBDA x : x.isManaged), Group("Running", LAMBDA x : ~x.isManaged /\ x.isRunning),
         Group("Stopped", LAMBDA x : ~x.isManaged /\ ~x.isRunning)>>

\* A group is shown if it has servers, and Managed if one can be started.
ServerTree == <<{g \in {groupServers(server)[i] : i \in 1 .. 3} :
                    g[2] # {} \/ (g[1] = "Managed" /\ canStartServer)}, canStartServer>>

isConnected(c) == entry[c] \in {"plugins", "open"}
ConnectionItem(c) ==
    [isConnected |-> isConnected(c), isRunningCode |-> c \in running, uris |-> {d \in Documents : editors[d] = c}]
getPanelConnectionTreeItem(c) == [isConnected |-> isConnected(c), variables |-> variables[c]]

\* The servers' nodes hold what is shown of them; connections are looked at when their items
\* are asked for.
getChildren == IF view = "servers" THEN ServerTree ELSE Held(entry)
getTreeItems(nodes) ==
    IF view = "servers" THEN nodes
    ELSE {<<c, IF view = "connections" THEN ConnectionItem(c) ELSE getPanelConnectionTreeItem(c)>> : c \in nodes}

-----------------------------------------------------------------------------
(* Updates                                                                 *)

ServerViewsInit ==
    /\ view \in Trees
    /\ server = [s \in Servers |-> Unlisted] /\ canStartServer = FALSE /\ reload = FALSE
    /\ entry = [c \in Conns |-> "none"] /\ ending = {} /\ closing = {} /\ running = {}
    /\ editors = [d \in Documents |-> NoConn] /\ variables = [c \in Conns |-> {}]
    /\ due = FALSE /\ reading = FALSE /\ outdated = FALSE /\ stale = FALSE /\ untold = FALSE

Fires == due' = TRUE /\ untold' = FALSE /\ UNCHANGED reading
Silent == UNCHANGED displayVars
FiresIf(P) == IF P THEN Fires ELSE Silent

ReadChildren ==
    /\ due /\ ~reading
    /\ due' = FALSE /\ reading' = TRUE /\ outdated' = FALSE
    /\ UNCHANGED <<view, managerVars, stale, untold>>

ReadItems ==
    /\ reading
    /\ reading' = FALSE /\ stale' = outdated
    /\ UNCHANGED <<view, managerVars, due, untold, outdated>>

\* What the changes of the manager make of the nodes and items that were read.
Notices ==
    /\ outdated' = (outdated \/ getChildren' # getChildren)
    /\ stale' = (stale \/ getTreeItems(getChildren)' # getTreeItems(getChildren))

-----------------------------------------------------------------------------
(* Servers                                                                 *)

updateConnectionCount(servers, s, change) ==
    IF ~servers[s].listed THEN servers
    ELSE LET sum == servers[s].connectionCount + change
             count == IF sum < 0 THEN 0 ELSE sum
         IN [servers EXCEPT ![s].connectionCount = count, ![s].isConnected = count > 0 \/ s = Enterprise]
Increments(servers, s) == updateConnectionCount(servers, s, 1)
Decrements(servers, s) == updateConnectionCount(servers, s, -1)

ServerOf(c) == IF c \in Cores THEN c ELSE Enterprise

\* Connections of Core servers leave at once and are disposed of; workers are deleted first.
Leave(cs) ==
    LET left == {c \in cs \cap Cores : entry[c] # "none"} IN
    /\ entry' = [c \in Conns |-> IF c \in left THEN "none" ELSE entry[c]]
    /\ editors' = [d \in Documents |-> IF editors[d] \in left THEN NoConn ELSE editors[d]]
    /\ running' = running \ left
    /\ closing' = closing \cup left
    /\ ending' = ending \cup (cs \cap Workers)

\* Its refresh follows in ExtensionController, with which servers are synced.
loadServerConfig ==
    /\ \E configured \in SUBSET Servers :
         LET new == [s \in Servers |->
                 IF s \in configured
                 THEN IF server[s].listed THEN [server[s] EXCEPT !.isManaged = FALSE] ELSE Initial
                 ELSE IF server[s].isManaged THEN server[s] ELSE Unlisted]
             gone == {c \in Held(entry) : ~new[ServerOf(c)].listed}
         IN /\ server' = new
            /\ Leave(gone)
    /\ reload' = TRUE
    /\ Silent /\ UNCHANGED <<view, canStartServer, variables>>

syncManagedServers ==
    /\ \E urls \in SUBSET Manageable, able \in BOOLEAN :
         LET gone == {s \in Servers : server[s].isManaged /\ s \notin urls}
         IN /\ server' = [s \in Servers |->
                 IF s \in gone THEN Unlisted
                 ELSE IF s \in urls /\ ~server[s].listed THEN [Initial EXCEPT !.isManaged = TRUE]
                 ELSE server[s]]
            /\ Leave(gone)
            /\ canStartServer' = able
    /\ reload' = FALSE
    /\ Fires /\ UNCHANGED <<view, variables>>

\* A status was asked for and differs; a server that stopped is disconnected from.  A faulty
\* variant stands before the operator.
StatusUnheard(s) == Silent
StatusHeard(s) == Fires
updateStatus(s) ==
    /\ server[s].listed
    /\ LET changed == [server EXCEPT ![s].isRunning = ~@]
       IN IF server[s].isRunning
          THEN server' = Decrements(changed, s) /\ Leave({s} \cap Cores)
          ELSE server' = changed /\ UNCHANGED <<entry, editors, running, closing, ending>>
    /\ StatusHeard(s) /\ UNCHANGED <<view, canStartServer, reload, variables>>

-----------------------------------------------------------------------------
(* Connections                                                             *)

addWorkerPlaceholderConnection(w) ==
    /\ server[Enterprise].listed /\ server[Enterprise].connectionCount < MaxCount
    /\ entry[w] = "none" /\ w \notin ending \cup closing
    /\ server' = Increments(server, Enterprise)
    /\ entry' = [entry EXCEPT ![w] = "placeholder"]
    /\ Fires
    /\ UNCHANGED <<view, canStartServer, reload, ending, closing, running, editors, variables>>

\* The worker was created, and whoever logs in to it gets a client, or not.
removeWorkerPlaceholderConnection(w) ==
    /\ entry[w] = "placeholder"
    /\ \E next \in {"none", "session"} : entry' = [entry EXCEPT ![w] = next]
    /\ ending' = ending \ {w}
    /\ Fires
    /\ UNCHANGED <<view, server, canStartServer, reload, closing, running, editors, variables>>

CreationFailed(w) ==
    /\ entry[w] = "placeholder"
    /\ entry' = [entry EXCEPT ![w] = "none"]
    /\ server' = Decrements(server, Enterprise)
    /\ IF server[Enterprise].listed THEN Fires
       ELSE untold' = TRUE /\ UNCHANGED <<due, reading>>
    /\ ending' = ending \ {w}
    /\ UNCHANGED <<view, canStartServer, reload, closing, running, editors, variables>>

LoggedInToCore(c) ==
    /\ server[c].listed /\ server[c].connectionCount = 0 /\ entry[c] = "none"
    /\ entry' = [entry EXCEPT ![c] = "session"]
    /\ Fires
    /\ UNCHANGED <<view, server, canStartServer, reload, ending, closing, running, editors, variables>>

\* The session is there, and plugins are awaited; of neither, and not of a failure, anybody is
\* told.
SessionCreated(c) ==
    /\ entry[c] = "session"
    /\ entry' = [entry EXCEPT ![c] = "plugins"]
    /\ Silent
    /\ UNCHANGED <<view, server, canStartServer, reload, ending, closing, running, editors, variables>>

SessionFailed(c) ==
    /\ entry[c] \in {"session", "plugins"}
    /\ entry' = [entry EXCEPT ![c] = "none"]
    /\ untold' = TRUE
    /\ UNCHANGED <<view, server, canStartServer, reload, ending, closing, running, editors, variables, due, reading>>

\* connectToServer ends; a worker has no count of its own.
ConnectionReady(c) ==
    /\ entry[c] = "plugins"
    /\ entry' = [entry EXCEPT ![c] = "open"]
    /\ server' = IF c \in Cores THEN Increments(server, c) ELSE server
    /\ Fires
    /\ UNCHANGED <<view, canStartServer, reload, ending, closing, running, editors, variables>>

\* The user disconnects, or the connection is lost.
disconnectFromServer(c) ==
    /\ entry[c] # "none" /\ c \notin ending
    /\ server' = Decrements(server, ServerOf(c))
    /\ Leave({c})
    /\ FiresIf(server[ServerOf(c)].listed)
    /\ UNCHANGED <<view, canStartServer, reload, variables>>

WorkerDeleted(w) ==
    /\ w \in ending
    /\ ending' = ending \ {w}
    /\ IF entry[w] = "none" THEN UNCHANGED <<entry, editors, running, closing>>
       ELSE /\ entry' = [entry EXCEPT ![w] = "none"]
            /\ editors' = [d \in Documents |-> IF editors[d] = w THEN NoConn ELSE editors[d]]
            /\ running' = running \ {w} /\ closing' = closing \cup {w}
    /\ Silent /\ UNCHANGED <<view, server, canStartServer, reload, variables>>

Disposed(c) ==
    /\ c \in closing
    /\ closing' = closing \ {c}
    /\ variables' = [variables EXCEPT ![c] = {}]
    /\ Fires
    /\ UNCHANGED <<view, server, canStartServer, reload, entry, ending, running, editors>>

\* The last step of disconnectFromDHEServer.
disconnectFromDHEServer ==
    /\ server[Enterprise].listed /\ server[Enterprise].isConnected
    /\ server' = [server EXCEPT ![Enterprise].isConnected = FALSE, ![Enterprise].connectionCount = 0]
    /\ Fires
    /\ UNCHANGED <<view, canStartServer, reload, entry, ending, closing, running, editors, variables>>

-----------------------------------------------------------------------------
(* Runs, editors and variables, which some views do not show                *)

\* ServerManager listens to connections that are open.
isRunningCode(c) ==
    /\ view = "connections" /\ entry[c] = "open"
    /\ running' = IF c \in running THEN running \ {c} ELSE running \cup {c}
    /\ Fires
    /\ UNCHANGED <<view, server, canStartServer, reload, entry, ending, closing, editors, variables>>

\* setEditorConnection and disconnectEditor.
EditorChanges(d) ==
    /\ view = "connections"
    /\ \E c \in {x \in Conns : isConnected(x)} \cup {NoConn} : editors' = [editors EXCEPT ![d] = c]
    /\ Fires
    /\ UNCHANGED <<view, server, canStartServer, reload, entry, ending, closing, running, variables>>

updateVariables(c) ==
    /\ view = "panels" /\ isConnected(c)
    /\ \E vs \in SUBSET Exported : variables' = [variables EXCEPT ![c] = vs]
    /\ Fires
    /\ UNCHANGED <<view, server, canStartServer, reload, entry, ending, closing, running, editors>>

ServerViewsNext ==
    \/ ReadChildren \/ ReadItems
    \/ /\ \/ loadServerConfig \/ syncManagedServers \/ disconnectFromDHEServer
          \/ \E s \in Servers : updateStatus(s)
          \/ \E w \in Workers :
               \/ addWorkerPlaceholderConnection(w) \/ removeWorkerPlaceholderConnection(w)
               \/ CreationFailed(w) \/ WorkerDeleted(w)
          \/ \E c \in Cores : LoggedInToCore(c)
          \/ \E c \in Conns :
               \/ SessionCreated(c) \/ SessionFailed(c) \/ ConnectionReady(c) \/ disconnectFromServer(c)
               \/ Disposed(c) \/ isRunningCode(c) \/ updateVariables(c)
          \/ \E d \in Documents : EditorChanges(d)
       /\ Notices

ServerViewsSpec == ServerViewsInit /\ [][ServerViewsNext]_viewVars

-----------------------------------------------------------------------------
(* Properties.                                                             *)

\* Once VS Code has read what it was told of, a view shows the servers, connections, editors,
\* runs and variables as they are, though it reads nodes and items at different times; unless
\* something is under way that is still to be told of, or a creation failed in silence.
ViewsAreCurrent ==
    (~due /\ ~reading /\ ~reload /\ closing = {} /\ ~untold /\ \A c \in Conns : entry[c] # "plugins") => ~stale

=============================================================================
