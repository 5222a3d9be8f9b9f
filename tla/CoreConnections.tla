--------------------------- MODULE CoreConnections ---------------------------
(***************************************************************************)
(* Connections to Deephaven Core (DHC) servers: ServerManager, the        *)
(* connection life cycle of DhcService as ServerManager drives it, and    *)
(* the binding of editors to connections by ConnectionController.         *)
(*                                                                         *)
(* The extension runs on one thread, so a step is the code between two    *)
(* awaits that wait for something outside the process: the login prompt,  *)
(* the server, the quick pick.  An await that only waits for promises the *)
(* same step has already settled does not end the step.                   *)
(***************************************************************************)
EXTENDS Naturals, FiniteSets

CONSTANTS
    Servers,             \* URLs a DHC server may be known by
    Conns,               \* identities of DhcService objects, one per attempt
    Editors,             \* URIs of open documents
    Markdown,            \* the editors whose languageId is markdown
    None,
    RemoveWhilePending   \* may a server go from the configuration while a
                         \* connection attempt to it is under way?

ASSUME CoreAssumption ==
    /\ None \notin Conns
    /\ Markdown \subseteq Editors
    /\ RemoveWhilePending \in BOOLEAN

VARIABLES
    kind,        \* _serverMap: "absent", "configured" or "managed" (pip)
    isRunning,   \* ServerState.isRunning
    count,       \* ServerState.connectionCount
    pending,     \* _pendingConnectionMap: the attempt whose promise it holds
    connMap,     \* _connectionMap
    clients,     \* the URLs with an entry in _coreClientCache
    phase,       \* where each attempt / DhcService stands
    url,         \* DhcService.serverUrl
    editorConn,  \* _uriConnectionsMap
    request      \* what each editor's connect or drop handler awaits

serverVars == <<kind, isRunning, count>>
connVars   == <<pending, connMap, clients, phase, url>>
editorVars == <<editorConn, request>>
vars       == <<serverVars, connVars, editorVars>>

\* login: in getClient; session: in initDhcSession; plugins: cn and session are
\* set, plugin registration is awaited; aborted: disposed during the last two;
\* threw: getClient rejected.
InSession == {"session", "plugins", "aborted"}
InFlight  == {"login"} \cup InSession
Phases    == {"unused", "open", "closed", "threw"} \cup InFlight

Idle     == [step |-> "idle", conn |-> None, fresh |-> FALSE]
Requests == [step  : {"idle", "connecting", "picked", "querying"},
             conn  : Conns \cup {None},
             fresh : BOOLEAN]

TypeOK ==
    /\ kind \in [Servers -> {"absent", "configured", "managed"}]
    /\ isRunning \in [Servers -> BOOLEAN]
    /\ count \in [Servers -> Nat]
    /\ pending \in [Servers -> Conns \cup {None}]
    /\ connMap \in [Servers -> Conns \cup {None}]
    /\ clients \subseteq Servers
    /\ phase \in [Conns -> Phases]
    /\ url \in [Conns -> Servers \cup {None}]
    /\ editorConn \in [Editors -> Conns \cup {None}]
    /\ request \in [Editors -> Requests]

Init ==
    /\ kind = [s \in Servers |-> "absent"]
    /\ isRunning = [s \in Servers |-> FALSE]
    /\ count = [s \in Servers |-> 0]
    /\ pending = [s \in Servers |-> None]
    /\ connMap = [s \in Servers |-> None]
    /\ clients = {}
    /\ phase = [c \in Conns |-> "unused"]
    /\ url = [c \in Conns |-> None]
    /\ editorConn = [e \in Editors |-> None]
    /\ request = [e \in Editors |-> Idle]

-----------------------------------------------------------------------------
(* What the handlers share.                                                *)

Known(s)   == kind[s] # "absent"
HasConn(s) == connMap[s] # None

\* A definition that stands before another of the same stem and is used nowhere
\* (CountKept, UnbindNothing...) is a faulty variant of it, kept to show that the
\* properties tell the two apart.
Minus(n, k) == IF n > k THEN n - k ELSE 0

Attempting(s) == pending[s] # None /\ phase[pending[s]] \in InFlight
MayRemove(S)  == RemoveWhilePending \/ \A s \in S : ~Attempting(s)

\* DhcService.dispose: it ends an open connection at once, and makes a session
\* that is still being created fail when its promise settles.
DisposedKeepsPromise(p) == IF p \in InSession THEN p ELSE "closed"
Disposed(p) == IF p \in InSession THEN "aborted" ELSE "closed"

\* How often disconnectFromServer(s) runs when it is called while connection c is
\* being disposed: disposing another open connection of s fires onDidDisconnect,
\* which calls it again.
Calls(s, c) ==
    IF connMap[s] \notin {None, c} /\ phase[connMap[s]] = "open" THEN 2 ELSE 1

CountKept(s, c) == count[s]
CountAfter(s, c) == Minus(count[s], Calls(s, c))

UnbindNothing(gone) == UNCHANGED editorConn
Unbind(gone) ==
    editorConn' = [e \in Editors |->
                     IF editorConn[e] \in gone THEN None ELSE editorConn[e]]

\* _coreClientCache.delete for each URL in S.
AllClients(S) == clients
ClientsWithout(S) == clients \ S

\* disconnectFromServer for each s in S, count apart; Closing is what is being
\* disposed already.
Disconnect(S, Closing) ==
    LET gone == {connMap[s] : s \in S} \ {None}
    IN /\ connMap' = [s \in Servers |-> IF s \in S THEN None ELSE connMap[s]]
       /\ clients' = ClientsWithout({s \in S : HasConn(s)})
       /\ phase' = [c \in Conns |->
                      IF c \in gone \cup Closing THEN Disposed(phase[c]) ELSE phase[c]]
       /\ Unbind(gone)

\* setEditorConnection(e, conn) for each e in E, up to its first await: markdown
\* is bound at once, any other language asks the server for its console types.
Attach(E, conn, fresh) ==
    /\ editorConn' = [e \in Editors |->
                        IF e \in E \cap Markdown THEN conn ELSE editorConn[e]]
    /\ request' = [e \in Editors |->
                     IF e \in E \cap Markdown THEN Idle
                     ELSE IF e \in E
                          THEN [step |-> "querying", conn |-> conn, fresh |-> fresh]
                          ELSE request[e]]

Waiters(c) == {e \in Editors : request[e].step = "connecting" /\ request[e].conn = c}

Release(E) == request' = [e \in Editors |-> IF e \in E THEN Idle ELSE request[e]]

\* The .then that takes the settled promise of c from _pendingConnectionMap.
Settle(c) == pending' = [pending EXCEPT ![url[c]] = None]

-----------------------------------------------------------------------------
(* connectToServer and _doConnectToServer, DHC branch.                     *)

\* Neither of connectToServer's early returns is taken.
MayStartUnmarked(s) == Known(s) /\ count[s] = 0
MayStartUncounted(s) == Known(s) /\ pending[s] = None
MayStart(s) == Known(s) /\ count[s] = 0 /\ pending[s] = None

\* A new attempt.  getClient answers at once when the cache holds a client, and
\* _doConnectToServer then gets as far as initDhcSession.
Start(s, c) ==
    /\ MayStart(s)
    /\ phase[c] = "unused"
    /\ pending' = [pending EXCEPT ![s] = c]
    /\ url' = [url EXCEPT ![c] = s]
    /\ phase' = [phase EXCEPT ![c] = IF s \in clients THEN "session" ELSE "login"]
    /\ connMap' = IF s \in clients THEN [connMap EXCEPT ![s] = c] ELSE connMap
    /\ UNCHANGED clients

\* The connect command on a server in the tree; its result is dropped.
ConnectCommand(s, c) ==
    /\ Start(s, c)
    /\ UNCHANGED <<serverVars, editorVars>>

\* connectEditor with a server: start an attempt, wait for the one under way, or
\* get the connection there is.
ConnectEditor(e, s) ==
    /\ request[e] = Idle
    /\ Known(s)
    /\ \/ \E c \in Conns :
            /\ Start(s, c)
            /\ request' = [request EXCEPT ![e] =
                             [step |-> "connecting", conn |-> c, fresh |-> FALSE]]
            /\ UNCHANGED editorConn
       \/ /\ count[s] = 0
          /\ Attempting(s)
          /\ request' = [request EXCEPT ![e] =
                           [step |-> "connecting", conn |-> pending[s], fresh |-> FALSE]]
          /\ UNCHANGED <<connVars, editorConn>>
       \/ /\ count[s] > 0
          /\ Attach({e}, connMap[s], TRUE)
          /\ UNCHANGED connVars
    /\ UNCHANGED serverVars

\* The login command has put an authenticated client in the cache.
LoginOk(c) ==
    /\ phase[c] = "login"
    /\ phase' = [phase EXCEPT ![c] = "session"]
    /\ clients' = clients \cup {url[c]}
    /\ connMap' = [connMap EXCEPT ![url[c]] = c]
    /\ UNCHANGED <<serverVars, editorVars, pending, url>>

\* Login cancelled or refused: getClient answers null.
LoginFail(c) ==
    /\ phase[c] = "login"
    /\ phase' = [phase EXCEPT ![c] = "closed"]
    /\ clients' = ClientsWithout({url[c]})
    /\ Settle(c)
    /\ Release(Waiters(c))
    /\ UNCHANGED <<serverVars, editorConn, connMap, url>>

\* Login refused and the stored PSK could not be deleted: the promise rejects, and
\* the .then that clears _pendingConnectionMap never runs.
LoginThrows(c) ==
    /\ phase[c] = "login"
    /\ phase' = [phase EXCEPT ![c] = "threw"]
    /\ clients' = ClientsWithout({url[c]})
    /\ Release(Waiters(c))
    /\ UNCHANGED <<serverVars, editorConn, pending, connMap, url>>

\* initDhcSession has settled; initSession goes on to register the plugins.
SessionCreated(c) ==
    /\ phase[c] = "session"
    /\ phase' = [phase EXCEPT ![c] = "plugins"]
    /\ UNCHANGED <<serverVars, editorVars, pending, connMap, clients, url>>

\* initSession answers true: subscribe, count the connection, answer the callers.
Connected(c) ==
    LET s == url[c]
    IN /\ phase[c] = "plugins"
       /\ phase' = [phase EXCEPT ![c] = "open"]
       /\ count' = IF Known(s) THEN [count EXCEPT ![s] = @ + 1] ELSE count
       /\ Settle(c)
       /\ Attach(Waiters(c), connMap[s], TRUE)
       /\ UNCHANGED <<kind, isRunning, connMap, clients, url>>

\* initDhcSession rejected, or the service was disposed in the meantime.
FailsUndisposed(c) == phase[c] = "session"
Fails(c) == phase[c] \in {"session", "aborted"}

\* initSession answers false.
SessionFail(c) ==
    /\ Fails(c)
    /\ phase' = [phase EXCEPT ![c] = "closed"]
    /\ clients' = ClientsWithout({url[c]})
    /\ connMap' = [connMap EXCEPT ![url[c]] = None]
    /\ Settle(c)
    /\ Release(Waiters(c))
    /\ UNCHANGED <<serverVars, editorConn, url>>

-----------------------------------------------------------------------------
(* Losing connections.                                                     *)

\* The disconnect command, and stopping a pip server.
DisconnectServer(s) ==
    /\ Known(s) \/ HasConn(s)
    /\ Disconnect({s}, {})
    /\ count' = [count EXCEPT ![s] = CountAfter(s, None)]
    /\ UNCHANGED <<kind, isRunning, pending, url, request>>

\* The server ends the session or answers UNAUTHENTICATED: DhcService disposes
\* itself.  Nobody listens to onDidDisconnect until the session is established.
Drop(c) ==
    \/ /\ phase[c] = "plugins"
       /\ phase' = [phase EXCEPT ![c] = "aborted"]
       /\ UNCHANGED <<serverVars, editorVars, pending, connMap, clients, url>>
    \/ /\ phase[c] = "open"
       /\ Disconnect({url[c]}, {c})
       /\ count' = [count EXCEPT ![url[c]] = CountAfter(url[c], c)]
       /\ UNCHANGED <<kind, isRunning, pending, url, request>>

\* updateStatus finds that a server has stopped.
ServerStopped(s) ==
    /\ Known(s)
    /\ isRunning[s]
    /\ isRunning' = [isRunning EXCEPT ![s] = FALSE]
    /\ Disconnect({s}, {})
    /\ count' = [count EXCEPT ![s] = CountAfter(s, None)]
    /\ UNCHANGED <<kind, pending, url, request>>

\* updateStatus finds that a server has started; ConnectionController connects to
\* it when the extension manages it.
ServerStarted(s) ==
    /\ Known(s)
    /\ ~isRunning[s]
    /\ isRunning' = [isRunning EXCEPT ![s] = TRUE]
    /\ IF kind[s] = "managed" /\ MayStart(s)
       THEN \E c \in Conns : Start(s, c)
       ELSE UNCHANGED connVars
    /\ UNCHANGED <<kind, count, editorVars>>

-----------------------------------------------------------------------------
(* The set of servers.                                                     *)

\* Servers not in _serverMap before start over; servers that stay keep their state.
Keep(stay) ==
    /\ isRunning' = [s \in Servers |-> s \in stay /\ isRunning[s]]
    /\ count' = [s \in Servers |-> IF s \in stay THEN count[s] ELSE 0]

\* loadServerConfig, with C the servers of the new configuration.
LoadConfig(C) ==
    LET gone == {s \in Servers : kind[s] # "managed"} \ C
    IN /\ MayRemove({s \in gone : Known(s)})
       /\ kind' = [s \in Servers |-> IF s \in C THEN "configured"
                                     ELSE IF s \in gone THEN "absent" ELSE "managed"]
       /\ Keep({s \in Servers \ gone : Known(s)})
       /\ Disconnect({s \in gone : HasConn(s)}, {})
       /\ UNCHANGED <<pending, url, request>>

\* syncManagedServers, with U the pip servers that run now.
SyncManaged(U) ==
    LET gone  == {s \in Servers : kind[s] = "managed"} \ U
        added == {s \in U : ~Known(s)}
    IN /\ MayRemove(gone)
       /\ kind' = [s \in Servers |-> IF s \in gone THEN "absent"
                                     ELSE IF s \in added THEN "managed" ELSE kind[s]]
       /\ Keep(Servers \ (gone \cup added))
       /\ Disconnect(gone, {})
       /\ UNCHANGED <<pending, url, request>>

-----------------------------------------------------------------------------
(* Binding an editor to a connection that exists.                          *)

\* The quick pick lists the connections there are, a drop names one of them.
PickConnection(e, c) ==
    /\ request[e] = Idle
    /\ \E s \in Servers : connMap[s] = c
    /\ request' = [request EXCEPT ![e] =
                     [step |-> "picked", conn |-> c, fresh |-> FALSE]]
    /\ UNCHANGED <<serverVars, connVars, editorConn>>

\* setEditorConnection is called with the choice.  A service without a cn supports
\* no console type.
ApplyPick(e) ==
    /\ request[e].step = "picked"
    /\ IF e \in Markdown \/ phase[request[e].conn] \in {"plugins", "open"}
       THEN Attach({e}, request[e].conn, FALSE)
       ELSE Release({e}) /\ UNCHANGED editorConn
    /\ UNCHANGED <<serverVars, connVars>>

\* The user dismisses the quick pick.
CancelPick(e) ==
    /\ request[e].step = "picked"
    /\ Release({e})
    /\ UNCHANGED <<serverVars, connVars, editorConn>>

\* The console types arrive and include the editor's language.
Supported(e) ==
    /\ request[e].step = "querying"
    /\ editorConn' = [editorConn EXCEPT ![e] = request[e].conn]
    /\ Release({e})
    /\ UNCHANGED <<serverVars, connVars>>

\* They do not.  connectEditor disconnects when connectToServer had given it the
\* connection.
Unsupported(e) ==
    LET s == url[request[e].conn]
    IN /\ request[e].step = "querying"
       /\ Release({e})
       /\ IF request[e].fresh
          THEN /\ Disconnect({s}, {})
               /\ count' = [count EXCEPT ![s] = CountAfter(s, None)]
          ELSE UNCHANGED <<count, connMap, clients, phase, editorConn>>
       /\ UNCHANGED <<kind, isRunning, pending, url>>

\* The question is never answered because the connection is closed.
QueryFails(e) ==
    /\ request[e].step = "querying"
    /\ phase[request[e].conn] \notin {"plugins", "open"}
    /\ Release({e})
    /\ UNCHANGED <<serverVars, connVars, editorConn>>

\* The disconnect command on an editor.
DisconnectEditor(e) ==
    /\ editorConn[e] # None
    /\ editorConn' = [editorConn EXCEPT ![e] = None]
    /\ UNCHANGED <<serverVars, connVars, request>>

-----------------------------------------------------------------------------
Attempt(c) ==
    \/ LoginOk(c) \/ LoginFail(c) \/ LoginThrows(c)
    \/ SessionCreated(c) \/ Connected(c) \/ SessionFail(c)

Answer(e) ==
    \/ ApplyPick(e) \/ CancelPick(e)
    \/ Supported(e) \/ Unsupported(e) \/ QueryFails(e)

Next ==
    \/ \E s \in Servers, c \in Conns : ConnectCommand(s, c)
    \/ \E e \in Editors, s \in Servers : ConnectEditor(e, s)
    \/ \E c \in Conns : Attempt(c) \/ Drop(c)
    \/ \E s \in Servers : DisconnectServer(s) \/ ServerStopped(s) \/ ServerStarted(s)
    \/ \E S \in SUBSET Servers : LoadConfig(S) \/ SyncManaged(S)
    \/ \E e \in Editors, c \in Conns : PickConnection(e, c)
    \/ \E e \in Editors : Answer(e) \/ DisconnectEditor(e)

Spec == Init /\ [][Next]_vars

\* Every attempt ends and every question is answered, by the user or the server.
Fairness ==
    /\ \A c \in Conns : WF_vars(Attempt(c))
    /\ \A e \in Editors : WF_vars(Answer(e))

FairSpec == Spec /\ Fairness

-----------------------------------------------------------------------------
Live == {"login", "session", "plugins", "open"}

(* "We only support 1 connection for DHC servers in the extension": never two  *)
(* connections, or a connection and an attempt at another, to one server,      *)
(* although connectToServer learns of a connection only when its session is    *)
(* established.                                                                *)
OnePerServer ==
    \A c, d \in Conns :
        phase[c] \in Live /\ phase[d] \in Live /\ url[c] = url[d] => c = d

(* connectionCount says whether the server's connection is established, so the *)
(* getOrThrow that connectToServer makes when the count is positive finds one. *)
CountTellsConnected ==
    \A s \in Servers :
        count[s] = IF HasConn(s) /\ phase[connMap[s]] = "open" THEN 1 ELSE 0

(* No established connection and no session being created is out of reach of   *)
(* disconnectFromServer: it is the one _connectionMap holds for its server, and *)
(* the server is still configured.                                             *)
NothingUntracked ==
    \A c \in Conns :
        phase[c] \in {"session", "plugins", "open"} =>
            connMap[url[c]] = c /\ Known(url[c])

(* An authenticated client stays cached exactly as long as its server has a    *)
(* connection ("we clear the caches on connection disconnect").                *)
ClientsFollowConnections == clients = {s \in Servers : HasConn(s)}

(* When an established connection ends, however it ends, no editor is left     *)
(* bound to it, and an editor bound to one that goes on keeps its binding.     *)
EndedIsUnbound ==
    [][\A c \in Conns :
         phase[c] = "open" /\ phase'[c] # "open" =>
            \A e \in Editors :
               /\ editorConn'[e] # c
               /\ editorConn[e] # None /\ phase'[editorConn[e]] = "open" =>
                     editorConn'[e] = editorConn[e]]_vars

(* Each server's _pendingConnectionMap and _connectionMap entries act as one   *)
(* slot: see ConnectionSlots.                                                  *)
SlotOf(s) ==
    IF pending[s] # None THEN [state |-> "busy", conn |-> pending[s]]
    ELSE IF HasConn(s) THEN [state |-> "up", conn |-> connMap[s]]
    ELSE [state |-> "free", conn |-> None]

Slot == [s \in Servers |-> SlotOf(s)]
Used == {c \in Conns : phase[c] # "unused"}

Slots == INSTANCE ConnectionSlots WITH slot <- Slot, used <- Used

ImplementsSlots == Slots!Spec

(* Every connectEditor call, drop and quick pick is answered in the end, those  *)
(* that wait for an attempt another caller started included.                   *)
RequestsSettle == \A e \in Editors : request[e] # Idle ~> request[e] = Idle

-----------------------------------------------------------------------------
(* What the code does not keep.                                            *)

(* "Remove any editor URIs associated with this connection": an editor is only  *)
(* ever bound to a connection that ServerManager still holds.                  *)
BoundToHeldConnection ==
    \A e \in Editors :
        editorConn[e] # None => connMap[url[editorConn[e]]] = editorConn[e]
=============================================================================
