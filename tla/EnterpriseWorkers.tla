-------------------------- MODULE EnterpriseWorkers --------------------------
(***************************************************************************)
(* Workers on an Enterprise (DHE) server: ServerManager's DHE branch and   *)
(* the DheService it drives.  Every connection is a worker created for it; *)
(* until the worker is ready a placeholder stands for it.  The handlers of *)
(* different DHE servers share no entry of any map, so this is one server. *)
(*                                                                         *)
(* As in CoreConnections a step is the code between two awaits that wait   *)
(* for something outside the process.                                      *)
(***************************************************************************)
EXTENDS Naturals, FiniteSets

CONSTANT Attempts   \* calls of connectToServer, one worker each at most

VARIABLES
    known,        \* _serverMap has the server
    isRunning,    \* ServerState.isRunning
    count,        \* ServerState.connectionCount
    service,      \* _dheServiceCache has its DheService
    subscribed,   \* ServerManager listens to onDidWorkerTerminate
    client,       \* the client: none, login (being created), ready, broken
    promise,      \* DheService._clientPromise is not null
    stage,        \* where each attempt stands
    isNew,        \* isNewDheService of each attempt
    placeholder,  \* the attempts whose placeholder is in _connectionMap
    worker,       \* the attempts whose worker is in _connectionMap
    mapped,       \* _workerURLToServerURLMap, placeholder and worker URLs
    info,         \* _workerInfoMap
    query,        \* the worker on the server
    deleting,     \* the disconnectFromServer calls that await deleteWorker
    doomed,       \* the deleteWorker calls that nobody awaits
    closing       \* disconnectFromDHEServer: what it still has to disconnect
                  \* (todo) and the worker whose disconnection it awaits (waits)

serverVars == <<known, isRunning, count>>
loginVars  == <<service, client, promise, isNew, subscribed>>
mapVars    == <<placeholder, worker, mapped>>
queryVars  == <<query, doomed>>
vars == <<serverVars, loginVars, stage, mapVars, info, queryVars, deleting, closing>>

\* login: awaits getClient; got: has the client; relogin: createWorker awaits
\* getClient; query: createWorker awaits the query; stranded: so it does, but on a
\* client that has been disconnected; core: awaits the worker's own client; session:
\* awaits initSession; aborted: disposed meanwhile.
Stages == {"unused", "login", "got", "relogin", "query", "stranded", "core",
           "session", "aborted", "open", "done"}

PURL(a) == <<"placeholder", a>>
WURL(a) == <<"worker", a>>
URLs    == {"placeholder", "worker"} \X Attempts
Calm    == [active |-> FALSE, todo |-> {}, waits |-> {}]

TypeOK ==
    /\ known \in BOOLEAN /\ isRunning \in BOOLEAN /\ count \in Nat
    /\ service \in BOOLEAN /\ subscribed \in BOOLEAN /\ promise \in BOOLEAN
    /\ client \in {"none", "login", "ready", "broken"}
    /\ stage \in [Attempts -> Stages]
    /\ isNew \in [Attempts -> BOOLEAN]
    /\ placeholder \subseteq Attempts /\ worker \subseteq Attempts
    /\ mapped \subseteq URLs
    /\ info \subseteq Attempts
    /\ query \in [Attempts -> {"none", "running", "ended"}]
    /\ deleting \subseteq Attempts /\ doomed \subseteq Attempts
    /\ closing \in [active : BOOLEAN, todo : SUBSET URLs, waits : SUBSET Attempts]

Init ==
    /\ known = FALSE /\ isRunning = FALSE /\ count = 0
    /\ service = FALSE /\ subscribed = FALSE
    /\ client = "none" /\ promise = FALSE
    /\ stage = [a \in Attempts |-> "unused"]
    /\ isNew = [a \in Attempts |-> FALSE]
    /\ placeholder = {} /\ worker = {} /\ mapped = {}
    /\ info = {}
    /\ query = [a \in Attempts |-> "none"]
    /\ deleting = {} /\ doomed = {}
    /\ closing = Calm

-----------------------------------------------------------------------------
(* What the handlers share.  As in CoreConnections a definition used nowhere   *)
(* that stands before another of the same stem is a faulty variant of it.      *)

At(st) == {a \in Attempts : stage[a] \in st}
Move(A, st) == stage' = [a \in Attempts |-> IF a \in A THEN st ELSE stage[a]]

\* updateConnectionCount(serverUrl, -1), n times.
Minus(n) == IF count > n THEN count - n ELSE 0

\* DhcService.dispose on the services of A.
Disposed(A) ==
    [a \in Attempts |->
        IF a \notin A THEN stage[a]
        ELSE CASE stage[a] = "session" -> "aborted"
               [] stage[a] = "open"    -> "done"
               [] OTHER                -> stage[a]]

\* The workers of W whose disconnectFromServer call waits for the service to
\* delete them: deleteWorker knows them and has a client to ask for.
Waits(W) == {a \in W : WURL(a) \in mapped /\ a \in info /\ promise}

CountKept(gone)  == count
CountAfter(gone) == Minus(Cardinality(mapped \cap gone))

\* deleteWorker forgets the workers it is called with.
ForgetNone(W) == {}
Forget(W) == {a \in W : WURL(a) \in mapped}

\* disconnectFromServer for the placeholders of P and the workers of W, up to the
\* first await of each, count apart; ended is what has disposed itself before.
Disconnect(P, W, ended) ==
    LET hit == (worker \cap W) \ Waits(W)
    IN /\ mapped' = mapped \ ({PURL(a) : a \in P} \cup {WURL(a) : a \in W})
       /\ placeholder' = placeholder \ P
       /\ info' = info \ Forget(W)
       /\ deleting' = deleting \cup Waits(W)
       /\ worker' = worker \ hit
       /\ stage' = Disposed(hit \cup ended)

-----------------------------------------------------------------------------
(* Logging in: DheService.getClient, shared by everyone who waits for it.  *)

\* getClient(true): a promise that is there is awaited, otherwise _initClient
\* prompts unless the cache has a client.
Ask ==
    /\ client' = IF client = "none" THEN "login" ELSE client
    /\ promise' = TRUE

\* connectToServer, up to getClient.
Connect(a) ==
    /\ stage[a] = "unused"
    /\ known
    /\ service' = TRUE
    /\ isNew' = [isNew EXCEPT ![a] = ~service]
    /\ Ask
    /\ Move({a}, CASE client = "ready"  -> "got"
                   [] client = "broken" -> "done"
                   [] OTHER             -> "login")
    /\ UNCHANGED <<serverVars, subscribed, mapVars, info, queryVars, deleting, closing>>

\* dheClientCache.set clears _clientPromise while _initClient is still running.
LoginOk ==
    /\ client = "login"
    /\ client' = "ready"
    /\ promise' = FALSE
    /\ stage' = [a \in Attempts |-> CASE stage[a] = "login"   -> "got"
                                      [] stage[a] = "relogin" -> "query"
                                      [] OTHER                -> stage[a]]
    /\ UNCHANGED <<serverVars, service, isNew, subscribed, mapVars, info, queryVars,
                   deleting, closing>>

\* createWorker rejects for each a in A; the mapping of the placeholder stays.
CreationFailsSilently(A) ==
    /\ count' = Minus(Cardinality(A))
    /\ UNCHANGED <<known, isRunning, mapVars, info, deleting, closing>>
CreationFails(A) ==
    /\ count' = Minus(Cardinality(A))
    /\ placeholder' = placeholder \ A
    /\ UNCHANGED <<known, isRunning, worker, mapped, info, deleting, closing>>

\* Login cancelled or refused: getClient answers null and drops the promise.
LoginFail ==
    /\ client = "login"
    /\ client' = "none"
    /\ promise' = FALSE
    /\ Move(At({"login", "relogin"}), "done")
    /\ CreationFails(At({"relogin"}))
    /\ UNCHANGED <<service, isNew, subscribed, queryVars>>

\* The client cannot be created at all: _initClient rejects, and getClient leaves
\* the rejected promise in place.
LoginThrows ==
    /\ client = "login"
    /\ client' = "broken"
    /\ Move(At({"login", "relogin"}), "done")
    /\ CreationFails(At({"relogin"}))
    /\ UNCHANGED <<service, promise, isNew, subscribed, queryVars>>

-----------------------------------------------------------------------------
(* _doConnectToServer, DHE branch.                                         *)

\* The client is there: subscribe, count, put the placeholder in place and ask for
\* a worker, which needs the client again.
BeginWorker(a) ==
    /\ stage[a] = "got"
    /\ subscribed' = (subscribed \/ isNew[a])
    /\ mapped' = mapped \cup {PURL(a)}
    /\ Ask
    /\ IF client = "broken"   \* createWorker rejects at once
       THEN /\ Move({a}, "done")
            /\ UNCHANGED <<count, placeholder>>
       ELSE /\ Move({a}, IF client = "ready" THEN "query" ELSE "relogin")
            /\ count' = IF known THEN count + 1 ELSE 0
            /\ placeholder' = placeholder \cup {a}
    /\ UNCHANGED <<known, isRunning, service, isNew, worker, info, queryVars,
                   deleting, closing>>

\* The query of attempt a is created on the server.
QueryCreated(a) ==
    /\ stage[a] \in {"query", "stranded"}
    /\ query[a] = "none"
    /\ query' = [query EXCEPT ![a] = "running"]
    /\ UNCHANGED <<serverVars, loginVars, stage, mapVars, info, doomed, deleting, closing>>

\* createWorker answers.  If the placeholder is gone the user has cancelled, and the
\* worker is deleted again when there is a client promise to do it with.
WorkerReady(a) ==
    /\ stage[a] = "query"
    /\ query[a] = "running"
    /\ IF a \in placeholder
       THEN /\ info' = info \cup {a}
            /\ mapped' = mapped \cup {WURL(a)}
            /\ Move({a}, "core")
            /\ UNCHANGED doomed
       ELSE /\ doomed' = IF promise THEN doomed \cup {a} ELSE doomed
            /\ Move({a}, "done")
            /\ UNCHANGED <<info, mapped>>
    /\ UNCHANGED <<serverVars, loginVars, placeholder, worker, query, deleting, closing>>

\* createWorker rejects, because the query ends or is cancelled.
WorkerFailsUnheard(a) ==
    /\ stage[a] = "query"
    /\ query[a] # "ended"
    /\ Move({a}, "done")
    /\ CreationFails({a})
    /\ UNCHANGED <<loginVars, queryVars>>
WorkerFails(a) ==
    /\ stage[a] = "query"
    /\ Move({a}, "done")
    /\ CreationFails({a})
    /\ UNCHANGED <<loginVars, queryVars>>

\* A call to the disconnected client may still reject.
StrandedFails(a) ==
    /\ stage[a] = "stranded"
    /\ Move({a}, "done")
    /\ CreationFails({a})
    /\ UNCHANGED <<loginVars, queryVars>>

ListNone(a) == worker
List(a) == worker \cup {a}

\* The login to the worker itself ends, with a client or without one.
CoreClient(a) ==
    /\ stage[a] = "core"
    /\ mapped' = mapped \ {PURL(a)}
    /\ placeholder' = placeholder \ {a}
    /\ \/ /\ query[a] = "running"
          /\ worker' = List(a)
          /\ Move({a}, "session")
       \/ /\ Move({a}, "done")
          /\ UNCHANGED worker
    /\ UNCHANGED <<serverVars, loginVars, info, queryVars, deleting, closing>>

\* initSession answers true.  The count that follows is for the worker's URL, which
\* _serverMap does not hold.
SessionOk(a) ==
    /\ stage[a] = "session"
    /\ query[a] = "running"
    /\ Move({a}, "open")
    /\ UNCHANGED <<serverVars, loginVars, mapVars, info, queryVars, deleting, closing>>

\* It answers false.
SessionFail(a) ==
    /\ stage[a] \in {"session", "aborted"}
    /\ Move({a}, "done")
    /\ worker' = worker \ {a}
    /\ UNCHANGED <<serverVars, loginVars, placeholder, mapped, info, queryVars,
                   deleting, closing>>

-----------------------------------------------------------------------------
(* Disconnecting.                                                          *)

\* The disconnect command on a placeholder.
CancelPlaceholder(a) ==
    /\ a \in placeholder
    /\ Disconnect({a}, {}, {})
    /\ count' = CountAfter({PURL(a)})
    /\ UNCHANGED <<known, isRunning, loginVars, queryVars, closing>>

\* The disconnect command on a worker.
DisconnectWorker(a) ==
    /\ a \in worker
    /\ Disconnect({}, {a}, {})
    /\ count' = CountAfter({WURL(a)})
    /\ UNCHANGED <<known, isRunning, loginVars, queryVars, closing>>

\* The session to a worker ends by itself.
CoreDrop(a) ==
    /\ stage[a] = "open"
    /\ Disconnect({}, {a}, {a})
    /\ count' = CountAfter({WURL(a)})
    /\ UNCHANGED <<known, isRunning, loginVars, queryVars, closing>>

\* The query of a worker ends on the server, and the client reports it.  The service
\* fires onDidWorkerTerminate once or twice (_initClient runs again after the login
\* and adds a second listener): the second call finds the mapping gone.
QueryEnds(a) ==
    /\ query[a] = "running"
    /\ query' = [query EXCEPT ![a] = "ended"]
    /\ IF client = "ready" /\ subscribed /\ a \in info
       THEN /\ \/ Disconnect({}, {a}, {})
               \/ /\ mapped' = mapped \ {WURL(a)}
                  /\ info' = info \ {a}
                  /\ deleting' = deleting \cup Waits({a})
                  /\ worker' = worker \ {a}
                  /\ stage' = Disposed(worker \cap {a})
                  /\ UNCHANGED placeholder
            /\ count' = CountAfter({WURL(a)})
       ELSE UNCHANGED <<count, stage, mapVars, info, deleting>>
    /\ UNCHANGED <<known, isRunning, loginVars, doomed, closing>>

\* The service has deleted the worker, or the client has gone: disconnectFromServer
\* takes the connection from the map and disposes it.
DeletionAnswered(a) ==
    /\ a \in deleting
    /\ deleting' = deleting \ {a}
    /\ \/ query' = [query EXCEPT ![a] = "ended"]
       \/ client # "ready" /\ UNCHANGED query
    /\ worker' = worker \ {a}
    /\ stage' = Disposed(worker \cap {a})
    /\ closing' = [closing EXCEPT !.waits = @ \ {a}]
    /\ UNCHANGED <<serverVars, loginVars, placeholder, mapped, info, doomed>>

\* The deletion is refused: disconnectFromServer rejects, and the connection stays in
\* the map.  disconnectFromDHEServer rejects with it.
DeletionUnanswered(a) ==
    /\ a \in deleting
    /\ deleting' = deleting \ {a}
    /\ UNCHANGED <<serverVars, loginVars, stage, mapVars, info, queryVars, closing>>
DeletionRefused(a) ==
    /\ a \in deleting
    /\ deleting' = deleting \ {a}
    /\ closing' = IF a \in closing.waits THEN Calm ELSE closing
    /\ UNCHANGED <<serverVars, loginVars, stage, mapVars, info, queryVars>>

\* The deletion that WorkerReady asked for ends, one way or the other.
DoomedDeleted(a) ==
    /\ a \in doomed
    /\ doomed' = doomed \ {a}
    /\ \/ query' = [query EXCEPT ![a] = "ended"]
       \/ UNCHANGED query
    /\ UNCHANGED <<serverVars, loginVars, stage, mapVars, info, deleting, closing>>

\* disconnectFromDHEServer goes through the URLs mapped at its start, one after the
\* other; each pass of the loop is a step.
DisconnectDHE ==
    /\ known
    /\ ~closing.active
    /\ closing' = [active |-> TRUE, todo |-> mapped, waits |-> {}]
    /\ UNCHANGED <<serverVars, loginVars, stage, mapVars, info, queryVars, deleting>>

SweepNext(a) ==
    /\ closing.active
    /\ closing.waits = {}
    /\ \/ /\ PURL(a) \in closing.todo
          /\ Disconnect({a}, {}, {})
          /\ count' = CountAfter({PURL(a)})
          /\ closing' = [closing EXCEPT !.todo = @ \ {PURL(a)}]
       \/ /\ WURL(a) \in closing.todo
          /\ Disconnect({}, {a}, {})
          /\ count' = CountAfter({WURL(a)})
          /\ closing' = [closing EXCEPT !.todo = @ \ {WURL(a)}, !.waits = Waits({a})]
    /\ UNCHANGED <<known, isRunning, loginVars, queryVars>>

\* The loop is over: the client is disconnected and leaves its cache.  Whoever waits
\* for a query on it hears no more of that query.
SweepEnd ==
    /\ closing.active
    /\ closing.todo = {} /\ closing.waits = {}
    /\ closing' = Calm
    /\ IF client = "ready"
       THEN client' = "none" /\ promise' = FALSE /\ Move(At({"query"}), "stranded")
       ELSE UNCHANGED <<client, promise, stage>>
    /\ count' = 0
    /\ UNCHANGED <<known, isRunning, service, isNew, subscribed, mapVars, info,
                   queryVars, deleting>>

-----------------------------------------------------------------------------
(* The configuration and the status of the server.                         *)

\* loadServerConfig, with the server in the new configuration or not: a connection
\* whose server is not configured is disconnected, and one whose mapping is gone
\* passes for its own server.
LoadConfig(present) ==
    LET P == IF present THEN {} ELSE placeholder
        W == IF present THEN {a \in worker : WURL(a) \notin mapped} ELSE worker
    IN /\ known' = present
       /\ isRunning' = (isRunning /\ present)
       /\ count' = IF present THEN count ELSE 0
       /\ Disconnect(P, W, {})
       /\ UNCHANGED <<loginVars, queryVars, closing>>

\* updateStatus finds that the server has stopped: disconnectFromServer gets the
\* server's own URL, which is not the URL of any connection.
ServerStopped ==
    /\ known /\ isRunning
    /\ isRunning' = FALSE
    /\ count' = Minus(1)
    /\ UNCHANGED <<known, loginVars, stage, mapVars, info, queryVars, deleting, closing>>

ServerStarted ==
    /\ known /\ ~isRunning
    /\ isRunning' = TRUE
    /\ UNCHANGED <<known, count, loginVars, stage, mapVars, info, queryVars, deleting, closing>>

-----------------------------------------------------------------------------
Login == LoginOk \/ LoginFail \/ LoginThrows

Progress(a) ==
    \/ BeginWorker(a) \/ WorkerReady(a) \/ WorkerFails(a)
    \/ CoreClient(a) \/ SessionOk(a) \/ SessionFail(a)

Deletion(a) == DeletionAnswered(a) \/ DeletionRefused(a) \/ DoomedDeleted(a)

Next ==
    \/ Login \/ DisconnectDHE \/ SweepEnd
    \/ \E a \in Attempts :
         \/ Connect(a) \/ Progress(a) \/ Deletion(a)
         \/ QueryCreated(a) \/ StrandedFails(a)
         \/ CancelPlaceholder(a) \/ DisconnectWorker(a) \/ CoreDrop(a)
         \/ QueryEnds(a) \/ SweepNext(a)
    \/ \E present \in BOOLEAN : LoadConfig(present)
    \/ ServerStopped \/ ServerStarted

Spec == Init /\ [][Next]_vars

\* Logins end, the server answers a connected client, and disconnectFromDHEServer
\* goes on.  A call on a client that is gone may stay without an answer.
Fairness ==
    /\ WF_vars(Login)
    /\ \A a \in Attempts : /\ WF_vars(Progress(a))
                          /\ WF_vars(a \in closing.waits /\ Deletion(a))
    /\ WF_vars(SweepEnd \/ \E a \in Attempts : SweepNext(a))

FairSpec == Spec /\ Fairness

-----------------------------------------------------------------------------
(* connectionCount never promises more than there is: each connection counted  *)
(* has a placeholder or a worker mapped to the server, whatever is cancelled,  *)
(* refused or stopped twice.                                                   *)
CountNeverOverstates ==
    count <= Cardinality({a \in Attempts : {PURL(a), WURL(a)} \cap mapped # {}})

(* An established connection to a worker is in _connectionMap until it is       *)
(* disposed, so the tree can show it and the user can end it.                  *)
OpenIsListed == At({"session", "open"}) \subseteq worker

(* A placeholder stands for an attempt that is under way and nothing else, it   *)
(* never stands next to its worker, and it can be cancelled with effect on the *)
(* count because it is mapped to its server.                                   *)
PlaceholderIsPending ==
    \A a \in placeholder :
        /\ stage[a] \in {"relogin", "query", "stranded", "core"}
        /\ a \notin worker
        /\ PURL(a) \in mapped

(* The worker's two owners agree: DheService can delete exactly the workers     *)
(* that ServerManager can still trace to the server.                           *)
OwnersAgree == info = {a \in Attempts : WURL(a) \in mapped}

(* What _connectionMap holds of an attempt is its placeholder, once, and then  *)
(* its worker, once, and nothing comes back: see WorkerEntries.                *)
Entry == [a \in Attempts |->
    IF a \in worker THEN "worker" ELSE IF a \in placeholder THEN "placeholder" ELSE "none"]
Turn == [a \in Attempts |->
    CASE stage[a] \in {"unused", "login", "got"}                -> "placeholder"
      [] stage[a] \in {"relogin", "query", "stranded", "core"} -> "worker"
      [] OTHER                                                 -> "over"]

Entries == INSTANCE WorkerEntries WITH entry <- Entry, turn <- Turn

ImplementsEntries == Entries!Spec

(* Every placeholder goes in the end: a worker takes its place, or the attempt  *)
(* fails or has been cancelled.  Only disconnectFromDHEServer can leave one     *)
(* behind: that of a worker asked for while it awaited another's deletion.     *)
PlaceholdersGo ==
    \A a \in Attempts :
        a \in placeholder ~> a \notin placeholder \/ stage[a] = "stranded"

(* "This including all workers plus the primary DHE client connection":         *)
(* disconnectFromDHEServer ends, whatever connects, ends or is removed while it *)
(* awaits the deletion of one worker after another.                            *)
ClosingEnds == closing.active ~> ~closing.active

-----------------------------------------------------------------------------
(* What the code does not keep.                                            *)

(* "Handle workers stopped externally (i.e. web-client Query Monitor)": once a  *)
(* connection to a worker is established, and nobody is on the way to          *)
(* subscribing, ServerManager listens to onDidWorkerTerminate.                 *)
TerminationIsHandled ==
    At({"open"}) # {} /\ At({"login", "got"}) = {} => subscribed

(* "If the worker finished creating, but there is no placeholder connection,    *)
(* this indicates that the user cancelled the creation before it was ready.  In *)
(* this case, dispose of the worker": an attempt without a placeholder never    *)
(* becomes a connection.                                                       *)
CancelIsFinal ==
    [][\A a \in Attempts :
         stage[a] \in {"relogin", "query", "core"} /\ a \notin placeholder =>
            stage'[a] # "session"]_vars
=============================================================================
