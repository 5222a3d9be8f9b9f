---------------------------- MODULE WorkerQueries ----------------------------
(***************************************************************************)
(* The queries that the workers of an Enterprise server are: DheService.     *)
(* createWorker with the functions of dh/dhe.ts.  A query is created by the  *)
(* extension itself or, where the server has the page, in CreateQueryView-   *)
(* Provider's view; its status reaches the client in events.  EnterpriseWorkers *)
(* has what follows a worker's creation and the loss of the client.        *)
(***************************************************************************)
EXTENDS Naturals

CONSTANTS
    Creations,      \* calls of createWorker, each with its tag
    MaxVersion,     \* bound: names the page is given for one creation
    NoQuery

ASSUME WorkerQueriesAssumption == MaxVersion \in Nat \ {0}

\* A query has the name of its tag or, with a version above 1, of the tag and the version.
Queries == Creations \X (1 .. MaxVersion)
Terminal == {"terminal"}
Gone == {"none", "deleted"}

VARIABLES
    isUISupported,
    status,         \* of the queries, on the server
    known,          \* the same in the client's known configurations
    deletions,       \* queries whose deletion has been asked for
    creation,       \* how far the calls of createWorker are
    serial,         \* the query a call got
    tagVersion,     \* the versions the page was given
    startupFailureStatus,
    _querySerialSet,
    _workerInfoMap

workerVars == <<isUISupported, status, known, deletions, creation, serial, tagVersion,
                startupFailureStatus, _querySerialSet, _workerInfoMap>>

WorkersInit ==
    /\ isUISupported \in BOOLEAN
    /\ status = [q \in Queries |-> "none"] /\ known = status
    /\ deletions = {}
    /\ creation = [c \in Creations |-> "none"]
    /\ serial = [c \in Creations |-> NoQuery]
    /\ tagVersion = [c \in Creations |-> 0]
    /\ startupFailureStatus = [c \in Creations |-> FALSE]
    /\ _querySerialSet = {} /\ _workerInfoMap = {}

-----------------------------------------------------------------------------
(* A worker is waited for                                                  *)

\* What handleQueryInfo makes of a status.
handleQueryInfo(s) ==
    IF s = "running" THEN "worker" ELSE IF s \in Terminal THEN "failed" ELSE "waiting"

\* The creations in cs, which all wait for their queries, hear of the statuses in news.
Hear(cs, news) ==
    LET heard == [c \in Creations |-> IF c \in cs THEN handleQueryInfo(news[serial'[c]]) ELSE creation[c]]
        Are(stage) == {serial'[c] : c \in {d \in cs : heard[d] = stage}}
    IN /\ creation' = heard
       /\ _workerInfoMap' = _workerInfoMap \cup Are("worker")
       /\ deletions' = deletions \cup Are("failed")

\* The creation got its query, which is looked up before its events are listened to.  A faulty
\* variant stands before the operator.
ListensOnly(c, q) ==
    /\ serial' = [serial EXCEPT ![c] = q]
    /\ _querySerialSet' = _querySerialSet \cup {q}
    /\ creation' = [creation EXCEPT ![c] = "waiting"]
    /\ UNCHANGED <<_workerInfoMap, deletions>>
getWorkerInfoFromQuery(c, q) ==
    /\ serial' = [serial EXCEPT ![c] = q]
    /\ _querySerialSet' = _querySerialSet \cup {q}
    /\ Hear({c}, known)

-----------------------------------------------------------------------------
(* Creation                                                                *)

createWorker(c) ==
    /\ creation[c] = "none"
    /\ creation' = [creation EXCEPT ![c] = IF isUISupported THEN "page" ELSE "asking"]
    /\ UNCHANGED <<isUISupported, status, known, deletions, serial, tagVersion, startupFailureStatus,
                   _querySerialSet, _workerInfoMap>>

\* The server's configuration has been asked for; no engine fits, the query is created, or that
\* fails.  It is started without waiting for it.
createInteractiveConsoleQuery(c) ==
    /\ creation[c] = "asking"
    /\ \/ /\ creation' = [creation EXCEPT ![c] = "failed"]
          /\ UNCHANGED status
       \/ /\ creation' = [creation EXCEPT ![c] = "created"]
          /\ status' = [status EXCEPT ![<<c, 1>>] = "created"]
    /\ UNCHANGED <<isUISupported, known, deletions, serial, tagVersion, startupFailureStatus,
                   _querySerialSet, _workerInfoMap>>

QueryCreated(c) ==
    /\ creation[c] = "created"
    /\ getWorkerInfoFromQuery(c, <<c, 1>>)
    /\ UNCHANGED <<isUISupported, status, known, tagVersion, startupFailureStatus>>

\* The page asks for a name, creates a query with it, and may cancel it and start again.
settingsRequest(c) ==
    /\ creation[c] = "page" /\ tagVersion[c] < MaxVersion
    /\ tagVersion' = [tagVersion EXCEPT ![c] = @ + 1]
    /\ UNCHANGED <<isUISupported, status, known, deletions, creation, serial, startupFailureStatus,
                   _querySerialSet, _workerInfoMap>>

PageCreatesQuery(c) ==
    LET q == <<c, tagVersion[c]>> IN
    /\ creation[c] = "page" /\ tagVersion[c] > 0 /\ status[q] = "none"
    /\ status' = [status EXCEPT ![q] = "created"]
    /\ UNCHANGED <<isUISupported, known, deletions, creation, serial, tagVersion, startupFailureStatus,
                   _querySerialSet, _workerInfoMap>>

PageDeletesQuery(c) ==
    LET q == <<c, tagVersion[c]>> IN
    /\ creation[c] = "page" /\ tagVersion[c] > 0 /\ status[q] \notin Gone
    /\ deletions' = deletions \cup {q}
    /\ UNCHANGED <<isUISupported, status, known, creation, serial, tagVersion, startupFailureStatus,
                   _querySerialSet, _workerInfoMap>>

workerCreated(c) ==
    LET q == <<c, tagVersion[c]>> IN
    /\ creation[c] = "page" /\ tagVersion[c] > 0 /\ status[q] # "none"
    /\ getWorkerInfoFromQuery(c, q)
    /\ UNCHANGED <<isUISupported, status, known, tagVersion, startupFailureStatus>>

\* The query of the unversioned tag, if the client knows it.
getSerialFromTagId(c) == {q \in {<<c, 1>>} : known[q] \notin Gone}

\* The view is closed, by the user, for another creation, or as the query ended in it.
CreationCancelled(c) ==
    /\ creation[c] = "page"
    /\ creation' = [creation EXCEPT ![c] = IF startupFailureStatus[c] THEN "failed" ELSE "cancelled"]
    /\ deletions' = deletions \cup getSerialFromTagId(c)
    /\ UNCHANGED <<isUISupported, status, known, serial, tagVersion, startupFailureStatus,
                   _querySerialSet, _workerInfoMap>>

deleteWorker(c) ==
    /\ creation[c] = "worker" /\ serial[c] \in _workerInfoMap
    /\ _querySerialSet' = _querySerialSet \ {serial[c]}
    /\ _workerInfoMap' = _workerInfoMap \ {serial[c]}
    /\ deletions' = deletions \cup {serial[c]}
    /\ UNCHANGED <<isUISupported, status, known, creation, serial, tagVersion, startupFailureStatus>>

-----------------------------------------------------------------------------
(* The server                                                              *)

\* A query starts, runs and ends; it is deleted when asked for, or by its owner elsewhere.
QueryGoesOn(q) ==
    /\ \/ status[q] = "created" /\ status' = [status EXCEPT ![q] = "running"]
       \/ status[q] \in {"created", "running"} /\ status' = [status EXCEPT ![q] = "terminal"]
       \/ status[q] \notin Gone /\ status' = [status EXCEPT ![q] = "deleted"]
    /\ UNCHANGED <<isUISupported, known, deletions, creation, serial, tagVersion, startupFailureStatus,
                   _querySerialSet, _workerInfoMap>>

\* An event tells the client of a status; a deletion has an event of its own, which nobody hears.
ConfigUpdated(q) ==
    LET updated == status[q] \notin Gone
        news == [known EXCEPT ![q] = status[q]]
        Starting(c) == creation[c] \in {"page", "asking", "created"} /\ q[1] = c
    IN /\ known[q] # status[q]
       /\ known' = news
       /\ UNCHANGED serial
       /\ startupFailureStatus' = [c \in Creations |->
            startupFailureStatus[c] \/ (Starting(c) /\ updated /\ status[q] \in Terminal)]
       /\ Hear({c \in Creations : updated /\ creation[c] = "waiting" /\ serial[c] = q}, news)
       /\ UNCHANGED <<isUISupported, status, tagVersion, _querySerialSet>>

WorkersNext ==
    \/ \E c \in Creations :
         \/ createWorker(c) \/ createInteractiveConsoleQuery(c) \/ QueryCreated(c)
         \/ settingsRequest(c) \/ PageCreatesQuery(c) \/ PageDeletesQuery(c) \/ workerCreated(c)
         \/ CreationCancelled(c) \/ deleteWorker(c)
    \/ \E q \in Queries : QueryGoesOn(q) \/ ConfigUpdated(q)

WorkersSpec == WorkersInit /\ [][WorkersNext]_workerVars

-----------------------------------------------------------------------------
(* Properties.                                                             *)

\* No creation waits for a query that the client knows to run or to have failed, whether it
\* learnt that before or after the creation listened (getWorkerInfoFromQuery looks up the query
\* first); and a query whose creation failed is deleted.
KnownQueriesAreHandled ==
    \A c \in Creations :
        /\ creation[c] = "waiting" => known[serial[c]] \notin {"running"} \cup Terminal
        /\ creation[c] = "failed" /\ serial[c] # NoQuery => serial[c] \in deletions

=============================================================================
