----------------------------- MODULE RunTargets -----------------------------
(***************************************************************************)
(* Which connection code runs on: ConnectionController.getOrCreate-          *)
(* Connection, ExtensionController.onRunCode and the MCP tools that name a   *)
(* server or a connection (mcp/tools, mcp/utils/serverUtils.ts).  Between    *)
(* the steps of a run the user, other runs and agents connect, disconnect   *)
(* and choose connections for the same documents.                          *)
(***************************************************************************)
EXTENDS Sequences, FiniteSets, SequencesExt

CONSTANTS
    Connections,    \* connections to Core servers and to workers of Enterprise servers
    Enterprise,     \* Enterprise servers; a Core server has the URL of its connection
    ServerOf,       \* the server of a connection
    ConsoleType,    \* the language of a connection
    Documents,
    LanguageOf,     \* the language of a document
    Runs,
    None

ASSUME RunTargetsAssumption ==
    /\ DOMAIN ServerOf = Connections /\ \A c \in Connections : ServerOf[c] \in Enterprise \cup {c}
    /\ None \notin Connections \cup Enterprise

VARIABLES
    connections,    \* _connectionMap, in its order
    editor,         \* _uriConnectionsMap
    run             \* the runs of code, of users and of tools

targetVars == <<connections, editor, run>>

Urls == Connections \cup Enterprise
NoRun == [at |-> "none", tool |-> None, document |-> None, url |-> None, first |-> None, supporting |-> <<>>, on |-> None]

TargetsInit ==
    /\ connections = <<>>
    /\ editor = [d \in Documents |-> None]
    /\ run = [r \in Runs |-> NoRun]

-----------------------------------------------------------------------------
(* What the server manager answers                                         *)

\* A connection has the URL of its own or, on an Enterprise server, that of the server.
HasUrl(c, url) == url \in {None, c, ServerOf[c]}
getConnections(url) == SelectSeq(connections, LAMBDA c : HasUrl(c, url))

\* Where among connections the first with a URL and one of the languages is, 0 if there is none.
FirstConnection(cs, url, languages) ==
    SelectInSeq(cs, LAMBDA c : HasUrl(c, url) /\ ConsoleType[c] \in languages)

\* Servers that have no connection, and those that the user may choose: an Enterprise server
\* can have several.
availableServers == Range(ServerOf) \ {ServerOf[c] : c \in Range(connections)}

-----------------------------------------------------------------------------
(* Runs of the editor: onRunCode, getOrCreateConnection, connectEditor      *)

Goes(r, to) == run' = [run EXCEPT ![r].at = to]
GoesOn(r, to, c) == run' = [run EXCEPT ![r].at = to, ![r].on = c, ![r].supporting = <<>>]
Ends(r) == run' = [run EXCEPT ![r] = NoRun]
At(r, stage) == run[r].at = stage
Language(r) == LanguageOf[run[r].document]

onRunCode(r) ==
    /\ At(r, "none")
    /\ \E d \in Documents : run' = [run EXCEPT ![r].at = "editor", ![r].document = d]
    /\ UNCHANGED <<connections, editor>>

\* A faulty variant of the operator it stands before.
AnyConnectionIsKept(d, url) == editor[d] # None
KeepsConnection(d, url) == editor[d] # None /\ url \in {None, editor[d]}

\* The editor is shown.  It keeps its connection unless another is asked for.
EditorConnection(r) ==
    LET d == run[r].document IN
    /\ At(r, "editor")
    /\ IF KeepsConnection(d, run[r].url) THEN GoesOn(r, "running", editor[d])
       ELSE run' = [run EXCEPT ![r].at = "supporting", ![r].supporting = getConnections(run[r].url)]
    /\ UNCHANGED <<connections, editor>>

\* The connections answered which languages they support: one of them, or a new connection, is
\* chosen, by the user where there is a choice.
ChoosesConnection(r) ==
    LET cs == run[r].supporting
        url == run[r].url
        i == FirstConnection(cs, url, {Language(r)})
    IN /\ At(r, "supporting")
       /\ \/ url # None /\ i # 0 /\ GoesOn(r, "binding", cs[i])
          \/ url \in availableServers /\ i = 0 /\ GoesOn(r, "connecting", url)
          \/ /\ url = None
             /\ \/ \E c \in Range(cs) : ConsoleType[c] = Language(r) /\ GoesOn(r, "binding", c)
                \/ \E s \in availableServers \cup Enterprise : GoesOn(r, "connecting", s)
       /\ UNCHANGED <<connections, editor>>

\* No server is available, the user cancels, or no connection can be made.
NoConnection(r) ==
    /\ run[r].at \in {"supporting", "connecting"}
    /\ Ends(r)
    /\ UNCHANGED <<connections, editor>>

\* A connection is made to a Core server that has none, or to a new worker for the language.
connectToServer(r) ==
    LET s == run[r].on IN
    /\ At(r, "connecting")
    /\ \/ /\ s \in Range(connections)
          /\ Goes(r, "binding") /\ UNCHANGED connections
       \/ \E c \in Connections \ Range(connections) :
            /\ ServerOf[c] = s /\ (s \in Enterprise => ConsoleType[c] = Language(r))
            /\ connections' = Append(connections, c)
            /\ GoesOn(r, "binding", c)
    /\ UNCHANGED editor

\* The connection answered whether it supports the language; the editor's connection is set
\* and, in the same turn, read again.
setEditorConnection(r) ==
    LET c == run[r].on IN
    /\ At(r, "binding")
    /\ IF ConsoleType[c] = Language(r)
       THEN editor' = [editor EXCEPT ![run[r].document] = c] /\ Goes(r, "running")
       ELSE Ends(r) /\ UNCHANGED editor
    /\ UNCHANGED connections

\* The code has run, or runCode refused its language.
RunDone(r) ==
    /\ At(r, "running")
    /\ Ends(r)
    /\ UNCHANGED <<connections, editor>>

-----------------------------------------------------------------------------
(* Tools                                                                   *)

Found(r, c) == run' = [run EXCEPT ![r].at = "target", ![r].first = c]

\* A tool is called with a document, or a text in its language, and a URL.
CallTool(r) ==
    /\ At(r, "none")
    /\ \E d \in Documents, url \in Urls, tool \in {"uri", "text"} :
         run' = [run EXCEPT ![r].at = "called", ![r].tool = tool, ![r].document = d, ![r].url = url]
    /\ UNCHANGED <<connections, editor>>

\* Tools take the first connection of the URL, for which they return the format of panel
\* URLs; only to Core servers do they connect.
getFirstConnectionOrCreate(r) ==
    LET i == FirstConnection(connections, run[r].url, Range(ConsoleType)) IN
    /\ At(r, "called")
    /\ IF i # 0 THEN Found(r, connections[i])
       ELSE IF run[r].url \in Range(ServerOf) \ Enterprise THEN Goes(r, "connects") ELSE Ends(r)
    /\ UNCHANGED <<connections, editor>>

\* They await the command that connects, which may fail, and look for the connection again.
execConnectToServer(r) ==
    LET url == run[r].url IN
    /\ At(r, "connects")
    /\ \/ UNCHANGED connections
       \/ url \notin Range(connections) /\ connections' = Append(connections, url)
    /\ IF url \in Range(connections') THEN Found(r, url) ELSE Ends(r)
    /\ UNCHANGED editor

\* runCodeFromUri goes on with the command that runs a document, with the URL it was given.
runCodeFromUri(r) ==
    /\ At(r, "target") /\ run[r].tool = "uri"
    /\ run' = [run EXCEPT ![r].at = "editor", ![r].first = None]
    /\ UNCHANGED <<connections, editor>>

\* runCode and the tools for tables, variables and panels use the connection they found.
runCode(r) ==
    /\ At(r, "target") /\ run[r].tool = "text"
    /\ GoesOn(r, "running", run[r].first)
    /\ UNCHANGED <<connections, editor>>

-----------------------------------------------------------------------------
(* Users and agents                                                        *)

onConnectToServer(c) ==
    /\ c \notin Range(connections)
    /\ connections' = Append(connections, c)
    /\ UNCHANGED <<editor, run>>

\* A connection ends, and is no editor's any more.
disconnectFromServer(c) ==
    /\ c \in Range(connections)
    /\ connections' = SelectSeq(connections, LAMBDA d : d # c)
    /\ editor' = [d \in Documents |-> IF editor[d] = c THEN None ELSE editor[d]]
    /\ UNCHANGED run

onDisconnectEditor(d) ==
    /\ editor[d] # None
    /\ editor' = [editor EXCEPT ![d] = None]
    /\ UNCHANGED <<connections, run>>

TargetsNext ==
    \/ \E r \in Runs :
         \/ onRunCode(r) \/ EditorConnection(r) \/ ChoosesConnection(r) \/ NoConnection(r)
         \/ connectToServer(r) \/ setEditorConnection(r) \/ RunDone(r)
         \/ CallTool(r) \/ getFirstConnectionOrCreate(r) \/ execConnectToServer(r)
         \/ runCodeFromUri(r) \/ runCode(r)
    \/ \E c \in Connections : onConnectToServer(c) \/ disconnectFromServer(c)
    \/ \E d \in Documents : onDisconnectEditor(d)

TargetsSpec == TargetsInit /\ [][TargetsNext]_targetVars

-----------------------------------------------------------------------------
(* Properties.                                                             *)

\* A run that is asked for with a URL executes on the connection, or on a worker of the
\* server, that the URL names, however the connection of the document changed on the way
\* (getOrCreateConnection sets the document's connection and reads it again).
RunsWhereAsked ==
    \A r \in Runs : (At(r, "running") /\ run[r].url # None) =>
        run[r].url \in {run[r].on, ServerOf[run[r].on]}

=============================================================================
