----------------------------- MODULE McpProofs ------------------------------
(***************************************************************************)
(* Proofs about the tools that read tables, the life cycle of the MCP        *)
(* server, the connections that runs are made on, the errors of a run and   *)
(* what agents are told of them, for any number of calls, rows, pages,      *)
(* servers, ports, updates, connections, runs, lines and documents.        *)
(***************************************************************************)
EXTENDS TableTools, McpLifecycle, RunTargets, ImportHints, RunDiagnostics,
        FiniteSetTheorems, WellFoundedInduction, TLAPS

-----------------------------------------------------------------------------
(* TableTools: the agent that pages through a table                        *)

Stages == {"none", "answered", "connecting", "panel URL", "connection", "variable", "table", "open"}
CallRecords ==
    [at : Stages, tool : TableTools \cup OtherTools \cup {"none"}, offset : Nat, limit : Nat,
     totalRows : Nat, ok : BOOLEAN]

ToolsTypeOK ==
    /\ up \in BOOLEAN /\ size \in Nat
    /\ call \in [Calls -> CallRecords]
    /\ page \in [offset : Nat, seen : SUBSET Nat, more : BOOLEAN, first : Nat]

\* The agent's call is for the next page, and tables do not shrink.
PagerGoesOn ==
    LET mine == call[Pager] IN
    /\ mine.at \notin {"none", "answered"} =>
         page.more /\ mine.tool = "getTableData" /\ mine.offset = page.offset
    /\ mine.at = "open" => mine.totalRows <= size

\* As long as the agent is told of more, it has seen all rows before its next page.
SeenSoFar == page.more => \A i \in Nat : i < page.offset => i \in page.seen

ToolsInv == ToolsTypeOK /\ PagerGoesOn /\ SeenSoFar /\ PagesCoverTable

\* The agent's page is answered: what it has seen reaches up to the next page, or, when it is
\* told that there is no more, to the last of the rows there were.
LEMMA PageExtends ==
    ASSUME ToolsInv, getTablePage(Pager), up
    PROVE  /\ page' \in [offset : Nat, seen : SUBSET Nat, more : BOOLEAN, first : Nat]
           /\ SeenSoFar'
           /\ PagesCoverTable'
<1> DEFINE offset == call[Pager].offset
           endRow == offset + call[Pager].limit - 1
           rows == call[Pager].totalRows
           data == {i \in offset .. endRow : i < size}
<1>1. /\ Pager \in Calls /\ size \in Nat
      /\ call[Pager] \in CallRecords
      /\ page \in [offset : Nat, seen : SUBSET Nat, more : BOOLEAN, first : Nat]
  BY TableToolsAssumption DEF ToolsInv, ToolsTypeOK
<1>2. /\ offset \in Nat /\ endRow \in Int /\ endRow + 1 \in Nat /\ rows \in Nat
  BY <1>1 DEF CallRecords
<1>3. /\ page.more /\ offset = page.offset /\ rows <= size
  BY DEF getTablePage, Is, ToolsInv, PagerGoesOn
<1>4. page' = [offset |-> endRow + 1, seen |-> page.seen \cup data, more |-> (endRow < rows - 1),
               first |-> rows]
  BY DEF getTablePage, hasMore
<1>5. \A i \in Nat : i < offset => i \in page.seen
  BY <1>3 DEF ToolsInv, SeenSoFar
<1> HIDE DEF offset, endRow, rows
<1>6. page' \in [offset : Nat, seen : SUBSET Nat, more : BOOLEAN, first : Nat]
  BY <1>1, <1>2, <1>4
<1>7. \A i \in Nat : (i < endRow + 1 /\ i < size) => i \in page'.seen
  BY <1>1, <1>2, <1>4, <1>5
<1>8. SeenSoFar'
  <2>1. ASSUME page'.more PROVE endRow + 1 <= size /\ page'.offset = endRow + 1
    <3>1. page'.more = (endRow < rows - 1) /\ page'.offset = endRow + 1
      BY <1>4, Zenon
    <3>2. endRow < rows - 1
      BY <2>1, <3>1, Zenon
    <3> QED BY <1>1, <1>2, <1>3, <3>1, <3>2
  <2>2. ASSUME page'.more, NEW i \in Nat, i < page'.offset PROVE i \in page'.seen
    BY <1>1, <1>2, <1>7, <2>1, <2>2
  <2> QED BY <2>2 DEF SeenSoFar
<1>9. PagesCoverTable'
  BY <1>1, <1>2, <1>3, <1>4, <1>7 DEF PagesCoverTable
<1> QED BY <1>6, <1>8, <1>9

\* A call that reaches another stage, or is answered without a page.
LEMMA CallGoesOn ==
    ASSUME ToolsInv, NEW c \in Calls, NEW stage \in Stages \ {"none", "answered", "open"},
           call[c].at \notin {"none", "answered"}, Reaches(c, stage), up' \in BOOLEAN, size' = size
    PROVE  ToolsInv'
BY TableToolsAssumption DEF ToolsInv, ToolsTypeOK, PagerGoesOn, SeenSoFar, PagesCoverTable, Reaches, CallRecords

\* A call that is answered without a page keeps the invariant.
LEMMA CallAnswered ==
    ASSUME ToolsInv, NEW c \in Calls, NEW success \in BOOLEAN, Answered(c, success), page' = page,
           up' \in BOOLEAN, size' = size
    PROVE  ToolsInv'
<1>1. call' \in [Calls -> CallRecords]
  BY DEF ToolsInv, ToolsTypeOK, Answered, CallRecords, NoCall, Stages
<1>2. call'[Pager] = call[Pager] \/ call'[Pager].at = "answered"
  BY TableToolsAssumption DEF ToolsInv, ToolsTypeOK, Answered, NoCall
<1> QED BY <1>1, <1>2 DEF ToolsInv, ToolsTypeOK, PagerGoesOn, SeenSoFar, PagesCoverTable

\* Every step of a call, and what happens to its connection and table, keeps the invariant.
THEOREM ToolsInvInductive == ToolsInv /\ [TableToolsNext]_toolVars => ToolsInv'
<1> SUFFICES ASSUME ToolsInv, [TableToolsNext]_toolVars PROVE ToolsInv'
  OBVIOUS
<1>0. up \in BOOLEAN /\ size \in Nat
  BY DEF ToolsInv, ToolsTypeOK
<1>1. ASSUME NEW c \in Calls, CallTableTool(c) PROVE ToolsInv'
  <2>1. PICK tool \in TableTools \cup OtherTools, limit \in Limits :
          /\ c = Pager => tool = "getTableData" /\ page.more
          /\ call' = [call EXCEPT ![c] = [NoCall EXCEPT !.at = "connecting", !.tool = tool,
                        !.limit = limit, !.offset = IF c = Pager THEN page.offset ELSE 0]]
    BY <1>1 DEF CallTableTool
  <2>2. page' = page /\ UNCHANGED <<up, size>>
    BY <1>1 DEF CallTableTool
  <2>3. call' \in [Calls -> CallRecords]
    BY <2>1, TableToolsAssumption DEF ToolsInv, ToolsTypeOK, CallRecords, NoCall, Stages
  <2>4. PagerGoesOn'
    BY <2>1, <2>2, TableToolsAssumption DEF ToolsInv, ToolsTypeOK, PagerGoesOn, NoCall
  <2> QED BY <2>2, <2>3, <2>4 DEF ToolsInv, ToolsTypeOK, SeenSoFar, PagesCoverTable
<1>2. ASSUME NEW c \in Calls, listConnections(c) PROVE ToolsInv'
  BY <1>0, <1>2, CallAnswered DEF listConnections, Answered
<1>3. ASSUME NEW c \in Calls, ConnectionFor(c) PROVE ToolsInv'
  <2>1. call[c].at \notin {"none", "answered"} /\ size' = size /\ up' \in BOOLEAN
    BY <1>0, <1>3 DEF ConnectionFor, Is
  <2>2. CASE Reaches(c, "panel URL")
    BY <2>1, <2>2, CallGoesOn DEF Stages
  <2>3. CASE Refuses(c)
    BY <2>1, <2>3, CallAnswered DEF Refuses
  <2> QED BY <1>3, <2>2, <2>3 DEF ConnectionFor
<1>4. ASSUME NEW c \in Calls, getPanelUrlFormat(c) PROVE ToolsInv'
  <2>1. call[c].at \notin {"none", "answered"} /\ size' = size /\ up' \in BOOLEAN
    BY <1>0, <1>4 DEF getPanelUrlFormat, Is
  <2>2. CASE Reaches(c, "connection")
    BY <2>1, <2>2, CallGoesOn DEF Stages
  <2>3. CASE Answered(c, TRUE) /\ UNCHANGED page
    BY <2>1, <2>3, CallAnswered
  <2> QED BY <1>4, <2>2, <2>3 DEF getPanelUrlFormat
<1>5. ASSUME NEW c \in Calls, getConnection(c) PROVE ToolsInv'
  <2>1. call[c].at \notin {"none", "answered"} /\ size' = size /\ up' \in BOOLEAN
    BY <1>0, <1>5 DEF getConnection, Is
  <2>2. CASE Reaches(c, "variable")
    BY <2>1, <2>2, CallGoesOn DEF Stages
  <2>3. CASE Refuses(c)
    BY <2>1, <2>3, CallAnswered DEF Refuses
  <2> QED BY <1>5, <2>2, <2>3 DEF getConnection
<1>6. ASSUME NEW c \in Calls, fetchVariableDefinitionByPredicate(c) PROVE ToolsInv'
  <2>1. call[c].at \notin {"none", "answered"} /\ size' = size /\ up' \in BOOLEAN
    BY <1>0, <1>6 DEF fetchVariableDefinitionByPredicate, Is
  <2>2. CASE Reaches(c, "table")
    BY <2>1, <2>2, CallGoesOn DEF Stages
  <2>3. CASE Refuses(c)
    BY <2>1, <2>3, CallAnswered DEF Refuses
  <2> QED BY <1>6, <2>2, <2>3 DEF fetchVariableDefinitionByPredicate
<1>7. ASSUME NEW c \in Calls, getObject(c) PROVE ToolsInv'
  <2>1. call[c].at = "table" /\ UNCHANGED <<up, size>>
    BY <1>7 DEF getObject, Is
  <2>2. CASE call' = [call EXCEPT ![c].at = "open", ![c].totalRows = size] /\ UNCHANGED page
    <3>1. call' \in [Calls -> CallRecords]
      <4>1. call \in [Calls -> CallRecords] /\ call[c] \in CallRecords /\ size \in Nat
        BY <1>0, <1>7 DEF ToolsInv, ToolsTypeOK
      <4>2. [call[c] EXCEPT !.at = "open", !.totalRows = size] \in CallRecords
        BY <4>1 DEF CallRecords, Stages
      <4>3. call' = [call EXCEPT ![c] = [call[c] EXCEPT !.at = "open", !.totalRows = size]]
        BY <1>7, <2>2, <4>1
      <4> QED BY <4>1, <4>2, <4>3
    <3>2. PagerGoesOn'
      BY <1>0, <2>1, <2>2, TableToolsAssumption DEF ToolsInv, ToolsTypeOK, PagerGoesOn, CallRecords
    <3> QED BY <2>1, <2>2, <3>1, <3>2 DEF ToolsInv, ToolsTypeOK, SeenSoFar, PagesCoverTable
  <2>3. CASE Refuses(c)
    BY <1>0, <2>1, <2>3, CallAnswered DEF Refuses
  <2> QED BY <1>7, <2>2, <2>3 DEF getObject
<1>8. ASSUME NEW c \in Calls, getTableStats(c) PROVE ToolsInv'
  BY <1>0, <1>8, CallAnswered DEF getTableStats, Refuses
<1>9. ASSUME NEW c \in Calls, getTablePage(c) PROVE ToolsInv'
  <2>1. Answered(c, up) /\ UNCHANGED <<up, size>>
    BY <1>9 DEF getTablePage
  <2>2. CASE up /\ c = Pager
    <3>1. /\ page' \in [offset : Nat, seen : SUBSET Nat, more : BOOLEAN, first : Nat]
          /\ SeenSoFar' /\ PagesCoverTable'
      BY <1>9, <2>2, PageExtends
    <3>2. call' \in [Calls -> CallRecords] /\ call'[Pager].at = "answered"
      BY <1>0, <2>1, <2>2 DEF ToolsInv, ToolsTypeOK, Answered, CallRecords, NoCall, Stages
    <3> QED BY <2>1, <3>1, <3>2 DEF ToolsInv, ToolsTypeOK, PagerGoesOn
  <2>3. CASE ~(up /\ c = Pager)
    BY <1>0, <1>9, <2>1, <2>3, CallAnswered DEF getTablePage
  <2> QED BY <2>2, <2>3
<1>10. CASE ConnectionLost
  BY <1>10 DEF ConnectionLost, ToolsInv, ToolsTypeOK, PagerGoesOn, SeenSoFar, PagesCoverTable
<1>11. CASE RowAppended
  <2>1. size' \in Nat /\ size' > size /\ UNCHANGED <<up, call, page>>
    BY <1>0, <1>11 DEF RowAppended
  <2>2. PagerGoesOn'
    BY <1>0, <2>1, TableToolsAssumption DEF ToolsInv, ToolsTypeOK, PagerGoesOn, CallRecords
  <2> QED BY <2>1, <2>2 DEF ToolsInv, ToolsTypeOK, SeenSoFar, PagesCoverTable
<1>12. CASE PagesRestart
  BY <1>12 DEF PagesRestart, ToolsInv, ToolsTypeOK, PagerGoesOn, SeenSoFar, PagesCoverTable
<1>13. CASE UNCHANGED toolVars
  BY <1>13 DEF toolVars, ToolsInv, ToolsTypeOK, PagerGoesOn, SeenSoFar, PagesCoverTable
<1> QED BY <1>1, <1>2, <1>3, <1>4, <1>5, <1>6, <1>7, <1>8, <1>9, <1>10, <1>11, <1>12, <1>13 DEF TableToolsNext

\* An agent that pages through a table until it is told of no more has seen every row there was
\* when it asked for the last page, for pages of any size (getTablePage).
THEOREM PagesCover == TableToolsSpec => []PagesCoverTable
<1>1. ToolsTablesInit => ToolsInv
  BY TableToolsAssumption DEF ToolsTablesInit, ToolsInv, ToolsTypeOK, PagerGoesOn, SeenSoFar, PagesCoverTable,
         NoCall, CallRecords, Stages
<1>2. ToolsInv => PagesCoverTable
  BY DEF ToolsInv
<1> QED BY <1>1, <1>2, ToolsInvInductive, PTL DEF TableToolsSpec

-----------------------------------------------------------------------------
(* McpLifecycle: the invariant                                             *)

Servers == 0 .. MaxServers
PortOrNone == Ports \cup {NoPort}
UpdateRecords == [at : {"none", "reading", "prompt", "writing"}, port : PortOrNone, content : Entries]

\* The values of the variables.
McpTypeOK ==
    /\ windsurf \in BOOLEAN /\ active \in BOOLEAN /\ settings \in Settings
    /\ taken \subseteq Ports /\ created \in Servers
    /\ port \in [Servers -> PortOrNone] /\ _mcpServer \in 0 .. created
    /\ storing \in [Servers -> PortOrNone] /\ provided \in Servers
    /\ asked \in BOOLEAN /\ statusBar \in PortOrNone
    /\ storedPort \in PortOrNone /\ file \in Entries
    /\ update \in [Updates -> UpdateRecords] /\ overlapping \in BOOLEAN

\* A server that is not the current one was stopped before it was replaced.
OnlyCurrentListens ==
    /\ port[0] = NoPort
    /\ \A s \in Servers : port[s] # NoPort => s = _mcpServer /\ settings.mcp

\* A window that is closed leaves nothing running.
NothingIsLeft == ~active =>
    /\ created = 0 /\ port = NoServer /\ _mcpServer = 0 /\ storing = NoServer
    /\ provided = 0 /\ ~asked /\ listed = {}
    /\ Pending = {} /\ ~overlapping

\* What VS Code lists is what it was last told of, and it is told of every server whose port is stored.
ListedIsProvided == (active /\ ~windsurf) =>
    /\ ~asked => listed = Definitions(port[provided])
    /\ (port[_mcpServer] # NoPort /\ storing = NoServer) => provided = _mcpServer

IsCleared(entries) == entries.server = NoPort /\ entries.docs # "named"

\* When MCP is disabled the file is cleared or about to be: no update asks first or adds an entry.
FileIsCleared == (active /\ windsurf /\ ~settings.mcp /\ ~overlapping) =>
    /\ \A u \in Updates : update[u].at # "prompt" /\ (update[u].at = "writing" => IsCleared(update[u].content))
    /\ IsCleared(file) \/ Pending # {}

McpInv == McpTypeOK /\ OnlyCurrentListens /\ NothingIsLeft /\ ListedIsProvided /\ FileIsCleared

-----------------------------------------------------------------------------
(* McpLifecycle: lemmas and invariance                                     *)

\* What an update writes are entries and, when MCP is disabled, none of the extension's.
LEMMA EntriesAreTyped ==
    ASSUME McpTypeOK, NEW p \in PortOrNone
    PROVE  /\ UpdatedEntries(p) \in Entries
           /\ ~settings.mcp => IsCleared(UpdatedEntries(p))
<1>1. file.server \in PortOrNone /\ file.docs \in {"none", "named", "other name"}
  BY DEF McpTypeOK, Entries, PortOrNone
<1>2. \A keys : /\ deleteConfigKeys(file, keys).server \in PortOrNone
                /\ deleteConfigKeys(file, keys).docs \in {"none", "named", "other name"}
                /\ deleteConfigKeys(file, keys) \in Entries
  BY <1>1 DEF deleteConfigKeys, Entries, PortOrNone
<1>3. [file EXCEPT !.server = p] \in Entries
  BY DEF McpTypeOK, Entries, PortOrNone
<1>4. \A e \in Entries : \A keys : deleteConfigKeys(e, keys) \in Entries
  BY DEF deleteConfigKeys, Entries
<1>5. \A e \in Entries : updateWindsurfDocsMcpServerConfig(e) \in Entries
  BY DEF updateWindsurfDocsMcpServerConfig, Entries
<1>6. UpdatedEntries(p) \in Entries
  BY <1>2, <1>3, <1>4, <1>5 DEF UpdatedEntries
<1>7. ~settings.mcp => UpdatedEntries(p) = deleteConfigKeys(file, {"server", "docs"})
  BY DEF UpdatedEntries
<1>8. IsCleared(deleteConfigKeys(file, {"server", "docs"}))
  BY <1>1 DEF deleteConfigKeys, IsCleared
<1> QED BY <1>6, <1>7, <1>8

\* An update is asked for when no other goes on, or they overlap.
UpdateIsAsked ==
    /\ update' \in [Updates -> UpdateRecords] /\ overlapping' \in BOOLEAN
    /\ ~windsurf => UNCHANGED <<update, overlapping>>
    /\ (windsurf /\ ~overlapping') =>
         /\ \A u \in Updates : update'[u].at \in {"none", "reading"}
         /\ Pending' # {}

\* An update that is asked for starts by reading the file.
LEMMA UpdateAsked ==
    ASSUME McpTypeOK, NEW p \in PortOrNone, updateWindsurfMcpConfig(p)
    PROVE  UpdateIsAsked
<1>1. CASE ~windsurf
  BY <1>1 DEF McpTypeOK, updateWindsurfMcpConfig, UpdateIsAsked
<1>2. CASE windsurf
  <2>1. PICK u \in Updates \ Pending :
          /\ update' = [update EXCEPT ![u] = [NoUpdate EXCEPT !.at = "reading", !.port = p]]
          /\ overlapping' = (overlapping \/ Pending # {})
    BY <1>2 DEF updateWindsurfMcpConfig
  <2> DEFINE record == [NoUpdate EXCEPT !.at = "reading", !.port = p]
  <2>2. record \in UpdateRecords /\ record.at = "reading"
    BY DEF NoUpdate, UpdateRecords, Entries, PortOrNone
  <2>3. update' \in [Updates -> UpdateRecords] /\ update'[u].at = "reading"
    BY <2>1, <2>2 DEF McpTypeOK
  <2>4. \A v \in Updates \ {u} : update'[v] = update[v]
    BY <2>1 DEF McpTypeOK
  <2>5. overlapping' \in BOOLEAN /\ (~overlapping' => Pending = {})
    BY <2>1, Zenon DEF McpTypeOK
  <2>6. u \in Pending'
    BY <2>3 DEF Pending
  <2> QED BY <1>2, <2>3, <2>4, <2>5, <2>6 DEF UpdateIsAsked, Pending
<1> QED BY <1>1, <1>2

\* It does not matter what the file holds when it is about to be updated.
LEMMA AskedFileIsCleared ==
    ASSUME windsurf' = windsurf, windsurf \/ ~windsurf, UpdateIsAsked
    PROVE  FileIsCleared'
BY DEF UpdateIsAsked, FileIsCleared

\* No server listens to a port when MCP is disabled or starts.
LEMMA StoppedIsSilent ==
    ASSUME McpInv
    PROVE  /\ stop \in [Servers -> PortOrNone]
           /\ \A s \in Servers : stop[s] = NoPort
BY McpAssumption DEF McpInv, McpTypeOK, OnlyCurrentListens, stop, Servers, PortOrNone

\* When the port of a server is stored VS Code is told of the current server, or Windsurf's
\* file is updated.
LEMMA StoredIsProvided ==
    ASSUME McpTypeOK, NEW s, NEW p \in PortOrNone, ServerStored(s, p), windsurf' = windsurf
    PROVE  /\ windsurf => UpdateIsAsked /\ provided' = provided /\ asked' = asked
           /\ ~windsurf => provided' = _mcpServer' /\ asked' = TRUE /\ UNCHANGED <<update, overlapping>>
           /\ update' \in [Updates -> UpdateRecords] /\ overlapping' \in BOOLEAN
<1>1. CASE windsurf
  <2>1. updateWindsurfMcpConfig(p) /\ UNCHANGED <<provided, asked>>
    BY <1>1 DEF ServerStored
  <2>2. UpdateIsAsked
    BY <2>1, UpdateAsked
  <2> QED BY <1>1, <2>1, <2>2 DEF UpdateIsAsked
<1>2. CASE ~windsurf
  BY <1>2 DEF ServerStored, ServerProvided, McpTypeOK
<1> QED BY <1>1, <1>2

\* MCP is switched off or on, in a window that is open or opens: the setting was different.
LEMMA InitializeKeeps ==
    ASSUME McpInv, NEW mcp \in BOOLEAN, initializeMcpServer(mcp),
           settings' \in Settings, settings'.mcp = mcp, active' = TRUE, active => settings.mcp # mcp,
           UNCHANGED <<windsurf, taken, listed, file>>
    PROVE  McpInv'
<1>1. stop \in [Servers -> PortOrNone] /\ \A s \in Servers : stop[s] = NoPort
  BY StoppedIsSilent
<1>0. McpTypeOK
  BY DEF McpInv
<1>t. /\ windsurf' \in BOOLEAN /\ active' \in BOOLEAN /\ taken' \subseteq Ports /\ file' \in Entries
      /\ created \in Servers /\ MaxServers \in Nat /\ NoPort \in PortOrNone
  BY <1>0, McpAssumption DEF McpTypeOK, PortOrNone
<1>2. NothingIsLeft'
  BY DEF NothingIsLeft
<1>3. CASE ~mcp
  <2>1. /\ _mcpServer' = 0 /\ port' = stop /\ provided' = 0 /\ asked' = TRUE /\ statusBar' = NoPort
        /\ updateWindsurfMcpConfig(NoPort) /\ UNCHANGED <<created, storing, storedPort>>
    BY <1>3 DEF initializeMcpServer
  <2>2. UpdateIsAsked
    BY <1>0, <1>t, <2>1, UpdateAsked
  <2>3. update' \in [Updates -> UpdateRecords] /\ overlapping' \in BOOLEAN
    BY <2>2 DEF UpdateIsAsked
  <2>4. McpTypeOK'
    BY <1>0, <1>1, <1>t, <2>1, <2>3 DEF McpTypeOK, Servers
  <2>5. OnlyCurrentListens'
    BY <1>1, <1>t, <2>1 DEF OnlyCurrentListens, Servers
  <2>6. ListedIsProvided'
    BY <1>1, <1>t, <2>1 DEF ListedIsProvided, Servers
  <2>7. FileIsCleared'
    BY <1>t, <2>2, AskedFileIsCleared
  <2> QED BY <1>2, <2>4, <2>5, <2>6, <2>7 DEF McpInv
<1>4. CASE mcp
  <2>1. PICK p \in start(storedPort) :
         /\ created < MaxServers
         /\ created' = created + 1 /\ _mcpServer' = created'
         /\ statusBar' = IF p = NoPort THEN statusBar ELSE p
         /\ port' = [stop EXCEPT ![created'] = p]
         /\ IF p = NoPort
            THEN provided' = 0 /\ UNCHANGED <<storing, storedPort, asked, update, overlapping>>
            ELSE IF p # storedPort
            THEN /\ storedPort' = p /\ storing' = [storing EXCEPT ![created'] = p]
                 /\ provided' = 0 /\ UNCHANGED <<asked, update, overlapping>>
            ELSE ServerStored(created', p) /\ UNCHANGED <<storing, storedPort>>
    BY <1>4 DEF initializeMcpServer
  <2>2. p \in PortOrNone
    BY <2>1 DEF start, PortOrNone
  <2>3. created' \in Servers /\ created' # 0 /\ _mcpServer' \in 0 .. created'
    BY <1>t, <2>1 DEF Servers
  <2>4. port' \in [Servers -> PortOrNone] /\ port'[created'] = p
    BY <1>1, <2>1, <2>2, <2>3
  <2>5. \A s \in Servers : s # created' => port'[s] = NoPort
    BY <1>1, <2>1, <2>3
  <2>6. 0 \in Servers /\ port'[0] = NoPort
    BY <1>t, <2>3, <2>5 DEF Servers
  <2>7. OnlyCurrentListens'
    BY <1>4, <2>1, <2>5, <2>6 DEF OnlyCurrentListens
  <2>8. FileIsCleared'
    BY <1>4 DEF FileIsCleared
  <2>9. \A s \in Servers : port[s] = NoPort
    <3>1. CASE active
      BY <1>4, <3>1 DEF McpInv, OnlyCurrentListens
    <3>2. CASE ~active
      BY <3>2 DEF McpInv, NothingIsLeft, NoServer, Servers
    <3> QED BY <3>1, <3>2
  <2>10. (~windsurf /\ ~asked) => listed = {}
    <3>1. CASE active
      BY <1>0, <2>9, <3>1 DEF McpInv, McpTypeOK, ListedIsProvided, Definitions
    <3>2. CASE ~active
      BY <3>2 DEF McpInv, NothingIsLeft
    <3> QED BY <3>1, <3>2
  <2>11. ASSUME p = NoPort PROVE McpInv'
    <3>1. provided' = 0 /\ UNCHANGED <<storing, storedPort, asked, update, overlapping>>
      BY <2>1, <2>11
    <3>2. McpTypeOK'
      BY <1>0, <1>t, <2>1, <2>2, <2>3, <2>4, <2>6, <3>1 DEF McpTypeOK
    <3>3. ListedIsProvided'
      BY <2>1, <2>4, <2>6, <2>10, <2>11, <3>1 DEF ListedIsProvided, Definitions
    <3> QED BY <1>2, <2>7, <2>8, <3>2, <3>3 DEF McpInv
  <2>12. ASSUME p # NoPort, p # storedPort PROVE McpInv'
    <3>1. /\ storedPort' = p /\ storing' = [storing EXCEPT ![created'] = p]
          /\ provided' = 0 /\ UNCHANGED <<asked, update, overlapping>>
      BY <2>1, <2>12
    <3>2. storing' \in [Servers -> PortOrNone] /\ storing'[created'] = p
      BY <1>0, <2>2, <2>3, <3>1 DEF McpTypeOK
    <3>3. McpTypeOK'
      BY <1>0, <1>t, <2>1, <2>2, <2>3, <2>4, <2>6, <3>1, <3>2 DEF McpTypeOK
    <3>4. storing' # NoServer
      BY <2>3, <2>12, <3>2 DEF NoServer, Servers
    <3>5. NoServer' = NoServer
      BY DEF NoServer
    <3>6. ListedIsProvided'
      BY <2>6, <2>10, <3>1, <3>4, <3>5 DEF ListedIsProvided, Definitions
    <3> QED BY <1>2, <2>7, <2>8, <3>3, <3>6 DEF McpInv
  <2>13. ASSUME p # NoPort, p = storedPort PROVE McpInv'
    <3>1. ServerStored(created', p) /\ UNCHANGED <<storing, storedPort>>
      BY <2>1, <2>13
    <3>2. /\ windsurf => UpdateIsAsked /\ provided' = provided /\ asked' = asked
          /\ ~windsurf => provided' = _mcpServer' /\ asked' = TRUE /\ UNCHANGED <<update, overlapping>>
          /\ update' \in [Updates -> UpdateRecords] /\ overlapping' \in BOOLEAN
      BY <1>0, <2>2, <3>1, StoredIsProvided
    <3>3. provided' \in Servers /\ asked' \in BOOLEAN
      BY <1>0, <2>1, <2>3, <3>2 DEF McpTypeOK
    <3>4. McpTypeOK'
      BY <1>0, <1>t, <2>1, <2>2, <2>3, <2>4, <3>1, <3>2, <3>3 DEF McpTypeOK
    <3>5. ListedIsProvided'
      BY <3>2 DEF ListedIsProvided
    <3> QED BY <1>2, <2>7, <2>8, <3>4, <3>5 DEF McpInv
  <2> QED BY <2>11, <2>12, <2>13
<1> QED BY <1>3, <1>4

\* The port of a server has been stored, whichever server is current by then.
LEMMA PortStoredKeeps ==
    ASSUME McpInv, NEW s \in Servers, PortStored(s)
    PROVE  McpInv'
<1>0. McpTypeOK
  BY DEF McpInv
<1>1. /\ storing[s] # NoPort /\ storing' = [storing EXCEPT ![s] = NoPort]
      /\ UNCHANGED <<windsurf, active, settings, taken, created, port, _mcpServer, listed, statusBar,
                     storedPort, file>>
      /\ ServerStored(s, storing[s])
  BY DEF PortStored
<1>2. storing[s] \in PortOrNone /\ storing' \in [Servers -> PortOrNone]
  BY <1>0, <1>1 DEF McpTypeOK, PortOrNone
<1>3. /\ windsurf => UpdateIsAsked /\ provided' = provided /\ asked' = asked
      /\ ~windsurf => provided' = _mcpServer' /\ asked' = TRUE /\ UNCHANGED <<update, overlapping>>
      /\ update' \in [Updates -> UpdateRecords] /\ overlapping' \in BOOLEAN
  BY <1>0, <1>1, <1>2, StoredIsProvided
<1>4. _mcpServer \in Servers
  BY <1>0, McpAssumption DEF McpTypeOK, Servers
<1>5. provided' \in Servers /\ asked' \in BOOLEAN
  BY <1>0, <1>1, <1>3, <1>4 DEF McpTypeOK
<1>6. McpTypeOK'
  BY <1>0, <1>1, <1>2, <1>3, <1>5 DEF McpTypeOK
<1>7. OnlyCurrentListens'
  BY <1>1 DEF McpInv, OnlyCurrentListens
<1>8. active
  BY <1>1 DEF McpInv, NothingIsLeft, NoServer, Servers
<1>9. NothingIsLeft'
  BY <1>1, <1>8 DEF NothingIsLeft
<1>10. ListedIsProvided'
  BY <1>1, <1>3 DEF ListedIsProvided
<1>11. FileIsCleared'
  BY <1>0, <1>1, <1>3, AskedFileIsCleared DEF McpTypeOK, FileIsCleared
<1> QED BY <1>6, <1>7, <1>9, <1>10, <1>11 DEF McpInv

\* A step that is only about the file keeps what is said of the servers.
LEMMA FileStepKeeps ==
    ASSUME McpInv, settings' \in Settings, settings'.mcp = settings.mcp, settings'.docs = settings.docs,
           update' \in [Updates -> UpdateRecords], file' \in Entries, overlapping' \in BOOLEAN,
           active, FileIsCleared',
           UNCHANGED <<windsurf, active, taken, created, port, _mcpServer, storing, provided, asked, listed,
                       statusBar, storedPort>>
    PROVE  McpInv'
<1>1. McpTypeOK'
  BY DEF McpInv, McpTypeOK
<1>2. OnlyCurrentListens' /\ NothingIsLeft'
  BY DEF McpInv, OnlyCurrentListens, NothingIsLeft
<1>3. \A p : Definitions(p)' = Definitions(p)
  BY DEF Definitions
<1>4. ListedIsProvided'
  BY <1>3 DEF McpInv, ListedIsProvided, Definitions
<1> QED BY <1>1, <1>2, <1>4 DEF McpInv

\* An update goes on only in a window that is open.
LEMMA PendingIsActive ==
    ASSUME McpInv, NEW u \in Updates, update[u].at # "none"
    PROVE  active
BY DEF McpInv, NothingIsLeft, Pending

\* Every step of the controller, of VS Code and of the user keeps the invariant.
THEOREM McpInvInductive == McpInv /\ [McpNext]_mcpVars => McpInv'
<1> SUFFICES ASSUME McpInv, [McpNext]_mcpVars PROVE McpInv'
  OBVIOUS
<1>0. /\ McpTypeOK /\ settings \in Settings /\ file \in Entries /\ overlapping \in BOOLEAN
      /\ update \in [Updates -> UpdateRecords]
  BY DEF McpInv, McpTypeOK
<1>1. ASSUME NEW u \in Updates, ReadConfig(u) PROVE McpInv'
  <2> DEFINE content == UpdatedEntries(update[u].port)
             silent == ~settings.mcp \/ update[u].port = NoPort \/ settings.auto
             next == [update[u] EXCEPT !.at = IF silent THEN "writing" ELSE "prompt", !.content = content]
  <2>1. /\ update[u].at = "reading"
        /\ update' = [update EXCEPT ![u] = IF content = file THEN NoUpdate ELSE next]
        /\ UNCHANGED <<windsurf, active, settings, taken, created, port, _mcpServer, storing, provided, asked,
                       listed, statusBar, storedPort, file, overlapping>>
    BY <1>1 DEF ReadConfig
  <2>2. update[u] \in UpdateRecords /\ update[u].port \in PortOrNone
    BY <1>0 DEF UpdateRecords
  <2>3. content \in Entries /\ (~settings.mcp => IsCleared(content))
    BY <1>0, <2>2, EntriesAreTyped
  <2> HIDE DEF content
  <2>4. /\ next \in UpdateRecords /\ next.at = (IF silent THEN "writing" ELSE "prompt")
        /\ next.content = content
    BY <2>2, <2>3 DEF UpdateRecords
  <2>5. NoUpdate \in UpdateRecords /\ NoUpdate.at = "none"
    BY DEF NoUpdate, UpdateRecords, Entries, PortOrNone
  <2> HIDE DEF next
  <2>6. update' \in [Updates -> UpdateRecords]
    BY <1>0, <2>1, <2>4, <2>5
  <2>7. \A v \in Updates \ {u} : update'[v] = update[v]
    BY <1>0, <2>1
  <2>8. update'[u] = IF content = file THEN NoUpdate ELSE next
    BY <1>0, <2>1
  <2>9. active
    BY <2>1, PendingIsActive
  <2>10. FileIsCleared'
    <3> SUFFICES ASSUME windsurf, ~settings.mcp, ~overlapping
                 PROVE  /\ \A v \in Updates :
                             update'[v].at # "prompt" /\ (update'[v].at = "writing" => IsCleared(update'[v].content))
                        /\ IsCleared(file) \/ Pending' # {}
      BY <2>1 DEF FileIsCleared
    <3>1. \A v \in Updates :
            update[v].at # "prompt" /\ (update[v].at = "writing" => IsCleared(update[v].content))
      BY <2>9 DEF McpInv, FileIsCleared
    <3>2. update'[u].at # "prompt" /\ (update'[u].at = "writing" => IsCleared(update'[u].content))
      BY <2>3, <2>4, <2>5, <2>8
    <3>3. ASSUME content # file PROVE u \in Pending'
      BY <2>4, <2>8, <3>3 DEF Pending
    <3> QED BY <2>3, <2>7, <3>1, <3>2, <3>3
  <2> QED BY <1>0, <2>1, <2>6, <2>9, <2>10, FileStepKeeps
<1>2. ASSUME NEW u \in Updates, promptForMcpConfigUpdate(u) PROVE McpInv'
  <2>1. PICK response \in {"Yes", "Always", "No"} :
         /\ update' = [update EXCEPT ![u] = IF response = "No" THEN NoUpdate ELSE [@ EXCEPT !.at = "writing"]]
         /\ settings' = [settings EXCEPT !.auto = @ \/ response = "Always"]
    BY <1>2 DEF promptForMcpConfigUpdate
  <2>2. /\ update[u].at = "prompt"
        /\ UNCHANGED <<windsurf, active, taken, created, port, _mcpServer, storing, provided, asked, listed,
                       statusBar, storedPort, file, overlapping>>
    BY <1>2 DEF promptForMcpConfigUpdate
  <2>3. settings' \in Settings /\ settings'.mcp = settings.mcp /\ settings'.docs = settings.docs
    BY <1>0, <2>1 DEF Settings
  <2>4. NoUpdate \in UpdateRecords /\ [update[u] EXCEPT !.at = "writing"] \in UpdateRecords
    BY <1>0 DEF NoUpdate, UpdateRecords, Entries, PortOrNone
  <2>5. update' \in [Updates -> UpdateRecords]
    BY <1>0, <2>1, <2>4
  <2>6. active
    BY <2>2, PendingIsActive
  <2>7. FileIsCleared'
    BY <2>2, <2>3, <2>6 DEF McpInv, FileIsCleared
  <2> QED BY <1>0, <2>2, <2>3, <2>5, <2>6, <2>7, FileStepKeeps
<1>3. ASSUME NEW u \in Updates, WriteConfig(u) PROVE McpInv'
  <2>1. /\ update' = [update EXCEPT ![u] = NoUpdate]
        /\ UNCHANGED <<windsurf, active, settings, taken, created, port, _mcpServer, storing, provided, asked,
                       listed, statusBar, storedPort>>
        /\ update[u].at # "none"
    BY <1>3 DEF WriteConfig
  <2>2. NoUpdate \in UpdateRecords /\ NoUpdate.at = "none"
    BY DEF NoUpdate, UpdateRecords, Entries, PortOrNone
  <2>3. update' \in [Updates -> UpdateRecords] /\ \A v \in Updates : update'[v] = update[v] \/ update'[v] = NoUpdate
    BY <1>0, <2>1, <2>2
  <2>4. active
    BY <2>1, PendingIsActive
  <2>5. CASE update[u].at = "writing" /\ file' = update[u].content /\ UNCHANGED overlapping
    <3>1. file' \in Entries
      BY <1>0, <2>5 DEF UpdateRecords
    <3>2. FileIsCleared'
      BY <2>1, <2>2, <2>3, <2>4, <2>5 DEF McpInv, FileIsCleared, IsCleared
    <3> QED BY <1>0, <2>1, <2>3, <2>4, <2>5, <3>1, <3>2, FileStepKeeps
  <2>6. CASE overlapping' = TRUE /\ UNCHANGED file
    <3>1. FileIsCleared'
      BY <2>6 DEF FileIsCleared
    <3> QED BY <1>0, <2>1, <2>3, <2>4, <2>6, <3>1, FileStepKeeps
  <2> QED BY <1>3, <2>5, <2>6 DEF WriteConfig
<1>4. ASSUME NEW s \in 1 .. MaxServers, PortStored(s) PROVE McpInv'
  <2>1. s \in Servers
    BY McpAssumption DEF Servers
  <2> QED BY <1>4, <2>1, PortStoredKeeps
<1>5. ASSUME NEW mcp \in BOOLEAN, NEW docs \in BOOLEAN, onDidChangeConfiguration(mcp, docs) PROVE McpInv'
  <2>1. /\ active /\ settings' = [settings EXCEPT !.mcp = mcp, !.docs = docs]
        /\ UNCHANGED <<windsurf, active, taken, listed, file>>
    BY <1>5 DEF onDidChangeConfiguration
  <2>2. settings' \in Settings /\ settings'.mcp = mcp
    BY <1>0, <2>1 DEF Settings
  <2>3. CASE mcp # settings.mcp
    <3>1. initializeMcpServer(mcp)
      BY <1>5, <2>3 DEF onDidChangeConfiguration
    <3> QED BY <2>1, <2>2, <2>3, <3>1, InitializeKeeps
  <2>4. CASE mcp = settings.mcp
    <3>1. /\ asked' = TRUE /\ updateWindsurfMcpConfig(port[_mcpServer])
          /\ UNCHANGED <<created, port, _mcpServer, storing, provided, statusBar, storedPort>>
      BY <1>5, <2>4 DEF onDidChangeConfiguration
    <3>2. _mcpServer \in Servers /\ port[_mcpServer] \in PortOrNone
      BY <1>0, McpAssumption DEF McpTypeOK, Servers
    <3>3. UpdateIsAsked
      BY <1>0, <3>1, <3>2, UpdateAsked
    <3>4. McpTypeOK'
      BY <1>0, <2>1, <2>2, <3>1, <3>3 DEF McpTypeOK, UpdateIsAsked
    <3>5. OnlyCurrentListens' /\ NothingIsLeft'
      BY <2>1, <2>2, <2>4, <3>1 DEF McpInv, OnlyCurrentListens, NothingIsLeft
    <3>6. ListedIsProvided'
      BY <2>1, <3>1 DEF McpInv, ListedIsProvided
    <3>7. FileIsCleared'
      BY <1>0, <2>1, <3>3, AskedFileIsCleared DEF McpTypeOK
    <3> QED BY <3>4, <3>5, <3>6, <3>7 DEF McpInv
  <2> QED BY <2>3, <2>4
<1>6. CASE maybeUpdateWindsurfMcpConfig
  <2>1. /\ windsurf /\ port[_mcpServer] # NoPort /\ updateWindsurfMcpConfig(port[_mcpServer])
        /\ UNCHANGED <<windsurf, active, settings, taken, created, port, _mcpServer, storing, provided, asked,
                       listed, statusBar, storedPort, file>>
    BY <1>6 DEF maybeUpdateWindsurfMcpConfig
  <2>2. _mcpServer \in Servers /\ port[_mcpServer] \in PortOrNone
    BY <1>0, McpAssumption DEF McpTypeOK, Servers
  <2>3. UpdateIsAsked
    BY <1>0, <2>1, <2>2, UpdateAsked
  <2>4. active
    BY <2>1, <2>2 DEF McpInv, NothingIsLeft, NoServer, Servers
  <2>5. FileIsCleared'
    BY <1>0, <2>1, <2>3, AskedFileIsCleared DEF McpTypeOK
  <2>6. update' \in [Updates -> UpdateRecords] /\ overlapping' \in BOOLEAN
    BY <2>3 DEF UpdateIsAsked
  <2> QED BY <1>0, <2>1, <2>4, <2>5, <2>6, FileStepKeeps
<1>7. CASE provideMcpServerDefinitions
  <2>1. /\ asked /\ asked' = FALSE /\ listed' = Definitions(port[provided])
        /\ UNCHANGED <<windsurf, active, settings, taken, created, port, _mcpServer, storing, provided,
                       statusBar, storedPort, file, update, overlapping>>
    BY <1>7 DEF provideMcpServerDefinitions
  <2>2. McpTypeOK'
    BY <1>0, <2>1 DEF McpTypeOK
  <2>3. OnlyCurrentListens' /\ FileIsCleared'
    BY <2>1 DEF McpInv, OnlyCurrentListens, FileIsCleared, Pending
  <2>4. NothingIsLeft'
    BY <2>1 DEF McpInv, NothingIsLeft
  <2>5. ListedIsProvided'
    BY <2>1 DEF McpInv, ListedIsProvided, Definitions
  <2> QED BY <2>2, <2>3, <2>4, <2>5 DEF McpInv
<1>8. CASE Activate
  <2>1. PICK mcp \in BOOLEAN : settings' = [settings EXCEPT !.mcp = mcp] /\ initializeMcpServer(mcp)
    BY <1>8 DEF Activate
  <2>2. ~active /\ active' = TRUE /\ UNCHANGED <<windsurf, taken, listed, file>>
    BY <1>8 DEF Activate
  <2>3. settings' \in Settings /\ settings'.mcp = mcp
    BY <1>0, <2>1 DEF Settings
  <2> QED BY <2>1, <2>2, <2>3, InitializeKeeps
<1>9. CASE CloseWindow
  <2>1. /\ active' = FALSE /\ created' = 0 /\ port' = NoServer /\ _mcpServer' = 0 /\ storing' = NoServer
        /\ provided' = 0 /\ asked' = FALSE /\ listed' = {} /\ statusBar' = NoPort
        /\ update' = [u \in Updates |-> NoUpdate] /\ overlapping' = FALSE
        /\ UNCHANGED <<windsurf, settings, taken, storedPort, file>>
    BY <1>9 DEF CloseWindow
  <2>2. NoUpdate \in UpdateRecords /\ NoUpdate.at = "none"
    BY DEF NoUpdate, UpdateRecords, Entries, PortOrNone
  <2>3. NoServer \in [Servers -> PortOrNone] /\ 0 \in Servers /\ \A s \in Servers : NoServer[s] = NoPort
    BY McpAssumption DEF NoServer, Servers, PortOrNone
  <2>4. update' \in [Updates -> UpdateRecords] /\ Pending' = {}
    BY <2>1, <2>2 DEF Pending
  <2>5. McpTypeOK'
    <3>1. /\ windsurf' \in BOOLEAN /\ settings' \in Settings /\ taken' \subseteq Ports
          /\ storedPort' \in PortOrNone /\ file' \in Entries
      BY <1>0, <2>1 DEF McpTypeOK
    <3>2. 0 \in 0 .. 0 /\ NoPort \in PortOrNone
      BY DEF PortOrNone
    <3> QED BY <2>1, <2>3, <2>4, <3>1, <3>2 DEF McpTypeOK
  <2>6. OnlyCurrentListens'
    BY <2>1, <2>3 DEF OnlyCurrentListens
  <2>7. NothingIsLeft' /\ ListedIsProvided' /\ FileIsCleared'
    BY <2>1, <2>4 DEF NothingIsLeft, ListedIsProvided, FileIsCleared, NoServer
  <2> QED BY <2>5, <2>6, <2>7 DEF McpInv
<1>10. CASE OtherPrograms
  <2>1. /\ taken' \subseteq Ports
        /\ UNCHANGED <<windsurf, active, settings, created, port, _mcpServer, storing, provided, asked,
                       listed, statusBar, storedPort, file, update, overlapping>>
    BY <1>10 DEF OtherPrograms
  <2> QED BY <2>1 DEF McpInv, McpTypeOK, OnlyCurrentListens, NothingIsLeft, ListedIsProvided, FileIsCleared,
                      Definitions, Pending
<1>11. CASE UNCHANGED mcpVars
  BY <1>11 DEF mcpVars, McpInv, McpTypeOK, OnlyCurrentListens, NothingIsLeft, ListedIsProvided, FileIsCleared,
               Definitions, Pending
<1> QED BY <1>1, <1>2, <1>3, <1>4, <1>5, <1>6, <1>7, <1>8, <1>9, <1>10, <1>11 DEF McpNext

\* The invariant holds from the start: no window is open, and nothing runs.
THEOREM McpInvHolds == McpSpec => []McpInv
<1>1. McpInit => McpInv
  <2> SUFFICES ASSUME McpInit PROVE McpInv
    OBVIOUS
  <2>1. NoUpdate \in UpdateRecords /\ NoUpdate.at = "none" /\ NoUpdate.content \in Entries
    BY DEF NoUpdate, UpdateRecords, Entries, PortOrNone
  <2>2. NoServer \in [Servers -> PortOrNone] /\ 0 \in Servers /\ \A s \in Servers : NoServer[s] = NoPort
    BY McpAssumption DEF NoServer, Servers, PortOrNone
  <2>3. update \in [Updates -> UpdateRecords] /\ Pending = {} /\ file \in Entries
    BY <2>1 DEF McpInit, Pending
  <2>4. McpTypeOK
    <3>1. /\ windsurf \in BOOLEAN /\ settings \in Settings /\ taken \subseteq Ports
          /\ storedPort \in PortOrNone
      BY DEF McpInit, PortOrNone
    <3>2. 0 \in 0 .. 0 /\ NoPort \in PortOrNone
      BY DEF PortOrNone
    <3> QED BY <2>2, <2>3, <3>1, <3>2 DEF McpInit, McpTypeOK
  <2> QED BY <2>2, <2>3, <2>4 DEF McpInit, McpInv, OnlyCurrentListens, NothingIsLeft, ListedIsProvided, FileIsCleared
<1> QED BY <1>1, McpInvInductive, PTL DEF McpSpec

\* Only the current server listens, and VS Code lists it and no other once ports are stored,
\* for any number of servers and ports (initializeMcpServer).
THEOREM DefinitionsAreCurrent == McpSpec => []DefinitionsFollow
<1>1. McpInv => DefinitionsFollow
  <2> SUFFICES ASSUME McpInv PROVE DefinitionsFollow
    OBVIOUS
  <2>1. DOMAIN port = Servers /\ _mcpServer \in Servers /\ provided \in Servers
    BY McpAssumption DEF McpInv, McpTypeOK, Servers
  <2>2. ASSUME active, ~windsurf, ~asked, storing = NoServer PROVE listed = Definitions(port[_mcpServer])
    <3>1. listed = Definitions(port[provided])
      BY <2>2 DEF McpInv, ListedIsProvided
    <3>2. CASE port[_mcpServer] # NoPort
      BY <2>2, <3>1, <3>2 DEF McpInv, ListedIsProvided
    <3>3. CASE port[_mcpServer] = NoPort
      BY <2>1, <3>1, <3>3 DEF McpInv, OnlyCurrentListens
    <3> QED BY <3>2, <3>3
  <2> QED BY <2>1, <2>2 DEF McpInv, OnlyCurrentListens, DefinitionsFollow
<1> QED BY <1>1, McpInvHolds, PTL

\* Windsurf's file names no server under the extension's names once MCP is disabled and its
\* updates are over, for any number of updates, ports and windows (updateWindsurfMcpConfig).
THEOREM DisabledLeavesNothing == McpSpec => []DisabledIsRemoved
<1>1. McpInv => DisabledIsRemoved
  BY DEF McpInv, FileIsCleared, IsCleared, DisabledIsRemoved
<1> QED BY <1>1, McpInvHolds, PTL

-----------------------------------------------------------------------------
(* RunTargets                                                              *)

\* A set of numbers that is not empty has a least one: the intervals from 0 to its members are
\* finite, and one of them contains no other.
LEMMA LeastIsThere ==
    ASSUME NEW P \in SUBSET Nat, P # {}
    PROVE  Min(P) \in P
<1> DEFINE T == {0..p : p \in P}
<1>1. IsWellFoundedOn(StrictSubsetOrdering(Nat), FiniteSubsetsOf(Nat))
  BY FS_StrictSubsetOrderingWellFounded
<1>2. \A p \in P : 0..p \in FiniteSubsetsOf(Nat)
  <2> SUFFICES ASSUME NEW p \in P PROVE 0..p \in FiniteSubsetsOf(Nat)
    OBVIOUS
  <2>1. IsFiniteSet(0..p)
    BY FS_Interval
  <2>2. 0..p \in SUBSET Nat
    OBVIOUS
  <2> QED BY <2>1, <2>2 DEF FiniteSubsetsOf
<1>3. T \subseteq FiniteSubsetsOf(Nat) /\ T # {}
  BY <1>2
<1>4. PICK I \in T : \A J \in T : ~ (<<J, I>> \in StrictSubsetOrdering(Nat))
  <2> HIDE DEF T
  <2> QED BY <1>1, <1>3, WFMin
<1>5. PICK p \in P : I = 0..p
  BY <1>4
<1>6. ASSUME NEW q \in P PROVE p <= q
  <2>1. ~ (<<0..q, 0..p>> \in StrictSubsetOrdering(Nat))
    BY <1>4, <1>5
  <2>2. 0..q \in SUBSET Nat /\ 0..p \in SUBSET Nat
    OBVIOUS
  <2>3. ~(0..q \subseteq 0..p /\ 0..q # 0..p)
    BY <2>1, <2>2 DEF StrictSubsetOrdering
  <2>4. CASE q < p
    <3>1. p \in 0..p /\ p \notin 0..q /\ 0..q \subseteq 0..p
      BY <2>4
    <3> QED BY <3>1, <2>3
  <2> QED BY <2>4
<1> QED BY <1>5, <1>6 DEF Min

\* The first connection with a URL has it.
LEMMA FirstHasUrl ==
    ASSUME NEW cs, Len(cs) \in Nat, NEW url, NEW languages, FirstConnection(cs, url, languages) # 0
    PROVE  HasUrl(cs[FirstConnection(cs, url, languages)], url)
<1> DEFINE I == {i \in 1..Len(cs) : HasUrl(cs[i], url) /\ ConsoleType[cs[i]] \in languages}
<1>1. FirstConnection(cs, url, languages) = IF I # {} THEN Min(I) ELSE 0
  BY DEF FirstConnection, SelectInSeq
<1>2. I \in SUBSET Nat /\ (\A i \in I : HasUrl(cs[i], url))
  OBVIOUS
<1> HIDE DEF I
<1>3. Min(I) \in I
  BY <1>1, <1>2, LeastIsThere
<1> QED BY <1>1, <1>2, <1>3

TargetStages == {"none", "editor", "supporting", "connecting", "binding", "running",
                 "called", "connects", "target"}

\* A run as it goes on, with what it has found so far.
AsAsked(x) ==
    /\ x = [at |-> x.at, tool |-> x.tool, document |-> x.document, url |-> x.url,
            first |-> x.first, supporting |-> x.supporting, on |-> x.on]
    /\ x.at \in TargetStages /\ Len(x.supporting) \in Nat
    /\ x.at = "target" => HasUrl(x.first, x.url)
    /\ x.at = "connecting" => x.url \in {None, x.on}
    /\ x.at \in {"binding", "running"} => HasUrl(x.on, x.url)

TargetsInv ==
    /\ Len(connections) \in Nat
    /\ run = [r \in Runs |-> run[r]] /\ \A r \in Runs : AsAsked(run[r])

\* One run goes on, and the others stay.
RunIs(r, x) ==
    run' = [q \in Runs |-> run'[q]] /\ run'[r] = x /\ \A q \in Runs \ {r} : run'[q] = run[q]
Onward(r, to, document, url, first, supporting, on) ==
    [at |-> to, tool |-> run[r].tool, document |-> document, url |-> url,
     first |-> first, supporting |-> supporting, on |-> on]

LEMMA RunGoesOn ==
    ASSUME TargetsInv, NEW r \in Runs, Len(connections') \in Nat,
           NEW to \in TargetStages, NEW document, NEW url, NEW first, NEW supporting, NEW on,
           RunIs(r, Onward(r, to, document, url, first, supporting, on)), Len(supporting) \in Nat,
           to = "target" => HasUrl(first, url),
           to = "connecting" => url \in {None, on},
           to \in {"binding", "running"} => HasUrl(on, url)
    PROVE  TargetsInv'
<1> DEFINE x == Onward(r, to, document, url, first, supporting, on)
<1>1. AsAsked(x)
  BY DEF AsAsked, Onward
<1> HIDE DEF x
<1>2. \A q \in Runs : AsAsked(run'[q])
  BY <1>1 DEF RunIs, TargetsInv, x
<1> QED BY <1>2 DEF TargetsInv, RunIs

\* What Goes, GoesOn and Ends make of a run.
LEMMA RunMoves ==
    ASSUME TargetsInv, NEW r \in Runs
    PROVE  /\ \A to : Goes(r, to) =>
                RunIs(r, Onward(r, to, run[r].document, run[r].url, run[r].first, run[r].supporting, run[r].on))
           /\ \A to, c : GoesOn(r, to, c) =>
                RunIs(r, Onward(r, to, run[r].document, run[r].url, run[r].first, <<>>, c))
<1>1. run = [q \in Runs |-> run[q]]
      /\ run[r] = [at |-> run[r].at, tool |-> run[r].tool, document |-> run[r].document, url |-> run[r].url,
                   first |-> run[r].first, supporting |-> run[r].supporting, on |-> run[r].on]
  BY DEF TargetsInv, AsAsked
<1>2. ASSUME NEW to, Goes(r, to)
      PROVE  RunIs(r, Onward(r, to, run[r].document, run[r].url, run[r].first, run[r].supporting, run[r].on))
  BY <1>1, <1>2 DEF Goes, RunIs, Onward
<1>3. ASSUME NEW to, NEW c, GoesOn(r, to, c)
      PROVE  RunIs(r, Onward(r, to, run[r].document, run[r].url, run[r].first, <<>>, c))
  BY <1>1, <1>3 DEF GoesOn, RunIs, Onward
<1> QED BY <1>2, <1>3

LEMMA RunEnds ==
    ASSUME TargetsInv, NEW r \in Runs, Ends(r), Len(connections') \in Nat
    PROVE  TargetsInv'
<1>1. AsAsked(NoRun)
  BY DEF AsAsked, NoRun, TargetStages
<1>2. run' = [q \in Runs |-> IF q = r THEN NoRun ELSE run[q]]
  BY DEF Ends, TargetsInv
<1>3. \A q \in Runs : AsAsked(run'[q])
  BY <1>1, <1>2 DEF TargetsInv
<1> QED BY <1>2, <1>3 DEF TargetsInv

LEMMA ConnectionsAreCounted ==
    ASSUME Len(connections) \in Nat
    PROVE  /\ \A c : Len(Append(connections, c)) \in Nat
           /\ \A url : Len(getConnections(url)) \in Nat
           /\ \A c \in Connections : Len(SelectSeq(connections, LAMBDA d : d # c)) \in Nat
<1>1. \A c : Len(Append(connections, c)) \in Nat
  OBVIOUS
<1>2. \A url : Len(getConnections(url)) \in Nat
  BY DEF getConnections
<1>3. \A c \in Connections : Len(SelectSeq(connections, LAMBDA d : d # c)) \in Nat
  OBVIOUS
<1> QED BY <1>1, <1>2, <1>3

LEMMA EditorRunsStep ==
    ASSUME TargetsInv, NEW r \in Runs,
           \/ onRunCode(r) \/ EditorConnection(r) \/ ChoosesConnection(r) \/ NoConnection(r)
           \/ connectToServer(r) \/ setEditorConnection(r) \/ RunDone(r)
    PROVE  TargetsInv'
<1>a. /\ Len(connections) \in Nat /\ run = [q \in Runs |-> run[q]] /\ AsAsked(run[r])
      /\ run[r] = [at |-> run[r].at, tool |-> run[r].tool, document |-> run[r].document, url |-> run[r].url,
                   first |-> run[r].first, supporting |-> run[r].supporting, on |-> run[r].on]
  BY DEF TargetsInv, AsAsked
<1>b. Len(run[r].supporting) \in Nat /\ Len(<<>>) \in Nat
  BY <1>a DEF AsAsked
<1>1. CASE onRunCode(r)
  <2>1. PICK d \in Documents : run' = [run EXCEPT ![r].at = "editor", ![r].document = d]
    BY <1>1 DEF onRunCode
  <2>2. RunIs(r, Onward(r, "editor", d, run[r].url, run[r].first, run[r].supporting, run[r].on))
    BY <1>a, <2>1 DEF RunIs, Onward
  <2>3. Len(connections') \in Nat
    BY <1>1, <1>a DEF onRunCode
  <2> QED BY <1>b, <2>2, <2>3, RunGoesOn DEF TargetStages
<1>2. CASE EditorConnection(r)
  <2> DEFINE d == run[r].document
  <2>1. connections' = connections
    BY <1>2 DEF EditorConnection
  <2>2. CASE KeepsConnection(d, run[r].url)
    <3>1. GoesOn(r, "running", editor[d])
      BY <1>2, <2>2 DEF EditorConnection
    <3>2. RunIs(r, Onward(r, "running", run[r].document, run[r].url, run[r].first, <<>>, editor[d]))
      BY <3>1, RunMoves
    <3>3. HasUrl(editor[d], run[r].url)
      BY <2>2 DEF KeepsConnection, HasUrl
    <3> QED BY <1>a, <1>b, <2>1, <3>2, <3>3, RunGoesOn DEF TargetStages
  <2>3. CASE ~ KeepsConnection(d, run[r].url)
    <3> DEFINE cs == getConnections(run[r].url)
    <3>1. run' = [run EXCEPT ![r].at = "supporting", ![r].supporting = cs]
      BY <1>2, <2>3 DEF EditorConnection
    <3>2. Len(cs) \in Nat
      BY <1>a, ConnectionsAreCounted
    <3> HIDE DEF cs
    <3>3. RunIs(r, Onward(r, "supporting", run[r].document, run[r].url, run[r].first, cs, run[r].on))
      BY <1>a, <3>1 DEF RunIs, Onward
    <3> QED BY <1>a, <2>1, <3>2, <3>3, RunGoesOn DEF TargetStages
  <2> QED BY <2>2, <2>3
<1>3. CASE ChoosesConnection(r)
  <2> DEFINE cs == run[r].supporting
             url == run[r].url
             i == FirstConnection(cs, url, {Language(r)})
  <2>1. connections' = connections
    BY <1>3 DEF ChoosesConnection
  <2>2. \/ \E c : GoesOn(r, "binding", c) /\ HasUrl(c, url)
        \/ \E s : GoesOn(r, "connecting", s) /\ url \in {None, s}
    <3>1. CASE i # 0 /\ GoesOn(r, "binding", cs[i])
      <4>1. HasUrl(cs[i], url)
        BY <3>1, <1>b, FirstHasUrl
      <4> QED BY <3>1, <4>1
    <3>2. CASE GoesOn(r, "connecting", url)
      BY <3>2
    <3>3. CASE url = None /\ \E c : GoesOn(r, "binding", c)
      BY <3>3 DEF HasUrl
    <3>4. CASE url = None /\ \E s : GoesOn(r, "connecting", s)
      BY <3>4
    <3> QED BY <1>3, <3>1, <3>2, <3>3, <3>4 DEF ChoosesConnection
  <2>3. ASSUME NEW c, GoesOn(r, "binding", c), HasUrl(c, url)
        PROVE  TargetsInv'
    <3>1. RunIs(r, Onward(r, "binding", run[r].document, run[r].url, run[r].first, <<>>, c))
      BY <2>3, RunMoves
    <3> QED BY <1>a, <1>b, <2>1, <2>3, <3>1, RunGoesOn DEF TargetStages
  <2>4. ASSUME NEW s, GoesOn(r, "connecting", s), url \in {None, s}
        PROVE  TargetsInv'
    <3>1. RunIs(r, Onward(r, "connecting", run[r].document, run[r].url, run[r].first, <<>>, s))
      BY <2>4, RunMoves
    <3> QED BY <1>a, <1>b, <2>1, <2>4, <3>1, RunGoesOn DEF TargetStages
  <2> QED BY <2>2, <2>3, <2>4
<1>4. CASE NoConnection(r)
  BY <1>4, <1>a, RunEnds DEF NoConnection
<1>5. CASE connectToServer(r)
  <2> DEFINE s == run[r].on
  <2>1. run[r].url \in {None, s}
    BY <1>5, <1>a DEF connectToServer, At, AsAsked
  <2>2. CASE Goes(r, "binding") /\ UNCHANGED connections
    <3>1. RunIs(r, Onward(r, "binding", run[r].document, run[r].url, run[r].first, run[r].supporting, run[r].on))
      BY <2>2, RunMoves
    <3>2. HasUrl(run[r].on, run[r].url)
      BY <2>1 DEF HasUrl
    <3> QED BY <1>a, <1>b, <2>2, <3>1, <3>2, RunGoesOn DEF TargetStages
  <2>3. ASSUME NEW c, ServerOf[c] = s, connections' = Append(connections, c), GoesOn(r, "binding", c)
        PROVE  TargetsInv'
    <3>1. RunIs(r, Onward(r, "binding", run[r].document, run[r].url, run[r].first, <<>>, c))
      BY <2>3, RunMoves
    <3>2. HasUrl(c, run[r].url)
      BY <2>1, <2>3 DEF HasUrl
    <3>3. Len(connections') \in Nat
      BY <1>a, <2>3, ConnectionsAreCounted
    <3> QED BY <1>b, <3>1, <3>2, <3>3, RunGoesOn DEF TargetStages
  <2> QED BY <1>5, <2>2, <2>3 DEF connectToServer
<1>6. CASE setEditorConnection(r)
  <2>1. connections' = connections /\ (Goes(r, "running") \/ Ends(r))
    BY <1>6 DEF setEditorConnection
  <2>2. CASE Goes(r, "running")
    <3>1. RunIs(r, Onward(r, "running", run[r].document, run[r].url, run[r].first, run[r].supporting, run[r].on))
      BY <2>2, RunMoves
    <3>2. HasUrl(run[r].on, run[r].url)
      BY <1>6, <1>a DEF setEditorConnection, At, AsAsked
    <3> QED BY <1>a, <1>b, <2>1, <3>1, <3>2, RunGoesOn DEF TargetStages
  <2> QED BY <1>a, <2>1, <2>2, RunEnds
<1>7. CASE RunDone(r)
  BY <1>7, <1>a, RunEnds DEF RunDone
<1> QED BY <1>1, <1>2, <1>3, <1>4, <1>5, <1>6, <1>7

LEMMA ToolRunsStep ==
    ASSUME TargetsInv, NEW r \in Runs,
           \/ CallTool(r) \/ getFirstConnectionOrCreate(r) \/ execConnectToServer(r)
           \/ runCodeFromUri(r) \/ runCode(r)
    PROVE  TargetsInv'
<1>a. /\ Len(connections) \in Nat /\ run = [q \in Runs |-> run[q]] /\ AsAsked(run[r])
      /\ run[r] = [at |-> run[r].at, tool |-> run[r].tool, document |-> run[r].document, url |-> run[r].url,
                   first |-> run[r].first, supporting |-> run[r].supporting, on |-> run[r].on]
  BY DEF TargetsInv, AsAsked
<1>b. Len(run[r].supporting) \in Nat /\ Len(<<>>) \in Nat
  BY <1>a DEF AsAsked
<1>c. ASSUME NEW c, Found(r, c), HasUrl(c, run[r].url), Len(connections') \in Nat
      PROVE  TargetsInv'
  <2>1. RunIs(r, Onward(r, "target", run[r].document, run[r].url, c, run[r].supporting, run[r].on))
    BY <1>a, <1>c DEF Found, RunIs, Onward
  <2> QED BY <1>b, <1>c, <2>1, RunGoesOn DEF TargetStages
<1>1. CASE CallTool(r)
  <2>1. PICK d \in Documents, url \in Urls, tool \in {"uri", "text"} :
          run' = [run EXCEPT ![r].at = "called", ![r].tool = tool, ![r].document = d, ![r].url = url]
    BY <1>1 DEF CallTool
  <2> DEFINE x == [at |-> "called", tool |-> tool, document |-> d, url |-> url,
                   first |-> run[r].first, supporting |-> run[r].supporting, on |-> run[r].on]
  <2>2. run'[r] = x
    BY <1>a, <2>1
  <2>3. run' = [q \in Runs |-> run'[q]] /\ \A q \in Runs \ {r} : run'[q] = run[q]
    BY <1>a, <2>1
  <2>4. AsAsked(x)
    BY <1>b DEF AsAsked, TargetStages
  <2> HIDE DEF x
  <2>6. \A q \in Runs : AsAsked(run'[q])
    BY <2>2, <2>3, <2>4 DEF TargetsInv
  <2>5. Len(connections') \in Nat
    BY <1>1, <1>a DEF CallTool
  <2> QED BY <2>3, <2>5, <2>6 DEF TargetsInv
<1>2. CASE getFirstConnectionOrCreate(r)
  <2> DEFINE i == FirstConnection(connections, run[r].url, Range(ConsoleType))
  <2>1. connections' = connections
        /\ ((i # 0 /\ Found(r, connections[i])) \/ Goes(r, "connects") \/ Ends(r))
    BY <1>2 DEF getFirstConnectionOrCreate
  <2>2. CASE i # 0 /\ Found(r, connections[i])
    <3>1. HasUrl(connections[i], run[r].url)
      BY <1>a, <2>2, FirstHasUrl
    <3> QED BY <1>a, <1>c, <2>1, <2>2, <3>1
  <2>3. CASE Goes(r, "connects")
    <3>1. RunIs(r, Onward(r, "connects", run[r].document, run[r].url, run[r].first, run[r].supporting, run[r].on))
      BY <2>3, RunMoves
    <3> QED BY <1>a, <1>b, <2>1, <3>1, RunGoesOn DEF TargetStages
  <2> QED BY <1>a, <2>1, <2>2, <2>3, RunEnds
<1>3. CASE execConnectToServer(r)
  <2>1. Len(connections') \in Nat
    BY <1>3, <1>a, ConnectionsAreCounted DEF execConnectToServer
  <2>2. Found(r, run[r].url) \/ Ends(r)
    BY <1>3 DEF execConnectToServer
  <2>3. HasUrl(run[r].url, run[r].url)
    BY DEF HasUrl
  <2> QED BY <1>c, <2>1, <2>2, <2>3, RunEnds
<1>4. CASE runCodeFromUri(r)
  <2>1. connections' = connections
        /\ run' = [run EXCEPT ![r].at = "editor", ![r].first = None]
    BY <1>4 DEF runCodeFromUri
  <2>2. RunIs(r, Onward(r, "editor", run[r].document, run[r].url, None, run[r].supporting, run[r].on))
    BY <1>a, <2>1 DEF RunIs, Onward
  <2> QED BY <1>a, <1>b, <2>1, <2>2, RunGoesOn DEF TargetStages
<1>5. CASE runCode(r)
  <2>1. connections' = connections /\ GoesOn(r, "running", run[r].first)
    BY <1>5 DEF runCode
  <2>2. RunIs(r, Onward(r, "running", run[r].document, run[r].url, run[r].first, <<>>, run[r].first))
    BY <2>1, RunMoves
  <2>3. HasUrl(run[r].first, run[r].url)
    BY <1>5, <1>a DEF runCode, At, AsAsked
  <2> QED BY <1>a, <1>b, <2>1, <2>2, <2>3, RunGoesOn DEF TargetStages
<1> QED BY <1>1, <1>2, <1>3, <1>4, <1>5

\* TargetsInv is inductive: by its stage, what a run found so far has the URL it is asked for
\* (getOrCreateConnection, getFirstConnectionOrCreate), and what others do to the connections
\* and documents cannot change what it found.
THEOREM TargetsInvInductive == TargetsSpec => []TargetsInv
<1>1. ASSUME TargetsInit PROVE TargetsInv
  <2>1. run = [r \in Runs |-> NoRun] /\ connections = <<>>
    BY <1>1 DEF TargetsInit
  <2>2. AsAsked(NoRun)
    BY DEF AsAsked, NoRun, TargetStages
  <2> QED BY <2>1, <2>2 DEF TargetsInv
<1>2. ASSUME TargetsInv, [TargetsNext]_targetVars PROVE TargetsInv'
  <2>1. ASSUME NEW r \in Runs,
               \/ onRunCode(r) \/ EditorConnection(r) \/ ChoosesConnection(r) \/ NoConnection(r)
               \/ connectToServer(r) \/ setEditorConnection(r) \/ RunDone(r)
        PROVE  TargetsInv'
    BY <1>2, <2>1, EditorRunsStep
  <2>2. ASSUME NEW r \in Runs,
               \/ CallTool(r) \/ getFirstConnectionOrCreate(r) \/ execConnectToServer(r)
               \/ runCodeFromUri(r) \/ runCode(r)
        PROVE  TargetsInv'
    BY <1>2, <2>2, ToolRunsStep
  <2>3. ASSUME UNCHANGED run, Len(connections') \in Nat PROVE TargetsInv'
    BY <1>2, <2>3 DEF TargetsInv
  <2>4. ASSUME NEW c \in Connections, onConnectToServer(c) \/ disconnectFromServer(c)
        PROVE  TargetsInv'
    <3>1. Len(connections') \in Nat
      BY <1>2, <2>4, ConnectionsAreCounted DEF TargetsInv, onConnectToServer, disconnectFromServer
    <3> QED BY <2>3, <2>4, <3>1 DEF onConnectToServer, disconnectFromServer
  <2>5. ASSUME NEW d \in Documents, onDisconnectEditor(d) PROVE TargetsInv'
    BY <1>2, <2>3, <2>5 DEF onDisconnectEditor, TargetsInv
  <2>6. CASE UNCHANGED targetVars
    BY <1>2, <2>3, <2>6 DEF targetVars, TargetsInv
  <2> QED BY <1>2, <2>1, <2>2, <2>4, <2>5, <2>6 DEF TargetsNext
<1> QED BY <1>1, <1>2, PTL DEF TargetsSpec

\* A run that is asked for with a URL executes on the connection, or on a worker of the
\* server, that the URL names, whoever else connects, disconnects or chooses connections for
\* the same document on the way (getOrCreateConnection, runCode).
THEOREM RunsStayAsAsked == TargetsSpec => []RunsWhereAsked
<1>1. TargetsInv => RunsWhereAsked
  BY DEF TargetsInv, AsAsked, RunsWhereAsked, At, HasUrl
<1> QED BY <1>1, TargetsInvInductive, PTL

-----------------------------------------------------------------------------
(* RunDiagnostics                                                          *)

\* A single range is sorted, and the lines of a single range are the lines sent.
LEMMA OneRangeIsSent ==
    ASSUME NEW a \in Nat, NEW b \in Nat, a <= b
    PROVE  getCombinedRangeLinesText(<< <<a, b>> >>) = [i \in 1 .. b - a + 1 |-> a + i - 1]
<1> DEFINE r == <<a, b>>
           s == [i \in 1 .. b - a + 1 |-> a + i - 1]
           seqs == [k \in 1 .. 1 |-> s]
           flat == CHOOSE g : g = [i \in 1 .. 1 |-> IF i = 1 THEN seqs[i] ELSE g[i - 1] \o seqs[i]]
           sorted == CHOOSE q \in [1 .. 1 -> {r}] :
                        Range(q) = {r} /\ \A i, j \in DOMAIN q : i < j => q[i][1] <= q[j][1]
<1>1. sortRanges(<<r>>)[1] = r
  <2> HIDE DEF r
  <2>1. DOMAIN <<r>> = 1 .. 1 /\ Range(<<r>>) = {r}
    BY DEF Range
  <2>2. [i \in 1 .. 1 |-> r] \in [1 .. 1 -> {r}] /\ Range([i \in 1 .. 1 |-> r]) = {r}
        /\ \A i, j \in 1 .. 1 : ~(i < j)
    BY DEF Range
  <2>3. sorted \in [1 .. 1 -> {r}]
    BY <2>2
  <2>4. sortRanges(<<r>>) = sorted
    BY <2>1 DEF sortRanges
  <2> HIDE DEF sorted
  <2> QED BY <2>3, <2>4
<1>2. FlattenSeq(seqs) = s
  <2> HIDE DEF s
  <2>1. Len(seqs) = 1
    OBVIOUS
  <2>2. [i \in 1 .. 1 |-> s] = [i \in 1 .. 1 |-> IF i = 1 THEN seqs[i] ELSE [j \in 1 .. 1 |-> s][i - 1] \o seqs[i]]
    OBVIOUS
  <2>3. flat = [i \in 1 .. 1 |-> IF i = 1 THEN seqs[i] ELSE flat[i - 1] \o seqs[i]]
    BY <2>2
  <2>4. flat[1] = s
    BY <2>3
  <2> HIDE DEF flat
  <2> QED BY <2>1, <2>4 DEF FlattenSeq, flat
<1>3. <<r>> # <<>> /\ DOMAIN <<r>> = 1 .. 1 /\ r[1] = a /\ r[2] = b
  OBVIOUS
<1>4. getCombinedRangeLinesText(<<r>>) =
        FlattenSeq([k \in 1 .. 1 |-> LET range == sortRanges(<<r>>)[k] IN [i \in 1 .. range[2] - range[1] + 1 |-> range[1] + i - 1]])
  <2> HIDE DEF r
  <2> QED BY <1>3 DEF getCombinedRangeLinesText
<1>5. [k \in 1 .. 1 |-> LET range == sortRanges(<<r>>)[k] IN [i \in 1 .. range[2] - range[1] + 1 |-> range[1] + i - 1]] = seqs
  <2> HIDE DEF r
  <2> QED BY <1>1, <1>3
<1> HIDE DEF s
<1> QED BY <1>2, <1>4, <1>5 DEF s

\* Ranges within the document: none, or one from a line to a later one.
OneRange(ranges) ==
    ranges = <<>> \/ \E a, b \in 1 .. Len(lines) : a <= b /\ ranges = << <<a, b>> >>

DiagnosticsInv ==
    /\ Len(lines) \in Nat /\ DOMAIN lines = 1 .. Len(lines)
    /\ flagged = [f \in {"document", "other"} |-> flagged[f]]
    /\ execution = [at |-> execution.at, ranges |-> execution.ranges,
                    wrong |-> execution.wrong, imported |-> execution.imported]
    /\ Len(execution.ranges) <= 1 => OneRange(execution.ranges)
    /\ OwnErrorsAreFlagged

\* What can be selected: code blocks lie between their fences, and two ranges are not one.
LEMMA OneIsSelected ==
    ASSUME Len(lines) \in Nat, NEW ranges \in Selectable, Len(ranges) <= 1
    PROVE  OneRange(ranges)
<1> DEFINE all == {r \in (1 .. Len(lines)) \X (1 .. Len(lines)) : r[1] <= r[2]}
<1>1. \A r \in all : \E a, b \in 1 .. Len(lines) : a <= b /\ r = <<a, b>>
  OBVIOUS
<1>2. CASE ranges = <<>>
  BY <1>2 DEF OneRange
<1>3. CASE \E r \in all : ranges = <<r>>
  <2> HIDE DEF all
  <2> QED BY <1>1, <1>3 DEF OneRange
<1>4. CASE \E c \in parseMarkdownCodeblocks(lines) : ranges = <<c.range>>
  <2>1. PICK c \in parseMarkdownCodeblocks(lines) : ranges = <<c.range>>
    BY <1>4
  <2>2. PICK p \in (1 .. Len(lines)) \X (1 .. Len(lines)) :
          p[1] < p[2] /\ c.range = Lines(p[1] + 1, p[2] - 1)
    BY <2>1 DEF parseMarkdownCodeblocks
  <2>3. Lines(p[1] + 1, p[2] - 1) \in all
    BY <2>2 DEF Lines
  <2> HIDE DEF all
  <2> QED BY <2>1, <2>2, <2>3, <1>3
<1>5. ~ \E p \in all \X all : ranges = p
  <2> HIDE DEF all
  <2> QED OBVIOUS
<1> QED BY <1>2, <1>3, <1>4, <1>5 DEF Selectable

\* The line of the document that is marked for an error in a line of the text sent is the line
\* that was sent.
LEMMA OwnLineIsMarked ==
    ASSUME DiagnosticsInv, NEW ranges, OneRange(ranges),
           NEW k \in DOMAIN getCombinedRangeLinesText(ranges)
    PROVE  LET line == getCombinedRangeLinesText(ranges)[k]
           IN line \in 1 .. Len(lines) /\ Marks(ranges, <<[file |-> "document", line |-> k]>>)["document"] = line
<1> DEFINE line == getCombinedRangeLinesText(ranges)[k]
           errors == <<[file |-> "document", line |-> k]>>
<1>1. k \in Int /\ line \in 1 .. Len(lines) /\ FileLine(ranges, k) = line
  <2>1. CASE ranges = <<>>
    BY <2>1 DEF DiagnosticsInv, getCombinedRangeLinesText, FileLine
  <2>2. ASSUME NEW a \in 1 .. Len(lines), NEW b \in 1 .. Len(lines), a <= b, ranges = << <<a, b>> >>
        PROVE  k \in Int /\ line \in 1 .. Len(lines) /\ FileLine(ranges, k) = line
    <3>1. getCombinedRangeLinesText(ranges) = [i \in 1 .. b - a + 1 |-> a + i - 1]
      <4>1. a \in Nat /\ b \in Nat
        BY DEF DiagnosticsInv
      <4> QED BY <2>2, <4>1, OneRangeIsSent
    <3>2. FileLine(ranges, k) = k + a - 1
      BY <2>2 DEF FileLine
    <3> QED BY <2>2, <3>1, <3>2 DEF DiagnosticsInv
  <2> QED BY <2>1, <2>2 DEF OneRange
<1>2. DOMAIN errors = {1} /\ errors[1].file = "document" /\ errors[1].line = k
      /\ (\A i \in {1} : \A j \in 1 .. i : j = 1)
  OBVIOUS
<1> HIDE DEF errors, line
<1> DEFINE Exists(i) == FileLine(ranges, errors[i].line) <= Len(lines)
           Marked(f) == {i \in DOMAIN errors : errors[i].file = f /\ \A j \in 1 .. i : Exists(j)}
<1>3. Exists(1)
  BY <1>1, <1>2 DEF DiagnosticsInv
<1>4. Marked("document") = {1}
  <2> HIDE DEF Exists
  <2> QED BY <1>2, <1>3
<1>5. "document" \in DOMAIN flagged
  BY DEF DiagnosticsInv
<1>6. Marks(ranges, errors)["document"] =
        LET first == FileLine(ranges, errors[CHOOSE i \in {1} : TRUE].line) IN IF first < 1 THEN 1 ELSE first
  BY <1>4, <1>5 DEF Marks
<1>7. (CHOOSE i \in {1} : TRUE) = 1
  OBVIOUS
<1> QED BY <1>1, <1>2, <1>6, <1>7 DEF errors, line, DiagnosticsInv

LEMMA FailureIsMarked ==
    ASSUME DiagnosticsInv, ExecutionFails
    PROVE  DiagnosticsInv'
<1> DEFINE sent == getCombinedRangeLinesText(execution.ranges)
<1>1. PICK errors \in parsePythonServerError(sent) :
        /\ flagged' = Marks(execution.ranges, errors)
        /\ execution' = [execution EXCEPT !.at = "failed", !.imported = Len(errors) > 1,
             !.wrong = IF errors # <<>> /\ Last(errors).file = "document" /\ Last(errors).line > 0
                       THEN sent[Last(errors).line] ELSE NoLine]
  BY DEF ExecutionFails
<1>2. lines' = lines
  BY DEF ExecutionFails
<1>3. /\ execution'.ranges = execution.ranges /\ execution'.imported = (Len(errors) > 1)
      /\ execution'.wrong = IF errors # <<>> /\ Last(errors).file = "document" /\ Last(errors).line > 0
                            THEN sent[Last(errors).line] ELSE NoLine
      /\ execution' = [at |-> execution'.at, ranges |-> execution'.ranges,
                       wrong |-> execution'.wrong, imported |-> execution'.imported]
  <2> HIDE DEF sent
  <2> QED BY <1>1 DEF DiagnosticsInv
<1>4. flagged' = [f \in {"document", "other"} |-> flagged'[f]]
  BY <1>1 DEF Marks, DiagnosticsInv
<1>5. OwnErrorsAreFlagged'
  <2> SUFFICES ASSUME Len(errors) <= 1, Len(execution.ranges) <= 1, execution'.wrong # NoLine, Len(errors) \in Nat
               PROVE  flagged'["document"] = execution'.wrong
    <3>1. Len(errors) \in Nat
      BY DEF parsePythonServerError
    <3>2. ~execution'.imported => ~(Len(errors) > 1)
      BY <1>3, Zenon
    <3> QED BY <1>3, <3>1, <3>2 DEF OwnErrorsAreFlagged, Flagged
  <2>1. errors # <<>> /\ Last(errors).file = "document" /\ Last(errors).line > 0
        /\ execution'.wrong = sent[Last(errors).line]
    BY <1>3
  <2>2. PICK k \in DOMAIN sent : errors = <<[file |-> "document", line |-> k]>>
    <3> HIDE DEF sent
    <3> QED BY <2>1 DEF parsePythonServerError, Last
  <2>3. Last(errors).line = k
    BY <2>2 DEF Last
  <2>4. OneRange(execution.ranges)
    BY DEF DiagnosticsInv
  <2> QED BY <1>1, <2>1, <2>2, <2>3, <2>4, OwnLineIsMarked
<1>6. Len(execution'.ranges) <= 1 => OneRange(execution.ranges)
  BY <1>3 DEF DiagnosticsInv
<1>7. OneRange(execution.ranges) => OneRange(execution.ranges)'
  BY <1>2, <1>3 DEF OneRange
<1> QED BY <1>2, <1>3, <1>4, <1>5, <1>6, <1>7 DEF DiagnosticsInv

\* DiagnosticsInv is inductive: one range at most lies within the document, and the line that is
\* marked is the line that was sent.
THEOREM DiagnosticsInvInductive == DiagnosticsSpec => []DiagnosticsInv
<1>1. ASSUME DiagnosticsInit PROVE DiagnosticsInv
  <2>1. PICK n \in 1 .. MaxLines : lines \in [1 .. n -> {"code", "python", "fence"}]
    BY <1>1 DEF DiagnosticsInit
  <2>2. Len(lines) \in Nat /\ DOMAIN lines = 1 .. Len(lines)
    BY <2>1, RunDiagnosticsAssumption
  <2>3. execution = NotRun /\ flagged = [f \in {"document", "other"} |-> NoLine]
    BY <1>1 DEF DiagnosticsInit
  <2> QED BY <2>2, <2>3 DEF DiagnosticsInv, NotRun, OneRange, OwnErrorsAreFlagged, Flagged
<1>2. ASSUME DiagnosticsInv, [DiagnosticsNext]_diagnosticsVars PROVE DiagnosticsInv'
  <2>1. CASE ExecutionStarts
    <3>1. PICK ranges \in Selectable : execution' = [NotRun EXCEPT !.at = "running", !.ranges = ranges]
      BY <2>1 DEF ExecutionStarts
    <3>2. lines' = lines /\ flagged' = [flagged EXCEPT !["document"] = NoLine]
      BY <2>1 DEF ExecutionStarts
    <3>3. execution' = [at |-> "running", ranges |-> ranges, wrong |-> NoLine, imported |-> FALSE]
      BY <3>1 DEF NotRun
    <3>4. Len(ranges) <= 1 => OneRange(ranges)
      BY <1>2, OneIsSelected DEF DiagnosticsInv
    <3>5. OneRange(ranges) => OneRange(execution.ranges)'
      BY <3>2, <3>3 DEF OneRange
    <3>6. flagged' = [f \in {"document", "other"} |-> flagged'[f]]
      BY <1>2, <3>2 DEF DiagnosticsInv
    <3> QED BY <1>2, <3>2, <3>3, <3>4, <3>5, <3>6 DEF DiagnosticsInv, OwnErrorsAreFlagged, Flagged
  <2>2. CASE ExecutionSucceeds
    <3>1. UNCHANGED <<lines, flagged>> /\ execution' = NotRun
      BY <2>2 DEF ExecutionSucceeds
    <3> QED BY <1>2, <3>1 DEF DiagnosticsInv, NotRun, OneRange, OwnErrorsAreFlagged, Flagged
  <2>3. CASE ExecutionFails
    BY <1>2, <2>3, FailureIsMarked
  <2>4. CASE UNCHANGED diagnosticsVars
    BY <1>2, <2>4 DEF diagnosticsVars, DiagnosticsInv, OneRange, OwnErrorsAreFlagged, Flagged
  <2> QED BY <1>2, <2>1, <2>2, <2>3, <2>4 DEF DiagnosticsNext
<1> QED BY <1>1, <1>2, PTL DEF DiagnosticsSpec

\* When the whole document, or one range of it, was run and its own code is wrong, the line that
\* is marked is the one that failed, for documents of any length (DhcService.runCode,
\* getCombinedRangeLinesText).
THEOREM OwnErrorsAreAlwaysFlagged == DiagnosticsSpec => []OwnErrorsAreFlagged
<1>1. DiagnosticsInv => OwnErrorsAreFlagged
  BY DEF DiagnosticsInv
<1> QED BY <1>1, DiagnosticsInvInductive, PTL

-----------------------------------------------------------------------------
(* ImportHints                                                             *)

HintsInv == marked \in [Python \cup Groovy -> SUBSET Errors] /\ OwnErrorIsAnswered

\* What the tool answers to a failed run of a document, with the errors that are marked.
AnswerTo(d, e, errors) ==
    [of |-> d, error |-> e, marks |-> errors,
     reported |-> IF errors # {} THEN {x[2] : x \in errors} ELSE {e},
     install |-> ImportErrors(errors, e) # {} /\ ~plugin,
     folders |-> IF plugin THEN Hint(d, ImportErrors(errors, e)) ELSE {}]

\* The folders that an error calls for are found among those of several errors, unless another
\* asks for a subpackage of the same package.
LEMMA OwnHint ==
    ASSUME NEW d \in Python \cup Groovy, NEW e \in Errors, NEW missing, e \in missing, e.missing # Nothing
    PROVE  \/ Own(d, e) \subseteq Hint(d, missing)
           \/ d \in Groovy /\ \E x \in missing : x.missing = e.missing /\ x.sub # e.sub
<1> DEFINE own == {e} \ {x \in {e} : x.missing = Nothing}
<1>1. own = {e}
  OBVIOUS
<1>2. CASE d \in Python
  <2>1. createPythonModuleImportErrorHint({e}) \subseteq createPythonModuleImportErrorHint(missing)
    BY DEF createPythonModuleImportErrorHint
  <2> QED BY <1>1, <1>2, <2>1 DEF Own, Hint
<1>3. CASE d \notin Python /\ ~ \E x \in missing : x.missing = e.missing /\ x.sub # e.sub
  <2>1. ASSUME NEW f \in createGroovyImportErrorHint({e})
        PROVE  f \in createGroovyImportErrorHint(missing)
    <3> DEFINE of(m) == {x \in m : x.missing = folder[f].name}
               required(m) == {x.sub : x \in of(m)} \ {Nothing}
    <3>1. f \in Folders /\ of({e}) # {} /\ (required({e}) = {} \/ required({e}) \cap folder[f].children # {})
      BY DEF createGroovyImportErrorHint
    <3>2. e \in of(missing) /\ \A x \in of(missing) : x.sub = e.sub
      BY <1>3, <3>1
    <3>3. of({e}) = {e}
      BY <3>1
    <3>4. required(missing) = required({e})
      <4> HIDE DEF of
      <4> QED BY <3>2, <3>3
    <3> QED BY <3>1, <3>2, <3>4 DEF createGroovyImportErrorHint
  <2> QED BY <1>1, <1>3, <2>1 DEF Own, Hint
<1> QED BY <1>2, <1>3

LEMMA AnswerIsOwn ==
    ASSUME marked \in [Python \cup Groovy -> SUBSET Errors], NEW d \in Python \cup Groovy, NEW e \in Errors,
           marked[d] = MarkedErrors(d, e), answer = AnswerTo(d, e, getDiagnosticsErrors(d, marked))
    PROVE  OwnErrorIsAnswered
<1> DEFINE errors == getDiagnosticsErrors(d, marked)
           told == {x \in {y[2] : y \in errors} : x.missing # Nothing}
           missing == ImportErrors(errors, e)
<1>1. /\ answer.of = d /\ answer.error = e /\ answer.marks = errors
      /\ answer.reported = IF errors # {} THEN {x[2] : x \in errors} ELSE {e}
      /\ answer.folders = IF plugin THEN Hint(d, missing) ELSE {}
  BY DEF AnswerTo
<1>2. answer.install = (missing # {} /\ ~plugin)
  BY DEF AnswerTo
<1> SUFFICES ASSUME d # Nothing, OthersMarked => MarkedErrors(d, e) # {}
             PROVE  /\ e \in answer.reported
                    /\ e.missing # Nothing => answer.install = ~plugin
                    /\ plugin => \/ Own(d, e) \subseteq answer.folders
                                 \/ d \in Groovy /\ \E x \in answer.marks : x[2].missing = e.missing /\ x[2].sub # e.sub
  BY <1>1 DEF OwnErrorIsAnswered
<1>3. \A x \in errors : x[1] \in Alike(d) /\ x[2] \in marked[x[1]]
  BY DEF getDiagnosticsErrors
<1>4. missing = IF told # {} THEN told ELSE {x \in {e} : x.missing # Nothing}
  BY DEF ImportErrors
<1>5. e \in answer.reported /\ (e.missing # Nothing => e \in missing)
  <2>1. CASE MarkedErrors(d, e) # {}
    <3>1. d \in Alike(d) /\ e \in marked[d]
      BY <2>1 DEF MarkedErrors, Alike
    <3>2. <<d, e>> \in errors
      BY <3>1 DEF getDiagnosticsErrors
    <3> HIDE DEF errors
    <3>3. e \in {x[2] : x \in errors}
      BY <3>2
    <3> QED BY <1>1, <1>4, <3>2, <3>3
  <2>2. CASE MarkedErrors(d, e) = {}
    <3>1. \A c \in Alike(d) : marked[c] = {}
      BY <1>1, <2>2 DEF OthersMarked
    <3>2. errors = {}
      BY <1>3, <3>1
    <3> HIDE DEF errors
    <3> QED BY <1>1, <1>4, <3>2
  <2> QED BY <2>1, <2>2
<1>6. e.missing # Nothing => answer.install = ~plugin
  <2> SUFFICES ASSUME e.missing # Nothing PROVE answer.install = ~plugin
    OBVIOUS
  <2>1. missing # {}
    BY <1>5
  <2> HIDE DEF missing
  <2> QED BY <1>2, <2>1, Zenon
<1>7. \A x \in missing : x # e => \E y \in errors : y[2] = x
  <2> HIDE DEF errors
  <2> QED BY <1>4
<1>8. CASE e.missing = Nothing
  <2>1. Own(d, e) = {}
    BY <1>8 DEF Own, Hint, createPythonModuleImportErrorHint, createGroovyImportErrorHint
  <2> QED BY <1>5, <1>8, <2>1
<1>9. CASE e.missing # Nothing
  <2> HIDE DEF missing, errors
  <2>1. \/ Own(d, e) \subseteq Hint(d, missing)
        \/ d \in Groovy /\ \E x \in missing : x.missing = e.missing /\ x.sub # e.sub
    BY <1>5, <1>9, OwnHint
  <2>2. CASE Own(d, e) \subseteq Hint(d, missing)
    BY <1>1, <1>5, <1>6, <2>2
  <2>3. CASE d \in Groovy /\ \E x \in missing : x.missing = e.missing /\ x.sub # e.sub
    BY <1>1, <1>5, <1>6, <1>7, <2>3
  <2> QED BY <2>1, <2>2, <2>3
<1> QED BY <1>8, <1>9

RunIsAnswered(d, e) ==
    /\ marked \in [Python \cup Groovy -> SUBSET Errors]
    /\ marked[d] = MarkedErrors(d, e)
    /\ answer = AnswerTo(d, e, getDiagnosticsErrors(d, marked))
OwnIsAnswered == \A d \in Python \cup Groovy, e \in Errors : RunIsAnswered(d, e) => OwnErrorIsAnswered

LEMMA AnswersAreOwn == OwnIsAnswered
BY AnswerIsOwn DEF OwnIsAnswered, RunIsAnswered

\* HintsInv is inductive: what is marked is errors, and the answer is made of what is marked when
\* the run has failed.
THEOREM HintsInvInductive == HintsSpec => []HintsInv
<1>1. ASSUME HintsInit PROVE HintsInv
  BY <1>1 DEF HintsInit, HintsInv, OwnErrorIsAnswered, NoAnswer
<1>2. ASSUME HintsInv, [HintsNext]_hintVars PROVE HintsInv'
  <2>a. \A d \in Python \cup Groovy, e \in Errors : MarkedErrors(d, e) \in SUBSET Errors
    BY DEF MarkedErrors
  <2>1. ASSUME NEW d \in Python \cup Groovy, RunOfDocument(d) PROVE HintsInv'
    <3>1. PICK marks \in {{}} \cup {MarkedErrors(d, e) : e \in Errors} : marked' = [marked EXCEPT ![d] = marks]
      BY <2>1 DEF RunOfDocument
    <3>2. marks \in SUBSET Errors
      BY <2>a
    <3>3. marked' \in [Python \cup Groovy -> SUBSET Errors]
      BY <1>2, <3>1, <3>2 DEF HintsInv
    <3>4. answer'.of = Nothing
      BY <2>1 DEF RunOfDocument, NoAnswer
    <3> QED BY <3>3, <3>4 DEF HintsInv, OwnErrorIsAnswered
  <2>2. ASSUME NEW d \in Python \cup Groovy, RunForAgent(d) PROVE HintsInv'
    <3>1. PICK e \in Errors :
            /\ marked' = [marked EXCEPT ![d] = MarkedErrors(d, e)]
            /\ answer' = AnswerTo(d, e, getDiagnosticsErrors(d, marked'))
      BY <2>2 DEF RunForAgent, AnswerTo
    <3>2. UNCHANGED <<folder, plugin>>
      BY <2>2 DEF RunForAgent
    <3>3. marked' \in [Python \cup Groovy -> SUBSET Errors] /\ marked'[d] = MarkedErrors(d, e)
      BY <1>2, <2>a, <3>1 DEF HintsInv
    <3>4. answer' = AnswerTo(d, e, getDiagnosticsErrors(d, marked))'
      BY <3>1, <3>2 DEF AnswerTo, getDiagnosticsErrors, Hint, createPythonModuleImportErrorHint,
                        createGroovyImportErrorHint
    <3>5. OwnIsAnswered'
      BY AnswersAreOwn, PTL
    <3>6. OwnErrorIsAnswered'
      BY <3>3, <3>4, <3>5 DEF OwnIsAnswered, RunIsAnswered
    <3> QED BY <3>3, <3>6 DEF HintsInv
  <2>3. CASE UNCHANGED hintVars
    BY <1>2, <2>3 DEF hintVars, HintsInv, OwnErrorIsAnswered, OthersMarked, Own, Hint,
                      createPythonModuleImportErrorHint, createGroovyImportErrorHint
  <2> QED BY <1>2, <2>1, <2>2, <2>3 DEF HintsNext
<1> QED BY <1>1, <1>2, PTL DEF HintsSpec

\* The tool reports the error of its own run and offers what that error calls for, whatever the
\* runs of other documents left marked, for any documents, packages and folders (runCodeFromUri,
\* getDiagnosticsErrors, the import hints).
THEOREM OwnErrorsAreAnswered == HintsSpec => []OwnErrorIsAnswered
<1>1. HintsInv => OwnErrorIsAnswered
  BY DEF HintsInv
<1> QED BY <1>1, HintsInvInductive, PTL

=============================================================================
