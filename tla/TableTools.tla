----------------------------- MODULE TableTools -----------------------------
(***************************************************************************)
(* The tools that read what a connection has (mcp/tools and                  *)
(* mcp/utils/tableUtils.ts): pages of a table, statistics of a table or of a *)
(* column, variables, connections.  Each awaits the connection, its panel    *)
(* URL, the variable and the table; in between rows are appended and the     *)
(* connection is lost and made again.  An agent pages through the table as   *)
(* the tool's description tells it to.                                     *)
(***************************************************************************)
EXTENDS Integers

CONSTANTS
    Calls,      \* calls of tools that are under way; one of them is the agent's that pages
    Pager,
    MaxRows,    \* bound: rows of the table
    Limits      \* sizes of pages

ASSUME TableToolsAssumption == Pager \in Calls /\ MaxRows \in Nat /\ Limits \subseteq Nat \ {0}

VARIABLES
    up,         \* whether the connection is there
    size,       \* rows of the table on the server
    call,       \* the calls of tools
    tables,     \* tables the calls have open on the server
    page        \* the agent's: rows it has seen, whether it is told of more, how many there were

toolVars == <<up, size, call, tables, page>>

NoCall == [at |-> "none", tool |-> "none", offset |-> 0, limit |-> 0, totalRows |-> 0, ok |-> FALSE]
TableTools == {"getTableData", "getTableStats", "getColumnStats"}
OtherTools == {"listVariables", "openVariablePanels", "listConnections"}

ToolsTablesInit ==
    /\ up \in BOOLEAN /\ size \in 0 .. MaxRows
    /\ call = [c \in Calls |-> NoCall] /\ tables = {}
    /\ page = [offset |-> 0, seen |-> {}, more |-> TRUE, first |-> 0]

-----------------------------------------------------------------------------

Is(c, stage) == call[c].at = stage
Reaches(c, stage) == call' = [call EXCEPT ![c].at = stage] /\ UNCHANGED <<tables, page>>

\* The call is answered; a table it has open is closed first.
Closed(c) == tables \ {c}
Answered(c, success) ==
    /\ call' = [call EXCEPT ![c] = [NoCall EXCEPT !.at = "answered", !.ok = success]]
    /\ tables' = Closed(c)
Refuses(c) == Answered(c, FALSE) /\ UNCHANGED page

CallTableTool(c) ==
    /\ call[c].at \in {"none", "answered"}
    /\ \E tool \in TableTools \cup OtherTools, limit \in Limits :
         /\ c = Pager => tool = "getTableData" /\ page.more
         /\ call' = [call EXCEPT ![c] = [NoCall EXCEPT !.at = "connecting", !.tool = tool,
                       !.limit = limit, !.offset = IF c = Pager THEN page.offset ELSE 0]]
    /\ UNCHANGED <<up, size, tables, page>>

\* Connections are listed with what is known of their workers, without making one.
listConnections(c) ==
    /\ Is(c, "connecting") /\ call[c].tool = "listConnections"
    /\ Answered(c, TRUE)
    /\ UNCHANGED <<up, size, page>>

\* The connection is there or is made, which may fail; the format of its panel URLs is asked for.
ConnectionFor(c) ==
    /\ Is(c, "connecting") /\ call[c].tool # "listConnections"
    /\ \/ Reaches(c, "panel URL") /\ up' = TRUE
       \/ ~up /\ Refuses(c) /\ UNCHANGED up
    /\ UNCHANGED size

\* Variables are listed, or panels opened, without asking again whether the connection is there.
getPanelUrlFormat(c) ==
    /\ Is(c, "panel URL")
    /\ IF call[c].tool \in TableTools THEN Reaches(c, "connection")
       ELSE Answered(c, TRUE) /\ UNCHANGED page
    /\ UNCHANGED <<up, size>>

\* The connection, the variable and the API are awaited; the variable may be no table, or none.
getConnection(c) ==
    /\ Is(c, "connection")
    /\ (up /\ Reaches(c, "variable")) \/ Refuses(c)
    /\ UNCHANGED <<up, size>>

fetchVariableDefinitionByPredicate(c) ==
    /\ Is(c, "variable")
    /\ (up /\ Reaches(c, "table")) \/ Refuses(c)
    /\ UNCHANGED <<up, size>>

\* The table is opened.  Its statistics are at hand; of a column they are asked for, if there
\* is one; for a page its size is read and a viewport is set.
getObject(c) ==
    /\ Is(c, "table")
    /\ \/ /\ up /\ tables' = tables \cup {c}
          /\ call' = [call EXCEPT ![c].at = "open", ![c].totalRows = size]
          /\ UNCHANGED page
       \/ Refuses(c)
    /\ UNCHANGED <<up, size>>

getTableStats(c) ==
    /\ Is(c, "open") /\ call[c].tool # "getTableData"
    /\ (call[c].tool = "getColumnStats" /\ Refuses(c)) \/ (Answered(c, TRUE) /\ UNCHANGED page)
    /\ UNCHANGED <<up, size>>

\* Whether there are rows behind the page.  A faulty variant stands before the operator.
hasMoreThanNext(c) == call[c].offset + call[c].limit < call[c].totalRows - 1
hasMore(c) == call[c].offset + call[c].limit - 1 < call[c].totalRows - 1

getTablePage(c) ==
    LET endRow == call[c].offset + call[c].limit - 1
        data == {i \in call[c].offset .. endRow : i < size}
    IN /\ Is(c, "open") /\ call[c].tool = "getTableData"
       /\ Answered(c, up)
       /\ page' = IF up /\ c = Pager
                  THEN [offset |-> endRow + 1, seen |-> page.seen \cup data, more |-> hasMore(c),
                        first |-> call[c].totalRows]
                  ELSE page
       /\ UNCHANGED <<up, size>>

\* Every table of the connection ends with it.
ConnectionLost ==
    /\ up /\ up' = FALSE /\ tables' = {}
    /\ UNCHANGED <<size, call, page>>

RowAppended ==
    /\ size < MaxRows /\ size' = size + 1
    /\ UNCHANGED <<up, call, tables, page>>

PagesRestart ==
    /\ ~page.more /\ page' = [offset |-> 0, seen |-> {}, more |-> TRUE, first |-> 0]
    /\ UNCHANGED <<up, size, call, tables>>

TableToolsNext ==
    \/ \E c \in Calls :
         \/ CallTableTool(c) \/ listConnections(c) \/ ConnectionFor(c) \/ getPanelUrlFormat(c)
         \/ getConnection(c) \/ fetchVariableDefinitionByPredicate(c) \/ getObject(c)
         \/ getTableStats(c) \/ getTablePage(c)
    \/ ConnectionLost \/ RowAppended \/ PagesRestart

TableToolsSpec == ToolsTablesInit /\ [][TableToolsNext]_toolVars

-----------------------------------------------------------------------------
(* Properties.                                                             *)

\* An agent that asks for pages until it is told that there are no more has seen every row that
\* the table had when it asked for the last page, though rows are appended, calls fail and the
\* size is read before the rows (getTablePage).
PagesCoverTable == ~page.more => \A i \in 0 .. page.first - 1 : i \in page.seen

=============================================================================
