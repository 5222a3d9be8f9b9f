------------------------------ MODULE MCSources ------------------------------
(* The folders that are marked and what is answered from them, and the runs  *)
(* and updates that take them to servers: of the first the second sees only *)
(* that they change.  In a behaviour one of them is active and the other    *)
(* stays as it is, which for the second is without connections.            *)
EXTENDS SourceResolution, RemoteFileSources

VARIABLE part

SourcesInit ==
    /\ part \in {"workspace", "updates"}
    /\ WorkspaceInit /\ Init
    /\ part = "workspace" <=> \A s \in Sessions : phase[s] = "closed"
    /\ part # "workspace" => disk = Files /\ request[CHOOSE r \in Requests : TRUE].for = "watcher"

SourcesNext ==
    /\ part' = part
    /\ \/ part = "workspace" /\ WorkspaceNext /\ UNCHANGED vars
       \/ part = "updates" /\ Next /\ UNCHANGED workspaceVars

SourcesSpec == SourcesInit /\ [][SourcesNext]_<<part, workspaceVars, vars>> /\ Fairness

\* The folder b holds a folder a and a folder c; in that are a module and a folder a, of the name
\* of the folders beside it and outside b, and a folder of the name of b.
MCFiles == {<<"a", "c.py">>, <<"b", "a", "c.py">>, <<"b", "c", "a.py">>,
            <<"b", "c", "a", "__init__.py">>, <<"b", "c", "b", "a.py">>}
MCVolatile == {<<"b", "c", "a", "__init__.py">>}
MCSegments == {"a", "b", "c"}
MCPyFile == [a |-> "a.py", b |-> "b.py", c |-> "c.py"]
MCOffered == {Root, <<"b">>, <<"b", "c", "b">>}
MCToolLists == {<< <<"a">>, <<"b", "a">>, <<"a">> >>, << <<"b", "c", "a">>, <<"b">> >>}

Pairs == {{}, Python} \cup {{s} \cup Groovy : s \in Python}
Plain == {{}}

-----------------------------------------------------------------------------
(* What the code does with the commands that are Mistaken, and why a         *)
(* promotion may take sources away (OnlyCommandsTakeSources).                *)

NoMarks == [marked |-> {}, top |-> [m \in Segments |-> NoUri]]

\* A folder holds one of its own name further down, which its own promotion unmarks: it ends
\* as a top-level folder that is not marked.
ASSUME UnmarkedWhilePromoted ==
    LET files == {<<"a", "b", "a", "a.py">>, <<"a", "b", "c", "a.py">>}
        w == unmarkFolder(files)[<<markFolder(files, NoMarks, <<"a">>), <<"a", "b", "c">>>>]
    IN w.marked = {} /\ w.top["a"] = <<"a", "b", "a">>

\* The workspace folder is marked, but no folder is top-level.
ASSUME WorkspaceFolderIsMarked ==
    LET files == {<<"a", "a.py">>, <<"b", "a.py">>}
        w == markFolder(files, markFolder(files, NoMarks, <<"a">>), Root)
    IN w.marked = Known(files) /\ w.top = NoMarks.top

\* A list has two folders of one name; making room for the second promotes a third, whose
\* entry is overwritten, and which stays marked.
ASSUME NameIsTakenAgain ==
    LET files == {<<"a", "b", "c", "a.py">>, <<"a", "c", "a.py">>, <<"b", "c", "a.py">>}
        w == MarkAll(files, markFolder(files, NoMarks, <<"a">>), << <<"a", "b", "c">>, <<"b", "c">> >>)
    IN <<"a", "c">> \in w.marked /\ \A m \in Segments : w.top[m] \in {NoUri, <<"b", "c">>}

\* Removing a folder promotes two of one name, of which one is lost.
ASSUME PromotionIsLost ==
    LET files == {<<"a", "b", "c", "a.py">>, <<"a", "b", "a", "a.py">>, <<"a", "c", "a.py">>}
        w == unmarkFolder(files)[<<markFolder(files, NoMarks, <<"a">>), <<"a", "b", "a">>>>]
    IN w.marked = {<<"a", "c">>, <<"a", "c", "a.py">>} /\ w.top["c"] = <<"a", "c">>

=============================================================================
