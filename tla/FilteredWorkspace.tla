------------------------- MODULE FilteredWorkspace -------------------------
(***************************************************************************)
(* FilteredWorkspace (services/FilteredWorkspace.ts): the tree of the      *)
(* Python (or Groovy) files of the workspace and the folders the user has  *)
(* marked as remote file sources, with the commands, the MCP tools and the *)
(* file system watchers that change them.                                  *)
(*                                                                         *)
(* A URI is the sequence of its path segments below the workspace folder,  *)
(* whose own URI is <<>>.  The tree is a function of the files a scan      *)
(* found, so it is kept as that set.                                       *)
(***************************************************************************)
EXTENDS SequencesExt, FiniteSets, Naturals

CONSTANTS
    Files,      \* the URIs at which there may be a file that the pattern matches
    Volatile,   \* those that come and go, the others are always there
    Segments,   \* the segments of folder URIs, each also a top-level module name
    RootName,   \* the last segment of the URI of the workspace folder
    Offered,    \* the folders for which the tree view or the Explorer offers the commands
    ToolLists,  \* the lists of folders the MCP tools are given
    Requests,   \* the calls of refresh that may be in flight together
    NoUri

Root == <<>>

-----------------------------------------------------------------------------
(* The tree.                                                               *)

Above(u) == {SubSeq(u, 1, n) : n \in 1..(Len(u) - 1)}   \* without the root
Under(u, v) == IsPrefix(v, u)                           \* u is v or below it

Known(files) == files \cup UNION {Above(f) : f \in files}
Folders(files) == UNION {Above(f) : f \in files}

ASSUME WorkspaceAssumption ==
    /\ \A f \in Files : /\ f \in Seq(Range(f)) /\ Len(f) > 0
                         /\ \A i \in 1..Len(f) : f[i] \in Segments <=> i < Len(f)
    /\ RootName \in Segments
    /\ Offered \subseteq Seq(Segments) /\ ToolLists \subseteq Seq(Seq(Segments))
    /\ Volatile \subseteq Files /\ IsFiniteSet(Files) /\ NoUri \notin Known(Files)

VARIABLES
    disk,       \* the files there are
    tree,       \* the files of the scan that _nodeMap, _childNodeMap... were built from
    marked,     \* the nodes with isMarked
    topLevel,   \* _topLevelMarkedUriMap
    request,    \* what a call of refresh in flight is for, and what its scan found
    fired       \* whether the last step fired onDidUpdate

workspaceVars == <<disk, tree, marked, topLevel, request, fired>>

hasFile(u) == u \in tree
hasFolder(u) == u \in Folders(tree)

\* The top-level module name of a folder.
getTopLevelModuleName(u) == IF u = Root THEN RootName ELSE Last(u)

\* The nodes iterateNodeTree visits, the root left out; none for a URI it does not know.
iterateNodeTree(files, u) == {n \in Known(files) : Under(n, u)}

\* iterateAncestors, nearest first, and the children of a node in some fixed order.
iterateAncestors(files, u) ==
    IF u \in Known(files) THEN [i \in 1..(Len(u) - 1) |-> SubSeq(u, 1, Len(u) - i)] ELSE <<>>
getChildNodes(files, u) == SetToSeq({n \in Known(files) : Front(n) = u})

-----------------------------------------------------------------------------
(* Marking and unmarking.  w is [marked, top]: the flags and the map.  A   *)
(* definition that is used nowhere (RemarkNone, UnmarkFirst...) is a      *)
(* faulty variant of the one it stands before.                             *)

Marks(files) ==
    {w \in [marked : SUBSET Known(files), top : [Segments -> Folders(files) \cup {NoUri}]] :
        \A m \in Segments : w.top[m] # NoUri => Last(w.top[m]) = m}

\* deleteExactTopLevelMarkedUri for each of the nodes N.
deleteExactTopLevel(top, N) == [m \in Segments |-> IF top[m] \in N THEN NoUri ELSE top[m]]

\* Unmarking a folder unmarks others whose names conflict with what becomes top-level:
\* unmark is unmarkFolder, as a function of the marks and the URI.
unmarkConflictingTopLevelFolder(unmark, w, u) ==
    LET existing == w.top[getTopLevelModuleName(u)]
    IN IF existing \in {NoUri, u} THEN w ELSE unmark[<<w, existing>>]

\* One child of an ancestor of the unmarked folder: a folder that is still marked becomes
\* top-level, a file loses its mark.
Promote(unmark, files, w, c) ==
    IF c \notin w.marked THEN w
    ELSE IF c \in Folders(files)
    THEN [unmarkConflictingTopLevelFolder(unmark, w, c) EXCEPT !.top[Last(c)] = c]
    ELSE [w EXCEPT !.marked = @ \ {c}]

UnmarkAncestor(unmark, files, w, a) ==
    FoldLeft(LAMBDA v, c : Promote(unmark, files, v, c),
             [marked |-> w.marked \ {a}, top |-> deleteExactTopLevel(w.top, {a})],
             getChildNodes(files, a))

UnmarkStep(unmark, files, w, u) ==
    LET below == iterateNodeTree(files, u)
    IN FoldLeft(LAMBDA v, a : UnmarkAncestor(unmark, files, v, a),
                [marked |-> w.marked \ below, top |-> deleteExactTopLevel(w.top, below)],
                iterateAncestors(files, u))

\* How deep unmarkFolder calls itself at most: every call unmarks a folder, or takes one out
\* of the map that had been unmarked before it was set.
Depth(files) == (Cardinality(Known(files)) + 1) * (Cardinality(Known(files)) + 1)

unmarkFolder(files) ==
    LET unmark[d \in Nat] ==
          [p \in Marks(files) \X Seq(Segments) |->
              IF d = 0 THEN p[1] ELSE UnmarkStep(unmark[d - 1], files, p[1], p[2])]
    IN unmark[Depth(files)]

markFolder(files, w, u) ==
    LET v == unmarkConflictingTopLevelFolder(unmarkFolder(files), w, u)
        below == iterateNodeTree(files, u)
        top == deleteExactTopLevel(v.top, below \ {u})
    IN [marked |-> v.marked \cup below,
        top |-> IF u \in below THEN [top EXCEPT ![Last(u)] = u] ELSE top]

\* refresh, once its scan has found files: new nodes, none of them marked, then the
\* top-level folders that are still there are marked again.
RemarkNone(files, top) == [marked |-> {}, top |-> top]
ReapplyMarks(files, top) ==
    LET kept == {top[m] : m \in Segments} \cap Known(files)
        outer == {u \in kept : Above(u) \cap kept = {}}
    IN [marked |-> UNION {iterateNodeTree(files, u) : u \in outer},
        top |-> [m \in Segments |-> IF top[m] \in outer THEN top[m] ELSE NoUri]]

\* The nodes in a top-level folder, and the files among them, which a server may ask for.
IsSource(f, top) == \E m \in Segments : top[m] # NoUri /\ Under(f, top[m])
sources == {f \in tree : IsSource(f, topLevel)}

-----------------------------------------------------------------------------
(* The specification.                                                      *)

UniqueUris(p) == FoldLeft(LAMBDA s, u : IF Contains(s, u) THEN s ELSE Append(s, u), <<>>, p)

Idle == [for |-> "none", uris |-> <<>>, scanned |-> FALSE, scan |-> {}]

WorkspaceInit ==
    /\ \E V \in SUBSET Volatile : disk = Files \ V
    /\ tree = {} /\ marked = {} /\ topLevel = [m \in Segments |-> NoUri]
    /\ \E r \in Requests :   \* the refresh of the constructor
          request = [q \in Requests |-> IF q = r THEN [Idle EXCEPT !.for = "watcher"] ELSE Idle]
    /\ fired = FALSE

Begin(r, for, uris) ==
    /\ request[r].for = "none"
    /\ request' = [request EXCEPT ![r] = [Idle EXCEPT !.for = for, !.uris = uris]]

\* The watcher's onDidCreate and onDidDelete.
FileCreatedOrDeleted(f, r) ==
    /\ disk' = (disk \cup {f}) \ (disk \cap {f})
    /\ Begin(r, "watcher", <<>>)
    /\ fired' = FALSE
    /\ UNCHANGED <<tree, marked, topLevel>>

\* The watcher's onDidChange: it fires for a path under a top-level folder.
isUnderMarkedFolder(f) == \E m \in Segments : topLevel[m] # NoUri /\ Under(f, topLevel[m])
FileChanged(f) ==
    /\ f \in disk
    /\ fired' = isUnderMarkedFolder(f)
    /\ UNCHANGED <<disk, tree, marked, topLevel, request>>

\* The commands, which refresh first, and the MCP tools that execute them.
onAddRemoteFileSource(r, uris) ==
    /\ Begin(r, "add", uris)
    /\ fired' = FALSE
    /\ UNCHANGED <<disk, tree, marked, topLevel>>
onRemoveRemoteFileSource(r, uris) ==
    /\ Begin(r, "remove", uris)
    /\ fired' = FALSE
    /\ UNCHANGED <<disk, tree, marked, topLevel>>
addRemoteFileSources(r, p) == onAddRemoteFileSource(r, UniqueUris(p))
removeRemoteFileSources(r, p) == onRemoveRemoteFileSource(r, UniqueUris(p))

\* getWorkspaceFileUriMap reads the disk, at some time before refresh goes on.
findFiles(r) ==
    /\ request[r].for # "none" /\ ~request[r].scanned
    /\ request' = [request EXCEPT ![r].scanned = TRUE, ![r].scan = disk]
    /\ fired' = FALSE
    /\ UNCHANGED <<disk, tree, marked, topLevel>>

\* The marks of the folders that a command was given.
MarkAll(files, w, uris) == FoldLeft(LAMBDA v, u : markFolder(files, v, u), w, uris)
UnmarkFirst(files, w, uris) == IF uris = <<>> THEN w ELSE unmarkFolder(files)[<<w, Head(uris)>>]
UnmarkAll(files, w, uris) == FoldLeft(LAMBDA v, u : unmarkFolder(files)[<<v, u>>], w, uris)

\* The rest of refresh, and of the command that called it: its marks are made without a
\* break after the refresh, and fire onDidUpdate unless it was given no folders.
NotifyOfCommands(q) == q.for # "watcher" /\ q.uris # <<>>
Notifies(q) == q.for = "watcher" \/ q.uris # <<>>
Refresh(r) ==
    LET q == request[r]
        w == ReapplyMarks(q.scan, topLevel)
        done == CASE q.for = "add" -> MarkAll(q.scan, w, q.uris)
                  [] q.for = "remove" -> UnmarkAll(q.scan, w, q.uris)
                  [] OTHER -> w
    IN /\ q.scanned
       /\ tree' = q.scan /\ marked' = done.marked /\ topLevel' = done.top
       /\ request' = [request EXCEPT ![r] = Idle]
       /\ fired' = Notifies(q)
       /\ UNCHANGED disk

WorkspaceNext ==
    \/ \E f \in Volatile, r \in Requests : FileCreatedOrDeleted(f, r)
    \/ \E f \in Files : FileChanged(f)
    \/ \E r \in Requests, u \in Offered :
          onAddRemoteFileSource(r, <<u>>) \/ onRemoveRemoteFileSource(r, <<u>>)
    \/ \E r \in Requests, p \in ToolLists :
          addRemoteFileSources(r, p) \/ removeRemoteFileSources(r, p)
    \/ \E r \in Requests : findFiles(r) \/ Refresh(r)

WorkspaceSpec == WorkspaceInit /\ [][WorkspaceNext]_workspaceVars

-----------------------------------------------------------------------------
(* Properties.                                                             *)

\* What the tree view and the file decorations show as marked (isMarked) is what the servers
\* are given (the top-level folders): a node is marked exactly when it is in a top-level
\* folder, and every top-level folder is in the tree.
MarksAgree ==
    /\ marked = {n \in Known(tree) : IsSource(n, topLevel)}
    /\ \A m \in Segments : topLevel[m] # NoUri => hasFolder(topLevel[m]) /\ Last(topLevel[m]) = m

\* Beside the way from a folder d down to u, and not directly in d, is a folder of d's name:
\* its promotion unmarks d, and with it everything in d, itself too.
Namesake(files, u, d) ==
    \E c \in Folders(files) :
        /\ Last(c) = Last(d) /\ Under(Front(c), d) /\ Front(c) # d
        /\ Under(u, Front(c)) /\ u # Front(c) /\ ~Under(u, c)

\* The commands after which marks and map may not agree, of which MCSources has examples:
\* adding the workspace folder; adding a folder inside another one and then one of the same
\* name; removing a folder beside the way to which is a namesake of the top-level folder it
\* is in, which may have been promoted for one before it in the list.
Mistaken(r) ==
    LET q == request[r]
        given == Range(topLevel) \ {NoUri}
        BesideEarlier(i) == {d \in Folders(q.scan) : \E j \in 1..(i - 1) : Under(q.uris[j], Front(d))}
    IN \/ /\ q.for = "add"
          /\ \/ \E i \in DOMAIN q.uris : q.uris[i] = Root
             \/ \E i, j \in DOMAIN q.uris, d \in given \cup Range(q.uris) :
                   /\ i < j /\ q.uris[i] # q.uris[j] /\ Last(q.uris[i]) = Last(q.uris[j])
                   /\ Under(q.uris[i], d) /\ q.uris[i] # d
       \/ /\ q.for = "remove"
          /\ \E i \in DOMAIN q.uris : \E d \in given \cup BesideEarlier(i) : Namesake(q.scan, q.uris[i], d)

\* Whatever marks and map were before, every refresh, with the marks of the command that
\* called it, leaves them in agreement, unless the command is one of the few above.
SourcesAreMarked == [][\A r \in Requests : Refresh(r) => MarksAgree' \/ Mistaken(r)]_workspaceVars

\* onDidUpdate, on which the Groovy dirty flag and the update of the Python servers'
\* execution context depend, is fired by every step that changes the set of sources, the
\* folder of a module name, or the content of a source, but for the refresh of an MCP tool
\* that was given no folders.
ListenersAreTold ==
    [][/\ sources' # sources \/ topLevel' # topLevel
            => \/ fired'
               \/ \E r \in Requests : Refresh(r) /\ request[r].for # "watcher" /\ request[r].uris = <<>>
       /\ \A f \in Files : FileChanged(f) /\ f \in sources => fired']_workspaceVars

\* What OnlyCommandsTakeSources asks of a refresh.
TakesOnly(r) ==
    LET q == request[r]
        lost == (sources \cap tree') \ sources'
        u == Last(q.uris)
        holder == topLevel[getTopLevelModuleName(u)]
        single == Len(q.uris) = 1 /\ ~Mistaken(r) IN
    CASE q.for = "add" /\ q.uris # <<>> ->
            /\ u \in Folders(tree') =>
                  topLevel'[Last(u)] = u /\ \A f \in tree' : Under(f, u) => f \in sources'
            /\ single => \A f \in lost : holder \notin {NoUri, u} /\ Under(f, holder)
      [] q.for = "remove" /\ q.uris # <<>> ->
            /\ \A i \in DOMAIN q.uris, f \in sources' : ~Under(f, q.uris[i])
            /\ single => \A f \in lost :
                  \/ Under(f, u) \/ Under(u, Front(f))
                  \/ \E d \in Folders(tree') :
                        /\ Under(f, d) /\ (d = topLevel[Last(d)] \/ Under(u, Front(d)))
                        /\ topLevel'[Last(d)] \notin {NoUri, d}
      [] OTHER -> lost = {}

\* When a command returns, the folders to remove provide nothing, whatever was promoted in
\* their place, and the last of the folders to add has its module name and all its files.  Of
\* the other files that are still there, adding a folder takes those of the folder that had
\* its name; removing one takes those directly in one of its ancestors, and those of a folder,
\* top-level before or to be promoted, whose name another folder has in the end.  A refresh
\* without a command takes none.
OnlyCommandsTakeSources == [][\A r \in Requests : Refresh(r) => TakesOnly(r)]_workspaceVars

=============================================================================
