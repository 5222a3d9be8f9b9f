-------------------------- MODULE SourceResolution --------------------------
(***************************************************************************)
(* What RemoteFileSourceService and the message listeners it registers     *)
(* (services/RemoteFileSourceService.ts, util/remoteFileSourceUtils.ts)    *)
(* answer a server that asks for a Python module or a Groovy resource, in  *)
(* any state of the marked folders.  A module name is the sequence of its  *)
(* parts, a resource name that of its path segments.                       *)
(***************************************************************************)
EXTENDS FilteredWorkspace

CONSTANTS
    ControllerPrefixes,     \* _controllerImportPrefixes
    PyFile,       \* for a segment, the name of the .py file of that module
    InitFile      \* __init__.py

ASSUME ResolutionAssumption ==
    /\ ControllerPrefixes \subseteq Segments
    /\ DOMAIN PyFile = Segments
    /\ NoUri \notin [isPackage : BOOLEAN, origin : Files \cup {NoUri}]

\* getTopLevelMarkedFolders().find: there is one folder for a name at most.
folderOf(name) == IF name \in Segments THEN topLevel[name] ELSE NoUri

getGroovyResourceData(resource) ==
    LET u == folderOf(Head(resource)) \o Tail(resource)
    IN IF folderOf(Head(resource)) # NoUri /\ hasFile(u) THEN u ELSE NoUri

WorkspaceRelativePaths == sources
getMarkedRelativeFilePaths ==
    UNION {{<<Last(u)>> \o SubSeq(f, Len(u) + 1, Len(f)) : f \in {x \in tree : Under(x, u)}} :
              u \in {topLevel[m] : m \in Segments} \ {NoUri}}

\* The name without a controller prefix; a prefix alone is a module like any other.
WithoutPrefix(name) ==
    IF Head(name) \in ControllerPrefixes /\ Len(name) > 1 THEN Tail(name) ELSE name

\* A package is regular, with __init__.py as its origin, or a namespace package.
Package(u) ==
    [isPackage |-> TRUE, origin |-> IF hasFile(u \o <<InitFile>>) THEN u \o <<InitFile>> ELSE NoUri]
Module(u) ==
    LET f == Front(u) \o <<PyFile[Last(u)]>>
    IN IF hasFile(f) THEN [isPackage |-> FALSE, origin |-> f] ELSE NoUri
getPythonModuleSpecData(fullname) ==
    LET name == WithoutPrefix(fullname)
        folder == folderOf(Head(name))
        u == folder \o Tail(name)
    IN IF folder = NoUri THEN NoUri
       ELSE IF hasFolder(u) THEN Package(u)
       ELSE Module(u)

ModuleNamesUnprefixed == {<<m>> : m \in {n \in Segments : topLevel[n] # NoUri}}
getPythonTopLevelModuleNames ==
    LET names == {m \in Segments : topLevel[m] # NoUri}
    IN {<<m>> : m \in names} \cup {<<p, m>> : p \in ControllerPrefixes, m \in names}

-----------------------------------------------------------------------------
(* Properties.                                                             *)

TopLevelNames == {Last(topLevel[m]) : m \in {n \in Segments : topLevel[n] # NoUri}}
ModuleNames == UNION {[1..n -> Segments] : n \in 1..3}

\* The paths that setExecutionContext gives a Groovy server are the resources for which a
\* source is found when the server asks, no more and no fewer.  Every module name that a
\* Python server is told to ask for is a package the extension finds, and a module it finds
\* is under one of the names the server was told, in a source, also when a controller prefix
\* is the name of a source as well.
ServersAreAnswered ==
    /\ \A p \in getMarkedRelativeFilePaths : getGroovyResourceData(p) \in sources
    /\ \A m \in Segments, f \in Files :
         getGroovyResourceData(<<m>> \o Tail(f)) # NoUri
            => <<m>> \o Tail(f) \in getMarkedRelativeFilePaths
    /\ \A n \in getPythonTopLevelModuleNames :
         LET spec == getPythonModuleSpecData(n) IN spec # NoUri /\ spec.isPackage
    /\ \A n \in ModuleNames :
         LET spec == getPythonModuleSpecData(n) IN
         spec # NoUri => /\ spec.origin \in sources \cup {NoUri}
                         /\ \E t \in getPythonTopLevelModuleNames : IsPrefix(t, n)

=============================================================================
