----------------------------- MODULE ImportHints -----------------------------
(***************************************************************************)
(* What the tool runCodeFromUri answers when the code fails: the errors that *)
(* are marked in documents, and a hint of folders that may hold what could   *)
(* not be imported (mcp/tools/runCodeFromUri.ts, mcp/utils/runCodeUtils.ts,  *)
(* dh/errorUtils.ts).  Documents are run one after the other, by users and   *)
(* by the tool.                                                            *)
(***************************************************************************)
CONSTANTS
    Python, Groovy,     \* documents of the languages
    Packages,           \* names of top-level packages
    Subpackages,        \* names of packages in them
    Folders,            \* folders of the workspace
    Nothing

ASSUME ImportHintsAssumption == Python \cap Groovy = {} /\ Nothing \notin Packages \cup Subpackages

VARIABLES
    folder,     \* the name of each folder and the names of the folders in it
    plugin,     \* whether the connections have the plugins
    marked,     \* the errors the diagnostics hold of each document
    answer      \* the tool's latest answer to a failed run

hintVars == <<folder, plugin, marked, answer>>

\* An error is about an import, of a package and perhaps of a subpackage, or about something
\* else.  Of Groovy's errors about imports one kind is recognized, the other is not; an error
\* of Python may name no line.
Errors ==
    {e \in [missing : Packages \cup {Nothing}, sub : Subpackages \cup {Nothing}, recognized : BOOLEAN] :
       e.missing = Nothing => e.sub = Nothing}
FolderContents == [name : Packages, children : SUBSET Subpackages]
NoAnswer == [of |-> Nothing, error |-> Nothing, marks |-> {}, reported |-> {}, install |-> FALSE, folders |-> {}]

HintsInit ==
    /\ folder \in [Folders -> FolderContents]
    /\ plugin \in BOOLEAN
    /\ marked = [d \in Python \cup Groovy |-> {}]
    /\ answer = NoAnswer

-----------------------------------------------------------------------------
(* Diagnostics                                                             *)

Alike(d) == IF d \in Python THEN Python ELSE Groovy

\* What is marked in a document whose run fails: an error of Python with a line, or a Groovy
\* import that does not exist.
MarkedErrors(d, e) == IF e.recognized /\ (d \in Python \/ e.missing # Nothing) THEN {e} ELSE {}

\* All errors of the language, with their documents.
getDiagnosticsErrors(d, marks) == {x \in Alike(d) \X Errors : x[2] \in marks[x[1]]}

-----------------------------------------------------------------------------
(* Hints                                                                   *)

\* The imports that marked errors tell of, and if they tell of none that of the run's error.  A
\* faulty variant stands before the operator.
MarkedImports(errors, error) == {e \in {x[2] : x \in errors} : e.missing # Nothing}
ImportErrors(errors, error) ==
    LET told == {e \in {x[2] : x \in errors} : e.missing # Nothing} IN
    IF told # {} THEN told ELSE {e \in {error} : e.missing # Nothing}

\* Python looks for folders with the name of a missing module, anywhere in the workspace.  A
\* module within a package has a dotted name, which no folder has.
createPythonModuleImportErrorHint(missing) ==
    {f \in Folders : \E e \in missing : e.missing = folder[f].name /\ e.sub = Nothing}

\* Groovy looks for folders of a missing package that have one of the subpackages, if any is
\* missing.
createGroovyImportErrorHint(missing) ==
    {f \in Folders :
       LET of == {e \in missing : e.missing = folder[f].name}
           required == {e.sub : e \in of} \ {Nothing}
       IN of # {} /\ (required = {} \/ required \cap folder[f].children # {})}

Hint(d, missing) ==
    IF d \in Python THEN createPythonModuleImportErrorHint(missing) ELSE createGroovyImportErrorHint(missing)

-----------------------------------------------------------------------------
(* Runs                                                                    *)

\* A run of a document clears its marks, and sets those of its error when it fails.
RunOfDocument(d) ==
    /\ \E marks \in {{}} \cup {MarkedErrors(d, e) : e \in Errors} : marked' = [marked EXCEPT ![d] = marks]
    /\ answer' = NoAnswer
    /\ UNCHANGED <<folder, plugin>>

RunForAgent(d) ==
    /\ \E e \in Errors :
         /\ marked' = [marked EXCEPT ![d] = MarkedErrors(d, e)]
         /\ LET errors == getDiagnosticsErrors(d, marked')
                missing == ImportErrors(errors, e)
            IN answer' = [of |-> d, error |-> e, marks |-> errors,
                 reported |-> IF errors # {} THEN {x[2] : x \in errors} ELSE {e},
                 install |-> missing # {} /\ ~plugin,
                 folders |-> IF plugin THEN Hint(d, missing) ELSE {}]
    /\ UNCHANGED <<folder, plugin>>

HintsNext == \E d \in Python \cup Groovy : RunOfDocument(d) \/ RunForAgent(d)

HintsSpec == HintsInit /\ [][HintsNext]_hintVars

-----------------------------------------------------------------------------
(* Properties.                                                             *)

Own(d, e) == Hint(d, {e} \ {x \in {e} : x.missing = Nothing})
OthersMarked == \E c \in Alike(answer.of) \ {answer.of} : marked[c] # {}

\* The tool reports the error of its own run, and offers the folders, or the plugin, that this
\* error calls for, whatever earlier runs of other documents left marked; unless the error is
\* one that cannot be marked while theirs are, or theirs asks for more of the same package.
OwnErrorIsAnswered ==
    LET d == answer.of
        e == answer.error
    IN (d # Nothing /\ (OthersMarked => MarkedErrors(d, e) # {})) =>
         /\ e \in answer.reported
         /\ e.missing # Nothing => answer.install = ~plugin
         /\ plugin => \/ Own(d, e) \subseteq answer.folders
                      \/ d \in Groovy /\ \E x \in answer.marks : x[2].missing = e.missing /\ x[2].sub # e.sub

=============================================================================
