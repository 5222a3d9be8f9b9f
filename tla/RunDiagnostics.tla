--------------------------- MODULE RunDiagnostics ---------------------------
(***************************************************************************)
(* What is sent of a document that is run, and where its errors are shown:   *)
(* selections and Markdown code blocks (util/selectionUtils.ts,              *)
(* util/documentUtils.ts), the errors of servers (dh/errorUtils.ts) and the  *)
(* diagnostics of DhcService.runCode.  Lines are counted from 1; a line is   *)
(* code or a fence of a code block.                                        *)
(***************************************************************************)
EXTENDS Integers, Sequences, SequencesExt

CONSTANTS
    MaxLines,   \* bound: lines of the document
    OtherLines, \* bound: lines of another file, which the document imports
    NoLine

ASSUME RunDiagnosticsAssumption == MaxLines \in Nat \ {0} /\ OtherLines \in Nat \ {0} /\ NoLine \notin Int

VARIABLES
    lines,      \* the lines of the document
    flagged,    \* the line of the document, and of the other file, that is marked as wrong
    execution   \* the latest run of the document

diagnosticsVars == <<lines, flagged, execution>>

Starts == {"python", "groovy"}  \* fences that open a block Deephaven can run
NotRun == [at |-> "none", ranges |-> <<>>, wrong |-> NoLine, imported |-> FALSE]

-----------------------------------------------------------------------------
(* The document                                                            *)

\* A range of lines; vscode.Range puts its ends in order.
Lines(first, last) == IF first <= last THEN <<first, last>> ELSE <<last, first>>

\* Code blocks between a fence that opens one and the next closing fence.
parseMarkdownCodeblocks(ls) ==
    LET Closes(i, j) == /\ ls[i] \in Starts /\ ls[j] = "fence" /\ i < j
                        /\ \A k \in i + 1 .. j - 1 : ls[k] \notin Starts \cup {"fence"}
    IN {[language |-> ls[p[1]], range |-> Lines(p[1] + 1, p[2] - 1)] :
          p \in {q \in (1 .. Len(ls)) \X (1 .. Len(ls)) : Closes(q[1], q[2])}}

sortRanges(ranges) ==
    CHOOSE s \in [DOMAIN ranges -> Range(ranges)] :
        Range(s) = Range(ranges) /\ \A i, j \in DOMAIN s : i < j => s[i][1] <= s[j][1]

\* The lines that are sent: all, or those of the ranges in their order.
getCombinedRangeLinesText(ranges) ==
    IF ranges = <<>> THEN [i \in DOMAIN lines |-> i]
    ELSE FlattenSeq([k \in DOMAIN ranges |->
           LET range == sortRanges(ranges)[k] IN [i \in 1 .. range[2] - range[1] + 1 |-> range[1] + i - 1]])

\* Whole document, code blocks, selections in the order they were made.
Selectable ==
    LET ranges == {r \in (1 .. Len(lines)) \X (1 .. Len(lines)) : r[1] <= r[2]} IN
    {<<>>} \cup {<<r>> : r \in ranges} \cup {<<b.range>> : b \in parseMarkdownCodeblocks(lines)}
           \cup {p \in ranges \X ranges : p[1][2] < p[2][1] \/ p[2][2] < p[1][1]}

-----------------------------------------------------------------------------
(* Errors                                                                  *)

\* What is parsed of a server's error: the line of the text that was sent, or one of another
\* file together with the line sent that led there; an error may name no line, or be unknown.
parsePythonServerError(sent) ==
    {<<>>} \cup {<<[file |-> "document", line |-> k]>> : k \in DOMAIN sent \cup {-1}}
           \cup {<<[file |-> "other", line |-> m]>> : m \in 1 .. OtherLines}
           \cup {<<[file |-> "other", line |-> m], [file |-> "document", line |-> k]>> :
                   m \in 1 .. OtherLines, k \in DOMAIN sent}

\* Where an error is shown: behind the first range that was asked for.  A faulty variant
\* stands before the operator.
LineAsSent(ranges, line) == line
FileLine(ranges, line) == IF ranges = <<>> THEN line ELSE line + ranges[1][1] - 1

\* The errors are marked one by one, until a line is not one of the document.
Marks(ranges, errors) ==
    LET Exists(i) == FileLine(ranges, errors[i].line) <= Len(lines)
        Marked(f) == {i \in DOMAIN errors : errors[i].file = f /\ \A k \in 1 .. i : Exists(k)}
        First(line) == IF line < 1 THEN 1 ELSE line
    IN [f \in DOMAIN flagged |->
          IF Marked(f) = {} THEN flagged[f]
          ELSE First(FileLine(ranges, errors[CHOOSE i \in Marked(f) : TRUE].line))]

-----------------------------------------------------------------------------
(* Runs, one after the other                                               *)

DiagnosticsInit ==
    /\ lines \in UNION {[1 .. n -> {"code", "python", "fence"}] : n \in 1 .. MaxLines}
    /\ flagged = [f \in {"document", "other"} |-> NoLine]
    /\ execution = NotRun

\* The marks of the document are cleared when a run of it starts.
ExecutionStarts ==
    /\ execution.at # "running"
    /\ \E ranges \in Selectable : execution' = [NotRun EXCEPT !.at = "running", !.ranges = ranges]
    /\ flagged' = [flagged EXCEPT !["document"] = NoLine]
    /\ UNCHANGED lines

ExecutionSucceeds ==
    /\ execution.at = "running"
    /\ execution' = NotRun
    /\ UNCHANGED <<lines, flagged>>

ExecutionFails ==
    LET sent == getCombinedRangeLinesText(execution.ranges) IN
    /\ execution.at = "running"
    /\ \E errors \in parsePythonServerError(sent) :
         LET names == errors # <<>> /\ Last(errors).file = "document" /\ Last(errors).line > 0 IN
         /\ flagged' = Marks(execution.ranges, errors)
         /\ execution' = [execution EXCEPT !.at = "failed", !.imported = Len(errors) > 1,
                            !.wrong = IF names THEN sent[Last(errors).line] ELSE NoLine]
    /\ UNCHANGED lines

DiagnosticsNext == ExecutionStarts \/ ExecutionSucceeds \/ ExecutionFails

DiagnosticsSpec == DiagnosticsInit /\ [][DiagnosticsNext]_diagnosticsVars

-----------------------------------------------------------------------------
(* Properties.                                                             *)

Flagged == execution.wrong # NoLine => flagged["document"] = execution.wrong

\* When one range or the whole document was run and its own code is wrong, the line that is
\* marked is the one that failed (runCode translates the line of the text sent).
OwnErrorsAreFlagged == (~execution.imported /\ Len(execution.ranges) <= 1) => Flagged

=============================================================================
