------------------------------ MODULE RunsProofs ------------------------------
(***************************************************************************)
(* Proofs about RemoteFileSources, for any connections, runs, prefixes and *)
(* number of workspace events: that code executes with its own execution   *)
(* context, that Groovy code executes with its sources, and that a         *)
(* connection does not stay shown as running code.                         *)
(***************************************************************************)
EXTENDS RemoteFileSources, FiniteSetTheorems, SequenceTheorems, TLAPS
SessionOrNone == Sessions \cup {None}
RunOrNone == Runs \cup {None}
Pcs == {"idle", "session", "register", "types", "context", "text", "done", "failed"}
Updates == [on : Sessions, kind : {"register", "run", "meta"}, for : RunOrNone]
Commands == [kind : {"context", "resources", "text"}, for : RunOrNone, version : Nat,
             prefixes : SUBSET ImportPrefixes, evict : SUBSET ImportPrefixes, dirty : BOOLEAN]
Contexts == [for : RunOrNone, version : Nat, prefixes : SUBSET ImportPrefixes,
             evicted : SUBSET ImportPrefixes]
CallsOfRuns == [pc : Pcs, on : SessionOrNone, code : Codes \cup {None}, since : Nat]

\* The values of the variables.
SourcesTypeOK ==
    /\ version \in Nat /\ prefixes \subseteq ImportPrefixes /\ evict \subseteq ImportPrefixes
    /\ dirty \in BOOLEAN /\ queue \in Seq(Updates)
    /\ phase \in [Sessions -> {"new", "ready", "closed"}] /\ plugin \in [Sessions -> BOOLEAN]
    /\ waiting \in [Sessions -> Seq(RunOrNone)] /\ listeners \in [Sessions -> Nat]
    /\ commands \in [Sessions -> Seq(Commands)] /\ context \in [Sessions -> Contexts]
    /\ fetch \in [Sessions -> {"none", "asked", "lost"}]
    /\ running \in [Sessions -> BOOLEAN] /\ run \in [Runs -> CallsOfRuns]

Supports(s) == s \in Python /\ plugin[s]

\* A run that has waited for its session and the registration of the plugin.
Begun == {"types", "context", "text", "done", "failed"}
HasBegun(r) == r \in Runs /\ run[r].pc \in Begun

\* Runs are started on a server, with the sources as they are.
RunsAreNotAhead ==
    \A r \in Runs : run[r].since <= version /\ run[r].on \in IF run[r].pc = "idle" THEN {None} ELSE Sessions

\* Only Python servers with the plugin have updates and subscriptions.
UpdatesAreForPython ==
    /\ \A i \in DOMAIN queue : Supports(queue[i].on)
    /\ \A s \in Sessions : listeners[s] > 0 => Supports(s)

\* Updates and commands of runs belong to runs that have begun, on that server.
TokensAreOfRuns ==
    /\ \A i \in DOMAIN queue : queue[i].kind = "run" =>
         HasBegun(queue[i].for) /\ run[queue[i].for].on = queue[i].on
    /\ \A s \in Sessions : \A i \in DOMAIN commands[s] : commands[s][i].kind # "context" =>
         HasBegun(commands[s][i].for) /\ run[commands[s][i].for].on = s

\* A call of initSession is awaited by one run at most, which has not started.
WaitingIsSingle ==
    /\ \A s \in Sessions : \A i \in DOMAIN waiting[s] : waiting[s][i] \in Runs =>
         run[waiting[s][i]].pc = "session" /\ run[waiting[s][i]].on = s
    /\ \A s \in Sessions : \A i, j \in DOMAIN waiting[s] :
         waiting[s][i] \in Runs /\ waiting[s][i] = waiting[s][j] => i = j
RegistrationIsSingle ==
    /\ \A i \in DOMAIN queue : queue[i].kind = "register" /\ queue[i].for \in Runs =>
         run[queue[i].for].pc = "register"
    /\ \A i, j \in DOMAIN queue :
         /\ queue[i].kind = "register" /\ queue[j].kind = "register"
         /\ queue[i].for \in Runs /\ queue[i].for = queue[j].for
         => i = j

\* The script of the first update of the queue u.
ScriptFits(cmd, u) ==
    /\ cmd.kind = "context"
    /\ u.kind = "run" => cmd.for = u.for /\ cmd.version >= run[u.for].since

\* The context is the one that run r set.
ContextFits(s, r) == context[s].for = r /\ context[s].version >= run[r].since

\* A Python server with the plugin has the code of one run at most, whose context is set, and
\* behind it the script of the first update of the queue if that is for this server.
OnTurn(s) == queue # <<>> /\ Head(queue).on = s
FitsAt(s) ==
    LET sent == commands[s]
    IN /\ Len(sent) <= IF OnTurn(s) THEN 2 ELSE 1
       /\ OnTurn(s) => Len(sent) > 0 /\ ScriptFits(sent[Len(sent)], Head(queue))
       /\ \A i \in DOMAIN sent : sent[i].kind = "context" <=> (OnTurn(s) /\ i = Len(sent))
       /\ \A i \in DOMAIN sent : sent[i].kind # "context" =>
            \E r \in Runs : sent[i] = Text(r) /\ ContextFits(s, r)
PythonCommandsFit == \A s \in Sessions : Supports(s) => FitsAt(s)

\* Other servers are sent no context.
OthersHaveNoContext ==
    \A s \in Sessions : ~Supports(s) => \A i \in DOMAIN commands[s] : commands[s][i].kind # "context"

SourcesInv ==
    /\ SourcesTypeOK /\ RunsAreNotAhead /\ UpdatesAreForPython /\ TokensAreOfRuns
    /\ WaitingIsSingle /\ RegistrationIsSingle
    /\ PythonCommandsFit /\ OthersHaveNoContext
    /\ RunningIsNotStuck


\* What a step does to the calls of runCode: who has begun stays on its server.
RunsGoOn ==
    /\ run' \in [Runs -> CallsOfRuns]
    /\ \A r \in Runs : run'[r].since \in {run[r].since, version}
    /\ \A r \in Runs : run[r].pc # "idle" => run'[r].on = run[r].on /\ run'[r].since = run[r].since
    /\ \A r \in Runs : run[r].pc \in Begun => run'[r].pc \in Begun
    /\ \A r \in Runs : run[r].pc = "idle" => IF run'[r].pc = "idle" THEN run'[r].on = run[r].on
                                              ELSE run'[r].on \in Sessions
    /\ \A r \in Runs : run[r].pc # "idle" => run'[r].pc # "idle"

\* A step that sends nothing to Groovy servers and ends none of their runs.
NoGroovyStep ==
    /\ RunsGoOn /\ UNCHANGED plugin
    /\ version' \in Nat /\ version' >= version /\ (~dirty' => ~dirty /\ version' = version)
    /\ \A s \in Groovy : commands'[s] = commands[s] /\ context'[s].version = context[s].version
    /\ \A r \in Runs : run[r].on \in Groovy /\ run[r].pc \in {"context", "text", "failed"} =>
         run'[r].pc = run[r].pc

LEMMA GroovyIsUnsupported ==
    ASSUME NEW s \in Groovy
    PROVE  s \in Sessions /\ ~Supports(s)
<1> QED BY SourcesAssumption DEF Sessions, Supports

LEMMA GoingOn ==
    ASSUME SourcesTypeOK, NEW rs, NEW pc \in Pcs \ {"idle"}, run' = Goto(rs, pc),
           \A r \in Runs : r \in rs => run[r].pc # "idle" /\ (pc \in Begun \/ run[r].pc \notin Begun)
    PROVE  /\ RunsGoOn
           /\ \A r \in Runs : /\ run'[r].on = run[r].on
                              /\ run'[r].pc = IF r \in rs THEN pc ELSE run[r].pc
<1>1. \A r \in Runs : run[r] \in CallsOfRuns
  BY DEF SourcesTypeOK
<1>2. \A r \in Runs : /\ [run[r] EXCEPT !.pc = pc] \in CallsOfRuns
                      /\ [run[r] EXCEPT !.pc = pc].pc = pc
                      /\ [run[r] EXCEPT !.pc = pc].on = run[r].on
                      /\ [run[r] EXCEPT !.pc = pc].since = run[r].since
  BY <1>1 DEF CallsOfRuns
<1>3. \A r \in Runs : run'[r] = IF r \in rs THEN [run[r] EXCEPT !.pc = pc] ELSE run[r]
  BY DEF Goto
<1>4. run' \in [Runs -> CallsOfRuns]
  BY <1>1, <1>2 DEF Goto
<1>5. \A r \in Runs : /\ run'[r].on = run[r].on /\ run'[r].since = run[r].since
                      /\ run'[r].pc = IF r \in rs THEN pc ELSE run[r].pc
  BY <1>2, <1>3
<1> QED BY <1>4, <1>5 DEF RunsGoOn

\* One run goes on, or none when the update was no run's.
LEMMA OneGoesOn ==
    ASSUME SourcesTypeOK, NEW r, NEW pc \in Pcs \ {"idle"}, run' = Goto({r}, pc),
           r \in Runs => run[r].pc # "idle" /\ (pc \in Begun \/ run[r].pc \notin Begun)
    PROVE  /\ RunsGoOn
           /\ \A q \in Runs : run'[q].on = run[q].on /\ (q # r => run'[q].pc = run[q].pc)
           /\ r \in Runs => run'[r].pc = pc
<1> DEFINE rs == {r}
<1>1. /\ \A q : q \in rs <=> q = r
      /\ run' = Goto(rs, pc)
  OBVIOUS
<1> HIDE DEF rs
<1>2. \A q \in Runs : q \in rs => run[q].pc # "idle" /\ (pc \in Begun \/ run[q].pc \notin Begun)
  BY <1>1
<1>3. /\ RunsGoOn
      /\ \A q \in Runs : run'[q].on = run[q].on /\ run'[q].pc = IF q \in rs THEN pc ELSE run[q].pc
  BY <1>1, <1>2, GoingOn
<1> QED BY <1>1, <1>3

\* Starting the first update of a queue.
FirstStarts(q, sent, marks, names) ==
    /\ queue' = q /\ evict' \subseteq ImportPrefixes
    /\ commands' \in [Sessions -> Seq(Commands)]
    /\ \A s \in Sessions : commands'[s] =
         IF q # <<>> /\ Head(q).on = s THEN Append(sent[s], Script(Head(q), marks, names)) ELSE sent[s]
    /\ q # <<>> => Script(Head(q), marks, names) \in Commands

LEMMA FirstIsStarted ==
    ASSUME NEW q \in Seq(Updates), NEW sent \in [Sessions -> Seq(Commands)],
           NEW marks \in SUBSET ImportPrefixes, NEW names \in SUBSET ImportPrefixes,
           version' \in Nat, StartFirst(q, sent, marks, names)
    PROVE  FirstStarts(q, sent, marks, names)
<1>1. CASE q = <<>>
  BY <1>1 DEF StartFirst, FirstStarts
<1>2. CASE q # <<>>
  <2>1. Head(q) \in Updates
    BY <1>2
  <2>2. Head(q).on \in Sessions /\ Head(q).for \in RunOrNone
    BY <2>1 DEF Updates
  <2>3. Script(Head(q), marks, names) \in Commands
    BY <2>2 DEF Script, Commands, RunOrNone
  <2> DEFINE cmd == Script(Head(q), marks, names)
  <2>4. queue' = q /\ commands' = [sent EXCEPT ![Head(q).on] = Append(@, cmd)] /\ evict' = {}
    BY <1>2 DEF StartFirst, Send
  <2> HIDE DEF cmd
  <2>5. Append(sent[Head(q).on], cmd) \in Seq(Commands)
    BY <2>2, <2>3 DEF cmd
  <2> QED BY <1>2, <2>2, <2>3, <2>4, <2>5 DEF cmd, FirstStarts
<1> QED BY <1>1, <1>2

\* Updates join the queue, and the first of them starts if no other is under way.
UpdatesJoin(us, marks, names) ==
    /\ queue' = queue \o us /\ evict' \subseteq ImportPrefixes
    /\ commands' \in [Sessions -> Seq(Commands)]
    /\ \A s \in Sessions : commands'[s] =
         IF queue = <<>> /\ us # <<>> /\ Head(us).on = s
         THEN Append(commands[s], Script(Head(us), marks, names)) ELSE commands[s]
    /\ us # <<>> => Script(Head(us), marks, names) \in Commands

LEMMA UpdatesHaveJoined ==
    ASSUME SourcesTypeOK, NEW us \in Seq(Updates),
           NEW marks \in SUBSET ImportPrefixes, NEW names \in SUBSET ImportPrefixes,
           version' \in Nat, setPythonServerExecutionContext(us, marks, names)
    PROVE  UpdatesJoin(us, marks, names)
<1>1. CASE queue = <<>>
  <2>1. StartFirst(us, commands, marks, names)
    BY <1>1 DEF setPythonServerExecutionContext
  <2>2. commands \in [Sessions -> Seq(Commands)]
    BY DEF SourcesTypeOK
  <2>3. queue \o us = us
    BY <1>1
  <2>4. FirstStarts(us, commands, marks, names)
    BY <2>1, <2>2, FirstIsStarted
  <2> QED BY <1>1, <2>3, <2>4 DEF UpdatesJoin, FirstStarts
<1>2. CASE queue # <<>>
  <2>1. queue' = queue \o us /\ evict' = marks /\ UNCHANGED commands
    BY <1>2 DEF setPythonServerExecutionContext
  <2>2. us # <<>> => Script(Head(us), marks, names) \in Commands
    <3>1. us # <<>> => Head(us) \in Updates
      OBVIOUS
    <3>2. us # <<>> => Head(us).for \in RunOrNone
      BY <3>1 DEF Updates
    <3> QED BY <3>2 DEF Script, Commands, RunOrNone
  <2> QED BY <1>2, <2>1, <2>2 DEF UpdatesJoin, SourcesTypeOK
<1> QED BY <1>1, <1>2

\* Updates and commands that a step adds.
NewUpdate(u) ==
    Supports(u.on) /\ (u.kind = "run" => u.for \in Runs /\ run'[u.for].pc \in Begun /\ run'[u.for].on = u.on)
NewCommand(s, cmd) ==
    IF cmd.kind = "context" THEN Supports(s)
    ELSE cmd.for \in Runs /\ run'[cmd.for].pc \in Begun /\ run'[cmd.for].on = s

\* What holds of each update and each command is kept when it holds of those that are added.
TokensHold ==
    /\ RunsAreNotAhead /\ UpdatesAreForPython /\ TokensAreOfRuns /\ OthersHaveNoContext
LEMMA TokensKeep ==
    ASSUME SourcesInv, RunsGoOn, UNCHANGED plugin, version' \in Nat, version' >= version,
           \A i \in DOMAIN queue' : queue'[i] \in Range(queue) \/ NewUpdate(queue'[i]),
           \A s \in Sessions : \A i \in DOMAIN commands'[s] :
             commands'[s][i] \in Range(commands[s]) \/ NewCommand(s, commands'[s][i]),
           \A s \in Sessions : listeners'[s] > 0 => Supports(s)
    PROVE  TokensHold'
<1>1. \A r : HasBegun(r) => HasBegun(r)' /\ run'[r].on = run[r].on
  BY DEF RunsGoOn, HasBegun, Begun
<1>2. \A s : Supports(s)' <=> Supports(s)
  BY DEF Supports
<1>3. RunsAreNotAhead'
  <2> SUFFICES ASSUME NEW r \in Runs
               PROVE  /\ run'[r].since <= version'
                      /\ run'[r].on \in IF run'[r].pc = "idle" THEN {None} ELSE Sessions
    BY DEF RunsAreNotAhead
  <2>1. run[r].since \in Nat /\ version \in Nat /\ run[r].since <= version
    BY DEF SourcesInv, SourcesTypeOK, CallsOfRuns, RunsAreNotAhead
  <2>2. run'[r].since <= version'
    BY <2>1 DEF RunsGoOn
  <2>3. run[r].on \in IF run[r].pc = "idle" THEN {None} ELSE Sessions
    BY DEF SourcesInv, RunsAreNotAhead
  <2>4. run'[r].on \in IF run'[r].pc = "idle" THEN {None} ELSE Sessions
    BY <2>3 DEF RunsGoOn
  <2> QED BY <2>2, <2>4
<1>4. UpdatesAreForPython'
  <2>1. \A u \in Range(queue) : Supports(u.on)
    BY DEF SourcesInv, UpdatesAreForPython, Range
  <2> QED BY <1>2, <2>1 DEF UpdatesAreForPython, NewUpdate
<1>5. TokensAreOfRuns'
  <2>1. \A u \in Range(queue) : u.kind = "run" => HasBegun(u.for) /\ run[u.for].on = u.on
    BY DEF SourcesInv, TokensAreOfRuns, Range
  <2>2. \A i \in DOMAIN queue' : queue'[i].kind = "run" =>
          /\ queue'[i].for \in Runs /\ run'[queue'[i].for].pc \in Begun
          /\ run'[queue'[i].for].on = queue'[i].on
    BY <1>1, <2>1 DEF NewUpdate, HasBegun
  <2>3. \A s \in Sessions : \A cmd \in Range(commands[s]) :
          cmd.kind # "context" => HasBegun(cmd.for) /\ run[cmd.for].on = s
    BY DEF SourcesInv, TokensAreOfRuns, Range
  <2>4. \A s \in Sessions : \A i \in DOMAIN commands'[s] : commands'[s][i].kind # "context" =>
          /\ commands'[s][i].for \in Runs /\ run'[commands'[s][i].for].pc \in Begun
          /\ run'[commands'[s][i].for].on = s
    BY <1>1, <2>3 DEF NewCommand, HasBegun
  <2> QED BY <2>2, <2>4 DEF TokensAreOfRuns, HasBegun
<1>6. OthersHaveNoContext'
  <2>1. \A s \in Sessions : \A cmd \in Range(commands[s]) : ~Supports(s) => cmd.kind # "context"
    BY DEF SourcesInv, OthersHaveNoContext, Range
  <2> QED BY <1>2, <2>1 DEF OthersHaveNoContext, NewCommand
<1> QED BY <1>3, <1>4, <1>5, <1>6 DEF TokensHold

\* The script that a step sends, and code whose context is set when the step is over.
NewScript(cmd, u) ==
    cmd.kind = "context" /\ (u.kind = "run" => cmd.for = u.for /\ cmd.version >= run'[u.for].since)
CodeFits(s, cmd) ==
    \E r \in Runs : cmd = Text(r) /\ context'[s].for = r /\ context'[s].version >= run'[r].since

\* What is sent to Python servers fits when the first update of a queue starts behind code that fits.
LEMMA StartedFits ==
    ASSUME UNCHANGED plugin, NEW sent \in [Sessions -> Seq(Commands)], queue' \in Seq(Updates),
           NEW cmd \in Commands, queue' # <<>> => NewScript(cmd, Head(queue')),
           \A s \in Sessions : Supports(s) =>
             /\ commands'[s] = IF queue' # <<>> /\ Head(queue').on = s THEN Append(sent[s], cmd) ELSE sent[s]
             /\ Len(sent[s]) <= 1
             /\ \A i \in DOMAIN sent[s] : CodeFits(s, sent[s][i])
    PROVE  PythonCommandsFit'
<1> DEFINE turn(s) == queue' # <<>> /\ Head(queue').on = s
<1> SUFFICES ASSUME NEW s \in Sessions, Supports(s)
             PROVE  /\ Len(commands'[s]) <= IF turn(s) THEN 2 ELSE 1
                    /\ turn(s) => /\ Len(commands'[s]) > 0
                                  /\ NewScript(commands'[s][Len(commands'[s])], Head(queue'))
                    /\ \A i \in DOMAIN commands'[s] :
                         commands'[s][i].kind = "context" <=> (turn(s) /\ i = Len(commands'[s]))
                    /\ \A i \in DOMAIN commands'[s] : commands'[s][i].kind # "context" =>
                         CodeFits(s, commands'[s][i])
  BY DEF PythonCommandsFit, FitsAt, OnTurn, ScriptFits, NewScript, ContextFits, CodeFits, Supports
<1>1. sent[s] \in Seq(Commands) /\ Len(sent[s]) <= 1 /\ \A i \in DOMAIN sent[s] : CodeFits(s, sent[s][i])
  OBVIOUS
<1>2. \A i \in DOMAIN sent[s] : sent[s][i].kind = "text"
  BY <1>1 DEF CodeFits, Text
<1>3. CASE ~turn(s)
  <2>1. commands'[s] = sent[s]
    BY <1>3
  <2> QED BY <1>1, <1>2, <1>3, <2>1
<1>4. CASE turn(s)
  <2>1. commands'[s] = Append(sent[s], cmd) /\ NewScript(cmd, Head(queue'))
    BY <1>4
  <2>2. /\ Len(commands'[s]) = Len(sent[s]) + 1
        /\ commands'[s][Len(commands'[s])] = cmd
        /\ DOMAIN commands'[s] = 1..(Len(sent[s]) + 1)
        /\ \A i \in 1..Len(sent[s]) : commands'[s][i] = sent[s][i]
    BY <1>1, <2>1
  <2>3. Len(sent[s]) \in Nat /\ DOMAIN sent[s] = 1..Len(sent[s]) /\ cmd.kind = "context"
    BY <1>1, <2>1 DEF NewScript
  <2>4. \A i \in DOMAIN commands'[s] : i = Len(commands'[s]) \/ (i \in DOMAIN sent[s] /\ i # Len(commands'[s]))
    BY <2>2, <2>3
  <2> HIDE DEF turn
  <2> QED BY <1>1, <1>2, <1>4, <2>1, <2>2, <2>3, <2>4
<1> QED BY <1>3, <1>4

\* A script goes on to fit the first update.
LEMMA ScriptStaysFit ==
    ASSUME SourcesInv, RunsGoOn, queue # <<>>, NEW cmd, ScriptFits(cmd, Head(queue))
    PROVE  NewScript(cmd, Head(queue))
<1> SUFFICES ASSUME Head(queue).kind = "run"
             PROVE  run'[Head(queue).for].since = run[Head(queue).for].since
  BY DEF ScriptFits, NewScript
<1>1. HasBegun(Head(queue).for)
  <2>1. queue \in Seq(Updates)
    BY DEF SourcesInv, SourcesTypeOK
  <2>2. 1 \in DOMAIN queue /\ Head(queue) = queue[1]
    BY <2>1
  <2> QED BY <2>2 DEF SourcesInv, TokensAreOfRuns
<1> QED BY <1>1 DEF HasBegun, Begun, RunsGoOn

\* So does code.
LEMMA CodeStaysFit ==
    ASSUME SourcesInv, RunsGoOn, NEW s \in Sessions, Supports(s),
           context'[s].for = context[s].for, context'[s].version = context[s].version,
           NEW i \in DOMAIN commands[s], commands[s][i].kind # "context"
    PROVE  CodeFits(s, commands[s][i])
<1>1. PICK r \in Runs : commands[s][i] = Text(r) /\ ContextFits(s, r)
  BY DEF SourcesInv, PythonCommandsFit, FitsAt
<1>2. HasBegun(r)
  BY <1>1 DEF SourcesInv, TokensAreOfRuns, Text
<1> QED BY <1>1, <1>2 DEF CodeFits, ContextFits, HasBegun, Begun, RunsGoOn

\* It goes on to fit as long as the first update stays the same.
LEMMA SameFitsAt ==
    ASSUME SourcesInv, RunsGoOn, UNCHANGED plugin, NEW s \in Sessions, Supports(s),
           queue' = <<>> <=> queue = <<>>, queue # <<>> => Head(queue') = Head(queue),
           commands'[s] = commands[s],
           context'[s].for = context[s].for, context'[s].version = context[s].version
    PROVE  FitsAt(s)'
<1>1. /\ Len(commands[s]) <= IF OnTurn(s) THEN 2 ELSE 1
      /\ OnTurn(s) => Len(commands[s]) > 0 /\ ScriptFits(commands[s][Len(commands[s])], Head(queue))
      /\ \A i \in DOMAIN commands[s] : commands[s][i].kind = "context" <=> (OnTurn(s) /\ i = Len(commands[s]))
  BY DEF SourcesInv, PythonCommandsFit, FitsAt
<1>2. OnTurn(s) => NewScript(commands[s][Len(commands[s])], Head(queue))
  BY <1>1, ScriptStaysFit DEF OnTurn
<1>3. \A i \in DOMAIN commands[s] : commands[s][i].kind # "context" => CodeFits(s, commands[s][i])
  BY CodeStaysFit
<1>4. OnTurn(s)' <=> OnTurn(s)
  BY DEF OnTurn
<1> QED BY <1>1, <1>2, <1>3, <1>4 DEF FitsAt, OnTurn, ScriptFits, NewScript, ContextFits, CodeFits

LEMMA SameFits ==
    ASSUME SourcesInv, RunsGoOn, UNCHANGED plugin,
           queue' = <<>> <=> queue = <<>>, queue # <<>> => Head(queue') = Head(queue),
           \A s \in Sessions : Supports(s) =>
             /\ commands'[s] = commands[s]
             /\ context'[s].for = context[s].for /\ context'[s].version = context[s].version
    PROVE  PythonCommandsFit'
<1> SUFFICES ASSUME NEW s \in Sessions, Supports(s) PROVE FitsAt(s)'
  BY DEF PythonCommandsFit, Supports
<1> QED BY SameFitsAt

\* A Python server whose turn it is not has at most the code of one run.
LEMMA OffTurnFits ==
    ASSUME SourcesInv, RunsGoOn, NEW s \in Sessions, Supports(s), ~OnTurn(s), context'[s] = context[s]
    PROVE  Len(commands[s]) <= 1 /\ \A i \in DOMAIN commands[s] : CodeFits(s, commands[s][i])
<1>1. Len(commands[s]) <= 1 /\ \A i \in DOMAIN commands[s] : commands[s][i].kind # "context"
  BY DEF SourcesInv, PythonCommandsFit, FitsAt
<1>2. ASSUME NEW i \in DOMAIN commands[s] PROVE CodeFits(s, commands[s][i])
  BY <1>1, CodeStaysFit
<1> QED BY <1>1, <1>2

\* Updates that join the queue leave what is sent to Python servers fit.
LEMMA JoinedFits ==
    ASSUME SourcesInv, RunsGoOn, UNCHANGED <<plugin, context>>, NEW us \in Seq(Updates),
           NEW marks \in SUBSET ImportPrefixes, NEW names \in SUBSET ImportPrefixes,
           UpdatesJoin(us, marks, names),
           us # <<>> => NewScript(Script(Head(us), marks, names), Head(us))
    PROVE  PythonCommandsFit'
<1>1. queue \in Seq(Updates) /\ queue' = queue \o us /\ commands \in [Sessions -> Seq(Commands)]
  BY DEF SourcesInv, SourcesTypeOK, UpdatesJoin
<1>2. CASE queue # <<>> \/ us = <<>>
  <2>1. /\ queue' = <<>> <=> queue = <<>>
        /\ queue # <<>> => Head(queue') = Head(queue)
    BY <1>1, <1>2
  <2>2. \A s \in Sessions : commands'[s] = commands[s]
    BY <1>2 DEF UpdatesJoin
  <2> QED BY <2>1, <2>2, SameFits
<1>3. CASE queue = <<>> /\ us # <<>>
  <2> DEFINE cmd == Script(Head(us), marks, names)
  <2>1. queue' = us
    BY <1>1, <1>3
  <2>2. cmd \in Commands /\ NewScript(cmd, Head(us))
    BY <1>3 DEF UpdatesJoin
  <2>3. \A s \in Sessions : commands'[s] = IF Head(us).on = s THEN Append(commands[s], cmd) ELSE commands[s]
    BY <1>3 DEF UpdatesJoin
  <2>4. \A s \in Sessions : ~OnTurn(s)
    BY <1>3 DEF OnTurn
  <2> HIDE DEF cmd
  <2>5. \A s \in Sessions : Supports(s) =>
          Len(commands[s]) <= 1 /\ \A i \in DOMAIN commands[s] : CodeFits(s, commands[s][i])
    BY <2>4, OffTurnFits
  <2> QED BY <1>1, <1>3, <2>1, <2>2, <2>3, <2>5, StartedFits
<1> QED BY <1>2, <1>3

\* Updates that join the queue keep what holds of updates and commands.
LEMMA JoinedHolds ==
    ASSUME SourcesInv, RunsGoOn, UNCHANGED <<plugin, context>>, version' \in Nat, version' >= version,
           NEW us \in Seq(Updates), \A i \in DOMAIN us : NewUpdate(us[i]),
           NEW marks \in SUBSET ImportPrefixes, NEW names \in SUBSET ImportPrefixes,
           UpdatesJoin(us, marks, names),
           us # <<>> => NewScript(Script(Head(us), marks, names), Head(us)),
           \A s \in Sessions : listeners'[s] > 0 => Supports(s)
    PROVE  TokensHold' /\ PythonCommandsFit'
<1>1. queue \in Seq(Updates) /\ queue' = queue \o us /\ commands \in [Sessions -> Seq(Commands)]
  BY DEF SourcesInv, SourcesTypeOK, UpdatesJoin
<1>2. \A i \in DOMAIN queue' : queue'[i] \in Range(queue) \/ NewUpdate(queue'[i])
  <2>1. \A i \in DOMAIN queue' : (i \in DOMAIN queue /\ queue'[i] = queue[i])
                                 \/ \E j \in DOMAIN us : queue'[i] = us[j]
    BY <1>1
  <2> QED BY <2>1 DEF Range
<1>3. ASSUME NEW s \in Sessions, NEW i \in DOMAIN commands'[s]
      PROVE  commands'[s][i] \in Range(commands[s]) \/ NewCommand(s, commands'[s][i])
  <2>1. CASE commands'[s] = commands[s]
    BY <2>1 DEF Range
  <2>2. CASE us # <<>> /\ Head(us).on = s /\ commands'[s] = Append(commands[s], Script(Head(us), marks, names))
    <3> DEFINE cmd == Script(Head(us), marks, names)
    <3>1. cmd.kind = "context"
      BY DEF Script
    <3>2. Supports(s)
      <4>1. 1 \in DOMAIN us /\ Head(us) = us[1]
        BY <2>2
      <4> QED BY <2>2, <4>1 DEF NewUpdate
    <3> HIDE DEF cmd
    <3>3. commands[s] \in Seq(Commands) /\ commands'[s] = Append(commands[s], cmd)
      BY <1>1, <2>2 DEF cmd
    <3>4. (i \in DOMAIN commands[s] /\ commands'[s][i] = commands[s][i]) \/ commands'[s][i] = cmd
      BY <3>3
    <3> QED BY <3>1, <3>2, <3>4 DEF Range, NewCommand
  <2> QED BY <2>1, <2>2 DEF UpdatesJoin
<1>4. TokensHold'
  BY <1>2, <1>3, TokensKeep
<1>5. PythonCommandsFit'
  BY JoinedFits
<1> QED BY <1>4, <1>5

\* So does a step that adds none.
LEMMA NothingNewHolds ==
    ASSUME SourcesInv, RunsGoOn, UNCHANGED <<version, queue, plugin, commands, context>>,
           \A s \in Sessions : listeners'[s] = listeners[s] \/ listeners'[s] = 0
    PROVE  TokensHold' /\ PythonCommandsFit'
<1>1. version' \in Nat /\ version' >= version
  BY DEF SourcesInv, SourcesTypeOK
<1>2. \A i \in DOMAIN queue' : queue'[i] \in Range(queue)
  BY DEF Range
<1>3. \A s \in Sessions : \A i \in DOMAIN commands'[s] : commands'[s][i] \in Range(commands[s])
  BY DEF Range
<1>4. \A s \in Sessions : listeners'[s] > 0 => Supports(s)
  BY DEF SourcesInv, UpdatesAreForPython
<1>5. TokensHold'
  BY <1>1, <1>2, <1>3, <1>4, TokensKeep
<1>6. PythonCommandsFit'
  BY SameFits
<1> QED BY <1>5, <1>6

\* So does a command of a server that is sent no updates.
LEMMA SentHolds ==
    ASSUME SourcesInv, RunsGoOn, UNCHANGED <<version, queue, plugin>>,
           NEW s \in Sessions, ~Supports(s), NEW sent \in Seq(Commands),
           commands' = [commands EXCEPT ![s] = sent],
           \A i \in DOMAIN sent : sent[i] \in Range(commands[s]) \/ NewCommand(s, sent[i]),
           \A t \in Sessions \ {s} : context'[t] = context[t],
           \A t \in Sessions : listeners'[t] = listeners[t] \/ listeners'[t] = 0
    PROVE  TokensHold' /\ PythonCommandsFit' /\ commands' \in [Sessions -> Seq(Commands)]
<1>1. version' \in Nat /\ version' >= version /\ commands \in [Sessions -> Seq(Commands)]
  BY DEF SourcesInv, SourcesTypeOK
<1>2. \A i \in DOMAIN queue' : queue'[i] \in Range(queue)
  BY DEF Range
<1>3. commands'[s] = sent /\ \A t \in Sessions \ {s} : commands'[t] = commands[t]
  BY <1>1
<1>4. \A t \in Sessions : \A i \in DOMAIN commands'[t] :
        commands'[t][i] \in Range(commands[t]) \/ NewCommand(t, commands'[t][i])
  <2> SUFFICES ASSUME NEW t \in Sessions
               PROVE  \A i \in DOMAIN commands'[t] :
                        commands'[t][i] \in Range(commands[t]) \/ NewCommand(t, commands'[t][i])
    OBVIOUS
  <2>1. CASE t = s
    BY <1>3, <2>1
  <2>2. CASE t # s
    BY <1>3, <2>2 DEF Range
  <2> QED BY <2>1, <2>2
<1>5. \A t \in Sessions : listeners'[t] > 0 => Supports(t)
  BY DEF SourcesInv, UpdatesAreForPython
<1>6. TokensHold'
  BY <1>1, <1>2, <1>4, <1>5, TokensKeep
<1>7. PythonCommandsFit'
  BY <1>3, SameFits
<1>8. commands' \in [Sessions -> Seq(Commands)]
  BY <1>1
<1> QED BY <1>6, <1>7, <1>8

\* Updates are sent to no Groovy server.
LEMMA JoinedLeavesGroovy ==
    ASSUME NEW us \in Seq(Updates), \A i \in DOMAIN us : NewUpdate(us[i]), NEW marks, NEW names,
           UpdatesJoin(us, marks, names)
    PROVE  \A s \in Groovy : commands'[s] = commands[s]
<1> SUFFICES ASSUME NEW s \in Groovy PROVE commands'[s] = commands[s]
  OBVIOUS
<1>1. us # <<>> => Head(us).on # s
  <2>1. us # <<>> => Head(us) = us[1] /\ 1 \in DOMAIN us
    OBVIOUS
  <2>2. us # <<>> => Supports(Head(us).on)
    BY <2>1 DEF NewUpdate
  <2> QED BY <2>2, GroovyIsUnsupported
<1> QED BY <1>1, GroovyIsUnsupported DEF UpdatesJoin

\* Calls of initSession: who awaits one goes on when it is over.
LEMMA WaitingKeeps ==
    ASSUME SourcesInv, RunsGoOn,
           \A s \in Sessions : waiting'[s] = waiting[s] \/ waiting'[s] = <<>>,
           \A r \in Runs : run[r].pc = "session" => run'[r].pc = "session" \/ waiting'[run[r].on] = <<>>
    PROVE  WaitingIsSingle'
<1> SUFFICES ASSUME NEW s \in Sessions
             PROVE  /\ \A i \in DOMAIN waiting'[s] : waiting'[s][i] \in Runs =>
                         run'[waiting'[s][i]].pc = "session" /\ run'[waiting'[s][i]].on = s
                    /\ \A i, j \in DOMAIN waiting'[s] :
                         waiting'[s][i] \in Runs /\ waiting'[s][i] = waiting'[s][j] => i = j
  BY DEF WaitingIsSingle
<1>1. CASE waiting'[s] = <<>>
  BY <1>1
<1>2. CASE waiting'[s] = waiting[s] /\ waiting'[s] # <<>>
  <2>1. \A i \in DOMAIN waiting[s] : waiting[s][i] \in Runs =>
          run[waiting[s][i]].pc = "session" /\ run[waiting[s][i]].on = s
    BY DEF SourcesInv, WaitingIsSingle
  <2>2. \A i, j \in DOMAIN waiting[s] : waiting[s][i] \in Runs /\ waiting[s][i] = waiting[s][j] => i = j
    BY DEF SourcesInv, WaitingIsSingle
  <2> QED BY <1>2, <2>1, <2>2 DEF RunsGoOn
<1> QED BY <1>1, <1>2

\* Updates of runs and of workspace events join the queue, or none.
LEMMA JoiningKeepsRegistrations ==
    ASSUME SourcesInv, NEW us \in Seq(Updates), queue' = queue \o us,
           \A i \in DOMAIN us : us[i].kind # "register",
           \A r \in Runs : run[r].pc = "register" => run'[r].pc = "register"
    PROVE  RegistrationIsSingle'
<1>1. queue \in Seq(Updates)
  BY DEF SourcesInv, SourcesTypeOK
<1>2. /\ \A i \in DOMAIN queue : i \in DOMAIN queue' /\ queue'[i] = queue[i]
      /\ \A i \in DOMAIN queue' : queue'[i].kind = "register" => i \in DOMAIN queue
  BY <1>1
<1> QED BY <1>2 DEF SourcesInv, RegistrationIsSingle

\* The first update is over.
LEMMA LeavingKeepsRegistrations ==
    ASSUME SourcesInv, queue # <<>>, queue' = Tail(queue),
           \A r \in Runs : run[r].pc = "register" =>
             run'[r].pc = "register" \/ (Head(queue).kind = "register" /\ r = Head(queue).for)
    PROVE  RegistrationIsSingle'
<1>1. queue \in Seq(Updates)
  BY DEF SourcesInv, SourcesTypeOK
<1>2. /\ Head(queue) = queue[1] /\ 1 \in DOMAIN queue
      /\ \A i \in DOMAIN queue' : i + 1 \in DOMAIN queue /\ queue'[i] = queue[i + 1] /\ i + 1 # 1 /\ i \in Nat
  BY <1>1
<1>3. ASSUME NEW i \in DOMAIN queue', queue'[i].kind = "register", queue'[i].for \in Runs
      PROVE  run'[queue'[i].for].pc = "register"
  <2>1. run[queue[i + 1].for].pc = "register"
    BY <1>2, <1>3 DEF SourcesInv, RegistrationIsSingle
  <2>2. ~(Head(queue).kind = "register" /\ queue[i + 1].for = Head(queue).for)
    BY <1>2, <1>3 DEF SourcesInv, RegistrationIsSingle
  <2> QED BY <1>2, <1>3, <2>1, <2>2
<1>4. ASSUME NEW i \in DOMAIN queue', NEW j \in DOMAIN queue',
             queue'[i].kind = "register", queue'[j].kind = "register",
             queue'[i].for \in Runs, queue'[i].for = queue'[j].for
      PROVE  i = j
  <2>1. i + 1 = j + 1
    BY <1>2, <1>4 DEF SourcesInv, RegistrationIsSingle
  <2> QED BY <1>2, <2>1
<1> QED BY <1>3, <1>4 DEF RegistrationIsSingle

\* The flags of servers: a run that ends takes that of its server with it.
LEMMA RunningKeeps ==
    ASSUME SourcesInv, RunsGoOn,
           \A s \in Sessions : running'[s] =>
             \/ running[s]
             \/ \E r \in Runs : run'[r].on = s /\ run'[r].pc \in {"context", "text"},
           \A r \in Runs : run[r].pc \in {"context", "text"} =>
             run'[r].pc \in {"context", "text"} \/ ~running'[run[r].on]
    PROVE  RunningIsNotStuck'
<1> SUFFICES ASSUME NEW s \in Sessions, running'[s], running[s]
             PROVE  \E r \in Runs : run'[r].on = s /\ run'[r].pc \in {"context", "text"}
  BY DEF RunningIsNotStuck
<1>1. PICK r \in Runs : run[r].on = s /\ run[r].pc \in {"context", "text"}
  BY DEF SourcesInv, RunningIsNotStuck
<1>2. run'[r].on = s /\ run'[r].pc \in {"context", "text"}
  BY <1>1 DEF RunsGoOn
<1> QED BY <1>2

-----------------------------------------------------------------------------

\* A session is created: who awaits it registers the plugin.
LEMMA SessionCreatedKeeps ==
    ASSUME SourcesInv, NEW s \in Sessions, SessionCreated(s)
    PROVE  SourcesInv' /\ NoGroovyStep
<1> DEFINE us == Registrations(s)
<1>0. SourcesTypeOK
  BY DEF SourcesInv
<1>1. /\ phase' = [phase EXCEPT ![s] = "ready"] /\ waiting' = [waiting EXCEPT ![s] = <<>>]
      /\ UNCHANGED <<version, prefixes, dirty, plugin, listeners, context, fetch, running>>
  BY DEF SessionCreated
<1>2. /\ waiting[s] \in Seq(RunOrNone) /\ Awaiting(s) \subseteq Runs
      /\ \A r \in Awaiting(s) : run[r].pc = "session" /\ run[r].on = s
      /\ \A r \in Awaiting(s) : \E i \in DOMAIN waiting[s] : waiting[s][i] = r
  BY <1>0 DEF SourcesTypeOK, Awaiting, Range, RunOrNone, SourcesInv, WaitingIsSingle
<1>3. /\ waiting' \in [Sessions -> Seq(RunOrNone)] /\ waiting'[s] = <<>>
      /\ \A t \in Sessions \ {s} : waiting'[t] = waiting[t]
      /\ phase' \in [Sessions -> {"new", "ready", "closed"}]
  BY <1>0, <1>1 DEF SourcesTypeOK
<1>4. us \in Seq(Updates) /\ DOMAIN us = DOMAIN waiting[s]
      /\ \A i \in DOMAIN us : us[i].on = s /\ us[i].kind = "register" /\ us[i].for = waiting[s][i]
  <2>1. \A i \in DOMAIN waiting[s] : Update(s, "register", waiting[s][i]) \in Updates
    BY <1>2 DEF Update, Updates
  <2>2. us \in [1..Len(waiting[s]) -> Updates] /\ Len(waiting[s]) \in Nat
    BY <1>2, <2>1 DEF Registrations
  <2>3. DOMAIN us = DOMAIN waiting[s]
    BY DEF Registrations
  <2>4. \A i \in DOMAIN us : us[i].on = s /\ us[i].kind = "register" /\ us[i].for = waiting[s][i]
    BY <2>3 DEF Registrations, Update
  <2>5. us \in Seq(Updates)
    BY <2>2
  <2> QED BY <2>3, <2>4, <2>5
<1> HIDE DEF us
<1>5. ASSUME NEW pc \in {"register", "types"}, run' = Goto(Awaiting(s), pc)
      PROVE  /\ RunsGoOn /\ WaitingIsSingle' /\ RunningIsNotStuck'
             /\ \A r \in Runs : run[r].pc # "session" => run'[r].pc = run[r].pc
             /\ \A r \in Awaiting(s) : run'[r].pc = pc
  <2>1. pc \in Pcs \ {"idle"} /\ \A r \in Awaiting(s) : run[r].pc # "idle" /\ run[r].pc \notin Begun
    BY <1>2 DEF Pcs, Begun
  <2>2. /\ RunsGoOn
        /\ \A r \in Runs : run'[r].on = run[r].on
                           /\ run'[r].pc = IF r \in Awaiting(s) THEN pc ELSE run[r].pc
    BY <1>0, <1>5, <2>1, GoingOn
  <2>3. WaitingIsSingle'
    BY <1>2, <1>3, <2>2, WaitingKeeps
  <2>4. \A r \in Runs : run[r].pc # "session" => run'[r].pc = run[r].pc
    BY <1>2, <2>2
  <2>5. RunningIsNotStuck'
    BY <1>1, <2>2, <2>4, RunningKeeps
  <2> QED BY <1>2, <2>2, <2>3, <2>4, <2>5
<1>6. CASE Supports(s)
  <2>1. setPythonServerExecutionContext(us, evict, prefixes) /\ run' = Goto(Awaiting(s), "register")
    BY <1>6 DEF SessionCreated, Supports, us
  <2>2. UpdatesJoin(us, evict, prefixes)
    BY <1>0, <1>1, <1>4, <2>1, UpdatesHaveJoined DEF SourcesTypeOK
  <2>3. /\ RunsGoOn /\ WaitingIsSingle' /\ RunningIsNotStuck'
        /\ \A r \in Runs : run[r].pc # "session" => run'[r].pc = run[r].pc
        /\ \A r \in Awaiting(s) : run'[r].pc = "register"
    BY <1>5, <2>1
  <2>4. us # <<>> => Head(us).kind = "register" /\ Head(us).on = s
    BY <1>4
  <2>5. us # <<>> => NewScript(Script(Head(us), evict, prefixes), Head(us))
    BY <2>4 DEF NewScript, Script
  <2>6. \A i \in DOMAIN us : NewUpdate(us[i])
    BY <1>4, <1>6 DEF NewUpdate
  <2>7. TokensHold' /\ PythonCommandsFit'
    <3>1. version' \in Nat /\ version' >= version /\ evict \in SUBSET ImportPrefixes /\ prefixes \in SUBSET ImportPrefixes
      BY <1>0, <1>1 DEF SourcesTypeOK
    <3>2. \A t \in Sessions : listeners'[t] > 0 => Supports(t)
      BY <1>1 DEF SourcesInv, UpdatesAreForPython
    <3> QED BY <1>1, <1>4, <2>2, <2>3, <2>5, <2>6, <3>1, <3>2, JoinedHolds
  <2>8. queue \in Seq(Updates) /\ queue' = queue \o us
    BY <1>0, <2>2 DEF SourcesTypeOK, UpdatesJoin
  <2>9. RegistrationIsSingle'
    <3>1. \A i \in DOMAIN queue' : \/ i \in DOMAIN queue /\ queue'[i] = queue[i]
                                   \/ /\ i - Len(queue) \in DOMAIN us /\ queue'[i] = us[i - Len(queue)]
                                      /\ i \in Nat /\ Len(queue) \in Nat
      BY <1>4, <2>8
    <3>2. \A i \in DOMAIN queue : (queue[i].kind = "register" /\ queue[i].for \in Runs) =>
            queue[i].for \notin Awaiting(s) /\ run'[queue[i].for].pc = "register"
      BY <1>2, <2>3 DEF SourcesInv, RegistrationIsSingle
    <3>3. \A j \in DOMAIN us : us[j].for \in Runs => us[j].for \in Awaiting(s)
      BY <1>4, SourcesAssumption DEF Awaiting, Range
    <3>4. \A i, j \in DOMAIN us : us[i].for \in Runs /\ us[i].for = us[j].for => i = j
      BY <1>4 DEF SourcesInv, WaitingIsSingle
    <3>5. \A i \in DOMAIN queue' : (queue'[i].kind = "register" /\ queue'[i].for \in Runs) =>
            run'[queue'[i].for].pc = "register"
      BY <2>3, <3>1, <3>2, <3>3
    <3>6. ASSUME NEW i \in DOMAIN queue', NEW j \in DOMAIN queue',
                 queue'[i].kind = "register", queue'[j].kind = "register",
                 queue'[i].for \in Runs, queue'[i].for = queue'[j].for
          PROVE  i = j
      <4>1. CASE i \in DOMAIN queue /\ queue'[i] = queue[i]
        <5>1. j \in DOMAIN queue /\ queue'[j] = queue[j]
          BY <3>1, <3>2, <3>3, <3>6, <4>1
        <5> QED BY <3>6, <4>1, <5>1 DEF SourcesInv, RegistrationIsSingle
      <4>2. CASE i - Len(queue) \in DOMAIN us /\ queue'[i] = us[i - Len(queue)] /\ i \in Nat /\ Len(queue) \in Nat
        <5>1. j - Len(queue) \in DOMAIN us /\ queue'[j] = us[j - Len(queue)] /\ j \in Nat
          BY <3>1, <3>2, <3>3, <3>6, <4>2
        <5>2. i - Len(queue) = j - Len(queue)
          BY <3>4, <3>6, <4>2, <5>1
        <5> QED BY <4>2, <5>1, <5>2
      <4> QED BY <3>1, <4>1, <4>2
    <3> QED BY <3>5, <3>6 DEF RegistrationIsSingle
  <2>10. SourcesTypeOK'
    BY <1>0, <1>1, <1>3, <1>4, <2>2, <2>3, <2>8 DEF SourcesTypeOK, UpdatesJoin, RunsGoOn
  <2>11. NoGroovyStep
    <3>1. \A t \in Groovy : commands'[t] = commands[t]
      BY <1>4, <2>2, <2>6, JoinedLeavesGroovy
    <3> QED BY <1>0, <1>1, <2>3, <3>1 DEF NoGroovyStep, SourcesTypeOK
  <2> QED BY <2>3, <2>7, <2>9, <2>10, <2>11 DEF SourcesInv, TokensHold
<1>7. CASE ~Supports(s)
  <2>1. run' = Goto(Awaiting(s), "types") /\ UNCHANGED <<queue, commands, evict>>
    BY <1>7 DEF SessionCreated, Supports
  <2>2. /\ RunsGoOn /\ WaitingIsSingle' /\ RunningIsNotStuck'
        /\ \A r \in Runs : run[r].pc # "session" => run'[r].pc = run[r].pc
    BY <1>5, <2>1
  <2>3. TokensHold' /\ PythonCommandsFit'
    BY <1>0, <1>1, <2>1, <2>2, NothingNewHolds
  <2>4. RegistrationIsSingle'
    BY <2>1, <2>2 DEF SourcesInv, RegistrationIsSingle
  <2>5. SourcesTypeOK'
    BY <1>0, <1>1, <1>3, <2>1, <2>2 DEF SourcesTypeOK, RunsGoOn
  <2>6. NoGroovyStep
    BY <1>0, <1>1, <2>1, <2>2 DEF NoGroovyStep, SourcesTypeOK
  <2> QED BY <2>2, <2>3, <2>4, <2>5, <2>6 DEF SourcesInv, TokensHold
<1> QED BY <1>6, <1>7

\* Whoever awaits the session of a connection that is closed gets none.
ConnectionGoesOn ==
    /\ phase' \in [Sessions -> {"new", "ready", "closed"}]
    /\ waiting' \in [Sessions -> Seq(RunOrNone)] /\ listeners' \in [Sessions -> Nat]
    /\ fetch' \in [Sessions -> {"none", "asked", "lost"}]
    /\ \A t \in Sessions : waiting'[t] = waiting[t] \/ waiting'[t] = <<>>
    /\ \A t \in Sessions : listeners'[t] = listeners[t] \/ listeners'[t] = 0

LEMMA ClosingGoesOn ==
    ASSUME SourcesTypeOK, NEW s \in Sessions,
           Closed(s) \/ UNCHANGED <<phase, waiting, listeners, fetch>>
    PROVE  ConnectionGoesOn /\ (Closed(s) => waiting'[s] = <<>>)
<1>1. CASE Closed(s)
  BY <1>1 DEF Closed, ConnectionGoesOn, SourcesTypeOK
<1>2. CASE UNCHANGED <<phase, waiting, listeners, fetch>>
  BY <1>2 DEF ConnectionGoesOn, SourcesTypeOK, Closed
<1> QED BY <1>1, <1>2

LEMMA DisposeKeeps ==
    ASSUME SourcesInv, NEW s \in Sessions, Dispose(s)
    PROVE  SourcesInv' /\ NoGroovyStep
<1>0. SourcesTypeOK
  BY DEF SourcesInv
<1>1. /\ Closed(s) /\ run' = Goto(Awaiting(s), "failed")
      /\ UNCHANGED <<version, prefixes, evict, dirty, queue, plugin, commands, context, running>>
  BY DEF Dispose, sourceVars
<1>2. ConnectionGoesOn /\ waiting'[s] = <<>>
  BY <1>0, <1>1, ClosingGoesOn
<1>3. \A r \in Awaiting(s) : r \in Runs => run[r].pc = "session" /\ run[r].on = s
  BY DEF SourcesInv, WaitingIsSingle, Awaiting, Range
<1>4. /\ RunsGoOn
      /\ \A r \in Runs : run'[r].pc = IF r \in Awaiting(s) THEN "failed" ELSE run[r].pc
  <2>1. "failed" \in Pcs \ {"idle"} /\ "failed" \in Begun
    BY DEF Pcs, Begun
  <2> QED BY <1>0, <1>1, <1>3, <2>1, GoingOn
<1>5. WaitingIsSingle'
  BY <1>2, <1>3, <1>4, WaitingKeeps DEF ConnectionGoesOn
<1>6. TokensHold' /\ PythonCommandsFit'
  BY <1>1, <1>2, <1>4, NothingNewHolds DEF ConnectionGoesOn
<1>7. RegistrationIsSingle'
  BY <1>1, <1>3, <1>4 DEF SourcesInv, RegistrationIsSingle
<1>8. RunningIsNotStuck'
  BY <1>1, <1>3, <1>4, RunningKeeps
<1>9. SourcesTypeOK'
  BY <1>0, <1>1, <1>2, <1>4 DEF SourcesTypeOK, ConnectionGoesOn, RunsGoOn
<1>10. NoGroovyStep
  BY <1>0, <1>1, <1>3, <1>4 DEF NoGroovyStep, SourcesTypeOK
<1> QED BY <1>5, <1>6, <1>7, <1>8, <1>9, <1>10 DEF SourcesInv, TokensHold

\* runCode is called, and awaits the session if there is none yet.
LEMMA RunCodeKeeps ==
    ASSUME SourcesInv, NEW r \in Runs, NEW s \in Sessions, NEW code \in Codes, RunCode(r, s, code)
    PROVE  SourcesInv' /\ NoGroovyStep
<1> DEFINE pc == IF phase[s] = "new" THEN "session" ELSE "types"
<1>0. SourcesTypeOK
  BY DEF SourcesInv
<1>1. /\ run[r].pc = "idle" /\ run' = [run EXCEPT ![r] = [pc |-> pc, on |-> s, code |-> code, since |-> version]]
      /\ waiting' = IF phase[s] = "new" THEN [waiting EXCEPT ![s] = Append(@, r)] ELSE waiting
      /\ UNCHANGED <<version, prefixes, evict, dirty, queue, phase, plugin, listeners, commands, context,
                     fetch, running>>
  BY DEF RunCode, sourceVars, serverVars
<1>2. [pc |-> pc, on |-> s, code |-> code, since |-> version] \in CallsOfRuns
  BY <1>0 DEF SourcesTypeOK, CallsOfRuns, Pcs, SessionOrNone
<1>3. /\ run' \in [Runs -> CallsOfRuns]
      /\ run'[r].pc = pc /\ run'[r].on = s /\ run'[r].since = version
      /\ \A q \in Runs \ {r} : run'[q] = run[q]
  BY <1>0, <1>1, <1>2 DEF SourcesTypeOK
<1>4. pc \in {"session", "types"}
  OBVIOUS
<1>5. RunsGoOn
  BY <1>1, <1>3, <1>4 DEF RunsGoOn, Begun
<1>6. TokensHold' /\ PythonCommandsFit'
  BY <1>1, <1>5, NothingNewHolds
<1>7. waiting' \in [Sessions -> Seq(RunOrNone)]
  BY <1>0, <1>1 DEF SourcesTypeOK, RunOrNone
<1>8. WaitingIsSingle'
  <2>1. /\ \A t \in Sessions : \A i \in DOMAIN waiting[t] : waiting[t][i] \in Runs =>
             run[waiting[t][i]].pc = "session" /\ run[waiting[t][i]].on = t
        /\ \A t \in Sessions : \A i, j \in DOMAIN waiting[t] :
             waiting[t][i] \in Runs /\ waiting[t][i] = waiting[t][j] => i = j
    BY DEF SourcesInv, WaitingIsSingle
  <2>2. \A t \in Sessions : \A i \in DOMAIN waiting[t] : waiting[t][i] # r
    BY <1>1, <2>1
  <2>3. \A t \in Sessions : waiting[t] \in Seq(RunOrNone)
    BY <1>0 DEF SourcesTypeOK
  <2> SUFFICES ASSUME NEW t \in Sessions
               PROVE  /\ \A i \in DOMAIN waiting'[t] : waiting'[t][i] \in Runs =>
                           run'[waiting'[t][i]].pc = "session" /\ run'[waiting'[t][i]].on = t
                      /\ \A i, j \in DOMAIN waiting'[t] :
                           waiting'[t][i] \in Runs /\ waiting'[t][i] = waiting'[t][j] => i = j
    BY DEF WaitingIsSingle
  <2>4. CASE waiting'[t] = waiting[t]
    BY <1>3, <2>1, <2>2, <2>4
  <2>5. CASE t = s /\ phase[s] = "new" /\ waiting'[s] = Append(waiting[s], r)
    <3>1. \A i \in DOMAIN waiting'[s] : \/ i \in DOMAIN waiting[s] /\ waiting'[s][i] = waiting[s][i]
                                        \/ i = Len(waiting[s]) + 1 /\ waiting'[s][i] = r
      BY <2>3, <2>5
    <3>2. run'[r].pc = "session" /\ run'[r].on = s
      BY <1>3, <2>5
    <3>3. \A i \in DOMAIN waiting'[s] : waiting'[s][i] \in Runs =>
            run'[waiting'[s][i]].pc = "session" /\ run'[waiting'[s][i]].on = s
      BY <1>3, <2>1, <2>2, <3>1, <3>2
    <3>4. \A i, j \in DOMAIN waiting'[s] :
            waiting'[s][i] \in Runs /\ waiting'[s][i] = waiting'[s][j] => i = j
      BY <2>1, <2>2, <3>1
    <3> QED BY <2>5, <3>3, <3>4
  <2>6. waiting'[t] = waiting[t] \/ (t = s /\ phase[s] = "new" /\ waiting'[s] = Append(waiting[s], r))
    BY <1>0, <1>1 DEF SourcesTypeOK
  <2> QED BY <2>4, <2>5, <2>6
<1>9. RegistrationIsSingle'
  BY <1>1, <1>3 DEF SourcesInv, RegistrationIsSingle
<1>10. RunningIsNotStuck'
  BY <1>1, <1>3, <1>5, RunningKeeps
<1>11. SourcesTypeOK'
  BY <1>0, <1>1, <1>3, <1>7 DEF SourcesTypeOK
<1>12. NoGroovyStep
  BY <1>0, <1>1, <1>3, <1>5 DEF NoGroovyStep, SourcesTypeOK
<1> QED BY <1>6, <1>8, <1>9, <1>10, <1>11, <1>12 DEF SourcesInv, TokensHold

\* The language does not fit.
LEMMA RunRefusedKeeps ==
    ASSUME SourcesInv, NEW r \in Runs, RunRefused(r)
    PROVE  SourcesInv' /\ NoGroovyStep
<1>0. SourcesTypeOK
  BY DEF SourcesInv
<1>1. /\ run[r].pc = "types" /\ run' = Goto({r}, "failed")
      /\ UNCHANGED <<version, prefixes, evict, dirty, queue, phase, plugin, waiting, listeners, commands,
                     context, fetch, running>>
  BY DEF RunRefused, sourceVars, connectionVars, serverVars
<1>2. RunsGoOn /\ \A q \in Runs : run'[q].on = run[q].on /\ (q # r => run'[q].pc = run[q].pc)
  <2>1. "failed" \in Pcs \ {"idle"} /\ "failed" \in Begun
    BY DEF Pcs, Begun
  <2> QED BY <1>0, <1>1, <2>1, OneGoesOn
<1>3. WaitingIsSingle' /\ RegistrationIsSingle' /\ RunningIsNotStuck'
  <2>1. WaitingIsSingle'
    BY <1>1, <1>2, WaitingKeeps
  <2>2. RegistrationIsSingle'
    BY <1>1, <1>2 DEF SourcesInv, RegistrationIsSingle
  <2>3. RunningIsNotStuck'
    BY <1>1, <1>2, RunningKeeps
  <2> QED BY <2>1, <2>2, <2>3
<1>4. TokensHold' /\ PythonCommandsFit'
  BY <1>1, <1>2, NothingNewHolds
<1>5. SourcesTypeOK'
  BY <1>0, <1>1, <1>2 DEF SourcesTypeOK, RunsGoOn
<1>6. NoGroovyStep
  <2>1. \A q \in Runs : run[q].pc \in {"context", "text", "failed"} => run'[q].pc = run[q].pc
    BY <1>1, <1>2
  <2>2. version' \in Nat /\ version' >= version
    BY <1>0, <1>1 DEF SourcesTypeOK
  <2> QED BY <1>1, <1>2, <2>1, <2>2 DEF NoGroovyStep
<1> QED BY <1>3, <1>4, <1>5, <1>6 DEF SourcesInv, TokensHold

\* A run on a Groovy server sends its resources, or its code if there is no plugin.
GroovyRunStarts(r) ==
    /\ RunsGoOn /\ UNCHANGED <<version, plugin, context>>
    /\ run[r].pc = "types" /\ run[r].on \in Groovy
    /\ \A q \in Runs \ {r} : run'[q].pc = run[q].pc
    /\ \/ /\ plugin[run[r].on] /\ ~dirty' /\ run'[r].pc = "context"
          /\ commands' = [commands EXCEPT ![run[r].on] = Append(@, ResourcePaths(r))]
       \/ /\ ~plugin[run[r].on] /\ UNCHANGED dirty /\ run'[r].pc = "text"
          /\ commands' = [commands EXCEPT ![run[r].on] = Append(@, Text(r))]

\* The console types are there: the run's update, resources or code is sent.
LEMMA RunStartedKeeps ==
    ASSUME SourcesInv, NEW r \in Runs, RunStarted(r)
    PROVE  SourcesInv' /\ (NoGroovyStep \/ GroovyRunStarts(r))
<1> DEFINE s == run[r].on
<1>0. SourcesTypeOK
  BY DEF SourcesInv
<1>1. /\ run[r].pc = "types" /\ running' = [running EXCEPT ![s] = TRUE]
      /\ UNCHANGED <<version, phase, plugin, waiting, listeners, context, fetch>>
  BY DEF RunStarted, connectionVars
<1>2. s \in Sessions /\ run[r] \in CallsOfRuns /\ run[r].since <= version
  BY <1>0, <1>1 DEF SourcesTypeOK, SourcesInv, RunsAreNotAhead
<1>3. PICK pc \in {"context", "text"} : run' = Goto({r}, pc)
  BY DEF RunStarted
<1> HIDE DEF s
<1>4. /\ RunsGoOn
      /\ \A q \in Runs : run'[q].on = run[q].on /\ (q # r => run'[q].pc = run[q].pc)
      /\ run'[r].pc = pc
  <2>1. pc \in Pcs \ {"idle"} /\ pc \in Begun
    BY DEF Pcs, Begun
  <2> QED BY <1>0, <1>1, <1>3, <2>1, OneGoesOn
<1>5. WaitingIsSingle'
  BY <1>1, <1>4, WaitingKeeps
<1>6. running' \in [Sessions -> BOOLEAN] /\ RunningIsNotStuck'
  <2>1. running' \in [Sessions -> BOOLEAN] /\ \A t \in Sessions : running'[t] => running[t] \/ t = s
    BY <1>0, <1>1, <1>2 DEF SourcesTypeOK
  <2>2. run'[r].on = s
    BY <1>4 DEF s
  <2>3. \A t \in Sessions : running'[t] =>
          \/ running[t]
          \/ \E q \in Runs : run'[q].on = t /\ run'[q].pc \in {"context", "text"}
    BY <1>4, <2>1, <2>2
  <2>4. \A q \in Runs : run[q].pc \in {"context", "text"} => run'[q].pc \in {"context", "text"}
    BY <1>1, <1>4
  <2>5. RunningIsNotStuck'
    BY <1>4, <2>3, <2>4, RunningKeeps
  <2> QED BY <2>1, <2>5
<1>7. run'[r].since <= version /\ run'[r].on = s
  BY <1>1, <1>2, <1>4 DEF RunsGoOn, s
<1>8. \A t \in Sessions : listeners'[t] > 0 => Supports(t)
  BY <1>1 DEF SourcesInv, UpdatesAreForPython
<1>9. version \in Nat /\ version' = version /\ commands \in [Sessions -> Seq(Commands)]
  BY <1>0, <1>1 DEF SourcesTypeOK
<1>10. CASE s \in Python /\ plugin[s]
  <2> DEFINE us == <<Update(s, "run", r)>>
             marks == MarkedForEviction(r)
  <2>1. /\ setControllerImportPrefixes(r) /\ setPythonServerExecutionContext(us, marks, prefixes')
        /\ UNCHANGED dirty
    BY <1>2, <1>10, SourcesAssumption DEF RunStarted, s
  <2>2. prefixes' \in SUBSET ImportPrefixes /\ marks \in SUBSET ImportPrefixes
    <3>1. SetsPrefixes(r) => run[r].code \in SUBSET ImportPrefixes
      <4>1. run[r].code \in Codes \cup {None}
        BY <1>2 DEF CallsOfRuns
      <4>2. \A c \in Codes : c \in SUBSET ImportPrefixes \/ c = None
        BY SourcesAssumption
      <4> QED BY <4>1, <4>2 DEF SetsPrefixes
    <3> QED BY <1>0, <2>1, <3>1 DEF SourcesTypeOK, setControllerImportPrefixes, MarkedForEviction
  <2>3. Update(s, "run", r) \in Updates
    BY <1>2 DEF Update, Updates, RunOrNone
  <2>4. us \in Seq(Updates) /\ us # <<>> /\ Head(us) = Update(s, "run", r)
        /\ \A i \in DOMAIN us : us[i] = Update(s, "run", r)
    BY <2>3
  <2> HIDE DEF us, marks
  <2>5. UpdatesJoin(us, marks, prefixes')
    BY <1>0, <1>9, <2>1, <2>2, <2>4, UpdatesHaveJoined
  <2>6. NewUpdate(Update(s, "run", r))
    BY <1>4, <1>7, <1>10 DEF NewUpdate, Update, Supports, Begun
  <2>7. NewScript(Script(Head(us), marks, prefixes'), Head(us))
    BY <1>7, <1>9, <2>4 DEF NewScript, Script, Update
  <2>8. TokensHold' /\ PythonCommandsFit'
    <3>1. \A i \in DOMAIN us : NewUpdate(us[i])
      BY <2>4, <2>6
    <3> QED BY <1>1, <1>4, <1>8, <1>9, <2>2, <2>4, <2>5, <2>7, <3>1, JoinedHolds
  <2>9. RegistrationIsSingle'
    <3>1. \A i \in DOMAIN us : us[i].kind # "register"
      BY <2>4 DEF Update
    <3>2. queue' = queue \o us
      BY <2>5 DEF UpdatesJoin
    <3> QED BY <1>1, <1>4, <2>4, <3>1, <3>2, JoiningKeepsRegistrations
  <2>10. SourcesTypeOK'
    <3>1. queue' \in Seq(Updates)
      BY <1>0, <2>4, <2>5 DEF SourcesTypeOK, UpdatesJoin
    <3> QED BY <1>0, <1>1, <1>4, <1>6, <2>1, <2>2, <2>5, <3>1 DEF SourcesTypeOK, UpdatesJoin, RunsGoOn
  <2>11. NoGroovyStep
    <3>1. \A t \in Groovy : commands'[t] = commands[t]
      <4>1. \A i \in DOMAIN us : NewUpdate(us[i])
        BY <2>4, <2>6
      <4> QED BY <2>4, <2>5, <4>1, JoinedLeavesGroovy
    <3>2. run[r].on \notin Groovy
      BY <1>10, SourcesAssumption DEF s
    <3> QED BY <1>1, <1>4, <1>9, <2>1, <3>1 DEF NoGroovyStep
  <2> QED BY <1>5, <1>6, <2>8, <2>9, <2>10, <2>11 DEF SourcesInv, TokensHold
<1>11. CASE ~(s \in Python /\ plugin[s])
  <2>1. PICK cmd \in {ResourcePaths(r), Text(r)} :
          /\ commands' = [commands EXCEPT ![s] = Append(@, cmd)]
          /\ dirty' \in {FALSE, dirty} /\ UNCHANGED <<prefixes, evict, queue>>
    BY <1>11 DEF RunStarted, Send, SendText, s
  <2>2. cmd \in Commands /\ cmd.kind # "context" /\ cmd.for = r
    <3>1. dirty \in BOOLEAN /\ r \in RunOrNone
      BY <1>0 DEF SourcesTypeOK, RunOrNone
    <3>2. ResourcePaths(r) \in Commands /\ Text(r) \in Commands
      BY <1>9, <3>1 DEF ResourcePaths, Text, Commands
    <3>3. \A c \in {ResourcePaths(r), Text(r)} : c.kind # "context" /\ c.for = r
      BY DEF ResourcePaths, Text
    <3> QED BY <3>2, <3>3
  <2>3. NewCommand(s, cmd)
    BY <1>4, <1>7, <2>2 DEF NewCommand, Begun
  <2> DEFINE sent == Append(commands[s], cmd)
  <2>4. sent \in Seq(Commands) /\ \A i \in DOMAIN sent : sent[i] \in Range(commands[s]) \/ sent[i] = cmd
    <3>1. \A i \in DOMAIN sent : (i \in DOMAIN commands[s] /\ sent[i] = commands[s][i]) \/ sent[i] = cmd
      BY <1>2, <1>9, <2>2
    <3> QED BY <1>2, <1>9, <2>2, <3>1 DEF Range
  <2>5. commands' = [commands EXCEPT ![s] = sent]
    BY <2>1
  <2> HIDE DEF sent
  <2>6. TokensHold' /\ PythonCommandsFit' /\ commands' \in [Sessions -> Seq(Commands)]
    <3>1. UNCHANGED <<version, queue, plugin>> /\ ~Supports(s) /\ s \in Sessions
      BY <1>1, <1>2, <1>9, <1>11, <2>1 DEF Supports
    <3>2. \A i \in DOMAIN sent : sent[i] \in Range(commands[s]) \/ NewCommand(s, sent[i])
      BY <2>3, <2>4
    <3>3. /\ \A t \in Sessions \ {s} : context'[t] = context[t]
          /\ \A t \in Sessions : listeners'[t] = listeners[t] \/ listeners'[t] = 0
      BY <1>1, <1>2
    <3> QED BY <1>4, <2>4, <2>5, <3>1, <3>2, <3>3, SentHolds
  <2>7. RegistrationIsSingle'
    BY <1>1, <1>4, <2>1 DEF SourcesInv, RegistrationIsSingle
  <2>8. SourcesTypeOK'
    BY <1>0, <1>1, <1>4, <1>6, <2>1, <2>6 DEF SourcesTypeOK, RunsGoOn
  <2>9. NoGroovyStep \/ GroovyRunStarts(r)
    <3>1. CASE s \in Groovy
      <4>1. \/ /\ plugin[s] /\ dirty' = FALSE /\ run' = Goto({r}, "context")
               /\ commands' = [commands EXCEPT ![s] = Append(@, ResourcePaths(r))]
            \/ /\ ~plugin[s] /\ UNCHANGED dirty /\ run' = Goto({r}, "text")
               /\ commands' = [commands EXCEPT ![s] = Append(@, Text(r))]
        BY <1>11 DEF RunStarted, Send, SendText, s
      <4>2. ASSUME NEW to, run' = Goto({r}, to) PROVE run'[r].pc = to
        BY <1>0, <4>2 DEF Goto, SourcesTypeOK, CallsOfRuns
      <4>3. GroovyRunStarts(r)
        BY <1>1, <1>4, <3>1, <4>1, <4>2 DEF GroovyRunStarts, s
      <4> QED BY <4>3
    <3>2. CASE s \notin Groovy
      <4>1. UNCHANGED dirty
        BY <1>11, <3>2 DEF RunStarted, s
      <4>2. \A t \in Groovy : commands'[t] = commands[t]
        BY <1>9, <2>5, <3>2, GroovyIsUnsupported
      <4>3. NoGroovyStep
        BY <1>1, <1>4, <1>9, <3>2, <4>1, <4>2 DEF NoGroovyStep, s
      <4> QED BY <4>3
    <3> QED BY <3>1, <3>2
  <2> QED BY <1>5, <1>6, <2>6, <2>7, <2>8, <2>9 DEF SourcesInv, TokensHold
<1> QED BY <1>10, <1>11

\* Steps that leave everything but questions for sources.
LEMMA AskingKeeps ==
    ASSUME SourcesInv, UNCHANGED vars \/ \E s \in Sessions : AskForSource(s) \/ AnswerSource(s)
    PROVE  SourcesInv' /\ NoGroovyStep
<1>0. SourcesTypeOK
  BY DEF SourcesInv
<1>1. UNCHANGED <<version, prefixes, evict, dirty, queue, phase, plugin, waiting, listeners, commands,
                  context, running, run>>
  BY DEF AskForSource, AnswerSource, vars, sourceVars, connectionVars, serverVars
<1>2. fetch' \in [Sessions -> {"none", "asked", "lost"}]
  BY <1>0 DEF AskForSource, AnswerSource, respond, vars, serverVars, SourcesTypeOK
<1>3. RunsGoOn
  BY <1>0, <1>1 DEF RunsGoOn, SourcesTypeOK
<1>4. TokensHold' /\ PythonCommandsFit'
  BY <1>1, <1>3, NothingNewHolds
<1>5. WaitingIsSingle' /\ RegistrationIsSingle' /\ RunningIsNotStuck'
  BY <1>1 DEF SourcesInv, WaitingIsSingle, RegistrationIsSingle, RunningIsNotStuck
<1>6. SourcesTypeOK'
  BY <1>0, <1>1, <1>2 DEF SourcesTypeOK
<1>7. NoGroovyStep
  BY <1>0, <1>1, <1>3 DEF NoGroovyStep, SourcesTypeOK
<1> QED BY <1>4, <1>5, <1>6, <1>7 DEF SourcesInv, TokensHold

\* The subscriptions are finitely many.
LEMMA SubscriptionsAreFinite ==
    ASSUME SourcesTypeOK
    PROVE  IsFiniteSet(Subscriptions)
<1> DEFINE of == [s \in Python |-> {s} \X (1..listeners[s])]
           all == {{s} \X (1..listeners[s]) : s \in Python}
<1>1. IsFiniteSet(Python)
  BY SourcesAssumption, FS_Subset
<1>2. of \in Surjection(Python, all)
  BY DEF Surjection
<1>3. IsFiniteSet(all)
  <2> HIDE DEF of, all
  <2> QED BY <1>1, <1>2, FS_Surjection
<1>4. ASSUME NEW s \in Python PROVE IsFiniteSet({s} \X (1..listeners[s]))
  <2>1. listeners[s] \in Nat
    BY DEF SourcesTypeOK, Sessions
  <2>2. IsFiniteSet({s})
    BY FS_Singleton
  <2>3. IsFiniteSet(1..listeners[s])
    BY <2>1, FS_Interval
  <2> QED BY <2>2, <2>3, FS_Product
<1> QED BY <1>3, <1>4, FS_UNION DEF Subscriptions

\* A workspace event: updates of all subscriptions join the queue.
LEMMA WorkspaceChangedKeeps ==
    ASSUME SourcesInv, WorkspaceChanged
    PROVE  SourcesInv' /\ NoGroovyStep
<1>0. SourcesTypeOK
  BY DEF SourcesInv
<1>1. /\ version' = version + 1 /\ dirty' = TRUE
      /\ UNCHANGED <<prefixes, phase, plugin, waiting, listeners, context, fetch, running, run>>
  BY DEF WorkspaceChanged, connectionVars
<1>2. PICK subscribed \in SetToSeqs(Subscriptions) :
        IF subscribed = <<>> THEN UNCHANGED <<queue, commands, evict>>
        ELSE setPythonServerExecutionContext(
                 [i \in DOMAIN subscribed |-> Update(subscribed[i][1], "meta", None)], evict, prefixes)
  BY DEF WorkspaceChanged
<1>3. version \in Nat /\ version' \in Nat /\ version' >= version
  BY <1>0, <1>1 DEF SourcesTypeOK
<1>4. RunsGoOn
  BY <1>0, <1>1 DEF RunsGoOn, SourcesTypeOK
<1>5. WaitingIsSingle' /\ RunningIsNotStuck'
  BY <1>1 DEF SourcesInv, WaitingIsSingle, RunningIsNotStuck
<1>6. \A s \in Sessions : listeners'[s] > 0 => Supports(s)
  BY <1>1 DEF SourcesInv, UpdatesAreForPython
<1> DEFINE us == [i \in DOMAIN subscribed |-> Update(subscribed[i][1], "meta", None)]
<1>7. /\ us \in Seq(Updates)
      /\ \A i \in DOMAIN us : us[i].kind = "meta" /\ NewUpdate(us[i])
  <2> DEFINE n == Cardinality(Subscriptions)
  <2>1. n \in Nat /\ subscribed \in [1..n -> Subscriptions]
    BY <1>0, SubscriptionsAreFinite, FS_CardinalityType DEF SetToSeqs
  <2>2. ASSUME NEW i \in DOMAIN subscribed
        PROVE  subscribed[i][1] \in Sessions /\ Supports(subscribed[i][1])
    <3>1. PICK s \in Python : subscribed[i] \in {s} \X (1..listeners[s])
      BY <2>1, <2>2 DEF Subscriptions
    <3>2. subscribed[i][1] = s /\ \E k \in 1..listeners[s] : TRUE
      BY <3>1
    <3>3. s \in Sessions /\ listeners[s] \in Nat
      BY <1>0 DEF SourcesTypeOK, Sessions
    <3>4. listeners[s] > 0
      BY <3>2, <3>3
    <3> QED BY <3>2, <3>3, <3>4 DEF SourcesInv, UpdatesAreForPython
  <2>3. \A i \in DOMAIN subscribed : /\ Update(subscribed[i][1], "meta", None) \in Updates
                                     /\ Update(subscribed[i][1], "meta", None).kind = "meta"
                                     /\ NewUpdate(Update(subscribed[i][1], "meta", None))
    BY <2>2 DEF Update, Updates, NewUpdate, RunOrNone
  <2> QED BY <2>1, <2>3
<1>8. us # <<>> => NewScript(Script(Head(us), evict, prefixes), Head(us))
  BY <1>7 DEF NewScript, Script
<1>9. us = <<>> => subscribed = <<>>
  <2>1. DOMAIN us = DOMAIN subscribed
    OBVIOUS
  <2>2. subscribed \in Seq(Subscriptions)
    BY <1>0, SubscriptionsAreFinite, FS_CardinalityType DEF SetToSeqs
  <2> HIDE DEF us
  <2> QED BY <1>7, <2>1, <2>2
<1>10. CASE subscribed = <<>>
  <2>1. UNCHANGED <<queue, commands, evict>>
    BY <1>2, <1>10
  <2>2. TokensHold'
    <3>1. \A i \in DOMAIN queue' : queue'[i] \in Range(queue)
      BY <2>1 DEF Range
    <3>2. \A s \in Sessions : \A i \in DOMAIN commands'[s] : commands'[s][i] \in Range(commands[s])
      BY <2>1 DEF Range
    <3> QED BY <1>1, <1>3, <1>4, <1>6, <3>1, <3>2, TokensKeep
  <2>3. PythonCommandsFit'
    BY <1>1, <1>4, <2>1, SameFits
  <2>4. RegistrationIsSingle'
    BY <1>1, <2>1 DEF SourcesInv, RegistrationIsSingle
  <2>5. SourcesTypeOK'
    BY <1>0, <1>1, <1>3, <2>1 DEF SourcesTypeOK
  <2>6. NoGroovyStep
    BY <1>1, <1>3, <1>4, <2>1 DEF NoGroovyStep
  <2> QED BY <1>5, <2>2, <2>3, <2>4, <2>5, <2>6 DEF SourcesInv, TokensHold
<1>11. CASE subscribed # <<>>
  <2>1. setPythonServerExecutionContext(us, evict, prefixes)
    BY <1>2, <1>11
  <2> HIDE DEF us
  <2>2. evict \in SUBSET ImportPrefixes /\ prefixes \in SUBSET ImportPrefixes
    BY <1>0 DEF SourcesTypeOK
  <2>3. UpdatesJoin(us, evict, prefixes)
    BY <1>0, <1>3, <1>7, <2>1, <2>2, UpdatesHaveJoined
  <2>4. TokensHold' /\ PythonCommandsFit'
    BY <1>1, <1>3, <1>4, <1>6, <1>7, <1>8, <2>2, <2>3, JoinedHolds
  <2>5. RegistrationIsSingle'
    BY <1>1, <1>7, <2>3, JoiningKeepsRegistrations DEF UpdatesJoin
  <2>6. SourcesTypeOK'
    <3>1. queue' \in Seq(Updates)
      BY <1>0, <1>7, <2>3 DEF SourcesTypeOK, UpdatesJoin
    <3> QED BY <1>0, <1>1, <1>3, <2>3, <3>1 DEF SourcesTypeOK, UpdatesJoin
  <2>7. NoGroovyStep
    <3>1. \A t \in Groovy : commands'[t] = commands[t]
      BY <1>7, <2>3, JoinedLeavesGroovy
    <3> QED BY <1>1, <1>3, <1>4, <3>1 DEF NoGroovyStep
  <2> QED BY <1>5, <2>4, <2>5, <2>6, <2>7 DEF SourcesInv, TokensHold
<1> QED BY <1>10, <1>11

\* The other runs stay where they are.
OthersStay(r) == \A q \in Runs : q # r => run'[q].pc = run[q].pc

\* A Groovy server takes its first command.
GroovyCommandTaken(s) ==
    LET first == Head(commands[s]) IN
    /\ RunsGoOn /\ UNCHANGED <<version, dirty, plugin>>
    /\ commands[s] # <<>> /\ OthersStay(first.for)
    /\ \A t \in Groovy \ {s} : commands'[t] = commands[t] /\ context'[t].version = context[t].version
    /\ \/ /\ first.kind = "resources" /\ run'[first.for].pc = "text"
          /\ commands'[s] = Append(Tail(commands[s]), Text(first.for))
          /\ context'[s].version = IF first.dirty THEN first.version ELSE context[s].version
       \/ /\ \/ first.kind = "text" /\ run'[first.for].pc = "done"
             \/ run'[first.for].pc = "failed"
          /\ commands'[s] = Tail(commands[s]) /\ context'[s].version = context[s].version

\* A run goes on to its code or ends, and if it fails it may close the connection of its server.
RunHasGoneOn ==
    /\ RunsGoOn /\ ConnectionGoesOn /\ UNCHANGED plugin
    /\ running' \in [Sessions -> BOOLEAN]
    /\ WaitingIsSingle' /\ RunningIsNotStuck'
    /\ \A q \in Runs : run[q].pc = "register" => run'[q].pc = "register"

LEMMA RunGoesOn ==
    ASSUME SourcesInv, NEW s \in Sessions, NEW r, HasBegun(r), run[r].on = s,
           \/ /\ run' = Goto({r}, "text") /\ UNCHANGED <<connectionVars, listeners, fetch, running>>
           \/ /\ run' = Goto({r}, "done") /\ NotRunning(s) /\ UNCHANGED <<connectionVars, listeners, fetch>>
           \/ RunFails(s, r)
    PROVE  RunHasGoneOn /\ OthersStay(r)
<1>0. SourcesTypeOK
  BY DEF SourcesInv
<1>1. PICK pc \in {"text", "done", "failed"} :
        run' = Goto({r}, pc) /\ ((pc = "text" /\ UNCHANGED running) \/ NotRunning(s))
  BY DEF RunFails
<1>2. UNCHANGED plugin /\ ConnectionGoesOn
  <2>1. UNCHANGED plugin /\ (Closed(s) \/ UNCHANGED <<phase, waiting, listeners, fetch>>)
    BY DEF RunFails, Unauthenticated, connectionVars
  <2> QED BY <1>0, <2>1, ClosingGoesOn
<1>3. r \in Runs /\ run[r].pc \in Begun
  BY DEF HasBegun
<1>4. /\ RunsGoOn
      /\ \A q \in Runs : run'[q].on = run[q].on /\ (q # r => run'[q].pc = run[q].pc)
      /\ run'[r].pc = pc
  <2>1. pc \in Pcs \ {"idle"} /\ pc \in Begun /\ run[r].pc # "idle"
    BY <1>3 DEF Pcs, Begun
  <2> QED BY <1>0, <1>1, <1>3, <2>1, OneGoesOn
<1>5. \A q \in Runs : run[q].pc \in {"session", "register"} => run'[q].pc = run[q].pc
  BY <1>3, <1>4 DEF Begun
<1>6. WaitingIsSingle'
  BY <1>2, <1>4, <1>5, WaitingKeeps DEF ConnectionGoesOn
<1>7. running' \in [Sessions -> BOOLEAN] /\ (\A t \in Sessions : running'[t] => running[t])
      /\ (pc = "text" \/ ~running'[s])
  BY <1>0, <1>1 DEF NotRunning, SourcesTypeOK
<1>8. RunningIsNotStuck'
  BY <1>1, <1>4, <1>7, RunningKeeps
<1> QED BY <1>2, <1>4, <1>5, <1>6, <1>7, <1>8 DEF RunHasGoneOn, OthersStay

\* A command of a sequence that is not its first was in it before that was taken.
LEMMA TakenWasThere ==
    ASSUME NEW S, NEW sent \in Seq(S), sent # <<>>
    PROVE  /\ Tail(sent) \in Seq(S) /\ Len(Tail(sent)) = Len(sent) - 1
           /\ \A i \in DOMAIN Tail(sent) : i + 1 \in DOMAIN sent /\ Tail(sent)[i] = sent[i + 1]
           /\ \A i \in DOMAIN Tail(sent) : Tail(sent)[i] \in Range(sent)
<1>1. /\ Tail(sent) \in Seq(S) /\ Len(Tail(sent)) = Len(sent) - 1
      /\ \A i \in DOMAIN Tail(sent) : i + 1 \in DOMAIN sent /\ Tail(sent)[i] = sent[i + 1]
  OBVIOUS
<1>2. \A i \in DOMAIN Tail(sent) : Tail(sent)[i] \in Range(sent)
  BY <1>1 DEF Range
<1> QED BY <1>1, <1>2

\* Code has executed.
LEMMA TextExecutedKeeps ==
    ASSUME SourcesInv, NEW s \in Sessions, TextExecuted(s)
    PROVE  SourcesInv' /\ (NoGroovyStep \/ (s \in Groovy /\ GroovyCommandTaken(s)))
<1>0. SourcesTypeOK
  BY DEF SourcesInv
<1>1. PICK r \in Runs :
        /\ TextAtHead(s, r) /\ commands' = Taken(s)
        /\ context' = [context EXCEPT ![s].evicted = {}]
        /\ \/ /\ run' = Goto({r}, "done") /\ NotRunning(s) /\ UNCHANGED <<connectionVars, listeners, fetch>>
           \/ RunFails(s, r)
  BY DEF TextExecuted
<1>2. UNCHANGED <<version, prefixes, evict, dirty, queue>>
  BY DEF TextExecuted, sourceVars
<1>3. /\ commands[s] \in Seq(Commands) /\ commands[s] # <<>> /\ commands[s][1] = Text(r)
      /\ 1 \in DOMAIN commands[s]
  BY <1>0, <1>1 DEF TextAtHead, SourcesTypeOK
<1>4. HasBegun(r) /\ run[r].on = s
  BY <1>3 DEF SourcesInv, TokensAreOfRuns, Text
<1>5. RunHasGoneOn /\ OthersStay(r)
  BY <1>1, <1>4, RunGoesOn
<1> DEFINE sent == Tail(commands[s])
<1>6. /\ sent \in Seq(Commands) /\ Len(sent) = Len(commands[s]) - 1
      /\ \A i \in DOMAIN sent : i + 1 \in DOMAIN commands[s] /\ sent[i] = commands[s][i + 1]
      /\ \A i \in DOMAIN sent : sent[i] \in Range(commands[s])
  BY <1>3, TakenWasThere
<1>7. commands' = [commands EXCEPT ![s] = sent]
  BY <1>1 DEF Taken
<1> HIDE DEF sent
<1>8. /\ context' \in [Sessions -> Contexts]
      /\ \A t \in Sessions : context'[t].for = context[t].for /\ context'[t].version = context[t].version
      /\ \A t \in Sessions \ {s} : context'[t] = context[t]
  BY <1>0, <1>1 DEF SourcesTypeOK, Contexts
<1>9. /\ \A t \in Sessions : listeners'[t] = listeners[t] \/ listeners'[t] = 0
      /\ version' \in Nat /\ version' >= version
  BY <1>0, <1>2, <1>5 DEF RunHasGoneOn, ConnectionGoesOn, SourcesTypeOK
<1>10. commands' \in [Sessions -> Seq(Commands)] /\ commands'[s] = sent
       /\ \A t \in Sessions \ {s} : commands'[t] = commands[t]
  BY <1>0, <1>6, <1>7 DEF SourcesTypeOK
<1>11. TokensHold'
  <2>1. \A i \in DOMAIN queue' : queue'[i] \in Range(queue)
    BY <1>2 DEF Range
  <2>2. \A t \in Sessions : \A i \in DOMAIN commands'[t] : commands'[t][i] \in Range(commands[t])
    BY <1>6, <1>10 DEF Range
  <2>3. \A t \in Sessions : listeners'[t] > 0 => Supports(t)
    BY <1>9 DEF SourcesInv, UpdatesAreForPython
  <2> QED BY <1>5, <1>9, <2>1, <2>2, <2>3, TokensKeep DEF RunHasGoneOn
<1>12. PythonCommandsFit'
  <2> SUFFICES ASSUME NEW t \in Sessions, Supports(t) PROVE FitsAt(t)'
    BY <1>5 DEF PythonCommandsFit, Supports, RunHasGoneOn
  <2>1. CASE t # s
    BY <1>2, <1>5, <1>8, <1>10, <2>1, SameFitsAt DEF RunHasGoneOn
  <2>2. CASE t = s
    <3>1. /\ Len(commands[s]) <= IF OnTurn(s) THEN 2 ELSE 1
          /\ OnTurn(s) => Len(commands[s]) > 0 /\ ScriptFits(commands[s][Len(commands[s])], Head(queue))
          /\ \A i \in DOMAIN commands[s] : commands[s][i].kind = "context" <=> (OnTurn(s) /\ i = Len(commands[s]))
      BY <2>2 DEF SourcesInv, PythonCommandsFit, FitsAt
    <3>2. Len(commands[s]) \in Nat /\ Len(commands[s]) >= 1 /\ DOMAIN sent = 1..(Len(commands[s]) - 1)
      BY <1>3, <1>6
    <3>3. Len(commands[s]) = IF OnTurn(s) THEN 2 ELSE 1
      <4>1. commands[s][1].kind # "context"
        BY <1>3 DEF Text
      <4> QED BY <1>3, <3>1, <3>2, <4>1
    <3>4. OnTurn(s)' <=> OnTurn(s)
      BY <1>2 DEF OnTurn
    <3>5. CASE OnTurn(s)
      <4>1. Len(sent) = 1 /\ DOMAIN sent = {1} /\ sent[1] = commands[s][2]
        BY <1>6, <3>2, <3>3, <3>5
      <4>2. NewScript(commands[s][2], Head(queue))
        BY <1>5, <3>1, <3>3, <3>5, ScriptStaysFit DEF RunHasGoneOn, OnTurn
      <4>3. commands[s][2].kind = "context"
        BY <4>2 DEF NewScript
      <4>4. ScriptFits(commands[s][Len(commands[s])], Head(queue))'
        BY <1>2, <1>10, <4>1, <4>2 DEF ScriptFits, NewScript
      <4>5. FitsAt(s)'
        BY <1>10, <3>4, <3>5, <4>1, <4>3, <4>4 DEF FitsAt
      <4> QED BY <2>2, <4>5
    <3>6. CASE ~OnTurn(s)
      <4>1. Len(sent) = 0 /\ DOMAIN sent = {}
        BY <1>6, <3>2, <3>3, <3>6
      <4> QED BY <1>10, <2>2, <3>4, <3>6, <4>1 DEF FitsAt
    <3> QED BY <3>5, <3>6
  <2> QED BY <2>1, <2>2
<1>13. RegistrationIsSingle'
  BY <1>2, <1>5 DEF SourcesInv, RegistrationIsSingle, RunHasGoneOn
<1>14. SourcesTypeOK'
  BY <1>0, <1>2, <1>5, <1>8, <1>10 DEF SourcesTypeOK, RunHasGoneOn, ConnectionGoesOn, RunsGoOn
<1>15. NoGroovyStep \/ (s \in Groovy /\ GroovyCommandTaken(s))
  <2>1. RunsGoOn /\ UNCHANGED <<version, dirty, plugin>>
    BY <1>2, <1>5 DEF RunHasGoneOn
  <2>2. Head(commands[s]).for = r /\ Head(commands[s]).kind = "text"
    BY <1>3 DEF Text
  <2>3. r \in Runs /\ run'[r].pc \in {"done", "failed"}
    BY <1>0, <1>1 DEF RunFails, Goto, SourcesTypeOK, CallsOfRuns
  <2>4. CASE s \in Groovy
    <3>1. \A t \in Groovy \ {s} : commands'[t] = commands[t] /\ context'[t].version = context[t].version
      BY <1>8, <1>10, GroovyIsUnsupported
    <3> QED BY <1>3, <1>5, <1>8, <1>10, <2>1, <2>2, <2>3, <2>4, <3>1 DEF GroovyCommandTaken, sent
  <2>5. CASE s \notin Groovy
    <3>1. \A t \in Groovy : commands'[t] = commands[t] /\ context'[t].version = context[t].version
      BY <1>8, <1>10, <2>5, GroovyIsUnsupported
    <3>2. \A q \in Runs : run[q].on \in Groovy => run'[q].pc = run[q].pc
      BY <1>4, <1>5, <2>5 DEF OthersStay
    <3> QED BY <1>9, <2>1, <3>1, <3>2 DEF NoGroovyStep
  <2> QED BY <2>4, <2>5
<1> QED BY <1>5, <1>11, <1>12, <1>13, <1>14, <1>15 DEF SourcesInv, TokensHold, RunHasGoneOn

\* Resource paths are set: the code of the run is sent.
LEMMA ResourcesSetKeeps ==
    ASSUME SourcesInv, NEW s \in Sessions, ResourcesSet(s)
    PROVE  SourcesInv' /\ (NoGroovyStep \/ (s \in Groovy /\ GroovyCommandTaken(s)))
<1> DEFINE cmd == Head(commands[s])
<1>0. SourcesTypeOK
  BY DEF SourcesInv
<1>1. commands[s] # <<>> /\ cmd.kind = "resources"
      /\ UNCHANGED <<version, prefixes, evict, dirty, queue>>
  BY DEF ResourcesSet, sourceVars
<1>2. /\ commands[s] \in Seq(Commands) /\ cmd = commands[s][1] /\ 1 \in DOMAIN commands[s] /\ cmd \in Commands
  BY <1>0, <1>1 DEF SourcesTypeOK
<1> DEFINE r == cmd.for
<1>3. HasBegun(r) /\ run[r].on = s /\ r \in Runs
  BY <1>1, <1>2 DEF SourcesInv, TokensAreOfRuns, HasBegun
<1>4. ~Supports(s)
  <2>1. CASE Supports(s)
    <3>1. \E q \in Runs : cmd = Text(q)
      BY <1>1, <1>2, <2>1 DEF SourcesInv, PythonCommandsFit, FitsAt
    <3> QED BY <1>1, <3>1 DEF Text
  <2> QED BY <2>1
<1> DEFINE rest == Tail(commands[s])
<1>5. rest \in Seq(Commands) /\ \A i \in DOMAIN rest : rest[i] \in Range(commands[s])
  BY <1>1, <1>2, TakenWasThere
<1>6. Text(r) \in Commands /\ Text(r).kind = "text" /\ Text(r).for = r
  BY <1>3 DEF Text, Commands, RunOrNone
<1> HIDE DEF r, rest
<1>15. \/ /\ context' = IF cmd.dirty THEN [context EXCEPT ![s].version = cmd.version] ELSE context
          /\ commands' = [commands EXCEPT ![s] = Append(rest, Text(r))] /\ run' = Goto({r}, "text")
          /\ UNCHANGED <<connectionVars, listeners, fetch, running>>
       \/ commands' = [commands EXCEPT ![s] = rest] /\ UNCHANGED context /\ RunFails(s, r)
  <2>1. CASE /\ commands' = Taken(s) /\ UNCHANGED context /\ RunFails(s, r)
    BY <2>1 DEF Taken, rest
  <2>2. CASE /\ context' = IF cmd.dirty THEN [context EXCEPT ![s].version = cmd.version] ELSE context
             /\ commands' = SendText(Taken(s), s, r)
             /\ run' = Goto({r}, "text")
             /\ UNCHANGED <<connectionVars, listeners, fetch, running>>
    <3>1. commands' = [commands EXCEPT ![s] = Append(rest, Text(r))]
      BY <1>0, <2>2 DEF Taken, SendText, Send, rest, SourcesTypeOK
    <3> QED BY <2>2, <3>1
  <2> QED BY <2>1, <2>2 DEF ResourcesSet, r
<1>7. PICK sent \in {rest, Append(rest, Text(r))} :
        /\ commands' = [commands EXCEPT ![s] = sent]
        /\ context' \in {context, [context EXCEPT ![s].version = cmd.version]}
        /\ \/ run' = Goto({r}, "text") /\ UNCHANGED <<connectionVars, listeners, fetch, running>>
           \/ RunFails(s, r)
  BY <1>15
<1>8. RunHasGoneOn /\ OthersStay(r)
  BY <1>3, <1>7, RunGoesOn
<1>9. sent \in Seq(Commands) /\ \A i \in DOMAIN sent : sent[i] \in Range(commands[s]) \/ sent[i] = Text(r)
  <2>1. CASE sent = rest
    BY <1>5, <2>1
  <2>2. CASE sent = Append(rest, Text(r))
    <3>1. \A i \in DOMAIN sent : (i \in DOMAIN rest /\ sent[i] = rest[i]) \/ sent[i] = Text(r)
      BY <1>5, <1>6, <2>2
    <3>2. sent \in Seq(Commands)
      BY <1>5, <1>6, <2>2
    <3> QED BY <1>5, <3>1, <3>2
  <2> QED BY <1>7, <2>1, <2>2
<1>10. NewCommand(s, Text(r))
  BY <1>3, <1>6, <1>8 DEF NewCommand, HasBegun, RunHasGoneOn, RunsGoOn, Begun
<1>11. /\ context' \in [Sessions -> Contexts]
       /\ \A t \in Sessions \ {s} : context'[t] = context[t]
  <2>1. [context[s] EXCEPT !.version = cmd.version] \in Contexts
    <3>1. context[s] \in Contexts /\ cmd.version \in Nat
      BY <1>0, <1>2 DEF SourcesTypeOK, Commands
    <3> QED BY <3>1 DEF Contexts
  <2> QED BY <1>0, <1>7, <2>1 DEF SourcesTypeOK
<1>12. TokensHold' /\ PythonCommandsFit' /\ commands' \in [Sessions -> Seq(Commands)]
  <2>1. \A i \in DOMAIN sent : sent[i] \in Range(commands[s]) \/ NewCommand(s, sent[i])
    BY <1>9, <1>10
  <2> QED BY <1>1, <1>4, <1>7, <1>8, <1>9, <1>11, <2>1, SentHolds DEF RunHasGoneOn, ConnectionGoesOn
<1>13. RegistrationIsSingle'
  BY <1>1, <1>8 DEF SourcesInv, RegistrationIsSingle, RunHasGoneOn
<1>14. SourcesTypeOK'
  BY <1>0, <1>1, <1>8, <1>11, <1>12 DEF SourcesTypeOK, RunHasGoneOn, ConnectionGoesOn, RunsGoOn
<1>16. NoGroovyStep \/ (s \in Groovy /\ GroovyCommandTaken(s))
  <2>1. RunsGoOn /\ UNCHANGED <<version, dirty, plugin>>
    BY <1>1, <1>8 DEF RunHasGoneOn
  <2>2. ASSUME NEW to, run' = Goto({r}, to) PROVE run'[r].pc = to
    BY <1>0, <1>3, <2>2 DEF Goto, SourcesTypeOK, CallsOfRuns
  <2>3. /\ \A t \in Sessions \ {s} : commands'[t] = commands[t] /\ context'[t].version = context[t].version
        /\ version' \in Nat /\ version' >= version
    BY <1>0, <1>1, <1>7, <1>11 DEF SourcesTypeOK
  <2>4. CASE s \in Groovy
    <3>1. \A t \in Groovy \ {s} : commands'[t] = commands[t] /\ context'[t].version = context[t].version
      BY <2>3, GroovyIsUnsupported
    <3>2. \/ /\ run'[r].pc = "text" /\ commands'[s] = Append(rest, Text(r))
             /\ context'[s].version = IF cmd.dirty THEN cmd.version ELSE context[s].version
          \/ run'[r].pc = "failed" /\ commands'[s] = rest /\ context'[s].version = context[s].version
      <4>1. context \in [Sessions -> Contexts] /\ commands \in [Sessions -> Seq(Commands)]
        BY <1>0 DEF SourcesTypeOK
      <4>2. [context EXCEPT ![s].version = cmd.version][s].version = cmd.version
        BY <4>1 DEF Contexts
      <4> QED BY <1>15, <2>2, <4>1, <4>2 DEF RunFails
    <3> QED BY <1>1, <1>8, <2>1, <2>4, <3>1, <3>2 DEF GroovyCommandTaken, rest, r
  <2>5. CASE s \notin Groovy
    <3>1. \A t \in Groovy : commands'[t] = commands[t] /\ context'[t].version = context[t].version
      BY <2>3, <2>5, GroovyIsUnsupported
    <3>2. \A q \in Runs : run[q].on \in Groovy => run'[q].pc = run[q].pc
      BY <1>3, <1>8, <2>5 DEF OthersStay
    <3> QED BY <2>1, <2>3, <3>1, <3>2 DEF NoGroovyStep
  <2> QED BY <2>4, <2>5
<1> QED BY <1>8, <1>12, <1>13, <1>14, <1>16 DEF SourcesInv, TokensHold, RunHasGoneOn

\* The update that is over, its run and its subscription.
UpdateHasEnded(s) ==
    /\ RunsGoOn /\ UNCHANGED plugin
    /\ phase' \in [Sessions -> {"new", "ready", "closed"}]
    /\ waiting' \in [Sessions -> Seq(RunOrNone)] /\ listeners' \in [Sessions -> Nat]
    /\ fetch' \in [Sessions -> {"none", "asked", "lost"}]
    /\ running' \in [Sessions -> BOOLEAN]
    /\ \A t \in Sessions : listeners'[t] > 0 => Supports(t)
    /\ WaitingIsSingle' /\ RunningIsNotStuck' /\ RegistrationIsSingle'
    /\ \A q \in Runs : run[q].on \in Groovy /\ run[q].pc \in {"context", "text", "failed"} =>
         run'[q].pc = run[q].pc

LEMMA UpdateEnds ==
    ASSUME SourcesInv, NEW s \in Sessions, Supports(s), queue # <<>>, Head(queue).on = s, queue' = Tail(queue),
           NEW ok \in BOOLEAN,
           LET u == Head(queue)
           IN \/ u.kind = "run" /\ ok
                 /\ run' = Goto({u.for}, "text")
                 /\ UNCHANGED <<connectionVars, listeners, fetch, running>>
              \/ u.kind = "run" /\ ~ok /\ RunFails(s, u.for)
              \/ /\ u.kind = "register"
                 /\ listeners' = Subscribed(s, ok)
                 /\ run' = Goto({u.for}, IF phase[s] = "ready" THEN "types" ELSE "failed")
                 /\ UNCHANGED <<connectionVars, fetch, running>>
              \/ u.kind = "meta" /\ UNCHANGED <<connectionVars, listeners, fetch, running, run>>
    PROVE  UpdateHasEnded(s)
<1> DEFINE u == Head(queue)
<1>0. SourcesTypeOK
  BY DEF SourcesInv
<1>1. queue \in Seq(Updates) /\ 1 \in DOMAIN queue /\ u = queue[1] /\ u \in Updates
  BY <1>0 DEF SourcesTypeOK
<1> HIDE DEF u
<1>2. CASE /\ u.kind = "run"
           /\ \/ run' = Goto({u.for}, "text") /\ UNCHANGED <<connectionVars, listeners, fetch, running>>
              \/ RunFails(s, u.for)
  <2>1. HasBegun(u.for) /\ run[u.for].on = s
    BY <1>1, <1>2 DEF SourcesInv, TokensAreOfRuns, u
  <2>2. RunHasGoneOn /\ OthersStay(u.for)
    BY <1>2, <2>1, RunGoesOn
  <2>3. RegistrationIsSingle'
    BY <2>2, LeavingKeepsRegistrations DEF RunHasGoneOn
  <2>4. \A t \in Sessions : listeners'[t] > 0 => Supports(t)
    BY <2>2 DEF SourcesInv, UpdatesAreForPython, RunHasGoneOn, ConnectionGoesOn
  <2>5. \A q \in Runs : run[q].on \in Groovy => run'[q].pc = run[q].pc
    BY <2>1, <2>2, GroovyIsUnsupported DEF OthersStay
  <2> QED BY <2>2, <2>3, <2>4, <2>5 DEF RunHasGoneOn, ConnectionGoesOn, UpdateHasEnded
<1>3. CASE /\ u.kind = "register" /\ listeners' = Subscribed(s, ok)
           /\ run' = Goto({u.for}, IF phase[s] = "ready" THEN "types" ELSE "failed")
           /\ UNCHANGED <<connectionVars, fetch, running>>
  <2>1. UNCHANGED <<phase, plugin, waiting, fetch, running>>
    BY <1>3 DEF connectionVars
  <2>2. PICK pc \in {"types", "failed"} : run' = Goto({u.for}, pc)
    BY <1>3
  <2>3. u.for \in Runs => run[u.for].pc = "register"
    BY <1>1, <1>3 DEF SourcesInv, RegistrationIsSingle
  <2>4. /\ RunsGoOn
        /\ \A q \in Runs : run'[q].on = run[q].on /\ (q # u.for => run'[q].pc = run[q].pc)
    <3>1. pc \in Pcs \ {"idle"} /\ pc \in Begun
      BY DEF Pcs, Begun
    <3>2. u.for \in Runs => run[u.for].pc # "idle" /\ (pc \in Begun \/ run[u.for].pc \notin Begun)
      BY <2>3, <3>1
    <3> QED BY <1>0, <2>2, <3>1, <3>2, OneGoesOn
  <2>5. \A q \in Runs : run[q].pc # "register" => run'[q].pc = run[q].pc
    BY <2>3, <2>4
  <2>6. WaitingIsSingle'
    BY <2>1, <2>4, <2>5, WaitingKeeps
  <2>7. RunningIsNotStuck'
    BY <2>1, <2>4, <2>5, RunningKeeps
  <2>8. RegistrationIsSingle'
    BY <1>3, <2>4, LeavingKeepsRegistrations DEF u
  <2>9. /\ listeners' \in [Sessions -> Nat]
        /\ \A t \in Sessions : listeners'[t] = listeners[t] \/ t = s
    BY <1>0, <1>3 DEF Subscribed, SourcesTypeOK
  <2>10. \A t \in Sessions : listeners'[t] > 0 => Supports(t)
    BY <2>9 DEF SourcesInv, UpdatesAreForPython
  <2>11. \A q \in Runs : run[q].pc \in {"context", "text", "failed"} => run'[q].pc = run[q].pc
    BY <2>5
  <2> QED BY <1>0, <2>1, <2>4, <2>6, <2>7, <2>8, <2>9, <2>10, <2>11 DEF SourcesTypeOK, UpdateHasEnded
<1>4. CASE u.kind = "meta" /\ UNCHANGED <<connectionVars, listeners, fetch, running, run>>
  <2>1. UNCHANGED <<phase, plugin, waiting, listeners, fetch, running, run>>
    BY <1>4 DEF connectionVars
  <2>2. RunsGoOn
    BY <1>0, <2>1 DEF RunsGoOn, SourcesTypeOK
  <2>3. RegistrationIsSingle'
    BY <2>1, LeavingKeepsRegistrations
  <2>4. WaitingIsSingle' /\ RunningIsNotStuck'
    BY <2>1 DEF SourcesInv, WaitingIsSingle, RunningIsNotStuck
  <2>5. \A t \in Sessions : listeners'[t] > 0 => Supports(t)
    BY <2>1 DEF SourcesInv, UpdatesAreForPython
  <2> QED BY <1>0, <2>1, <2>2, <2>3, <2>4, <2>5 DEF SourcesTypeOK, UpdateHasEnded
<1> QED BY <1>2, <1>3, <1>4 DEF u

\* A server ends the update that is first in the queue.
LEMMA ContextSetKeeps ==
    ASSUME SourcesInv, NEW s \in Sessions, ContextSet(s)
    PROVE  SourcesInv' /\ NoGroovyStep
<1> DEFINE cmd == Head(commands[s])
           u == Head(queue)
<1>0. SourcesTypeOK
  BY DEF SourcesInv
<1>1. commands[s] # <<>> /\ cmd.kind = "context" /\ UNCHANGED <<version, prefixes, dirty>>
  BY DEF ContextSet
<1>2. commands[s] \in Seq(Commands) /\ cmd = commands[s][1] /\ 1 \in DOMAIN commands[s] /\ cmd \in Commands
  BY <1>0, <1>1 DEF SourcesTypeOK
<1>3. Supports(s)
  BY <1>1, <1>2 DEF SourcesInv, OthersHaveNoContext
<1>4. OnTurn(s) /\ Len(commands[s]) = 1 /\ ScriptFits(cmd, u)
  BY <1>1, <1>2, <1>3 DEF SourcesInv, PythonCommandsFit, FitsAt
<1>5. queue # <<>> /\ u.on = s /\ queue \in Seq(Updates)
  BY <1>0, <1>4 DEF OnTurn, SourcesTypeOK
<1> DEFINE mid(ok) == IF ok /\ u.kind = "run" THEN SendText(Taken(s), s, u.for) ELSE Taken(s)
<1>6. PICK ok \in BOOLEAN :
        /\ context' = IF ok THEN WithContext(s, cmd) ELSE context
        /\ StartFirst(Tail(queue), mid(ok), evict, prefixes)
        /\ \/ u.kind = "run" /\ ok
              /\ run' = Goto({u.for}, "text")
              /\ UNCHANGED <<connectionVars, listeners, fetch, running>>
           \/ u.kind = "run" /\ ~ok /\ RunFails(s, u.for)
           \/ /\ u.kind = "register"
              /\ listeners' = Subscribed(s, ok)
              /\ run' = Goto({u.for}, IF phase[s] = "ready" THEN "types" ELSE "failed")
              /\ UNCHANGED <<connectionVars, fetch, running>>
           \/ u.kind = "meta" /\ UNCHANGED <<connectionVars, listeners, fetch, running, run>>
  BY DEF ContextSet, AfterHead, Outcomes
<1>7. queue' = Tail(queue)
  BY <1>6 DEF StartFirst
<1>8. UpdateHasEnded(s)
  BY <1>3, <1>5, <1>6, <1>7, UpdateEnds
<1>9. u.kind = "run" => u.for \in Runs /\ HasBegun(u.for) /\ run[u.for].on = s
  BY <1>5 DEF SourcesInv, TokensAreOfRuns, HasBegun
<1> DEFINE sent == mid(ok)
           own == IF ok /\ u.kind = "run" THEN <<Text(u.for)>> ELSE <<>>
<1>10. sent \in [Sessions -> Seq(Commands)] /\ sent[s] = own
       /\ \A t \in Sessions \ {s} : sent[t] = commands[t]
  <2>1. Tail(commands[s]) = <<>>
    <3>1. Tail(commands[s]) \in Seq(Commands) /\ Len(Tail(commands[s])) = 0
      BY <1>1, <1>2, <1>4, TakenWasThere
    <3> QED BY <3>1, EmptySeq
  <2>2. Taken(s) = [commands EXCEPT ![s] = <<>>]
    BY <2>1 DEF Taken
  <2>3. u.kind = "run" => Text(u.for) \in Commands
    BY <1>9 DEF Text, Commands, RunOrNone
  <2>4. u.kind = "run" => SendText(Taken(s), s, u.for) = [commands EXCEPT ![s] = <<Text(u.for)>>]
    <3>1. Append(<<>>, Text(u.for)) = <<Text(u.for)>>
      OBVIOUS
    <3>2. SendText(Taken(s), s, u.for) = [Taken(s) EXCEPT ![s] = Append(Taken(s)[s], Text(u.for))]
      BY DEF SendText, Send
    <3>3. commands \in [Sessions -> Seq(Commands)]
      BY <1>0 DEF SourcesTypeOK
    <3>4. Taken(s)[s] = <<>>
      BY <2>2, <3>3
    <3> QED BY <2>2, <3>1, <3>2, <3>3, <3>4
  <2>5. sent = [commands EXCEPT ![s] = own]
    BY <2>2, <2>4
  <2>6. own \in Seq(Commands)
    BY <2>3
  <2> HIDE DEF sent, own
  <2> QED BY <1>0, <2>5, <2>6 DEF SourcesTypeOK
<1> HIDE DEF mid, sent
<1>11. StartFirst(Tail(queue), sent, evict, prefixes)
  BY <1>6 DEF sent
<1> DEFINE next == Script(Head(Tail(queue)), evict, prefixes)
<1>12. /\ evict' \subseteq ImportPrefixes /\ commands' \in [Sessions -> Seq(Commands)]
       /\ \A t \in Sessions : commands'[t] =
            IF queue' # <<>> /\ Head(queue').on = t THEN Append(sent[t], next) ELSE sent[t]
       /\ queue' # <<>> => next \in Commands
       /\ queue' \in Seq(Updates)
  <2>1. /\ Tail(queue) \in Seq(Updates) /\ version' \in Nat
        /\ evict \in SUBSET ImportPrefixes /\ prefixes \in SUBSET ImportPrefixes
    BY <1>0, <1>1, <1>5 DEF SourcesTypeOK
  <2>2. sent \in [Sessions -> Seq(Commands)]
    BY <1>10
  <2>3. FirstStarts(Tail(queue), sent, evict, prefixes)
    BY <1>11, <2>1, <2>2, FirstIsStarted
  <2> QED BY <1>7, <2>1, <2>3 DEF FirstStarts
<1>13. context' \in [Sessions -> Contexts] /\ \A t \in Sessions \ {s} : context'[t] = context[t]
  <2>1. [for |-> cmd.for, version |-> cmd.version, prefixes |-> cmd.prefixes,
         evicted |-> EvictModules(context[s].evicted, cmd)] \in Contexts
    BY <1>0, <1>2 DEF Contexts, Commands, EvictModules, SourcesTypeOK
  <2> QED BY <1>0, <1>6, <2>1 DEF SourcesTypeOK, WithContext
<1>14. \A t \in Sessions : Supports(t) =>
         Len(sent[t]) <= 1 /\ \A i \in DOMAIN sent[t] : CodeFits(t, sent[t][i])
  <2>1. ASSUME NEW t \in Sessions, t # s, Supports(t)
        PROVE  Len(commands[t]) <= 1 /\ \A i \in DOMAIN commands[t] : CodeFits(t, commands[t][i])
    <3>1. ~OnTurn(t) /\ context'[t] = context[t]
      BY <1>5, <1>13, <2>1 DEF OnTurn
    <3> QED BY <1>8, <2>1, <3>1, OffTurnFits DEF UpdateHasEnded
  <2>2. ASSUME ok, u.kind = "run" PROVE CodeFits(s, Text(u.for))
    <3>1. context'[s].for = u.for /\ context'[s].version = cmd.version /\ cmd.version >= run[u.for].since
      BY <1>0, <1>4, <1>6, <2>2 DEF WithContext, SourcesTypeOK, ScriptFits
    <3>2. run'[u.for].since = run[u.for].since
      BY <1>8, <1>9, <2>2 DEF UpdateHasEnded, RunsGoOn, HasBegun, Begun
    <3> QED BY <1>9, <2>2, <3>1, <3>2 DEF CodeFits
  <2>3. Len(own) <= 1 /\ \A i \in DOMAIN own : ok /\ u.kind = "run" /\ own[i] = Text(u.for)
    OBVIOUS
  <2> QED BY <1>10, <2>1, <2>2, <2>3
<1>15. queue' # <<>> => NewScript(next, Head(queue'))
  <2>1. ASSUME queue' # <<>>, Head(queue').kind = "run" PROVE version' >= run'[Head(queue').for].since
    <3>1. Head(queue') = queue[2] /\ 2 \in DOMAIN queue
      BY <1>5, <1>7, <2>1
    <3>2. HasBegun(queue[2].for)
      BY <2>1, <3>1 DEF SourcesInv, TokensAreOfRuns
    <3> QED BY <1>0, <1>1, <1>8, <3>1, <3>2
         DEF HasBegun, UpdateHasEnded, RunsGoOn, SourcesInv, RunsAreNotAhead, Begun, SourcesTypeOK, CallsOfRuns
  <2> QED BY <1>7, <2>1 DEF NewScript, Script
<1> HIDE DEF next, own
<1>16. PythonCommandsFit'
  <2>1. UNCHANGED plugin
    BY <1>8 DEF UpdateHasEnded
  <2>2. CASE queue' # <<>>
    BY <1>10, <1>12, <1>14, <1>15, <2>1, <2>2, StartedFits
  <2>3. CASE queue' = <<>>
    <3>1. \A t \in Sessions : commands'[t] = sent[t]
      BY <1>12, <2>3
    <3> QED BY <1>2, <1>10, <1>12, <1>14, <2>1, <2>3, <3>1, StartedFits
  <2> QED BY <2>2, <2>3
<1>17. TokensHold'
  <2>1. \A i \in DOMAIN queue' : queue'[i] \in Range(queue)
    BY <1>5, <1>7, TakenWasThere
  <2>2. ASSUME NEW t \in Sessions, NEW i \in DOMAIN sent[t]
        PROVE  sent[t][i] \in Range(commands[t]) \/ NewCommand(t, sent[t][i])
    <3>1. CASE t # s
      BY <1>10, <3>1 DEF Range
    <3>2. CASE t = s
      <4>1. ok /\ u.kind = "run" /\ sent[s][i] = Text(u.for)
        BY <1>10, <2>2, <3>2 DEF own
      <4>2. run'[u.for].pc \in Begun /\ run'[u.for].on = s
        BY <1>8, <1>9, <4>1 DEF UpdateHasEnded, RunsGoOn, HasBegun, Begun
      <4> QED BY <1>9, <3>2, <4>1, <4>2 DEF NewCommand, Text
    <3> QED BY <3>1, <3>2
  <2>3. queue' # <<>> => NewCommand(Head(queue').on, next)
    <3>1. queue' # <<>> => Head(queue') = queue[2] /\ 2 \in DOMAIN queue
      BY <1>5, <1>7
    <3>2. queue' # <<>> => Supports(Head(queue').on)
      BY <3>1 DEF SourcesInv, UpdatesAreForPython
    <3> QED BY <3>2 DEF NewCommand, next, Script
  <2>4. ASSUME NEW t \in Sessions, NEW i \in DOMAIN commands'[t]
        PROVE  commands'[t][i] \in Range(commands[t]) \/ NewCommand(t, commands'[t][i])
    <3>1. CASE commands'[t] = sent[t]
      BY <2>2, <2>4, <3>1
    <3>2. CASE queue' # <<>> /\ Head(queue').on = t /\ commands'[t] = Append(sent[t], next)
      <4>1. (i \in DOMAIN sent[t] /\ commands'[t][i] = sent[t][i]) \/ commands'[t][i] = next
        BY <1>10, <1>12, <2>4, <3>2
      <4> QED BY <2>2, <2>3, <3>2, <4>1
    <3> QED BY <1>12, <3>1, <3>2
  <2>5. version' \in Nat /\ version' >= version
    BY <1>0, <1>1 DEF SourcesTypeOK
  <2> QED BY <1>8, <2>1, <2>4, <2>5, TokensKeep DEF UpdateHasEnded
<1>18. SourcesTypeOK'
  BY <1>0, <1>1, <1>8, <1>12, <1>13 DEF SourcesTypeOK, UpdateHasEnded, RunsGoOn
<1>19. NoGroovyStep
  <2>1. \A t \in Groovy : commands'[t] = commands[t] /\ context'[t] = context[t]
    <3>1. \A t \in Groovy : t \in Sessions \ {s}
      BY <1>3, GroovyIsUnsupported
    <3>2. queue' # <<>> => Supports(Head(queue').on)
      <4>1. queue' # <<>> => Head(queue') = queue[2] /\ 2 \in DOMAIN queue
        BY <1>5, <1>7
      <4> QED BY <4>1 DEF SourcesInv, UpdatesAreForPython
    <3>3. \A t \in Groovy : ~(queue' # <<>> /\ Head(queue').on = t)
      BY <3>2, GroovyIsUnsupported
    <3> QED BY <1>10, <1>12, <1>13, <3>1, <3>3
  <2> QED BY <1>0, <1>1, <1>8, <2>1 DEF NoGroovyStep, UpdateHasEnded, SourcesTypeOK
<1> QED BY <1>8, <1>16, <1>17, <1>18, <1>19 DEF SourcesInv, TokensHold, UpdateHasEnded

\* Running code with remote file sources: the invariant is inductive.
THEOREM SourcesInvInductive ==
    /\ Init => SourcesInv
    /\ SourcesInv /\ [Next]_vars => SourcesInv'
<1>1. ASSUME Init PROVE SourcesInv
  <2>1. SourcesTypeOK
    <3>1. version \in Nat /\ prefixes \subseteq ImportPrefixes /\ evict \subseteq ImportPrefixes
          /\ dirty \in BOOLEAN /\ queue \in Seq(Updates)
      <4>1. <<>> \in Seq(Updates)
        OBVIOUS
      <4>2. version = 0 /\ prefixes = {} /\ evict = {} /\ dirty = FALSE /\ queue = <<>>
        BY <1>1 DEF Init
      <4> QED BY <4>1, <4>2
    <3>2. PICK there \in Connected :
            /\ phase = [s \in Sessions |-> IF s \in there THEN "new" ELSE "closed"]
            /\ waiting = [s \in Sessions |-> IF s \in there THEN <<None>> ELSE <<>>]
            /\ plugin \in {[s \in Sessions |-> s \in with] : with \in SUBSET there}
      BY <1>1 DEF Init
    <3>3. phase \in [Sessions -> {"new", "ready", "closed"}]
      BY <3>2
    <3>4. waiting \in [Sessions -> Seq(RunOrNone)]
      <4>1. <<None>> \in Seq(RunOrNone) /\ <<>> \in Seq(RunOrNone)
        BY DEF RunOrNone
      <4> QED BY <3>2, <4>1
    <3>5. plugin \in [Sessions -> BOOLEAN]
      <4>1. PICK with \in SUBSET there : plugin = [s \in Sessions |-> s \in with]
        BY <3>2
      <4>2. \A s \in Sessions : (s \in with) \in BOOLEAN
        OBVIOUS
      <4> QED BY <4>1, <4>2, Zenon
    <3>6. listeners \in [Sessions -> Nat] /\ commands \in [Sessions -> Seq(Commands)]
      <4>1. <<>> \in Seq(Commands)
        OBVIOUS
      <4> QED BY <1>1, <4>1 DEF Init
    <3>7. context \in [Sessions -> Contexts]
      <4>1. [for |-> None, version |-> 0, prefixes |-> {}, evicted |-> {}] \in Contexts
        BY DEF Contexts, RunOrNone
      <4> QED BY <1>1, <4>1 DEF Init
    <3>8. fetch \in [Sessions -> {"none", "asked", "lost"}] /\ running \in [Sessions -> BOOLEAN]
      BY <1>1 DEF Init
    <3>9. run \in [Runs -> CallsOfRuns]
      <4>1. Unstarted \in CallsOfRuns
        BY DEF Unstarted, CallsOfRuns, Pcs, SessionOrNone
      <4> QED BY <1>1, <4>1 DEF Init
    <3> QED BY <3>1, <3>3, <3>4, <3>5, <3>6, <3>7, <3>8, <3>9 DEF SourcesTypeOK
  <2>2. \A s \in Sessions : commands[s] = <<>> /\ waiting[s] \in {<<>>, <<None>>} /\ ~running[s] /\ listeners[s] = 0
    BY <1>1 DEF Init
  <2>3. queue = <<>> /\ \A r \in Runs : run[r] = Unstarted
    BY <1>1 DEF Init
  <2>4. WaitingIsSingle
    BY <2>2, SourcesAssumption DEF WaitingIsSingle
  <2>5. RunsAreNotAhead /\ UpdatesAreForPython /\ TokensAreOfRuns /\ RegistrationIsSingle /\ RunningIsNotStuck
        /\ OthersHaveNoContext
    BY <1>1, <2>2, <2>3 DEF RunsAreNotAhead, UpdatesAreForPython, TokensAreOfRuns, RegistrationIsSingle,
         RunningIsNotStuck, OthersHaveNoContext, Unstarted, Init
  <2>6. PythonCommandsFit
    BY <2>2, <2>3 DEF PythonCommandsFit, FitsAt, OnTurn
  <2> QED BY <2>1, <2>4, <2>5, <2>6 DEF SourcesInv
<1>2. ASSUME SourcesInv, [Next]_vars PROVE SourcesInv'
  <2>1. ASSUME NEW s \in Sessions, SessionCreated(s) \/ Dispose(s) \/ Server(s) PROVE SourcesInv'
    BY <1>2, <2>1, SessionCreatedKeeps, DisposeKeeps, ContextSetKeeps, ResourcesSetKeeps, TextExecutedKeeps
         DEF Server
  <2>2. CASE \E r \in Runs, s \in Sessions, code \in Codes : RunCode(r, s, code)
    BY <1>2, <2>2, RunCodeKeeps
  <2>3. CASE \E r \in Runs : RunRefused(r) \/ RunStarted(r)
    BY <1>2, <2>3, RunRefusedKeeps, RunStartedKeeps
  <2>4. CASE WorkspaceChanged
    BY <1>2, <2>4, WorkspaceChangedKeeps
  <2>5. CASE UNCHANGED vars \/ \E s \in Sessions : AskForSource(s) \/ AnswerSource(s)
    BY <1>2, <2>5, AskingKeeps
  <2> QED BY <1>2, <2>1, <2>2, <2>3, <2>4, <2>5 DEF Next
<1> QED BY <1>1, <1>2

\* DhcService and RemoteFileSourceService: code executes in a Python server under its own connection
\* id, with the sources as they were when it was started or newer.
THEOREM CodeHasItsContext == Spec => []RunsHaveTheirContext
<1>1. ASSUME SourcesInv PROVE RunsHaveTheirContext
  <2> SUFFICES ASSUME NEW s \in Python, NEW r \in Runs, TextAtHead(s, r), plugin[s]
               PROVE  context[s].for = r /\ context[s].version >= run[r].since
    BY DEF RunsHaveTheirContext
  <2>1. s \in Sessions /\ Supports(s)
    BY DEF Sessions, Supports
  <2>2. commands[s] \in Seq(Commands) /\ commands[s] # <<>>
    BY <1>1, <2>1 DEF SourcesInv, SourcesTypeOK, TextAtHead
  <2>3. 1 \in DOMAIN commands[s] /\ commands[s][1] = Text(r)
    BY <2>2 DEF TextAtHead
  <2>4. PICK q \in Runs : commands[s][1] = Text(q) /\ ContextFits(s, q)
    <3>1. commands[s][1].kind # "context"
      BY <2>3 DEF Text
    <3>2. FitsAt(s)
      BY <1>1, <2>1 DEF SourcesInv, PythonCommandsFit
    <3> QED BY <2>3, <3>1, <3>2 DEF FitsAt
  <2>5. q = r
    BY <2>3, <2>4 DEF Text
  <2> QED BY <2>4, <2>5 DEF ContextFits
<1> QED BY <1>1, SourcesInvInductive, PTL DEF Spec

\* DhcService: a connection shown as running code has a run that has begun and not ended.
THEOREM RunningIsNeverStuck == Spec => []RunningIsNotStuck
<1>1. SourcesInv => RunningIsNotStuck
  BY DEF SourcesInv
<1> QED BY <1>1, SourcesInvInductive, PTL DEF Spec

-----------------------------------------------------------------------------

\* The versions that a Groovy server has and is sent do not go back.
VersionsRise ==
    \A s \in Groovy :
        /\ context[s].version <= version
        /\ \A i \in DOMAIN commands[s] : commands[s][i].kind = "resources" =>
             context[s].version <= commands[s][i].version /\ commands[s][i].version <= version
        /\ \A i, j \in DOMAIN commands[s] :
             (commands[s][i].kind = "resources" /\ commands[s][j].kind = "resources" /\ i <= j) =>
               commands[s][i].version <= commands[s][j].version

\* A Groovy server has one command at most of each run, which has not ended.
CommandsAreLive ==
    \A s \in Groovy :
        /\ \A i \in DOMAIN commands[s] : run[commands[s][i].for].pc =
             IF commands[s][i].kind = "resources" THEN "context" ELSE "text"
        /\ \A i, j \in DOMAIN commands[s] : commands[s][i].for = commands[s][j].for => i = j

\* No run of a Groovy server failed, and all of them are on server s.
OnlyServer(s) == \A q \in Runs : run[q].on \in Groovy => run[q].on = s /\ run[q].pc # "failed"

\* A server with the sources of version v0 has those of version v once the commands sent up to
\* the i-th have executed.
Reached(sent, v0, i, v) ==
    \/ v0 >= v
    \/ \E j \in DOMAIN sent : j <= i /\ sent[j].kind = "resources" /\ sent[j].dirty /\ sent[j].version >= v

\* The commands of a run bring its sources, and what is not dirty was sent.
GroovyCommandsReach ==
    \A s \in Groovy : plugin[s] /\ OnlyServer(s) =>
        /\ \A i \in DOMAIN commands[s] :
             Reached(commands[s], context[s].version, i, run[commands[s][i].for].since)
        /\ ~dirty => Reached(commands[s], context[s].version, Len(commands[s]), version)

GroovyInv == SourcesInv /\ VersionsRise /\ CommandsAreLive /\ GroovyCommandsReach

\* What is left alone stays on its server, and a run that failed stays so.
LEMMA OnlyServerWas ==
    ASSUME SourcesInv, RunsGoOn, NEW s \in Groovy,
           \A q \in Runs : run[q].on \in Groovy /\ run[q].pc = "failed" => run'[q].pc = "failed"
    PROVE  OnlyServer(s)' => OnlyServer(s)
<1> SUFFICES ASSUME OnlyServer(s)', NEW q \in Runs, run[q].on \in Groovy
             PROVE  run[q].on = s /\ run[q].pc # "failed"
  BY DEF OnlyServer
<1>1. run[q].pc # "idle"
  BY SourcesAssumption DEF SourcesInv, RunsAreNotAhead
<1>2. run'[q].on = run[q].on
  BY <1>1 DEF RunsGoOn
<1> QED BY <1>2 DEF OnlyServer

\* The commands of Groovy servers are resources or code of runs that have begun there.
LEMMA GroovyCommands ==
    ASSUME SourcesInv, NEW s \in Groovy
    PROVE  /\ commands[s] \in Seq(Commands) /\ context[s].version \in Nat
           /\ \A i \in DOMAIN commands[s] :
                /\ commands[s][i] \in Commands /\ commands[s][i].kind \in {"resources", "text"}
                /\ commands[s][i].for \in Runs /\ run[commands[s][i].for].on = s
                /\ run[commands[s][i].for].pc \in Begun /\ run[commands[s][i].for].pc # "idle"
<1>1. s \in Sessions /\ ~Supports(s)
  BY GroovyIsUnsupported
<1>2. commands[s] \in Seq(Commands) /\ context[s] \in Contexts
  BY <1>1 DEF SourcesInv, SourcesTypeOK
<1>3. \A i \in DOMAIN commands[s] : commands[s][i] \in Commands /\ commands[s][i].kind # "context"
  BY <1>1, <1>2 DEF SourcesInv, OthersHaveNoContext
<1>4. \A i \in DOMAIN commands[s] : HasBegun(commands[s][i].for) /\ run[commands[s][i].for].on = s
  BY <1>1, <1>3 DEF SourcesInv, TokensAreOfRuns
<1> QED BY <1>2, <1>3, <1>4 DEF Commands, Contexts, HasBegun, Begun

\* The numbers that are compared.
LEMMA VersionsAreNumbers ==
    ASSUME SourcesInv
    PROVE  version \in Nat /\ \A r \in Runs : run[r].since \in Nat /\ run[r].since <= version
BY DEF SourcesInv, SourcesTypeOK, CallsOfRuns, RunsAreNotAhead

\* A step that sends nothing to Groovy servers.
LEMMA LeftAloneKeeps ==
    ASSUME GroovyInv, SourcesInv', NoGroovyStep
    PROVE  GroovyInv'
<1>0. SourcesInv
  BY DEF GroovyInv
<1>1. /\ RunsGoOn /\ UNCHANGED plugin
      /\ version' \in Nat /\ version \in Nat /\ version' >= version /\ (~dirty' => ~dirty /\ version' = version)
  BY <1>0, VersionsAreNumbers DEF NoGroovyStep
<1>2. VersionsRise'
  <2> SUFFICES ASSUME NEW s \in Groovy
               PROVE  /\ context'[s].version <= version'
                      /\ \A i \in DOMAIN commands'[s] : commands'[s][i].kind = "resources" =>
                           /\ context'[s].version <= commands'[s][i].version
                           /\ commands'[s][i].version <= version'
                      /\ \A i, j \in DOMAIN commands'[s] :
                           /\ commands'[s][i].kind = "resources" /\ commands'[s][j].kind = "resources"
                           /\ i <= j
                           => commands'[s][i].version <= commands'[s][j].version
    BY DEF VersionsRise
  <2>1. commands'[s] = commands[s] /\ context'[s].version = context[s].version
    BY DEF NoGroovyStep
  <2>2. context[s].version \in Nat /\ \A i \in DOMAIN commands[s] : commands[s][i].version \in Nat
    BY <1>0, GroovyCommands DEF Commands
  <2> QED BY <1>1, <2>1, <2>2 DEF GroovyInv, VersionsRise
<1>3. CommandsAreLive'
  <2> SUFFICES ASSUME NEW s \in Groovy
               PROVE  /\ \A i \in DOMAIN commands'[s] : run'[commands'[s][i].for].pc =
                           IF commands'[s][i].kind = "resources" THEN "context" ELSE "text"
                      /\ \A i, j \in DOMAIN commands'[s] : commands'[s][i].for = commands'[s][j].for => i = j
    BY DEF CommandsAreLive
  <2>1. commands'[s] = commands[s]
    BY DEF NoGroovyStep
  <2>2. /\ \A i \in DOMAIN commands[s] : run[commands[s][i].for].pc =
             IF commands[s][i].kind = "resources" THEN "context" ELSE "text"
        /\ \A i, j \in DOMAIN commands[s] : commands[s][i].for = commands[s][j].for => i = j
    BY DEF GroovyInv, CommandsAreLive
  <2>3. \A i \in DOMAIN commands[s] : run'[commands[s][i].for].pc = run[commands[s][i].for].pc
    BY <1>0, <2>2, GroovyCommands DEF NoGroovyStep
  <2> QED BY <2>1, <2>2, <2>3
<1>4. GroovyCommandsReach'
  <2> SUFFICES ASSUME NEW s \in Groovy, plugin'[s], OnlyServer(s)'
               PROVE  /\ \A i \in DOMAIN commands'[s] :
                           Reached(commands'[s], context'[s].version, i, run'[commands'[s][i].for].since)
                      /\ ~dirty' => Reached(commands'[s], context'[s].version, Len(commands'[s]), version')
    BY DEF GroovyCommandsReach
  <2>1. commands'[s] = commands[s] /\ context'[s].version = context[s].version
    BY DEF NoGroovyStep
  <2>2. plugin[s] /\ OnlyServer(s)
    BY <1>0, <1>1, OnlyServerWas DEF NoGroovyStep
  <2>3. /\ \A i \in DOMAIN commands[s] :
             Reached(commands[s], context[s].version, i, run[commands[s][i].for].since)
        /\ ~dirty => Reached(commands[s], context[s].version, Len(commands[s]), version)
    BY <2>2 DEF GroovyInv, GroovyCommandsReach
  <2>4. \A i \in DOMAIN commands[s] : run'[commands[s][i].for].since = run[commands[s][i].for].since
    BY <1>0, <1>1, GroovyCommands DEF RunsGoOn
  <2> QED BY <1>1, <2>1, <2>3, <2>4
<1> QED BY <1>2, <1>3, <1>4 DEF GroovyInv

\* What was reached is reached when a command is added.
LEMMA ReachedBeforeSent ==
    ASSUME NEW sent \in Seq(Commands), NEW cmd \in Commands, NEW v0, NEW i, NEW v, Reached(sent, v0, i, v)
    PROVE  Reached(Append(sent, cmd), v0, i, v)
<1>1. \A j \in DOMAIN sent : j \in DOMAIN Append(sent, cmd) /\ Append(sent, cmd)[j] = sent[j]
  OBVIOUS
<1> DEFINE longer == Append(sent, cmd)
<1> HIDE DEF longer
<1>2. \A j \in DOMAIN sent : j \in DOMAIN longer /\ longer[j] = sent[j]
  BY <1>1 DEF longer
<1>3. Reached(longer, v0, i, v)
  BY <1>2 DEF Reached
<1> QED BY <1>3 DEF longer

\* A run on a Groovy server sends its resources, or its code if there is no plugin.
LEMMA GroovyRunStartsKeeps ==
    ASSUME GroovyInv, SourcesInv', NEW r \in Runs, GroovyRunStarts(r)
    PROVE  GroovyInv'
<1> DEFINE s == run[r].on
           cmd == IF plugin[s] THEN ResourcePaths(r) ELSE Text(r)
<1>0. SourcesInv /\ SourcesTypeOK
  BY DEF GroovyInv, SourcesInv
<1>1. /\ RunsGoOn /\ UNCHANGED <<version, plugin, context>>
      /\ run[r].pc = "types" /\ s \in Groovy /\ s \in Sessions
      /\ \A q \in Runs \ {r} : run'[q].pc = run[q].pc
      /\ run'[r].pc = IF plugin[s] THEN "context" ELSE "text"
      /\ plugin[s] => ~dirty'
  BY GroovyIsUnsupported DEF GroovyRunStarts
<1>2. /\ cmd \in Commands /\ cmd.for = r
      /\ cmd.kind = IF plugin[s] THEN "resources" ELSE "text"
      /\ plugin[s] => cmd.version = version /\ cmd.dirty = dirty
  <2>1. dirty \in BOOLEAN /\ version \in Nat /\ r \in RunOrNone
    BY <1>0 DEF SourcesTypeOK, RunOrNone
  <2>2. ResourcePaths(r) \in Commands /\ Text(r) \in Commands
    BY <2>1 DEF ResourcePaths, Text, Commands
  <2> QED BY <2>2 DEF ResourcePaths, Text
<1>3. commands' = [commands EXCEPT ![s] = Append(@, cmd)]
  BY DEF GroovyRunStarts
<1>4. commands[s] \in Seq(Commands) /\ context[s].version \in Nat /\ version \in Nat
  BY <1>0, <1>1, GroovyCommands DEF SourcesTypeOK
<1> DEFINE longer == Append(commands[s], cmd)
<1>5. commands'[s] = longer /\ \A t \in Groovy \ {s} : commands'[t] = commands[t]
  BY <1>0, <1>1, <1>3, GroovyIsUnsupported DEF SourcesTypeOK
<1> HIDE DEF cmd
<1>6. /\ \A i \in DOMAIN longer : \/ i \in DOMAIN commands[s] /\ longer[i] = commands[s][i]
                                  \/ i = Len(commands[s]) + 1 /\ longer[i] = cmd
      /\ Len(commands[s]) + 1 \in DOMAIN longer /\ Len(longer) = Len(commands[s]) + 1
      /\ longer[Len(commands[s]) + 1] = cmd
      /\ Len(commands[s]) \in Nat /\ DOMAIN commands[s] = 1..Len(commands[s])
  BY <1>2, <1>4
<1> HIDE DEF longer
<1>7. VersionsRise'
  <2> SUFFICES ASSUME NEW t \in Groovy
               PROVE  /\ context[t].version <= version
                      /\ \A i \in DOMAIN commands'[t] : commands'[t][i].kind = "resources" =>
                           /\ context[t].version <= commands'[t][i].version
                           /\ commands'[t][i].version <= version
                      /\ \A i, j \in DOMAIN commands'[t] :
                           /\ commands'[t][i].kind = "resources" /\ commands'[t][j].kind = "resources"
                           /\ i <= j
                           => commands'[t][i].version <= commands'[t][j].version
    BY <1>1 DEF VersionsRise
  <2>1. /\ context[t].version <= version
        /\ \A i \in DOMAIN commands[t] : commands[t][i].kind = "resources" =>
             context[t].version <= commands[t][i].version /\ commands[t][i].version <= version
        /\ \A i, j \in DOMAIN commands[t] :
             (commands[t][i].kind = "resources" /\ commands[t][j].kind = "resources" /\ i <= j) =>
               commands[t][i].version <= commands[t][j].version
    BY DEF GroovyInv, VersionsRise
  <2>2. CASE t # s
    BY <1>5, <2>1, <2>2
  <2>3. CASE t = s
    <3>1. cmd.kind = "resources" => cmd.version = version
      BY <1>2
    <3>2. longer \in Seq(Commands)
      BY <1>2, <1>4 DEF longer
    <3>3. \A i \in DOMAIN longer : longer[i].version \in Nat
      <4>1. \A i \in DOMAIN longer : longer[i] \in Commands
        BY <3>2
      <4> QED BY <4>1 DEF Commands
    <3>4. \A i \in DOMAIN longer : longer[i].kind = "resources" =>
            context[s].version <= longer[i].version /\ longer[i].version <= version
      BY <1>4, <1>6, <2>1, <2>3, <3>1
    <3>5. ASSUME NEW i \in DOMAIN longer, NEW j \in DOMAIN longer, i <= j,
                 longer[i].kind = "resources", longer[j].kind = "resources"
          PROVE  longer[i].version <= longer[j].version
      <4>1. CASE j = Len(commands[s]) + 1 /\ longer[j] = cmd
        BY <3>1, <3>4, <3>5, <4>1
      <4>2. CASE j \in DOMAIN commands[s] /\ longer[j] = commands[s][j]
        <5>1. i \in DOMAIN commands[s] /\ longer[i] = commands[s][i]
          BY <1>6, <3>5, <4>2
        <5> QED BY <2>1, <2>3, <3>5, <4>2, <5>1
      <4> QED BY <1>6, <4>1, <4>2
    <3> QED BY <1>5, <2>1, <2>3, <3>4, <3>5
  <2> QED BY <2>2, <2>3
<1>8. CommandsAreLive'
  <2> SUFFICES ASSUME NEW t \in Groovy
               PROVE  /\ \A i \in DOMAIN commands'[t] : run'[commands'[t][i].for].pc =
                           IF commands'[t][i].kind = "resources" THEN "context" ELSE "text"
                      /\ \A i, j \in DOMAIN commands'[t] : commands'[t][i].for = commands'[t][j].for => i = j
    BY DEF CommandsAreLive
  <2>1. /\ \A i \in DOMAIN commands[t] : run[commands[t][i].for].pc =
             IF commands[t][i].kind = "resources" THEN "context" ELSE "text"
        /\ \A i, j \in DOMAIN commands[t] : commands[t][i].for = commands[t][j].for => i = j
    BY DEF GroovyInv, CommandsAreLive
  <2>2. \A i \in DOMAIN commands[t] : commands[t][i].for # r /\ commands[t][i].for \in Runs
    BY <1>0, <1>1, <2>1, GroovyCommands
  <2>3. \A i \in DOMAIN commands[t] : run'[commands[t][i].for].pc = run[commands[t][i].for].pc
    BY <1>1, <2>2
  <2>4. CASE t # s
    BY <1>5, <2>1, <2>3, <2>4
  <2>5. CASE t = s
    <3>1. \A i \in DOMAIN longer : run'[longer[i].for].pc =
            IF longer[i].kind = "resources" THEN "context" ELSE "text"
      <4> SUFFICES ASSUME NEW i \in DOMAIN longer
                   PROVE  run'[longer[i].for].pc = IF longer[i].kind = "resources" THEN "context" ELSE "text"
        OBVIOUS
      <4>1. CASE i \in DOMAIN commands[s] /\ longer[i] = commands[s][i]
        BY <2>1, <2>3, <2>5, <4>1
      <4>2. CASE longer[i] = cmd
        BY <1>1, <1>2, <4>2
      <4> QED BY <1>6, <4>1, <4>2
    <3>2. \A i, j \in DOMAIN longer : longer[i].for = longer[j].for => i = j
      BY <1>2, <1>6, <2>1, <2>2, <2>5
    <3> QED BY <1>5, <2>5, <3>1, <3>2
  <2> QED BY <2>4, <2>5
<1>9. GroovyCommandsReach'
  <2> SUFFICES ASSUME NEW t \in Groovy, plugin[t], OnlyServer(t)'
               PROVE  /\ \A i \in DOMAIN commands'[t] :
                           Reached(commands'[t], context[t].version, i, run'[commands'[t][i].for].since)
                      /\ Reached(commands'[t], context[t].version, Len(commands'[t]), version)
    BY <1>1 DEF GroovyCommandsReach
  <2>1. t = s /\ OnlyServer(t)
    <3>1. \A q \in Runs : run[q].pc = "failed" => run'[q].pc = "failed"
      BY <1>1
    <3>2. run'[r].on = s
      BY <1>1 DEF RunsGoOn
    <3> QED BY <1>0, <1>1, <3>1, <3>2, OnlyServerWas DEF OnlyServer
  <2>2. /\ \A i \in DOMAIN commands[s] :
             Reached(commands[s], context[s].version, i, run[commands[s][i].for].since)
        /\ ~dirty => Reached(commands[s], context[s].version, Len(commands[s]), version)
    BY <2>1 DEF GroovyInv, GroovyCommandsReach
  <2>3. \A i \in DOMAIN commands[s] : run'[commands[s][i].for].since = run[commands[s][i].for].since
    BY <1>0, <1>1, GroovyCommands DEF RunsGoOn
  <2>4. Reached(longer, context[s].version, Len(longer), version)
    <3>1. CASE dirty
      <4>1. plugin[s]
        BY <2>1
      <4>2. cmd.kind = "resources" /\ cmd.version = version /\ cmd.dirty = dirty
        BY <1>2, <4>1
      <4>3. cmd.dirty
        BY <3>1, <4>2, Zenon
      <4>4. cmd.version >= version
        BY <1>4, <4>2
      <4> QED BY <1>6, <4>2, <4>3, <4>4 DEF Reached
    <3>2. CASE ~dirty
      <4>1. Reached(longer, context[s].version, Len(commands[s]), version)
        BY <1>2, <1>4, <2>2, <3>2, ReachedBeforeSent DEF longer
      <4>2. ASSUME NEW j \in DOMAIN longer, j <= Len(commands[s]) PROVE j <= Len(longer)
        BY <1>6, <4>2
      <4> QED BY <4>1, <4>2 DEF Reached
    <3> QED BY <3>1, <3>2, <1>0 DEF SourcesTypeOK
  <2>5. ASSUME NEW i \in DOMAIN longer
        PROVE  Reached(longer, context[s].version, i, run'[longer[i].for].since)
    <3>1. CASE i \in DOMAIN commands[s] /\ longer[i] = commands[s][i]
      <4>1. Reached(commands[s], context[s].version, i, run[commands[s][i].for].since)
        BY <2>2, <3>1
      <4>2. Reached(longer, context[s].version, i, run[commands[s][i].for].since)
        BY <1>2, <1>4, <4>1, ReachedBeforeSent DEF longer
      <4> QED BY <2>3, <3>1, <4>2
    <3>2. CASE i = Len(commands[s]) + 1 /\ longer[i] = cmd
      <4>1. run'[r].since \in Nat /\ run'[r].since <= version
        BY <1>0, <1>1, VersionsAreNumbers DEF RunsGoOn
      <4>2. i = Len(longer) /\ longer[i].for = r
        BY <1>2, <1>6, <3>2
      <4>3. \A j \in DOMAIN longer : longer[j].version \in Nat
        <5>1. longer \in Seq(Commands)
          BY <1>2, <1>4 DEF longer
        <5>2. \A j \in DOMAIN longer : longer[j] \in Commands
          BY <5>1
        <5> QED BY <5>2 DEF Commands
      <4> QED BY <1>4, <2>4, <4>1, <4>2, <4>3 DEF Reached
    <3> QED BY <1>6, <3>1, <3>2
  <2> QED BY <1>5, <2>1, <2>4, <2>5
<1> QED BY <1>7, <1>8, <1>9 DEF GroovyInv

\* A Groovy server takes its first command: what follows from it is reached, or its run fails.
LEMMA GroovyCommandTakenKeeps ==
    ASSUME GroovyInv, SourcesInv', NEW s \in Groovy, GroovyCommandTaken(s)
    PROVE  GroovyInv'
<1> DEFINE first == Head(commands[s])
           r == first.for
           old == commands[s]
           new == commands'[s]
           had == context[s].version
           has == context'[s].version
<1>0. SourcesInv /\ s \in Sessions
  BY GroovyIsUnsupported DEF GroovyInv
<1>1. /\ RunsGoOn /\ version' = version /\ dirty' = dirty /\ plugin' = plugin
      /\ old # <<>> /\ OthersStay(r)
      /\ \A t \in Groovy \ {s} : commands'[t] = commands[t] /\ context'[t].version = context[t].version
  BY DEF GroovyCommandTaken
<1>2. /\ old \in Seq(Commands) /\ had \in Nat /\ version \in Nat
      /\ \A i \in DOMAIN old : /\ old[i] \in Commands /\ old[i].kind \in {"resources", "text"}
                               /\ old[i].for \in Runs /\ run[old[i].for].on = s
                               /\ run[old[i].for].pc # "idle"
  BY <1>0, GroovyCommands, VersionsAreNumbers
<1>3. 1 \in DOMAIN old /\ first = old[1] /\ Len(old) \in Nat /\ DOMAIN old = 1..Len(old)
  BY <1>1, <1>2
<1>4. r \in Runs /\ run'[r].on = s
  BY <1>1, <1>2, <1>3 DEF RunsGoOn
<1>5. /\ \A i \in DOMAIN Tail(old) : i + 1 \in DOMAIN old /\ Tail(old)[i] = old[i + 1]
      /\ \A j \in DOMAIN old : j # 1 => j - 1 \in DOMAIN Tail(old) /\ Tail(old)[j - 1] = old[j]
      /\ Tail(old) \in Seq(Commands) /\ Len(Tail(old)) = Len(old) - 1
  BY <1>1, <1>2
<1>6. /\ new \in Seq(Commands)
      /\ \A i \in DOMAIN new : \/ i + 1 \in DOMAIN old /\ new[i] = old[i + 1] /\ i \in Nat
                               \/ new[i] = Text(r) /\ i = Len(old) /\ Len(new) = i /\ run'[r].pc = "text"
      /\ \A j \in DOMAIN old : j # 1 => j - 1 \in DOMAIN new /\ new[j - 1] = old[j]
      /\ Len(new) >= Len(old) - 1 /\ Len(new) \in Nat
  <2>1. CASE new = Tail(old)
    BY <1>3, <1>5, <2>1
  <2>2. CASE new = Append(Tail(old), Text(r)) /\ run'[r].pc = "text"
    <3>1. Text(r) \in Commands
      BY <1>4 DEF Text, Commands, RunOrNone
    <3> HIDE DEF r
    <3>2. /\ Append(Tail(old), Text(r)) \in Seq(Commands)
          /\ Len(Append(Tail(old), Text(r))) = Len(old)
          /\ \A i \in DOMAIN Append(Tail(old), Text(r)) :
               \/ i \in DOMAIN Tail(old) /\ Append(Tail(old), Text(r))[i] = Tail(old)[i]
               \/ Append(Tail(old), Text(r))[i] = Text(r) /\ i = Len(old)
          /\ \A i \in DOMAIN Tail(old) : /\ i \in DOMAIN Append(Tail(old), Text(r))
                                         /\ Append(Tail(old), Text(r))[i] = Tail(old)[i]
      BY <1>3, <1>5, <3>1
    <3> QED BY <1>3, <1>5, <2>2, <3>2
  <2> QED BY <2>1, <2>2 DEF GroovyCommandTaken
<1>7. \A i \in DOMAIN old : old[i].kind = "resources" => had <= old[i].version /\ old[i].version \in Nat
  BY <1>2 DEF GroovyInv, VersionsRise, Commands
<1>8. /\ has \in Nat /\ had <= has
      /\ \/ has = had
         \/ has = first.version /\ first.kind = "resources"
      /\ run'[r].pc # "failed" /\ first.kind = "resources" /\ first.dirty => has = first.version
  <2>1. \/ has = first.version /\ first.kind = "resources"
        \/ has = had
    BY DEF GroovyCommandTaken
  <2>2. run'[r].pc # "failed" /\ first.kind = "resources" /\ first.dirty => has = first.version
    BY DEF GroovyCommandTaken
  <2> QED BY <1>2, <1>3, <1>7, <2>1, <2>2
<1> HIDE DEF first, r, old, new, had, has
<1>9. VersionsRise'
  <2> SUFFICES ASSUME NEW t \in Groovy
               PROVE  /\ context'[t].version <= version
                      /\ \A i \in DOMAIN commands'[t] : commands'[t][i].kind = "resources" =>
                           /\ context'[t].version <= commands'[t][i].version
                           /\ commands'[t][i].version <= version
                      /\ \A i, j \in DOMAIN commands'[t] :
                           /\ commands'[t][i].kind = "resources" /\ commands'[t][j].kind = "resources"
                           /\ i <= j
                           => commands'[t][i].version <= commands'[t][j].version
    BY <1>1 DEF VersionsRise
  <2>1. CASE t # s
    BY <1>1, <2>1 DEF GroovyInv, VersionsRise
  <2>2. CASE t = s
    <3>1. /\ had <= version
          /\ \A i \in DOMAIN old : old[i].kind = "resources" => had <= old[i].version /\ old[i].version <= version
          /\ \A i, j \in DOMAIN old : (old[i].kind = "resources" /\ old[j].kind = "resources" /\ i <= j) =>
               old[i].version <= old[j].version
      BY DEF GroovyInv, VersionsRise, old, had
    <3>2. \A i \in DOMAIN new : new[i].kind = "resources" =>
            i + 1 \in DOMAIN old /\ new[i] = old[i + 1] /\ i \in Nat
      BY <1>6 DEF Text
    <3>3. has <= version
      BY <1>3, <1>8, <3>1
    <3>4. ASSUME NEW i \in DOMAIN new, new[i].kind = "resources"
          PROVE  has <= new[i].version /\ new[i].version <= version
      <4>1. i + 1 \in DOMAIN old /\ new[i] = old[i + 1] /\ 1 <= i + 1
        BY <3>2, <3>4
      <4> QED BY <1>3, <1>8, <3>1, <3>4, <4>1
    <3>5. ASSUME NEW i \in DOMAIN new, NEW j \in DOMAIN new, i <= j,
                 new[i].kind = "resources", new[j].kind = "resources"
          PROVE  new[i].version <= new[j].version
      <4>1. i + 1 \in DOMAIN old /\ j + 1 \in DOMAIN old /\ i + 1 <= j + 1
            /\ new[i] = old[i + 1] /\ new[j] = old[j + 1]
        BY <3>2, <3>5
      <4> QED BY <3>1, <3>5, <4>1
    <3> QED BY <2>2, <3>3, <3>4, <3>5 DEF new, has
  <2> QED BY <2>1, <2>2
<1>10. /\ \A i \in DOMAIN old : run[old[i].for].pc = IF old[i].kind = "resources" THEN "context" ELSE "text"
       /\ \A i, j \in DOMAIN old : old[i].for = old[j].for => i = j
  BY DEF GroovyInv, CommandsAreLive, old
<1>11. \A i \in DOMAIN old : i # 1 => old[i].for # r
  BY <1>3, <1>10 DEF r
<1>12. CommandsAreLive'
  <2> SUFFICES ASSUME NEW t \in Groovy
               PROVE  /\ \A i \in DOMAIN commands'[t] : run'[commands'[t][i].for].pc =
                           IF commands'[t][i].kind = "resources" THEN "context" ELSE "text"
                      /\ \A i, j \in DOMAIN commands'[t] : commands'[t][i].for = commands'[t][j].for => i = j
    BY DEF CommandsAreLive
  <2>1. CASE t # s
    <3>1. /\ \A i \in DOMAIN commands[t] : run[commands[t][i].for].pc =
               IF commands[t][i].kind = "resources" THEN "context" ELSE "text"
          /\ \A i, j \in DOMAIN commands[t] : commands[t][i].for = commands[t][j].for => i = j
      BY DEF GroovyInv, CommandsAreLive
    <3>2. \A i \in DOMAIN commands[t] : commands[t][i].for \in Runs /\ run[commands[t][i].for].on = t
      BY <1>0, GroovyCommands
    <3>3. run[r].on = s
      BY <1>2, <1>3 DEF r
    <3>4. \A i \in DOMAIN commands[t] : run'[commands[t][i].for].pc = run[commands[t][i].for].pc
      BY <1>1, <2>1, <3>2, <3>3 DEF OthersStay
    <3> QED BY <1>1, <2>1, <3>1, <3>4
  <2>2. CASE t = s
    <3>1. \A i \in DOMAIN old : i # 1 => run'[old[i].for].pc = run[old[i].for].pc
      BY <1>1, <1>2, <1>11 DEF OthersStay
    <3>2. Text(r).for = r /\ Text(r).kind = "text"
      BY DEF Text
    <3>3. ASSUME NEW i \in DOMAIN new
          PROVE  run'[new[i].for].pc = IF new[i].kind = "resources" THEN "context" ELSE "text"
      <4>1. CASE i + 1 \in DOMAIN old /\ new[i] = old[i + 1] /\ i \in Nat
        <5>1. i + 1 # 1
          BY <1>6, <3>3
        <5> QED BY <1>10, <3>1, <4>1, <5>1
      <4>2. CASE new[i] = Text(r) /\ run'[r].pc = "text"
        BY <3>2, <4>2
      <4> QED BY <1>6, <4>1, <4>2
    <3>4. ASSUME NEW i \in DOMAIN new, NEW j \in DOMAIN new, new[i].for = new[j].for
          PROVE  i = j
      <4>1. i \in Nat /\ j \in Nat /\ i + 1 # 1 /\ j + 1 # 1
        BY <1>6
      <4>2. CASE i + 1 \in DOMAIN old /\ new[i] = old[i + 1] /\ j + 1 \in DOMAIN old /\ new[j] = old[j + 1]
        <5>1. i + 1 = j + 1
          BY <1>10, <3>4, <4>2
        <5> QED BY <4>1, <5>1
      <4>3. CASE new[i] = Text(r) /\ i = Len(old) /\ new[j] = Text(r) /\ j = Len(old)
        BY <4>3
      <4>4. CASE new[i] = Text(r) /\ j + 1 \in DOMAIN old /\ new[j] = old[j + 1]
        BY <1>11, <3>2, <3>4, <4>1, <4>4
      <4>5. CASE new[j] = Text(r) /\ i + 1 \in DOMAIN old /\ new[i] = old[i + 1]
        BY <1>11, <3>2, <3>4, <4>1, <4>5
      <4> QED BY <1>6, <4>2, <4>3, <4>4, <4>5
    <3> QED BY <2>2, <3>3, <3>4 DEF new
  <2> QED BY <2>1, <2>2
<1>13. GroovyCommandsReach'
  <2> SUFFICES ASSUME NEW t \in Groovy, plugin[t], OnlyServer(t)'
               PROVE  /\ \A i \in DOMAIN commands'[t] :
                           Reached(commands'[t], context'[t].version, i, run'[commands'[t][i].for].since)
                      /\ ~dirty => Reached(commands'[t], context'[t].version, Len(commands'[t]), version)
    BY <1>1 DEF GroovyCommandsReach
  <2>1. t = s /\ run'[r].pc # "failed"
    BY <1>4 DEF OnlyServer
  <2>2. OnlyServer(s)
    <3>1. run[r].pc # "failed"
      BY <1>3, <1>10 DEF r
    <3>2. \A q \in Runs : run[q].pc = "failed" => run'[q].pc = "failed"
      BY <1>1, <3>1 DEF OthersStay
    <3> QED BY <1>0, <1>1, <2>1, <3>2, OnlyServerWas
  <2>3. /\ \A i \in DOMAIN old : Reached(old, had, i, run[old[i].for].since)
        /\ ~dirty => Reached(old, had, Len(old), version)
    BY <2>1, <2>2 DEF GroovyInv, GroovyCommandsReach, old, had
  <2>4. ASSUME NEW i \in DOMAIN old, NEW v \in Nat, Reached(old, had, i, v)
        PROVE  \/ has >= v
               \/ \E j \in DOMAIN new : /\ j <= i - 1 /\ new[j].kind = "resources" /\ new[j].dirty
                                        /\ new[j].version >= v
    <3>1. CASE had >= v
      BY <1>2, <1>8, <3>1 DEF had
    <3>2. CASE \E j \in DOMAIN old : /\ j <= i /\ old[j].kind = "resources" /\ old[j].dirty
                                     /\ old[j].version >= v
      <4>1. PICK j \in DOMAIN old : j <= i /\ old[j].kind = "resources" /\ old[j].dirty /\ old[j].version >= v
        BY <3>2
      <4>2. CASE j = 1
        BY <1>3, <1>8, <2>1, <4>1, <4>2
      <4>3. CASE j # 1
        <5>1. j - 1 \in DOMAIN new /\ new[j - 1] = old[j] /\ j - 1 <= i - 1
          BY <1>3, <1>6, <4>1, <4>3
        <5> QED BY <4>1, <5>1
      <4> QED BY <4>2, <4>3
    <3> QED BY <2>4, <3>1, <3>2 DEF Reached
  <2>5. \A q \in Runs : run[q].since \in Nat
    BY <1>0, VersionsAreNumbers
  <2>6. \A i \in DOMAIN old : run'[old[i].for].since = run[old[i].for].since
    BY <1>1, <1>2 DEF RunsGoOn
  <2>7. ASSUME NEW i \in DOMAIN new
        PROVE  Reached(new, has, i, run'[new[i].for].since)
    <3>1. CASE i + 1 \in DOMAIN old /\ new[i] = old[i + 1] /\ i \in Nat
      <4>1. Reached(old, had, i + 1, run[old[i + 1].for].since) /\ run[old[i + 1].for].since \in Nat
        BY <1>2, <2>3, <2>5, <3>1
      <4>2. (i + 1) - 1 = i
        BY <3>1
      <4> QED BY <2>4, <2>6, <3>1, <4>1, <4>2 DEF Reached
    <3>2. CASE new[i] = Text(r) /\ i = Len(old)
      <4>1. Reached(old, had, 1, run[r].since) /\ run[r].since \in Nat
        BY <1>3, <1>4, <2>3, <2>5 DEF r
      <4>2. ~ \E j \in DOMAIN new : j <= 1 - 1
        BY <1>6
      <4>3. has >= run[r].since
        BY <1>3, <2>4, <4>1, <4>2
      <4>4. run'[r].since = run[r].since /\ Text(r).for = r
        BY <1>3, <2>6 DEF r, Text
      <4> QED BY <3>2, <4>3, <4>4 DEF Reached
    <3> QED BY <1>6, <3>1, <3>2
  <2>8. ~dirty => Reached(new, has, Len(new), version)
    <3>1. SUFFICES ASSUME ~dirty PROVE Reached(new, has, Len(new), version)
      OBVIOUS
    <3>2. Reached(old, had, Len(old), version) /\ Len(old) \in DOMAIN old
      BY <1>3, <2>3, <3>1
    <3>3. \A j \in DOMAIN new : j <= Len(old) - 1 => j <= Len(new)
      BY <1>3, <1>6
    <3> QED BY <1>2, <2>4, <3>2, <3>3 DEF Reached
  <2> QED BY <2>1, <2>7, <2>8 DEF new, has
<1> QED BY <1>9, <1>12, <1>13 DEF GroovyInv

\* Running code on Groovy servers: the invariant is inductive.
THEOREM GroovyInvInductive ==
    /\ Init => GroovyInv
    /\ GroovyInv /\ [Next]_vars => GroovyInv'
<1>1. ASSUME Init PROVE GroovyInv
  <2>1. SourcesInv
    BY <1>1, SourcesInvInductive
  <2>2. version = 0 /\ \A s \in Sessions : commands[s] = <<>> /\ context[s].version = 0
    BY <1>1 DEF Init
  <2>3. \A s \in Groovy : commands[s] = <<>> /\ context[s].version = 0
    BY <2>2, GroovyIsUnsupported
  <2>4. VersionsRise /\ CommandsAreLive
    BY <2>2, <2>3 DEF VersionsRise, CommandsAreLive
  <2>5. GroovyCommandsReach
    <3>1. ASSUME NEW s \in Groovy PROVE Reached(commands[s], context[s].version, Len(commands[s]), version)
      BY <2>2, <2>3 DEF Reached
    <3> QED BY <2>3, <3>1 DEF GroovyCommandsReach
  <2> QED BY <2>1, <2>4, <2>5 DEF GroovyInv
<1>2. ASSUME GroovyInv, [Next]_vars PROVE GroovyInv'
  <2>0. SourcesInv /\ SourcesInv'
    <3>1. SourcesInv
      BY <1>2 DEF GroovyInv
    <3> QED BY <1>2, <3>1, SourcesInvInductive
  <2>1. CASE NoGroovyStep
    BY <1>2, <2>0, <2>1, LeftAloneKeeps
  <2>2. CASE \E r \in Runs : GroovyRunStarts(r)
    BY <1>2, <2>0, <2>2, GroovyRunStartsKeeps
  <2>3. CASE \E s \in Groovy : GroovyCommandTaken(s)
    BY <1>2, <2>0, <2>3, GroovyCommandTakenKeeps
  <2>4. \/ NoGroovyStep \/ \E r \in Runs : GroovyRunStarts(r)
        \/ \E s \in Groovy : GroovyCommandTaken(s)
    <3>1. ASSUME NEW s \in Sessions, SessionCreated(s) \/ Dispose(s) \/ ContextSet(s) PROVE NoGroovyStep
      BY <2>0, <3>1, SessionCreatedKeeps, DisposeKeeps, ContextSetKeeps
    <3>2. ASSUME NEW s \in Sessions, ResourcesSet(s) \/ TextExecuted(s)
          PROVE  NoGroovyStep \/ (s \in Groovy /\ GroovyCommandTaken(s))
      BY <2>0, <3>2, ResourcesSetKeeps, TextExecutedKeeps
    <3>3. CASE \E r \in Runs, s \in Sessions, code \in Codes : RunCode(r, s, code)
      BY <2>0, <3>3, RunCodeKeeps
    <3>4. ASSUME NEW r \in Runs, RunRefused(r) \/ RunStarted(r) PROVE NoGroovyStep \/ GroovyRunStarts(r)
      BY <2>0, <3>4, RunRefusedKeeps, RunStartedKeeps
    <3>5. CASE WorkspaceChanged
      BY <2>0, <3>5, WorkspaceChangedKeeps
    <3>6. CASE UNCHANGED vars \/ \E s \in Sessions : AskForSource(s) \/ AnswerSource(s)
      BY <2>0, <3>6, AskingKeeps
    <3> QED BY <1>2, <3>1, <3>2, <3>3, <3>4, <3>5, <3>6 DEF Next, Server
  <2> QED BY <2>1, <2>2, <2>3, <2>4
<1> QED BY <1>1, <1>2

\* DhcService and the Groovy plugin: code executes with classes of the sources as they were when it
\* was started or newer, if no run failed and no other Groovy server was given the dirty flag.
THEOREM GroovyIsNeverStale == Spec => []GroovyIsFresh
<1>1. ASSUME GroovyInv PROVE GroovyIsFresh
  <2> SUFFICES ASSUME NEW s \in Groovy, NEW r \in Runs, TextAtHead(s, r), plugin[s],
                      \A q \in Runs : run[q].on \in Groovy => run[q].on = s /\ run[q].pc # "failed"
               PROVE  context[s].version >= run[r].since
    BY DEF GroovyIsFresh
  <2>1. commands[s] \in Seq(Commands) /\ commands[s] # <<>>
    BY <1>1, GroovyCommands DEF GroovyInv, TextAtHead
  <2>2. 1 \in DOMAIN commands[s] /\ commands[s][1] = Text(r) /\ Text(r).for = r /\ Text(r).kind = "text"
    BY <2>1 DEF TextAtHead, Text
  <2>3. Reached(commands[s], context[s].version, 1, run[r].since)
    BY <1>1, <2>2 DEF GroovyInv, GroovyCommandsReach, OnlyServer
  <2>4. ASSUME NEW j \in DOMAIN commands[s], j <= 1 PROVE j = 1
    BY <2>1, <2>4
  <2> QED BY <2>2, <2>3, <2>4 DEF Reached
<1> QED BY <1>1, GroovyInvInductive, PTL DEF Spec
=============================================================================
