------------------------- MODULE RemoteFileSources -------------------------
(***************************************************************************)
(* Running code with remote file sources: DhcService.initSession, runCode  *)
(* and dispose (services/DhcService.ts), the registration of the plugins   *)
(* and the queue of execution-context updates that all Python sessions     *)
(* share (services/RemoteFileSourceService.ts), and the answers to servers *)
(* that fetch a module (util/remoteFileSourceUtils.ts).                    *)
(*                                                                         *)
(* A session executes its commands one after the other.  The names of the  *)
(* top-level modules are abstracted to the version of the workspace and    *)
(* the controller prefixes they were made from.                            *)
(***************************************************************************)
EXTENDS Naturals, SequencesExt, FiniteSets

CONSTANTS
    Python, Groovy, \* the connections, by the console type of their servers
    Runs,           \* calls of runCode
    ImportPrefixes, \* controller import prefixes
    Codes,          \* what code does to them: the set it brings, or None if it leaves them alone
    Connected,      \* which connections there may be at once, a set of sets of them
    MaxVersion,     \* bound on the changes of the marked folders and their files
    None

ASSUME SourcesAssumption ==
    /\ Python \cap Groovy = {} /\ IsFiniteSet(Python \cup Groovy)
    /\ MaxVersion \in Nat /\ Connected \subseteq SUBSET (Python \cup Groovy)
    /\ None \notin Runs \cup Python \cup Groovy
    /\ Codes \subseteq (SUBSET ImportPrefixes) \cup {None}

Sessions == Python \cup Groovy

VARIABLES
    version,    \* changes of the workspace so far
    prefixes,   \* _controllerImportPrefixes
    evict,      \* _evictControllerImportPrefixes
    dirty,      \* _isGroovyWorkspaceDirty
    queue,      \* _pythonExecutionContextQueue: the updates, of which the first runs
    phase,      \* of a connection: new while it has no session, ready or closed
    plugin,     \* whether its server has the remote file source plugin
    waiting,    \* the calls of initSession that await its session, None for ServerManager's
    listeners,  \* its subscriptions to onDidUpdatePythonModuleMeta
    commands,   \* what was sent to its server and is not executed yet
    context,    \* the execution context of its server
    fetch,      \* whether its server asks for a source: none, asked or lost
    running,    \* isRunningCode
    run         \* the calls of runCode

sourceVars == <<version, prefixes, evict, dirty>>
connectionVars == <<phase, plugin, waiting>>
serverVars  == <<commands, context, fetch>>
vars == <<sourceVars, queue, connectionVars, listeners, serverVars, running, run>>

-----------------------------------------------------------------------------
(* Updates of the execution context.  A definition that is used nowhere is *)
(* a faulty variant of the one it stands before.                           *)

Update(s, kind, r) == [on |-> s, kind |-> kind, for |-> r]

\* What an update sends when it is its turn.  Only a run's update has a connection id.
Script(u, marks, names) ==
    [kind |-> "context", for |-> IF u.kind = "run" THEN u.for ELSE None,
     version |-> version', prefixes |-> names, evict |-> marks, dirty |-> FALSE]
PathsAfterClear(r) ==
    [kind |-> "resources", for |-> r,
     version |-> version, prefixes |-> {}, evict |-> {}, dirty |-> FALSE]
ResourcePaths(r) ==
    [kind |-> "resources", for |-> r,
     version |-> version, prefixes |-> {}, evict |-> {}, dirty |-> dirty]
Text(r) ==
    [kind |-> "text", for |-> r, version |-> 0, prefixes |-> {}, evict |-> {}, dirty |-> FALSE]

Send(sent, s, cmd) == [sent EXCEPT ![s] = Append(@, cmd)]

\* The queue becomes q and its first update starts, after the commands sent, taking all
\* prefixes to evict with it.
StartFirst(q, sent, marks, names) ==
    /\ queue' = q
    /\ IF q = <<>> THEN commands' = sent /\ evict' = marks
       ELSE commands' = Send(sent, Head(q).on, Script(Head(q), marks, names)) /\ evict' = {}

setPythonServerExecutionContext(updates, marks, names) ==
    IF queue = <<>> THEN StartFirst(updates, commands, marks, names)
    ELSE queue' = queue \o updates /\ evict' = marks /\ UNCHANGED commands

\* What the run sends whose update is over goes before the script of the next update.
TextAfterNextUpdate(sent, s, r) ==
    IF Len(queue) > 1 /\ queue[2].on = s
    THEN [sent EXCEPT ![s] = @ \o <<Script(queue[2], {}, prefixes), Text(r)>>] ELSE Send(sent, s, Text(r))
SendText(sent, s, r) == Send(sent, s, Text(r))

QueueStuckOnError(ok) == IF ok THEN Tail(queue) ELSE <<>>
\* Errors are ignored: they go to the caller that queued the update.
AfterHead(ok) == Tail(queue)

-----------------------------------------------------------------------------
(* Initial state                                                           *)

Unstarted == [pc |-> "idle", on |-> None, code |-> None, since |-> 0]

\* ServerManager has put the connection into its map and called initSession.
Init ==
    /\ version = 0 /\ prefixes = {} /\ evict = {} /\ dirty = FALSE /\ queue = <<>>
    /\ \E there \in Connected :
         /\ phase = [s \in Sessions |-> IF s \in there THEN "new" ELSE "closed"]
         /\ waiting = [s \in Sessions |-> IF s \in there THEN <<None>> ELSE <<>>]
         /\ plugin \in {[s \in Sessions |-> s \in with] : with \in SUBSET there}
    /\ listeners = [s \in Sessions |-> 0]
    /\ commands = [s \in Sessions |-> <<>>]
    /\ context = [s \in Sessions |-> [for |-> None, version |-> 0, prefixes |-> {}, evicted |-> {}]]
    /\ fetch = [s \in Sessions |-> "none"]
    /\ running = [s \in Sessions |-> FALSE]
    /\ run = [r \in Runs |-> Unstarted]

-----------------------------------------------------------------------------
(* Sessions                                                                *)

\* Each call of initSession that awaits the session registers the plugin.
Registrations(s) == [i \in DOMAIN waiting[s] |-> Update(s, "register", waiting[s][i])]
\* The first context is set before the subscription to workspace events is made.
Subscribed(s, ok) == IF ok THEN [listeners EXCEPT ![s] = @ + 1] ELSE listeners

\* The runs rs go on to the code after their await, or end.
Goto(rs, pc) == [r \in Runs |-> IF r \in rs THEN [run[r] EXCEPT !.pc = pc] ELSE run[r]]
Awaiting(s) == Range(waiting[s]) \ {None}

\* initDhcSession resolves.
SessionCreated(s) ==
    /\ phase[s] = "new"
    /\ UNCHANGED version
    /\ phase' = [phase EXCEPT ![s] = "ready"]
    /\ waiting' = [waiting EXCEPT ![s] = <<>>]
    /\ IF s \in Python /\ plugin[s]
       THEN /\ setPythonServerExecutionContext(Registrations(s), evict, prefixes)
            /\ run' = Goto(Awaiting(s), "register")
       ELSE UNCHANGED <<queue, commands, evict>> /\ run' = Goto(Awaiting(s), "types")
    /\ UNCHANGED <<prefixes, dirty, plugin, listeners, context, fetch, running>>

\* dispose, when the connection is disconnected or its session cannot be created.  What was
\* sent and what is queued for it fails in its turn; who awaits its session gets none.
Closed(s) ==
    /\ phase' = [phase EXCEPT ![s] = "closed"]
    /\ waiting' = [waiting EXCEPT ![s] = <<>>]
    /\ listeners' = [listeners EXCEPT ![s] = 0]
    /\ fetch' = [fetch EXCEPT ![s] = "none"]

Dispose(s) ==
    /\ phase[s] # "closed"
    /\ Closed(s)
    /\ run' = Goto(Awaiting(s), "failed")
    /\ UNCHANGED <<sourceVars, queue, plugin, commands, context, running>>

-----------------------------------------------------------------------------
(* runCode                                                                 *)

RunCode(r, s, code) ==
    /\ run[r].pc = "idle" /\ phase[s] # "closed"
    /\ run' = [run EXCEPT ![r] = [pc |-> IF phase[s] = "new" THEN "session" ELSE "types",
                                  on |-> s, code |-> code, since |-> version]]
    /\ waiting' = IF phase[s] = "new" THEN [waiting EXCEPT ![s] = Append(@, r)] ELSE waiting
    /\ UNCHANGED <<sourceVars, queue, phase, plugin, listeners, serverVars, running>>

\* The console types are not there, or not for this language.
RunRefused(r) ==
    /\ run[r].pc = "types"
    /\ run' = Goto({r}, "failed")
    /\ UNCHANGED <<sourceVars, queue, connectionVars, listeners, serverVars, running>>

SetsPrefixes(r) == run[r].code # None

\* A full file, or code with prefixes, replaces the prefixes and has the old and new evicted.
setControllerImportPrefixes(r) ==
    IF SetsPrefixes(r) THEN prefixes' = run[r].code ELSE UNCHANGED prefixes
MarkedForEviction(r) ==
    IF SetsPrefixes(r) THEN evict \cup prefixes \cup run[r].code ELSE evict

\* getConsoleTypes has answered.
RunStarted(r) ==
    LET s == run[r].on IN
    /\ run[r].pc = "types"
    /\ UNCHANGED version
    /\ running' = [running EXCEPT ![s] = TRUE]
    /\ \/ /\ s \in Python /\ plugin[s]
          /\ setControllerImportPrefixes(r)
          /\ setPythonServerExecutionContext(<<Update(s, "run", r)>>, MarkedForEviction(r), prefixes')
          /\ run' = Goto({r}, "context")
          /\ UNCHANGED dirty
       \/ /\ s \in Groovy /\ plugin[s]
          /\ dirty' = FALSE
          /\ commands' = Send(commands, s, ResourcePaths(r))
          /\ run' = Goto({r}, "context")
          /\ UNCHANGED <<prefixes, evict, queue>>
       \/ /\ ~plugin[s]
          /\ commands' = SendText(commands, s, r)
          /\ run' = Goto({r}, "text")
          /\ UNCHANGED <<prefixes, evict, dirty, queue>>
    /\ UNCHANGED <<connectionVars, listeners, context, fetch>>

NotRunning(s) == running' = [running EXCEPT ![s] = FALSE]

-----------------------------------------------------------------------------
(* Servers.  A command of a closed session fails, any other may.           *)

Outcomes(s) == IF phase[s] = "closed" THEN {FALSE} ELSE BOOLEAN
Taken(s) == [commands EXCEPT ![s] = Tail(@)]
Unauthenticated(s) == Closed(s) /\ UNCHANGED plugin
FlagKept(s, r) ==
    UNCHANGED <<running, connectionVars, listeners, fetch>> /\ run' = Goto({r}, "failed")
\* A run whose call fails; it disposes the connection if the session is no longer valid.
RunFails(s, r) ==
    /\ NotRunning(s)
    /\ \/ UNCHANGED <<connectionVars, listeners, fetch>>
       \/ phase[s] = "ready" /\ Unauthenticated(s)
    /\ run' = Goto({r}, "failed")

\* What a server does with the scripts of an update: set_execution_context, after it has
\* deleted the modules under the prefixes to evict.
EvictModules(evicted, cmd) == evicted \cup cmd.evict
WithContext(s, cmd) ==
    [context EXCEPT ![s] = [for |-> cmd.for, version |-> cmd.version,
                            prefixes |-> cmd.prefixes, evicted |-> EvictModules(@.evicted, cmd)]]

\* The server ends the update that is first in the queue.
ContextSet(s) ==
    /\ commands[s] # <<>> /\ Head(commands[s]).kind = "context"
    /\ UNCHANGED version
    /\ \E ok \in Outcomes(s) :
         LET cmd == Head(commands[s])
             u == Head(queue)
             sent == Taken(s)
         IN /\ context' = IF ok THEN WithContext(s, cmd) ELSE context
            /\ StartFirst(AfterHead(ok),
                          IF ok /\ u.kind = "run" THEN SendText(sent, s, u.for) ELSE sent, evict, prefixes)
            /\ \/ u.kind = "run" /\ ok
                  /\ run' = Goto({u.for}, "text")
                  /\ UNCHANGED <<connectionVars, listeners, fetch, running>>
               \/ u.kind = "run" /\ ~ok /\ RunFails(s, u.for)
               \/ /\ u.kind = "register"
                  /\ listeners' = Subscribed(s, ok)
                  /\ run' = Goto({u.for}, IF phase[s] = "ready" THEN "types" ELSE "failed")
                  /\ UNCHANGED <<connectionVars, fetch, running>>
               \/ u.kind = "meta" /\ UNCHANGED <<connectionVars, listeners, fetch, running, run>>
    /\ UNCHANGED <<prefixes, dirty>>

\* Classes of changed files are dropped only when the workspace was said to be dirty.
ResourcesSet(s) ==
    /\ commands[s] # <<>> /\ Head(commands[s]).kind = "resources"
    /\ \E ok \in Outcomes(s) :
         LET cmd == Head(commands[s]) IN
         \/ /\ ok
            /\ context' = IF cmd.dirty THEN [context EXCEPT ![s].version = cmd.version] ELSE context
            /\ commands' = SendText(Taken(s), s, cmd.for)
            /\ run' = Goto({cmd.for}, "text")
            /\ UNCHANGED <<connectionVars, listeners, fetch, running>>
         \/ ~ok /\ commands' = Taken(s) /\ UNCHANGED context /\ RunFails(s, cmd.for)
    /\ UNCHANGED <<sourceVars, queue>>

TextAtHead(s, r) == commands[s] # <<>> /\ Head(commands[s]) = Text(r)

\* The code imports a module that the plugin has to ask for.
AskForSource(s) ==
    /\ phase[s] = "ready" /\ plugin[s] /\ fetch[s] = "none"
    /\ \E r \in Runs : TextAtHead(s, r)
    /\ fetch' = [fetch EXCEPT ![s] = "asked"]
    /\ UNCHANGED <<sourceVars, queue, connectionVars, listeners, commands, context, running, run>>

\* The Groovy listener responds even if the document cannot be opened.
respond(s) == "none"
AnswerSource(s) ==
    /\ fetch[s] = "asked"
    /\ \E answer \in IF s \in Groovy THEN {respond(s)} ELSE {"none", "lost"} :
         fetch' = [fetch EXCEPT ![s] = answer]
    /\ UNCHANGED <<sourceVars, queue, connectionVars, listeners, commands, context, running, run>>

TextExecuted(s) ==
    /\ fetch[s] = "none"
    /\ \E r \in Runs, ok \in Outcomes(s) :
         /\ TextAtHead(s, r)
         /\ commands' = Taken(s)
         /\ context' = [context EXCEPT ![s].evicted = {}]
         /\ \/ /\ ok /\ NotRunning(s) /\ run' = Goto({r}, "done")
               /\ UNCHANGED <<connectionVars, listeners, fetch>>
            \/ ~ok /\ RunFails(s, r)
    /\ UNCHANGED <<sourceVars, queue>>

\* A marked folder or a file below one changed: every Python subscription queues an update,
\* in the order in which they were made, which may be any.
Subscriptions == UNION {{s} \X (1..listeners[s]) : s \in Python}
WorkspaceChanged ==
    /\ version < MaxVersion
    /\ version' = version + 1
    /\ dirty' = TRUE
    /\ \E subscribed \in SetToSeqs(Subscriptions) :
         IF subscribed = <<>> THEN UNCHANGED <<queue, commands, evict>>
         ELSE setPythonServerExecutionContext(
                  [i \in DOMAIN subscribed |-> Update(subscribed[i][1], "meta", None)], evict, prefixes)
    /\ UNCHANGED <<prefixes, connectionVars, listeners, context, fetch, running, run>>

Server(s) == ContextSet(s) \/ ResourcesSet(s) \/ TextExecuted(s)
Next ==
    \/ \E s \in Sessions : SessionCreated(s) \/ Dispose(s) \/ Server(s) \/ AskForSource(s) \/ AnswerSource(s)
    \/ \E r \in Runs, s \in Sessions, code \in Codes : RunCode(r, s, code)
    \/ \E r \in Runs : RunRefused(r) \/ RunStarted(r)
    \/ WorkspaceChanged

\* Calls of a server are answered or fail, and so is the creation of its session.  Code
\* asks for sources again and again, but not for ever.
Fairness ==
    /\ \A s \in Sessions : /\ WF_vars(SessionCreated(s) \/ (phase[s] = "new" /\ Dispose(s)))
                           /\ WF_vars(AnswerSource(s)) /\ WF_vars(Server(s)) /\ SF_vars(TextExecuted(s))
    /\ \A r \in Runs : WF_vars(RunRefused(r) \/ RunStarted(r))

Spec == Init /\ [][Next]_vars /\ Fairness

-----------------------------------------------------------------------------
(* Properties.                                                             *)

\* Code executes in a Python server under its own connection id, with the sources as they
\* were when it was started or newer: no update of another run or of a workspace event gets
\* between the update of its context and the code.
RunsHaveTheirContext ==
    \A s \in Python, r \in Runs :
        TextAtHead(s, r) /\ plugin[s] =>
            context[s].for = r /\ context[s].version >= run[r].since

\* Groovy code executes with classes of the sources as they were when it was started or
\* newer, if no run failed and no other Groovy server was given the dirty flag.
GroovyIsFresh ==
    \A s \in Groovy, r \in Runs :
        /\ TextAtHead(s, r) /\ plugin[s]
        /\ \A q \in Runs : run[q].on \in Groovy => run[q].on = s /\ run[q].pc # "failed"
        => context[s].version >= run[r].since

\* A connection shown as running code has a run that has begun and not ended, whatever
\* fails and however its server or its session goes away.
RunningIsNotStuck ==
    \A s \in Sessions : running[s] => \E r \in Runs : run[r].on = s /\ run[r].pc \in {"context", "text"}

\* A run ends, also behind updates that fail, unless a Python server waits for a source
\* that could not be read: that blocks the updates of all servers.
RunsEnd ==
    \A r \in Runs : run[r].pc # "idle" ~>
        (run[r].pc \in {"done", "failed"} \/ \E s \in Python : fetch[s] = "lost")

=============================================================================
