----------------------------- MODULE QueryView -----------------------------
(***************************************************************************)
(* The view in which the workers of an Enterprise server are created:      *)
(* CreateQueryViewProvider (providers/CreateQueryViewProvider.ts) with the  *)
(* page it shows.  Promises matter here: what an action resolves or rejects *)
(* goes on in microtasks, in order, before anything else can happen.       *)
(***************************************************************************)
EXTENDS Naturals, SequencesExt

CONSTANTS
    Creations,      \* calls of createQuery
    MaxVersion,     \* how often the page may ask one of them for settings
    NoCreation

ASSUME QueryViewAssumption == NoCreation \notin Creations /\ MaxVersion \in Nat \ {0}

VARIABLES
    phase,      \* how far a call of createQuery is
    jobs,       \* the microtasks that are queued
    waiters,    \* the calls that await _viewPromiseWithResolvers
    resolved,   \* whether that promise is resolved
    visible,    \* the context of the view, set by setViewIsVisible
    present,    \* whether VS Code has a view that resolveWebviewView was called with
    serial,     \* the call that _querySerialPromiseWithResolvers is of
    tagVersion, \* the versions of the tags that the page was given
    named,      \* the name the page has for its next worker
    workers,    \* the names of the workers the page has started
    closed      \* whether the view was closed by a command since it was shown

queryVars == <<phase, jobs, waiters, resolved, visible, present, serial,
               tagVersion, named, workers, closed>>
pageVars == <<tagVersion, named, workers>>

Job(kind, c) == [kind |-> kind, of |-> c]

QueryInit ==
    /\ phase = [c \in Creations |-> "none"]
    /\ jobs = <<>> /\ waiters = <<>> /\ resolved = FALSE
    /\ visible = FALSE /\ present = FALSE /\ serial = NoCreation
    /\ tagVersion = [c \in Creations |-> 0] /\ named = <<>> /\ workers = <<>>
    /\ closed = FALSE

-----------------------------------------------------------------------------
(* Showing and hiding, in the microtask that does it                       *)

\* hide: the awaited serial, if any, is rejected; what it leaves to do precedes the job of
\* the caller that awaits hide.
hide(todo, caller) ==
    /\ visible' = FALSE /\ present' = FALSE /\ serial' = NoCreation
    /\ jobs' = todo \o (IF serial = NoCreation THEN <<>> ELSE <<Job("cancelled", serial)>>) \o caller

\* The rest of show: calls that wait for the previous view are rejected.
showView(c, todo) ==
    /\ jobs' = todo \o [i \in DOMAIN waiters |-> Job("refused", waiters[i])] \o <<Job("shown", c)>>
    /\ waiters' = <<>> /\ resolved' = FALSE
    /\ visible' = TRUE /\ closed' = FALSE

ShowAtOnce(c, todo) ==
    /\ phase' = [phase EXCEPT ![c] = "shown"]
    /\ showView(c, todo \o (IF serial = NoCreation THEN <<>> ELSE <<Job("cancelled", serial)>>))
    /\ serial' = NoCreation
    /\ UNCHANGED <<present, pageVars>>

\* createQuery until it awaits show or, when another creation is cancelled, show awaits hide.
StartJob(c, todo) ==
    IF serial = NoCreation
    THEN /\ phase' = [phase EXCEPT ![c] = "shown"]
         /\ showView(c, todo)
         /\ UNCHANGED <<present, serial, pageVars>>
    ELSE /\ phase' = [phase EXCEPT ![c] = "hiding"]
         /\ hide(todo, <<Job("caught", c)>>)
         /\ UNCHANGED <<waiters, resolved, closed, pageVars>>

\* promise.catch settles, then hide returns, then show goes on.
CaughtJob(c, todo) ==
    /\ jobs' = Append(todo, Job("hidden", c))
    /\ UNCHANGED <<phase, waiters, resolved, visible, present, serial, closed, pageVars>>

HiddenJob(c, todo) ==
    /\ jobs' = Append(todo, Job("show", c))
    /\ UNCHANGED <<phase, waiters, resolved, visible, present, serial, closed, pageVars>>

ShowJob(c, todo) ==
    /\ phase' = [phase EXCEPT ![c] = "shown"]
    /\ showView(c, todo)
    /\ UNCHANGED <<present, serial, pageVars>>

\* createQuery awaits the view promise that is there when show has returned.
ShownJob(c, todo) ==
    /\ phase' = [phase EXCEPT ![c] = "view"]
    /\ IF resolved THEN jobs' = Append(todo, Job("viewed", c)) /\ UNCHANGED waiters
                   ELSE waiters' = Append(waiters, c) /\ jobs' = todo
    /\ UNCHANGED <<resolved, visible, present, serial, closed, pageVars>>

\* The page is loaded and its messages are listened to; createQuery awaits the serial.
ViewedJob(c, todo) ==
    /\ phase' = [phase EXCEPT ![c] = "serial"]
    /\ serial' = c /\ named' = <<>> /\ jobs' = todo
    /\ UNCHANGED <<waiters, resolved, visible, present, closed, tagVersion, workers>>

RefusedJob(c, todo) ==
    /\ phase' = [phase EXCEPT ![c] = "failed"] /\ jobs' = todo
    /\ UNCHANGED <<waiters, resolved, visible, present, serial, closed, pageVars>>

\* The serial promise is settled: the finally block hides the view, which is not awaited.
EndJob(c, end, todo) ==
    /\ phase' = [phase EXCEPT ![c] = end]
    /\ hide(todo, <<>>)
    /\ UNCHANGED <<waiters, resolved, closed, pageVars>>

Microtask ==
    /\ jobs # <<>>
    /\ LET c == Head(jobs).of
           todo == Tail(jobs)
           Is(kind) == Head(jobs).kind = kind
       IN \/ Is("start") /\ StartJob(c, todo)
          \/ Is("caught") /\ CaughtJob(c, todo)
          \/ Is("hidden") /\ HiddenJob(c, todo)
          \/ Is("show") /\ ShowJob(c, todo)
          \/ Is("shown") /\ ShownJob(c, todo)
          \/ Is("viewed") /\ ViewedJob(c, todo)
          \/ Is("refused") /\ RefusedJob(c, todo)
          \/ Is("cancelled") /\ EndJob(c, "cancelled", todo)
          \/ Is("created") /\ EndJob(c, "created", todo)

-----------------------------------------------------------------------------
(* What happens when no microtask is left                                  *)

\* Connections that waited for one login to the server go on together.
createQuery(cs) ==
    /\ \A i \in DOMAIN cs : phase[cs[i]] = "none"
    /\ phase' = [c \in Creations |-> IF c \in Range(cs) THEN "started" ELSE phase[c]]
    /\ jobs' = [i \in DOMAIN cs |-> Job("start", cs[i])]
    /\ UNCHANGED <<waiters, resolved, visible, present, serial, closed, pageVars>>

\* The command that closes the view, a disconnect from the server.
Close ==
    /\ hide(<<>>, <<>>) /\ closed' = TRUE
    /\ UNCHANGED <<phase, waiters, resolved, pageVars>>

\* VS Code has made the view that is to be visible.
resolveWebviewView ==
    /\ visible /\ ~present /\ present' = TRUE
    /\ resolved' = TRUE /\ waiters' = <<>>
    /\ jobs' = [i \in DOMAIN waiters |-> Job("viewed", waiters[i])]
    /\ UNCHANGED <<phase, visible, serial, closed, pageVars>>

\* The calls of createQuery that listen to the page.
Listening == {c \in Creations : phase[c] = "serial"}

\* Every settings request is given another version of the tag by each listener.
Versioned(c) == [tagVersion EXCEPT ![c] = @ + 1]

\* The page takes the first answer.
SettingsRequested ==
    /\ present /\ named = <<>>
    /\ \E c \in Listening :
         /\ tagVersion[c] < MaxVersion
         /\ tagVersion' = [d \in Creations |-> IF d \in Listening THEN Versioned(d)[d] ELSE tagVersion[d]]
         /\ named' = <<c, tagVersion'[c]>>
    /\ UNCHANGED <<phase, jobs, waiters, resolved, visible, present, serial, workers, closed>>

Starting == workers # <<>> /\ Last(workers) = named

WorkerStarted ==
    /\ present /\ named # <<>> /\ ~Starting
    /\ workers' = Append(workers, named)
    /\ UNCHANGED <<phase, jobs, waiters, resolved, visible, present, serial, tagVersion, named, closed>>

\* The user cancels the creation of the worker in the page, which starts over.
workerCreationCancelled ==
    /\ present /\ Starting
    /\ named' = <<>>
    /\ UNCHANGED <<phase, jobs, waiters, resolved, visible, present, serial, tagVersion, workers, closed>>

\* The first listener resolves the promise of the serial, whoever awaits it.
workerCreated ==
    /\ present /\ Starting /\ Listening # {}
    /\ jobs' = IF serial = NoCreation THEN <<>> ELSE <<Job("created", serial)>>
    /\ serial' = NoCreation /\ named' = <<>>
    /\ UNCHANGED <<phase, waiters, resolved, visible, present, tagVersion, workers, closed>>

QueryNext ==
    \/ Microtask
    \/ /\ jobs = <<>>
       /\ \/ \E c \in Creations : createQuery(<<c>>)
          \/ \E c, d \in Creations : c # d /\ createQuery(<<c, d>>)
          \/ Close \/ resolveWebviewView
          \/ SettingsRequested \/ WorkerStarted \/ workerCreationCancelled \/ workerCreated

QuerySpec == QueryInit /\ [][QueryNext]_queryVars

-----------------------------------------------------------------------------
(* Properties.  A definition that is used nowhere is a faulty variant of    *)
(* the one it stands before.                                               *)

\* A creation that waits for the view or for its worker is in view, unless a command closed
\* it: what a cancelled creation leaves to do never hides the next one
\* (CreateQueryViewProvider.show and hide).
WaitingIsVisible ==
    (jobs = <<>> /\ ~closed /\ (waiters # <<>> \/ serial # NoCreation)) => visible

=============================================================================
