----------------------------- MODULE PipServers -----------------------------
(***************************************************************************)
(* Deephaven servers that the extension starts in terminals of its own     *)
(* with the deephaven-server of the workspace's Python environment:        *)
(* PipServerController, with pollUntilTrue of PollingService and what      *)
(* ServerManager's map says of the same ports.                             *)
(*                                                                         *)
(* A step is the code between two awaits that wait for something outside   *)
(* the process.  Checking the pip environment is such a wait only in       *)
(* reconnectToExistingTerminals, which runs while extensions activate.     *)
(* Whether a server answers on a port is up to the environment: a poll may *)
(* succeed or fail at any time.                                            *)
(* The maps are sets: the loop of reconnectToExistingTerminals takes the   *)
(* entries in any order, that of the Map among them.                       *)
(* Not modelled: PSKs, and which of several configured servers has a port. *)
(***************************************************************************)
EXTENDS Naturals, FiniteSets

CONSTANTS
    Ports,      \* the ports of getNextAvailablePort
    Terms,      \* identities of terminals; that of a closed one is used again
    Loop,       \* who polls for reconnectToExistingTerminals
    None,
    MaxLoads    \* bound on the configuration loads whose event is still to come

ASSUME PipAssumption ==
    /\ Ports \subseteq Nat
    /\ Loop \notin Terms
    /\ None \notin Terms \cup {Loop} \cup Ports
    /\ MaxLoads \in Nat \ {0}

Callers == Terms \cup {Loop}   \* the callers of pollUntilServerStarts

VARIABLES
    config,     \* ports of the servers in the configuration last loaded
    kind,       \* ServerManager._serverMap: none, configured or managed
    loads,      \* configuration loads that have not fired onDidLoadConfig
    reserved,   \* _reservedPorts
    installed,  \* _isPipServerInstalled
    window,     \* vscode.window.terminals with a name of ours
    older,      \* pairs of them, the first before the second in that array
    portOf,     \* the port in the name of a terminal
    stopping,   \* terminals that were sent ctrl+c and exit
    terminals,  \* the values of _serverUrlTerminalMap
    pollers,    \* _pollers, with who polls
    poll,       \* the port for which a caller awaits the start of the server
    reconnect,  \* reconnectToExistingTerminals: check, add, loop or done
    toAdd,      \* in its syncManagedServers: the servers it found to be missing
    added,      \* and those whose stored PSK it has awaited
    visited     \* the map entries its loop has come to

serverVars   == <<config, kind, loads, reserved, installed>>
terminalVars == <<window, older, portOf, stopping, terminals>>
pollVars     == <<pollers, poll>>
loopVars     == <<reconnect, toAdd, added, visited>>
vars == <<serverVars, terminalVars, pollVars, loopVars>>

Mapped(map) == {portOf[t] : t \in map}

TypeOK ==
    /\ config \subseteq Ports /\ reserved \subseteq Ports
    /\ kind \in [Ports -> {"none", "configured", "managed"}]
    /\ loads \in 0..MaxLoads
    /\ installed \in BOOLEAN
    /\ window \subseteq Terms /\ older \subseteq window \X window
    /\ portOf \in [Terms -> Ports \cup {None}]
    /\ stopping \subseteq window /\ terminals \subseteq window
    /\ pollers \in [Ports -> Callers \cup {None}]
    /\ poll \in [Callers -> Ports \cup {None}]
    /\ reconnect \in {"check", "add", "loop", "done"}
    /\ toAdd \subseteq Ports /\ added \subseteq toAdd
    /\ visited \subseteq Terms

Init ==
    /\ config \in SUBSET Ports
    /\ kind = [p \in Ports |-> IF p \in config THEN "configured" ELSE "none"]
    /\ loads = 1 /\ reserved = {} /\ installed = FALSE
    /\ window = {} /\ older = {} /\ terminals = {} /\ stopping = {}
    /\ portOf = [t \in Terms |-> None]
    /\ pollers = [p \in Ports |-> None]
    /\ poll = [x \in Callers |-> None]
    /\ reconnect = "done" /\ toAdd = {} /\ added = {} /\ visited = {}

-----------------------------------------------------------------------------
(* What the handlers share.  A definition that is used nowhere (KindKept,  *)
(* ReservedBefore...) is a faulty variant of the one it stands before.     *)

\* getNextAvailablePort.
FreeOfTerminals == Ports \ reserved
Free == Ports \ (Mapped(terminals) \cup reserved)
Lowest(P) == CHOOSE p \in P : \A q \in P : p <= q

\* What checkPipInstall may say, in a sync that asks only while it knows of no pip.
Checked == IF installed THEN {TRUE} ELSE BOOLEAN

\* ServerManager.syncManagedServers for the ports P.
KindKept(P) == [p \in Ports |-> IF p \in P /\ kind[p] = "none" THEN "managed" ELSE kind[p]]
KindOverridden(P) ==
    [p \in Ports |-> IF p \in P THEN "managed"
                     ELSE IF kind[p] = "managed" THEN "none" ELSE kind[p]]
KindWith(P) ==
    [p \in Ports |-> IF p \in P /\ kind[p] = "none" THEN "managed"
                     ELSE IF p \notin P /\ kind[p] = "managed" THEN "none"
                     ELSE kind[p]]

\* PipServerController.syncManagedServers, not to prefer stored PSKs, with map as
\* _serverUrlTerminalMap and ok the answer as to whether pip servers can be started.
SyncManaged(map, ok) ==
    /\ installed' = ok
    /\ kind' = KindWith(IF ok THEN Mapped(map) ELSE {})

\* disposeServers for the ports D: each terminal is forgotten and, if it is still there,
\* told to stop; each poller is cancelled and forgotten.  Whoever awaits the poller
\* disposes the port once more, with nothing left to do.
MapWithout(D) == {t \in terminals : portOf[t] \notin D}
PollsWithout(D) == [x \in Callers |-> IF poll[x] \in D THEN None ELSE poll[x]]

Dispose(D, ok) ==
    /\ terminals' = MapWithout(D)
    /\ pollers' = [p \in Ports |-> IF p \in D THEN None ELSE pollers[p]]
    /\ poll' = PollsWithout(D)
    /\ SyncManaged(MapWithout(D), ok)

Stop(D) == stopping' = stopping \cup {t \in terminals : portOf[t] \in D}
-----------------------------------------------------------------------------
(* reconnectToExistingTerminals.                                           *)

\* Its sync: the ports that have no server yet are to be added, each after its stored
\* PSK has been awaited.
ReconnectCheck ==
    /\ reconnect = "check"
    /\ \E ok \in Checked :
         LET P    == IF ok THEN Mapped(terminals) ELSE {}
             gone == {p \in Ports \ P : kind[p] = "managed"}
             new  == {p \in P : kind[p] = "none"}
         IN  /\ installed' = ok
             /\ kind' = [p \in Ports |-> IF p \in gone THEN "none" ELSE kind[p]]
             /\ toAdd' = new
             /\ reconnect' = IF new = {} THEN "loop" ELSE "add"
    /\ UNCHANGED <<config, loads, reserved, terminalVars, pollVars, added, visited>>

\* The stored PSK of p arrives.
ReconnectAdd(p) ==
    /\ reconnect = "add" /\ p \in toAdd \ added
    /\ kind' = [kind EXCEPT ![p] = "managed"]
    /\ added' = added \cup {p}
    /\ reconnect' = IF added' = toAdd THEN "loop" ELSE "add"
    /\ UNCHANGED <<config, loads, reserved, installed, terminalVars, pollVars, toAdd,
                   visited>>

\* The loop comes to the next entry of the map and awaits the server on its port.
\* Cancelling another's poller makes its catch block dispose the port, and with it the
\* poller that has just replaced it.
Unvisited == terminals \ visited

\* Its await is over: the loop goes on before the extension host turns to anything else.
GoesOn == reconnect = "loop" /\ poll[Loop] = None

ReconnectNext ==
    /\ GoesOn
    /\ \E t \in Unvisited :
         LET p == portOf[t]
         IN  /\ visited' = visited \cup {t}
             /\ IF pollers[p] = None
                THEN /\ poll' = [poll EXCEPT ![Loop] = p]
                     /\ pollers' = [pollers EXCEPT ![p] = Loop]
                     /\ UNCHANGED <<kind, installed, stopping, terminals>>
                ELSE \E ok \in Checked : Dispose({p}, ok) /\ Stop({p})
    /\ UNCHANGED <<config, loads, reserved, window, older, portOf, reconnect, toAdd, added>>

ReconnectEnd ==
    /\ GoesOn /\ Unvisited = {}
    /\ reconnect' = "done"
    /\ UNCHANGED <<serverVars, terminalVars, pollVars, toAdd, added, visited>>

-----------------------------------------------------------------------------
(* Commands, events and timers.                                            *)

\* startServer: the terminal is kept, without a server and unpolled, if the port turns
\* out not to be that of a managed server.  A check of the environment that is asked for
\* while reconnecting awaits its own is answered after it.
StartServer(t) ==
    /\ reconnect # "check"
    /\ t \notin window /\ Free # {}
    /\ \E ok \in BOOLEAN :
         IF ~ok
         THEN installed' = FALSE /\ UNCHANGED <<kind, terminalVars, pollVars>>
         ELSE LET p == Lowest(Free) IN
              /\ portOf' = [portOf EXCEPT ![t] = p]
              /\ window' = window \cup {t}
              /\ older' = older \cup (window \X {t})
              /\ terminals' = terminals \cup {t}
              /\ installed' = TRUE
              /\ kind' = KindWith({p} \cup Mapped(terminals))
              /\ IF kind'[p] = "managed"
                 THEN /\ poll' = [poll EXCEPT ![t] = p]
                      /\ pollers' = [pollers EXCEPT ![p] = t]
                 ELSE UNCHANGED pollVars
    /\ UNCHANGED <<config, loads, reserved, stopping, loopVars>>

StopServer(p) ==
    /\ kind[p] = "managed"
    /\ \E ok \in Checked : Dispose({p}, ok) /\ Stop({p})
    /\ UNCHANGED <<config, loads, reserved, window, older, portOf, loopVars>>

\* A terminal closes: the process in it has ended, the user closed it, or it has done
\* what disposeServers told it.
TerminalCloses(t) ==
    /\ t \in window
    /\ window' = window \ {t}
    /\ older' = older \cap (window' \X window')
    /\ stopping' = stopping \ {t}
    /\ portOf' = [portOf EXCEPT ![t] = None]
    /\ visited' = visited \ {t}
    /\ IF t \in terminals
       THEN \E ok \in Checked : Dispose({portOf[t]}, ok)
       ELSE UNCHANGED <<kind, installed, terminals, pollVars>>
    /\ UNCHANGED <<config, loads, reserved, reconnect, toAdd, added>>

\* The poll of x is answered, or fails: its 30 s are over.
PollSucceeds(x) ==
    /\ poll[x] # None
    /\ poll' = [poll EXCEPT ![x] = None]
    /\ pollers' = [pollers EXCEPT ![poll[x]] = None]
    /\ UNCHANGED <<serverVars, terminalVars, loopVars>>

PollFails(x) ==
    /\ poll[x] # None
    /\ \E ok \in Checked : Dispose({poll[x]}, ok) /\ Stop({poll[x]})
    /\ UNCHANGED <<config, loads, reserved, window, older, portOf, loopVars>>

\* ServerManager.loadServerConfig up to its await of updateStatus, with the configured
\* servers on the ports C; then onDidLoadConfig.
LoadConfig(C) ==
    /\ loads < MaxLoads
    /\ loads' = loads + 1
    /\ config' = C
    /\ kind' = [p \in Ports |-> IF p \in C THEN "configured"
                                ELSE IF kind[p] = "managed" THEN "managed" ELSE "none"]
    /\ UNCHANGED <<reserved, installed, terminalVars, pollVars, loopVars>>

ReservedBefore == reserved
Reserved == {p \in Ports : kind[p] # "none"}

ConfigLoaded ==
    /\ loads > 0
    /\ loads' = loads - 1
    /\ reserved' = Reserved
    /\ LET D == {p \in Mapped(terminals) : kind[p] = "configured"}
       IN  IF D # {}
           THEN \E ok \in Checked : Dispose(D, ok) /\ Stop(D)
           ELSE UNCHANGED <<kind, installed, stopping, terminals, pollVars>>
    /\ UNCHANGED <<config, window, older, portOf, loopVars>>

\* maybeUpdateServerStatuses, and onRefreshServerStatus, which asks again.
Sync(ok) ==
    /\ reconnect # "check"
    /\ SyncManaged(terminals, ok)
    /\ UNCHANGED <<config, loads, reserved, terminalVars, pollVars, loopVars>>

\* The extension host stops, with time to call dispose or without, and another one
\* finds the terminals by name: of two with the same port, the later.
RediscoverFirst ==
    {t \in window : \A u \in window : portOf[u] = portOf[t] => <<u, t>> \notin older}
Rediscovered ==
    {t \in window : \A u \in window : portOf[u] = portOf[t] => <<t, u>> \notin older}

Restart(C, disposed) ==
    /\ window # {}
    /\ config' = C
    /\ kind' = [p \in Ports |-> IF p \in C THEN "configured" ELSE "none"]
    /\ loads' = 1 /\ reserved' = {} /\ installed' = FALSE
    /\ stopping' = stopping \cup IF disposed THEN terminals ELSE {}
    /\ terminals' = Rediscovered
    /\ pollers' = [p \in Ports |-> None]
    /\ poll' = [x \in Callers |-> None]
    /\ reconnect' = "check" /\ toAdd' = {} /\ added' = {} /\ visited' = {}
    /\ UNCHANGED <<window, older, portOf>>

-----------------------------------------------------------------------------
Event ==
    \/ ReconnectCheck
    \/ \E p \in Ports : ReconnectAdd(p) \/ StopServer(p)
    \/ \E t \in Terms : StartServer(t) \/ TerminalCloses(t)
    \/ \E x \in Callers : PollSucceeds(x) \/ PollFails(x)
    \/ \E C \in SUBSET Ports : LoadConfig(C)
    \/ ConfigLoaded
    \/ \E ok \in BOOLEAN : Sync(ok)
    \/ \E C \in SUBSET Ports, d \in BOOLEAN : Restart(C, d)

Next == ReconnectNext \/ ReconnectEnd \/ (~GoesOn /\ Event)

Spec == Init /\ [][Next]_vars

\* A load of the configuration ends when the status requests it sends have been
\* answered or have failed; its event waits in a queue while the loop goes on.
Fairness ==
    /\ WF_vars(ReconnectNext) /\ WF_vars(ReconnectEnd)
    /\ SF_vars(~GoesOn /\ ConfigLoaded)

FairSpec == Spec /\ Fairness

-----------------------------------------------------------------------------
(* Properties.                                                             *)

\* _pollers holds exactly the polls that someone awaits (pollUntilServerStarts deletes
\* by port, whoever's entry that is), and each is for a port with a terminal of ours:
\* no poll outlives its server.
PollersAreAwaited ==
    /\ \A p \in Ports, x \in Callers : pollers[p] = x <=> poll[x] = p
    /\ \A x \in Callers : poll[x] # None => poll[x] \in Mapped(terminals)
    /\ \A t \in Terms : poll[t] # None => portOf[t] = poll[t] /\ t \in terminals

\* Reconnecting exists "to avoid the orphans": a terminal that has not been told to stop
\* is in _serverUrlTerminalMap, also after the extension host was replaced, so that it
\* can be stopped; and there is one for each port.  No poll outlives its server either.
NoOrphans ==
    /\ PollersAreAwaited
    /\ window \ stopping \subseteq terminals
    /\ \A t, u \in terminals : portOf[t] = portOf[u] => t = u

\* A managed server has a terminal, or else it is one that reconnecting had found to be
\* missing before it awaited the stored PSKs: the terminal may be gone by the time it
\* adds the server.
ManagedHaveTerminals ==
    \A p \in Ports : kind[p] = "managed" => p \in Mapped(terminals) \cup toAdd

\* A server of the configuration is a configured one whatever pip servers come and go,
\* unless reconnecting had found it to be missing before it was configured.
ConfigurationWins ==
    \A p \in config : kind[p] = "configured" \/ p \in toAdd

\* A port whose configuration is loaded while a pip server has it, or is given one in
\* the time until the event, becomes free: the terminal is told to stop.
ConfiguredPortsAreFreed ==
    \A p \in Ports :
        kind[p] = "configured" /\ p \in Mapped(terminals)
            ~> kind[p] # "configured" \/ p \notin Mapped(terminals)

\* "If there's already a poller for this port, cancel it": replacing a poller is to end
\* the poll, not the server that is starting.
ReconnectSparesServers == [][ReconnectNext => stopping' = stopping]_vars
=============================================================================
