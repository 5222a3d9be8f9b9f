-------------------------- MODULE PipServersProofs --------------------------
(***************************************************************************)
(* Theorems about PipServers, for any ports and terminals.                 *)
(***************************************************************************)
EXTENDS PipServers, FiniteSetTheorems, WellFoundedInduction, TLAPS

\* Every terminal of ours has a port in its name; one that is not told to stop is in the map, which
\* has one for each port, and of several with the same port the latest.
TerminalsAreMapped ==
    /\ \A t \in window : portOf[t] \in Ports
    /\ window \ stopping \subseteq terminals
    /\ \A t, u \in terminals : portOf[t] = portOf[u] => t = u
    /\ \A t, u \in window : t # u => <<t, u>> \in older \/ <<u, t>> \in older
    /\ \A t \in terminals, u \in window : portOf[t] = portOf[u] => <<t, u>> \notin older

ServersFollow ==
    /\ ManagedHaveTerminals
    /\ ConfigurationWins
    /\ reconnect = "check" => toAdd = {}

IInv == TypeOK /\ TerminalsAreMapped /\ PollersAreAwaited /\ ServersFollow

-----------------------------------------------------------------------------
(* Ports and kinds                                                         *)

\* A set of ports that is not empty has a lowest one: the intervals from 0 to its members are
\* finite, and one of them contains no other.
LEMMA LowestIsThere ==
    ASSUME NEW P \in SUBSET Nat, P # {}
    PROVE  Lowest(P) \in P /\ \A q \in P : Lowest(P) <= q
<1> DEFINE T == {0..p : p \in P}
<1>1. IsWellFoundedOn(StrictSubsetOrdering(Nat), FiniteSubsetsOf(Nat))
  BY FS_StrictSubsetOrderingWellFounded
<1>2. \A p \in P : 0..p \in FiniteSubsetsOf(Nat)
  <2> SUFFICES ASSUME NEW p \in P PROVE 0..p \in FiniteSubsetsOf(Nat)
    OBVIOUS
  <2>1. IsFiniteSet(0..p)
    BY FS_Interval
  <2>2. 0..p \in SUBSET Nat
    OBVIOUS
  <2> QED BY <2>1, <2>2 DEF FiniteSubsetsOf
<1>3. T \subseteq FiniteSubsetsOf(Nat) /\ T # {}
  BY <1>2
<1>4. PICK I \in T : \A J \in T : ~ (<<J, I>> \in StrictSubsetOrdering(Nat))
  <2> HIDE DEF T
  <2> QED BY <1>1, <1>3, WFMin
<1>5. PICK p \in P : I = 0..p
  BY <1>4
<1>6. ASSUME NEW q \in P PROVE p <= q
  <2>1. ~ (<<0..q, 0..p>> \in StrictSubsetOrdering(Nat))
    BY <1>4, <1>5
  <2>2. 0..q \in SUBSET Nat /\ 0..p \in SUBSET Nat
    OBVIOUS
  <2>3. ~(0..q \subseteq 0..p /\ 0..q # 0..p)
    BY <2>1, <2>2 DEF StrictSubsetOrdering
  <2>4. CASE q < p
    <3>1. p \in 0..p /\ p \notin 0..q /\ 0..q \subseteq 0..p
      BY <2>4
    <3> QED BY <3>1, <2>3
  <2> QED BY <2>4
<1> QED BY <1>5, <1>6 DEF Lowest

\* ServerManager.syncManagedServers makes servers managed for its ports only, and never touches a
\* configured one.
LEMMA KindEffect ==
    ASSUME TypeOK, NEW P, kind' = KindWith(P)
    PROVE  /\ kind' \in [Ports -> {"none", "configured", "managed"}]
           /\ \A p \in Ports : /\ kind'[p] = "managed" => p \in P
                               /\ kind[p] = "configured" => kind'[p] = "configured"
BY DEF TypeOK, KindWith

\* Whatever the answer about the environment, syncing leaves managed servers for mapped ports only.
LEMMA SyncEffect ==
    ASSUME TypeOK, NEW map, NEW ok \in BOOLEAN, SyncManaged(map, ok)
    PROVE  /\ installed' \in BOOLEAN
           /\ kind' \in [Ports -> {"none", "configured", "managed"}]
           /\ \A p \in Ports : /\ kind'[p] = "managed" => p \in Mapped(map)
                               /\ kind[p] = "configured" => kind'[p] = "configured"
<1>1. CASE ok
  BY <1>1, KindEffect DEF SyncManaged
<1>2. CASE ~ok
  BY <1>2, KindEffect DEF SyncManaged
<1> QED BY <1>1, <1>2

-----------------------------------------------------------------------------
(* disposeServers                                                          *)

\* What disposeServers comes to for the ports D: their terminals and polls go, the others stay, and
\* managed servers are left for mapped ports only.
Gone(D) ==
    /\ terminals' = {t \in terminals : portOf[t] \notin D}
    /\ installed' \in BOOLEAN
    /\ kind' \in [Ports -> {"none", "configured", "managed"}]
    /\ \A p \in Ports : /\ kind'[p] = "managed" => \E t \in terminals' : portOf[t] = p
                        /\ kind[p] = "configured" => kind'[p] = "configured"
    /\ pollers' \in [Ports -> Callers \cup {None}]
    /\ poll' \in [Callers -> Ports \cup {None}]
    /\ \A p \in Ports, x \in Callers : pollers'[p] = x <=> poll'[x] = p
    /\ \A x \in Callers : poll'[x] # None =>
           poll'[x] = poll[x] /\ \E t \in terminals' : portOf[t] = poll[x]
    /\ \A t \in Terms : poll'[t] # None => portOf[t] = poll'[t] /\ t \in terminals'

LEMMA DisposeEffect ==
    ASSUME IInv, NEW D \in SUBSET Ports, NEW ok \in BOOLEAN, Dispose(D, ok)
    PROVE  Gone(D)
<1> USE DEF IInv
<1>1. /\ terminals' = {t \in terminals : portOf[t] \notin D}
      /\ pollers' = [p \in Ports |-> IF p \in D THEN None ELSE pollers[p]]
      /\ poll' = [x \in Callers |-> IF poll[x] \in D THEN None ELSE poll[x]]
      /\ SyncManaged(terminals', ok)
  BY DEF Dispose, MapWithout, PollsWithout
<1>2. /\ installed' \in BOOLEAN
      /\ kind' \in [Ports -> {"none", "configured", "managed"}]
      /\ \A p \in Ports : /\ kind'[p] = "managed" => p \in Mapped(terminals')
                          /\ kind[p] = "configured" => kind'[p] = "configured"
  BY <1>1, SyncEffect
<1>3. /\ pollers' \in [Ports -> Callers \cup {None}]
      /\ poll' \in [Callers -> Ports \cup {None}]
  BY <1>1 DEF TypeOK
<1>4. \A x \in Callers : poll'[x] # None => poll'[x] = poll[x] /\ poll[x] \notin D
  BY <1>1
<1>5. \A p \in Ports, x \in Callers : pollers'[p] = x <=> poll'[x] = p
  <2> SUFFICES ASSUME NEW p \in Ports, NEW x \in Callers PROVE pollers'[p] = x <=> poll'[x] = p
    OBVIOUS
  <2>1. x # None /\ p # None
    BY PipAssumption DEF Callers
  <2>2. pollers[p] = x <=> poll[x] = p
    BY DEF PollersAreAwaited
  <2> QED BY <1>1, <2>1, <2>2
<1>6. \A x \in Callers : poll[x] # None => \E t \in terminals : portOf[t] = poll[x]
  BY DEF PollersAreAwaited, Mapped
<1>7. \A t \in Terms : poll[t] # None => portOf[t] = poll[t] /\ t \in terminals
  BY DEF PollersAreAwaited
<1>8. Terms \subseteq Callers
  BY DEF Callers
<1> QED BY <1>1, <1>2, <1>3, <1>4, <1>5, <1>6, <1>7, <1>8 DEF Mapped, Gone

\* Wherever disposeServers tells the terminals to stop, the invariant is kept.
LEMMA DisposeKeeps ==
    ASSUME IInv, NEW D \in SUBSET Ports, NEW ok \in BOOLEAN, Dispose(D, ok), Stop(D),
           window' = window, older' = older, portOf' = portOf, config' = config,
           loads' \in 0..MaxLoads, reserved' \subseteq Ports,
           reconnect' = reconnect, toAdd' = toAdd, added' = added, visited' \subseteq Terms
    PROVE  IInv'
<1> USE DEF IInv
<1>0. Gone(D)
  BY DisposeEffect
<1>1. /\ stopping' = stopping \cup {t \in terminals : portOf[t] \in D}
      /\ terminals' = {t \in terminals : portOf[t] \notin D}
  BY <1>0 DEF Stop, Gone
<1>2. TypeOK'
  BY <1>0, <1>1 DEF TypeOK, Gone
<1>3. TerminalsAreMapped'
  BY <1>1 DEF TerminalsAreMapped, TypeOK
<1>4. PollersAreAwaited'
  BY <1>0 DEF PollersAreAwaited, Mapped, Gone
<1>5. ServersFollow'
  <2>1. ManagedHaveTerminals'
    BY <1>0 DEF ManagedHaveTerminals, Mapped, Gone
  <2>2. ConfigurationWins'
    BY <1>0 DEF ConfigurationWins, ServersFollow, TypeOK, Gone
  <2> QED BY <2>1, <2>2 DEF ServersFollow
<1> QED BY <1>2, <1>3, <1>4, <1>5

\* The steps that end with disposeServers and Stop.
LEMMA StoppingKeeps ==
    IInv => /\ ReconnectNext => IInv'
            /\ \A p \in Ports : StopServer(p) => IInv'
            /\ \A x \in Callers : PollFails(x) => IInv'
            /\ ConfigLoaded => IInv'
<1> SUFFICES ASSUME IInv PROVE /\ ReconnectNext => IInv'
                               /\ \A p \in Ports : StopServer(p) => IInv'
                               /\ \A x \in Callers : PollFails(x) => IInv'
                               /\ ConfigLoaded => IInv'
  OBVIOUS
<1>0. /\ config \subseteq Ports /\ loads \in 0..MaxLoads /\ reserved \subseteq Ports
      /\ visited \subseteq Terms /\ terminals \subseteq Terms
      /\ poll \in [Callers -> Ports \cup {None}]
      /\ MaxLoads \in Nat
  BY PipAssumption DEF IInv, TypeOK
<1>1. ASSUME ReconnectNext PROVE IInv'
  <2>1. PICK t \in Unvisited :
          /\ visited' = visited \cup {t}
          /\ IF pollers[portOf[t]] = None
             THEN /\ poll' = [poll EXCEPT ![Loop] = portOf[t]]
                  /\ pollers' = [pollers EXCEPT ![portOf[t]] = Loop]
                  /\ UNCHANGED <<kind, installed, stopping, terminals>>
             ELSE \E ok \in Checked : Dispose({portOf[t]}, ok) /\ Stop({portOf[t]})
    BY <1>1 DEF ReconnectNext
  <2> DEFINE p == portOf[t]
  <2>2. UNCHANGED <<config, loads, reserved, window, older, portOf, reconnect, toAdd, added>>
        /\ poll[Loop] = None
    BY <1>1 DEF ReconnectNext, GoesOn
  <2>3. t \in terminals /\ p \in Ports /\ visited' \subseteq Terms
    BY <1>0, <2>1 DEF Unvisited, IInv, TypeOK, TerminalsAreMapped
  <2>4. CASE pollers[p] = None
    <3>1. /\ poll' = [poll EXCEPT ![Loop] = p]
          /\ pollers' = [pollers EXCEPT ![p] = Loop]
          /\ UNCHANGED <<kind, installed, stopping, terminals>>
      BY <2>1, <2>4
    <3>2. TypeOK'
      BY <2>2, <2>3, <3>1 DEF IInv, TypeOK, Callers
    <3>3. TerminalsAreMapped'
      BY <2>2, <3>1 DEF IInv, TerminalsAreMapped
    <3>4. \A q \in Ports, x \in Callers : pollers'[q] = x <=> poll'[x] = q
      <4> SUFFICES ASSUME NEW q \in Ports, NEW x \in Callers PROVE pollers'[q] = x <=> poll'[x] = q
        OBVIOUS
      <4>1. x # None /\ q # None /\ Loop \in Callers
        BY PipAssumption DEF Callers
      <4>2. (pollers[q] = x <=> poll[x] = q) /\ (pollers[q] = Loop <=> poll[Loop] = q)
        BY <4>1 DEF IInv, PollersAreAwaited
      <4>3. pollers'[q] = IF q = p THEN Loop ELSE pollers[q]
        BY <2>3, <3>1 DEF IInv, TypeOK
      <4>4. poll'[x] = IF x = Loop THEN p ELSE poll[x]
        BY <1>0, <3>1
      <4> QED BY <2>2, <2>4, <4>1, <4>2, <4>3, <4>4
    <3>5. \A x \in Callers : poll'[x] # None => \E u \in terminals' : portOf'[u] = poll'[x]
      <4>1. \A x \in Callers : poll[x] # None => \E u \in terminals : portOf[u] = poll[x]
        BY DEF IInv, PollersAreAwaited, Mapped
      <4>2. \A x \in Callers : poll'[x] = poll[x] \/ poll'[x] = portOf[t]
        BY <1>0, <3>1
      <4>3. terminals' = terminals /\ portOf' = portOf
        BY <2>2, <3>1
      <4> QED BY <2>3, <4>1, <4>2, <4>3
    <3>6. \A u \in Terms : poll'[u] # None => portOf'[u] = poll'[u] /\ u \in terminals'
      <4>1. \A u \in Terms : poll'[u] = poll[u]
        BY <1>0, <3>1, PipAssumption DEF Callers
      <4> QED BY <2>2, <3>1, <4>1 DEF IInv, PollersAreAwaited
    <3>7. PollersAreAwaited'
      BY <3>4, <3>5, <3>6 DEF PollersAreAwaited, Mapped
    <3>8. ServersFollow'
      BY <2>2, <3>1 DEF IInv, ServersFollow, ManagedHaveTerminals, ConfigurationWins, Mapped
    <3> QED BY <3>2, <3>3, <3>7, <3>8 DEF IInv
  <2>5. CASE pollers[p] # None
    <3>1. PICK ok \in BOOLEAN : Dispose({p}, ok) /\ Stop({p})
      BY <2>1, <2>5 DEF Checked
    <3> QED BY <1>0, <2>2, <2>3, <3>1, DisposeKeeps
  <2> QED BY <2>4, <2>5
<1>2. ASSUME NEW p \in Ports, StopServer(p) PROVE IInv'
  <2>1. PICK ok \in BOOLEAN : Dispose({p}, ok) /\ Stop({p})
    BY <1>2 DEF StopServer, Checked
  <2>2. UNCHANGED <<config, loads, reserved, window, older, portOf, reconnect, toAdd, added, visited>>
    BY <1>2 DEF StopServer, loopVars
  <2> QED BY <1>0, <2>1, <2>2, DisposeKeeps
<1>3. ASSUME NEW x \in Callers, PollFails(x) PROVE IInv'
  <2>1. PICK ok \in BOOLEAN : Dispose({poll[x]}, ok) /\ Stop({poll[x]})
    BY <1>3 DEF PollFails, Checked
  <2>2. UNCHANGED <<config, loads, reserved, window, older, portOf, reconnect, toAdd, added, visited>>
    BY <1>3 DEF PollFails, loopVars
  <2>3. {poll[x]} \in SUBSET Ports
    BY <1>0, <1>3 DEF PollFails
  <2> QED BY <1>0, <2>1, <2>2, <2>3, DisposeKeeps
<1>4. ASSUME ConfigLoaded PROVE IInv'
  <2>1. UNCHANGED <<config, window, older, portOf, reconnect, toAdd, added, visited>>
    BY <1>4 DEF ConfigLoaded, loopVars
  <2>2. loads' \in 0..MaxLoads /\ reserved' \subseteq Ports
    BY <1>0, <1>4 DEF ConfigLoaded, Reserved
  <2> DEFINE D == {p \in Mapped(terminals) : kind[p] = "configured"}
  <2>3. D \in SUBSET Ports
    BY DEF Mapped, IInv, TypeOK, TerminalsAreMapped
  <2>4. CASE D # {}
    <3>1. PICK ok \in BOOLEAN : Dispose(D, ok) /\ Stop(D)
      BY <1>4, <2>4 DEF ConfigLoaded, Checked
    <3> HIDE DEF D
    <3> QED BY <1>0, <2>1, <2>2, <2>3, <3>1, DisposeKeeps
  <2>5. CASE D = {}
    <3>1. UNCHANGED <<kind, installed, stopping, terminals, pollVars>>
      BY <1>4, <2>5 DEF ConfigLoaded
    <3>2. TypeOK'
      BY <2>1, <2>2, <3>1 DEF IInv, TypeOK, pollVars
    <3>3. TerminalsAreMapped' /\ PollersAreAwaited'
      BY <2>1, <3>1 DEF IInv, TerminalsAreMapped, PollersAreAwaited, Mapped, pollVars
    <3>4. ServersFollow'
      BY <2>1, <3>1 DEF IInv, ServersFollow, ManagedHaveTerminals, ConfigurationWins, Mapped
    <3> QED BY <3>2, <3>3, <3>4 DEF IInv
  <2> QED BY <2>4, <2>5
<1> QED BY <1>1, <1>2, <1>3, <1>4

-----------------------------------------------------------------------------
(* The other steps                                                         *)

\* The loop's sync and what it adds later: a server is managed because it is mapped, or because
\* it was to be added.
LEMMA ReconnectKeeps ==
    IInv => /\ ReconnectCheck => IInv'
            /\ \A p \in Ports : ReconnectAdd(p) => IInv'
            /\ ReconnectEnd => IInv'
<1> SUFFICES ASSUME IInv PROVE /\ ReconnectCheck => IInv'
                               /\ \A p \in Ports : ReconnectAdd(p) => IInv'
                               /\ ReconnectEnd => IInv'
  OBVIOUS
<1> USE DEF IInv, pollVars, terminalVars
<1>1. ASSUME ReconnectCheck PROVE IInv'
  <2>1. PICK ok \in BOOLEAN, P \in SUBSET Mapped(terminals) :
          /\ installed' = ok
          /\ kind' = [p \in Ports |-> IF p \in {q \in Ports \ P : kind[q] = "managed"}
                                      THEN "none" ELSE kind[p]]
          /\ toAdd' = {p \in P : kind[p] = "none"}
          /\ reconnect' \in {"loop", "add"}
    BY <1>1 DEF ReconnectCheck, Checked
  <2>2. /\ reconnect = "check" /\ toAdd = {}
        /\ UNCHANGED <<config, loads, reserved, terminalVars, pollVars, added, visited>>
    BY <1>1 DEF ReconnectCheck, ServersFollow
  <2>3. Mapped(terminals) \subseteq Ports
    BY DEF TerminalsAreMapped, TypeOK, Mapped
  <2>4. TypeOK'
    BY <2>1, <2>2, <2>3 DEF TypeOK
  <2>5. TerminalsAreMapped' /\ PollersAreAwaited'
    BY <2>2 DEF TerminalsAreMapped, PollersAreAwaited, Mapped
  <2>6. ManagedHaveTerminals'
    BY <2>1, <2>2 DEF ManagedHaveTerminals, Mapped
  <2>7. ConfigurationWins'
    BY <2>1, <2>2 DEF ConfigurationWins, ServersFollow, TypeOK
  <2> QED BY <2>1, <2>4, <2>5, <2>6, <2>7 DEF ServersFollow
<1>2. ASSUME NEW p \in Ports, ReconnectAdd(p) PROVE IInv'
  <2>1. /\ p \in toAdd /\ kind' = [kind EXCEPT ![p] = "managed"]
        /\ added' = added \cup {p} /\ reconnect' \in {"loop", "add"}
        /\ UNCHANGED <<config, loads, reserved, installed, terminalVars, pollVars, toAdd, visited>>
    BY <1>2 DEF ReconnectAdd
  <2>2. TypeOK'
    BY <2>1 DEF TypeOK
  <2>3. TerminalsAreMapped' /\ PollersAreAwaited'
    BY <2>1 DEF TerminalsAreMapped, PollersAreAwaited, Mapped
  <2>4. ServersFollow'
    BY <2>1 DEF ServersFollow, ManagedHaveTerminals, ConfigurationWins, Mapped, TypeOK
  <2> QED BY <2>2, <2>3, <2>4
<1>3. ASSUME ReconnectEnd PROVE IInv'
  <2>1. reconnect' = "done" /\ UNCHANGED <<serverVars, terminalVars, pollVars, toAdd, added, visited>>
    BY <1>3 DEF ReconnectEnd
  <2> USE <2>1 DEF serverVars
  <2>2. TypeOK' /\ TerminalsAreMapped'
    BY DEF TypeOK, TerminalsAreMapped
  <2>3. PollersAreAwaited' /\ ServersFollow'
    BY DEF PollersAreAwaited, Mapped, ServersFollow, ManagedHaveTerminals, ConfigurationWins
  <2> QED BY <2>2, <2>3
<1> QED BY <1>1, <1>2, <1>3

\* A terminal is created on a port that no terminal of the map has.
LEMMA StartServerKeeps == IInv => \A t \in Terms : StartServer(t) => IInv'
<1> SUFFICES ASSUME IInv, NEW t \in Terms, StartServer(t) PROVE IInv'
  OBVIOUS
<1> USE DEF IInv
<1>1. /\ t \notin window /\ Free # {}
      /\ UNCHANGED <<config, loads, reserved, stopping, reconnect, toAdd, added, visited>>
  BY DEF StartServer, loopVars
<1>2. CASE installed' = FALSE /\ UNCHANGED <<kind, terminalVars, pollVars>>
  <2> USE <1>1, <1>2 DEF terminalVars, pollVars
  <2>1. TypeOK' /\ TerminalsAreMapped'
    BY DEF TypeOK, TerminalsAreMapped
  <2>2. PollersAreAwaited' /\ ServersFollow'
    BY DEF PollersAreAwaited, Mapped, ServersFollow, ManagedHaveTerminals, ConfigurationWins
  <2> QED BY <2>1, <2>2
<1>3. CASE ~(installed' = FALSE /\ UNCHANGED <<kind, terminalVars, pollVars>>)
  <2> DEFINE p == Lowest(Free)
  <2>1. /\ portOf' = [portOf EXCEPT ![t] = p]
        /\ window' = window \cup {t} /\ older' = older \cup (window \X {t})
        /\ terminals' = terminals \cup {t}
        /\ installed' = TRUE
        /\ kind' = KindWith({p} \cup Mapped(terminals))
        /\ \/ /\ poll' = [poll EXCEPT ![t] = p]
              /\ pollers' = [pollers EXCEPT ![p] = t]
           \/ UNCHANGED <<pollers, poll>>
    BY <1>3 DEF StartServer, pollVars
  <2>2. p \in Ports /\ p \notin Mapped(terminals)
    <3>1. Free \in SUBSET Nat
      BY PipAssumption DEF Free
    <3>2. p \in Free
      BY <1>1, <3>1, LowestIsThere
    <3> QED BY <3>2 DEF Free
  <2> HIDE DEF p
  <2>3. /\ kind' \in [Ports -> {"none", "configured", "managed"}]
        /\ \A q \in Ports : /\ kind'[q] = "managed" => q \in {p} \cup Mapped(terminals)
                            /\ kind[q] = "configured" => kind'[q] = "configured"
    BY <2>1, KindEffect
  <2>4. /\ portOf'[t] = p /\ portOf' \in [Terms -> Ports \cup {None}]
        /\ \A u \in Terms \ {t} : portOf'[u] = portOf[u]
    BY <2>1, <2>2 DEF TypeOK
  <2>5. terminals \subseteq Terms \ {t} /\ window \subseteq Terms \ {t}
    BY <1>1 DEF TypeOK
  <2>6. TypeOK'
    <3>1. older' \subseteq window' \X window'
      BY <2>1 DEF TypeOK
    <3>2. /\ window' \subseteq Terms /\ stopping' \subseteq window' /\ terminals' \subseteq window'
          /\ config' \subseteq Ports /\ reserved' \subseteq Ports /\ loads' \in 0..MaxLoads
          /\ reconnect' \in {"check", "add", "loop", "done"}
          /\ toAdd' \subseteq Ports /\ added' \subseteq toAdd' /\ visited' \subseteq Terms
          /\ installed' \in BOOLEAN
      BY <1>1, <2>1 DEF TypeOK
    <3>3. /\ pollers' \in [Ports -> Callers \cup {None}]
          /\ poll' \in [Callers -> Ports \cup {None}]
      BY <2>1, <2>2 DEF TypeOK, Callers
    <3> QED BY <2>3, <2>4, <3>1, <3>2, <3>3 DEF TypeOK
  <2>7. TerminalsAreMapped'
    <3>1. \A u \in window' : portOf'[u] \in Ports
      BY <2>1, <2>2, <2>4, <2>5 DEF TerminalsAreMapped
    <3>2. window' \ stopping' \subseteq terminals'
      BY <1>1, <2>1 DEF TerminalsAreMapped
    <3>3. \A u \in terminals : portOf[u] # p
      BY <2>2 DEF Mapped
    <3>4. \A u, v \in terminals' : portOf'[u] = portOf'[v] => u = v
      BY <2>1, <2>4, <2>5, <3>3 DEF TerminalsAreMapped
    <3>5. \A u, v \in window' : u # v => <<u, v>> \in older' \/ <<v, u>> \in older'
      BY <2>1 DEF TerminalsAreMapped
    <3>6. \A u, v \in window' : <<u, v>> \in older' => <<u, v>> \in older \/ (v = t /\ u \in window)
      <4> SUFFICES ASSUME NEW u \in window', NEW v \in window', <<u, v>> \in older', <<u, v>> \notin older
                   PROVE  v = t /\ u \in window
        OBVIOUS
      <4>1. older' = older \cup (window \X {t})
        BY <2>1
      <4>2. <<u, v>> \in window \X {t}
        BY <4>1
      <4> QED BY <4>2
    <3>7. \A u, v : <<u, v>> \in older => u \in window /\ v \in window
      BY DEF TypeOK
    <3>8. \A u \in terminals', v \in window' : portOf'[u] = portOf'[v] => <<u, v>> \notin older'
      BY <1>1, <2>1, <2>4, <2>5, <3>3, <3>6, <3>7 DEF TerminalsAreMapped
    <3> QED BY <3>1, <3>2, <3>4, <3>5, <3>8 DEF TerminalsAreMapped
  <2>8. PollersAreAwaited'
    <3>1. poll[t] = None /\ t \in Callers
      BY <1>1 DEF PollersAreAwaited, TypeOK, Callers
    <3>2. \A q \in Ports, x \in Callers : pollers'[q] = x <=> poll'[x] = q
      <4> SUFFICES ASSUME NEW q \in Ports, NEW x \in Callers PROVE pollers'[q] = x <=> poll'[x] = q
        OBVIOUS
      <4>1. x # None /\ q # None
        BY PipAssumption DEF Callers
      <4>2. (pollers[q] = x <=> poll[x] = q) /\ (pollers[q] = t <=> poll[t] = q)
        BY <3>1 DEF PollersAreAwaited
      <4>3. \A y \in Callers : poll[y] # p
        BY <2>2, PipAssumption DEF PollersAreAwaited
      <4>4. CASE UNCHANGED <<pollers, poll>>
        BY <4>2, <4>4
      <4>5. CASE poll' = [poll EXCEPT ![t] = p] /\ pollers' = [pollers EXCEPT ![p] = t]
        <5>1. pollers'[q] = IF q = p THEN t ELSE pollers[q]
          BY <4>5 DEF TypeOK
        <5>2. poll'[x] = IF x = t THEN p ELSE poll[x]
          BY <4>5 DEF TypeOK
        <5> QED BY <3>1, <4>1, <4>2, <4>3, <5>1, <5>2
      <4> QED BY <2>1, <4>4, <4>5
    <3>3. \A x \in Callers : poll'[x] # None => poll'[x] = poll[x] \/ (x = t /\ poll'[x] = p)
      <4>1. poll \in [Callers -> Ports \cup {None}]
        BY DEF TypeOK
      <4>2. poll' = [poll EXCEPT ![t] = p] \/ poll' = poll
        BY <2>1
      <4> QED BY <4>1, <4>2
    <3>4. \A x \in Callers : poll[x] # None => \E u \in terminals : portOf'[u] = poll[x]
      BY <2>4, <2>5 DEF PollersAreAwaited, Mapped
    <3>5. \A x \in Callers : poll'[x] # None => \E u \in terminals' : portOf'[u] = poll'[x]
      BY <2>1, <2>4, <3>3, <3>4
    <3>6. \A u \in Terms : poll'[u] # None => portOf'[u] = poll'[u] /\ u \in terminals'
      <4>1. \A u \in Terms : u \in Callers /\ (poll[u] # None => portOf[u] = poll[u] /\ u \in terminals)
        BY DEF PollersAreAwaited, Callers
      <4> QED BY <2>1, <2>4, <2>5, <3>1, <3>3, <4>1
    <3> QED BY <3>2, <3>5, <3>6 DEF PollersAreAwaited, Mapped
  <2>9. ServersFollow'
    <3>1. \A q \in {p} \cup Mapped(terminals) : \E u \in terminals' : portOf'[u] = q
      <4>1. \A u \in terminals : u \in terminals' /\ portOf'[u] = portOf[u]
        BY <2>1, <2>4, <2>5
      <4>2. t \in terminals' /\ portOf'[t] = p
        BY <2>1, <2>4
      <4>3. \A q \in Mapped(terminals) : \E u \in terminals : portOf[u] = q
        BY DEF Mapped
      <4> QED BY <4>1, <4>2, <4>3
    <3>2. ManagedHaveTerminals'
      <4>1. \A q \in Ports : kind'[q] = "managed" => \E u \in terminals' : portOf'[u] = q
        BY <2>3, <3>1
      <4> QED BY <4>1 DEF ManagedHaveTerminals, Mapped
    <3>3. ConfigurationWins'
      BY <1>1, <2>3 DEF ConfigurationWins, ServersFollow, TypeOK
    <3> QED BY <1>1, <3>2, <3>3 DEF ServersFollow
  <2> QED BY <2>6, <2>7, <2>8, <2>9
<1> QED BY <1>2, <1>3

\* A terminal closes, and its port is disposed if it was mapped.
LEMMA TerminalClosesKeeps == IInv => \A t \in Terms : TerminalCloses(t) => IInv'
<1> SUFFICES ASSUME IInv, NEW t \in Terms, TerminalCloses(t) PROVE IInv'
  OBVIOUS
<1> USE DEF IInv
<1>1. /\ t \in window /\ window' = window \ {t} /\ stopping' = stopping \ {t}
      /\ older' = older \cap (window' \X window')
      /\ portOf' = [portOf EXCEPT ![t] = None]
      /\ visited' = visited \ {t}
      /\ UNCHANGED <<config, loads, reserved, reconnect, toAdd, added>>
  BY DEF TerminalCloses
<1>2. /\ portOf' \in [Terms -> Ports \cup {None}]
      /\ \A u \in Terms \ {t} : portOf'[u] = portOf[u]
  BY <1>1 DEF TypeOK
\* Closing takes t, and nothing else, from the map: its port is in no other terminal's name.
<1>3. /\ terminals' = terminals \ {t}
      /\ installed' \in BOOLEAN
      /\ kind' \in [Ports -> {"none", "configured", "managed"}]
      /\ \A p \in Ports : /\ kind'[p] = "managed" => (\E u \in terminals' : portOf[u] = p) \/ p \in toAdd
                          /\ kind[p] = "configured" => kind'[p] = "configured"
      /\ pollers' \in [Ports -> Callers \cup {None}]
      /\ poll' \in [Callers -> Ports \cup {None}]
      /\ \A p \in Ports, x \in Callers : pollers'[p] = x <=> poll'[x] = p
      /\ \A x \in Callers : poll'[x] # None =>
             poll'[x] = poll[x] /\ \E u \in terminals' : portOf[u] = poll[x]
      /\ \A u \in Terms : poll'[u] # None => portOf[u] = poll'[u] /\ u \in terminals'
  <2>1. CASE t \in terminals
    <3>1. PICK ok \in BOOLEAN : Dispose({portOf[t]}, ok)
      BY <2>1 DEF TerminalCloses, Checked
    <3>2. {portOf[t]} \in SUBSET Ports
      BY <1>1 DEF TerminalsAreMapped
    <3>3. Gone({portOf[t]})
      BY <3>1, <3>2, DisposeEffect
    <3>4. {u \in terminals : portOf[u] \notin {portOf[t]}} = terminals \ {t}
      BY <2>1 DEF TerminalsAreMapped
    <3> QED BY <3>3, <3>4 DEF Gone
  <2>2. CASE t \notin terminals
    <3>1. UNCHANGED <<kind, installed, terminals, pollers, poll>>
      BY <2>2 DEF TerminalCloses, pollVars
    <3>2. \A x \in Callers : poll[x] # None => \E u \in terminals : portOf[u] = poll[x]
      BY DEF PollersAreAwaited, Mapped
    <3>3. \A p \in Ports : kind[p] = "managed" => (\E u \in terminals : portOf[u] = p) \/ p \in toAdd
      BY DEF ServersFollow, ManagedHaveTerminals, Mapped
    <3> QED BY <2>2, <3>1, <3>2, <3>3 DEF TypeOK, PollersAreAwaited
  <2> QED BY <2>1, <2>2
<1>4. terminals' \subseteq Terms \ {t} /\ window' \subseteq Terms \ {t}
  BY <1>1, <1>3 DEF TypeOK
<1>5. TypeOK'
  <2>1. older' \subseteq window' \X window'
    BY <1>1
  <2>2. /\ window' \subseteq Terms /\ stopping' \subseteq window' /\ terminals' \subseteq window'
        /\ config' \subseteq Ports /\ reserved' \subseteq Ports /\ loads' \in 0..MaxLoads
        /\ reconnect' \in {"check", "add", "loop", "done"}
        /\ toAdd' \subseteq Ports /\ added' \subseteq toAdd' /\ visited' \subseteq Terms
    BY <1>1, <1>3 DEF TypeOK
  <2> QED BY <1>2, <1>3, <2>1, <2>2 DEF TypeOK
<1>6. TerminalsAreMapped'
  <2>1. \A u \in window' : portOf'[u] \in Ports
    BY <1>1, <1>2, <1>4 DEF TerminalsAreMapped
  <2>2. window' \ stopping' \subseteq terminals'
    BY <1>1, <1>3 DEF TerminalsAreMapped
  <2>3. \A u, v \in terminals' : portOf'[u] = portOf'[v] => u = v
    BY <1>2, <1>3, <1>4 DEF TerminalsAreMapped
  <2>4. \A u, v \in window' : u # v => <<u, v>> \in older' \/ <<v, u>> \in older'
    BY <1>1 DEF TerminalsAreMapped
  <2>5. \A u \in terminals', v \in window' : portOf'[u] = portOf'[v] => <<u, v>> \notin older'
    BY <1>1, <1>2, <1>3, <1>4 DEF TerminalsAreMapped
  <2> QED BY <2>1, <2>2, <2>3, <2>4, <2>5 DEF TerminalsAreMapped
<1>7. \A u \in terminals' : portOf'[u] = portOf[u]
  BY <1>2, <1>4
<1>8. PollersAreAwaited'
  <2>1. \A x \in Callers : poll'[x] # None => \E u \in terminals' : portOf'[u] = poll'[x]
    BY <1>3, <1>7
  <2>2. \A u \in Terms : poll'[u] # None => portOf'[u] = poll'[u] /\ u \in terminals'
    BY <1>3, <1>7
  <2> QED BY <1>3, <2>1, <2>2 DEF PollersAreAwaited, Mapped
<1>9. ServersFollow'
  <2>1. \A p \in Ports : kind'[p] = "managed" => (\E u \in terminals' : portOf'[u] = p) \/ p \in toAdd'
    BY <1>1, <1>3, <1>7
  <2>2. ManagedHaveTerminals'
    BY <2>1 DEF ManagedHaveTerminals, Mapped
  <2>3. ConfigurationWins'
    BY <1>1, <1>3 DEF ConfigurationWins, ServersFollow, TypeOK
  <2> QED BY <1>1, <2>2, <2>3 DEF ServersFollow
<1> QED BY <1>5, <1>6, <1>8, <1>9

\* A poll is answered, and its poller forgotten.
LEMMA PollSucceedsKeeps == IInv => \A x \in Callers : PollSucceeds(x) => IInv'
<1> SUFFICES ASSUME IInv, NEW x \in Callers, PollSucceeds(x) PROVE IInv'
  OBVIOUS
<1> USE DEF IInv
<1>1. /\ poll[x] # None /\ poll' = [poll EXCEPT ![x] = None]
      /\ pollers' = [pollers EXCEPT ![poll[x]] = None]
      /\ UNCHANGED <<serverVars, terminalVars, loopVars>>
  BY DEF PollSucceeds
<1>2. poll[x] \in Ports
  BY <1>1 DEF TypeOK
<1> USE DEF serverVars, terminalVars, loopVars
<1>3. TypeOK'
  BY <1>1, <1>2 DEF TypeOK
<1>4. TerminalsAreMapped' /\ ServersFollow'
  BY <1>1 DEF TerminalsAreMapped, ServersFollow, ManagedHaveTerminals, ConfigurationWins, Mapped
<1>5. \A p \in Ports, y \in Callers : pollers'[p] = y <=> poll'[y] = p
  <2> SUFFICES ASSUME NEW p \in Ports, NEW y \in Callers PROVE pollers'[p] = y <=> poll'[y] = p
    OBVIOUS
  <2>1. y # None /\ p # None
    BY PipAssumption DEF Callers
  <2>2. (pollers[p] = y <=> poll[y] = p) /\ (pollers[p] = x <=> poll[x] = p)
    BY DEF PollersAreAwaited
  <2>3. /\ pollers'[p] = IF p = poll[x] THEN None ELSE pollers[p]
        /\ poll'[y] = IF y = x THEN None ELSE poll[y]
    BY <1>1, <1>2 DEF TypeOK
  <2> QED BY <2>1, <2>2, <2>3
<1>6. \A y \in Callers : poll'[y] \in {None, poll[y]}
  BY <1>1 DEF TypeOK
<1>7. PollersAreAwaited'
  <2>1. terminals' = terminals /\ portOf' = portOf
    BY <1>1
  <2>2. \A y \in Callers : poll'[y] # None => \E u \in terminals : portOf[u] = poll'[y]
    BY <1>6 DEF PollersAreAwaited, Mapped
  <2>3. \A u \in Terms : poll'[u] # None => portOf[u] = poll'[u] /\ u \in terminals
    <3>1. \A u \in Terms : u \in Callers
      BY DEF Callers
    <3> QED BY <1>6, <3>1 DEF PollersAreAwaited
  <2> QED BY <1>5, <2>1, <2>2, <2>3 DEF PollersAreAwaited, Mapped
<1> QED BY <1>3, <1>4, <1>7

\* The configuration is loaded, or servers are synced: neither touches a terminal or a poll.
LEMMA ConfigKeeps ==
    IInv => /\ \A C \in SUBSET Ports : LoadConfig(C) => IInv'
            /\ \A ok \in BOOLEAN : Sync(ok) => IInv'
            /\ UNCHANGED vars => IInv'
<1> SUFFICES ASSUME IInv PROVE /\ \A C \in SUBSET Ports : LoadConfig(C) => IInv'
                               /\ \A ok \in BOOLEAN : Sync(ok) => IInv'
                               /\ UNCHANGED vars => IInv'
  OBVIOUS
<1> USE DEF IInv
<1>0. ASSUME UNCHANGED <<terminalVars, pollVars>> PROVE TerminalsAreMapped' /\ PollersAreAwaited'
  BY <1>0 DEF terminalVars, pollVars, TerminalsAreMapped, PollersAreAwaited, Mapped
<1>1. ASSUME NEW C \in SUBSET Ports, LoadConfig(C) PROVE IInv'
  <2>1. /\ loads' \in 0..MaxLoads /\ config' = C
        /\ kind' = [p \in Ports |-> IF p \in C THEN "configured"
                                    ELSE IF kind[p] = "managed" THEN "managed" ELSE "none"]
        /\ UNCHANGED <<reserved, installed, terminalVars, pollVars, loopVars>>
    BY <1>1, PipAssumption DEF LoadConfig, TypeOK
  <2>2. TypeOK'
    BY <2>1 DEF TypeOK, terminalVars, pollVars, loopVars
  <2>3. ServersFollow'
    BY <2>1 DEF ServersFollow, ManagedHaveTerminals, ConfigurationWins, Mapped, terminalVars, loopVars
  <2> QED BY <1>0, <2>1, <2>2, <2>3
<1>2. ASSUME NEW ok \in BOOLEAN, Sync(ok) PROVE IInv'
  <2>1. /\ SyncManaged(terminals, ok)
        /\ UNCHANGED <<config, loads, reserved, terminalVars, pollVars, loopVars>>
    BY <1>2 DEF Sync
  <2>2. /\ installed' \in BOOLEAN
        /\ kind' \in [Ports -> {"none", "configured", "managed"}]
        /\ \A p \in Ports : /\ kind'[p] = "managed" => p \in Mapped(terminals)
                            /\ kind[p] = "configured" => kind'[p] = "configured"
    BY <2>1, SyncEffect
  <2>3. TypeOK'
    BY <2>1, <2>2 DEF TypeOK, terminalVars, pollVars, loopVars
  <2>4. ServersFollow'
    BY <2>1, <2>2 DEF ServersFollow, ManagedHaveTerminals, ConfigurationWins, TypeOK, Mapped,
                      terminalVars, loopVars
  <2> QED BY <1>0, <2>1, <2>3, <2>4
<1>3. ASSUME UNCHANGED vars PROVE IInv'
  <2>1. TypeOK' /\ ServersFollow'
    BY <1>3 DEF vars, serverVars, terminalVars, pollVars, loopVars, TypeOK, ServersFollow,
                ManagedHaveTerminals, ConfigurationWins, Mapped
  <2>2. UNCHANGED <<terminalVars, pollVars>>
    BY <1>3 DEF vars
  <2> QED BY <1>0, <2>1, <2>2
<1> QED BY <1>1, <1>2, <1>3

\* The extension host is replaced: every terminal that runs on is found by its name.
LEMMA RestartKeeps == IInv => \A C \in SUBSET Ports, d \in BOOLEAN : Restart(C, d) => IInv'
<1> SUFFICES ASSUME IInv, NEW C \in SUBSET Ports, NEW d \in BOOLEAN, Restart(C, d) PROVE IInv'
  OBVIOUS
<1> USE DEF IInv
<1>1. /\ config' = C
      /\ kind' = [p \in Ports |-> IF p \in C THEN "configured" ELSE "none"]
      /\ loads' = 1 /\ reserved' = {} /\ installed' = FALSE
      /\ stopping \subseteq stopping' /\ stopping' \subseteq stopping \cup terminals
      /\ terminals' = {t \in window : \A u \in window : portOf[u] = portOf[t] => <<t, u>> \notin older}
      /\ pollers' = [p \in Ports |-> None]
      /\ poll' = [x \in Callers |-> None]
      /\ reconnect' = "check" /\ toAdd' = {} /\ added' = {} /\ visited' = {}
      /\ UNCHANGED <<window, older, portOf>>
  BY DEF Restart, Rediscovered
<1>2. loads' \in 0..MaxLoads
  BY <1>1, PipAssumption
<1>3. TypeOK'
  BY <1>1, <1>2 DEF TypeOK
<1>4. TerminalsAreMapped'
  BY <1>1 DEF TerminalsAreMapped, TypeOK
<1>5. PollersAreAwaited'
  BY <1>1, PipAssumption DEF PollersAreAwaited, Callers
<1>6. ServersFollow'
  BY <1>1 DEF ServersFollow, ManagedHaveTerminals, ConfigurationWins
<1> QED BY <1>3, <1>4, <1>5, <1>6

-----------------------------------------------------------------------------
(* The theorems                                                            *)

\* Initially there is no terminal, and the configured servers are there.
LEMMA InitOK == Init => IInv
<1> SUFFICES ASSUME Init PROVE IInv
  OBVIOUS
<1> USE DEF Init
<1>1. TypeOK
  <2>1. loads \in 0..MaxLoads
    BY PipAssumption
  <2>2. kind \in [Ports -> {"none", "configured", "managed"}]
    OBVIOUS
  <2>3. /\ portOf \in [Terms -> Ports \cup {None}]
        /\ pollers \in [Ports -> Callers \cup {None}]
        /\ poll \in [Callers -> Ports \cup {None}]
    OBVIOUS
  <2> QED BY <2>1, <2>2, <2>3 DEF TypeOK
<1>2. TerminalsAreMapped /\ PollersAreAwaited
  BY PipAssumption DEF TerminalsAreMapped, PollersAreAwaited, Callers
<1>3. ServersFollow
  BY DEF ServersFollow, ManagedHaveTerminals, ConfigurationWins
<1> QED BY <1>1, <1>2, <1>3 DEF IInv

\* Every step preserves the invariant, whether the loop goes on or something else happens.
LEMMA NextKeeps == IInv /\ [Next]_vars => IInv'
<1> SUFFICES ASSUME IInv, [Next]_vars PROVE IInv'
  OBVIOUS
<1>1. CASE ReconnectNext \/ ConfigLoaded \/ \E p \in Ports : StopServer(p)
  BY <1>1, StoppingKeeps
<1>2. CASE \E x \in Callers : PollSucceeds(x) \/ PollFails(x)
  BY <1>2, StoppingKeeps, PollSucceedsKeeps
<1>3. CASE ReconnectEnd \/ ReconnectCheck \/ \E p \in Ports : ReconnectAdd(p)
  BY <1>3, ReconnectKeeps
<1>4. CASE \E t \in Terms : StartServer(t) \/ TerminalCloses(t)
  BY <1>4, StartServerKeeps, TerminalClosesKeeps
<1>5. CASE (\E C \in SUBSET Ports : LoadConfig(C)) \/ (\E ok \in BOOLEAN : Sync(ok)) \/ UNCHANGED vars
  BY <1>5, ConfigKeeps
<1>6. CASE \E C \in SUBSET Ports, d \in BOOLEAN : Restart(C, d)
  BY <1>6, RestartKeeps
<1> QED BY <1>1, <1>2, <1>3, <1>4, <1>5, <1>6 DEF Next, Event

\* What the other theorems rest on holds in every state.
THEOREM InvariantHolds == Spec => []IInv
BY InitOK, NextKeeps, PTL DEF Spec

\* Type correctness.
THEOREM TypeCorrect == Spec => []TypeOK
<1>1. IInv => TypeOK
  BY DEF IInv
<1> QED BY <1>1, InvariantHolds, PTL

\* Every terminal that runs on can be stopped, one for each port, through any number of restarts of
\* the extension host; and no poll outlives its server.
THEOREM NoTerminalIsOrphaned == Spec => []NoOrphans
<1>1. IInv => NoOrphans
  BY DEF IInv, TerminalsAreMapped, NoOrphans
<1> QED BY <1>1, InvariantHolds, PTL

\* A managed server has a terminal, except one that the loop at start-up was still to add.
THEOREM ManagedServersHaveTerminals == Spec => []ManagedHaveTerminals
<1>1. IInv => ManagedHaveTerminals
  BY DEF IInv, ServersFollow
<1> QED BY <1>1, InvariantHolds, PTL

\* A configured server stays one, with the same exception.
THEOREM ConfigurationAlwaysWins == Spec => []ConfigurationWins
<1>1. IInv => ConfigurationWins
  BY DEF IInv, ServersFollow
<1> QED BY <1>1, InvariantHolds, PTL

=============================================================================
