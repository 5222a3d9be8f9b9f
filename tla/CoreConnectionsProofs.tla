----------------------- MODULE CoreConnectionsProofs -----------------------
(***************************************************************************)
(* Theorems about CoreConnections, for any sets of servers, connections    *)
(* and editors: its invariants, and that it implements ConnectionSlots.    *)
(***************************************************************************)
EXTENDS CoreConnections, TLAPS

(* An attempt under way is the one its server's pending entry names.       *)
AttemptsArePending ==
    \A c \in Conns : phase[c] \in InFlight => url[c] \in Servers /\ pending[url[c]] = c

(* A session that exists or is being created is in _connectionMap.         *)
SessionsAreHeld ==
    \A c \in Conns : phase[c] \in {"session", "plugins", "open"} =>
                        url[c] \in Servers /\ connMap[url[c]] = c

(* A pending entry names an attempt at its server, and leaves room for no  *)
(* other connection of it.                                                 *)
PendingIsAttempt ==
    \A s \in Servers : pending[s] # None =>
        /\ url[pending[s]] = s
        /\ phase[pending[s]] \in InFlight \cup {"threw"}
        /\ connMap[s] \in {None, pending[s]}

(* What _connectionMap holds is a session of its server.                   *)
HeldIsSession ==
    \A s \in Servers : connMap[s] # None =>
        /\ url[connMap[s]] = s
        /\ phase[connMap[s]] \in InSession \cup {"open"}

(* A server that is not configured has neither attempt nor connection.     *)
UnknownIsQuiet ==
    \A s \in Servers : ~Known(s) => connMap[s] = None /\ ~Attempting(s)

ConnInv ==
    /\ AttemptsArePending
    /\ SessionsAreHeld
    /\ PendingIsAttempt
    /\ HeldIsSession
    /\ ClientsFollowConnections

(* What an editor's handler works with is a connection of some server.     *)
RequestsNameConns ==
    \A e \in Editors : request[e].step # "idle" =>
        request[e].conn \in Conns /\ url[request[e].conn] \in Servers

IInv ==
    /\ TypeOK
    /\ ConnInv
    /\ CountTellsConnected
    /\ UnknownIsQuiet
    /\ RequestsNameConns

-----------------------------------------------------------------------------
(* What disconnectFromServer changes, point by point.                      *)
LEMMA DisconnectEffect ==
    ASSUME TypeOK, NEW S \in SUBSET Servers, NEW K \in SUBSET Conns, Disconnect(S, K)
    PROVE  /\ connMap' \in [Servers -> Conns \cup {None}]
           /\ \A s \in Servers : connMap'[s] = IF s \in S THEN None ELSE connMap[s]
           /\ clients' \subseteq Servers
           /\ \A s \in Servers : s \in clients' <=> s \in clients /\ ~(s \in S /\ HasConn(s))
           /\ phase' \in [Conns -> Phases]
           /\ \A c \in Conns :
                phase'[c] = IF (\E s \in S : connMap[s] = c) \/ c \in K
                            THEN Disposed(phase[c]) ELSE phase[c]
           /\ editorConn' \in [Editors -> Conns \cup {None}]
           /\ \A e \in Editors : \A s \in S : connMap[s] # None => editorConn'[e] # connMap[s]
           /\ \A e \in Editors : editorConn'[e] # editorConn[e] =>
                \E s \in S : connMap[s] # None /\ connMap[s] = editorConn[e]
<1> DEFINE gone == {connMap[s] : s \in S} \ {None}
<1>1. \A c \in Conns : c \in gone <=> \E s \in S : connMap[s] = c
  BY CoreAssumption DEF TypeOK
<1>2. connMap' = [s \in Servers |-> IF s \in S THEN None ELSE connMap[s]]
  BY DEF Disconnect
<1>3. clients' = clients \ {s \in S : HasConn(s)}
  BY DEF Disconnect, ClientsWithout
<1>4. phase' = [c \in Conns |-> IF c \in gone \cup K THEN Disposed(phase[c]) ELSE phase[c]]
  BY DEF Disconnect
<1>5. editorConn' = [e \in Editors |-> IF editorConn[e] \in gone THEN None ELSE editorConn[e]]
  BY DEF Disconnect, Unbind
<1>6. \A p \in Phases : Disposed(p) \in Phases
  BY DEF Disposed, Phases, InFlight, InSession
<1> HIDE DEF gone
<1>7. phase' \in [Conns -> Phases]
  BY <1>4, <1>6 DEF TypeOK
<1>8. \A c \in Conns :
         phase'[c] = IF (\E s \in S : connMap[s] = c) \/ c \in K
                     THEN Disposed(phase[c]) ELSE phase[c]
  BY <1>1, <1>4
<1>9. /\ editorConn' \in [Editors -> Conns \cup {None}]
      /\ \A e \in Editors : \A s \in S : connMap[s] # None => editorConn'[e] # connMap[s]
      /\ \A e \in Editors : editorConn'[e] # editorConn[e] =>
           \E s \in S : connMap[s] # None /\ connMap[s] = editorConn[e]
  BY <1>5 DEF TypeOK, gone
<1>10. /\ connMap' \in [Servers -> Conns \cup {None}]
       /\ \A s \in Servers : connMap'[s] = IF s \in S THEN None ELSE connMap[s]
  BY <1>2 DEF TypeOK
<1>11. /\ clients' \subseteq Servers
       /\ \A s \in Servers : s \in clients' <=> s \in clients /\ ~(s \in S /\ HasConn(s))
  BY <1>3 DEF TypeOK
<1>12. QED
  BY <1>7, <1>8, <1>9, <1>10, <1>11

(* disconnectFromServer keeps the connections' invariant, when what is being *)
(* disposed already is open and belongs to one of the servers.               *)
LEMMA DisconnectKeeps ==
    ASSUME TypeOK, ConnInv,
           NEW S \in SUBSET Servers, NEW K \in SUBSET Conns, Disconnect(S, K),
           \A c \in K : phase[c] = "open" /\ url[c] \in S,
           UNCHANGED <<pending, url>>
    PROVE  /\ ConnInv'
           /\ \A s \in Servers : Attempting(s)' => Attempting(s)
           /\ \A s \in Servers \ S :
                connMap[s] # None => phase'[connMap[s]] = phase[connMap[s]]
<1>0. /\ connMap' \in [Servers -> Conns \cup {None}]
      /\ \A s \in Servers : connMap'[s] = IF s \in S THEN None ELSE connMap[s]
      /\ clients' \subseteq Servers
      /\ \A s \in Servers : s \in clients' <=> s \in clients /\ ~(s \in S /\ HasConn(s))
      /\ \A c \in Conns :
           phase'[c] = IF (\E s \in S : connMap[s] = c) \/ c \in K
                       THEN Disposed(phase[c]) ELSE phase[c]
  <2>1. connMap' = [s \in Servers |-> IF s \in S THEN None ELSE connMap[s]]
    BY DEF Disconnect
  <2>2. /\ clients' \subseteq Servers
        /\ \A s \in Servers : s \in clients' <=> s \in clients /\ ~(s \in S /\ HasConn(s))
    BY DisconnectEffect
  <2>3. \A c \in Conns :
           phase'[c] = IF (\E s \in S : connMap[s] = c) \/ c \in K
                       THEN Disposed(phase[c]) ELSE phase[c]
    BY DisconnectEffect
  <2> QED BY <2>1, <2>2, <2>3, CoreAssumption DEF TypeOK
<1> USE <1>0, CoreAssumption DEF ConnInv
<1> DEFINE Hit(c) == (\E s \in S : connMap[s] = c) \/ c \in K
<1>1. \A c \in Conns : Hit(c) => /\ url[c] \in S
                                 /\ phase[c] \in InSession \cup {"open"}
                                 /\ connMap[url[c]] = c
  BY DEF HeldIsSession, SessionsAreHeld, TypeOK
<1>2. \A c \in Conns : phase'[c] = IF Hit(c) THEN Disposed(phase[c]) ELSE phase[c]
  OBVIOUS
<1>3. \A c \in Conns : Hit(c) => phase'[c] \in {"aborted", "closed"}
  BY <1>1, <1>2 DEF Disposed
<1>4. \A c \in Conns : phase'[c] \in InFlight => phase[c] \in InFlight
  BY <1>1, <1>2 DEF Disposed, InFlight, InSession
<1>5. AttemptsArePending'
  BY <1>4 DEF AttemptsArePending
<1>6. SessionsAreHeld'
  <2> SUFFICES ASSUME NEW c \in Conns, phase'[c] \in {"session", "plugins", "open"}
               PROVE  url[c] \in Servers /\ connMap'[url[c]] = c
    BY DEF SessionsAreHeld
  <2>1. ~Hit(c)
    BY <1>3
  <2>2. phase[c] = phase'[c]
    BY <2>1, <1>2
  <2>3. url[c] \in Servers /\ connMap[url[c]] = c
    BY <2>2 DEF SessionsAreHeld
  <2>4. url[c] \notin S
    BY <2>1, <2>3
  <2>5. QED
    BY <2>3, <2>4
<1>7. PendingIsAttempt'
  <2> SUFFICES ASSUME NEW s \in Servers, pending[s] # None
               PROVE  /\ url[pending[s]] = s
                      /\ phase'[pending[s]] \in InFlight \cup {"threw"}
                      /\ connMap'[s] \in {None, pending[s]}
    BY DEF PendingIsAttempt
  <2>1. pending[s] \in Conns
    BY DEF TypeOK
  <2>2. /\ url[pending[s]] = s
        /\ phase[pending[s]] \in InFlight \cup {"threw"}
        /\ connMap[s] \in {None, pending[s]}
    BY DEF PendingIsAttempt
  <2>3. phase'[pending[s]] \in InFlight \cup {"threw"}
    BY <2>1, <2>2, <1>1, <1>2 DEF Disposed, InFlight, InSession
  <2>4. QED
    BY <2>2, <2>3
<1>8. HeldIsSession'
  <2> SUFFICES ASSUME NEW s \in Servers, connMap'[s] # None
               PROVE  /\ url[connMap'[s]] = s
                      /\ phase'[connMap'[s]] \in InSession \cup {"open"}
    BY DEF HeldIsSession
  <2>1. s \notin S /\ connMap'[s] = connMap[s] /\ connMap[s] \in Conns
    BY DEF TypeOK
  <2>2. url[connMap[s]] = s /\ phase[connMap[s]] \in InSession \cup {"open"}
    BY <2>1 DEF HeldIsSession
  <2>3. ~Hit(connMap[s])
    BY <2>1, <2>2, <1>1
  <2>4. QED
    BY <2>1, <2>2, <2>3, <1>2
<1>9. ClientsFollowConnections'
  BY DEF ClientsFollowConnections, HasConn, TypeOK
<1>10. \A s \in Servers : Attempting(s)' => Attempting(s)
  BY <1>4 DEF Attempting, TypeOK
<1>11. \A s \in Servers \ S :
         connMap[s] # None => phase'[connMap[s]] = phase[connMap[s]]
  BY <1>1, <1>2 DEF HeldIsSession, TypeOK
<1>12. QED
  BY <1>5, <1>6, <1>7, <1>8, <1>9, <1>10, <1>11

-----------------------------------------------------------------------------
(* Type correctness.                                                       *)

LEMMA StartTypes ==
    ASSUME TypeOK, NEW s \in Servers, NEW c \in Conns, Start(s, c)
    PROVE  /\ pending' \in [Servers -> Conns \cup {None}]
           /\ connMap' \in [Servers -> Conns \cup {None}]
           /\ clients' \subseteq Servers
           /\ phase' \in [Conns -> Phases]
           /\ url' \in [Conns -> Servers \cup {None}]
<1>1. "login" \in Phases /\ "session" \in Phases
  BY DEF Phases, InFlight, InSession
<1>2. QED
  BY <1>1 DEF TypeOK, Start

LEMMA AttachTypes ==
    ASSUME TypeOK, NEW E \in SUBSET Editors, NEW conn \in Conns \cup {None},
           NEW fresh \in BOOLEAN, Attach(E, conn, fresh)
    PROVE  /\ editorConn' \in [Editors -> Conns \cup {None}]
           /\ request' \in [Editors -> Requests]
BY DEF TypeOK, Attach, Requests, Idle

LEMMA ReleaseTypes ==
    ASSUME TypeOK, NEW E, Release(E)
    PROVE  request' \in [Editors -> Requests]
BY DEF TypeOK, Release, Requests, Idle

LEMMA CountTypes ==
    ASSUME TypeOK, NEW s \in Servers, NEW c
    PROVE  CountAfter(s, c) \in Nat
BY DEF TypeOK, CountAfter, Calls, Minus

LEMMA DisconnectTypes ==
    ASSUME TypeOK, NEW S \in SUBSET Servers, NEW K \in SUBSET Conns, Disconnect(S, K)
    PROVE  /\ connMap' \in [Servers -> Conns \cup {None}]
           /\ clients' \subseteq Servers
           /\ phase' \in [Conns -> Phases]
           /\ editorConn' \in [Editors -> Conns \cup {None}]
BY DisconnectEffect

LEMMA KeepTypes ==
    ASSUME TypeOK, NEW stay, Keep(stay)
    PROVE  isRunning' \in [Servers -> BOOLEAN] /\ count' \in [Servers -> Nat]
BY DEF TypeOK, Keep

LEMMA TypeStep == IInv /\ [Next]_vars => TypeOK'
<1> SUFFICES ASSUME IInv, [Next]_vars
             PROVE  TypeOK'
  OBVIOUS
<1>0. TypeOK /\ ConnInv /\ CountTellsConnected /\ RequestsNameConns
  BY DEF IInv
<1> USE <1>0
<1> USE DEF serverVars, connVars, editorVars
<1>1. ASSUME NEW s \in Servers, NEW c \in Conns, ConnectCommand(s, c)
      PROVE  TypeOK'
  <2>1. Start(s, c) /\ UNCHANGED <<serverVars, editorVars>>
    BY <1>1 DEF ConnectCommand
  <2>2. QED
    BY <2>1, StartTypes DEF TypeOK
<1>2. ASSUME NEW e \in Editors, NEW s \in Servers, ConnectEditor(e, s)
      PROVE  TypeOK'
  <2>1. CASE \E c \in Conns :
               /\ Start(s, c)
               /\ request' = [request EXCEPT ![e] =
                                [step |-> "connecting", conn |-> c, fresh |-> FALSE]]
               /\ UNCHANGED editorConn
    <3>1. PICK c \in Conns : /\ Start(s, c)
                             /\ request' = [request EXCEPT ![e] =
                                  [step |-> "connecting", conn |-> c, fresh |-> FALSE]]
                             /\ UNCHANGED editorConn
      BY <2>1
    <3>2. request' \in [Editors -> Requests]
      BY <3>1 DEF TypeOK, Requests
    <3>3. UNCHANGED serverVars
      BY <1>2 DEF ConnectEditor
    <3>4. QED
      BY <3>1, <3>2, <3>3, StartTypes DEF TypeOK
  <2>2. CASE /\ request' = [request EXCEPT ![e] =
                              [step |-> "connecting", conn |-> pending[s], fresh |-> FALSE]]
             /\ UNCHANGED <<connVars, editorConn>>
    <3>1. request' \in [Editors -> Requests]
      BY <2>2 DEF TypeOK, Requests
    <3>2. QED
      BY <3>1, <2>2, <1>2 DEF TypeOK, ConnectEditor
  <2>3. CASE Attach({e}, connMap[s], TRUE) /\ UNCHANGED connVars
    <3>1. connMap[s] \in Conns \cup {None}
      BY DEF TypeOK
    <3>2. QED
      BY <2>3, <3>1, <1>2, AttachTypes DEF TypeOK, ConnectEditor
  <2>4. QED
    BY <1>2, <2>1, <2>2, <2>3 DEF ConnectEditor
<1>3. ASSUME NEW c \in Conns, Attempt(c)
      PROVE  TypeOK'
  <2> USE DEF Phases, InFlight, InSession
  <2>1. CASE LoginOk(c)
    <3>1. url[c] \in Servers
      BY <2>1 DEF LoginOk, ConnInv, AttemptsArePending
    <3>2. QED
      BY <2>1, <3>1 DEF TypeOK, LoginOk
  <2>2. CASE LoginFail(c)
    BY <2>2, ReleaseTypes DEF TypeOK, LoginFail, Settle, ClientsWithout
  <2>3. CASE LoginThrows(c)
    BY <2>3, ReleaseTypes DEF TypeOK, LoginThrows, ClientsWithout
  <2>4. CASE SessionCreated(c)
    BY <2>4 DEF TypeOK, SessionCreated
  <2>5. CASE Connected(c)
    <3>1. url[c] \in Servers /\ connMap[url[c]] \in Conns \cup {None}
      BY <2>5 DEF Connected, ConnInv, SessionsAreHeld, TypeOK
    <3>2. Waiters(c) \in SUBSET Editors
      BY DEF Waiters
    <3>3. Attach(Waiters(c), connMap[url[c]], TRUE)
      BY <2>5 DEF Connected
    <3>4. editorConn' \in [Editors -> Conns \cup {None}] /\ request' \in [Editors -> Requests]
      BY <3>1, <3>2, <3>3, AttachTypes
    <3>5. phase' \in [Conns -> Phases] /\ pending' \in [Servers -> Conns \cup {None}]
      BY <2>5 DEF TypeOK, Connected, Settle
    <3>6. count' \in [Servers -> Nat]
      BY <2>5, <3>1 DEF TypeOK, Connected
    <3>7. UNCHANGED <<kind, isRunning, connMap, clients, url>>
      BY <2>5 DEF Connected
    <3>8. QED
      BY <3>4, <3>5, <3>6, <3>7 DEF TypeOK
  <2>6. CASE SessionFail(c)
    BY <2>6, ReleaseTypes DEF TypeOK, SessionFail, Settle, ClientsWithout
  <2>7. QED
    BY <1>3, <2>1, <2>2, <2>3, <2>4, <2>5, <2>6 DEF Attempt
<1>4. ASSUME NEW c \in Conns, Drop(c)
      PROVE  TypeOK'
  <2>1. CASE /\ phase' = [phase EXCEPT ![c] = "aborted"]
             /\ UNCHANGED <<serverVars, editorVars, pending, connMap, clients, url>>
    BY <2>1 DEF TypeOK, Phases, InFlight, InSession
  <2>2. CASE /\ phase[c] = "open"
             /\ Disconnect({url[c]}, {c})
             /\ count' = [count EXCEPT ![url[c]] = CountAfter(url[c], c)]
             /\ UNCHANGED <<kind, isRunning, pending, url, request>>
    <3>2. url[c] \in Servers
      BY <2>2 DEF ConnInv, SessionsAreHeld
    <3>3. count' \in [Servers -> Nat]
      BY <2>2, <3>2, CountTypes DEF TypeOK
    <3>4. {url[c]} \in SUBSET Servers /\ {c} \in SUBSET Conns /\ Disconnect({url[c]}, {c})
      BY <2>2, <3>2
    <3>5. /\ connMap' \in [Servers -> Conns \cup {None}]
          /\ clients' \subseteq Servers
          /\ phase' \in [Conns -> Phases]
          /\ editorConn' \in [Editors -> Conns \cup {None}]
      BY <3>4, DisconnectTypes
    <3>6. QED
      BY <2>2, <3>3, <3>5 DEF TypeOK
  <2>3. QED
    BY <1>4, <2>1, <2>2 DEF Drop
<1>5. ASSUME NEW s \in Servers, DisconnectServer(s)
      PROVE  TypeOK'
  BY <1>5, DisconnectEffect, CountTypes DEF TypeOK, DisconnectServer
<1>6. ASSUME NEW s \in Servers, ServerStopped(s)
      PROVE  TypeOK'
  BY <1>6, DisconnectEffect, CountTypes DEF TypeOK, ServerStopped
<1>7. ASSUME NEW s \in Servers, ServerStarted(s)
      PROVE  TypeOK'
  BY <1>7, StartTypes DEF TypeOK, ServerStarted
<1>8. ASSUME NEW C \in SUBSET Servers, LoadConfig(C)
      PROVE  TypeOK'
  <2> DEFINE gone == {s \in Servers : kind[s] # "managed"} \ C
  <2>1. /\ kind' = [s \in Servers |-> IF s \in C THEN "configured"
                                     ELSE IF s \in gone THEN "absent" ELSE "managed"]
        /\ Keep({s \in Servers \ gone : Known(s)})
        /\ Disconnect({s \in gone : HasConn(s)}, {})
        /\ UNCHANGED <<pending, url, request>>
    BY <1>8 DEF LoadConfig
  <2>2. /\ connMap' \in [Servers -> Conns \cup {None}]
        /\ clients' \subseteq Servers
        /\ phase' \in [Conns -> Phases]
        /\ editorConn' \in [Editors -> Conns \cup {None}]
    <3> DEFINE S == {s \in gone : HasConn(s)}
    <3>1. S \in SUBSET Servers /\ {} \in SUBSET Conns /\ Disconnect(S, {})
      BY <2>1
    <3> HIDE DEF S
    <3>2. QED
      BY <3>1, DisconnectTypes
  <2>3. isRunning' \in [Servers -> BOOLEAN] /\ count' \in [Servers -> Nat]
    BY <2>1, KeepTypes
  <2>4. kind' \in [Servers -> {"absent", "configured", "managed"}]
    BY <2>1
  <2> HIDE DEF gone
  <2>5. QED
    BY <2>1, <2>2, <2>3, <2>4 DEF TypeOK
<1>9. ASSUME NEW U \in SUBSET Servers, SyncManaged(U)
      PROVE  TypeOK'
  <2> DEFINE gone  == {s \in Servers : kind[s] = "managed"} \ U
             added == {s \in U : ~Known(s)}
  <2>1. /\ kind' = [s \in Servers |-> IF s \in gone THEN "absent"
                                     ELSE IF s \in added THEN "managed" ELSE kind[s]]
        /\ Keep(Servers \ (gone \cup added))
        /\ Disconnect(gone, {})
        /\ UNCHANGED <<pending, url, request>>
    BY <1>9 DEF SyncManaged
  <2>2. gone \in SUBSET Servers
    OBVIOUS
  <2>3. isRunning' \in [Servers -> BOOLEAN] /\ count' \in [Servers -> Nat]
    BY <2>1, KeepTypes
  <2>4. kind' \in [Servers -> {"absent", "configured", "managed"}]
    BY <2>1 DEF TypeOK
  <2> HIDE DEF gone, added
  <2>5. QED
    BY <2>1, <2>2, <2>3, <2>4, DisconnectEffect DEF TypeOK
<1>10. ASSUME NEW e \in Editors, NEW c \in Conns, PickConnection(e, c)
       PROVE  TypeOK'
  BY <1>10 DEF TypeOK, PickConnection, Requests
<1>11. ASSUME NEW e \in Editors, Answer(e) \/ DisconnectEditor(e)
       PROVE  TypeOK'
  <2>1. CASE ApplyPick(e)
    BY <2>1, AttachTypes, ReleaseTypes DEF TypeOK, ApplyPick, Requests
  <2>2. CASE CancelPick(e)
    BY <2>2, ReleaseTypes DEF TypeOK, CancelPick
  <2>3. CASE Supported(e)
    BY <2>3, ReleaseTypes DEF TypeOK, Supported, Requests
  <2>4. CASE Unsupported(e)
    <3>1. CASE ~request[e].fresh
      BY <2>4, <3>1, ReleaseTypes DEF TypeOK, Unsupported
    <3>2. CASE request[e].fresh
      <4>1. url[request[e].conn] \in Servers
        BY <2>4 DEF Unsupported, RequestsNameConns
      <4>2. /\ Disconnect({url[request[e].conn]}, {})
            /\ count' = [count EXCEPT ![url[request[e].conn]] =
                           CountAfter(url[request[e].conn], None)]
            /\ UNCHANGED <<kind, isRunning, pending, url>>
            /\ Release({e})
        BY <2>4, <3>2 DEF Unsupported
      <4>3. count' \in [Servers -> Nat]
        BY <4>1, <4>2, CountTypes DEF TypeOK
      <4>4. /\ connMap' \in [Servers -> Conns \cup {None}]
            /\ clients' \subseteq Servers
            /\ phase' \in [Conns -> Phases]
            /\ editorConn' \in [Editors -> Conns \cup {None}]
        BY <4>1, <4>2, DisconnectTypes
      <4>5. request' \in [Editors -> Requests]
        BY <4>2, ReleaseTypes
      <4>6. QED
        BY <4>2, <4>3, <4>4, <4>5 DEF TypeOK
    <3>3. QED
      BY <3>1, <3>2
  <2>5. CASE QueryFails(e)
    BY <2>5, ReleaseTypes DEF TypeOK, QueryFails
  <2>6. CASE DisconnectEditor(e)
    BY <2>6 DEF TypeOK, DisconnectEditor
  <2>7. QED
    BY <1>11, <2>1, <2>2, <2>3, <2>4, <2>5, <2>6 DEF Answer
<1>12. CASE UNCHANGED vars
  BY <1>12 DEF TypeOK, vars
<1>13. QED
  BY <1>1, <1>2, <1>3, <1>4, <1>5, <1>6, <1>7, <1>8, <1>9, <1>10, <1>11, <1>12
     DEF Next

-----------------------------------------------------------------------------
(* The connections' invariant, one lemma per kind of step.                  *)

\* The part of IInv that a step of the editors alone cannot touch.
HeldInv == ConnInv /\ CountTellsConnected /\ UnknownIsQuiet

(* An attempt is started only when the server has no connection.            *)
LEMMA StartIsFirst ==
    ASSUME IInv, NEW s \in Servers, NEW c \in Conns, Start(s, c)
    PROVE  connMap[s] = None
<1> USE CoreAssumption DEF IInv, ConnInv
<1>1. count[s] = 0 /\ pending[s] = None
  BY DEF Start, MayStart
<1>2. SUFFICES ASSUME connMap[s] # None
               PROVE  FALSE
  OBVIOUS
<1>3. /\ connMap[s] \in Conns
      /\ url[connMap[s]] = s
      /\ phase[connMap[s]] \in InSession \cup {"open"}
  BY <1>2 DEF HeldIsSession, TypeOK
<1>4. phase[connMap[s]] # "open"
  BY <1>1, <1>2 DEF CountTellsConnected, HasConn
<1>5. phase[connMap[s]] \in InFlight
  BY <1>3, <1>4 DEF InFlight
<1>6. QED
  BY <1>1, <1>2, <1>3, <1>5 DEF AttemptsArePending

(* Starting it keeps the connections' invariant.                            *)
LEMMA StartKeeps ==
    ASSUME IInv, NEW s \in Servers, NEW c \in Conns, Start(s, c), UNCHANGED <<kind, count>>
    PROVE  HeldInv'
<1>2. connMap[s] = None
  BY StartIsFirst
<1> USE CoreAssumption DEF IInv, ConnInv
<1>1. Known(s) /\ count[s] = 0 /\ pending[s] = None /\ phase[c] = "unused"
  BY DEF Start, MayStart
<1>3. s \notin clients
  BY <1>2 DEF ClientsFollowConnections, HasConn
<1>4. /\ pending' = [pending EXCEPT ![s] = c]
      /\ url' = [url EXCEPT ![c] = s]
      /\ phase' = [phase EXCEPT ![c] = "login"]
      /\ UNCHANGED <<connMap, clients>>
  BY <1>3 DEF Start
<1>5. \A t \in Servers : connMap[t] # c /\ pending[t] # c
  BY <1>1 DEF HeldIsSession, PendingIsAttempt, InFlight, InSession, TypeOK
<1>6. \A t \in Servers : connMap[t] # None => connMap[t] \in Conns \ {c}
  BY <1>5 DEF TypeOK
<1>7. AttemptsArePending'
  BY <1>1, <1>4 DEF AttemptsArePending, TypeOK
<1>8. SessionsAreHeld'
  BY <1>4 DEF SessionsAreHeld, TypeOK
<1>9. PendingIsAttempt'
  BY <1>2, <1>4, <1>5 DEF PendingIsAttempt, InFlight, TypeOK
<1>10. HeldIsSession'
  BY <1>4, <1>6 DEF HeldIsSession, TypeOK
<1>11. ClientsFollowConnections'
  BY <1>4 DEF ClientsFollowConnections, HasConn
<1>12. CountTellsConnected'
  BY <1>4, <1>6 DEF CountTellsConnected, HasConn, TypeOK
<1>13. UnknownIsQuiet'
  BY <1>1, <1>4, <1>5 DEF UnknownIsQuiet, Known, Attempting, TypeOK
<1>14. QED
  BY <1>7, <1>8, <1>9, <1>10, <1>11, <1>12, <1>13 DEF HeldInv

(* disconnectFromServer for one server, with the count it leaves.           *)
LEMMA DisconnectOneKeeps ==
    ASSUME IInv, NEW s \in Servers, NEW K \in SUBSET Conns, NEW c,
           Disconnect({s}, K),
           \A d \in K : phase[d] = "open" /\ url[d] = s,
           count' = [count EXCEPT ![s] = CountAfter(s, c)],
           UNCHANGED <<kind, pending, url>>
    PROVE  HeldInv'
<1> USE CoreAssumption
<1>1. TypeOK /\ ConnInv /\ CountTellsConnected /\ UnknownIsQuiet
  BY DEF IInv
<1>2. /\ ConnInv'
      /\ \A t \in Servers : Attempting(t)' => Attempting(t)
      /\ \A t \in Servers \ {s} :
           connMap[t] # None => phase'[connMap[t]] = phase[connMap[t]]
  BY <1>1, DisconnectKeeps
<1>3. \A t \in Servers : connMap'[t] = IF t = s THEN None ELSE connMap[t]
  <2>1. {s} \in SUBSET Servers
    OBVIOUS
  <2>2. \A t \in Servers : connMap'[t] = IF t \in {s} THEN None ELSE connMap[t]
    BY <1>1, <2>1, DisconnectEffect
  <2>3. QED
    BY <2>2
<1>4. CountAfter(s, c) = 0
  BY <1>1 DEF CountAfter, Calls, Minus, CountTellsConnected
<1>5. CountTellsConnected'
  BY <1>1, <1>2, <1>3, <1>4 DEF CountTellsConnected, HasConn, TypeOK
<1>6. UnknownIsQuiet'
  BY <1>1, <1>2, <1>3 DEF UnknownIsQuiet, Known
<1>7. QED
  BY <1>2, <1>5, <1>6 DEF HeldInv

(* A change of the set of servers: those in S lose their connection, those  *)
(* not in stay start over.                                                  *)
LEMMA ReconfigureKeeps ==
    ASSUME IInv, NEW S \in SUBSET Servers, NEW stay \in SUBSET Servers,
           Disconnect(S, {}), Keep(stay),
           stay \cap S = {},
           \A s \in Servers \ stay : connMap[s] = None \/ s \in S,
           \A s \in Servers : ~Known(s)' =>
              (connMap[s] = None \/ s \in S) /\ ~Attempting(s),
           UNCHANGED <<pending, url>>
    PROVE  HeldInv'
<1> USE CoreAssumption
<1>1. TypeOK /\ ConnInv /\ CountTellsConnected /\ UnknownIsQuiet
  BY DEF IInv
<1>2. {} \in SUBSET Conns
  OBVIOUS
<1>3. /\ ConnInv'
      /\ \A t \in Servers : Attempting(t)' => Attempting(t)
      /\ \A t \in Servers \ S :
           connMap[t] # None => phase'[connMap[t]] = phase[connMap[t]]
  BY <1>1, <1>2, DisconnectKeeps
<1>4. \A t \in Servers : connMap'[t] = IF t \in S THEN None ELSE connMap[t]
  BY <1>1, <1>2, DisconnectEffect
<1>5. \A t \in Servers : count'[t] = IF t \in stay THEN count[t] ELSE 0
  BY DEF Keep
<1>6. CountTellsConnected'
  BY <1>1, <1>3, <1>4, <1>5 DEF CountTellsConnected, HasConn
<1>7. UnknownIsQuiet'
  BY <1>3, <1>4 DEF UnknownIsQuiet
<1>8. QED
  BY <1>3, <1>6, <1>7 DEF HeldInv

(* A step of an attempt under way at c: p, m, q and n are what it leaves as c's *)
(* phase and as its server's connection, pending entry and count.              *)
LEMMA AttemptKeeps ==
    ASSUME IInv, NEW c \in Conns, phase[c] \in InFlight,
           NEW p \in Phases, NEW m \in {None, c}, NEW q \in {None, c}, NEW n \in Nat,
           p \in InFlight => q = c,
           p \in {"session", "plugins", "open"} => m = c,
           q = c => p \in InFlight \cup {"threw"},
           m = c => p \in InSession \cup {"open"},
           n = IF m = c /\ p = "open" THEN 1 ELSE 0,
           phase' = [phase EXCEPT ![c] = p],
           connMap' = [connMap EXCEPT ![url[c]] = m],
           pending' = [pending EXCEPT ![url[c]] = q],
           count' = [count EXCEPT ![url[c]] = n],
           clients' = IF m = c THEN clients \cup {url[c]} ELSE clients \ {url[c]},
           UNCHANGED <<kind, url>>
    PROVE  HeldInv'
<1> DEFINE s == url[c]
<1> USE CoreAssumption
<1>1. /\ TypeOK /\ AttemptsArePending /\ SessionsAreHeld /\ PendingIsAttempt
      /\ HeldIsSession /\ ClientsFollowConnections
      /\ CountTellsConnected /\ UnknownIsQuiet
  BY DEF IInv, ConnInv
<1>2. /\ s \in Servers /\ pending[s] = c /\ Known(s) /\ connMap[s] \in {None, c}
  BY <1>1 DEF AttemptsArePending, PendingIsAttempt, UnknownIsQuiet, Attempting
<1>3. \A t \in Servers : connMap[t] = c \/ pending[t] = c => t = s
  BY <1>1 DEF HeldIsSession, PendingIsAttempt
<1>4. \A d \in Conns : d # c /\ url[d] = s => phase[d] \notin {"session", "plugins", "open"}
  BY <1>1, <1>2 DEF SessionsAreHeld
<1>5. \A d \in Conns : d # c /\ url[d] = s => phase[d] \notin InFlight
  BY <1>1, <1>2 DEF AttemptsArePending
<1>6. /\ phase'[c] = p /\ \A d \in Conns \ {c} : phase'[d] = phase[d]
      /\ connMap'[s] = m /\ \A t \in Servers \ {s} : connMap'[t] = connMap[t]
      /\ pending'[s] = q /\ \A t \in Servers \ {s} : pending'[t] = pending[t]
      /\ count'[s] = n /\ \A t \in Servers \ {s} : count'[t] = count[t]
      /\ \A t \in Servers : t \in clients' <=> IF t = s THEN m = c ELSE t \in clients
      /\ clients' \subseteq Servers
  BY <1>1, <1>2 DEF TypeOK
<1>7. \A t \in Servers : /\ connMap[t] \in Conns \cup {None}
                         /\ pending[t] \in Conns \cup {None}
  BY <1>1 DEF TypeOK
<1> HIDE DEF s
<1>8. url'[c] = s /\ UNCHANGED <<url, kind>>
  BY DEF s
<1>9. AttemptsArePending'
  BY <1>1, <1>2, <1>5, <1>6, <1>8 DEF AttemptsArePending
<1>10. SessionsAreHeld'
  BY <1>1, <1>2, <1>4, <1>6, <1>8 DEF SessionsAreHeld
<1>11. PendingIsAttempt'
  BY <1>1, <1>2, <1>3, <1>6, <1>7, <1>8 DEF PendingIsAttempt
<1>12. HeldIsSession'
  BY <1>1, <1>2, <1>3, <1>6, <1>7, <1>8 DEF HeldIsSession
<1>13. ClientsFollowConnections'
  BY <1>1, <1>2, <1>6 DEF ClientsFollowConnections, HasConn
<1>14. CountTellsConnected'
  BY <1>1, <1>2, <1>3, <1>6, <1>7 DEF CountTellsConnected, HasConn
<1>15. UnknownIsQuiet'
  BY <1>1, <1>2, <1>3, <1>6, <1>7, <1>8 DEF UnknownIsQuiet, Known, Attempting
<1>16. QED
  BY <1>9, <1>10, <1>11, <1>12, <1>13, <1>14, <1>15 DEF HeldInv, ConnInv

-----------------------------------------------------------------------------
(* The inductive step.                                                     *)

LEMMA AttemptStep ==
    ASSUME IInv, NEW c \in Conns, Attempt(c) \/ (Drop(c) /\ phase[c] = "plugins")
    PROVE  HeldInv'
<1> USE CoreAssumption DEF InFlight, InSession, Phases, serverVars, editorVars
<1>1. /\ TypeOK /\ AttemptsArePending /\ SessionsAreHeld /\ PendingIsAttempt
      /\ HeldIsSession /\ ClientsFollowConnections
      /\ CountTellsConnected /\ UnknownIsQuiet
  BY DEF IInv, ConnInv
<1>2. ASSUME phase[c] \in InFlight
      PROVE  /\ url[c] \in Servers /\ pending[url[c]] = c /\ Known(url[c])
             /\ connMap[url[c]] \in {None, c} /\ count[url[c]] = 0
             /\ phase[c] = "login" => connMap[url[c]] = None /\ url[c] \notin clients
             /\ phase[c] \in {"session", "plugins"} =>
                  connMap[url[c]] = c /\ url[c] \in clients
  <2>1. url[c] \in Servers /\ pending[url[c]] = c
    BY <1>1, <1>2 DEF AttemptsArePending
  <2>2. Known(url[c]) /\ connMap[url[c]] \in {None, c}
    BY <1>1, <1>2, <2>1 DEF PendingIsAttempt, UnknownIsQuiet, Attempting
  <2>3. phase[c] = "login" => connMap[url[c]] = None
    BY <1>1, <2>1, <2>2 DEF HeldIsSession
  <2>4. phase[c] \in {"session", "plugins"} => connMap[url[c]] = c
    BY <1>1 DEF SessionsAreHeld
  <2>5. count[url[c]] = 0
    BY <1>1, <1>2, <2>1, <2>2 DEF CountTellsConnected, HasConn
  <2>6. QED
    BY <1>1, <2>1, <2>2, <2>3, <2>4, <2>5 DEF ClientsFollowConnections, HasConn
<1>3. CASE LoginOk(c)
  <2>1. /\ phase[c] = "login"
        /\ phase' = [phase EXCEPT ![c] = "session"]
        /\ clients' = clients \cup {url[c]}
        /\ connMap' = [connMap EXCEPT ![url[c]] = c]
        /\ UNCHANGED <<kind, count, pending, url>>
    BY <1>3 DEF LoginOk
  <2>2. /\ pending' = [pending EXCEPT ![url[c]] = c]
        /\ count' = [count EXCEPT ![url[c]] = 0]
    BY <1>1, <1>2, <2>1 DEF TypeOK
  <2>3. QED
    BY <2>1, <2>2, AttemptKeeps
<1>4. CASE LoginFail(c) \/ LoginThrows(c)
  <2>1. PICK p \in {"closed", "threw"} :
           /\ phase[c] = "login"
           /\ phase' = [phase EXCEPT ![c] = p]
           /\ clients' = clients \ {url[c]}
           /\ pending' = IF p = "closed" THEN [pending EXCEPT ![url[c]] = None] ELSE pending
           /\ UNCHANGED <<kind, count, connMap, url>>
    BY <1>4 DEF LoginFail, LoginThrows, Settle, ClientsWithout
  <2> DEFINE q == IF p = "closed" THEN None ELSE c
  <2>2. /\ pending' = [pending EXCEPT ![url[c]] = q]
        /\ connMap' = [connMap EXCEPT ![url[c]] = None]
        /\ count' = [count EXCEPT ![url[c]] = 0]
    BY <1>1, <1>2, <2>1 DEF TypeOK
  <2>3. q \in {None, c} /\ (q = c => p = "threw")
    OBVIOUS
  <2> HIDE DEF q
  <2>4. None # c
    OBVIOUS
  <2>5. QED
    BY <2>1, <2>2, <2>3, <2>4, AttemptKeeps
<1>5. CASE SessionCreated(c)
  <2>1. /\ phase[c] = "session"
        /\ phase' = [phase EXCEPT ![c] = "plugins"]
        /\ UNCHANGED <<kind, count, pending, connMap, clients, url>>
    BY <1>5 DEF SessionCreated
  <2>2. /\ pending' = [pending EXCEPT ![url[c]] = c]
        /\ connMap' = [connMap EXCEPT ![url[c]] = c]
        /\ count' = [count EXCEPT ![url[c]] = 0]
        /\ clients' = clients \cup {url[c]}
    BY <1>1, <1>2, <2>1 DEF TypeOK
  <2>3. QED
    BY <2>1, <2>2, AttemptKeeps
<1>6. CASE Connected(c)
  <2>1. /\ phase[c] = "plugins"
        /\ phase' = [phase EXCEPT ![c] = "open"]
        /\ count' = [count EXCEPT ![url[c]] = @ + 1]
        /\ pending' = [pending EXCEPT ![url[c]] = None]
        /\ UNCHANGED <<kind, connMap, clients, url>>
    BY <1>2, <1>6 DEF Connected, Settle
  <2>2. /\ connMap' = [connMap EXCEPT ![url[c]] = c]
        /\ count' = [count EXCEPT ![url[c]] = 1]
        /\ clients' = clients \cup {url[c]}
    BY <1>1, <1>2, <2>1 DEF TypeOK
  <2>3. None # c
    OBVIOUS
  <2>4. QED
    BY <2>1, <2>2, <2>3, AttemptKeeps
<1>7. CASE SessionFail(c)
  <2>1. /\ phase[c] \in {"session", "aborted"}
        /\ phase' = [phase EXCEPT ![c] = "closed"]
        /\ clients' = clients \ {url[c]}
        /\ connMap' = [connMap EXCEPT ![url[c]] = None]
        /\ pending' = [pending EXCEPT ![url[c]] = None]
        /\ UNCHANGED <<kind, count, url>>
    BY <1>7 DEF SessionFail, Fails, Settle, ClientsWithout
  <2>2. count' = [count EXCEPT ![url[c]] = 0]
    BY <1>1, <1>2, <2>1 DEF TypeOK
  <2>3. None # c
    OBVIOUS
  <2>4. QED
    BY <2>1, <2>2, <2>3, AttemptKeeps
<1>8. CASE Drop(c) /\ phase[c] = "plugins"
  <2>1. /\ phase[c] = "plugins"
        /\ phase' = [phase EXCEPT ![c] = "aborted"]
        /\ UNCHANGED <<kind, count, pending, connMap, clients, url>>
    BY <1>8 DEF Drop
  <2>2. /\ pending' = [pending EXCEPT ![url[c]] = c]
        /\ connMap' = [connMap EXCEPT ![url[c]] = c]
        /\ count' = [count EXCEPT ![url[c]] = 0]
        /\ clients' = clients \cup {url[c]}
    BY <1>1, <1>2, <2>1 DEF TypeOK
  <2>3. QED
    BY <2>1, <2>2, AttemptKeeps
<1>9. QED
  BY <1>3, <1>4, <1>5, <1>6, <1>7, <1>8 DEF Attempt

LEMMA HeldStep ==
    ASSUME ~RemoveWhilePending, IInv, [Next]_vars
    PROVE  HeldInv'
<1> USE CoreAssumption
<1>0. /\ TypeOK /\ HeldInv /\ RequestsNameConns
      /\ AttemptsArePending /\ SessionsAreHeld /\ PendingIsAttempt
      /\ HeldIsSession /\ ClientsFollowConnections
      /\ CountTellsConnected /\ UnknownIsQuiet
  BY DEF IInv, ConnInv, HeldInv
<1>a. ASSUME UNCHANGED <<kind, count, connVars>>
      PROVE  HeldInv'
  BY <1>0, <1>a DEF HeldInv, ConnInv, AttemptsArePending, SessionsAreHeld,
     PendingIsAttempt, HeldIsSession, ClientsFollowConnections, CountTellsConnected,
     UnknownIsQuiet, Known, Attempting, HasConn, connVars
<1> USE DEF serverVars, connVars, editorVars
<1>1. ASSUME NEW s \in Servers, NEW c \in Conns, ConnectCommand(s, c)
      PROVE  HeldInv'
  BY <1>1, StartKeeps DEF ConnectCommand
<1>2. ASSUME NEW e \in Editors, NEW s \in Servers, ConnectEditor(e, s)
      PROVE  HeldInv'
  BY <1>2, <1>a, StartKeeps DEF ConnectEditor
<1>3. ASSUME NEW c \in Conns, Attempt(c) \/ Drop(c)
      PROVE  HeldInv'
  <2>1. CASE Attempt(c) \/ (Drop(c) /\ phase[c] = "plugins")
    BY <2>1, AttemptStep
  <2>2. CASE Drop(c) /\ phase[c] # "plugins"
    <3>1. /\ phase[c] = "open"
          /\ Disconnect({url[c]}, {c})
          /\ count' = [count EXCEPT ![url[c]] = CountAfter(url[c], c)]
          /\ UNCHANGED <<kind, pending, url>>
      BY <2>2 DEF Drop
    <3>2. url[c] \in Servers /\ {c} \in SUBSET Conns
      BY <1>0, <3>1 DEF SessionsAreHeld
    <3>3. \A d \in {c} : phase[d] = "open" /\ url[d] = url[c]
      BY <3>1
    <3>4. QED
      BY <3>1, <3>2, <3>3, DisconnectOneKeeps
  <2>3. QED
    BY <1>3, <2>1, <2>2
<1>4. ASSUME NEW s \in Servers, DisconnectServer(s) \/ ServerStopped(s)
      PROVE  HeldInv'
  <2>1. /\ Disconnect({s}, {})
        /\ count' = [count EXCEPT ![s] = CountAfter(s, None)]
        /\ UNCHANGED <<kind, pending, url>>
    BY <1>4 DEF DisconnectServer, ServerStopped
  <2>2. {} \in SUBSET Conns /\ \A d \in {} : phase[d] = "open" /\ url[d] = s
    OBVIOUS
  <2>3. QED
    BY <2>1, <2>2, DisconnectOneKeeps
<1>5. ASSUME NEW s \in Servers, ServerStarted(s)
      PROVE  HeldInv'
  BY <1>5, <1>a, StartKeeps DEF ServerStarted
<1>6. ASSUME NEW C \in SUBSET Servers, LoadConfig(C)
      PROVE  HeldInv'
  <2> DEFINE gone == {s \in Servers : kind[s] # "managed"} \ C
             S    == {s \in gone : HasConn(s)}
             stay == {s \in Servers \ gone : Known(s)}
  <2>1. /\ MayRemove({s \in gone : Known(s)})
        /\ kind' = [s \in Servers |-> IF s \in C THEN "configured"
                                     ELSE IF s \in gone THEN "absent" ELSE "managed"]
        /\ Keep(stay)
        /\ Disconnect(S, {})
        /\ UNCHANGED <<pending, url>>
    BY <1>6 DEF LoadConfig
  <2>2. \A s \in gone : Known(s) => ~Attempting(s)
    BY <2>1 DEF MayRemove
  <2>3. \A s \in Servers \ stay : connMap[s] = None \/ s \in S
    BY <1>0 DEF UnknownIsQuiet, HasConn
  <2>4. \A s \in Servers : ~Known(s)' => s \in gone
    BY <2>1 DEF Known
  <2>5. \A s \in Servers : ~Known(s)' =>
           (connMap[s] = None \/ s \in S) /\ ~Attempting(s)
    BY <1>0, <2>2, <2>4 DEF UnknownIsQuiet, HasConn
  <2>6. S \in SUBSET Servers /\ stay \in SUBSET Servers /\ stay \cap S = {}
    OBVIOUS
  <2> HIDE DEF S, stay
  <2>7. QED
    BY <2>1, <2>3, <2>5, <2>6, ReconfigureKeeps
<1>7. ASSUME NEW U \in SUBSET Servers, SyncManaged(U)
      PROVE  HeldInv'
  <2> DEFINE gone  == {s \in Servers : kind[s] = "managed"} \ U
             added == {s \in U : ~Known(s)}
             stay  == Servers \ (gone \cup added)
  <2>1. /\ MayRemove(gone)
        /\ kind' = [s \in Servers |-> IF s \in gone THEN "absent"
                                     ELSE IF s \in added THEN "managed" ELSE kind[s]]
        /\ Keep(stay)
        /\ Disconnect(gone, {})
        /\ UNCHANGED <<pending, url>>
    BY <1>7 DEF SyncManaged
  <2>2. \A s \in gone : ~Attempting(s)
    BY <2>1 DEF MayRemove
  <2>3. \A s \in Servers \ stay : connMap[s] = None \/ s \in gone
    BY <1>0 DEF UnknownIsQuiet
  <2>4. \A s \in Servers : ~Known(s)' => s \in gone \/ ~Known(s)
    BY <2>1 DEF Known
  <2>5. \A s \in Servers : ~Known(s)' =>
           (connMap[s] = None \/ s \in gone) /\ ~Attempting(s)
    BY <1>0, <2>2, <2>4 DEF UnknownIsQuiet
  <2>6. gone \in SUBSET Servers /\ stay \in SUBSET Servers /\ stay \cap gone = {}
    OBVIOUS
  <2> HIDE DEF gone, stay
  <2>7. QED
    BY <2>1, <2>3, <2>5, <2>6, ReconfigureKeeps
<1>8. ASSUME NEW e \in Editors, NEW c \in Conns, PickConnection(e, c)
      PROVE  HeldInv'
  BY <1>8, <1>a DEF PickConnection
<1>9. ASSUME NEW e \in Editors, Answer(e) \/ DisconnectEditor(e)
      PROVE  HeldInv'
  <2>1. CASE Unsupported(e) /\ request[e].fresh
    <3> DEFINE s == url[request[e].conn]
    <3>1. /\ Disconnect({s}, {})
          /\ count' = [count EXCEPT ![s] = CountAfter(s, None)]
          /\ UNCHANGED <<kind, pending, url>>
      BY <2>1 DEF Unsupported
    <3>2. s \in Servers
      BY <1>0, <2>1 DEF Unsupported, RequestsNameConns
    <3>3. {} \in SUBSET Conns /\ \A d \in {} : phase[d] = "open" /\ url[d] = s
      OBVIOUS
    <3> HIDE DEF s
    <3>4. QED
      BY <3>1, <3>2, <3>3, DisconnectOneKeeps
  <2>2. CASE ~(Unsupported(e) /\ request[e].fresh)
    BY <1>9, <1>a, <2>2
       DEF Answer, ApplyPick, CancelPick, Supported, Unsupported, QueryFails,
           DisconnectEditor
  <2>3. QED
    BY <2>1, <2>2
<1>10. CASE UNCHANGED vars
  BY <1>10, <1>a DEF vars
<1>11. QED
  BY <1>1, <1>2, <1>3, <1>4, <1>5, <1>6, <1>7, <1>8, <1>9, <1>10 DEF Next

LEMMA RequestsStep ==
    ASSUME IInv, [Next]_vars
    PROVE  RequestsNameConns'
<1> USE CoreAssumption DEF serverVars, connVars, editorVars
<1>0. /\ TypeOK /\ RequestsNameConns /\ SessionsAreHeld /\ PendingIsAttempt
      /\ HeldIsSession /\ CountTellsConnected
  BY DEF IInv, ConnInv
<1> DEFINE Named(c) == c \in Conns /\ url[c] \in Servers
<1>1. ASSUME \A e \in Editors : request'[e].step # "idle" =>
                /\ request'[e].conn \in Conns
                /\ url'[request'[e].conn] \in Servers
      PROVE  RequestsNameConns'
  BY <1>1 DEF RequestsNameConns
<1>2. \A e \in Editors : request[e].step # "idle" => Named(request[e].conn)
  BY <1>0 DEF RequestsNameConns
<1>3. Idle.step = "idle"
  BY DEF Idle
<1>4. ASSUME NEW s \in Servers, NEW c \in Conns, Start(s, c)
      PROVE  Named(c)' /\ \A d \in Conns : Named(d) => Named(d)'
  BY <1>0, <1>4 DEF Start, TypeOK
<1>5. ASSUME NEW E, Release(E), UNCHANGED url
      PROVE  RequestsNameConns'
  BY <1>0, <1>2, <1>3, <1>5 DEF Release, RequestsNameConns, TypeOK
<1>6. ASSUME NEW E, NEW c, Named(c), NEW fresh, Attach(E, c, fresh), UNCHANGED url
      PROVE  RequestsNameConns'
  BY <1>0, <1>2, <1>3, <1>6 DEF Attach, RequestsNameConns, TypeOK
<1>7. ASSUME UNCHANGED <<request, url>>
      PROVE  RequestsNameConns'
  BY <1>0, <1>7 DEF RequestsNameConns
<1>8. ASSUME NEW s \in Servers, NEW c \in Conns, Start(s, c), UNCHANGED request
      PROVE  RequestsNameConns'
  BY <1>2, <1>4, <1>8 DEF RequestsNameConns
<1>9. \A s \in Servers : /\ connMap[s] # None => Named(connMap[s])
                         /\ pending[s] # None => Named(pending[s])
  BY <1>0 DEF HeldIsSession, PendingIsAttempt, TypeOK
<1>10. ASSUME NEW e \in Editors, NEW s \in Servers, ConnectEditor(e, s)
       PROVE  RequestsNameConns'
  <2>1. CASE \E c \in Conns :
               /\ Start(s, c)
               /\ request' = [request EXCEPT ![e] =
                                [step |-> "connecting", conn |-> c, fresh |-> FALSE]]
    <3>1. PICK c \in Conns : /\ Start(s, c)
                             /\ request' = [request EXCEPT ![e] =
                                  [step |-> "connecting", conn |-> c, fresh |-> FALSE]]
      BY <2>1
    <3>2. QED
      BY <1>0, <1>2, <1>4, <3>1 DEF RequestsNameConns, TypeOK
  <2>2. CASE /\ Attempting(s)
             /\ request' = [request EXCEPT ![e] =
                              [step |-> "connecting", conn |-> pending[s], fresh |-> FALSE]]
             /\ UNCHANGED connVars
    BY <1>0, <1>2, <1>9, <2>2 DEF RequestsNameConns, TypeOK, Attempting
  <2>3. CASE count[s] > 0 /\ Attach({e}, connMap[s], TRUE) /\ UNCHANGED connVars
    <3>1. connMap[s] # None
      BY <1>0, <2>3 DEF CountTellsConnected, HasConn
    <3>2. QED
      BY <1>6, <1>9, <2>3, <3>1
  <2>4. QED
    BY <1>10, <2>1, <2>2, <2>3 DEF ConnectEditor
<1>11. ASSUME NEW c \in Conns, Attempt(c) \/ Drop(c)
       PROVE  RequestsNameConns'
  <2>1. CASE Connected(c)
    <3>1. url[c] \in Servers /\ connMap[url[c]] = c
      BY <1>0, <2>1 DEF Connected, SessionsAreHeld
    <3>2. QED
      BY <1>6, <2>1, <3>1 DEF Connected
  <2>2. CASE ~Connected(c)
    BY <1>5, <1>7, <1>11, <2>2
       DEF Attempt, Drop, LoginOk, LoginFail, LoginThrows, SessionCreated, SessionFail
  <2>3. QED
    BY <2>1, <2>2
<1>12. ASSUME NEW e \in Editors, NEW c \in Conns, PickConnection(e, c)
       PROVE  RequestsNameConns'
  <2>1. Named(c)
    BY <1>9, <1>12 DEF PickConnection
  <2>2. QED
    BY <1>0, <1>2, <1>12, <2>1 DEF PickConnection, RequestsNameConns, TypeOK
<1>13. ASSUME NEW e \in Editors, Answer(e) \/ DisconnectEditor(e)
       PROVE  RequestsNameConns'
  <2>1. CASE ApplyPick(e)
    BY <1>2, <1>5, <1>6, <2>1 DEF ApplyPick
  <2>2. CASE ~ApplyPick(e)
    BY <1>5, <1>7, <1>13, <2>2
       DEF Answer, CancelPick, Supported, Unsupported, QueryFails, DisconnectEditor
  <2>3. QED
    BY <2>1, <2>2
<1>14. QED
  BY <1>7, <1>8, <1>10, <1>11, <1>12, <1>13
     DEF Next, ConnectCommand, DisconnectServer, ServerStopped, ServerStarted,
         LoadConfig, SyncManaged, vars

-----------------------------------------------------------------------------
(* The theorems.  A server that goes from the configuration while a connection *)
(* attempt to it is under way breaks them (see RemoveWhilePending), so they    *)
(* are about the other behaviours.                                             *)

LEMMA InitInv == Init => IInv
<1> SUFFICES ASSUME Init
             PROVE  IInv
  OBVIOUS
<1> USE CoreAssumption DEF Init
<1>1. TypeOK
  BY DEF TypeOK, Phases, Requests, Idle
<1>2. ConnInv
  BY DEF ConnInv, AttemptsArePending, SessionsAreHeld, PendingIsAttempt, HeldIsSession,
     ClientsFollowConnections, HasConn, InFlight, InSession
<1>3. CountTellsConnected
  BY DEF CountTellsConnected, HasConn
<1>4. UnknownIsQuiet
  BY DEF UnknownIsQuiet, Known, Attempting
<1>5. RequestsNameConns
  BY DEF RequestsNameConns, Idle
<1>6. QED
  BY <1>1, <1>2, <1>3, <1>4, <1>5 DEF IInv

LEMMA StepInv == ~RemoveWhilePending /\ IInv /\ [Next]_vars => IInv'
<1> SUFFICES ASSUME ~RemoveWhilePending, IInv, [Next]_vars
             PROVE  IInv'
  OBVIOUS
<1>1. TypeOK'
  BY TypeStep
<1>2. HeldInv'
  BY HeldStep
<1>3. RequestsNameConns'
  BY RequestsStep
<1>4. QED
  BY <1>1, <1>2, <1>3 DEF IInv, HeldInv

(* The inductive invariant: what _pendingConnectionMap, _connectionMap, the    *)
(* client cache, the connection counts and the services' own states say of     *)
(* each other.                                                                 *)
THEOREM InvCorrect == ~RemoveWhilePending => (Spec => []IInv)
<1>1. Init => IInv
  BY InitInv
<1>2. ~RemoveWhilePending /\ IInv /\ [Next]_vars => IInv'
  BY StepInv
<1>3. ~RemoveWhilePending => ((IInv /\ [Next]_vars) => IInv')
  BY <1>2
<1>4. SUFFICES ASSUME ~RemoveWhilePending
               PROVE  Spec => []IInv
  OBVIOUS
<1>5. IInv /\ [Next]_vars => IInv'
  BY <1>3, <1>4
<1>6. QED
  BY <1>1, <1>5, PTL DEF Spec

(* Every variable of ServerManager's and the services' state has its type.     *)
THEOREM TypeCorrect == ~RemoveWhilePending => (Spec => []TypeOK)
<1>1. IInv => TypeOK
  BY DEF IInv
<1>2. QED
  BY <1>1, InvCorrect, PTL

(* "We only support 1 connection for DHC servers": connectToServer never leaves *)
(* two attempts or connections to one server.                                  *)
THEOREM OneConnectionPerServer == ~RemoveWhilePending => (Spec => []OnePerServer)
<1>1. IInv => OnePerServer
  <2> SUFFICES ASSUME IInv, NEW c \in Conns, NEW d \in Conns,
                      phase[c] \in Live, phase[d] \in Live, url[c] = url[d]
               PROVE  c = d
    BY DEF OnePerServer
  <2>1. AttemptsArePending /\ SessionsAreHeld /\ PendingIsAttempt
    BY DEF IInv, ConnInv
  <2>2. ASSUME NEW x \in Conns, NEW y \in Conns, url[x] = url[y],
               phase[x] \in InFlight, phase[y] = "open"
        PROVE  x = y
    <3>1. url[x] \in Servers /\ pending[url[x]] = x /\ connMap[url[x]] = y
      BY <2>1, <2>2 DEF AttemptsArePending, SessionsAreHeld
    <3>2. QED
      BY <2>1, <3>1, CoreAssumption DEF PendingIsAttempt
  <2>3. CASE phase[c] \in InFlight /\ phase[d] \in InFlight
    BY <2>1, <2>3 DEF AttemptsArePending
  <2>4. CASE phase[c] = "open" /\ phase[d] = "open"
    BY <2>1, <2>4 DEF SessionsAreHeld
  <2>5. QED
    BY <2>2, <2>3, <2>4 DEF Live, InFlight, InSession
<1>2. QED
  BY <1>1, InvCorrect, PTL

(* A positive connectionCount means an established connection that              *)
(* connectToServer can return, and zero that there is none.                    *)
THEOREM CountIsRight == ~RemoveWhilePending => (Spec => []CountTellsConnected)
<1>1. IInv => CountTellsConnected
  BY DEF IInv
<1>2. QED
  BY <1>1, InvCorrect, PTL

(* No session is out of disconnectFromServer's reach.                          *)
THEOREM NoOrphans == ~RemoveWhilePending => (Spec => []NothingUntracked)
<1>1. IInv => NothingUntracked
  BY CoreAssumption DEF IInv, ConnInv, NothingUntracked, SessionsAreHeld, UnknownIsQuiet
<1>2. QED
  BY <1>1, InvCorrect, PTL

(* The client cache is cleared with the connection, and never before.          *)
THEOREM CacheFollows == ~RemoveWhilePending => (Spec => []ClientsFollowConnections)
<1>1. IInv => ClientsFollowConnections
  BY DEF IInv, ConnInv
<1>2. QED
  BY <1>1, InvCorrect, PTL

-----------------------------------------------------------------------------
(* Ending a connection unbinds its editors.                                 *)

EndUnbinds ==
    \A c \in Conns :
       phase[c] = "open" /\ phase'[c] # "open" =>
          \A e \in Editors :
             /\ editorConn'[e] # c
             /\ editorConn[e] # None /\ phase'[editorConn[e]] = "open" =>
                   editorConn'[e] = editorConn[e]

LEMMA DisconnectUnbinds ==
    ASSUME TypeOK, SessionsAreHeld,
           NEW S \in SUBSET Servers, NEW K \in SUBSET Conns, Disconnect(S, K),
           \A c \in K : url[c] \in S
    PROVE  EndUnbinds
<1> USE CoreAssumption
<1>1. /\ \A c \in Conns :
           phase'[c] = IF (\E s \in S : connMap[s] = c) \/ c \in K
                       THEN Disposed(phase[c]) ELSE phase[c]
      /\ \A e \in Editors : \A s \in S : connMap[s] # None => editorConn'[e] # connMap[s]
      /\ \A e \in Editors : editorConn'[e] # editorConn[e] =>
           \E s \in S : connMap[s] # None /\ connMap[s] = editorConn[e]
  <2>1. \A c \in Conns :
           phase'[c] = IF (\E s \in S : connMap[s] = c) \/ c \in K
                       THEN Disposed(phase[c]) ELSE phase[c]
    BY DisconnectEffect
  <2>2. \A e \in Editors : \A s \in S : connMap[s] # None => editorConn'[e] # connMap[s]
    BY DisconnectEffect
  <2>3. \A e \in Editors : editorConn'[e] # editorConn[e] =>
           \E s \in S : connMap[s] # None /\ connMap[s] = editorConn[e]
    BY DisconnectEffect
  <2> QED BY <2>1, <2>2, <2>3
<1>2. \A p : Disposed(p) # "open"
  BY DEF Disposed
<1>3. ASSUME NEW c \in Conns, phase[c] = "open", phase'[c] # "open"
      PROVE  \A e \in Editors : editorConn'[e] # c
  <2>1. (\E s \in S : connMap[s] = c) \/ c \in K
    BY <1>1, <1>3
  <2>2. \E s \in S : connMap[s] = c
    BY <1>3, <2>1 DEF SessionsAreHeld
  <2>3. QED
    BY <1>1, <2>2
<1>4. ASSUME NEW e \in Editors, editorConn[e] # None, phase'[editorConn[e]] = "open"
      PROVE  editorConn'[e] = editorConn[e]
  <2>1. editorConn[e] \in Conns
    BY <1>4 DEF TypeOK
  <2>2. QED
    BY <1>1, <1>2, <1>4, <2>1
<1>5. QED
  BY <1>3, <1>4 DEF EndUnbinds

LEMMA UnbindStep == IInv /\ [Next]_vars => EndUnbinds
<1> SUFFICES ASSUME IInv, [Next]_vars
             PROVE  EndUnbinds
  OBVIOUS
<1>0. TypeOK /\ SessionsAreHeld /\ RequestsNameConns
  BY DEF IInv, ConnInv
<1>1. ASSUME \A c \in Conns : phase[c] = "open" => phase'[c] = "open"
      PROVE  EndUnbinds
  BY <1>1 DEF EndUnbinds
<1>2. ASSUME NEW S \in SUBSET Servers, Disconnect(S, {})
      PROVE  EndUnbinds
  <2>1. {} \in SUBSET Conns /\ \A c \in {} : url[c] \in S
    OBVIOUS
  <2>2. QED
    BY <1>0, <1>2, <2>1, DisconnectUnbinds
<1>3. ASSUME NEW s \in Servers, Disconnect({s}, {})
      PROVE  EndUnbinds
  <2>1. {s} \in SUBSET Servers
    OBVIOUS
  <2>2. QED
    BY <1>2, <1>3, <2>1
<1>4. ASSUME UNCHANGED phase
      PROVE  EndUnbinds
  BY <1>1, <1>4
<1>5. ASSUME NEW s \in Servers, NEW c \in Conns, Start(s, c)
      PROVE  EndUnbinds
  <2>1. \A d \in Conns : phase[d] = "open" => phase'[d] = "open"
    BY <1>0, <1>5 DEF Start, TypeOK
  <2>2. QED
    BY <1>1, <2>1
<1>6. ASSUME NEW c \in Conns, Attempt(c)
      PROVE  EndUnbinds
  <2>1. \A d \in Conns : phase[d] = "open" => phase'[d] = "open"
    BY <1>0, <1>6
       DEF Attempt, LoginOk, LoginFail, LoginThrows, SessionCreated, Connected,
           SessionFail, Fails, TypeOK
  <2>2. QED
    BY <1>1, <2>1
<1>7. ASSUME NEW c \in Conns, Drop(c)
      PROVE  EndUnbinds
  <2>1. CASE phase[c] = "plugins" /\ phase' = [phase EXCEPT ![c] = "aborted"]
    <3>1. \A d \in Conns : phase[d] = "open" => phase'[d] = "open"
      BY <1>0, <2>1 DEF TypeOK
    <3>2. QED
      BY <1>1, <3>1
  <2>2. CASE phase[c] = "open" /\ Disconnect({url[c]}, {c})
    <3>1. {url[c]} \in SUBSET Servers /\ {c} \in SUBSET Conns
      BY <1>0, <2>2 DEF SessionsAreHeld
    <3>2. \A d \in {c} : url[d] \in {url[c]}
      OBVIOUS
    <3>3. QED
      BY <1>0, <2>2, <3>1, <3>2, DisconnectUnbinds
  <2>3. QED
    BY <1>7, <2>1, <2>2 DEF Drop
<1>8. ASSUME NEW e \in Editors, Answer(e)
      PROVE  EndUnbinds
  <2>1. CASE Unsupported(e) /\ request[e].fresh
    <3>1. url[request[e].conn] \in Servers /\ Disconnect({url[request[e].conn]}, {})
      BY <1>0, <2>1 DEF Unsupported, RequestsNameConns
    <3>2. QED
      BY <1>3, <3>1
  <2>2. CASE ~(Unsupported(e) /\ request[e].fresh)
    BY <1>4, <1>8, <2>2
       DEF Answer, ApplyPick, CancelPick, Supported, Unsupported, QueryFails, connVars
  <2>3. QED
    BY <2>1, <2>2
<1>9. ASSUME NEW C \in SUBSET Servers, LoadConfig(C)
      PROVE  EndUnbinds
  <2> DEFINE S == {s \in {s \in Servers : kind[s] # "managed"} \ C : HasConn(s)}
  <2>1. S \in SUBSET Servers /\ Disconnect(S, {})
    BY <1>9 DEF LoadConfig
  <2> HIDE DEF S
  <2>2. QED
    BY <1>2, <2>1
<1>10. ASSUME NEW U \in SUBSET Servers, SyncManaged(U)
       PROVE  EndUnbinds
  <2> DEFINE S == {s \in Servers : kind[s] = "managed"} \ U
  <2>1. S \in SUBSET Servers /\ Disconnect(S, {})
    BY <1>10 DEF SyncManaged
  <2> HIDE DEF S
  <2>2. QED
    BY <1>2, <2>1
<1>11. QED
  BY <1>3, <1>4, <1>5, <1>6, <1>7, <1>8, <1>9, <1>10
     DEF Next, vars, ConnectCommand, ConnectEditor, DisconnectServer, ServerStopped,
         ServerStarted, PickConnection, DisconnectEditor, connVars

(* However an established connection ends, its editors lose their binding and  *)
(* the others keep theirs.                                                     *)
THEOREM EndingUnbinds == ~RemoveWhilePending => (Spec => EndedIsUnbound)
<1>1. IInv /\ [Next]_vars => [EndUnbinds]_vars
  BY UnbindStep
<1>2. SUFFICES ASSUME ~RemoveWhilePending
               PROVE  Spec => EndedIsUnbound
  OBVIOUS
<1>3. Spec => []IInv
  BY <1>2, InvCorrect
<1>4. EndedIsUnbound <=> [][EndUnbinds]_vars
  BY DEF EndedIsUnbound, EndUnbinds
<1>5. QED
  BY <1>1, <1>3, <1>4, PTL DEF Spec

-----------------------------------------------------------------------------
(* CoreConnections implements ConnectionSlots: what ServerManager's two    *)
(* maps do to one server is what a slot does.                              *)

LEMMA SlotValue ==
    ASSUME NEW s \in Servers
    PROVE  /\ Slot[s] = SlotOf(s)
           /\ pending[s] # None => Slot[s] = Slots!Busy(pending[s])
           /\ pending[s] = None /\ connMap[s] # None => Slot[s] = Slots!Up(connMap[s])
           /\ pending[s] = None /\ connMap[s] = None => Slot[s] = Slots!Free
BY DEF Slot, SlotOf, HasConn, Slots!Busy, Slots!Up, Slots!Free

LEMMA SlotValueNext ==
    ASSUME NEW s \in Servers
    PROVE  /\ pending'[s] # None => Slot'[s] = Slots!Busy(pending'[s])
           /\ pending'[s] = None /\ connMap'[s] # None => Slot'[s] = Slots!Up(connMap'[s])
           /\ pending'[s] = None /\ connMap'[s] = None => Slot'[s] = Slots!Free
BY DEF Slot, SlotOf, HasConn, Slots!Busy, Slots!Up, Slots!Free

(* A step that changes the entries of one server changes one slot.           *)
LEMMA OneSlot ==
    ASSUME NEW s \in Servers,
           \A t \in Servers \ {s} : pending'[t] = pending[t] /\ connMap'[t] = connMap[t]
    PROVE  Slot' = [Slot EXCEPT ![s] = Slot'[s]]
<1>1. \A t \in Servers \ {s} : Slot'[t] = Slot[t]
  BY DEF Slot, SlotOf, HasConn
<1>2. QED
  BY <1>1 DEF Slot

LEMMA SlotInit == Init => Slots!Init
<1> SUFFICES ASSUME Init
             PROVE  Slots!Init
  OBVIOUS
<1>1. \A s \in Servers : SlotOf(s) = Slots!Free
  BY DEF Init, SlotOf, HasConn, Slots!Free
<1>2. Slot = [s \in Servers |-> Slots!Free]
  BY <1>1 DEF Slot
<1>3. Used = {}
  BY DEF Init, Used
<1>4. QED
  BY <1>2, <1>3 DEF Slots!Init

(* A step that keeps the pending entries and ends sessions of S at most.    *)
LEMMA EndsSlots ==
    ASSUME NEW S \in SUBSET Servers,
           UNCHANGED pending,
           \A s \in Servers : connMap'[s] = IF s \in S THEN None ELSE connMap[s],
           Used' = Used
    PROVE  Slots!Next
<1> DEFINE X == {s \in S : pending[s] = None}
<1>1. \A s \in Servers : SlotOf(s)' = IF s \in X THEN Slots!Free ELSE Slot[s]
  BY DEF Slot, SlotOf, HasConn, Slots!Free
<1>2. Slot' = [s \in Servers |-> IF s \in X THEN Slots!Free ELSE Slot[s]]
  BY <1>1 DEF Slot
<1>3. X \in SUBSET Servers
  OBVIOUS
<1> HIDE DEF X
<1>4. Slots!End(X)
  BY <1>2 DEF Slots!End
<1>5. QED
  BY <1>3, <1>4 DEF Slots!Next

(* Disconnecting S does that.                                               *)
LEMMA DisconnectEnds ==
    ASSUME TypeOK, NEW S \in SUBSET Servers, NEW K \in SUBSET Conns, Disconnect(S, K),
           \A c \in K : phase[c] # "unused",
           \A s \in S : connMap[s] # None => phase[connMap[s]] # "unused",
           UNCHANGED pending
    PROVE  Slots!Next
<1>1. /\ \A s \in Servers : connMap'[s] = IF s \in S THEN None ELSE connMap[s]
      /\ \A c \in Conns :
           phase'[c] = IF (\E s \in S : connMap[s] = c) \/ c \in K
                       THEN Disposed(phase[c]) ELSE phase[c]
  BY DisconnectEffect
<1>2. \A c \in Conns : phase'[c] = "unused" <=> phase[c] = "unused"
  BY <1>1, CoreAssumption DEF Disposed
<1>3. Used' = Used
  BY <1>2 DEF Used
<1>4. QED
  BY <1>1, <1>3, EndsSlots

(* Starting an attempt takes the server's free slot.                         *)
LEMMA StartBegins ==
    ASSUME IInv, NEW s \in Servers, NEW c \in Conns, Start(s, c)
    PROVE  Slots!Next
<1> USE CoreAssumption
<1>1. TypeOK
  BY DEF IInv
<1>2. connMap[s] = None
  BY StartIsFirst
<1>3. pending[s] = None /\ phase[c] = "unused"
  BY DEF Start, MayStart
<1>4. /\ pending' = [pending EXCEPT ![s] = c]
      /\ phase' = [phase EXCEPT ![c] = IF s \in clients THEN "session" ELSE "login"]
      /\ connMap' = IF s \in clients THEN [connMap EXCEPT ![s] = c] ELSE connMap
  BY DEF Start
<1>5. Slot[s] = Slots!Free
  BY <1>2, <1>3, SlotValue
<1>6. pending'[s] = c /\ c # None
  BY <1>1, <1>4 DEF TypeOK
<1>7. Slot'[s] = Slots!Busy(c)
  BY <1>6, SlotValueNext
<1>8. Slot' = [Slot EXCEPT ![s] = Slot'[s]]
  <2>1. \A t \in Servers \ {s} : pending'[t] = pending[t] /\ connMap'[t] = connMap[t]
    BY <1>1, <1>4 DEF TypeOK
  <2>2. QED
    BY <2>1, OneSlot
<1>9. c \notin Used /\ Used' = Used \cup {c}
  BY <1>1, <1>3, <1>4 DEF Used, TypeOK
<1>10. Slots!Begin(s, c)
  BY <1>5, <1>7, <1>8, <1>9 DEF Slots!Begin
<1>11. QED
  BY <1>10 DEF Slots!Next

(* A step of an attempt keeps its slot, frees it, or establishes it.         *)
LEMMA AttemptMoves ==
    ASSUME IInv, NEW c \in Conns, Attempt(c) \/ (Drop(c) /\ phase[c] = "plugins")
    PROVE  Slots!Next \/ UNCHANGED <<Slot, Used>>
<1> USE CoreAssumption DEF InFlight, InSession, serverVars, editorVars
<1>1. TypeOK /\ AttemptsArePending /\ SessionsAreHeld /\ PendingIsAttempt
  BY DEF IInv, ConnInv
<1>2. /\ phase[c] \in InFlight
      /\ Used' = Used
  <2>1. \A d \in Conns : phase'[d] = "unused" <=> phase[d] = "unused"
    BY <1>1 DEF Attempt, LoginOk, LoginFail, LoginThrows, SessionCreated, Connected,
       SessionFail, Fails, Drop, TypeOK
  <2>2. QED
    BY <2>1 DEF Used, Attempt, LoginOk, LoginFail, LoginThrows, SessionCreated,
       Connected, SessionFail, Fails, Drop
<1>3. /\ url[c] \in Servers /\ pending[url[c]] = c /\ c # None
      /\ connMap[url[c]] \in {None, c}
  BY <1>1, <1>2 DEF AttemptsArePending, PendingIsAttempt
<1>4. Slot[url[c]] = Slots!Busy(c)
  BY <1>3, SlotValue
<1>5. ASSUME UNCHANGED pending,
             \A t \in Servers \ {url[c]} : connMap'[t] = connMap[t]
      PROVE  UNCHANGED <<Slot, Used>>
  <2>1. \A t \in Servers : SlotOf(t)' = SlotOf(t)
    BY <1>3, <1>5 DEF SlotOf, HasConn
  <2>2. QED
    BY <1>2, <2>1 DEF Slot
<1>6. CASE LoginOk(c) \/ LoginThrows(c) \/ SessionCreated(c)
           \/ (Drop(c) /\ phase[c] = "plugins")
  BY <1>1, <1>3, <1>5, <1>6 DEF LoginOk, LoginThrows, SessionCreated, Drop, TypeOK
<1>7. CASE LoginFail(c) \/ SessionFail(c)
  <2>1. /\ pending' = [pending EXCEPT ![url[c]] = None]
        /\ \/ connMap' = connMap /\ phase[c] = "login"
           \/ connMap' = [connMap EXCEPT ![url[c]] = None]
    BY <1>7 DEF LoginFail, SessionFail, Settle
  <2>2. connMap'[url[c]] = None /\ pending'[url[c]] = None
    <3>1. phase[c] = "login" => connMap[url[c]] = None
      BY <1>3 DEF IInv, ConnInv, HeldIsSession
    <3>2. QED
      BY <1>1, <1>3, <2>1, <3>1 DEF TypeOK
  <2>3. Slot'[url[c]] = Slots!Free
    BY <1>3, <2>2, SlotValueNext
  <2>4. Slot' = [Slot EXCEPT ![url[c]] = Slot'[url[c]]]
    <3>1. \A t \in Servers \ {url[c]} : pending'[t] = pending[t] /\ connMap'[t] = connMap[t]
      BY <1>1, <2>1 DEF TypeOK
    <3>2. QED
      BY <1>3, <3>1, OneSlot
  <2>5. Slot' = [s \in Servers |-> IF s \in {url[c]} THEN Slots!Free ELSE Slot[s]]
    BY <2>3, <2>4 DEF Slot
  <2>6. Slots!End({url[c]}) /\ {url[c]} \in SUBSET Servers
    BY <1>2, <1>3, <2>5 DEF Slots!End
  <2>7. QED
    BY <2>6 DEF Slots!Next
<1>8. CASE Connected(c)
  <2>1. /\ pending' = [pending EXCEPT ![url[c]] = None]
        /\ connMap' = connMap
        /\ connMap[url[c]] = c
    BY <1>1, <1>8 DEF Connected, Settle, SessionsAreHeld
  <2>2. pending'[url[c]] = None /\ connMap'[url[c]] = c
    BY <1>1, <1>3, <2>1 DEF TypeOK
  <2>3. Slot'[url[c]] = Slots!Up(c)
    BY <1>3, <2>2, SlotValueNext
  <2>4. Slot' = [Slot EXCEPT ![url[c]] = Slot'[url[c]]]
    <3>1. \A t \in Servers \ {url[c]} : pending'[t] = pending[t] /\ connMap'[t] = connMap[t]
      BY <1>1, <2>1 DEF TypeOK
    <3>2. QED
      BY <1>3, <3>1, OneSlot
  <2>5. Slots!Establish(url[c], c)
    BY <1>2, <1>4, <2>3, <2>4 DEF Slots!Establish
  <2>6. QED
    BY <1>3, <2>5 DEF Slots!Next
<1>9. QED
  BY <1>6, <1>7, <1>8 DEF Attempt

-----------------------------------------------------------------------------
LEMMA SlotStep == IInv /\ [Next]_vars => [Slots!Next]_Slots!vars
<1> SUFFICES ASSUME IInv, [Next]_vars
             PROVE  Slots!Next \/ UNCHANGED <<Slot, Used>>
  BY DEF Slots!vars
<1> USE CoreAssumption
<1>0. TypeOK /\ SessionsAreHeld /\ HeldIsSession /\ RequestsNameConns
  BY DEF IInv, ConnInv
<1>1. ASSUME UNCHANGED connVars
      PROVE  UNCHANGED <<Slot, Used>>
  BY <1>1 DEF connVars, Slot, SlotOf, HasConn, Used
<1>2. ASSUME NEW S \in SUBSET Servers, Disconnect(S, {}), UNCHANGED pending
      PROVE  Slots!Next
  <2>1. \A s \in S : connMap[s] # None => phase[connMap[s]] # "unused"
    BY <1>0 DEF HeldIsSession, InSession
  <2>2. {} \in SUBSET Conns /\ \A c \in {} : phase[c] # "unused"
    OBVIOUS
  <2>3. QED
    BY <1>0, <1>2, <2>1, <2>2, DisconnectEnds
<1>3. ASSUME NEW s \in Servers, Disconnect({s}, {}), UNCHANGED pending
      PROVE  Slots!Next
  <2>1. {s} \in SUBSET Servers
    OBVIOUS
  <2>2. QED
    BY <1>2, <1>3, <2>1
<1>4. ASSUME NEW c \in Conns, Attempt(c) \/ Drop(c)
      PROVE  Slots!Next \/ UNCHANGED <<Slot, Used>>
  <2>1. CASE Attempt(c) \/ (Drop(c) /\ phase[c] = "plugins")
    BY <2>1, AttemptMoves
  <2>2. CASE Drop(c) /\ phase[c] # "plugins"
    <3>1. phase[c] = "open" /\ Disconnect({url[c]}, {c}) /\ UNCHANGED pending
      BY <2>2 DEF Drop
    <3>2. {url[c]} \in SUBSET Servers /\ {c} \in SUBSET Conns
      BY <1>0, <3>1 DEF SessionsAreHeld
    <3>3. \A s \in {url[c]} : connMap[s] # None => phase[connMap[s]] # "unused"
      BY <1>0, <3>2 DEF HeldIsSession, InSession
    <3>4. \A d \in {c} : phase[d] # "unused"
      BY <3>1
    <3>5. QED
      BY <1>0, <3>1, <3>2, <3>3, <3>4, DisconnectEnds
  <2>3. QED
    BY <1>4, <2>1, <2>2
<1>5. ASSUME NEW e \in Editors, Answer(e)
      PROVE  Slots!Next \/ UNCHANGED <<Slot, Used>>
  <2>1. CASE Unsupported(e) /\ request[e].fresh
    <3>1. /\ url[request[e].conn] \in Servers
          /\ Disconnect({url[request[e].conn]}, {})
          /\ UNCHANGED pending
      BY <1>0, <2>1 DEF Unsupported, RequestsNameConns
    <3>2. QED
      BY <1>3, <3>1
  <2>2. CASE ~(Unsupported(e) /\ request[e].fresh)
    BY <1>1, <1>5, <2>2
       DEF Answer, ApplyPick, CancelPick, Supported, Unsupported, QueryFails, connVars
  <2>3. QED
    BY <2>1, <2>2
<1>6. ASSUME NEW C \in SUBSET Servers, LoadConfig(C)
      PROVE  Slots!Next
  <2> DEFINE S == {s \in {s \in Servers : kind[s] # "managed"} \ C : HasConn(s)}
  <2>1. S \in SUBSET Servers /\ Disconnect(S, {}) /\ UNCHANGED pending
    BY <1>6 DEF LoadConfig
  <2> HIDE DEF S
  <2>2. QED
    BY <1>2, <2>1
<1>7. ASSUME NEW U \in SUBSET Servers, SyncManaged(U)
      PROVE  Slots!Next
  <2> DEFINE S == {s \in Servers : kind[s] = "managed"} \ U
  <2>1. S \in SUBSET Servers /\ Disconnect(S, {}) /\ UNCHANGED pending
    BY <1>7 DEF SyncManaged
  <2> HIDE DEF S
  <2>2. QED
    BY <1>2, <2>1
<1>8. QED
  BY <1>1, <1>3, <1>4, <1>5, <1>6, <1>7, StartBegins
     DEF Next, vars, ConnectCommand, ConnectEditor, DisconnectServer, ServerStopped,
         ServerStarted, PickConnection, DisconnectEditor

(* Each server's entries in _pendingConnectionMap and _connectionMap are one    *)
(* slot, whatever the calls, the answers and the disconnects do.                *)
THEOREM SlotsAreImplemented == ~RemoveWhilePending => (Spec => ImplementsSlots)
<1>1. Init => Slots!Init
  BY SlotInit
<1>2. IInv /\ [Next]_vars => [Slots!Next]_Slots!vars
  BY SlotStep
<1>3. SUFFICES ASSUME ~RemoveWhilePending
               PROVE  Spec => ImplementsSlots
  OBVIOUS
<1>4. Spec => []IInv
  BY <1>3, InvCorrect
<1>5. QED
  BY <1>1, <1>2, <1>4, PTL DEF Spec, ImplementsSlots, Slots!Spec
=============================================================================
