----------------------------- MODULE SamlLogins -----------------------------
(***************************************************************************)
(* Logins to Enterprise servers through the browser: SamlAuthProvider       *)
(* (providers/SamlAuthProvider.ts) and UriEventHandler.  The browser sends   *)
(* the user back with a URI that carries the state id of the login; every    *)
(* login that waits gets every URI.  The logins of a server follow each      *)
(* other, those of several servers overlap.                                 *)
(***************************************************************************)
CONSTANTS
    SamlServers,
    StateIds,   \* one for each run of the login workflow, with its session key
    NoState

VARIABLES
    pendingAuthState,   \* the state id of the login to a server
    session,            \* how far createSession is for a server
    opened,             \* logins whose page is open in the browser
    confirmed,          \* those that the user has completed there
    samlClients         \* dheClientCache: the login that authenticated a server's client

samlVars == <<pendingAuthState, session, opened, confirmed, samlClients>>

SamlInit ==
    /\ pendingAuthState = [s \in SamlServers |-> NoState]
    /\ session = [s \in SamlServers |-> "none"]
    /\ opened = {} /\ confirmed = {}
    /\ samlClients = [s \in SamlServers |-> NoState]

SessionStep(s, from, to) == session[s] = from /\ session' = [session EXCEPT ![s] = to]

\* The login page is opened with the id in its redirect URL.
runSamlLoginWorkflow(s, id) ==
    /\ id \notin opened /\ samlClients[s] = NoState
    /\ SessionStep(s, "none", "opening")
    /\ pendingAuthState' = [pendingAuthState EXCEPT ![s] = id]
    /\ opened' = opened \cup {id}
    /\ UNCHANGED <<confirmed, samlClients>>

\* Only once the page is open does the login listen to redirects; it may never open.
Waits(s) ==
    /\ SessionStep(s, "opening", "waiting") \/ SessionStep(s, "opening", "failed")
    /\ UNCHANGED <<pendingAuthState, opened, confirmed, samlClients>>

\* A faulty variant of the operator it stands before.
AnyRedirect(s, id) == pendingAuthState[s] # NoState
handleUriEventForServer(s, id) == pendingAuthState[s] = id

\* A page redirects, perhaps late or again: a waiting login with another id fails.
Redirect(id) ==
    /\ id \in opened
    /\ confirmed' = confirmed \cup {id}
    /\ session' = [s \in SamlServers |->
         IF session[s] # "waiting" THEN session[s]
         ELSE IF handleUriEventForServer(s, id) THEN "login" ELSE "failed"]
    /\ UNCHANGED <<pendingAuthState, opened, samlClients>>

\* After a minute, or when the user cancels.
Cancelled(s) ==
    /\ SessionStep(s, "waiting", "failed")
    /\ UNCHANGED <<pendingAuthState, opened, confirmed, samlClients>>

\* The login with the session key ends; what is pending is deleted in any case.
LoginWithKey(s) ==
    /\ session[s] \in {"login", "failed"}
    /\ session' = [session EXCEPT ![s] = "none"]
    /\ pendingAuthState' = [pendingAuthState EXCEPT ![s] = NoState]
    /\ \/ session[s] = "login" /\ pendingAuthState[s] \in confirmed
          /\ samlClients' = [samlClients EXCEPT ![s] = pendingAuthState[s]]
       \/ samlClients' = [samlClients EXCEPT ![s] = NoState]
    /\ UNCHANGED <<opened, confirmed>>

SamlDisconnect(s) ==
    /\ samlClients[s] # NoState
    /\ samlClients' = [samlClients EXCEPT ![s] = NoState]
    /\ UNCHANGED <<pendingAuthState, session, opened, confirmed>>

SamlNext ==
    \/ \E s \in SamlServers :
         \/ \E id \in StateIds : runSamlLoginWorkflow(s, id)
         \/ Waits(s) \/ Cancelled(s) \/ LoginWithKey(s) \/ SamlDisconnect(s)
    \/ \E id \in StateIds : Redirect(id)

SamlSpec == SamlInit /\ [][SamlNext]_samlVars

-----------------------------------------------------------------------------
(* Properties.                                                             *)

\* A session key is tried only when the user completed the login it belongs to, whatever pages
\* of other servers or of logins given up redirect meanwhile (createSession logs in with the
\* key of its own page once any redirect has been accepted).
LoginsWereConfirmed == \A s \in SamlServers : session[s] = "login" => pendingAuthState[s] \in confirmed

=============================================================================
