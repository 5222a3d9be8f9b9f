---------------------------- MODULE CoreLogins ----------------------------
(***************************************************************************)
(* Logins to Core servers: UserLoginController.onCreateCoreAuthenticated-   *)
(* Client (controllers/UserLoginController.ts) with the pre-shared keys of  *)
(* SecretService and of the servers the extension manages (ServerManager).  *)
(***************************************************************************)
EXTENDS Secrets

CONSTANTS
    Accepted,   \* the pre-shared key that servers accept
    Rejected,   \* one that they do not
    Managed,    \* servers that the extension starts itself
    Manager     \* the caller for these

ASSUME CoreLoginsAssumption ==
    /\ Servers \cup {Manager} \subseteq Callers /\ Manager \notin Servers /\ Managed \subseteq Servers
    /\ Accepted # Rejected /\ Null \notin {Accepted, Rejected}

VARIABLES
    at,         \* how far the login to a server is
    credentials, \* its credentials: a pre-shared key or another kind
    clients     \* coreClientCache: servers that have an authenticated client

coreLoginVars == <<at, credentials, clients>>

CoreLoginsInit ==
    /\ SecretsInit
    /\ at = [s \in Servers |-> "none"]
    /\ credentials = [s \in Servers |-> "none"]
    /\ clients = {}

Step(s, from, to) == at[s] = from /\ at' = [at EXCEPT ![s] = to]
Psks == {Accepted, Rejected}

\* A connection to the server asks for a client; there is one at a time for a server.
onCreateCoreAuthenticatedClient(s) ==
    /\ s \notin clients
    /\ Step(s, "none", "config")
    /\ UNCHANGED <<credentials, clients, secretVars>>

\* The client could not be made or asked, supports no method, or has no worker credentials.
NotSupported(s) ==
    /\ Step(s, "config", "none")
    /\ UNCHANGED <<credentials, clients, secretVars>>

\* Anonymous logins and those to workers have credentials that are not stored.
OtherCredentials(s) ==
    /\ Step(s, "config", "login")
    /\ credentials' = [credentials EXCEPT ![s] = "other"]
    /\ UNCHANGED <<clients, secretVars>>

AskForPsk(s) ==
    /\ Step(s, "config", "psk")
    /\ get(s, s)
    /\ UNCHANGED <<credentials, clients>>

storePsk(queue, s, psk) ==
    /\ credentials' = [credentials EXCEPT ![s] = psk]
    /\ Called(queue, Request("store", s, s, psk, FALSE))
    /\ UNCHANGED clients

\* A key that is tried is stored first, the one that was read as well.
PskKnown(s) ==
    /\ Answers(s) /\ Secret(record, s) # Null
    /\ Step(s, "psk", "login")
    /\ storePsk(Tail(requests), s, Secret(record, s))

PromptForPsk(s) ==
    /\ Answers(s) /\ Secret(record, s) = Null
    /\ Step(s, "psk", "prompt")
    /\ requests' = Tail(requests)
    /\ UNCHANGED <<credentials, clients, record, meant, overlapped>>

PskEntered(s) ==
    /\ Step(s, "prompt", "login")
    /\ \E psk \in Psks : storePsk(requests, s, psk)

PromptCancelled(s) ==
    /\ Step(s, "prompt", "none")
    /\ UNCHANGED <<credentials, clients, secretVars>>

LoggedIn(s) ==
    /\ credentials[s] # Rejected
    /\ Step(s, "login", "none")
    /\ clients' = clients \cup {s}
    /\ credentials' = [credentials EXCEPT ![s] = "none"]
    /\ UNCHANGED secretVars

PskKept(s) == UNCHANGED secretVars
deletePsk(s) == Called(requests, Request("delete", s, s, Null, TRUE))

\* Login failed, for whatever reason: a pre-shared key is forgotten.
LoginFailed(s) ==
    /\ clients' = clients \ {s}
    /\ IF credentials[s] \in Psks THEN deletePsk(s) ELSE UNCHANGED secretVars
    /\ credentials' = [credentials EXCEPT ![s] = "none"]
    /\ Step(s, "login", "forget")

LoginEnds(s) ==
    /\ ~Awaits(s)
    /\ Step(s, "forget", "none")
    /\ UNCHANGED <<credentials, clients, secretVars>>

\* The connection to the server has ended, or its server is gone.
ClientDropped(s) ==
    /\ s \in clients /\ clients' = clients \ {s}
    /\ UNCHANGED <<at, credentials, secretVars>>

\* A server that the extension is to start is given a key, which is not awaited.
syncManagedServers(s) ==
    /\ s \in Managed /\ at[s] = "none" /\ s \notin clients
    /\ ~\E i \in DOMAIN requests : requests[i].by = Manager
    /\ Called(requests, Request("store", Manager, s, Accepted, FALSE))
    /\ UNCHANGED coreLoginVars

\* The user clears the secret storage.
onClearSecretStorage ==
    /\ ~Awaits(Manager) /\ clearStorage(Manager)
    /\ UNCHANGED coreLoginVars

CoreLoginsNext ==
    \/ StorageAnswers /\ UNCHANGED coreLoginVars
    \/ \E s \in Servers :
         \/ onCreateCoreAuthenticatedClient(s) \/ NotSupported(s) \/ OtherCredentials(s)
         \/ AskForPsk(s) \/ PskKnown(s) \/ PromptForPsk(s) \/ PskEntered(s) \/ PromptCancelled(s)
         \/ LoggedIn(s) \/ LoginFailed(s) \/ LoginEnds(s) \/ ClientDropped(s)
         \/ syncManagedServers(s)
    \/ onClearSecretStorage

CoreLoginsSpec == CoreLoginsInit /\ [][CoreLoginsNext]_<<coreLoginVars, secretVars>>

-----------------------------------------------------------------------------
(* Properties.                                                             *)

\* A key that a server rejected is not kept once the login is over, so that the next one asks
\* the user, unless calls to the storage overlapped (onCreateCoreAuthenticatedClient stores
\* the key before it is tried).
RejectedPskIsForgotten ==
    \A s \in Servers : (at[s] = "none" /\ ~Writing /\ ~overlapped) => Secret(record, s) # Rejected

=============================================================================
