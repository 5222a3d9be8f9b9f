-------------------------- MODULE EnterpriseLogins --------------------------
(***************************************************************************)
(* Logins to Enterprise servers with passwords and private keys, and the    *)
(* generation of key pairs: UserLoginController.onCreateDHEAuthenticated-   *)
(* Client and onDidRequestGenerateDheKeyPair (controllers/UserLogin-        *)
(* Controller.ts) with the key record of SecretService.                     *)
(***************************************************************************)
EXTENDS Secrets, Naturals

CONSTANTS
    Users,
    Generations,    \* requests for a key pair; the pair is named after its request
    Clearer         \* the caller that clears the storage

ASSUME EnterpriseLoginsAssumption == Servers \cup Generations \cup {Clearer} \subseteq Callers

VARIABLES
    login,      \* how far the login to a server is
    user,       \* who logs in
    key,        \* with which key pair, if with one
    cached,     \* dheClientCache: servers that have an authenticated client
    published,  \* the public keys that a server has
    generation, \* how far a request for a key pair is, and for which server and user
    deleting    \* deletions of public keys that are under way, as <<server, key>>

enterpriseVars == <<login, user, key, cached, published, generation, deleting>>
loginVars == <<login, user, key, cached>>
keyVars == <<published, generation, deleting>>

EnterpriseLoginsInit ==
    /\ SecretsInit
    /\ login = [s \in Servers |-> "none"]
    /\ user = [s \in Servers |-> Null] /\ key = [s \in Servers |-> Null]
    /\ cached = {} /\ published = [s \in Servers |-> {}]
    /\ generation = [g \in Generations |-> [at |-> "none", server |-> Null, user |-> Null]]
    /\ deleting = {}

\* getServerKeys: the key pairs of a server by user.
ServerKeys(rec, s) == IF Secret(rec, s) = Null THEN <<>> ELSE rec[s]

-----------------------------------------------------------------------------
(* Login                                                                   *)

LoginStep(s, from, to) == login[s] = from /\ login' = [login EXCEPT ![s] = to]
As(s, u, k) == user' = [user EXCEPT ![s] = u] /\ key' = [key EXCEPT ![s] = k]

onCreateDHEAuthenticatedClient(s) ==
    /\ s \notin cached /\ LoginStep(s, "none", "keys")
    /\ get(s, s)
    /\ UNCHANGED <<user, key, cached, keyVars>>

\* The user is asked for credentials: a password, or one of the keys read.
Prompt(s) ==
    /\ Answers(s)
    /\ \/ LoginStep(s, "keys", "login") /\ (\E u \in Users : As(s, u, Null))
       \/ LoginStep(s, "keys", "key") /\ \E u \in DOMAIN ServerKeys(record, s) : As(s, u, Null)
       \/ LoginStep(s, "keys", "none") /\ UNCHANGED <<user, key>>
    /\ requests' = Tail(requests)
    /\ UNCHANGED <<record, meant, overlapped, cached, keyVars>>

\* For a login with a private key the keys are read again.
AskForKey(s) ==
    /\ LoginStep(s, "key", "pair") /\ get(s, s)
    /\ UNCHANGED <<user, key, cached, keyVars>>

\* The key may be gone by now: the login fails without asking the server.
KeyKnown(s) ==
    LET keys == ServerKeys(record, s) IN
    /\ Answers(s)
    /\ IF user[s] \in DOMAIN keys THEN LoginStep(s, "pair", "login") /\ As(s, user[s], keys[user[s]])
                                  ELSE LoginStep(s, "pair", "failed") /\ UNCHANGED <<user, key>>
    /\ requests' = Tail(requests)
    /\ UNCHANGED <<record, meant, overlapped, cached, keyVars>>

\* The server lets the user in, who has interactive permission.
LoginSucceeds(s) ==
    /\ key[s] = Null \/ key[s] \in published[s]
    /\ LoginStep(s, "login", "none") /\ As(s, Null, Null)
    /\ cached' = cached \cup {s}
    /\ UNCHANGED <<keyVars, secretVars>>

\* Wrong credentials, no permission, no answer: a user's key pair is forgotten.
LoginFails(s) ==
    /\ login[s] \in {"login", "failed"}
    /\ login' = [login EXCEPT ![s] = "forget"]
    /\ IF key[s] # Null \/ login[s] = "failed"
       THEN Called(requests, Request("forget", s, s, user[s], TRUE))
       ELSE UNCHANGED secretVars
    /\ As(s, Null, Null)
    /\ cached' = cached \ {s}
    /\ UNCHANGED keyVars

LoginOver(s) ==
    /\ ~Awaits(s) /\ LoginStep(s, "forget", "none")
    /\ UNCHANGED <<user, key, cached, keyVars, secretVars>>

ClientInvalidated(s) ==
    /\ s \in cached /\ cached' = cached \ {s}
    /\ UNCHANGED <<login, user, key, keyVars, secretVars>>

-----------------------------------------------------------------------------
(* Key pairs                                                               *)

Moves(g, from, to) == generation[g].at = from /\ generation' = [generation EXCEPT ![g].at = to]

\* The user has logged in with a password and the new public key is uploaded.
uploadPublicKey(g) ==
    /\ generation[g].at = "none"
    /\ \E s \in Servers, u \in Users :
         /\ generation' = [generation EXCEPT ![g] = [at |-> "uploaded", server |-> s, user |-> u]]
         /\ published' = [published EXCEPT ![s] = @ \cup {g}]
    /\ UNCHANGED <<loginVars, deleting, secretVars>>

AskForOldKeys(g) ==
    /\ Moves(g, "uploaded", "keys") /\ get(g, generation[g].server)
    /\ UNCHANGED <<loginVars, published, deleting>>

New(g) == [u \in {generation[g].user} |-> g]
\* A faulty variant of the operator it stands before: the old keys are read once the new one
\* is stored.
StoredKeys(g) == ServerKeys(With(record, generation[g].server, New(g)), generation[g].server)
OldKeys(g) == ServerKeys(record, generation[g].server)

\* The deletion of the old keys is not awaited; the new one replaces them in the record.
KeysReplaced(g) ==
    LET s == generation[g].server IN
    /\ Answers(g)
    /\ Moves(g, "keys", "store")
    /\ deleting' = deleting \cup {<<s, k>> : k \in Range(OldKeys(g))}
    /\ Called(Tail(requests), Request("store", g, s, New(g), TRUE))
    /\ UNCHANGED <<loginVars, published>>

KeyPairGenerated(g) ==
    /\ ~Awaits(g) /\ Moves(g, "store", "done")
    /\ UNCHANGED <<loginVars, published, deleting, secretVars>>

\* A login with the old key and the deletion of its public half; any error is ignored.
deleteUserPublicKey ==
    \E d \in deleting :
       /\ deleting' = deleting \ {d}
       /\ \E gone \in SUBSET {d[2]} : published' = [published EXCEPT ![d[1]] = @ \ gone]
       /\ UNCHANGED <<loginVars, generation, secretVars>>

EnterpriseLoginsNext ==
    \/ StorageAnswers /\ UNCHANGED enterpriseVars
    \/ \E s \in Servers :
         \/ onCreateDHEAuthenticatedClient(s) \/ Prompt(s) \/ AskForKey(s) \/ KeyKnown(s)
         \/ LoginSucceeds(s) \/ LoginFails(s) \/ LoginOver(s) \/ ClientInvalidated(s)
    \/ \E g \in Generations :
         uploadPublicKey(g) \/ AskForOldKeys(g) \/ KeysReplaced(g) \/ KeyPairGenerated(g)
    \/ deleteUserPublicKey
    \/ ~Awaits(Clearer) /\ clearStorage(Clearer) /\ UNCHANGED enterpriseVars

EnterpriseLoginsSpec == EnterpriseLoginsInit /\ [][EnterpriseLoginsNext]_<<enterpriseVars, secretVars>>

-----------------------------------------------------------------------------
(* Properties.                                                             *)

\* What deletes old keys never deletes the one that is stored: every stored key is known to its
\* server, whatever logins failed and whichever pairs were asked for meanwhile, unless calls to
\* the storage overlapped.
StoredKeysWork ==
    (~Writing /\ ~overlapped) =>
        \A s \in Servers : Range(ServerKeys(record, s)) \subseteq published[s]

=============================================================================
