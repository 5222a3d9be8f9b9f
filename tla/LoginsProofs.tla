---------------------------- MODULE LoginsProofs ----------------------------
(***************************************************************************)
(* Proofs about the secret storage under logins to Core and to Enterprise    *)
(* servers, about logins through the browser and about the queries of the    *)
(* workers that are created, for any number of servers, users, logins,     *)
(* creations and versions.                                                 *)
(***************************************************************************)
EXTENDS MCRequests, SequenceTheorems, TLAPS

Kinds == {"read", "store", "delete", "forget", "clear", "write"}
Requests(S) == [kind : Kinds, by : S, server : S, secret : S, awaited : BOOLEAN]

Writes(request) == request.kind # "read"

\* What the record will be when a request that writes has been handled.
Outcome(request, rec) == IF request.kind = "write" THEN request.secret ELSE Effect(request, rec)

\* As long as no calls overlapped, one request of the queue at most writes, and its outcome is
\* what the calls meant the record to be.
Settles(q, rec, m) ==
    /\ \A i, j \in 1 .. Len(q) : Writes(q[i]) /\ Writes(q[j]) => i = j
    /\ \A i \in 1 .. Len(q) : Writes(q[i]) => m = Outcome(q[i], rec)
    /\ (\A i \in 1 .. Len(q) : ~Writes(q[i])) => rec = m
WellFormed(q) ==
    /\ \E S : q \in Seq(Requests(S))
    /\ \A i \in 1 .. Len(q) : q[i].kind = "clear" => q[i].secret = Null

SecretsInv == WellFormed(requests) /\ (~overlapped => Settles(requests, record, meant))

-----------------------------------------------------------------------------
(* The secret storage                                                      *)

\* A queue without its first request.
LEMMA TailOfQueue ==
    ASSUME NEW S, NEW q \in Seq(S), q # <<>>
    PROVE  /\ Tail(q) \in Seq(S) /\ Len(Tail(q)) = Len(q) - 1
           /\ 1 \in 1 .. Len(q) /\ Head(q) = q[1] /\ Head(q) \in S
           /\ \A i \in 1 .. Len(Tail(q)) : Tail(q)[i] = q[i + 1] /\ i + 1 \in 1 .. Len(q)
           /\ \A i \in 1 .. Len(q) : i # 1 => i - 1 \in 1 .. Len(Tail(q)) /\ Tail(q)[i - 1] = q[i]
OBVIOUS

\* A queue with another request.
LEMMA AppendToQueue ==
    ASSUME NEW S, NEW q \in Seq(S), NEW r \in S
    PROVE  /\ Append(q, r) \in Seq(S) /\ Len(Append(q, r)) = Len(q) + 1
           /\ \A i \in 1 .. Len(q) : Append(q, r)[i] = q[i] /\ i \in 1 .. Len(Append(q, r))
           /\ Append(q, r)[Len(q) + 1] = r
OBVIOUS

\* The sets that requests draw their fields from can be enlarged.
LEMMA LargerRequests ==
    ASSUME NEW S, NEW T, NEW q \in Seq(Requests(S)), S \subseteq T
    PROVE  q \in Seq(Requests(T))
<1>1. Requests(S) \subseteq Requests(T)
  BY DEF Requests
<1> QED BY <1>1

\* Without the first request the queue is still well-formed; if that was the one that writes, no
\* other does.
LEMMA FirstIsAnswered ==
    ASSUME SecretsInv, requests # <<>>
    PROVE  /\ WellFormed(Tail(requests))
           /\ \A i \in 1 .. Len(Tail(requests)) : Writes(Tail(requests)[i]) => Writing
           /\ (~overlapped /\ ~Writes(Head(requests))) => Settles(Tail(requests), record, meant)
           /\ (~overlapped /\ Writes(Head(requests))) =>
                /\ \A i \in 1 .. Len(Tail(requests)) : ~Writes(Tail(requests)[i])
                /\ meant = Outcome(Head(requests), record)
<1>1. PICK S : requests \in Seq(Requests(S))
  BY DEF SecretsInv, WellFormed
<1> DEFINE q == Tail(requests)
<1>2. /\ q \in Seq(Requests(S)) /\ Head(requests) = requests[1] /\ 1 \in 1 .. Len(requests)
      /\ \A i \in 1 .. Len(q) : q[i] = requests[i + 1] /\ i + 1 \in 1 .. Len(requests)
      /\ \A i \in 1 .. Len(requests) : i # 1 => i - 1 \in 1 .. Len(q) /\ q[i - 1] = requests[i]
      /\ Len(q) \in Nat /\ Len(requests) \in Nat /\ DOMAIN requests = 1 .. Len(requests)
  BY <1>1, TailOfQueue
<1> HIDE DEF q
<1>3. WellFormed(q)
  BY <1>2 DEF SecretsInv, WellFormed
<1>4. \A i \in 1 .. Len(q) : Writes(q[i]) => Writing
  BY <1>2 DEF Writing, Writes
<1>5. ASSUME ~overlapped, ~Writes(Head(requests)) PROVE Settles(q, record, meant)
  <2>1. ASSUME NEW i \in 1 .. Len(q), NEW j \in 1 .. Len(q), Writes(q[i]), Writes(q[j]) PROVE i = j
    <3>1. i + 1 = j + 1
      BY <1>2, <1>5, <2>1 DEF SecretsInv, Settles
    <3> QED BY <1>2, <3>1
  <2>2. \A i \in 1 .. Len(q) : Writes(q[i]) => meant = Outcome(q[i], record)
    BY <1>2, <1>5 DEF SecretsInv, Settles
  <2>3. ASSUME \A i \in 1 .. Len(q) : ~Writes(q[i]) PROVE record = meant
    <3>1. \A i \in 1 .. Len(requests) : ~Writes(requests[i])
      BY <1>2, <1>5, <2>3
    <3> QED BY <1>5, <3>1 DEF SecretsInv, Settles
  <2> QED BY <2>1, <2>2, <2>3 DEF Settles
<1>6. ASSUME ~overlapped, Writes(Head(requests))
      PROVE  (\A i \in 1 .. Len(q) : ~Writes(q[i])) /\ meant = Outcome(Head(requests), record)
  <2>1. meant = Outcome(Head(requests), record)
    BY <1>2, <1>6 DEF SecretsInv, Settles
  <2>2. ASSUME NEW i \in 1 .. Len(q), Writes(q[i]) PROVE FALSE
    <3>1. i + 1 = 1
      BY <1>2, <1>6, <2>2 DEF SecretsInv, Settles
    <3> QED BY <3>1
  <2> QED BY <2>1, <2>2
<1> QED BY <1>3, <1>4, <1>5, <1>6 DEF q

\* The storage answers a request to read and the caller asks for nothing.
LEMMA ReadIsAnswered ==
    ASSUME SecretsInv, requests # <<>>, Head(requests).kind = "read", requests' = Tail(requests),
           UNCHANGED <<record, meant, overlapped>>
    PROVE  SecretsInv'
BY FirstIsAnswered DEF SecretsInv, WellFormed, Settles, Writes

\* A request is added to a queue.
LEMMA RequestIsAdded ==
    ASSUME NEW q, WellFormed(q), NEW T, NEW request \in Requests(T),
           request.kind = "clear" => request.secret = Null, requests' = Append(q, request),
           ~overlapped' =>
             \/ ~Writes(request) /\ Settles(q, record', meant')
             \/ Writes(request) /\ (\A i \in 1 .. Len(q) : ~Writes(q[i])) /\ meant' = Outcome(request, record')
    PROVE  SecretsInv'
<1>1. PICK S : q \in Seq(Requests(S))
  BY DEF WellFormed
<1> DEFINE U == S \cup T
           n == Len(q)
           p == Append(q, request)
<1>2. q \in Seq(Requests(U)) /\ request \in Requests(U)
  BY <1>1, LargerRequests DEF Requests
<1>3. /\ p \in Seq(Requests(U)) /\ Len(p) = n + 1 /\ n \in Nat
      /\ \A i \in 1 .. n : p[i] = q[i] /\ i \in 1 .. Len(p)
      /\ p[n + 1] = request /\ n + 1 \in 1 .. Len(p)
  BY <1>2, AppendToQueue
<1>4. \A i \in 1 .. Len(p) : i = n + 1 \/ (i \in 1 .. n /\ p[i] = q[i])
  BY <1>3
<1>5. requests' = p
  OBVIOUS
<1> HIDE DEF p, n, U
<1>6. WellFormed(p)
  BY <1>3, <1>4 DEF WellFormed, n
<1>7. CASE ~Writes(request) /\ Settles(q, record', meant')
  <2>1. \A i \in 1 .. Len(p) : Writes(p[i]) => i \in 1 .. n /\ p[i] = q[i]
    BY <1>3, <1>4, <1>7
  <2>2. Settles(p, record', meant')
    BY <1>3, <1>7, <2>1 DEF Settles, n
  <2> QED BY <1>5, <1>6, <2>2 DEF SecretsInv, WellFormed, Settles
<1>8. CASE /\ Writes(request) /\ meant' = Outcome(request, record')
           /\ \A i \in 1 .. Len(q) : ~Writes(q[i])
  <2>1. \A i \in 1 .. Len(p) : Writes(p[i]) => i = n + 1
    BY <1>3, <1>4, <1>8 DEF n
  <2>2. Settles(p, record', meant')
    BY <1>3, <1>8, <2>1 DEF Settles
  <2> QED BY <1>5, <1>6, <2>2 DEF SecretsInv, WellFormed, Settles
<1>9. CASE overlapped'
  BY <1>5, <1>6, <1>9 DEF SecretsInv, WellFormed
<1> QED BY <1>7, <1>8, <1>9

\* A call is made, by a caller whose request to read was perhaps just answered.
LEMMA CallIsMade ==
    ASSUME SecretsInv, NEW T, NEW request \in Requests(T), request.kind # "write",
           request.kind = "clear" => request.secret = Null,
           \/ Called(requests, request)
           \/ /\ requests # <<>> /\ Head(requests).kind = "read"
              /\ Called(Tail(requests), request)
    PROVE  SecretsInv'
<1>1. PICK q : /\ Called(q, request) /\ WellFormed(q)
               /\ \A i \in 1 .. Len(q) : Writes(q[i]) => Writing
               /\ ~overlapped => Settles(q, record, meant)
  <2>1. CASE Called(requests, request)
    <3>1. PICK S : requests \in Seq(Requests(S))
      BY DEF SecretsInv, WellFormed
    <3>2. DOMAIN requests = 1 .. Len(requests)
      BY <3>1
    <3> QED BY <2>1, <3>2 DEF SecretsInv, Writing, Writes
  <2>2. CASE /\ requests # <<>> /\ Head(requests).kind = "read"
             /\ Called(Tail(requests), request)
    BY <2>2, FirstIsAnswered DEF Writes
  <2> QED BY <2>1, <2>2
<1>2. requests' = Append(q, request) /\ record' = record
  BY <1>1 DEF Called
<1>3. CASE request.kind = "read"
  <2>1. UNCHANGED <<meant, overlapped>> /\ ~Writes(request)
    BY <1>1, <1>3 DEF Called, Writes
  <2> QED BY <1>1, <1>2, <2>1, RequestIsAdded
<1>4. CASE request.kind # "read"
  <2>1. ~overlapped' => ~overlapped /\ ~Writing /\ meant' = Effect(request, meant)
    BY <1>1, <1>4 DEF Called
  <2>2. ASSUME ~overlapped'
        PROVE  /\ Writes(request)
               /\ \A i \in 1 .. Len(q) : ~Writes(q[i])
               /\ meant' = Outcome(request, record')
    <3>1. \A i \in 1 .. Len(q) : ~Writes(q[i])
      BY <1>1, <2>1, <2>2
    <3>2. record = meant
      BY <1>1, <2>1, <2>2, <3>1 DEF Settles
    <3> QED BY <1>2, <1>4, <2>1, <2>2, <3>1, <3>2 DEF Outcome, Writes
  <2> QED BY <1>1, <1>2, <2>2, RequestIsAdded
<1> QED BY <1>3, <1>4

\* Storing what a record has with another secret of a server is what storing the secret does.
LEMMA SecretOfRecord ==
    ASSUME NEW rec, NEW s, NEW secret
    PROVE  With(rec, s, secret)[s] = secret
BY DEF With

\* Forgetting a user leads to a request to store that has the same effect.
LEMMA ForgettingStores ==
    ASSUME NEW request, NEW rec, request.kind = "forget",
           NEW store, store.kind = "store", store.server = request.server,
           store.secret = Effect(request, rec)[request.server]
    PROVE  Effect(store, rec) = Effect(request, rec)
<1> DEFINE s == request.server
<1>1. PICK secret : Effect(request, rec) = With(rec, s, secret)
  <2>1. CASE Secret(rec, s) = Null
    BY <2>1 DEF Effect
  <2>2. CASE Secret(rec, s) # Null
    BY <2>2 DEF Effect
  <2> QED BY <2>1, <2>2
<1>2. store.secret = secret
  BY <1>1, SecretOfRecord
<1> QED BY <1>1, <1>2 DEF Effect

\* The storage answers a request that writes.
LEMMA StorageKeeps == SecretsInv /\ StorageAnswers => SecretsInv'
<1> SUFFICES ASSUME SecretsInv, StorageAnswers PROVE SecretsInv'
  OBVIOUS
<1> DEFINE request == Head(requests)
           q == Tail(requests)
<1>1. requests # <<>> /\ request.kind # "read" /\ UNCHANGED <<meant, overlapped>>
  BY DEF StorageAnswers
<1>2. /\ WellFormed(q)
      /\ ~overlapped =>
           /\ \A i \in 1 .. Len(q) : ~Writes(q[i])
           /\ meant = Outcome(request, record)
  BY <1>1, FirstIsAnswered DEF Writes
<1>3. PICK S : requests \in Seq(Requests(S))
  BY DEF SecretsInv, WellFormed
<1>4. request \in Requests(S) /\ (request.kind = "clear" => request.secret = Null)
  BY <1>1, <1>3, TailOfQueue DEF SecretsInv, WellFormed
<1>5. ASSUME NEW kind \in {"write", "store"}, NEW secret,
             requests' = Append(q, [request EXCEPT !.kind = kind, !.secret = secret]), record' = record,
             Outcome([request EXCEPT !.kind = kind, !.secret = secret], record) = Outcome(request, record)
      PROVE  SecretsInv'
  <2> DEFINE next == [request EXCEPT !.kind = kind, !.secret = secret]
             T == S \cup {secret}
  <2>1. next \in Requests(T) /\ next.kind = kind
    BY <1>4 DEF Requests, Kinds
  <2>2. Writes(next) /\ next.kind # "clear"
    BY <2>1 DEF Writes
  <2> HIDE DEF next, T
  <2>3. ~overlapped' => meant' = Outcome(next, record')
    BY <1>1, <1>2, <1>5 DEF next
  <2> QED BY <1>1, <1>2, <1>5, <2>1, <2>2, <2>3, RequestIsAdded DEF next
<1>6. ASSUME requests' = q, ~overlapped => record' = Outcome(request, record)
      PROVE  SecretsInv'
  BY <1>1, <1>2, <1>6 DEF SecretsInv, WellFormed, Settles
<1>7. CASE request.kind = "store" /\ record' = record
           /\ requests' = Append(q, [request EXCEPT !.kind = "write", !.secret = Changed(record, request)])
  <2>1. Outcome([request EXCEPT !.kind = "write", !.secret = Changed(record, request)], record)
          = Outcome(request, record)
    BY <1>4, <1>7 DEF Outcome, Changed, Requests
  <2> QED BY <1>5, <1>7, <2>1
<1>8. CASE request.kind = "delete" /\ record' = record
           /\ requests' = Append(q, [request EXCEPT !.kind = "write", !.secret = Changed(record, request)])
  <2>1. Outcome([request EXCEPT !.kind = "write", !.secret = Changed(record, request)], record)
          = Outcome(request, record)
    BY <1>4, <1>8 DEF Outcome, Changed, Requests
  <2> QED BY <1>5, <1>8, <2>1
<1>9. CASE request.kind = "forget" /\ record' = record
           /\ requests' = Append(q, [request EXCEPT !.kind = "store",
                                       !.secret = Changed(record, request)[request.server]])
  <2> DEFINE next == [request EXCEPT !.kind = "store", !.secret = Changed(record, request)[request.server]]
  <2>1. /\ next.kind = "store" /\ next.server = request.server
        /\ next.secret = Effect(request, record)[request.server]
    BY <1>4 DEF Changed, Requests
  <2>2. Effect(next, record) = Effect(request, record)
    BY <1>9, <2>1, ForgettingStores
  <2>3. Outcome(next, record) = Outcome(request, record)
    BY <1>9, <2>1, <2>2 DEF Outcome
  <2> QED BY <1>5, <1>9, <2>3
<1>10. CASE request.kind = "delete" /\ record = Null /\ requests' = q /\ record' = record
  <2>1. Outcome(request, record) = record
    BY <1>10 DEF Outcome, Effect, Without
  <2> QED BY <1>6, <1>10, <2>1
<1>11. CASE request.kind \in {"write", "clear"} /\ requests' = q /\ record' = request.secret
  <2>1. Outcome(request, record) = request.secret
    BY <1>4, <1>11 DEF Outcome, Effect
  <2> QED BY <1>6, <1>11, <2>1
<1> QED BY <1>7, <1>8, <1>9, <1>10, <1>11 DEF StorageAnswers

\* The invariant implies the property.
LEMMA KeptWhenSettled == SecretsInv => SecretsAreKept
<1> SUFFICES ASSUME SecretsInv, ~Writing, ~overlapped PROVE record = meant
  BY DEF SecretsAreKept
<1>1. PICK S : requests \in Seq(Requests(S))
  BY DEF SecretsInv, WellFormed
<1>2. \A i \in 1 .. Len(requests) : ~Writes(requests[i])
  BY <1>1 DEF Writing, Writes
<1> QED BY <1>2 DEF SecretsInv, Settles

\* The storage is settled before the first call.
LEMMA SettledAtFirst == SecretsInit => SecretsInv
<1> SUFFICES ASSUME SecretsInit PROVE SecretsInv
  OBVIOUS
<1>1. requests = <<>> /\ Len(requests) = 0 /\ requests \in Seq(Requests({}))
  BY DEF SecretsInit
<1> QED BY <1>1 DEF SecretsInit, SecretsInv, WellFormed, Settles

\* Steps that do not concern the storage keep the invariant.
LEMMA SettledUnchanged == SecretsInv /\ UNCHANGED secretVars => SecretsInv'
BY DEF SecretsInv, WellFormed, Settles, secretVars

\* The requests that are made have a record's fields.
LEMMA RequestFields ==
    ASSUME NEW kind \in Kinds, NEW by, NEW s, NEW secret, NEW awaited \in BOOLEAN
    PROVE  /\ Request(kind, by, s, secret, awaited) \in Requests({by, s, secret})
           /\ Request(kind, by, s, secret, awaited).kind = kind
           /\ Request(kind, by, s, secret, awaited).secret = secret
BY DEF Request, Requests

\* Calls of the service keep the invariant, those that have no secret included.
LEMMA CallKeeps ==
    ASSUME SecretsInv, NEW kind \in Kinds \ {"write"}, NEW by, NEW s, NEW secret, NEW awaited \in BOOLEAN,
           kind = "clear" => secret = Null,
           \/ Called(requests, Request(kind, by, s, secret, awaited))
           \/ /\ requests # <<>> /\ Head(requests).kind = "read"
              /\ Called(Tail(requests), Request(kind, by, s, secret, awaited))
    PROVE  SecretsInv'
<1> DEFINE request == Request(kind, by, s, secret, awaited)
<1>1. /\ request \in Requests({by, s, secret})
      /\ request.kind # "write" /\ (request.kind = "clear" => request.secret = Null)
  BY RequestFields
<1> HIDE DEF request
<1> QED BY <1>1, CallIsMade DEF request

\* The same of calls that have one.
LEMMA SecretCallKeeps ==
    ASSUME SecretsInv, NEW kind \in {"store", "forget"}, NEW by, NEW s, NEW secret, NEW awaited \in BOOLEAN,
           \/ Called(requests, Request(kind, by, s, secret, awaited))
           \/ /\ requests # <<>> /\ Head(requests).kind = "read"
              /\ Called(Tail(requests), Request(kind, by, s, secret, awaited))
    PROVE  SecretsInv'
<1>1. kind \in Kinds \ {"write"} /\ kind # "clear"
  BY DEF Kinds
<1> QED BY <1>1, CallKeeps

-----------------------------------------------------------------------------
(* Logins to Core servers                                                  *)

\* Every step of a login, and every other use of pre-shared keys, keeps the invariant.
LEMMA CoreLoginsKeep == SecretsInv /\ [CoreLoginsNext]_<<coreLoginVars, secretVars>> => SecretsInv'
<1> SUFFICES ASSUME SecretsInv, [CoreLoginsNext]_<<coreLoginVars, secretVars>> PROVE SecretsInv'
  OBVIOUS
<1>1. CASE StorageAnswers
  BY <1>1, StorageKeeps
<1>2. CASE onClearSecretStorage
  <2>1. Called(requests, Request("clear", Manager, Null, Null, TRUE))
    BY <1>2 DEF onClearSecretStorage, clearStorage
  <2> QED BY <2>1, CallKeeps DEF Kinds
<1>3. ASSUME NEW s \in Servers, AskForPsk(s) PROVE SecretsInv'
  <2>1. Called(requests, Request("read", s, s, Null, TRUE))
    BY <1>3 DEF AskForPsk, get
  <2> QED BY <2>1, CallKeeps DEF Kinds
<1>4. ASSUME NEW s \in Servers, PskKnown(s) PROVE SecretsInv'
  <2>1. /\ requests # <<>> /\ Head(requests).kind = "read"
        /\ Called(Tail(requests), Request("store", s, s, Secret(record, s), FALSE))
    BY <1>4 DEF PskKnown, storePsk, Answers
  <2> QED BY <2>1, SecretCallKeeps
<1>5. ASSUME NEW s \in Servers, PromptForPsk(s) PROVE SecretsInv'
  BY <1>5, ReadIsAnswered DEF PromptForPsk, Answers
<1>6. ASSUME NEW s \in Servers, PskEntered(s) PROVE SecretsInv'
  <2>1. PICK psk \in Psks : Called(requests, Request("store", s, s, psk, FALSE))
    BY <1>6 DEF PskEntered, storePsk
  <2> QED BY <2>1, SecretCallKeeps
<1>7. ASSUME NEW s \in Servers, LoginFailed(s) PROVE SecretsInv'
  <2>1. CASE Called(requests, Request("delete", s, s, Null, TRUE))
    BY <2>1, CallKeeps DEF Kinds
  <2> QED BY <1>7, <2>1, SettledUnchanged DEF LoginFailed, deletePsk
<1>8. ASSUME NEW s \in Servers, syncManagedServers(s) PROVE SecretsInv'
  <2>1. Called(requests, Request("store", Manager, s, Accepted, FALSE))
    BY <1>8 DEF syncManagedServers
  <2> QED BY <2>1, SecretCallKeeps
<1>9. ASSUME NEW s \in Servers,
             \/ onCreateCoreAuthenticatedClient(s) \/ NotSupported(s) \/ OtherCredentials(s)
             \/ PromptCancelled(s) \/ LoggedIn(s) \/ LoginEnds(s) \/ ClientDropped(s)
      PROVE  SecretsInv'
  BY <1>9, SettledUnchanged DEF onCreateCoreAuthenticatedClient, NotSupported, OtherCredentials,
     PromptCancelled, LoggedIn, LoginEnds, ClientDropped
<1>10. CASE UNCHANGED <<coreLoginVars, secretVars>>
  BY <1>10, SettledUnchanged
<1> QED BY <1>1, <1>2, <1>3, <1>4, <1>5, <1>6, <1>7, <1>8, <1>9, <1>10 DEF CoreLoginsNext

\* Logins to Core servers lose no server's pre-shared key as long as calls to the storage do
\* not overlap, for any servers and callers (SecretService rewrites the whole record).
THEOREM CoreSecretsKept == CoreLoginsSpec => []SecretsAreKept
<1>1. CoreLoginsInit => SecretsInv
  BY SettledAtFirst DEF CoreLoginsInit
<1> QED BY <1>1, CoreLoginsKeep, KeptWhenSettled, PTL DEF CoreLoginsSpec

-----------------------------------------------------------------------------
(* Logins to Enterprise servers                                            *)

\* Every step of a login, and of the generation of a key pair, keeps the invariant.
LEMMA EnterpriseLoginsKeep ==
    SecretsInv /\ [EnterpriseLoginsNext]_<<enterpriseVars, secretVars>> => SecretsInv'
<1> SUFFICES ASSUME SecretsInv, [EnterpriseLoginsNext]_<<enterpriseVars, secretVars>>
             PROVE  SecretsInv'
  OBVIOUS
<1>1. CASE StorageAnswers
  BY <1>1, StorageKeeps
<1>2. CASE clearStorage(Clearer)
  <2>1. Called(requests, Request("clear", Clearer, Null, Null, TRUE))
    BY <1>2 DEF clearStorage
  <2> QED BY <2>1, CallKeeps DEF Kinds
<1>3. ASSUME NEW s \in Servers, onCreateDHEAuthenticatedClient(s) \/ AskForKey(s) PROVE SecretsInv'
  <2>1. Called(requests, Request("read", s, s, Null, TRUE))
    BY <1>3 DEF onCreateDHEAuthenticatedClient, AskForKey, get
  <2> QED BY <2>1, CallKeeps DEF Kinds
<1>4. ASSUME NEW s \in Servers, Prompt(s) \/ KeyKnown(s) PROVE SecretsInv'
  BY <1>4, ReadIsAnswered DEF Prompt, KeyKnown, Answers
<1>5. ASSUME NEW s \in Servers, LoginFails(s) PROVE SecretsInv'
  <2>1. CASE Called(requests, Request("forget", s, s, user[s], TRUE))
    BY <2>1, SecretCallKeeps
  <2> QED BY <1>5, <2>1, SettledUnchanged DEF LoginFails
<1>6. ASSUME NEW s \in Servers, LoginSucceeds(s) \/ LoginOver(s) \/ ClientInvalidated(s)
      PROVE  SecretsInv'
  BY <1>6, SettledUnchanged DEF LoginSucceeds, LoginOver, ClientInvalidated
<1>7. ASSUME NEW g \in Generations, AskForOldKeys(g) PROVE SecretsInv'
  <2>1. Called(requests, Request("read", g, generation[g].server, Null, TRUE))
    BY <1>7 DEF AskForOldKeys, get
  <2> QED BY <2>1, CallKeeps DEF Kinds
<1>8. ASSUME NEW g \in Generations, KeysReplaced(g) PROVE SecretsInv'
  <2>1. /\ requests # <<>> /\ Head(requests).kind = "read"
        /\ Called(Tail(requests), Request("store", g, generation[g].server, New(g), TRUE))
    BY <1>8 DEF KeysReplaced, Answers
  <2> QED BY <2>1, SecretCallKeeps
<1>9. ASSUME NEW g \in Generations, uploadPublicKey(g) \/ KeyPairGenerated(g) PROVE SecretsInv'
  BY <1>9, SettledUnchanged DEF uploadPublicKey, KeyPairGenerated
<1>10. CASE deleteUserPublicKey
  BY <1>10, SettledUnchanged DEF deleteUserPublicKey
<1>11. CASE UNCHANGED <<enterpriseVars, secretVars>>
  BY <1>11, SettledUnchanged
<1> QED BY <1>1, <1>2, <1>3, <1>4, <1>5, <1>6, <1>7, <1>8, <1>9, <1>10, <1>11
        DEF EnterpriseLoginsNext

\* Logins with private keys and new key pairs lose no user's key pair as long as calls to the
\* storage do not overlap, for any servers, users and requests (SecretService rewrites the
\* whole record).
THEOREM EnterpriseSecretsKept == EnterpriseLoginsSpec => []SecretsAreKept
<1>1. EnterpriseLoginsInit => SecretsInv
  BY SettledAtFirst DEF EnterpriseLoginsInit
<1> QED BY <1>1, EnterpriseLoginsKeep, KeptWhenSettled, PTL DEF EnterpriseLoginsSpec

-----------------------------------------------------------------------------
(* Logins through the browser                                              *)

\* What LoginsWereConfirmed rests on: each server has a session and a pending state of its own.
SamlInv ==
    /\ pendingAuthState \in [SamlServers -> StateIds \cup {NoState}]
    /\ session \in [SamlServers -> {"none", "opening", "waiting", "login", "failed"}]
    /\ LoginsWereConfirmed

\* Every step of a login, and every redirect, keeps the invariant.
THEOREM SamlInvInductive == SamlInv /\ [SamlNext]_samlVars => SamlInv'
<1> USE DEF SamlInv, LoginsWereConfirmed
<1> SUFFICES ASSUME SamlInv, [SamlNext]_samlVars PROVE SamlInv'
  OBVIOUS
<1>1. ASSUME NEW s \in SamlServers, NEW id \in StateIds, runSamlLoginWorkflow(s, id)
      PROVE  SamlInv'
  BY <1>1 DEF runSamlLoginWorkflow, SessionStep
<1>2. ASSUME NEW s \in SamlServers, Waits(s) PROVE SamlInv'
  BY <1>2 DEF Waits, SessionStep
<1>3. ASSUME NEW s \in SamlServers, Cancelled(s) PROVE SamlInv'
  BY <1>3 DEF Cancelled, SessionStep
<1>4. ASSUME NEW s \in SamlServers, LoginWithKey(s) PROVE SamlInv'
  BY <1>4 DEF LoginWithKey
<1>5. ASSUME NEW s \in SamlServers, SamlDisconnect(s) PROVE SamlInv'
  BY <1>5 DEF SamlDisconnect
<1>6. ASSUME NEW id \in StateIds, Redirect(id) PROVE SamlInv'
  <2>1. session' \in [SamlServers -> {"none", "opening", "waiting", "login", "failed"}]
    BY <1>6 DEF Redirect
  <2>2. ASSUME NEW s \in SamlServers, session'[s] = "login" PROVE pendingAuthState[s] \in confirmed'
    <3>1. CASE session[s] = "login"
      BY <1>6, <3>1 DEF Redirect
    <3>2. CASE session[s] # "login"
      BY <1>6, <2>2, <3>2 DEF Redirect, handleUriEventForServer
    <3> QED BY <3>1, <3>2
  <2> QED BY <1>6, <2>1, <2>2 DEF Redirect
<1>7. CASE UNCHANGED samlVars
  BY <1>7 DEF samlVars
<1> QED BY <1>1, <1>2, <1>3, <1>4, <1>5, <1>6, <1>7 DEF SamlNext

\* A session key is tried only when the user completed the login it belongs to, for any
\* servers and logins (SamlAuthProvider.createSession and handleUriEventForServer).
THEOREM LoginsConfirmed == SamlSpec => []LoginsWereConfirmed
<1>1. SamlInit => SamlInv
  BY DEF SamlInit, SamlInv, LoginsWereConfirmed
<1>2. SamlInv => LoginsWereConfirmed
  BY DEF SamlInv
<1> QED BY <1>1, <1>2, SamlInvInductive, PTL DEF SamlSpec

-----------------------------------------------------------------------------
(* Stored secrets work: pre-shared keys                                    *)

\* What With and Without leave of the record.
LEMMA SecretWith ==
    ASSUME NEW rec, NEW s, NEW t, NEW secret
    PROVE  /\ Secret(With(rec, s, secret), s) \in {secret, Null}
           /\ t # s => Secret(With(rec, s, secret), t) \in {Secret(rec, t), Null}
<1> DEFINE all == (IF rec = Null THEN {} ELSE DOMAIN rec) \cup {s}
           new == [u \in all |-> IF u = s THEN secret ELSE rec[u]]
<1>1. With(rec, s, secret) = new
  BY DEF With
<1>2. DOMAIN new = all /\ s \in all /\ new[s] = secret
  OBVIOUS
<1>3. ASSUME t # s, t \in all PROVE new[t] = rec[t] /\ rec # Null /\ t \in DOMAIN rec
  BY <1>3
<1> HIDE DEF new
<1>4. Secret(new, s) \in {secret, Null}
  BY <1>2 DEF Secret
<1>5. ASSUME t # s PROVE Secret(new, t) \in {Secret(rec, t), Null}
  BY <1>2, <1>3, <1>5 DEF Secret
<1> QED BY <1>1, <1>4, <1>5

LEMMA SecretWithout ==
    ASSUME NEW rec, NEW s, NEW t
    PROVE  /\ Secret(Without(rec, s), s) = Null
           /\ Secret(Without(rec, s), t) \in {Secret(rec, t), Null}
<1>1. CASE rec = Null
  BY <1>1 DEF Without, Secret
<1>2. CASE rec # Null
  <2> DEFINE new == [u \in DOMAIN rec \ {s} |-> rec[u]]
  <2>1. Without(rec, s) = new
    BY <1>2 DEF Without, Restrict
  <2>2. DOMAIN new = DOMAIN rec \ {s} /\ (t \in DOMAIN new => new[t] = rec[t])
    OBVIOUS
  <2> HIDE DEF new
  <2>3. Secret(new, s) = Null /\ Secret(new, t) \in {Secret(rec, t), Null}
    BY <1>2, <2>2 DEF Secret
  <2> QED BY <2>1, <2>3
<1> QED BY <1>1, <1>2

\* A key that a server rejects is only in the record, or about to be, while the login with it is
\* under way.
PsksInv ==
    /\ DOMAIN at = Servers /\ DOMAIN credentials = Servers
    /\ at = [s \in Servers |-> at[s]] /\ credentials = [s \in Servers |-> credentials[s]]
    /\ ~overlapped => \A s \in Servers : Secret(meant, s) = Rejected =>
                        at[s] = "login" /\ credentials[s] = Rejected

\* A call is made without others being under way.
LEMMA CallMeant ==
    ASSUME NEW queue, NEW request, Called(queue, request), ~overlapped'
    PROVE  /\ ~overlapped
           /\ request.kind = "read" => meant' = meant
           /\ request.kind # "read" => meant' = Effect(request, meant) /\ ~Writing
BY DEF Called

\* The key of server s is stored, and that of others stays.
LEMMA PskStored ==
    ASSUME PsksInv, NEW s \in Servers, NEW queue, NEW by, NEW psk, NEW awaited,
           Called(queue, Request("store", by, s, psk, awaited)), ~overlapped'
    PROVE  /\ Secret(meant', s) \in {psk, Null}
           /\ \A t \in Servers \ {s} : Secret(meant', t) = Rejected => at[t] = "login" /\ credentials[t] = Rejected
<1> DEFINE request == Request("store", by, s, psk, awaited)
<1>1. request.kind = "store" /\ request.server = s /\ request.secret = psk
  BY DEF Request
<1> HIDE DEF request
<1>2. ~overlapped /\ meant' = Effect(request, meant)
  BY <1>1, CallMeant DEF request
<1>3. meant' = With(meant, s, psk)
  BY <1>1, <1>2 DEF Effect
<1>4. Secret(meant', s) \in {psk, Null}
  BY <1>3, SecretWith
<1>5. ASSUME NEW t \in Servers \ {s}, Secret(meant', t) = Rejected PROVE Secret(meant, t) = Rejected
  <2>1. Secret(meant', t) \in {Secret(meant, t), Null}
    BY <1>3, SecretWith
  <2> QED BY <1>5, <2>1, CoreLoginsAssumption
<1> QED BY <1>2, <1>4, <1>5 DEF PsksInv

LEMMA PsksKept == PsksInv /\ [CoreLoginsNext]_<<coreLoginVars, secretVars>> => PsksInv'
<1> SUFFICES ASSUME PsksInv, [CoreLoginsNext]_<<coreLoginVars, secretVars>> PROVE PsksInv'
  OBVIOUS
<1>1. CASE StorageAnswers /\ UNCHANGED coreLoginVars
  BY <1>1 DEF StorageAnswers, coreLoginVars, PsksInv
<1>2. CASE onClearSecretStorage
  <2> DEFINE request == Request("clear", Manager, Null, Null, TRUE)
  <2>1. Called(requests, request) /\ UNCHANGED <<at, credentials>>
    BY <1>2 DEF onClearSecretStorage, clearStorage, coreLoginVars
  <2>2. request.kind = "clear"
    BY DEF Request
  <2> HIDE DEF request
  <2>3. ~overlapped' => ~overlapped /\ meant' = Null
    BY <2>1, <2>2, CallMeant DEF Effect
  <2>4. \A s \in Servers : Secret(Null, s) # Rejected
    BY CoreLoginsAssumption DEF Secret
  <2> QED BY <2>1, <2>3, <2>4 DEF PsksInv
<1>3. ASSUME NEW s \in Servers,
             onCreateCoreAuthenticatedClient(s) \/ NotSupported(s) \/ OtherCredentials(s)
               \/ PromptCancelled(s) \/ LoginEnds(s) \/ ClientDropped(s) \/ LoggedIn(s)
      PROVE  PsksInv'
  <2>1. UNCHANGED <<meant, overlapped>>
    BY <1>3 DEF onCreateCoreAuthenticatedClient, NotSupported, OtherCredentials, PromptCancelled,
       LoginEnds, ClientDropped, LoggedIn, secretVars
  <2> DEFINE to == at'[s]
             c == credentials'[s]
  <2>2. /\ at' = [at EXCEPT ![s] = to] /\ credentials' = [credentials EXCEPT ![s] = c]
        /\ (at[s] = "login" /\ credentials[s] = Rejected) => to = "login" /\ c = Rejected
    BY <1>3 DEF onCreateCoreAuthenticatedClient, NotSupported, OtherCredentials, PromptCancelled,
       LoginEnds, ClientDropped, LoggedIn, Step, PsksInv
  <2> QED BY <2>1, <2>2 DEF PsksInv
<1>4. ASSUME NEW s \in Servers, AskForPsk(s) \/ PromptForPsk(s) PROVE PsksInv'
  <2>1. /\ ~overlapped' => ~overlapped /\ meant' = meant
        /\ UNCHANGED credentials
    <3>1. CASE AskForPsk(s)
      <4>1. Request("read", s, s, Null, TRUE).kind = "read"
        BY DEF Request
      <4> QED BY <3>1, <4>1, CallMeant DEF AskForPsk, get
    <3>2. CASE PromptForPsk(s)
      BY <3>2 DEF PromptForPsk
    <3> QED BY <1>4, <3>1, <3>2
  <2>2. PICK to : at' = [at EXCEPT ![s] = to] /\ at[s] # "login"
    BY <1>4 DEF AskForPsk, PromptForPsk, Step
  <2> QED BY <2>1, <2>2 DEF PsksInv
<1>5. ASSUME NEW s \in Servers, PskKnown(s) \/ PskEntered(s) PROVE PsksInv'
  <2>1. PICK queue, psk : storePsk(queue, s, psk) /\ at' = [at EXCEPT ![s] = "login"]
    BY <1>5 DEF PskKnown, PskEntered, Step
  <2>2. credentials' = [credentials EXCEPT ![s] = psk] /\ Called(queue, Request("store", s, s, psk, FALSE))
    BY <2>1 DEF storePsk
  <2>3. ASSUME ~overlapped'
        PROVE  \A t \in Servers : Secret(meant', t) = Rejected => at'[t] = "login" /\ credentials'[t] = Rejected
    <3>1. /\ Secret(meant', s) \in {psk, Null}
          /\ \A t \in Servers \ {s} : Secret(meant', t) = Rejected => at[t] = "login" /\ credentials[t] = Rejected
      BY <2>2, <2>3, PskStored
    <3>2. at'[s] = "login" /\ credentials'[s] = psk
      BY <2>1, <2>2 DEF PsksInv
    <3>3. \A t \in Servers \ {s} : at'[t] = at[t] /\ credentials'[t] = credentials[t]
      BY <2>1, <2>2 DEF PsksInv
    <3> QED BY <3>1, <3>2, <3>3, CoreLoginsAssumption
  <2> QED BY <2>1, <2>2, <2>3 DEF PsksInv
<1>6. ASSUME NEW s \in Servers, LoginFailed(s) PROVE PsksInv'
  <2>1. at' = [at EXCEPT ![s] = "forget"] /\ credentials' = [credentials EXCEPT ![s] = "none"]
    BY <1>6 DEF LoginFailed, Step
  <2>2. \A t \in Servers \ {s} : at'[t] = at[t] /\ credentials'[t] = credentials[t]
    BY <2>1 DEF PsksInv
  <2>3. ASSUME ~overlapped', NEW t \in Servers, Secret(meant', t) = Rejected
        PROVE  t # s /\ ~overlapped /\ Secret(meant, t) = Rejected
    <3>1. CASE credentials[s] \in Psks
      <4> DEFINE request == Request("delete", s, s, Null, TRUE)
      <4>1. Called(requests, request)
        BY <1>6, <3>1 DEF LoginFailed, deletePsk
      <4>2. request.kind = "delete" /\ request.server = s
        BY DEF Request
      <4> HIDE DEF request
      <4>3. ~overlapped /\ meant' = Without(meant, s)
        BY <2>3, <4>1, <4>2, CallMeant DEF Effect
      <4>4. Secret(meant', s) = Null /\ Secret(meant', t) \in {Secret(meant, t), Null}
        BY <4>3, SecretWithout
      <4> QED BY <2>3, <4>3, <4>4, CoreLoginsAssumption
    <3>2. CASE credentials[s] \notin Psks
      <4>1. UNCHANGED <<meant, overlapped>> /\ credentials[s] # Rejected
        BY <1>6, <3>2 DEF LoginFailed, secretVars, Psks
      <4> QED BY <2>3, <4>1 DEF PsksInv
    <3> QED BY <3>1, <3>2
  <2> QED BY <2>1, <2>2, <2>3 DEF PsksInv
<1>7. ASSUME NEW s \in Servers, syncManagedServers(s) PROVE PsksInv'
  <2>1. Called(requests, Request("store", Manager, s, Accepted, FALSE)) /\ UNCHANGED <<at, credentials>>
    BY <1>7 DEF syncManagedServers, coreLoginVars
  <2>2. ASSUME ~overlapped'
        PROVE  /\ Secret(meant', s) \in {Accepted, Null}
               /\ \A t \in Servers \ {s} : Secret(meant', t) = Rejected => at[t] = "login" /\ credentials[t] = Rejected
    BY <2>1, <2>2, PskStored
  <2>3. ~overlapped' => \A t \in Servers : Secret(meant', t) = Rejected => at[t] = "login" /\ credentials[t] = Rejected
    BY <2>2, CoreLoginsAssumption
  <2> QED BY <2>1, <2>3 DEF PsksInv
<1>8. CASE UNCHANGED <<coreLoginVars, secretVars>>
  BY <1>8 DEF PsksInv, coreLoginVars, secretVars
<1> QED BY <1>1, <1>2, <1>3, <1>4, <1>5, <1>6, <1>7, <1>8 DEF CoreLoginsNext

\* The invariants imply the property.
LEMMA RejectedIsForgotten == SecretsInv /\ PsksInv => RejectedPskIsForgotten
<1> SUFFICES ASSUME SecretsInv, PsksInv, NEW s \in Servers, at[s] = "none", ~Writing, ~overlapped
             PROVE  Secret(record, s) # Rejected
  BY DEF RejectedPskIsForgotten
<1>1. record = meant
  BY KeptWhenSettled DEF SecretsAreKept
<1> QED BY <1>1 DEF PsksInv

-----------------------------------------------------------------------------
(* Stored secrets work: key pairs                                          *)

Finished(g) == g \in Generations /\ generation[g].at \in {"store", "done"}

\* What the record has or is meant to have are key pairs of finished requests, whose public keys
\* the server has and nobody deletes; the same of a pair that was uploaded and is not stored yet.
MeantKeysWork ==
    \A s \in Servers : \A k \in Range(ServerKeys(meant, s)) :
        /\ Finished(k) /\ generation[k].server = s
        /\ k \in published[s] /\ <<s, k>> \notin deleting
NewKeysWork ==
    \A g \in Generations : generation[g].at \in {"uploaded", "keys"} =>
        generation[g].server \in Servers /\ g \in published[generation[g].server]
DeletedAreFinished ==
    \A d \in deleting : d = <<d[1], d[2]>> /\ Finished(d[2])

PairsInv ==
    /\ published = [s \in Servers |-> published[s]]
    /\ generation \in [Generations -> [at : {"none", "uploaded", "keys", "store", "done"},
                                       server : Servers \cup {Null}, user : Users \cup {Null}]]
    /\ ~overlapped => MeantKeysWork /\ NewKeysWork /\ DeletedAreFinished

\* The keys of a server after a change of the record.
LEMMA KeysOfSecret ==
    ASSUME NEW rec, NEW s, NEW k \in Range(ServerKeys(rec, s))
    PROVE  Secret(rec, s) # Null /\ Secret(rec, s) = rec[s] /\ rec # Null /\ s \in DOMAIN rec /\ k \in Range(rec[s])
<1>1. Range(<<>>) = {}
  BY DEF Range
<1> QED BY <1>1 DEF ServerKeys, Secret

LEMMA KeysWith ==
    ASSUME NEW rec, NEW s, NEW t, NEW keys
    PROVE  /\ Range(ServerKeys(With(rec, s, keys), s)) \subseteq Range(keys)
           /\ t # s => Range(ServerKeys(With(rec, s, keys), t)) \subseteq Range(ServerKeys(rec, t))
<1> DEFINE all == (IF rec = Null THEN {} ELSE DOMAIN rec) \cup {s}
           new == [u \in all |-> IF u = s THEN keys ELSE rec[u]]
<1>1. With(rec, s, keys) = new
  BY DEF With
<1>2. DOMAIN new = all /\ new[s] = keys
  OBVIOUS
<1>3. ASSUME t # s, t \in all PROVE new[t] = rec[t] /\ rec # Null /\ t \in DOMAIN rec
  BY <1>3
<1> HIDE DEF new
<1>4. ASSUME NEW k \in Range(ServerKeys(new, s)) PROVE k \in Range(keys)
  BY <1>2, KeysOfSecret
<1>5. ASSUME t # s, NEW k \in Range(ServerKeys(new, t)) PROVE k \in Range(ServerKeys(rec, t))
  <2>1. Secret(new, t) # Null /\ Secret(new, t) = new[t] /\ t \in DOMAIN new /\ k \in Range(new[t])
    BY <1>5, KeysOfSecret
  <2>2. new[t] = rec[t] /\ rec # Null /\ t \in DOMAIN rec
    BY <1>2, <1>3, <1>5, <2>1
  <2>3. Secret(rec, t) = rec[t] /\ rec[t] # Null
    BY <2>1, <2>2 DEF Secret
  <2> QED BY <2>1, <2>2, <2>3 DEF ServerKeys
<1> QED BY <1>1, <1>4, <1>5

\* Forgetting a user adds no keys, and clearing the storage leaves none.
LEMMA KeysForgotten ==
    ASSUME NEW rec, NEW request, request.kind \in {"forget", "clear"}, NEW t
    PROVE  Range(ServerKeys(Effect(request, rec), t)) \subseteq Range(ServerKeys(rec, t))
<1>0. Range(<<>>) = {}
  BY DEF Range
<1> DEFINE s == request.server
<1>1. CASE request.kind = "clear"
  <2>1. Effect(request, rec) = Null
    BY <1>1 DEF Effect
  <2>2. ServerKeys(Null, t) = <<>>
    BY DEF ServerKeys, Secret
  <2> QED BY <1>0, <2>1, <2>2
<1>2. CASE request.kind = "forget" /\ Secret(rec, s) = Null
  <2>1. Effect(request, rec) = With(rec, s, <<>>)
    BY <1>2 DEF Effect
  <2> QED BY <1>0, <2>1, KeysWith
<1>3. CASE request.kind = "forget" /\ Secret(rec, s) # Null
  <2> DEFINE keys == Restrict(rec[s], DOMAIN rec[s] \ {request.secret})
  <2>1. Effect(request, rec) = With(rec, s, keys)
    BY <1>3 DEF Effect
  <2>2. Range(keys) \subseteq Range(rec[s])
    BY DEF Restrict, Range
  <2>3. ServerKeys(rec, s) = rec[s]
    BY <1>3 DEF ServerKeys
  <2> HIDE DEF keys
  <2> QED BY <2>1, <2>2, <2>3, KeysWith
<1> QED BY <1>1, <1>2, <1>3

\* Steps that add no keys to the record, and do not touch pairs and public keys.
LEMMA KeysStay ==
    ASSUME PairsInv, UNCHANGED keyVars,
           ~overlapped' => /\ ~overlapped
                           /\ \A s \in Servers : Range(ServerKeys(meant', s)) \subseteq Range(ServerKeys(meant, s))
    PROVE  PairsInv'
<1> QED BY DEF PairsInv, keyVars, MeantKeysWork, NewKeysWork, DeletedAreFinished, Finished

\* A login asks for, forgets or clears keys.
LEMMA LoginCallKeeps ==
    ASSUME PairsInv, UNCHANGED keyVars, NEW queue, NEW kind \in {"read", "forget", "clear"}, NEW by, NEW s, NEW secret,
           Called(queue, Request(kind, by, s, secret, TRUE))
    PROVE  PairsInv'
<1> DEFINE request == Request(kind, by, s, secret, TRUE)
<1>1. request.kind = kind
  BY DEF Request
<1> HIDE DEF request
<1>2. ~overlapped' => ~overlapped /\ (meant' = meant \/ (meant' = Effect(request, meant) /\ request.kind \in {"forget", "clear"}))
  BY <1>1, CallMeant DEF request
<1>3. ~overlapped' => \A t \in Servers : Range(ServerKeys(meant', t)) \subseteq Range(ServerKeys(meant, t))
  BY <1>2, KeysForgotten
<1> QED BY <1>2, <1>3, KeysStay

\* A new key pair replaces those of its server, whose public keys are to be deleted.
LEMMA ReplacingKeeps ==
    ASSUME SecretsInv, PairsInv, NEW g \in Generations, KeysReplaced(g)
    PROVE  PairsInv'
<1> DEFINE s == generation[g].server
           old == Range(OldKeys(g))
           request == Request("store", g, s, New(g), TRUE)
<1>1. /\ Called(Tail(requests), request) /\ generation[g].at = "keys"
      /\ generation' = [generation EXCEPT ![g].at = "store"] /\ UNCHANGED published
      /\ deleting' = deleting \cup {<<s, k>> : k \in old}
  BY DEF KeysReplaced, Moves, loginVars
<1>2. generation' \in [Generations -> [at : {"none", "uploaded", "keys", "store", "done"},
                                       server : Servers \cup {Null}, user : Users \cup {Null}]]
  BY <1>1 DEF PairsInv
<1>3. /\ generation'[g].at = "store" /\ generation'[g].server = s
      /\ \A h \in Generations \ {g} : generation'[h] = generation[h]
  BY <1>1 DEF PairsInv
<1>4. \A h : Finished(h) => h # g /\ Finished(h)' /\ generation'[h] = generation[h]
  BY <1>1, <1>3 DEF Finished
<1>5. Finished(g)'
  BY <1>3 DEF Finished
<1>6. request.kind = "store" /\ request.server = s /\ request.secret = New(g)
  BY DEF Request
<1>7. ASSUME ~overlapped' PROVE MeantKeysWork' /\ NewKeysWork' /\ DeletedAreFinished'
  <2> HIDE DEF request, s, old
  <2>1. ~overlapped /\ ~Writing /\ meant' = With(meant, s, New(g))
    BY <1>1, <1>6, <1>7, CallMeant DEF Effect
  <2>2. MeantKeysWork /\ NewKeysWork /\ DeletedAreFinished
    BY <2>1 DEF PairsInv
  <2>3. record = meant
    BY <2>1, KeptWhenSettled DEF SecretsAreKept
  <2>4. s \in Servers /\ g \in published[s]
    BY <1>1, <2>2 DEF NewKeysWork, s
  <2>5. \A k \in old : Finished(k)
    BY <2>2, <2>3, <2>4 DEF MeantKeysWork, old, OldKeys, s
  <2>6. DeletedAreFinished'
    BY <1>1, <1>4, <2>2, <2>5 DEF DeletedAreFinished
  <2>7. NewKeysWork'
    BY <1>1, <1>3, <2>2 DEF NewKeysWork
  <2>8. ASSUME NEW k \in Range(ServerKeys(meant', s))
        PROVE  /\ Finished(k)' /\ generation'[k].server = s
               /\ k \in published'[s] /\ <<s, k>> \notin deleting'
    <3>1. k = g
      BY <2>1, KeysWith DEF New, Range
    <3>2. <<s, g>> \notin deleting
      BY <1>4, <2>2 DEF DeletedAreFinished
    <3>3. g \notin old
      BY <1>4, <2>5
    <3> QED BY <1>1, <1>3, <1>5, <2>4, <3>1, <3>2, <3>3 DEF s
  <2>9. ASSUME NEW t \in Servers \ {s}, NEW k \in Range(ServerKeys(meant', t))
        PROVE  /\ Finished(k)' /\ generation'[k].server = t
               /\ k \in published'[t] /\ <<t, k>> \notin deleting'
    <3>1. k \in Range(ServerKeys(meant, t))
      BY <2>1, <2>9, KeysWith
    <3>2. Finished(k) /\ generation[k].server = t /\ k \in published[t] /\ <<t, k>> \notin deleting
      BY <2>2, <3>1 DEF MeantKeysWork
    <3> QED BY <1>1, <1>4, <3>2
  <2>10. MeantKeysWork'
    BY <2>8, <2>9 DEF MeantKeysWork
  <2> QED BY <2>6, <2>7, <2>10
<1>8. published' = [t \in Servers |-> published'[t]]
  BY <1>1 DEF PairsInv
<1> QED BY <1>2, <1>7, <1>8 DEF PairsInv

LEMMA PairsKept ==
    SecretsInv /\ PairsInv /\ [EnterpriseLoginsNext]_<<enterpriseVars, secretVars>> => PairsInv'
<1> SUFFICES ASSUME SecretsInv, PairsInv, [EnterpriseLoginsNext]_<<enterpriseVars, secretVars>>
             PROVE  PairsInv'
  OBVIOUS
<1>1. CASE StorageAnswers /\ UNCHANGED enterpriseVars
  BY <1>1, KeysStay DEF StorageAnswers, enterpriseVars, keyVars
<1>2. CASE clearStorage(Clearer) /\ UNCHANGED enterpriseVars
  BY <1>2, LoginCallKeeps DEF clearStorage, enterpriseVars, keyVars
<1>3. ASSUME NEW s \in Servers, onCreateDHEAuthenticatedClient(s) \/ AskForKey(s) PROVE PairsInv'
  BY <1>3, LoginCallKeeps DEF onCreateDHEAuthenticatedClient, AskForKey, get
<1>4. ASSUME NEW s \in Servers,
             Prompt(s) \/ KeyKnown(s) \/ LoginSucceeds(s) \/ LoginOver(s) \/ ClientInvalidated(s)
      PROVE  PairsInv'
  BY <1>4, KeysStay DEF Prompt, KeyKnown, LoginSucceeds, LoginOver, ClientInvalidated, secretVars
<1>5. ASSUME NEW s \in Servers, LoginFails(s) PROVE PairsInv'
  <2>1. CASE Called(requests, Request("forget", s, s, user[s], TRUE))
    BY <1>5, <2>1, LoginCallKeeps DEF LoginFails
  <2>2. CASE UNCHANGED secretVars
    BY <1>5, <2>2, KeysStay DEF LoginFails, secretVars
  <2> QED BY <1>5, <2>1, <2>2 DEF LoginFails
<1>6. ASSUME NEW g \in Generations, uploadPublicKey(g) PROVE PairsInv'
  <2>1. PICK s \in Servers, u \in Users :
          /\ generation' = [generation EXCEPT ![g] = [at |-> "uploaded", server |-> s, user |-> u]]
          /\ published' = [published EXCEPT ![s] = @ \cup {g}]
    BY <1>6 DEF uploadPublicKey
  <2>2. UNCHANGED <<deleting, meant, overlapped>> /\ generation[g].at = "none"
    BY <1>6 DEF uploadPublicKey, secretVars
  <2>3. /\ generation' \in [Generations -> [at : {"none", "uploaded", "keys", "store", "done"},
                                            server : Servers \cup {Null}, user : Users \cup {Null}]]
        /\ generation'[g].at = "uploaded" /\ generation'[g].server = s
        /\ \A h \in Generations \ {g} : generation'[h] = generation[h]
    BY <2>1 DEF PairsInv
  <2>4. /\ published' = [t \in Servers |-> published'[t]] /\ g \in published'[s]
        /\ \A t \in Servers : published[t] \subseteq published'[t]
    BY <2>1 DEF PairsInv
  <2>5. \A h : Finished(h) => Finished(h)' /\ generation'[h] = generation[h]
    BY <2>2, <2>3 DEF Finished
  <2>6. ASSUME ~overlapped PROVE MeantKeysWork' /\ NewKeysWork' /\ DeletedAreFinished'
    <3>1. MeantKeysWork'
      BY <2>2, <2>4, <2>5, <2>6 DEF PairsInv, MeantKeysWork
    <3>2. NewKeysWork'
      BY <2>3, <2>4, <2>6 DEF PairsInv, NewKeysWork
    <3>3. DeletedAreFinished'
      BY <2>2, <2>5, <2>6 DEF PairsInv, DeletedAreFinished
    <3> QED BY <3>1, <3>2, <3>3
  <2> QED BY <2>2, <2>3, <2>4, <2>6 DEF PairsInv
<1>7. ASSUME NEW g \in Generations, AskForOldKeys(g) \/ KeyPairGenerated(g) PROVE PairsInv'
  <2>1. PICK to \in {"keys", "done"} :
          /\ generation' = [generation EXCEPT ![g].at = to]
          /\ (to = "keys" /\ generation[g].at = "uploaded") \/ (to = "done" /\ generation[g].at = "store")
    BY <1>7 DEF AskForOldKeys, KeyPairGenerated, Moves
  <2>2. UNCHANGED <<published, deleting>> /\ (~overlapped' => ~overlapped /\ meant' = meant)
    <3>1. CASE AskForOldKeys(g)
      <4>1. Request("read", g, generation[g].server, Null, TRUE).kind = "read"
        BY DEF Request
      <4> QED BY <3>1, <4>1, CallMeant DEF AskForOldKeys, get
    <3>2. CASE KeyPairGenerated(g)
      BY <3>2 DEF KeyPairGenerated, secretVars
    <3> QED BY <1>7, <3>1, <3>2
  <2>3. /\ generation' \in [Generations -> [at : {"none", "uploaded", "keys", "store", "done"},
                                            server : Servers \cup {Null}, user : Users \cup {Null}]]
        /\ generation'[g].at = to /\ generation'[g].server = generation[g].server
        /\ \A h \in Generations \ {g} : generation'[h] = generation[h]
    BY <2>1 DEF PairsInv
  <2>4. \A h : Finished(h) => Finished(h)' /\ generation'[h].server = generation[h].server
    BY <2>1, <2>3 DEF Finished
  <2>5. ASSUME ~overlapped' PROVE MeantKeysWork' /\ NewKeysWork' /\ DeletedAreFinished'
    <3>1. MeantKeysWork'
      BY <2>2, <2>4, <2>5 DEF PairsInv, MeantKeysWork
    <3>2. NewKeysWork'
      BY <2>1, <2>2, <2>3, <2>5 DEF PairsInv, NewKeysWork
    <3>3. DeletedAreFinished'
      BY <2>2, <2>4, <2>5 DEF PairsInv, DeletedAreFinished
    <3> QED BY <3>1, <3>2, <3>3
  <2> QED BY <2>2, <2>3, <2>5 DEF PairsInv
<1>8. ASSUME NEW g \in Generations, KeysReplaced(g) PROVE PairsInv'
  BY <1>8, ReplacingKeeps
<1>9. CASE deleteUserPublicKey
  <2>1. PICK d \in deleting : /\ deleting' = deleting \ {d}
                              /\ \E gone \in SUBSET {d[2]} : published' = [published EXCEPT ![d[1]] = @ \ gone]
    BY <1>9 DEF deleteUserPublicKey
  <2>2. UNCHANGED <<generation, meant, overlapped>>
    BY <1>9 DEF deleteUserPublicKey, secretVars
  <2>3. /\ published' = [t \in Servers |-> published'[t]]
        /\ \A t \in Servers : published[t] \subseteq published'[t] \cup (IF t = d[1] THEN {d[2]} ELSE {})
    BY <2>1 DEF PairsInv
  <2>4. ASSUME ~overlapped PROVE MeantKeysWork' /\ NewKeysWork' /\ DeletedAreFinished'
    <3>1. d = <<d[1], d[2]>> /\ Finished(d[2])
      BY <2>1, <2>4 DEF PairsInv, DeletedAreFinished
    <3>2. MeantKeysWork'
      <4> SUFFICES ASSUME NEW s \in Servers, NEW k \in Range(ServerKeys(meant, s))
                   PROVE  /\ Finished(k) /\ generation[k].server = s
                          /\ k \in published'[s] /\ <<s, k>> \notin deleting'
        BY <2>2 DEF MeantKeysWork, Finished
      <4>1. Finished(k) /\ generation[k].server = s /\ k \in published[s] /\ <<s, k>> \notin deleting
        BY <2>4 DEF PairsInv, MeantKeysWork
      <4>2. ~(s = d[1] /\ k = d[2])
        BY <2>1, <3>1, <4>1
      <4> QED BY <2>1, <2>3, <4>1, <4>2
    <3>3. NewKeysWork'
      BY <2>2, <2>3, <2>4, <3>1 DEF PairsInv, NewKeysWork, Finished
    <3>4. DeletedAreFinished'
      BY <2>1, <2>2, <2>4 DEF PairsInv, DeletedAreFinished, Finished
    <3> QED BY <3>2, <3>3, <3>4
  <2> QED BY <2>2, <2>3, <2>4 DEF PairsInv
<1>10. CASE UNCHANGED <<enterpriseVars, secretVars>>
  BY <1>10, KeysStay DEF enterpriseVars, keyVars, secretVars
<1> QED BY <1>1, <1>2, <1>3, <1>4, <1>5, <1>6, <1>7, <1>8, <1>9, <1>10 DEF EnterpriseLoginsNext

\* The invariants imply the property.
LEMMA StoredAreMeant == SecretsInv /\ PairsInv => StoredKeysWork
<1> SUFFICES ASSUME SecretsInv, PairsInv, ~Writing, ~overlapped, NEW s \in Servers
             PROVE  Range(ServerKeys(record, s)) \subseteq published[s]
  BY DEF StoredKeysWork
<1>1. record = meant
  BY KeptWhenSettled DEF SecretsAreKept
<1> QED BY <1>1 DEF PairsInv, MeantKeysWork

-----------------------------------------------------------------------------
(* Stored secrets work: both kinds of logins                               *)

RequestsInv ==
    part \in {"core", "enterprise"} =>
        /\ SecretsInv
        /\ part = "core" => PsksInv
        /\ part = "enterprise" => PairsInv

\* Whichever part of the requests is active, its steps keep the invariant.
THEOREM RequestsInvInductive == RequestsInv /\ [RequestsNext]_<<part, allLoginVars, allToolVars>> => RequestsInv'
<1> SUFFICES ASSUME RequestsInv, [RequestsNext]_<<part, allLoginVars, allToolVars>>, part' \in {"core", "enterprise"}
             PROVE  SecretsInv' /\ (part' = "core" => PsksInv') /\ (part' = "enterprise" => PairsInv')
  BY DEF RequestsInv
<1>1. part' = part
  BY DEF RequestsNext
<1>2. CASE UNCHANGED allLoginVars
  <2>1. UNCHANGED <<secretVars, coreLoginVars, enterpriseVars>>
    BY <1>2 DEF allLoginVars
  <2>2. SecretsInv'
    BY <1>1, <2>1, SettledUnchanged DEF RequestsInv
  <2>3. PsksInv => PsksInv'
    BY <2>1, PsksKept
  <2>4. PairsInv => PairsInv'
    BY <1>1, <2>1, PairsKept DEF RequestsInv
  <2> QED BY <1>1, <2>2, <2>3, <2>4 DEF RequestsInv
<1>3. CASE Logins /\ part = "core"
  <2>1. CoreLoginsNext
    BY <1>3 DEF Logins
  <2> QED BY <1>1, <1>3, <2>1, CoreLoginsKeep, PsksKept DEF RequestsInv
<1>4. CASE Logins /\ part = "enterprise"
  <2>1. EnterpriseLoginsNext
    BY <1>4 DEF Logins
  <2> QED BY <1>1, <1>4, <2>1, EnterpriseLoginsKeep, PairsKept DEF RequestsInv
<1> QED BY <1>1, <1>2, <1>3, <1>4 DEF RequestsNext, RequestsInv

\* No login leaves a key pair that its server does not know, or a pre-shared key that was rejected,
\* for any servers, users, requests for key pairs and callers, as long as calls to the storage do
\* not overlap (UserLoginController with SecretService).
THEOREM SecretsAlwaysWork == RequestsSpec => []StoredSecretsWork
<1>1. RequestsInit => RequestsInv
  <2> SUFFICES ASSUME RequestsInit PROVE RequestsInv
    OBVIOUS
  <2>1. CoreLoginsInit /\ EnterpriseLoginsInit
    BY DEF RequestsInit
  <2>2. SecretsInv /\ meant = Null
    BY <2>1, SettledAtFirst DEF CoreLoginsInit, SecretsInit
  <2>3. PsksInv
    <3>1. \A s \in Servers : Secret(Null, s) # Rejected
      BY CoreLoginsAssumption DEF Secret
    <3> QED BY <2>1, <2>2, <3>1 DEF CoreLoginsInit, PsksInv
  <2>4. PairsInv
    <3>1. \A s \in Servers : Range(ServerKeys(Null, s)) = {}
      BY DEF ServerKeys, Secret, Range
    <3> QED BY <2>1, <2>2, <3>1 DEF EnterpriseLoginsInit, PairsInv, MeantKeysWork, NewKeysWork, DeletedAreFinished
  <2> QED BY <2>2, <2>3, <2>4 DEF RequestsInv
<1>2. RequestsInv => StoredSecretsWork
  BY RejectedIsForgotten, StoredAreMeant DEF RequestsInv, StoredSecretsWork
<1> QED BY <1>1, <1>2, RequestsInvInductive, PTL DEF RequestsSpec

-----------------------------------------------------------------------------
(* The queries of workers                                                  *)

Statuses == {"created", "running"} \cup Terminal \cup Gone
CreationStages == {"none", "page", "asking", "created", "waiting", "worker", "failed", "cancelled"}

WorkersTypeOK ==
    /\ known \in [Queries -> Statuses] /\ status \in [Queries -> Statuses]
    /\ creation \in [Creations -> CreationStages]
    /\ serial \in [Creations -> Queries \cup {NoQuery}]
    /\ tagVersion \in [Creations -> 0 .. MaxVersion]

\* A creation has a query from the moment it waits for it, and none before.
SerialIsOfQuery ==
    \A c \in Creations :
        /\ creation[c] \in {"waiting", "worker"} => serial[c] \in Queries
        /\ creation[c] \in {"none", "page", "asking", "created"} => serial[c] = NoQuery

WorkersInv == WorkersTypeOK /\ SerialIsOfQuery /\ KnownQueriesAreHandled

\* Each version of a creation's name is a query.
LEMMA QueriesOfCreations ==
    ASSUME NEW c \in Creations, NEW n \in 1 .. MaxVersion
    PROVE  <<c, n>> \in Queries
BY DEF Queries

\* What a creation makes of the status of its query.
LEMMA InfoOfStatus ==
    ASSUME NEW s \in Statuses
    PROVE  /\ handleQueryInfo(s) \in {"waiting", "worker", "failed"}
           /\ handleQueryInfo(s) = "waiting" => s \notin {"running"} \cup Terminal
BY DEF handleQueryInfo, Statuses, Terminal, Gone

\* Creations that hear of their queries wait on only for those that may still run, and have
\* those deleted that failed; the others are as they were.
LEMMA Heard ==
    ASSUME WorkersInv, NEW cs \in SUBSET Creations, NEW news \in [Queries -> Statuses],
           serial' \in [Creations -> Queries \cup {NoQuery}],
           \A c \in cs : serial'[c] \in Queries,
           \A c \in Creations \ cs : serial'[c] = serial[c],
           Hear(cs, news)
    PROVE  /\ creation' \in [Creations -> CreationStages]
           /\ deletions \subseteq deletions'
           /\ \A c \in Creations \ cs : creation'[c] = creation[c]
           /\ \A c \in cs : /\ creation'[c] \in {"waiting", "worker", "failed"}
                            /\ creation'[c] = "waiting" => news[serial'[c]] \notin {"running"} \cup Terminal
                            /\ creation'[c] = "failed" => serial'[c] \in deletions'
<1> DEFINE heard == [c \in Creations |-> IF c \in cs THEN handleQueryInfo(news[serial'[c]]) ELSE creation[c]]
<1>1. /\ creation' = heard
      /\ deletions' = deletions \cup {serial'[c] : c \in {d \in cs : heard[d] = "failed"}}
  BY DEF Hear
<1>2. \A c \in cs : news[serial'[c]] \in Statuses
  OBVIOUS
<1>3. \A c \in cs : /\ heard[c] \in {"waiting", "worker", "failed"}
                    /\ heard[c] = "waiting" => news[serial'[c]] \notin {"running"} \cup Terminal
  BY <1>2, InfoOfStatus
<1>4. \A c \in Creations \ cs : heard[c] = creation[c] /\ creation[c] \in CreationStages
  BY DEF WorkersInv, WorkersTypeOK
<1>5. \A c \in Creations : heard[c] \in CreationStages
  BY <1>3, <1>4 DEF CreationStages
<1>6. \A c \in cs : heard[c] = "failed" => serial'[c] \in deletions'
  BY <1>1
<1> HIDE DEF heard
<1>7. heard \in [Creations -> CreationStages]
  BY <1>5 DEF heard
<1> QED BY <1>1, <1>3, <1>4, <1>6, <1>7

\* A creation that gets the serial of its query keeps the invariant.
LEMMA SerialKept ==
    ASSUME WorkersInv, NEW c \in Creations, NEW q \in Queries, getWorkerInfoFromQuery(c, q),
           UNCHANGED <<status, known, tagVersion>>
    PROVE  WorkersInv'
<1>1. serial' = [serial EXCEPT ![c] = q] /\ Hear({c}, known)
  BY DEF getWorkerInfoFromQuery
<1>2. /\ serial' \in [Creations -> Queries \cup {NoQuery}]
      /\ serial'[c] = q
      /\ \A d \in Creations \ {c} : serial'[d] = serial[d]
  BY <1>1 DEF WorkersInv, WorkersTypeOK
<1>3. known \in [Queries -> Statuses]
  BY DEF WorkersInv, WorkersTypeOK
<1>4. /\ creation' \in [Creations -> CreationStages]
      /\ deletions \subseteq deletions'
      /\ \A d \in Creations \ {c} : creation'[d] = creation[d]
      /\ creation'[c] \in {"waiting", "worker", "failed"}
      /\ creation'[c] = "waiting" => known[q] \notin {"running"} \cup Terminal
      /\ creation'[c] = "failed" => q \in deletions'
  BY <1>1, <1>2, <1>3, Heard
<1>5. WorkersTypeOK'
  BY <1>2, <1>4 DEF WorkersInv, WorkersTypeOK
<1>6. SerialIsOfQuery'
  BY <1>2, <1>4 DEF WorkersInv, SerialIsOfQuery
<1>7. KnownQueriesAreHandled'
  BY <1>2, <1>4 DEF WorkersInv, KnownQueriesAreHandled
<1> QED BY <1>5, <1>6, <1>7 DEF WorkersInv

\* An event that changes what is known of a query is heard by all that wait for it.
LEMMA EventHeard ==
    ASSUME WorkersInv, NEW q \in Queries, ConfigUpdated(q)
    PROVE  WorkersInv'
<1> DEFINE news == [known EXCEPT ![q] = status[q]]
           cs == {c \in Creations : status[q] \notin Gone /\ creation[c] = "waiting" /\ serial[c] = q}
<1>1. /\ known' = news /\ Hear(cs, news)
      /\ UNCHANGED <<serial, status, tagVersion>>
  BY DEF ConfigUpdated
<1>2. news \in [Queries -> Statuses]
  BY DEF WorkersInv, WorkersTypeOK
<1>3. /\ cs \in SUBSET Creations
      /\ \A c \in cs : creation[c] = "waiting" /\ serial'[c] \in Queries
      /\ \A c \in Creations \ cs :
           creation[c] = "waiting" => serial[c] # q \/ status[q] \in Gone
  BY <1>1
<1> HIDE DEF cs, news
<1>4. serial' \in [Creations -> Queries \cup {NoQuery}]
  BY <1>1 DEF WorkersInv, WorkersTypeOK
<1>5. /\ creation' \in [Creations -> CreationStages]
      /\ deletions \subseteq deletions'
      /\ \A c \in Creations \ cs : creation'[c] = creation[c]
      /\ \A c \in cs : /\ creation'[c] \in {"waiting", "worker", "failed"}
                       /\ creation'[c] = "waiting" => news[serial'[c]] \notin {"running"} \cup Terminal
                       /\ creation'[c] = "failed" => serial'[c] \in deletions'
  BY <1>1, <1>2, <1>3, <1>4, Heard
<1>6. WorkersTypeOK'
  BY <1>1, <1>2, <1>5 DEF WorkersInv, WorkersTypeOK
<1>7. SerialIsOfQuery'
  BY <1>1, <1>3, <1>5 DEF WorkersInv, SerialIsOfQuery
<1>8. ASSUME NEW c \in Creations, creation'[c] = "waiting"
      PROVE  known'[serial'[c]] \notin {"running"} \cup Terminal
  <2>1. CASE c \in cs
    BY <1>1, <1>5, <1>8, <2>1
  <2>2. CASE c \notin cs
    <3>1. /\ creation[c] = "waiting" /\ serial'[c] = serial[c] /\ serial[c] \in Queries
          /\ serial[c] # q \/ status[q] \in Gone
      BY <1>1, <1>3, <1>5, <1>8, <2>2 DEF WorkersInv, SerialIsOfQuery
    <3>2. known[serial[c]] \notin {"running"} \cup Terminal
      BY <3>1 DEF WorkersInv, KnownQueriesAreHandled
    <3>3. known'[serial[c]] = IF serial[c] = q THEN status[q] ELSE known[serial[c]]
      BY <1>1, <3>1 DEF news, WorkersInv, WorkersTypeOK
    <3> QED BY <3>1, <3>2, <3>3 DEF Gone, Terminal
  <2> QED BY <2>1, <2>2
<1>9. ASSUME NEW c \in Creations, creation'[c] = "failed", serial'[c] # NoQuery
      PROVE  serial'[c] \in deletions'
  BY <1>1, <1>5, <1>9 DEF WorkersInv, KnownQueriesAreHandled
<1>10. KnownQueriesAreHandled'
  BY <1>8, <1>9 DEF KnownQueriesAreHandled
<1> QED BY <1>6, <1>7, <1>10 DEF WorkersInv

\* Every step of a creation, of a query and every event keeps the invariant.
THEOREM WorkersInvInductive == WorkersInv /\ [WorkersNext]_workerVars => WorkersInv'
<1> SUFFICES ASSUME WorkersInv, [WorkersNext]_workerVars PROVE WorkersInv'
  OBVIOUS
<1> USE DEF WorkersInv, WorkersTypeOK, SerialIsOfQuery, KnownQueriesAreHandled, CreationStages
<1>1. ASSUME NEW c \in Creations, createWorker(c) PROVE WorkersInv'
  BY <1>1 DEF createWorker
<1>2. ASSUME NEW c \in Creations, createInteractiveConsoleQuery(c) PROVE WorkersInv'
  <2>1. <<c, 1>> \in Queries
    BY QueriesOfCreations, WorkerQueriesAssumption
  <2>2. status' \in [Queries -> Statuses]
    BY <1>2, <2>1 DEF createInteractiveConsoleQuery, Statuses
  <2> QED BY <1>2, <2>2 DEF createInteractiveConsoleQuery
<1>3. ASSUME NEW c \in Creations, QueryCreated(c) PROVE WorkersInv'
  <2>1. <<c, 1>> \in Queries
    BY QueriesOfCreations, WorkerQueriesAssumption
  <2> QED BY <1>3, <2>1, SerialKept DEF QueryCreated
<1>4. ASSUME NEW c \in Creations, settingsRequest(c) PROVE WorkersInv'
  <2>1. tagVersion' \in [Creations -> 0 .. MaxVersion]
    BY <1>4, WorkerQueriesAssumption DEF settingsRequest
  <2> QED BY <1>4, <2>1 DEF settingsRequest
<1>5. ASSUME NEW c \in Creations, PageCreatesQuery(c) PROVE WorkersInv'
  <2>1. status' \in [Queries -> Statuses]
    BY <1>5 DEF PageCreatesQuery, Statuses
  <2> QED BY <1>5, <2>1 DEF PageCreatesQuery
<1>6. ASSUME NEW c \in Creations, PageDeletesQuery(c) PROVE WorkersInv'
  BY <1>6 DEF PageDeletesQuery
<1>7. ASSUME NEW c \in Creations, workerCreated(c) PROVE WorkersInv'
  <2>1. tagVersion[c] \in 1 .. MaxVersion
    BY <1>7, WorkerQueriesAssumption DEF workerCreated
  <2>2. <<c, tagVersion[c]>> \in Queries
    BY <2>1, QueriesOfCreations
  <2> QED BY <1>7, <2>2, SerialKept DEF workerCreated
<1>8. ASSUME NEW c \in Creations, CreationCancelled(c) PROVE WorkersInv'
  BY <1>8 DEF CreationCancelled
<1>9. ASSUME NEW c \in Creations, deleteWorker(c) PROVE WorkersInv'
  BY <1>9 DEF deleteWorker
<1>10. ASSUME NEW q \in Queries, QueryGoesOn(q) PROVE WorkersInv'
  <2>1. status' \in [Queries -> Statuses]
    BY <1>10 DEF QueryGoesOn, Statuses, Terminal, Gone
  <2> QED BY <1>10, <2>1 DEF QueryGoesOn
<1>11. ASSUME NEW q \in Queries, ConfigUpdated(q) PROVE WorkersInv'
  BY <1>11, EventHeard
<1>12. CASE UNCHANGED workerVars
  BY <1>12 DEF workerVars
<1> QED BY <1>1, <1>2, <1>3, <1>4, <1>5, <1>6, <1>7, <1>8, <1>9, <1>10, <1>11, <1>12 DEF WorkersNext

\* No creation waits for a query that is known to run or to have failed, and a query whose
\* creation failed is deleted, in every order of events, lookups and cancellations
\* (getWorkerInfoFromQuery and DheService.createWorker).
THEOREM QueriesHandled == WorkersSpec => []KnownQueriesAreHandled
<1>1. WorkersInit => WorkersInv
  BY WorkerQueriesAssumption DEF WorkersInit, WorkersInv, WorkersTypeOK, SerialIsOfQuery, KnownQueriesAreHandled,
         CreationStages, Statuses, Gone
<1>2. WorkersInv => KnownQueriesAreHandled
  BY DEF WorkersInv
<1> QED BY <1>1, <1>2, WorkersInvInductive, PTL DEF WorkersSpec

=============================================================================
