------------------------------ MODULE Secrets ------------------------------
(***************************************************************************)
(* A record of the secret storage and the calls of SecretService            *)
(* (services/SecretService.ts) that read and replace it as a whole.  VS Code *)
(* handles their requests one at a time, in the order they are made; what a  *)
(* call does next it asks for when it is answered.                          *)
(***************************************************************************)
EXTENDS Sequences, Functions, FiniteSets

CONSTANTS
    Servers,    \* servers that secrets are kept of
    Callers,    \* those who call the service
    Null        \* no record, no secret

VARIABLES
    record,     \* the secret of each server that has one, or Null
    requests,   \* requests to the storage, with the call they belong to
    meant,      \* what the record would be had the calls been made one by one
    overlapped  \* whether two writers were under way at once

secretVars == <<record, requests, meant, overlapped>>

Secret(rec, s) == IF rec = Null \/ s \notin DOMAIN rec THEN Null ELSE rec[s]
With(rec, s, secret) ==
    [t \in (IF rec = Null THEN {} ELSE DOMAIN rec) \cup {s} |-> IF t = s THEN secret ELSE rec[t]]
Without(rec, s) == IF rec = Null THEN Null ELSE Restrict(rec, DOMAIN rec \ {s})

SecretsInit ==
    /\ record = Null /\ meant = Null
    /\ requests = <<>> /\ overlapped = FALSE

-----------------------------------------------------------------------------
(* Calls                                                                   *)

Writing == \E i \in DOMAIN requests : requests[i].kind # "read"
Awaits(c) == \E i \in DOMAIN requests : requests[i].by = c /\ requests[i].awaited

Request(kind, by, s, secret, awaited) ==
    [kind |-> kind, by |-> by, server |-> s, secret |-> secret, awaited |-> awaited]

\* What a call makes of the record: the secret of a server is stored or deleted, the user of
\* a key pair is forgotten, or everything is.
Effect(request, rec) ==
    LET s == request.server IN
    CASE request.kind = "store" -> With(rec, s, request.secret)
      [] request.kind = "delete" -> Without(rec, s)
      [] request.kind = "forget" ->
           IF Secret(rec, s) = Null THEN With(rec, s, <<>>)
           ELSE With(rec, s, Restrict(rec[s], DOMAIN rec[s] \ {request.secret}))
      [] request.kind = "clear" -> Null

\* A call is made when the requests in the queue are not answered yet.
Called(queue, request) ==
    /\ requests' = Append(queue, request)
    /\ IF request.kind = "read" THEN UNCHANGED <<meant, overlapped>>
       ELSE /\ overlapped' = (overlapped \/ Writing)
            /\ meant' = IF overlapped' THEN Null ELSE Effect(request, meant)
    /\ UNCHANGED record

get(c, s) == Called(requests, Request("read", c, s, Null, TRUE))

\* The storage answers a request to read; the caller goes on with Secret(record, s).
Answers(c) == requests # <<>> /\ Head(requests).kind = "read" /\ Head(requests).by = c

-----------------------------------------------------------------------------
(* Requests.  A definition that is used nowhere is a faulty variant of the  *)
(* one it stands before.                                                   *)

OthersDropped(rec, request) == Effect(request, Null)
\* The record a call writes: the one it read with its own change.
Changed(rec, request) == Effect(request, rec)

\* The storage answers another request and the call goes on to its next one.
StorageAnswers ==
    LET request == Head(requests)
        Goes(kind, secret) == requests' = Append(Tail(requests), [request EXCEPT !.kind = kind, !.secret = secret])
        Is(kind) == request.kind = kind
    IN /\ requests # <<>> /\ ~Is("read")
       /\ \/ /\ Is("store") \/ (Is("delete") /\ record # Null)
             /\ Goes("write", Changed(record, request)) /\ UNCHANGED record
          \/ /\ Is("delete") /\ record = Null
             /\ requests' = Tail(requests) /\ UNCHANGED record
          \/ /\ Is("forget")
             /\ Goes("store", Changed(record, request)[request.server]) /\ UNCHANGED record
          \/ /\ Is("write") \/ Is("clear")
             /\ record' = request.secret /\ requests' = Tail(requests)
       /\ UNCHANGED <<meant, overlapped>>

clearStorage(c) == Called(requests, Request("clear", c, Null, Null, TRUE))

\* Calls that do not overlap lose nothing: the secrets of other servers and users are as
\* the calls meant them to be (every method of SecretService rewrites the whole record).
SecretsAreKept == (~Writing /\ ~overlapped) => record = meant

=============================================================================
