----------------------- MODULE EnterpriseWorkersProofs -----------------------
(***************************************************************************)
(* Theorems about EnterpriseWorkers, for any set of attempts.              *)
(***************************************************************************)
EXTENDS EnterpriseWorkers, FiniteSetTheorems, TLAPS

\* What is in _connectionMap as a worker has been through its login.
WorkersHaveBegun ==
    \A a \in worker : stage[a] \in {"session", "aborted", "open", "done"}

\* No URL of an attempt is mapped before its client is there.
UnbegunIsUnmapped ==
    \A a \in Attempts : stage[a] \in {"unused", "login", "got"} => {PURL(a), WURL(a)} \cap mapped = {}

\* At any time there have been finitely many attempts.
Used == {a \in Attempts : stage[a] # "unused"}

\* The connections that the count may be for.  CoreClient takes the mapping of the placeholder
\* without counting down: an attempt whose worker has been disconnected before then is none of them.
Backed ==
    {a \in Attempts :
        IF stage[a] = "core" THEN WURL(a) \in mapped ELSE {PURL(a), WURL(a)} \cap mapped # {}}

CountIsBacked == count <= Cardinality(Backed)

Shape ==
    /\ TypeOK
    /\ OwnersAgree
    /\ PlaceholderIsPending /\ WorkersHaveBegun
    /\ OpenIsListed
    /\ UnbegunIsUnmapped /\ IsFiniteSet(Used)

IInv == Shape /\ CountIsBacked

-----------------------------------------------------------------------------
(* URLs and counts                                                         *)

\* Different connections have different URLs.
LEMMA URLsDiffer ==
    ASSUME NEW a, NEW b
    PROVE  PURL(a) # WURL(b) /\ (PURL(a) = PURL(b) => a = b) /\ (WURL(a) = WURL(b) => a = b)
BY DEF PURL, WURL

\* Placeholder and worker URLs are URLs.
LEMMA URLsOfAttempts ==
    ASSUME NEW a \in Attempts
    PROVE  PURL(a) \in URLs /\ WURL(a) \in URLs
BY DEF PURL, WURL, URLs

\* updateConnectionCount never goes below zero, nor up.
LEMMA MinusBounds ==
    ASSUME count \in Nat, NEW n \in Nat
    PROVE  /\ Minus(n) \in Nat /\ Minus(n) <= count
           /\ n >= 1 => Minus(n) = 0 \/ Minus(n) <= count - 1
BY DEF Minus

\* One URL is disconnected: the count falls when it was mapped.
LEMMA CountAfterOne ==
    ASSUME count \in Nat, NEW u
    PROVE  /\ CountAfter({u}) \in Nat /\ CountAfter({u}) <= count
           /\ u \in mapped => CountAfter({u}) = 0 \/ CountAfter({u}) <= count - 1
<1>1. CASE u \in mapped
  <2>1. mapped \cap {u} = {u} /\ Cardinality({u}) = 1
    BY <1>1, FS_Singleton
  <2> QED BY <2>1, <1>1, MinusBounds DEF CountAfter
<1>2. CASE u \notin mapped
  <2>1. mapped \cap {u} = {} /\ Cardinality({}) = 0
    BY <1>2, FS_EmptySet
  <2> QED BY <2>1, <1>2, MinusBounds DEF CountAfter
<1> QED BY <1>1, <1>2

\* The attempts that back the count are among those that have begun.
LEMMA BackedIsFinite == Shape => IsFiniteSet(Backed)
<1> SUFFICES ASSUME Shape PROVE IsFiniteSet(Backed)
  OBVIOUS
<1>1. Backed \subseteq Used
  BY DEF Shape, UnbegunIsUnmapped, Backed, Used
<1> QED BY <1>1, FS_Subset DEF Shape

\* How many elements a finite set has at least that lacks at most one of another's, or has one more.
LEMMA OneLess ==
    ASSUME NEW B, NEW C, IsFiniteSet(B), IsFiniteSet(C), NEW x, B \ {x} \subseteq C
    PROVE  /\ Cardinality(B) \in Nat /\ Cardinality(C) \in Nat
           /\ Cardinality(B) - 1 <= Cardinality(C)
           /\ B \subseteq C => Cardinality(B) <= Cardinality(C)
           /\ x \notin B /\ x \in C => Cardinality(B) + 1 <= Cardinality(C)
<1>1. Cardinality(B) \in Nat /\ Cardinality(C) \in Nat
  BY FS_CardinalityType
<1>2. /\ IsFiniteSet(B \ {x})
      /\ Cardinality(B \ {x}) = IF x \in B THEN Cardinality(B) - 1 ELSE Cardinality(B)
  BY FS_RemoveElement
<1>3. Cardinality(B \ {x}) <= Cardinality(C)
  BY <1>2, FS_Subset
<1>4. B \subseteq C => Cardinality(B) <= Cardinality(C)
  BY FS_Subset
<1>5. ASSUME x \notin B, x \in C PROVE Cardinality(B) + 1 <= Cardinality(C)
  <2>1. B \cup {x} \subseteq C
    BY <1>5
  <2>2. Cardinality(B \cup {x}) = Cardinality(B) + 1
    BY <1>5, FS_AddElement
  <2> QED BY <2>1, <2>2, FS_Subset
<1> QED BY <1>1, <1>2, <1>3, <1>4, <1>5

\* The count is still backed when nothing that backs it goes, or one connection goes and is
\* counted down, or one more connection is counted.
LEMMA BackingKept ==
    ASSUME IInv, Shape', NEW x, Backed \ {x} \subseteq Backed',
           \/ Backed \subseteq Backed' /\ count' <= count
           \/ count' = 0 \/ count' <= count - 1
           \/ x \notin Backed /\ x \in Backed' /\ count' <= count + 1
    PROVE  CountIsBacked'
<1>1. IsFiniteSet(Backed) /\ count \in Nat /\ count' \in Nat
  BY BackedIsFinite DEF IInv, Shape, TypeOK
<1>2. (Shape => IsFiniteSet(Backed))'
  BY BackedIsFinite, PTL
<1> QED BY <1>1, <1>2, OneLess DEF IInv, CountIsBacked

\* One attempt at most begins.
LEMMA FinitelyMany ==
    ASSUME Shape, NEW x, Used' \subseteq Used \cup {x}
    PROVE  IsFiniteSet(Used)'
<1>1. IsFiniteSet(Used \cup {x})
  BY FS_AddElement DEF Shape
<1> QED BY <1>1, FS_Subset

-----------------------------------------------------------------------------
(* Disconnecting                                                           *)

\* Connections go, attempt by attempt: the placeholders of P and the workers of W leave the maps,
\* and what is disposed is no connection any more.
Parted(P, W) ==
    /\ mapped' \subseteq mapped /\ placeholder' = placeholder \ P
    /\ worker' \subseteq worker
    /\ info' \subseteq Attempts /\ deleting' \subseteq Attempts
    /\ stage' \in [Attempts -> Stages]
    /\ \A a \in Attempts :
         /\ PURL(a) \in mapped' <=> PURL(a) \in mapped /\ a \notin P
         /\ WURL(a) \in mapped' <=> WURL(a) \in mapped /\ a \notin W
         /\ a \in info' <=> a \in info /\ (a \notin W \/ WURL(a) \notin mapped)
         /\ stage'[a] # stage[a] => stage[a] \in {"session", "aborted", "open"}
         /\ stage'[a] \in {"session", "open"} => stage[a] = stage'[a] /\ (a \in worker => a \in worker')
         /\ stage'[a] # stage[a] => stage'[a] \in {"aborted", "done"}

\* disconnectFromServer parts the connections it is called with, and only those.
LEMMA DisconnectEffect ==
    ASSUME Shape, NEW P \in SUBSET Attempts, NEW W \in SUBSET Attempts, NEW ended \in SUBSET W,
           Disconnect(P, W, ended)
    PROVE  Parted(P, W)
<1> DEFINE hit == (worker \cap W) \ Waits(W)
<1>1. /\ mapped' = mapped \ ({PURL(a) : a \in P} \cup {WURL(a) : a \in W})
      /\ placeholder' = placeholder \ P
      /\ info' = info \ {a \in W : WURL(a) \in mapped}
      /\ deleting' = deleting \cup Waits(W)
      /\ worker' = worker \ hit
      /\ stage' = [a \in Attempts |->
                     IF a \notin hit \cup ended THEN stage[a]
                     ELSE CASE stage[a] = "session" -> "aborted"
                            [] stage[a] = "open"    -> "done"
                            [] OTHER                -> stage[a]]
  BY DEF Disconnect, Disposed, Forget
<1>2. Waits(W) \subseteq W
  BY DEF Waits
<1>3. hit \subseteq W
  BY DEF hit
<1> HIDE DEF hit
<1>4. \A a \in Attempts :
        /\ PURL(a) \in mapped' <=> PURL(a) \in mapped /\ a \notin P
        /\ WURL(a) \in mapped' <=> WURL(a) \in mapped /\ a \notin W
  BY <1>1, URLsDiffer
<1>5. \A a \in Attempts : stage[a] \in Stages /\ "aborted" \in Stages /\ "done" \in Stages
  BY DEF Shape, TypeOK, Stages
<1>6. stage' \in [Attempts -> Stages]
  BY <1>1, <1>5
<1>7. \A a \in Attempts :
        /\ stage'[a] # stage[a] => stage[a] \in {"session", "open"}
        /\ stage'[a] # stage[a] => stage'[a] \in {"aborted", "done"}
        /\ stage'[a] \in {"session", "open"} => stage[a] = stage'[a] /\ a \notin hit
  BY <1>1
<1> QED BY <1>1, <1>2, <1>3, <1>4, <1>6, <1>7 DEF Shape, TypeOK, Parted

\* The part of the state that says nothing about single connections.
ContextOK ==
    /\ known \in BOOLEAN /\ isRunning \in BOOLEAN /\ count \in Nat
    /\ service \in BOOLEAN /\ subscribed \in BOOLEAN /\ promise \in BOOLEAN
    /\ client \in {"none", "login", "ready", "broken"}
    /\ isNew \in [Attempts -> BOOLEAN]
    /\ query \in [Attempts -> {"none", "running", "ended"}]
    /\ doomed \subseteq Attempts
    /\ closing \in [active : BOOLEAN, todo : SUBSET URLs, waits : SUBSET Attempts]

\* Connections that go leave the rest in shape.
LEMMA PartingKeepsShape ==
    ASSUME Shape, NEW P \in SUBSET Attempts, NEW W \in SUBSET Attempts, Parted(P, W), ContextOK'
    PROVE  Shape'
<1> USE DEF Shape, Parted, ContextOK
<1>1. TypeOK'
  BY DEF TypeOK
<1>2. OwnersAgree'
  BY DEF TypeOK, OwnersAgree
<1>3. PlaceholderIsPending'
  BY DEF TypeOK, PlaceholderIsPending
<1>4. WorkersHaveBegun'
  BY DEF TypeOK, WorkersHaveBegun
<1>5. OpenIsListed'
  BY DEF TypeOK, OpenIsListed, At
<1>6. UnbegunIsUnmapped'
  BY DEF TypeOK, UnbegunIsUnmapped
<1>7. IsFiniteSet(Used)'
  <2>1. Used' \subseteq Used
    BY DEF Used
  <2> QED BY <2>1, FinitelyMany
<1> QED BY <1>1, <1>2, <1>3, <1>4, <1>5, <1>6, <1>7

\* A connection of one attempt at most goes, and is counted down if it was mapped.
LEMMA PartingKeeps ==
    ASSUME IInv, NEW P \in SUBSET Attempts, NEW W \in SUBSET Attempts, NEW a,
           \/ P = {a} /\ W = {} /\ count' = CountAfter({PURL(a)})
           \/ P = {} /\ W = {a} /\ count' = CountAfter({WURL(a)})
           \/ P = {} /\ W = {} /\ count' <= count,
           Parted(P, W), ContextOK'
    PROVE  IInv'
<1>1. \/ P = {a} /\ W = {} /\ (PURL(a) \in mapped => count' = 0 \/ count' <= count - 1)
      \/ P = {} /\ W = {a} /\ (WURL(a) \in mapped => count' = 0 \/ count' <= count - 1)
      \/ P = {} /\ W = {}
  <2>1. count \in Nat
    BY DEF IInv, Shape, TypeOK
  <2> QED BY <2>1, CountAfterOne
<1>2. count' <= count
  <2>1. count \in Nat
    BY DEF IInv, Shape, TypeOK
  <2> QED BY <2>1, CountAfterOne
<1>3. Shape'
  BY <1>2, PartingKeepsShape DEF IInv
<1>4. Backed \ {a} \subseteq Backed'
  BY <1>1 DEF Backed, Parted
<1>5. \/ Backed \subseteq Backed'
      \/ count' = 0 \/ count' <= count - 1
  BY <1>1 DEF Backed, Parted
<1>6. CountIsBacked'
  BY <1>2, <1>3, <1>4, <1>5, BackingKept
<1> QED BY <1>3, <1>6 DEF IInv

\* disconnectFromServer for one connection, with what is disposed already.
LEMMA DisconnectKeeps ==
    ASSUME IInv, NEW P \in SUBSET Attempts, NEW W \in SUBSET Attempts, NEW ended \in SUBSET W, NEW a,
           \/ P = {a} /\ W = {} /\ count' = CountAfter({PURL(a)})
           \/ P = {} /\ W = {a} /\ count' = CountAfter({WURL(a)}),
           Disconnect(P, W, ended),
           closing' \in [active : BOOLEAN, todo : SUBSET URLs, waits : SUBSET Attempts],
           query' \in [Attempts -> {"none", "running", "ended"}],
           UNCHANGED <<known, isRunning, loginVars, doomed>>
    PROVE  IInv'
<1>1. Parted(P, W)
  BY DisconnectEffect DEF IInv
<1>2. ContextOK'
  <2>1. count' \in Nat
    <3>1. count \in Nat
      BY DEF IInv, Shape, TypeOK
    <3> QED BY <3>1, CountAfterOne
  <2> QED BY <2>1 DEF IInv, Shape, TypeOK, ContextOK, loginVars
<1> QED BY <1>1, <1>2, PartingKeeps

-----------------------------------------------------------------------------
(* Connecting                                                              *)

\* No connection comes, none loses its mapping, and no attempt is counted anew.
Held ==
    /\ worker' = worker /\ mapped' = mapped /\ info' = info /\ deleting' = deleting
    /\ placeholder' \subseteq placeholder
    /\ count' <= count
    /\ ContextOK'

\* Attempts that wait for a client or a query give up together, without their placeholders, or
\* wait on in vain.
LEMMA StepKeeps ==
    ASSUME IInv, NEW A \in SUBSET Attempts, NEW st \in {"done", "stranded"}, Move(A, st), Held,
           \A a \in A : stage[a] \in {"login", "relogin", "query", "stranded"},
           st = "done" => placeholder' \cap A = {}
    PROVE  IInv'
<1> USE DEF IInv, Shape, TypeOK, Move, Held, ContextOK
<1>0. /\ stage' \in [Attempts -> Stages]
      /\ \A a \in Attempts : stage'[a] = IF a \in A THEN st ELSE stage[a]
  BY DEF Stages
<1>1. TypeOK'
  BY <1>0
<1>2. OwnersAgree'
  BY DEF OwnersAgree
<1>3. PlaceholderIsPending'
  BY <1>0 DEF PlaceholderIsPending
<1>4. WorkersHaveBegun'
  BY <1>0 DEF WorkersHaveBegun
<1>5. OpenIsListed'
  BY <1>0 DEF OpenIsListed, At
<1>6. UnbegunIsUnmapped'
  BY <1>0 DEF UnbegunIsUnmapped
<1>7. IsFiniteSet(Used)'
  <2>1. Used' \subseteq Used
    BY <1>0 DEF Used
  <2> QED BY <2>1, FinitelyMany
<1>8. Shape'
  BY <1>1, <1>2, <1>3, <1>4, <1>5, <1>6, <1>7
<1>9. Backed \subseteq Backed'
  BY <1>0 DEF Backed
<1>10. CountIsBacked'
  BY <1>8, <1>9, BackingKept
<1> QED BY <1>8, <1>10

\* An attempt begins: it waits for the client, has it, or is over.
LEMMA ConnectKeeps == IInv => \A a \in Attempts : Connect(a) => IInv'
<1> SUFFICES ASSUME IInv, NEW a \in Attempts, Connect(a) PROVE IInv'
  OBVIOUS
<1> USE DEF IInv, Shape, TypeOK
<1>0. PICK st \in {"got", "done", "login"} : Move({a}, st)
  BY DEF Connect
<1>1. /\ stage' \in [Attempts -> Stages]
      /\ \A b \in Attempts : stage'[b] = IF b = a THEN st ELSE stage[b]
      /\ stage[a] = "unused"
      /\ UNCHANGED <<serverVars, mapVars, info, queryVars, deleting, closing, subscribed>>
      /\ client' \in {"none", "login", "ready", "broken"} /\ promise' \in BOOLEAN
      /\ isNew' \in [Attempts -> BOOLEAN] /\ service' \in BOOLEAN
  BY <1>0 DEF Connect, Move, Ask, Stages
<1> USE DEF serverVars, mapVars, queryVars
<1>2. TypeOK'
  BY <1>1
<1>3. OwnersAgree'
  BY <1>1 DEF OwnersAgree
<1>4. PlaceholderIsPending'
  BY <1>1 DEF PlaceholderIsPending
<1>5. WorkersHaveBegun'
  BY <1>1 DEF WorkersHaveBegun
<1>6. OpenIsListed'
  BY <1>1 DEF OpenIsListed, At
<1>7. UnbegunIsUnmapped'
  BY <1>1 DEF UnbegunIsUnmapped
<1>8. IsFiniteSet(Used)'
  <2>1. Used' \subseteq Used \cup {a}
    BY <1>1 DEF Used
  <2> QED BY <2>1, FinitelyMany
<1>9. Shape'
  BY <1>2, <1>3, <1>4, <1>5, <1>6, <1>7, <1>8
<1>10. Backed \subseteq Backed' /\ count' <= count
  BY <1>1 DEF Backed
<1>11. CountIsBacked'
  BY <1>9, <1>10, BackingKept
<1> QED BY <1>9, <1>11

\* The login ends for everyone who waits for it.
LEMMA LoginKeeps == IInv /\ Login => IInv'
<1> SUFFICES ASSUME IInv, Login PROVE IInv'
  OBVIOUS
<1> USE DEF IInv, Shape, TypeOK
<1>1. CASE LoginOk
  <2>1. /\ stage' \in [Attempts -> Stages]
        /\ \A a \in Attempts : stage'[a] = CASE stage[a] = "login"   -> "got"
                                             [] stage[a] = "relogin" -> "query"
                                             [] OTHER                -> stage[a]
        /\ UNCHANGED <<serverVars, mapVars, info, queryVars, deleting, closing, service, isNew, subscribed>>
        /\ client' = "ready" /\ promise' = FALSE
    BY <1>1 DEF LoginOk, Stages
  <2> USE <2>1 DEF serverVars, mapVars, queryVars
  <2>2. TypeOK' /\ OwnersAgree'
    BY DEF OwnersAgree
  <2>3. PlaceholderIsPending' /\ WorkersHaveBegun'
    BY DEF PlaceholderIsPending, WorkersHaveBegun
  <2>4. OpenIsListed' /\ UnbegunIsUnmapped'
    BY DEF OpenIsListed, At, UnbegunIsUnmapped
  <2>5. IsFiniteSet(Used)'
    <3>1. Used' \subseteq Used
      BY DEF Used
    <3> QED BY <3>1, FinitelyMany
  <2>6. Shape'
    BY <2>2, <2>3, <2>4, <2>5
  <2>7. Backed \subseteq Backed' /\ count' <= count
    BY DEF Backed
  <2>8. CountIsBacked'
    BY <2>6, <2>7, BackingKept
  <2> QED BY <2>6, <2>8
<1>2. CASE LoginFail \/ LoginThrows
  <2> DEFINE A == At({"login", "relogin"})
             failed == At({"relogin"})
  <2>1. /\ A \in SUBSET Attempts /\ failed \subseteq Used
        /\ \A a \in A : stage[a] \in {"login", "relogin"}
        /\ placeholder \cap A \subseteq failed
    BY DEF At, Used, PlaceholderIsPending
  <2>2. Cardinality(failed) \in Nat
    BY <2>1, FS_Subset, FS_CardinalityType
  <2>3. Move(A, "done") /\ CreationFails(failed)
        /\ UNCHANGED <<service, isNew, subscribed, queryVars>>
        /\ client' \in {"none", "login", "ready", "broken"} /\ promise' \in BOOLEAN
    BY <1>2 DEF LoginFail, LoginThrows
  <2> HIDE DEF A, failed
  <2>4. count' \in Nat /\ count' <= count
    BY <2>2, <2>3, MinusBounds DEF CreationFails
  <2>5. placeholder' \cap A = {} /\ placeholder' \subseteq placeholder
    BY <2>1, <2>3 DEF CreationFails
  <2>6. Held
    BY <2>3, <2>4, <2>5 DEF CreationFails, queryVars, Held, ContextOK
  <2> QED BY <2>1, <2>3, <2>5, <2>6, StepKeeps
<1> QED BY <1>1, <1>2 DEF Login

\* The client is there and a worker is asked for.
LEMMA BeginWorkerKeeps == IInv => \A a \in Attempts : BeginWorker(a) => IInv'
<1> SUFFICES ASSUME IInv, NEW a \in Attempts, BeginWorker(a) PROVE IInv'
  OBVIOUS
<1> USE DEF IInv, Shape, TypeOK
<1>0. PICK st \in {"done", "query", "relogin"} :
        /\ stage' \in [Attempts -> Stages]
        /\ \A b \in Attempts : stage'[b] = IF b = a THEN st ELSE stage[b]
        /\ placeholder' = IF st = "done" THEN placeholder ELSE placeholder \cup {a}
        /\ count' \in Nat
        /\ st = "done" => count' <= count
        /\ count' <= count + 1
  BY DEF BeginWorker, Move, Stages
<1>1. /\ stage[a] = "got" /\ mapped' = mapped \cup {PURL(a)}
      /\ PURL(a) \notin mapped /\ WURL(a) \notin mapped
      /\ UNCHANGED <<known, isRunning, service, isNew, worker, info, query, doomed, deleting, closing>>
      /\ client' \in {"none", "login", "ready", "broken"} /\ promise' \in BOOLEAN /\ subscribed' \in BOOLEAN
  BY DEF BeginWorker, queryVars, Ask, UnbegunIsUnmapped
<1>2. /\ \A b \in Attempts :
           /\ WURL(b) \in mapped' <=> WURL(b) \in mapped
           /\ PURL(b) \in mapped' <=> PURL(b) \in mapped \/ b = a
      /\ mapped' \subseteq URLs
  BY <1>1, URLsDiffer, URLsOfAttempts
<1>3. TypeOK'
  BY <1>0, <1>1, <1>2
<1>4. OwnersAgree'
  BY <1>1, <1>2 DEF OwnersAgree
<1>5. PlaceholderIsPending'
  BY <1>0, <1>1, <1>2 DEF PlaceholderIsPending, WorkersHaveBegun
<1>6. WorkersHaveBegun'
  BY <1>0, <1>1 DEF WorkersHaveBegun
<1>7. OpenIsListed'
  BY <1>0, <1>1 DEF OpenIsListed, At
<1>8. UnbegunIsUnmapped'
  BY <1>0, <1>2 DEF UnbegunIsUnmapped
<1>9. IsFiniteSet(Used)'
  <2>1. Used' \subseteq Used
    BY <1>0, <1>1 DEF Used
  <2> QED BY <2>1, FinitelyMany
<1>10. Shape'
  BY <1>3, <1>4, <1>5, <1>6, <1>7, <1>8, <1>9
<1>11. Backed \subseteq Backed' /\ a \notin Backed /\ a \in Backed'
  BY <1>0, <1>1, <1>2 DEF Backed
<1>12. CountIsBacked'
  BY <1>0, <1>10, <1>11, BackingKept
<1> QED BY <1>10, <1>12

\* The worker is there, for a placeholder or for none.
LEMMA WorkerReadyKeeps == IInv => \A a \in Attempts : WorkerReady(a) => IInv'
<1> SUFFICES ASSUME IInv, NEW a \in Attempts, WorkerReady(a) PROVE IInv'
  OBVIOUS
<1> USE DEF IInv, Shape, TypeOK
<1>1. CASE a \notin placeholder
  <2>1. /\ Move({a}, "done") /\ stage[a] = "query" /\ doomed' \subseteq Attempts
        /\ UNCHANGED <<serverVars, loginVars, mapVars, info, query, deleting, closing>>
    BY <1>1 DEF WorkerReady, mapVars
  <2>2. Held
    BY <2>1 DEF Held, ContextOK, serverVars, loginVars, mapVars
  <2>3. \A b \in {a} : stage[b] \in {"login", "relogin", "query", "stranded"}
    BY <2>1
  <2>4. placeholder' \cap {a} = {}
    BY <1>1, <2>1 DEF mapVars
  <2> QED BY <2>1, <2>2, <2>3, <2>4, StepKeeps
<1>2. CASE a \in placeholder
  <2>1. /\ stage' \in [Attempts -> Stages]
        /\ \A b \in Attempts : stage'[b] = IF b = a THEN "core" ELSE stage[b]
        /\ info' = info \cup {a} /\ mapped' = mapped \cup {WURL(a)}
        /\ stage[a] = "query" /\ PURL(a) \in mapped
        /\ UNCHANGED <<serverVars, loginVars, placeholder, worker, queryVars, deleting, closing>>
    BY <1>2 DEF WorkerReady, Move, Stages, queryVars, PlaceholderIsPending
  <2>2. /\ \A b \in Attempts :
             /\ WURL(b) \in mapped' <=> WURL(b) \in mapped \/ b = a
             /\ PURL(b) \in mapped' <=> PURL(b) \in mapped
        /\ mapped' \subseteq URLs
    BY <2>1, URLsDiffer, URLsOfAttempts
  <2> USE DEF serverVars, loginVars, queryVars
  <2>3. TypeOK'
    BY <2>1, <2>2
  <2>4. OwnersAgree'
    BY <2>1, <2>2 DEF OwnersAgree
  <2>5. PlaceholderIsPending' /\ WorkersHaveBegun'
    BY <2>1, <2>2 DEF PlaceholderIsPending, WorkersHaveBegun
  <2>6. OpenIsListed'
    BY <2>1 DEF OpenIsListed, At
  <2>7. UnbegunIsUnmapped'
    BY <2>1, <2>2 DEF UnbegunIsUnmapped
  <2>8. IsFiniteSet(Used)'
    <3>1. Used' \subseteq Used
      BY <2>1 DEF Used
    <3> QED BY <3>1, FinitelyMany
  <2>9. Shape'
    BY <2>3, <2>4, <2>5, <2>6, <2>7, <2>8
  <2>10. Backed \subseteq Backed' /\ count' <= count
    BY <2>1, <2>2 DEF Backed
  <2>11. CountIsBacked'
    BY <2>9, <2>10, BackingKept
  <2> QED BY <2>9, <2>11
<1> QED BY <1>1, <1>2

\* No worker comes of the attempt.
LEMMA WorkerFailsKeeps == IInv => \A a \in Attempts : WorkerFails(a) \/ StrandedFails(a) => IInv'
<1> SUFFICES ASSUME IInv, NEW a \in Attempts, WorkerFails(a) \/ StrandedFails(a) PROVE IInv'
  OBVIOUS
<1>1. /\ Move({a}, "done") /\ CreationFails({a}) /\ stage[a] \in {"query", "stranded"}
      /\ UNCHANGED <<loginVars, queryVars>>
  BY DEF WorkerFails, StrandedFails
<1>2. Cardinality({a}) \in Nat
  BY FS_Singleton
<1>3. count \in Nat
  BY DEF IInv, Shape, TypeOK
<1>4. count' \in Nat /\ count' <= count
  BY <1>1, <1>2, <1>3, MinusBounds DEF CreationFails
<1>5. Held
  BY <1>1, <1>4 DEF CreationFails, Held, ContextOK, loginVars, queryVars, IInv, Shape, TypeOK
<1>6. \A b \in {a} : stage[b] \in {"login", "relogin", "query", "stranded"}
  BY <1>1
<1>7. placeholder' \cap {a} = {}
  BY <1>1 DEF CreationFails
<1> QED BY <1>1, <1>5, <1>6, <1>7, StepKeeps

\* The login to the worker ends: its connection is listed, or the attempt is over; either way
\* the placeholder and its mapping go.
LEMMA CoreClientKeeps == IInv => \A a \in Attempts : CoreClient(a) => IInv'
<1> SUFFICES ASSUME IInv, NEW a \in Attempts, CoreClient(a) PROVE IInv'
  OBVIOUS
<1> USE DEF IInv, Shape, TypeOK
<1>1. PICK st \in {"session", "done"} :
        /\ stage' \in [Attempts -> Stages]
        /\ \A b \in Attempts : stage'[b] = IF b = a THEN st ELSE stage[b]
        /\ worker' = IF st = "session" THEN worker \cup {a} ELSE worker
  BY DEF CoreClient, Move, Stages, List
<1>2. /\ stage[a] = "core" /\ mapped' = mapped \ {PURL(a)} /\ placeholder' = placeholder \ {a}
      /\ UNCHANGED <<serverVars, loginVars, info, queryVars, deleting, closing>>
  BY DEF CoreClient
<1>3. \A b \in Attempts :
        /\ WURL(b) \in mapped' <=> WURL(b) \in mapped
        /\ PURL(b) \in mapped' <=> PURL(b) \in mapped /\ b # a
  BY <1>2, URLsDiffer
<1> USE DEF serverVars, loginVars, queryVars
<1>4. TypeOK'
  BY <1>1, <1>2
<1>5. OwnersAgree'
  BY <1>2, <1>3 DEF OwnersAgree
<1>6. PlaceholderIsPending' /\ WorkersHaveBegun'
  BY <1>1, <1>2, <1>3 DEF PlaceholderIsPending, WorkersHaveBegun
<1>7. OpenIsListed'
  BY <1>1 DEF OpenIsListed, At
<1>8. UnbegunIsUnmapped'
  BY <1>1, <1>2 DEF UnbegunIsUnmapped
<1>9. IsFiniteSet(Used)'
  <2>1. Used' \subseteq Used
    BY <1>1, <1>2 DEF Used
  <2> QED BY <2>1, FinitelyMany
<1>10. Shape'
  BY <1>4, <1>5, <1>6, <1>7, <1>8, <1>9
<1>11. Backed \subseteq Backed' /\ count' <= count
  BY <1>1, <1>2, <1>3 DEF Backed
<1>12. CountIsBacked'
  BY <1>10, <1>11, BackingKept
<1> QED BY <1>10, <1>12

\* The session to the worker is there.
LEMMA SessionOkKeeps == IInv => \A a \in Attempts : SessionOk(a) => IInv'
<1> SUFFICES ASSUME IInv, NEW a \in Attempts, SessionOk(a) PROVE IInv'
  OBVIOUS
<1> USE DEF IInv, Shape, TypeOK
<1>1. /\ stage' \in [Attempts -> Stages]
      /\ \A b \in Attempts : stage'[b] = IF b = a THEN "open" ELSE stage[b]
      /\ stage[a] = "session"
      /\ UNCHANGED <<serverVars, loginVars, mapVars, info, queryVars, deleting, closing>>
  BY DEF SessionOk, Move, Stages
<1> USE <1>1 DEF serverVars, loginVars, mapVars, queryVars
<1>2. TypeOK' /\ OwnersAgree'
  BY DEF OwnersAgree
<1>3. PlaceholderIsPending' /\ WorkersHaveBegun'
  BY DEF PlaceholderIsPending, WorkersHaveBegun
<1>4. OpenIsListed' /\ UnbegunIsUnmapped'
  BY DEF OpenIsListed, At, UnbegunIsUnmapped
<1>5. IsFiniteSet(Used)'
  <2>1. Used' \subseteq Used
    BY DEF Used
  <2> QED BY <2>1, FinitelyMany
<1>6. Shape'
  BY <1>2, <1>3, <1>4, <1>5
<1>7. Backed \subseteq Backed' /\ count' <= count
  BY DEF Backed
<1>8. CountIsBacked'
  BY <1>6, <1>7, BackingKept
<1> QED BY <1>6, <1>8

-----------------------------------------------------------------------------
(* What parts connections from their attempts                              *)

\* No connection goes.
Kept == stage' = stage /\ placeholder' = placeholder /\ worker' = worker /\ mapped' = mapped /\ info' = info

\* A step that leaves the connections alone and does not count up.
LEMMA KeptIsKept ==
    ASSUME IInv, Kept, deleting' \subseteq Attempts, ContextOK', count' <= count
    PROVE  IInv'
<1>1. Parted({}, {})
  BY DEF IInv, Shape, TypeOK, Kept, Parted
<1> QED BY <1>1, PartingKeeps

\* A session that fails, and a deletion that is answered, take a worker whose mapping is no longer
\* the handler's business.
LEMMA WorkerGoes ==
    ASSUME IInv, NEW a \in Attempts, ContextOK', worker' = worker \ {a},
           placeholder' = placeholder, mapped' = mapped, info' = info, count' = count,
           deleting' \subseteq Attempts,
           \/ stage[a] \in {"session", "aborted"} /\ Move({a}, "done")
           \/ stage' = Disposed(worker \cap {a})
    PROVE  IInv'
<1>1. /\ stage' \in [Attempts -> Stages]
      /\ \A b \in Attempts :
           /\ stage'[b] # stage[b] => stage[b] \in {"session", "aborted", "open"}
           /\ stage'[b] # stage[b] => stage'[b] \in {"aborted", "done"}
           /\ stage'[b] \in {"session", "open"} => stage[b] = stage'[b] /\ (b \in worker => b \in worker')
  <2>1. stage \in [Attempts -> Stages]
    BY DEF IInv, Shape, TypeOK
  <2>2. CASE stage[a] \in {"session", "aborted"} /\ Move({a}, "done")
    BY <2>1, <2>2 DEF Move, Stages
  <2>3. CASE stage' = Disposed(worker \cap {a})
    <3>1. \A b \in Attempts :
            stage'[b] = IF b \notin worker \cap {a} THEN stage[b]
                        ELSE CASE stage[b] = "session" -> "aborted"
                               [] stage[b] = "open"    -> "done"
                               [] OTHER                -> stage[b]
      BY <2>3 DEF Disposed
    <3>2. stage' \in [Attempts -> Stages]
      BY <2>1, <2>3 DEF Disposed, Stages
    <3> QED BY <3>1, <3>2
  <2> QED BY <2>2, <2>3
<1>2. Parted({}, {})
  BY <1>1 DEF IInv, Shape, TypeOK, Parted
<1>3. count' <= count
  BY DEF IInv, Shape, TypeOK
<1> QED BY <1>2, <1>3, PartingKeeps

\* initSession answers false.
LEMMA SessionFailKeeps == IInv => \A a \in Attempts : SessionFail(a) => IInv'
<1> SUFFICES ASSUME IInv, NEW a \in Attempts, SessionFail(a) PROVE IInv'
  OBVIOUS
<1>1. ContextOK'
  BY DEF IInv, Shape, TypeOK, ContextOK, SessionFail, serverVars, loginVars, queryVars
<1>2. /\ worker' = worker \ {a} /\ placeholder' = placeholder /\ mapped' = mapped /\ info' = info
      /\ count' = count /\ deleting' \subseteq Attempts
      /\ stage[a] \in {"session", "aborted"} /\ Move({a}, "done")
  BY DEF IInv, Shape, TypeOK, SessionFail, serverVars
<1> QED BY <1>1, <1>2, WorkerGoes

\* deleteWorker answers, rejects, or was awaited by nobody.
LEMMA DeletionKeeps == IInv => \A a \in Attempts : Deletion(a) => IInv'
<1> SUFFICES ASSUME IInv, NEW a \in Attempts, Deletion(a) PROVE IInv'
  OBVIOUS
<1> USE DEF IInv, Shape, TypeOK, serverVars, loginVars, queryVars
<1>1. CASE DeletionAnswered(a)
  <2>1. ContextOK'
    BY <1>1 DEF DeletionAnswered, ContextOK
  <2>2. /\ worker' = worker \ {a} /\ placeholder' = placeholder /\ mapped' = mapped /\ info' = info
        /\ count' = count /\ deleting' \subseteq Attempts
        /\ stage' = Disposed(worker \cap {a})
    BY <1>1 DEF DeletionAnswered
  <2> QED BY <2>1, <2>2, WorkerGoes
<1>2. CASE DeletionRefused(a) \/ DoomedDeleted(a)
  <2>1. ContextOK'
    <3>1. Calm \in [active : BOOLEAN, todo : SUBSET URLs, waits : SUBSET Attempts]
      BY DEF Calm
    <3>2. closing' \in {closing, Calm}
      BY <1>2 DEF DeletionRefused, DoomedDeleted
    <3>3. query' \in [Attempts -> {"none", "running", "ended"}] /\ doomed' \subseteq Attempts
      BY <1>2 DEF DeletionRefused, DoomedDeleted
    <3>4. UNCHANGED <<serverVars, loginVars>>
      BY <1>2 DEF DeletionRefused, DoomedDeleted
    <3> QED BY <3>1, <3>2, <3>3, <3>4 DEF ContextOK
  <2>2. Kept /\ deleting' \subseteq Attempts /\ count' <= count
    BY <1>2 DEF DeletionRefused, DoomedDeleted, Kept, mapVars
  <2> QED BY <2>1, <2>2, KeptIsKept
<1> QED BY <1>1, <1>2 DEF Deletion

\* The steps that change no connection.
LEMMA BystandersKeep ==
    IInv /\ (\/ DisconnectDHE \/ ServerStopped \/ ServerStarted
             \/ \E a \in Attempts : QueryCreated(a)
             \/ UNCHANGED vars) => IInv'
<1> SUFFICES ASSUME IInv,
                    \/ DisconnectDHE \/ ServerStopped \/ ServerStarted
                    \/ \E a \in Attempts : QueryCreated(a)
                    \/ UNCHANGED vars
             PROVE  IInv'
  OBVIOUS
<1>1. count \in Nat
  BY DEF IInv, Shape, TypeOK
<1>2. Minus(1) \in Nat /\ Minus(1) <= count
  BY <1>1, MinusBounds
<1> USE DEF IInv, Shape, TypeOK, serverVars, loginVars, queryVars
<1>3. CASE DisconnectDHE
  <2>1. Kept /\ deleting' \subseteq Attempts /\ count' <= count
    BY <1>3 DEF DisconnectDHE, Kept, mapVars
  <2>2. ContextOK'
    BY <1>3 DEF DisconnectDHE, ContextOK
  <2> QED BY <2>1, <2>2, KeptIsKept
<1>4. CASE ServerStopped \/ ServerStarted
  <2>1. Kept /\ deleting' \subseteq Attempts /\ count' <= count
    BY <1>2, <1>4 DEF ServerStopped, ServerStarted, Kept, mapVars
  <2>2. ContextOK'
    BY <1>2, <1>4 DEF ServerStopped, ServerStarted, ContextOK
  <2> QED BY <2>1, <2>2, KeptIsKept
<1>5. CASE \E a \in Attempts : QueryCreated(a)
  <2>1. Kept /\ deleting' \subseteq Attempts /\ count' <= count
    BY <1>5 DEF QueryCreated, Kept, mapVars
  <2>2. ContextOK'
    BY <1>5 DEF QueryCreated, ContextOK
  <2> QED BY <2>1, <2>2, KeptIsKept
<1>6. CASE UNCHANGED vars
  <2>1. Kept /\ deleting' \subseteq Attempts /\ count' <= count
    BY <1>6 DEF Kept, mapVars, vars
  <2>2. ContextOK'
    BY <1>6 DEF vars, ContextOK
  <2> QED BY <2>1, <2>2, KeptIsKept
<1> QED BY <1>3, <1>4, <1>5, <1>6

\* The three ways in which one connection is disconnected as such.
LEMMA DisconnectOneKeeps ==
    IInv => \A a \in Attempts : CancelPlaceholder(a) \/ DisconnectWorker(a) \/ CoreDrop(a) => IInv'
<1> SUFFICES ASSUME IInv, NEW a \in Attempts, CancelPlaceholder(a) \/ DisconnectWorker(a) \/ CoreDrop(a)
             PROVE  IInv'
  OBVIOUS
<1>1. /\ closing' \in [active : BOOLEAN, todo : SUBSET URLs, waits : SUBSET Attempts]
      /\ query' \in [Attempts -> {"none", "running", "ended"}]
      /\ UNCHANGED <<known, isRunning, loginVars, doomed>>
  BY DEF IInv, Shape, TypeOK, CancelPlaceholder, DisconnectWorker, CoreDrop, queryVars
<1>2. CASE CancelPlaceholder(a)
  BY <1>1, <1>2, DisconnectKeeps DEF CancelPlaceholder
<1>3. CASE DisconnectWorker(a)
  BY <1>1, <1>3, DisconnectKeeps DEF DisconnectWorker
<1>4. CASE CoreDrop(a)
  BY <1>1, <1>4, DisconnectKeeps DEF CoreDrop
<1> QED BY <1>2, <1>3, <1>4

\* One pass of disconnectFromDHEServer's loop.
LEMMA SweepNextKeeps == IInv => \A a \in Attempts : SweepNext(a) => IInv'
<1> SUFFICES ASSUME IInv, NEW a \in Attempts, SweepNext(a) PROVE IInv'
  OBVIOUS
<1>1. /\ query' \in [Attempts -> {"none", "running", "ended"}]
      /\ UNCHANGED <<known, isRunning, loginVars, doomed>>
  BY DEF IInv, Shape, TypeOK, SweepNext, queryVars
<1>2. closing' \in [active : BOOLEAN, todo : SUBSET URLs, waits : SUBSET Attempts]
  <2>1. Waits({a}) \in SUBSET Attempts
    BY DEF Waits
  <2>2. closing \in [active : BOOLEAN, todo : SUBSET URLs, waits : SUBSET Attempts]
    BY DEF IInv, Shape, TypeOK
  <2>3. CASE closing' = [closing EXCEPT !.todo = @ \ {PURL(a)}]
    BY <2>2, <2>3
  <2>4. CASE closing' = [closing EXCEPT !.todo = @ \ {WURL(a)}, !.waits = Waits({a})]
    BY <2>1, <2>2, <2>4
  <2> QED BY <2>3, <2>4 DEF SweepNext
<1>3. \/ Disconnect({a}, {}, {}) /\ count' = CountAfter({PURL(a)})
      \/ Disconnect({}, {a}, {}) /\ count' = CountAfter({WURL(a)})
  BY DEF SweepNext
<1> QED BY <1>1, <1>2, <1>3, DisconnectKeeps

\* The worker's query ends on the server, and ServerManager hears of it or not.
LEMMA QueryEndsKeeps == IInv => \A a \in Attempts : QueryEnds(a) => IInv'
<1> SUFFICES ASSUME IInv, NEW a \in Attempts, QueryEnds(a) PROVE IInv'
  OBVIOUS
<1>1. /\ query' \in [Attempts -> {"none", "running", "ended"}]
      /\ closing' \in [active : BOOLEAN, todo : SUBSET URLs, waits : SUBSET Attempts]
      /\ UNCHANGED <<known, isRunning, loginVars, doomed>>
  BY DEF IInv, Shape, TypeOK, QueryEnds
<1>2. CASE ~(client = "ready" /\ subscribed /\ a \in info)
  <2>1. UNCHANGED <<count, stage, mapVars, info, deleting>>
    BY <1>2 DEF QueryEnds
  <2>2. Kept /\ deleting' \subseteq Attempts /\ count' <= count
    BY <2>1 DEF IInv, Shape, TypeOK, Kept, mapVars
  <2>3. ContextOK'
    BY <1>1, <2>1 DEF IInv, Shape, TypeOK, ContextOK, loginVars
  <2> QED BY <2>2, <2>3, KeptIsKept
<1>3. CASE client = "ready" /\ subscribed /\ a \in info
  <2>1. count' = CountAfter({WURL(a)})
    BY <1>3 DEF QueryEnds
  <2>2. CASE Disconnect({}, {a}, {})
    BY <1>1, <2>1, <2>2, DisconnectKeeps
  <2>3. CASE /\ mapped' = mapped \ {WURL(a)}
             /\ info' = info \ {a}
             /\ deleting' = deleting \cup Waits({a})
             /\ worker' = worker \ {a}
             /\ stage' = Disposed(worker \cap {a})
             /\ UNCHANGED placeholder
    <3>1. \A b \in Attempts :
            stage'[b] = IF b \notin worker \cap {a} THEN stage[b]
                        ELSE CASE stage[b] = "session" -> "aborted"
                               [] stage[b] = "open"    -> "done"
                               [] OTHER                -> stage[b]
      BY <2>3 DEF Disposed
    <3>2. stage' \in [Attempts -> Stages]
      BY <2>3 DEF IInv, Shape, TypeOK, Disposed, Stages
    <3>3. \A b \in Attempts :
            /\ PURL(b) \in mapped' <=> PURL(b) \in mapped
            /\ WURL(b) \in mapped' <=> WURL(b) \in mapped /\ b # a
      BY <2>3, URLsDiffer
    <3>4. WURL(a) \in mapped /\ Waits({a}) \subseteq Attempts
      BY <1>3 DEF IInv, Shape, OwnersAgree, Waits
    <3>5. Parted({}, {a})
      BY <2>3, <3>1, <3>2, <3>3, <3>4 DEF IInv, Shape, TypeOK, Parted
    <3>6. ContextOK'
      <4>1. count \in Nat
        BY DEF IInv, Shape, TypeOK
      <4>2. count' \in Nat
        BY <2>1, <4>1, CountAfterOne
      <4> QED BY <1>1, <4>2 DEF IInv, Shape, TypeOK, ContextOK, loginVars
    <3> QED BY <2>1, <3>5, <3>6, PartingKeeps
  <2> QED BY <1>3, <2>2, <2>3 DEF QueryEnds
<1> QED BY <1>2, <1>3

\* The loop is over: whoever waits for a query is stranded.
LEMMA SweepEndKeeps == IInv /\ SweepEnd => IInv'
<1> SUFFICES ASSUME IInv, SweepEnd PROVE IInv'
  OBVIOUS
<1>1. Calm \in [active : BOOLEAN, todo : SUBSET URLs, waits : SUBSET Attempts]
  BY DEF Calm
<1>2. ContextOK'
  BY <1>1 DEF IInv, Shape, TypeOK, ContextOK, SweepEnd, queryVars
<1>3. count' <= count
  BY DEF IInv, Shape, TypeOK, SweepEnd
<1>4. CASE client = "ready"
  <2>1. Held
    BY <1>2, <1>3 DEF SweepEnd, Held, mapVars
  <2>2. Move(At({"query"}), "stranded")
    BY <1>4 DEF SweepEnd
  <2>3. \A a \in At({"query"}) : stage[a] \in {"login", "relogin", "query", "stranded"}
    BY DEF At
  <2>4. At({"query"}) \in SUBSET Attempts
    BY DEF At
  <2> QED BY <2>1, <2>2, <2>3, <2>4, StepKeeps
<1>5. CASE client # "ready"
  <2>1. Kept /\ deleting' \subseteq Attempts
    BY <1>5 DEF IInv, Shape, TypeOK, SweepEnd, Kept, mapVars
  <2> QED BY <1>2, <1>3, <2>1, KeptIsKept
<1> QED BY <1>4, <1>5

\* A configuration with the server disconnects what is not mapped to it any more, one without the
\* server disconnects everything.
LEMMA LoadConfigKeeps == IInv => \A present \in BOOLEAN : LoadConfig(present) => IInv'
<1> SUFFICES ASSUME IInv, NEW present \in BOOLEAN, LoadConfig(present) PROVE IInv'
  OBVIOUS
<1> DEFINE P == IF present THEN {} ELSE placeholder
           W == IF present THEN {a \in worker : WURL(a) \notin mapped} ELSE worker
<1>1. P \in SUBSET Attempts /\ W \in SUBSET Attempts
  BY DEF IInv, Shape, TypeOK
<1>2. Disconnect(P, W, {}) /\ count' = IF present THEN count ELSE 0
  BY DEF LoadConfig
<1>3. present => P = {} /\ \A a \in W : WURL(a) \notin mapped
  OBVIOUS
<1> HIDE DEF P, W
<1>4. Parted(P, W)
  BY <1>1, <1>2, DisconnectEffect DEF IInv
<1>5. ContextOK'
  BY <1>2 DEF LoadConfig, IInv, Shape, TypeOK, ContextOK, loginVars, queryVars
<1>6. Shape'
  BY <1>1, <1>4, <1>5, PartingKeepsShape DEF IInv
<1>7. CASE present
  <2>1. Backed \subseteq Backed'
    BY <1>3, <1>4, <1>7 DEF Backed, Parted
  <2>2. count' <= count
    BY <1>2, <1>7 DEF IInv, Shape, TypeOK
  <2>3. CountIsBacked'
    BY <1>6, <2>1, <2>2, BackingKept
  <2> QED BY <1>6, <2>3 DEF IInv
<1>8. CASE ~present
  <2>1. (Shape => IsFiniteSet(Backed))'
    BY BackedIsFinite, PTL
  <2>2. Cardinality(Backed') \in Nat
    BY <1>6, <2>1, FS_CardinalityType
  <2> QED BY <1>2, <1>6, <1>8, <2>2 DEF IInv, CountIsBacked
<1> QED BY <1>7, <1>8

-----------------------------------------------------------------------------
(* The theorems                                                            *)

\* Initially nothing is mapped and nothing counted.
LEMMA InitOK == Init => IInv
<1> SUFFICES ASSUME Init PROVE IInv
  OBVIOUS
<1> USE DEF Init
<1>1. TypeOK
  BY DEF TypeOK, Calm, Stages
<1>2. /\ OwnersAgree /\ PlaceholderIsPending /\ WorkersHaveBegun /\ OpenIsListed /\ UnbegunIsUnmapped
  BY DEF OwnersAgree, PlaceholderIsPending, WorkersHaveBegun, OpenIsListed, UnbegunIsUnmapped, At
<1>3. Used = {} /\ Backed = {}
  BY DEF Used, Backed
<1>4. IsFiniteSet(Used) /\ Cardinality(Backed) = 0
  BY <1>3, FS_EmptySet
<1>5. CountIsBacked
  BY <1>4 DEF CountIsBacked
<1> QED BY <1>1, <1>2, <1>4, <1>5 DEF IInv, Shape

\* Every step preserves the invariant: one lemma above for each action.
LEMMA NextKeeps == IInv /\ [Next]_vars => IInv'
<1> SUFFICES ASSUME IInv, [Next]_vars PROVE IInv'
  OBVIOUS
<1>1. CASE Login \/ SweepEnd
  BY <1>1, LoginKeeps, SweepEndKeeps
<1>2. CASE DisconnectDHE \/ ServerStopped \/ ServerStarted \/ UNCHANGED vars
  BY <1>2, BystandersKeep
<1>3. ASSUME NEW a \in Attempts,
             Connect(a) \/ Progress(a) \/ Deletion(a) \/ QueryCreated(a) \/ StrandedFails(a)
      PROVE  IInv'
  <2>1. CASE Progress(a)
    BY <2>1, BeginWorkerKeeps, WorkerReadyKeeps, WorkerFailsKeeps, CoreClientKeeps, SessionOkKeeps,
       SessionFailKeeps DEF Progress
  <2>2. CASE Connect(a) \/ StrandedFails(a) \/ Deletion(a)
    BY <2>2, ConnectKeeps, WorkerFailsKeeps, DeletionKeeps
  <2>3. CASE QueryCreated(a)
    BY <2>3, BystandersKeep
  <2> QED BY <1>3, <2>1, <2>2, <2>3
<1>4. ASSUME NEW a \in Attempts,
             CancelPlaceholder(a) \/ DisconnectWorker(a) \/ CoreDrop(a) \/ QueryEnds(a) \/ SweepNext(a)
      PROVE  IInv'
  BY <1>4, DisconnectOneKeeps, QueryEndsKeeps, SweepNextKeeps
<1>5. CASE \E present \in BOOLEAN : LoadConfig(present)
  BY <1>5, LoadConfigKeeps
<1> QED BY <1>1, <1>2, <1>3, <1>4, <1>5 DEF Next

\* What the other theorems rest on holds in every state.
THEOREM InvariantHolds == Spec => []IInv
BY InitOK, NextKeeps, PTL DEF Spec

\* Type correctness.
THEOREM TypeCorrect == Spec => []TypeOK
<1>1. IInv => TypeOK
  BY DEF IInv, Shape
<1> QED BY <1>1, InvariantHolds, PTL

\* _workerInfoMap and _workerURLToServerURLMap speak of the same workers, whichever handlers
\* and rejections interleave.
THEOREM OwnersAlwaysAgree == Spec => []OwnersAgree
<1>1. IInv => OwnersAgree
  BY DEF IInv, Shape
<1> QED BY <1>1, InvariantHolds, PTL

\* A placeholder stands for an attempt under way, never beside its worker, and is mapped.
THEOREM PlaceholdersArePending == Spec => []PlaceholderIsPending
<1>1. IInv => PlaceholderIsPending
  BY DEF IInv, Shape
<1> QED BY <1>1, InvariantHolds, PTL

\* An established connection is in _connectionMap until it is disposed.
THEOREM OpenIsAlwaysListed == Spec => []OpenIsListed
<1>1. IInv => OpenIsListed
  BY DEF IInv, Shape
<1> QED BY <1>1, InvariantHolds, PTL

\* connectionCount never exceeds the connections mapped to the server, for any number of attempts.
THEOREM CountNeverExceeds == Spec => []CountNeverOverstates
<1>1. IInv => CountNeverOverstates
  <2> SUFFICES ASSUME IInv PROVE CountNeverOverstates
    OBVIOUS
  <2> DEFINE Counted == {a \in Attempts : {PURL(a), WURL(a)} \cap mapped # {}}
  <2>1. Counted \subseteq Used
    BY DEF IInv, Shape, UnbegunIsUnmapped, Used
  <2>2. IsFiniteSet(Counted)
    BY <2>1, FS_Subset DEF IInv, Shape
  <2>3. Backed \subseteq Counted
    BY DEF Backed
  <2>4. /\ Cardinality(Backed) <= Cardinality(Counted)
        /\ Cardinality(Backed) \in Nat /\ Cardinality(Counted) \in Nat
    BY <2>2, <2>3, FS_Subset, FS_CardinalityType
  <2> HIDE DEF Counted
  <2>5. count <= Cardinality(Counted)
    BY <2>4 DEF IInv, Shape, TypeOK, CountIsBacked
  <2> QED BY <2>5 DEF CountNeverOverstates, Counted
<1> QED BY <1>1, InvariantHolds, PTL

-----------------------------------------------------------------------------
(* EnterpriseWorkers implements WorkerEntries: what connectToServer and the   *)
(* disconnections do to _connectionMap is what entries do.                    *)

Early == {"unused", "login", "got"}
Late == {"session", "aborted", "open", "done"}

\* Where an attempt stands tells its turn.
LEMMA TurnOfStage ==
    ASSUME TypeOK, NEW a \in Attempts
    PROVE  /\ stage[a] \in Early => Turn[a] = "placeholder"
           /\ stage[a] \in {"relogin", "query", "stranded", "core"} => Turn[a] = "worker"
           /\ stage[a] \in Late => Turn[a] = "over"
           /\ Turn[a] = "over" => stage[a] \in Late
BY DEF TypeOK, Turn, Early, Late, Stages

TurnIsKnown == \A a \in Attempts : TypeOK =>
    /\ stage[a] \in Early => Turn[a] = "placeholder"
    /\ stage[a] \in {"relogin", "query", "stranded", "core"} => Turn[a] = "worker"
    /\ stage[a] \in Late => Turn[a] = "over"

LEMMA TurnsAreKnown == TurnIsKnown
BY TurnOfStage DEF TurnIsKnown

LEMMA TurnOfStageNext ==
    ASSUME TypeOK', NEW a \in Attempts
    PROVE  /\ stage'[a] \in Early => Turn'[a] = "placeholder"
           /\ stage'[a] \in {"relogin", "query", "stranded", "core"} => Turn'[a] = "worker"
           /\ stage'[a] \in Late => Turn'[a] = "over"
<1>1. TurnIsKnown'
  BY TurnsAreKnown, PTL
<1> QED BY <1>1 DEF TurnIsKnown

\* How a stage may change without an entry appearing.
Onward(old, new) ==
    \/ new = old
    \/ old \in Early /\ new \in Early
    \/ old \in {"relogin", "query", "stranded", "core"} /\ new \in {"relogin", "query", "stranded", "core"}
    \/ new \in Late

\* Nothing appears, and an attempt that ends has no placeholder any more: entries leave.
LEMMA EntriesLeave ==
    ASSUME IInv, TypeOK', placeholder' \subseteq placeholder, worker' \subseteq worker,
           \A a \in Attempts : Onward(stage[a], stage'[a]),
           \A a \in Attempts : stage'[a] \in Late => a \notin placeholder'
    PROVE  Entries!Next
<1> DEFINE gone == {a \in Attempts : Entry'[a] = "none"}
           ended == {a \in Attempts : stage'[a] \in Late}
<1>1. Entry' = [a \in Attempts |-> IF a \in gone THEN "none" ELSE Entry[a]]
  <2>1. \A a \in Attempts : Entry'[a] = IF a \in gone THEN "none" ELSE Entry[a]
    BY DEF IInv, Shape, PlaceholderIsPending, Entry
  <2>2. Entry' = [a \in Attempts |-> Entry'[a]]
    BY DEF Entry
  <2> HIDE DEF gone
  <2> QED BY <2>1, <2>2
<1>2. Turn' = [a \in Attempts |-> IF a \in ended THEN "over" ELSE Turn[a]]
  <2>1. ASSUME NEW a \in Attempts
        PROVE  Turn'[a] = IF a \in ended THEN "over" ELSE Turn[a]
    <3>1. CASE stage'[a] \in Late
      BY <3>1, TurnOfStageNext
    <3>2. CASE stage'[a] \notin Late
      <4>1. stage'[a] = stage[a]
            \/ (stage[a] \in Early /\ stage'[a] \in Early)
            \/ (stage[a] \in {"relogin", "query", "stranded", "core"} /\ stage'[a] \in {"relogin", "query", "stranded", "core"})
        BY <3>2 DEF Onward
      <4>2. stage[a] \in Early \/ stage[a] \in {"relogin", "query", "stranded", "core"}
        BY <3>2, <4>1 DEF IInv, Shape, TypeOK, Stages, Early, Late
      <4>3. TypeOK
        BY DEF IInv, Shape
      <4>4. Turn'[a] = Turn[a]
        BY <4>1, <4>2, <4>3, TurnOfStage, TurnOfStageNext
      <4> QED BY <3>2, <4>4
    <3> QED BY <3>1, <3>2
  <2>2. Turn' = [a \in Attempts |-> Turn'[a]]
    BY DEF Turn
  <2> HIDE DEF ended
  <2> QED BY <2>1, <2>2
<1>3. \A a \in ended : Entry[a] = "placeholder" => a \in gone
  <2> SUFFICES ASSUME NEW a \in ended, Entry[a] = "placeholder" PROVE Entry'[a] = "none"
    OBVIOUS
  <2>1. a \notin worker' /\ a \notin placeholder'
    BY DEF Entry
  <2> QED BY <2>1 DEF Entry
<1>4. gone \in SUBSET Attempts /\ ended \in SUBSET Attempts
  OBVIOUS
<1> HIDE DEF gone, ended
<1>5. Entries!Leave(gone, ended)
  BY <1>1, <1>2, <1>3 DEF Entries!Leave
<1> QED BY <1>4, <1>5 DEF Entries!Next

\* Attempts of A move to another stage, and lose their placeholders if that is the last.
LEMMA MoveLeaves ==
    ASSUME IInv, TypeOK', NEW A \in SUBSET Attempts, NEW st, Move(A, st),
           placeholder' \subseteq placeholder, worker' \subseteq worker,
           \A a \in A : Onward(stage[a], st) /\ (st \in Late => a \notin placeholder')
    PROVE  Entries!Next
<1>1. \A a \in Attempts : stage'[a] = IF a \in A THEN st ELSE stage[a]
  BY DEF Move
<1>2. \A a \in Attempts : Onward(stage[a], stage'[a])
  BY <1>1 DEF Onward
<1>3. \A a \in Attempts : stage'[a] \in Late => a \notin placeholder'
  BY <1>1 DEF IInv, Shape, PlaceholderIsPending, Late
<1> QED BY <1>2, <1>3, EntriesLeave

\* So do the disconnections.
LEMMA PartingLeaves ==
    ASSUME IInv, TypeOK', NEW P \in SUBSET Attempts, NEW W \in SUBSET Attempts, Parted(P, W)
    PROVE  Entries!Next
<1>1. placeholder' \subseteq placeholder /\ worker' \subseteq worker
  BY DEF Parted
<1>2. \A a \in Attempts : Onward(stage[a], stage'[a])
  BY DEF Parted, Onward, Late
<1>3. \A a \in Attempts : stage'[a] \in Late => a \notin placeholder'
  <2>1. \A a \in Attempts : stage'[a] \in Late => stage[a] \in Late
    BY DEF Parted, Late
  <2> QED BY <1>1, <2>1 DEF IInv, Shape, PlaceholderIsPending, Late
<1> QED BY <1>1, <1>2, <1>3, EntriesLeave

LEMMA DisconnectLeaves ==
    ASSUME IInv, TypeOK', NEW P \in SUBSET Attempts, NEW W \in SUBSET Attempts, NEW ended \in SUBSET W,
           Disconnect(P, W, ended)
    PROVE  Entries!Next
<1>1. Parted(P, W)
  BY DisconnectEffect DEF IInv
<1> QED BY <1>1, PartingLeaves

\* Nothing happens to the connection map.
LEMMA StillLeaves ==
    ASSUME IInv, TypeOK', UNCHANGED <<stage, placeholder, worker>>
    PROVE  Entries!Next
<1>1. \A a \in Attempts : Onward(stage[a], stage'[a]) /\ (stage'[a] \in Late => a \notin placeholder')
  BY DEF Onward, IInv, Shape, PlaceholderIsPending, Late
<1> QED BY <1>1, EntriesLeave

LEMMA LoginLeaves ==
    ASSUME IInv, TypeOK', Login
    PROVE  Entries!Next
<1>1. CASE LoginOk
  <2>1. UNCHANGED <<placeholder, worker>>
    BY <1>1 DEF LoginOk, mapVars
  <2>2. \A a \in Attempts : stage'[a] = CASE stage[a] = "login" -> "got"
                                          [] stage[a] = "relogin" -> "query"
                                          [] OTHER -> stage[a]
    BY <1>1 DEF LoginOk
  <2>3. \A a \in Attempts : Onward(stage[a], stage'[a]) /\ (stage'[a] \in Late => stage[a] \in Late)
    BY <2>2 DEF Onward, Early, Late
  <2>4. \A a \in Attempts : stage'[a] \in Late => a \notin placeholder'
    BY <2>1, <2>3 DEF IInv, Shape, PlaceholderIsPending, Late
  <2> QED BY <2>1, <2>3, <2>4, EntriesLeave
<1>2. CASE LoginFail \/ LoginThrows
  <2>1. /\ Move(At({"login", "relogin"}), "done")
        /\ placeholder' = placeholder \ At({"relogin"}) /\ worker' = worker
    BY <1>2 DEF LoginFail, LoginThrows, CreationFails
  <2>2. At({"login", "relogin"}) \in SUBSET Attempts
    BY DEF At
  <2>3. \A a \in At({"login", "relogin"}) : Onward(stage[a], "done") /\ a \notin placeholder'
    BY <2>1 DEF At, Onward, Late, IInv, Shape, PlaceholderIsPending
  <2> QED BY <2>1, <2>2, <2>3, MoveLeaves
<1> QED BY <1>1, <1>2 DEF Login

\* A worker is begun: the placeholder appears.
LEMMA BeginWorkerPlaces ==
    ASSUME IInv, TypeOK', NEW a \in Attempts, BeginWorker(a)
    PROVE  Entries!Next
<1>1. stage[a] = "got" /\ worker' = worker
  BY DEF BeginWorker
<1>2. CASE client = "broken"
  <2>1. Move({a}, "done") /\ placeholder' = placeholder
    BY <1>2 DEF BeginWorker
  <2>2. Onward(stage[a], "done") /\ a \notin placeholder'
    BY <1>1, <2>1 DEF Onward, Late, IInv, Shape, PlaceholderIsPending
  <2> QED BY <1>1, <2>1, <2>2, MoveLeaves
<1>3. CASE client # "broken"
  <2>1. PICK st \in {"query", "relogin"} : Move({a}, st)
    BY <1>3 DEF BeginWorker
  <2>2. placeholder' = placeholder \cup {a}
    BY <1>3 DEF BeginWorker
  <2>3. a \notin worker
    BY <1>1 DEF IInv, Shape, WorkersHaveBegun
  <2>4. Entry' = [Entry EXCEPT ![a] = "placeholder"]
    BY <1>1, <2>2, <2>3 DEF Entry
  <2>5. stage'[a] = st /\ \A b \in Attempts \ {a} : stage'[b] = stage[b]
    BY <2>1 DEF Move
  <2>6. Turn[a] = "placeholder"
    BY <1>1, TurnOfStage DEF IInv, Shape, Early
  <2>7. Turn'[a] = "worker"
    BY <2>5, TurnOfStageNext
  <2>8. \A b \in Attempts \ {a} : Turn'[b] = Turn[b]
    BY <2>5 DEF Turn
  <2>9. Turn' = [Turn EXCEPT ![a] = "worker"]
    BY <2>7, <2>8 DEF Turn
  <2>10. Entries!Place(a)
    BY <2>4, <2>6, <2>9 DEF Entries!Place
  <2> QED BY <2>10 DEF Entries!Next
<1> QED BY <1>2, <1>3

\* The login to the worker ends: the worker appears, or the placeholder goes.
LEMMA CoreClientLists ==
    ASSUME IInv, TypeOK', NEW a \in Attempts, CoreClient(a)
    PROVE  Entries!Next
<1>1. stage[a] = "core" /\ placeholder' = placeholder \ {a}
  BY DEF CoreClient
<1>2. CASE Move({a}, "done") /\ worker' = worker
  BY <1>1, <1>2, MoveLeaves DEF Onward, Late
<1>3. CASE worker' = List(a) /\ Move({a}, "session")
  <2>1. Entry' = [Entry EXCEPT ![a] = "worker"]
    BY <1>1, <1>3 DEF Entry, List
  <2>2. stage'[a] = "session" /\ \A b \in Attempts \ {a} : stage'[b] = stage[b]
    BY <1>3 DEF Move
  <2>3. Turn[a] = "worker"
    BY <1>1, TurnOfStage DEF IInv, Shape
  <2>4. Turn'[a] = "over"
    BY <2>2, TurnOfStageNext DEF Late
  <2>5. \A b \in Attempts \ {a} : Turn'[b] = Turn[b]
    BY <2>2 DEF Turn
  <2>6. Turn' = [Turn EXCEPT ![a] = "over"]
    BY <2>4, <2>5 DEF Turn
  <2>7. Entries!List(a)
    BY <2>1, <2>3, <2>6 DEF Entries!List
  <2> QED BY <2>7 DEF Entries!Next
<1> QED BY <1>2, <1>3 DEF CoreClient

\* The other steps of an attempt.
LEMMA AttemptLeaves ==
    ASSUME IInv, TypeOK', NEW a \in Attempts,
           Connect(a) \/ WorkerReady(a) \/ WorkerFails(a) \/ StrandedFails(a) \/ SessionOk(a) \/ SessionFail(a)
    PROVE  Entries!Next
<1>1. CASE Connect(a)
  <2>1. UNCHANGED <<placeholder, worker>> /\ stage[a] = "unused"
    BY <1>1 DEF Connect, mapVars
  <2>2. PICK st \in {"got", "done", "login"} : Move({a}, st)
    BY <1>1 DEF Connect
  <2>3. Onward(stage[a], st) /\ a \notin placeholder'
    BY <2>1, <2>2 DEF Onward, Early, Late, IInv, Shape, PlaceholderIsPending
  <2> QED BY <2>1, <2>2, <2>3, MoveLeaves
<1>2. CASE WorkerReady(a)
  <2>1. UNCHANGED <<placeholder, worker>> /\ stage[a] = "query"
    BY <1>2 DEF WorkerReady
  <2>2. Move({a}, "core") \/ (Move({a}, "done") /\ a \notin placeholder)
    BY <1>2 DEF WorkerReady
  <2>3. CASE Move({a}, "core")
    BY <2>1, <2>3, MoveLeaves DEF Onward, Late
  <2>4. CASE Move({a}, "done") /\ a \notin placeholder
    BY <2>1, <2>4, MoveLeaves DEF Onward, Late
  <2> QED BY <2>2, <2>3, <2>4
<1>3. CASE WorkerFails(a) \/ StrandedFails(a)
  <2>1. Move({a}, "done") /\ placeholder' = placeholder \ {a} /\ worker' = worker
    BY <1>3 DEF WorkerFails, StrandedFails, CreationFails
  <2> QED BY <2>1, MoveLeaves DEF Onward, Late
<1>4. CASE SessionOk(a) \/ SessionFail(a)
  <2>1. placeholder' = placeholder /\ worker' \subseteq worker /\ stage[a] \in {"session", "aborted"}
    BY <1>4 DEF SessionOk, SessionFail, mapVars
  <2>2. Move({a}, "open") \/ Move({a}, "done")
    BY <1>4 DEF SessionOk, SessionFail
  <2>3. a \notin placeholder'
    BY <2>1 DEF IInv, Shape, PlaceholderIsPending
  <2> QED BY <2>1, <2>2, <2>3, MoveLeaves DEF Onward, Late
<1> QED BY <1>1, <1>2, <1>3, <1>4

\* The disconnections, by commands, by events and by the loop over all workers.
LEMMA DisconnectionsLeave ==
    ASSUME IInv, TypeOK', NEW a \in Attempts,
           CancelPlaceholder(a) \/ DisconnectWorker(a) \/ CoreDrop(a) \/ QueryEnds(a) \/ SweepNext(a) \/ Deletion(a)
    PROVE  Entries!Next
<1>1. {} \in SUBSET Attempts /\ {a} \in SUBSET Attempts /\ {} \in SUBSET {a} /\ {a} \in SUBSET {a} /\ {} \in SUBSET {}
  OBVIOUS
<1>2. CASE Disconnect({a}, {}, {}) \/ Disconnect({}, {a}, {}) \/ Disconnect({}, {a}, {a})
  BY <1>1, <1>2, DisconnectLeaves
<1>3. CASE CancelPlaceholder(a) \/ DisconnectWorker(a) \/ CoreDrop(a) \/ SweepNext(a)
  BY <1>2, <1>3 DEF CancelPlaceholder, DisconnectWorker, CoreDrop, SweepNext
<1>4. ASSUME placeholder' = placeholder, worker' = worker \ {a}, stage' = Disposed(worker \cap {a})
      PROVE  Entries!Next
  <2>1. \A b \in Attempts :
          \/ stage'[b] = stage[b]
          \/ stage[b] \in {"session", "open"} /\ stage'[b] \in {"aborted", "done"}
    BY <1>4 DEF Disposed
  <2>2. \A b \in Attempts : Onward(stage[b], stage'[b]) /\ (stage'[b] \in Late => stage[b] \in Late)
    BY <2>1 DEF Onward, Late
  <2>3. \A b \in Attempts : stage'[b] \in Late => b \notin placeholder'
    BY <1>4, <2>2 DEF IInv, Shape, PlaceholderIsPending, Late
  <2> QED BY <1>4, <2>2, <2>3, EntriesLeave
<1>5. CASE QueryEnds(a)
  <2>1. CASE client = "ready" /\ subscribed /\ a \in info
    <3>1. \/ Disconnect({}, {a}, {})
          \/ placeholder' = placeholder /\ worker' = worker \ {a} /\ stage' = Disposed(worker \cap {a})
      BY <1>5, <2>1 DEF QueryEnds
    <3> QED BY <1>2, <1>4, <3>1
  <2>2. CASE ~(client = "ready" /\ subscribed /\ a \in info)
    BY <1>5, <2>2, StillLeaves DEF QueryEnds, mapVars
  <2> QED BY <2>1, <2>2
<1>6. CASE Deletion(a)
  <2>1. CASE DeletionAnswered(a)
    BY <1>4, <2>1 DEF DeletionAnswered
  <2>2. CASE DeletionRefused(a) \/ DoomedDeleted(a)
    BY <2>2, StillLeaves DEF DeletionRefused, DoomedDeleted, mapVars
  <2> QED BY <1>6, <2>1, <2>2 DEF Deletion
<1> QED BY <1>3, <1>5, <1>6

LEMMA LoadConfigLeaves ==
    ASSUME IInv, TypeOK', NEW present \in BOOLEAN, LoadConfig(present)
    PROVE  Entries!Next
<1> DEFINE P == IF present THEN {} ELSE placeholder
           W == IF present THEN {a \in worker : WURL(a) \notin mapped} ELSE worker
<1>1. P \in SUBSET Attempts /\ W \in SUBSET Attempts /\ {} \in SUBSET W
  BY DEF IInv, Shape, TypeOK
<1>2. Disconnect(P, W, {})
  BY DEF LoadConfig
<1> HIDE DEF P, W
<1> QED BY <1>1, <1>2, DisconnectLeaves

\* Every step maps to a step of entries.
LEMMA EntriesStep == IInv /\ [Next]_vars => [Entries!Next]_Entries!vars
<1> SUFFICES ASSUME IInv, [Next]_vars PROVE Entries!Next
  BY DEF Entries!vars
<1>0. TypeOK'
  BY NextKeeps DEF IInv, Shape
<1>1. CASE Login
  BY <1>0, <1>1, LoginLeaves
<1>2. CASE SweepEnd
  <2>1. UNCHANGED <<placeholder, worker>>
    BY <1>2 DEF SweepEnd, mapVars
  <2>2. UNCHANGED stage \/ Move(At({"query"}), "stranded")
    BY <1>2 DEF SweepEnd
  <2>3. CASE Move(At({"query"}), "stranded")
    <3>1. At({"query"}) \in SUBSET Attempts /\ \A a \in At({"query"}) : Onward(stage[a], "stranded")
      BY DEF At, Onward
    <3>2. "stranded" \notin Late
      BY DEF Late
    <3> QED BY <1>0, <2>1, <2>3, <3>1, <3>2, MoveLeaves
  <2>4. CASE UNCHANGED stage
    BY <1>0, <2>1, <2>4, StillLeaves
  <2> QED BY <2>2, <2>3, <2>4
<1>3. CASE DisconnectDHE \/ ServerStopped \/ ServerStarted \/ UNCHANGED vars
  BY <1>0, <1>3, StillLeaves DEF DisconnectDHE, ServerStopped, ServerStarted, vars, mapVars
<1>4. ASSUME NEW a \in Attempts,
             Connect(a) \/ Progress(a) \/ Deletion(a) \/ QueryCreated(a) \/ StrandedFails(a)
      PROVE  Entries!Next
  <2>1. CASE Progress(a)
    BY <1>0, <2>1, BeginWorkerPlaces, CoreClientLists, AttemptLeaves DEF Progress
  <2>2. CASE Connect(a) \/ StrandedFails(a)
    BY <1>0, <2>2, AttemptLeaves
  <2>3. CASE Deletion(a)
    BY <1>0, <2>3, DisconnectionsLeave
  <2>4. CASE QueryCreated(a)
    BY <1>0, <2>4, StillLeaves DEF QueryCreated, mapVars
  <2> QED BY <1>4, <2>1, <2>2, <2>3, <2>4
<1>5. ASSUME NEW a \in Attempts,
             CancelPlaceholder(a) \/ DisconnectWorker(a) \/ CoreDrop(a) \/ QueryEnds(a) \/ SweepNext(a)
      PROVE  Entries!Next
  BY <1>0, <1>5, DisconnectionsLeave
<1>6. CASE \E present \in BOOLEAN : LoadConfig(present)
  BY <1>0, <1>6, LoadConfigLeaves
<1> QED BY <1>1, <1>2, <1>3, <1>4, <1>5, <1>6 DEF Next

\* What the connection map holds of an attempt is a placeholder, once, that does not outlive the
\* attempt, then its worker, once, and nothing comes back, whatever is cancelled, refused, swept
\* away or stopped.
THEOREM EntriesAreImplemented == Spec => ImplementsEntries
<1>1. Init => Entries!Init
  <2> SUFFICES ASSUME Init PROVE Entries!Init
    OBVIOUS
  <2> QED BY DEF Init, Entries!Init, Entry, Turn
<1> QED BY <1>1, EntriesStep, InvariantHolds, PTL DEF Spec, ImplementsEntries, Entries!Spec
=============================================================================
