----------------------------- MODULE ViewsProofs -----------------------------
(***************************************************************************)
(* Proofs about the views: the one that creates workers, the theme of the   *)
(* pages in views, the trees of servers, connections and panels, and the    *)
(* panels of variables.                                                     *)
(***************************************************************************)
EXTENDS QueryView, WebviewTheme, ServerViews, Panels,
        FiniteSetTheorems, SequenceTheorems, WellFoundedInduction, TLAPS

-----------------------------------------------------------------------------
(* QueryView                                                               *)

JobKinds == {"start", "caught", "hidden", "show", "shown", "viewed", "refused", "cancelled", "created"}
Jobs == [kind : JobKinds, of : Creations]
Phases == {"none", "started", "hiding", "shown", "view", "serial", "failed", "cancelled", "created"}

\* The values of the variables.
QueryTypeOK ==
    /\ phase \in [Creations -> Phases]
    /\ jobs \in Seq(Jobs) /\ waiters \in Seq(Creations) /\ serial \in Creations \cup {NoCreation}
    /\ resolved \in BOOLEAN /\ visible \in BOOLEAN /\ present \in BOOLEAN /\ closed \in BOOLEAN

\* Jobs that lead to a call of show.
Showing == {"start", "caught", "hidden", "show"}
Leads(todo) == \E i \in DOMAIN todo : todo[i].kind \in Showing

\* The jobs of creations that start: whatever hides the view is followed by what shows it.
StartJobs(todo) ==
    /\ \A i \in DOMAIN todo : todo[i].kind \in Showing \cup {"shown", "refused", "cancelled"}
    /\ \A i \in DOMAIN todo : todo[i].kind = "cancelled" =>
         \E j \in DOMAIN todo : i < j /\ todo[j].kind \in Showing

\* No microtask is left: one creation waits at a time, for the view or for its worker.
NoneIsQueued ==
    /\ jobs = <<>>
    /\ WaitingIsVisible
    /\ waiters = <<>> \/ serial = NoCreation

\* The creations that waited for the view are going on.
ViewIsGiven ==
    /\ jobs # <<>> /\ \A i \in DOMAIN jobs : jobs[i].kind = "viewed"
    /\ waiters = <<>> /\ visible

\* A creation ends and hides the view, while none waits for it unless it is closed.
CreationEnds ==
    /\ Len(jobs) = 1 /\ jobs[1].kind \in {"cancelled", "created"}
    /\ serial = NoCreation /\ (closed \/ waiters = <<>>)

\* Creations start, and the view is shown or will be.
CreationsStart ==
    /\ jobs # <<>> /\ StartJobs(jobs)
    /\ Leads(jobs) \/ visible
    /\ serial # NoCreation => \A i \in DOMAIN jobs : jobs[i].kind = "start"
    /\ \A i \in DOMAIN jobs : jobs[i].kind = "shown" => ~resolved

QueryInv == QueryTypeOK /\ (NoneIsQueued \/ ViewIsGiven \/ CreationEnds \/ CreationsStart)

\* The first job is taken.
LEMMA JobIsTaken ==
    ASSUME NEW s \in Seq(Jobs), s # <<>>
    PROVE  /\ Tail(s) \in Seq(Jobs) /\ Len(Tail(s)) = Len(s) - 1 /\ Len(s) \in Nat \ {0}
           /\ Head(s) = s[1] /\ Head(s) \in Jobs
           /\ \A i \in DOMAIN Tail(s) : Tail(s)[i] = s[i + 1] /\ i + 1 \in DOMAIN s
           /\ \A i \in DOMAIN s : i = 1 \/ (i - 1 \in DOMAIN Tail(s) /\ Tail(s)[i - 1] = s[i])
OBVIOUS

LEMMA JobsAreJoined ==
    ASSUME NEW s \in Seq(Jobs), NEW t \in Seq(Jobs)
    PROVE  /\ s \o t \in Seq(Jobs)
           /\ \A i \in DOMAIN s : i \in DOMAIN (s \o t) /\ (s \o t)[i] = s[i]
           /\ \A i \in DOMAIN t : Len(s) + i \in DOMAIN (s \o t) /\ (s \o t)[Len(s) + i] = t[i]
           /\ \A i \in DOMAIN (s \o t) : i \in DOMAIN s \/ (i - Len(s) \in DOMAIN t /\ i = Len(s) + (i - Len(s)))
OBVIOUS

\* The jobs that creations leave are again jobs of creations that start.
LEMMA StartJobsAreJoined ==
    ASSUME NEW s \in Seq(Jobs), NEW t \in Seq(Jobs), StartJobs(s), StartJobs(t)
    PROVE  /\ s \o t \in Seq(Jobs) /\ StartJobs(s \o t)
           /\ Leads(s) \/ Leads(t) => Leads(s \o t)
           /\ t # <<>> => s \o t # <<>>
<1>1. /\ s \o t \in Seq(Jobs)
      /\ \A i \in DOMAIN s : i \in DOMAIN (s \o t) /\ (s \o t)[i] = s[i]
      /\ \A i \in DOMAIN t : Len(s) + i \in DOMAIN (s \o t) /\ (s \o t)[Len(s) + i] = t[i]
      /\ \A i \in DOMAIN (s \o t) : i \in DOMAIN s \/ (i - Len(s) \in DOMAIN t /\ i = Len(s) + (i - Len(s)))
  BY JobsAreJoined
<1>2. /\ Len(s) \in Nat /\ DOMAIN s \subseteq Nat /\ DOMAIN t \subseteq Nat
      /\ \A i \in DOMAIN (s \o t) : i \in Nat
  BY <1>1
<1> DEFINE u == s \o t
<1> HIDE DEF u
<1>3. \A i \in DOMAIN u : u[i].kind \in Showing \cup {"shown", "refused", "cancelled"}
  BY <1>1, <1>2 DEF u, StartJobs
<1>4. ASSUME NEW i \in DOMAIN u, u[i].kind = "cancelled"
      PROVE  \E j \in DOMAIN u : i < j /\ u[j].kind \in Showing
  <2>1. CASE i \in DOMAIN s
    <3>1. PICK j \in DOMAIN s : i < j /\ s[j].kind \in Showing
      BY <1>1, <1>4, <2>1 DEF u, StartJobs
    <3> QED BY <1>1, <3>1 DEF u
  <2>2. CASE i - Len(s) \in DOMAIN t /\ i = Len(s) + (i - Len(s))
    <3>1. t[i - Len(s)].kind = "cancelled"
      BY <1>1, <1>4, <2>2 DEF u
    <3>2. PICK j \in DOMAIN t : i - Len(s) < j /\ t[j].kind \in Showing
      BY <2>2, <3>1 DEF StartJobs
    <3>3. Len(s) + j \in DOMAIN u /\ i < Len(s) + j /\ u[Len(s) + j].kind \in Showing
      BY <1>1, <1>2, <1>4, <3>2 DEF u
    <3> QED BY <3>3
  <2> QED BY <1>1, <1>4, <2>1, <2>2 DEF u
<1>5. StartJobs(u)
  BY <1>3, <1>4 DEF StartJobs
<1>6. Leads(s) \/ Leads(t) => Leads(u)
  BY <1>1 DEF u, Leads
<1>7. t # <<>> => u # <<>>
  BY DEF u
<1> QED BY <1>1, <1>5, <1>6, <1>7 DEF u

\* What is left of them when the first one is taken.
LEMMA StartJobsGoOn ==
    ASSUME QueryTypeOK, CreationsStart
    PROVE  /\ Tail(jobs) \in Seq(Jobs) /\ StartJobs(Tail(jobs))
           /\ Head(jobs) \in Jobs /\ Head(jobs).kind \in Showing \cup {"shown", "refused", "cancelled"}
           /\ Head(jobs).kind \notin Showing => Leads(Tail(jobs)) \/ visible
           /\ Head(jobs).kind = "cancelled" => Leads(Tail(jobs))
           /\ \A i \in DOMAIN Tail(jobs) : Tail(jobs)[i].kind = "shown" => ~resolved
           /\ Head(jobs).kind = "shown" => ~resolved
           /\ serial # NoCreation =>
                Head(jobs).kind = "start" /\ \A i \in DOMAIN Tail(jobs) : Tail(jobs)[i].kind = "start"
<1> DEFINE todo == Tail(jobs)
<1>1. /\ todo \in Seq(Jobs) /\ Len(todo) = Len(jobs) - 1 /\ Len(jobs) \in Nat \ {0}
      /\ Head(jobs) = jobs[1] /\ Head(jobs) \in Jobs
      /\ \A i \in DOMAIN todo : todo[i] = jobs[i + 1] /\ i + 1 \in DOMAIN jobs
      /\ \A i \in DOMAIN jobs : i = 1 \/ (i - 1 \in DOMAIN todo /\ todo[i - 1] = jobs[i])
  BY JobIsTaken DEF QueryTypeOK, CreationsStart
<1>2. 1 \in DOMAIN jobs /\ DOMAIN jobs \subseteq Nat /\ DOMAIN todo \subseteq Nat /\ \A i \in DOMAIN todo : i > 0
  BY <1>1 DEF QueryTypeOK
<1> HIDE DEF todo
<1>3. \A i \in DOMAIN todo : todo[i].kind \in Showing \cup {"shown", "refused", "cancelled"}
  BY <1>1 DEF CreationsStart, StartJobs
<1>4. ASSUME NEW i \in DOMAIN todo, todo[i].kind = "cancelled"
      PROVE  \E j \in DOMAIN todo : i < j /\ todo[j].kind \in Showing
  <2>1. PICK j \in DOMAIN jobs : i + 1 < j /\ jobs[j].kind \in Showing
    BY <1>1, <1>4 DEF CreationsStart, StartJobs
  <2>2. j - 1 \in DOMAIN todo /\ i < j - 1 /\ todo[j - 1] = jobs[j]
    BY <1>1, <1>2, <2>1
  <2> QED BY <2>1, <2>2
<1>5. ASSUME Head(jobs).kind \notin Showing PROVE Leads(todo) \/ visible
  <2>1. CASE visible
    BY <2>1
  <2>2. CASE Leads(jobs)
    BY <1>1, <1>5, <2>2 DEF Leads
  <2> QED BY <2>1, <2>2 DEF CreationsStart
<1>6. ASSUME Head(jobs).kind = "cancelled" PROVE Leads(todo)
  <2>1. PICK j \in DOMAIN jobs : 1 < j /\ jobs[j].kind \in Showing
    BY <1>1, <1>2, <1>6 DEF CreationsStart, StartJobs
  <2> QED BY <1>1, <2>1 DEF Leads
<1>7. Head(jobs).kind \in Showing \cup {"shown", "refused", "cancelled"}
  BY <1>1, <1>2 DEF CreationsStart, StartJobs
<1>8. /\ \A i \in DOMAIN todo : todo[i].kind = "shown" => ~resolved
      /\ Head(jobs).kind = "shown" => ~resolved
      /\ serial # NoCreation =>
           Head(jobs).kind = "start" /\ \A i \in DOMAIN todo : todo[i].kind = "start"
  BY <1>1, <1>2 DEF CreationsStart
<1> QED BY <1>1, <1>3, <1>4, <1>5, <1>6, <1>7, <1>8 DEF StartJobs, todo

\* A job that shows nothing and hides nothing.
LEMMA TodoGoesOn ==
    ASSUME QueryTypeOK, CreationsStart, Head(jobs).kind \in {"shown", "refused"},
           jobs' = Tail(jobs), UNCHANGED <<resolved, visible, serial>>
    PROVE  NoneIsQueued' \/ CreationsStart'
<1>1. /\ StartJobs(Tail(jobs))
      /\ Leads(Tail(jobs)) \/ visible
      /\ \A i \in DOMAIN Tail(jobs) : Tail(jobs)[i].kind = "shown" => ~resolved
      /\ serial = NoCreation
  BY StartJobsGoOn DEF Showing
<1>2. CASE Tail(jobs) = <<>>
  <2>1. visible
    BY <1>1, <1>2 DEF Leads
  <2> QED BY <1>1, <1>2, <2>1 DEF NoneIsQueued, WaitingIsVisible
<1>3. CASE Tail(jobs) # <<>>
  <2>1. Leads(Tail(jobs)) => Leads(jobs)'
    BY DEF Leads
  <2>2. StartJobs(jobs)'
    BY <1>1 DEF StartJobs
  <2> QED BY <1>1, <1>3, <2>1, <2>2 DEF CreationsStart
<1> QED BY <1>2, <1>3

\* The rest of show: the view is visible, and whoever waited for the last one is refused.
LEMMA ViewIsShown ==
    ASSUME QueryTypeOK, CreationsStart, NEW c \in Creations, showView(c, Tail(jobs)), serial = NoCreation,
           UNCHANGED serial
    PROVE  /\ jobs' \in Seq(Jobs) /\ waiters' \in Seq(Creations)
           /\ resolved' \in BOOLEAN /\ visible' \in BOOLEAN /\ closed' \in BOOLEAN
           /\ CreationsStart'
<1> DEFINE refusals == [i \in DOMAIN waiters |-> Job("refused", waiters[i])]
           last == <<Job("shown", c)>>
<1>1. /\ jobs' = Tail(jobs) \o refusals \o last
      /\ waiters' = <<>> /\ resolved' = FALSE /\ visible' = TRUE /\ closed' = FALSE
  BY DEF showView
<1>2. Tail(jobs) \in Seq(Jobs) /\ StartJobs(Tail(jobs))
  BY StartJobsGoOn
<1>3. \A d \in Creations : Job("refused", d) \in Jobs /\ Job("refused", d).kind = "refused"
  BY DEF Job, Jobs, JobKinds
<1>4. refusals \in Seq(Jobs) /\ \A i \in DOMAIN refusals : refusals[i].kind = "refused"
  BY <1>3 DEF QueryTypeOK
<1>5. Job("shown", c) \in Jobs /\ Job("shown", c).kind = "shown"
  BY DEF Job, Jobs, JobKinds
<1>6. last \in Seq(Jobs) /\ last # <<>> /\ \A i \in DOMAIN last : last[i].kind = "shown"
  BY <1>5
<1> HIDE DEF refusals, last
<1>7. StartJobs(refusals) /\ StartJobs(last)
  BY <1>4, <1>6 DEF StartJobs
<1>8. Tail(jobs) \o refusals \in Seq(Jobs) /\ StartJobs(Tail(jobs) \o refusals)
  BY <1>2, <1>4, <1>7, StartJobsAreJoined
<1>9. /\ (Tail(jobs) \o refusals) \o last \in Seq(Jobs)
      /\ StartJobs((Tail(jobs) \o refusals) \o last)
      /\ (Tail(jobs) \o refusals) \o last # <<>>
  BY <1>6, <1>7, <1>8, StartJobsAreJoined
<1>10. StartJobs(jobs)' /\ jobs' # <<>> /\ jobs' \in Seq(Jobs)
  BY <1>1, <1>9 DEF StartJobs
<1>11. CreationsStart'
  BY <1>1, <1>10 DEF CreationsStart
<1>12. resolved' \in BOOLEAN /\ visible' \in BOOLEAN /\ closed' \in BOOLEAN
  BY <1>1, Zenon
<1>13. waiters' \in Seq(Creations)
  BY <1>1
<1> QED BY <1>10, <1>11, <1>12, <1>13, Zenon

\* The next job that creations have left.
LEMMA StartJobKeeps ==
    ASSUME QueryTypeOK, CreationsStart, Microtask
    PROVE  QueryInv'
<1> DEFINE c == Head(jobs).of
           todo == Tail(jobs)
<1>0. /\ phase \in [Creations -> Phases]
      /\ jobs \in Seq(Jobs) /\ waiters \in Seq(Creations) /\ serial \in Creations \cup {NoCreation}
      /\ resolved \in BOOLEAN /\ visible \in BOOLEAN /\ present \in BOOLEAN /\ closed \in BOOLEAN
  BY DEF QueryTypeOK
<1>1. /\ todo \in Seq(Jobs) /\ StartJobs(todo)
      /\ Head(jobs) \in Jobs /\ Head(jobs).kind \in Showing \cup {"shown", "refused", "cancelled"}
      /\ Head(jobs).kind = "cancelled" => Leads(todo)
      /\ \A i \in DOMAIN todo : todo[i].kind = "shown" => ~resolved
      /\ Head(jobs).kind = "shown" => ~resolved
      /\ serial # NoCreation =>
           Head(jobs).kind = "start" /\ \A i \in DOMAIN todo : todo[i].kind = "start"
  BY StartJobsGoOn
<1>2. c \in Creations
  BY <1>1 DEF Jobs
<1>3. \A d \in Creations : \A kind \in Showing \cup {"cancelled"} :
        Job(kind, d) \in Jobs /\ Job(kind, d).kind = kind
  BY DEF Job, Jobs, JobKinds, Showing
<1>4. \A d \in Creations : \A kind \in Showing :
        <<Job(kind, d)>> \in Seq(Jobs) /\ StartJobs(<<Job(kind, d)>>) /\ Leads(<<Job(kind, d)>>)
  BY <1>3 DEF StartJobs, Leads, Showing
<1>5. ASSUME NEW kind \in Showing, jobs' = Append(todo, Job(kind, c)),
             UNCHANGED <<phase, waiters, resolved, visible, present, serial, closed>>, serial = NoCreation
      PROVE  QueryInv'
  <2>1. jobs' = todo \o <<Job(kind, c)>>
    BY <1>1, <1>2, <1>3, <1>5
  <2>2. jobs' \in Seq(Jobs) /\ StartJobs(todo \o <<Job(kind, c)>>) /\ Leads(todo \o <<Job(kind, c)>>) /\ jobs' # <<>>
    BY <1>1, <1>2, <1>4, <2>1, StartJobsAreJoined
  <2>3. StartJobs(jobs)' /\ Leads(jobs)'
    BY <2>1, <2>2 DEF StartJobs, Leads
  <2>4. \A i \in DOMAIN jobs' : jobs'[i].kind = "shown" => ~resolved
    <3> SUFFICES ASSUME NEW i \in DOMAIN jobs', jobs'[i].kind = "shown" PROVE ~resolved
      OBVIOUS
    <3>1. i \in DOMAIN todo \/ jobs'[i] = Job(kind, c)
      BY <1>1, <1>2, <1>3, <1>5
    <3>2. CASE i \in DOMAIN todo
      <4>1. jobs'[i] = todo[i]
        BY <1>1, <1>2, <1>3, <1>5, <3>2
      <4> QED BY <1>1, <3>2, <4>1
    <3>3. CASE jobs'[i] = Job(kind, c)
      BY <1>2, <1>3, <3>3 DEF Showing
    <3> QED BY <3>1, <3>2, <3>3
  <2>5. CreationsStart'
    BY <1>5, <2>2, <2>3, <2>4 DEF CreationsStart
  <2> QED BY <1>0, <1>5, <2>2, <2>5 DEF QueryInv, QueryTypeOK
<1>6. CASE Head(jobs).kind = "start" /\ StartJob(c, todo)
  <2>1. CASE serial = NoCreation
    <3>1. phase' = [phase EXCEPT ![c] = "shown"] /\ showView(c, todo) /\ UNCHANGED <<present, serial>>
      BY <1>6, <2>1 DEF StartJob
    <3>2. phase' \in [Creations -> Phases]
      BY <1>0, <3>1 DEF Phases
    <3> QED BY <1>0, <1>2, <2>1, <3>1, <3>2, ViewIsShown DEF QueryInv, QueryTypeOK
  <2>2. CASE serial # NoCreation
    <3> DEFINE cancelling == <<Job("cancelled", serial)>>
               caught == <<Job("caught", c)>>
    <3>1. phase' = [phase EXCEPT ![c] = "hiding"] /\ UNCHANGED <<waiters, resolved, closed>>
      BY <1>6, <2>2 DEF StartJob
    <3>2. /\ visible' = FALSE /\ present' = FALSE /\ serial' = NoCreation
          /\ jobs' = todo \o cancelling \o caught
      BY <1>6, <2>2 DEF StartJob, hide
    <3>3. phase' \in [Creations -> Phases]
      BY <1>0, <3>1 DEF Phases
    <3>4. Job("cancelled", serial) \in Jobs /\ Job("cancelled", serial).kind = "cancelled"
      BY <1>0, <1>3, <2>2
    <3>5. Job("caught", c) \in Jobs /\ Job("caught", c).kind = "caught"
      BY <1>2, <1>3 DEF Showing
    <3> DEFINE both == <<Job("cancelled", serial), Job("caught", c)>>
    <3>6. jobs' = todo \o both
      BY <1>1, <3>2, <3>4, <3>5
    <3>7. both \in Seq(Jobs) /\ both[1].kind = "cancelled" /\ both[2].kind = "caught" /\ DOMAIN both = {1, 2}
      BY <3>4, <3>5
    <3> HIDE DEF both
    <3>8. StartJobs(both) /\ Leads(both) /\ both # <<>>
      BY <3>7 DEF StartJobs, Leads, Showing
    <3>9. todo \o both \in Seq(Jobs) /\ StartJobs(todo \o both) /\ Leads(todo \o both) /\ todo \o both # <<>>
      BY <1>1, <3>7, <3>8, StartJobsAreJoined
    <3>10. StartJobs(jobs)' /\ Leads(jobs)' /\ jobs' \in Seq(Jobs) /\ jobs' # <<>>
      BY <3>6, <3>9 DEF StartJobs, Leads
    <3>11. \A i \in DOMAIN jobs' : jobs'[i].kind # "shown"
      <4> SUFFICES ASSUME NEW i \in DOMAIN jobs' PROVE jobs'[i].kind # "shown"
        OBVIOUS
      <4>1. CASE i \in DOMAIN todo
        <5>1. jobs'[i] = todo[i]
          BY <1>1, <3>6, <3>7, <4>1, JobsAreJoined
        <5> QED BY <1>1, <2>2, <4>1, <5>1
      <4>2. CASE i - Len(todo) \in DOMAIN both /\ i = Len(todo) + (i - Len(todo))
        <5>1. jobs'[i] = both[i - Len(todo)]
          BY <1>1, <3>6, <3>7, <4>2, JobsAreJoined
        <5> QED BY <3>7, <4>2, <5>1
      <4>3. i \in DOMAIN (todo \o both) /\ todo \in Seq(Jobs) /\ both \in Seq(Jobs)
        BY <1>1, <3>6, <3>7
      <4>4. i \in DOMAIN todo \/ (i - Len(todo) \in DOMAIN both /\ i = Len(todo) + (i - Len(todo)))
        BY <4>3, JobsAreJoined
      <4> QED BY <4>1, <4>2, <4>4
    <3>12. CreationsStart'
      BY <3>2, <3>10, <3>11 DEF CreationsStart
    <3> QED BY <1>0, <3>1, <3>2, <3>3, <3>10, <3>12 DEF QueryInv, QueryTypeOK
  <2> QED BY <2>1, <2>2
<1>7. CASE Head(jobs).kind = "caught" /\ CaughtJob(c, todo)
  BY <1>1, <1>5, <1>7 DEF CaughtJob, Showing
<1>8. CASE Head(jobs).kind = "hidden" /\ HiddenJob(c, todo)
  BY <1>1, <1>5, <1>8 DEF HiddenJob, Showing
<1>9. CASE Head(jobs).kind = "show" /\ ShowJob(c, todo)
  <2>1. phase' = [phase EXCEPT ![c] = "shown"] /\ showView(c, todo) /\ UNCHANGED <<present, serial>>
    BY <1>9 DEF ShowJob
  <2>2. phase' \in [Creations -> Phases]
    BY <1>0, <2>1 DEF Phases
  <2>3. serial = NoCreation
    BY <1>1, <1>9
  <2> QED BY <1>0, <1>2, <2>1, <2>2, <2>3, ViewIsShown DEF QueryInv, QueryTypeOK
<1>10. CASE Head(jobs).kind = "shown" /\ ShownJob(c, todo)
  <2>1. /\ phase' = [phase EXCEPT ![c] = "view"] /\ UNCHANGED <<resolved, visible, present, serial, closed>>
        /\ waiters' = Append(waiters, c) /\ jobs' = todo
    BY <1>1, <1>10 DEF ShownJob
  <2>2. phase' \in [Creations -> Phases] /\ waiters' \in Seq(Creations)
    BY <1>0, <1>2, <2>1 DEF Phases
  <2>3. NoneIsQueued' \/ CreationsStart'
    BY <1>10, <2>1, TodoGoesOn
  <2> QED BY <1>0, <1>1, <2>1, <2>2, <2>3 DEF QueryInv, QueryTypeOK
<1>11. CASE Head(jobs).kind = "refused" /\ RefusedJob(c, todo)
  <2>1. /\ phase' = [phase EXCEPT ![c] = "failed"] /\ jobs' = todo
        /\ UNCHANGED <<waiters, resolved, visible, present, serial, closed>>
    BY <1>11 DEF RefusedJob
  <2>2. phase' \in [Creations -> Phases]
    BY <1>0, <2>1 DEF Phases
  <2>3. NoneIsQueued' \/ CreationsStart'
    BY <1>11, <2>1, TodoGoesOn
  <2> QED BY <1>0, <1>1, <2>1, <2>2, <2>3 DEF QueryInv, QueryTypeOK
<1>12. CASE Head(jobs).kind = "cancelled" /\ EndJob(c, "cancelled", todo)
  <2>1. /\ phase' = [phase EXCEPT ![c] = "cancelled"] /\ UNCHANGED <<waiters, resolved, closed>>
        /\ visible' = FALSE /\ present' = FALSE /\ serial' = NoCreation
        /\ serial = NoCreation
        /\ jobs' = todo \o <<>> \o <<>>
    BY <1>1, <1>12 DEF EndJob, hide
  <2>2. jobs' = todo
    BY <1>1, <2>1
  <2>3. phase' \in [Creations -> Phases]
    BY <1>0, <2>1 DEF Phases
  <2>4. StartJobs(jobs)' /\ Leads(jobs)' /\ jobs' # <<>>
    BY <1>1, <1>12, <2>2 DEF StartJobs, Leads
  <2>5. CreationsStart'
    BY <1>1, <2>1, <2>2, <2>4 DEF CreationsStart
  <2> QED BY <1>0, <1>1, <2>1, <2>2, <2>3, <2>5 DEF QueryInv, QueryTypeOK
<1> QED BY <1>1, <1>6, <1>7, <1>8, <1>9, <1>10, <1>11, <1>12 DEF Microtask, Showing

\* The next of the other jobs: the view was made, or a creation ends.
LEMMA EndJobKeeps ==
    ASSUME QueryTypeOK, ViewIsGiven \/ CreationEnds, Microtask
    PROVE  QueryInv'
<1> DEFINE c == Head(jobs).of
           todo == Tail(jobs)
<1>0. /\ phase \in [Creations -> Phases]
      /\ jobs \in Seq(Jobs) /\ waiters \in Seq(Creations) /\ serial \in Creations \cup {NoCreation}
      /\ resolved \in BOOLEAN /\ visible \in BOOLEAN /\ present \in BOOLEAN /\ closed \in BOOLEAN
  BY DEF QueryTypeOK
<1>1. /\ todo \in Seq(Jobs) /\ Len(todo) = Len(jobs) - 1 /\ Len(jobs) \in Nat \ {0}
      /\ Head(jobs) = jobs[1] /\ Head(jobs) \in Jobs
      /\ \A i \in DOMAIN todo : todo[i] = jobs[i + 1] /\ i + 1 \in DOMAIN jobs
  BY <1>0, JobIsTaken DEF Microtask
<1>2. c \in Creations /\ 1 \in DOMAIN jobs
  BY <1>0, <1>1 DEF Jobs
<1>3. CASE ViewIsGiven
  <2>1. Head(jobs).kind = "viewed"
    BY <1>1, <1>2, <1>3 DEF ViewIsGiven
  <2>2. /\ phase' = [phase EXCEPT ![c] = "serial"] /\ serial' = c /\ jobs' = todo
        /\ UNCHANGED <<waiters, resolved, visible, present, closed>>
    BY <2>1 DEF Microtask, ViewedJob
  <2>3. phase' \in [Creations -> Phases]
    BY <1>0, <2>2 DEF Phases
  <2>4. QueryTypeOK'
    BY <1>0, <1>1, <1>2, <2>2, <2>3 DEF QueryTypeOK
  <2>5. CASE todo = <<>>
    BY <1>3, <2>2, <2>4, <2>5 DEF QueryInv, NoneIsQueued, WaitingIsVisible, ViewIsGiven
  <2>6. CASE todo # <<>>
    BY <1>1, <1>3, <2>2, <2>4, <2>6 DEF QueryInv, ViewIsGiven
  <2> QED BY <2>5, <2>6
<1>4. CASE CreationEnds
  <2>1. Head(jobs).kind \in {"cancelled", "created"} /\ Len(todo) = 0 /\ serial = NoCreation
    BY <1>1, <1>4 DEF CreationEnds
  <2>2. PICK end \in {"cancelled", "created"} : EndJob(c, end, todo)
    BY <2>1 DEF Microtask
  <2>3. /\ phase' = [phase EXCEPT ![c] = end] /\ UNCHANGED <<waiters, resolved, closed>>
        /\ visible' = FALSE /\ present' = FALSE /\ serial' = NoCreation
        /\ jobs' = todo \o <<>> \o <<>>
    BY <2>1, <2>2 DEF EndJob, hide
  <2>4. jobs' = <<>> /\ jobs' \in Seq(Jobs)
    BY <1>1, <2>1, <2>3
  <2>5. phase' \in [Creations -> Phases]
    BY <1>0, <2>2, <2>3 DEF Phases
  <2>6. NoneIsQueued'
    BY <1>4, <2>3, <2>4 DEF NoneIsQueued, WaitingIsVisible, CreationEnds
  <2> QED BY <1>0, <2>3, <2>4, <2>5, <2>6 DEF QueryInv, QueryTypeOK
<1> QED BY <1>3, <1>4

\* What happens when no microtask is left.
LEMMA EventKeeps ==
    ASSUME QueryTypeOK, NoneIsQueued,
           \/ \E c \in Creations : createQuery(<<c>>)
           \/ \E c, d \in Creations : c # d /\ createQuery(<<c, d>>)
           \/ Close \/ resolveWebviewView
           \/ SettingsRequested \/ WorkerStarted \/ workerCreationCancelled \/ workerCreated
    PROVE  QueryInv'
<1>0. /\ phase \in [Creations -> Phases]
      /\ jobs \in Seq(Jobs) /\ waiters \in Seq(Creations) /\ serial \in Creations \cup {NoCreation}
      /\ resolved \in BOOLEAN /\ visible \in BOOLEAN /\ present \in BOOLEAN /\ closed \in BOOLEAN
  BY DEF QueryTypeOK
<1>1. ASSUME NEW cs \in Seq(Creations), cs # <<>>, createQuery(cs) PROVE QueryInv'
  <2>1. /\ phase' = [c \in Creations |-> IF c \in Range(cs) THEN "started" ELSE phase[c]]
        /\ jobs' = [i \in DOMAIN cs |-> Job("start", cs[i])]
        /\ UNCHANGED <<waiters, resolved, visible, present, serial, closed>>
    BY <1>1 DEF createQuery
  <2>2. \A d \in Creations : Job("start", d) \in Jobs /\ Job("start", d).kind = "start"
    BY DEF Job, Jobs, JobKinds
  <2>3. jobs' \in Seq(Jobs) /\ \A i \in DOMAIN jobs' : jobs'[i].kind = "start"
    BY <1>1, <2>1, <2>2
  <2>4. 1 \in DOMAIN jobs' /\ jobs' # <<>>
    BY <1>1, <2>1
  <2>5. phase' \in [Creations -> Phases]
    BY <1>0, <2>1 DEF Phases
  <2>6. StartJobs(jobs)' /\ Leads(jobs)'
    BY <2>3, <2>4 DEF StartJobs, Leads, Showing
  <2>7. CreationsStart'
    BY <2>3, <2>4, <2>6 DEF CreationsStart
  <2> QED BY <1>0, <2>1, <2>3, <2>5, <2>7 DEF QueryInv, QueryTypeOK
<1>2. CASE Close
  <2>1. /\ visible' = FALSE /\ present' = FALSE /\ serial' = NoCreation
        /\ jobs' = <<>> \o (IF serial = NoCreation THEN <<>> ELSE <<Job("cancelled", serial)>>) \o <<>>
        /\ closed' = TRUE /\ UNCHANGED <<phase, waiters, resolved>>
    BY <1>2 DEF Close, hide
  <2>2. CASE serial = NoCreation
    <3>1. jobs' = <<>> /\ jobs' \in Seq(Jobs)
      BY <2>1, <2>2
    <3>2. NoneIsQueued'
      BY <2>1, <3>1 DEF NoneIsQueued, WaitingIsVisible
    <3> QED BY <1>0, <2>1, <3>1, <3>2 DEF QueryInv, QueryTypeOK
  <2>3. CASE serial # NoCreation
    <3>1. Job("cancelled", serial) \in Jobs /\ Job("cancelled", serial).kind = "cancelled"
      BY <1>0, <2>3 DEF Job, Jobs, JobKinds
    <3>2. jobs' = <<Job("cancelled", serial)>>
      BY <2>1, <2>3, <3>1
    <3>3. jobs' \in Seq(Jobs) /\ Len(jobs') = 1 /\ jobs'[1].kind = "cancelled"
      BY <3>1, <3>2
    <3>4. CreationEnds'
      BY <2>1, <3>3 DEF CreationEnds
    <3> QED BY <1>0, <2>1, <3>3, <3>4 DEF QueryInv, QueryTypeOK
  <2> QED BY <2>2, <2>3
<1>3. CASE resolveWebviewView
  <2>1. /\ visible /\ present' = TRUE /\ resolved' = TRUE /\ waiters' = <<>>
        /\ jobs' = [i \in DOMAIN waiters |-> Job("viewed", waiters[i])]
        /\ UNCHANGED <<phase, visible, serial, closed>>
    BY <1>3 DEF resolveWebviewView
  <2>2. \A d \in Creations : Job("viewed", d) \in Jobs /\ Job("viewed", d).kind = "viewed"
    BY DEF Job, Jobs, JobKinds
  <2>3. jobs' \in Seq(Jobs) /\ \A i \in DOMAIN jobs' : jobs'[i].kind = "viewed"
    BY <1>0, <2>1, <2>2
  <2>4. QueryTypeOK'
    BY <1>0, <2>1, <2>3 DEF QueryTypeOK
  <2> QED BY <2>1, <2>3, <2>4 DEF QueryInv, NoneIsQueued, ViewIsGiven, WaitingIsVisible
<1>4. CASE SettingsRequested \/ WorkerStarted \/ workerCreationCancelled
  <2>1. UNCHANGED <<phase, jobs, waiters, resolved, visible, present, serial, closed>>
    BY <1>4 DEF SettingsRequested, WorkerStarted, workerCreationCancelled
  <2> QED BY <1>0, <2>1 DEF QueryInv, QueryTypeOK, NoneIsQueued, WaitingIsVisible
<1>5. CASE workerCreated
  <2>1. /\ jobs' = (IF serial = NoCreation THEN <<>> ELSE <<Job("created", serial)>>)
        /\ serial' = NoCreation
        /\ UNCHANGED <<phase, waiters, resolved, visible, present, closed>>
    BY <1>5 DEF workerCreated
  <2>2. CASE serial = NoCreation
    BY <1>0, <2>1, <2>2 DEF QueryInv, QueryTypeOK, NoneIsQueued, WaitingIsVisible
  <2>3. CASE serial # NoCreation
    <3>1. Job("created", serial) \in Jobs /\ Job("created", serial).kind = "created"
      BY <1>0, <2>3 DEF Job, Jobs, JobKinds
    <3>2. jobs' \in Seq(Jobs) /\ Len(jobs') = 1 /\ jobs'[1].kind = "created"
      BY <2>1, <2>3, <3>1
    <3>3. CreationEnds'
      BY <2>1, <2>3, <3>2 DEF CreationEnds, NoneIsQueued
    <3> QED BY <1>0, <2>1, <3>2, <3>3 DEF QueryInv, QueryTypeOK
  <2> QED BY <2>2, <2>3
<1>6. ASSUME NEW c \in Creations, createQuery(<<c>>) PROVE QueryInv'
  <2>1. <<c>> \in Seq(Creations) /\ <<c>> # <<>>
    OBVIOUS
  <2> QED BY <1>1, <1>6, <2>1
<1>7. ASSUME NEW c \in Creations, NEW d \in Creations, createQuery(<<c, d>>) PROVE QueryInv'
  <2>1. <<c, d>> \in Seq(Creations) /\ <<c, d>> # <<>>
    OBVIOUS
  <2> QED BY <1>1, <1>7, <2>1
<1> QED BY <1>2, <1>3, <1>4, <1>5, <1>6, <1>7

\* Every microtask, and whatever the user, VS Code and the page do, keeps the invariant.
THEOREM QueryInvInductive == QueryInv /\ [QueryNext]_queryVars => QueryInv'
<1> SUFFICES ASSUME QueryInv, [QueryNext]_queryVars PROVE QueryInv'
  OBVIOUS
<1>1. QueryTypeOK
  BY DEF QueryInv
<1>2. CASE Microtask
  <2>1. ~NoneIsQueued
    BY <1>2 DEF Microtask, NoneIsQueued
  <2> QED BY <1>1, <1>2, <2>1, StartJobKeeps, EndJobKeeps DEF QueryInv
<1>3. CASE /\ jobs = <<>>
           /\ \/ \E c \in Creations : createQuery(<<c>>)
              \/ \E c, d \in Creations : c # d /\ createQuery(<<c, d>>)
              \/ Close \/ resolveWebviewView
              \/ SettingsRequested \/ WorkerStarted \/ workerCreationCancelled \/ workerCreated
  <2>1. Len(jobs) = 0
    BY <1>3
  <2>2. NoneIsQueued
    BY <1>3, <2>1 DEF QueryInv, ViewIsGiven, CreationEnds, CreationsStart
  <2> QED BY <1>1, <1>3, <2>2, EventKeeps
<1>4. CASE UNCHANGED queryVars
  BY <1>4 DEF queryVars, QueryInv, QueryTypeOK, NoneIsQueued, ViewIsGiven, CreationEnds, CreationsStart,
              WaitingIsVisible
<1> QED BY <1>2, <1>3, <1>4 DEF QueryNext

\* A creation that waits for the view or its worker is in view unless a command closed it, for
\* any number of creations that cancel each other (CreateQueryViewProvider.show and hide).
THEOREM WaitingIsInView == QuerySpec => []WaitingIsVisible
<1>1. QueryInit => QueryInv
  <2> SUFFICES ASSUME QueryInit PROVE QueryInv
    OBVIOUS
  <2>1. /\ phase \in [Creations -> Phases] /\ jobs \in Seq(Jobs) /\ waiters \in Seq(Creations)
        /\ serial \in Creations \cup {NoCreation}
    BY DEF QueryInit, Phases
  <2>2. resolved \in BOOLEAN /\ visible \in BOOLEAN /\ present \in BOOLEAN /\ closed \in BOOLEAN
    BY Zenon DEF QueryInit
  <2>3. NoneIsQueued
    BY DEF QueryInit, NoneIsQueued, WaitingIsVisible
  <2> QED BY <2>1, <2>2, <2>3 DEF QueryInv, QueryTypeOK
<1>2. QueryInv => WaitingIsVisible
  <2>1. Len(<<>>) = 0
    OBVIOUS
  <2> QED BY <2>1 DEF QueryInv, NoneIsQueued, ViewIsGiven, CreationEnds, CreationsStart, WaitingIsVisible
<1> QED BY <1>1, <1>2, QueryInvInductive, PTL DEF QuerySpec

-----------------------------------------------------------------------------
(* WebviewTheme                                                            *)

ThemeMessages == [kind : {"getVscodePropertyResponse", "requestSetTheme"}, theme : Themes]

\* The values of the variables.
ThemeTypeOK ==
    /\ theme \in Themes /\ applied \in Themes \cup {NoTheme}
    /\ requests \in Nat /\ awaiting \in Nat /\ asked \in Nat /\ timedOut \in BOOLEAN
    /\ messages \in Seq(ThemeMessages)

\* The last message that is under way carries the active theme.
LastIsActive == messages # <<>> => messages[Len(messages)].theme = theme

\* An answer carries the theme of the message before it.
AnswersRepeat ==
    \A i \in 2 .. Len(messages) :
        messages[i].kind = "getVscodePropertyResponse" => messages[i].theme = messages[i - 1].theme

\* The iframe has the theme that the next answer repeats, or that is active.
AppliedIsNext ==
    (Loaded /\ awaiting = 0 /\ ~timedOut) =>
        /\ messages = <<>> => applied = theme
        /\ (messages # <<>> /\ messages[1].kind = "getVscodePropertyResponse") => applied = messages[1].theme

ThemeInv == ThemeTypeOK /\ LastIsActive /\ AnswersRepeat /\ AppliedIsNext

\* A message is sent, with the theme that is active then; an answer, while the theme stays.
LEMMA ThemeIsSent ==
    ASSUME ThemeInv, NEW m \in ThemeMessages, messages' = Append(messages, m), m.theme = theme',
           m.kind = "getVscodePropertyResponse" => theme' = theme
    PROVE  /\ messages' \in Seq(ThemeMessages)
           /\ LastIsActive' /\ AnswersRepeat'
           /\ messages' # <<>>
           /\ messages # <<>> => messages'[1] = messages[1]
           /\ messages = <<>> => messages'[1] = m
<1>1. messages \in Seq(ThemeMessages) /\ Len(messages) \in Nat
  BY DEF ThemeInv, ThemeTypeOK
<1>2. /\ messages' \in Seq(ThemeMessages) /\ Len(messages') = Len(messages) + 1
      /\ messages'[Len(messages) + 1] = m
      /\ \A i \in 1 .. Len(messages) : messages'[i] = messages[i]
  BY <1>1
<1>3. LastIsActive'
  BY <1>1, <1>2 DEF LastIsActive
<1>4. AnswersRepeat'
  <2> SUFFICES ASSUME NEW i \in 2 .. Len(messages'), messages'[i].kind = "getVscodePropertyResponse"
               PROVE  messages'[i].theme = messages'[i - 1].theme
    BY DEF AnswersRepeat
  <2>1. CASE i <= Len(messages)
    BY <1>1, <1>2, <2>1 DEF ThemeInv, AnswersRepeat
  <2>2. CASE i = Len(messages) + 1
    <3>1. messages'[i - 1] = messages[Len(messages)] /\ messages # <<>>
      BY <1>1, <1>2, <2>2
    <3> QED BY <1>2, <2>2, <3>1 DEF ThemeInv, LastIsActive
  <2> QED BY <1>1, <1>2, <2>1, <2>2
<1>5. messages' # <<>>
  BY <1>1, <1>2
<1>6. (messages # <<>> => messages'[1] = messages[1]) /\ (messages = <<>> => messages'[1] = m)
  BY <1>1, <1>2
<1> QED BY <1>2, <1>3, <1>4, <1>5, <1>6

\* The first message is received.
LEMMA ThemeIsReceived ==
    ASSUME ThemeInv, messages # <<>>, messages' = Tail(messages), theme' = theme
    PROVE  /\ messages' \in Seq(ThemeMessages)
           /\ LastIsActive' /\ AnswersRepeat'
           /\ messages' = <<>> => Head(messages).theme = theme
           /\ (messages' # <<>> /\ messages'[1].kind = "getVscodePropertyResponse") =>
                messages'[1].theme = Head(messages).theme
           /\ Head(messages) = messages[1] /\ Head(messages) \in ThemeMessages
<1>1. messages \in Seq(ThemeMessages) /\ Len(messages) \in Nat /\ Len(messages) > 0
  BY DEF ThemeInv, ThemeTypeOK
<1>2. /\ messages' \in Seq(ThemeMessages) /\ Len(messages') = Len(messages) - 1
      /\ \A i \in 1 .. Len(messages') : messages'[i] = messages[i + 1]
      /\ Head(messages) = messages[1] /\ Head(messages) \in ThemeMessages
  BY <1>1
<1>3. LastIsActive'
  BY <1>1, <1>2 DEF ThemeInv, LastIsActive
<1>4. AnswersRepeat'
  <2> SUFFICES ASSUME NEW i \in 2 .. Len(messages'), messages'[i].kind = "getVscodePropertyResponse"
               PROVE  messages'[i].theme = messages'[i - 1].theme
    BY DEF AnswersRepeat
  <2>1. messages'[i] = messages[i + 1] /\ messages'[i - 1] = messages[i] /\ i + 1 \in 2 .. Len(messages)
    BY <1>1, <1>2
  <2> QED BY <2>1 DEF ThemeInv, AnswersRepeat
<1>5. messages' = <<>> => Head(messages).theme = theme
  <2>1. messages' = <<>> => Len(messages) = 1
    BY <1>1, <1>2
  <2> QED BY <1>2, <2>1 DEF ThemeInv, LastIsActive
<1>6. (messages' # <<>> /\ messages'[1].kind = "getVscodePropertyResponse") =>
        messages'[1].theme = Head(messages).theme
  <2> SUFFICES ASSUME messages' # <<>>, messages'[1].kind = "getVscodePropertyResponse"
               PROVE  messages'[1].theme = Head(messages).theme
    OBVIOUS
  <2>1. messages'[1] = messages[2] /\ 2 \in 2 .. Len(messages)
    BY <1>1, <1>2
  <2> QED BY <1>2, <2>1 DEF ThemeInv, AnswersRepeat
<1> QED BY <1>2, <1>3, <1>4, <1>5, <1>6

\* Every request, answer, change and timeout keeps the invariant.
THEOREM ThemeInvInductive == ThemeInv /\ [ThemeNext]_themeVars => ThemeInv'
<1> SUFFICES ASSUME ThemeInv, [ThemeNext]_themeVars PROVE ThemeInv'
  OBVIOUS
<1>0. ThemeTypeOK
  BY DEF ThemeInv
<1>1. CASE requestExternalTheme
  BY <1>1 DEF requestExternalTheme, ThemeInv, ThemeTypeOK, LastIsActive, AnswersRepeat, AppliedIsNext
<1>2. CASE GetVscodeProperty
  <2>1. /\ requests > 0 /\ requests' = requests - 1 /\ messages' = Append(messages, Answer(theme))
        /\ UNCHANGED <<theme, applied, awaiting, asked, timedOut>>
    BY <1>2 DEF GetVscodeProperty, createGetPropertyResponseMsg
  <2>2. /\ Answer(theme) \in ThemeMessages /\ Answer(theme).theme = theme
        /\ Answer(theme).kind = "getVscodePropertyResponse"
    BY <1>0 DEF Answer, ThemeMessages, ThemeTypeOK
  <2>3. /\ messages' \in Seq(ThemeMessages) /\ LastIsActive' /\ AnswersRepeat' /\ messages' # <<>>
        /\ messages # <<>> => messages'[1] = messages[1]
        /\ messages = <<>> => messages'[1] = Answer(theme)
    BY <2>1, <2>2, ThemeIsSent
  <2>4. ThemeTypeOK'
    BY <1>0, <2>1, <2>3 DEF ThemeTypeOK
  <2>5. AppliedIsNext'
    BY <2>1, <2>2, <2>3 DEF ThemeInv, AppliedIsNext, Loaded
  <2> QED BY <2>3, <2>4, <2>5 DEF ThemeInv
<1>3. CASE onDidChangeActiveColorTheme
  <2> DEFINE m == [kind |-> "requestSetTheme", theme |-> theme']
  <2>1. /\ theme' \in Themes /\ messages' = Append(messages, m)
        /\ UNCHANGED <<applied, requests, awaiting, asked, timedOut>>
    BY <1>3 DEF onDidChangeActiveColorTheme
  <2>2. m \in ThemeMessages /\ m.theme = theme' /\ m.kind = "requestSetTheme"
    BY <2>1 DEF ThemeMessages
  <2> HIDE DEF m
  <2>3. /\ messages' \in Seq(ThemeMessages) /\ LastIsActive' /\ AnswersRepeat' /\ messages' # <<>>
        /\ messages # <<>> => messages'[1] = messages[1]
        /\ messages = <<>> => messages'[1] = m
    BY <2>1, <2>2, ThemeIsSent
  <2>4. ThemeTypeOK'
    BY <1>0, <2>1, <2>3 DEF ThemeTypeOK
  <2>5. AppliedIsNext'
    BY <2>1, <2>2, <2>3 DEF ThemeInv, AppliedIsNext, Loaded
  <2> QED BY <2>3, <2>4, <2>5 DEF ThemeInv
<1>4. CASE ReceiveAnswer \/ ReceiveSetTheme
  <2>1. messages # <<>> /\ messages' = Tail(messages) /\ UNCHANGED <<theme, requests, asked>>
    BY <1>4 DEF ReceiveAnswer, ReceiveSetTheme
  <2>2. /\ messages' \in Seq(ThemeMessages)
        /\ LastIsActive' /\ AnswersRepeat'
        /\ messages' = <<>> => Head(messages).theme = theme
        /\ (messages' # <<>> /\ messages'[1].kind = "getVscodePropertyResponse") =>
             messages'[1].theme = Head(messages).theme
        /\ Head(messages) = messages[1] /\ Head(messages) \in ThemeMessages
    BY <2>1, ThemeIsReceived
  <2>3. /\ applied' = Head(messages).theme \/ applied' = applied
        /\ timedOut' \in BOOLEAN /\ awaiting' \in Nat
    <3>1. timedOut \in BOOLEAN /\ awaiting \in Nat /\ 0 \in Nat
      BY <1>0 DEF ThemeTypeOK
    <3>2. CASE ReceiveAnswer
      BY <3>1, <3>2, Zenon DEF ReceiveAnswer
    <3>3. CASE ReceiveSetTheme
      BY <3>1, <3>3, Zenon DEF ReceiveSetTheme
    <3> QED BY <1>4, <3>2, <3>3
  <2>4. Head(messages).theme \in Themes
    BY <2>2 DEF ThemeMessages
  <2>5. ThemeTypeOK'
    BY <1>0, <2>1, <2>2, <2>3, <2>4 DEF ThemeTypeOK
  <2>6. (Loaded /\ awaiting' = 0 /\ ~timedOut') => applied' = Head(messages).theme
    <3>1. CASE ReceiveAnswer
      BY <1>0, <2>1, <2>2, <3>1 DEF ReceiveAnswer, ThemeInv, ThemeTypeOK, AppliedIsNext
    <3>2. CASE ReceiveSetTheme
      BY <3>2 DEF ReceiveSetTheme
    <3> QED BY <1>4, <3>1, <3>2
  <2>7. AppliedIsNext'
    BY <2>1, <2>2, <2>6 DEF AppliedIsNext, Loaded
  <2> QED BY <2>2, <2>5, <2>7 DEF ThemeInv
<1>5. CASE PropertyTimeout
  BY <1>5 DEF PropertyTimeout, ThemeInv, ThemeTypeOK, LastIsActive, AnswersRepeat, AppliedIsNext
<1>6. CASE UNCHANGED themeVars
  BY <1>6 DEF themeVars, ThemeInv, ThemeTypeOK, LastIsActive, AnswersRepeat, AppliedIsNext, Loaded
<1> QED BY <1>1, <1>2, <1>3, <1>4, <1>5, <1>6 DEF ThemeNext

\* The page has the active theme when nothing is under way, however many requests, answers and
\* changes crossed (createDhIframe, getVscodeProperty, registerWebViewThemeHandlers).
THEOREM ThemeIsFollowed == ThemeSpec => []ThemeIsApplied
<1>1. ThemeInit => ThemeInv
  <2> SUFFICES ASSUME ThemeInit PROVE ThemeInv
    OBVIOUS
  <2>1. messages = <<>> /\ messages \in Seq(ThemeMessages) /\ Len(messages) = 0
    BY DEF ThemeInit
  <2>2. ThemeTypeOK
    BY <2>1 DEF ThemeInit, ThemeTypeOK
  <2>3. LastIsActive /\ AnswersRepeat
    BY <2>1 DEF LastIsActive, AnswersRepeat
  <2>4. AppliedIsNext
    BY DEF ThemeInit, AppliedIsNext, Loaded
  <2> QED BY <2>2, <2>3, <2>4 DEF ThemeInv
<1>2. ThemeInv => ThemeIsApplied
  BY DEF ThemeInv, AppliedIsNext, ThemeIsApplied
<1> QED BY <1>1, <1>2, ThemeInvInductive, PTL DEF ThemeSpec

-----------------------------------------------------------------------------
(* ServerViews                                                             *)

ServerRecords ==
    [listed : BOOLEAN, isManaged : BOOLEAN, isRunning : BOOLEAN, isConnected : BOOLEAN, connectionCount : Nat]
Stages == {"none", "placeholder", "session", "plugins", "open"}

\* The values of the variables.
ViewsTypeOK ==
    /\ view \in Trees /\ canStartServer \in BOOLEAN /\ reload \in BOOLEAN
    /\ server \in [Servers -> ServerRecords]
    /\ entry \in [Conns -> Stages] /\ editors \in [Documents -> Conns \cup {NoConn}]
    /\ ending \subseteq Conns /\ closing \subseteq Conns /\ running \subseteq Conns
    /\ variables \in [Conns -> SUBSET Exported]
    /\ due \in BOOLEAN /\ reading \in BOOLEAN /\ outdated \in BOOLEAN /\ stale \in BOOLEAN /\ untold \in BOOLEAN

\* Something is under way that is still to be told of, or a creation failed in silence.
Unsettled == reload \/ closing # {} \/ untold \/ \E c \in Conns : entry[c] = "plugins"

\* What is shown is as it was read, and what was read as it is, unless VS Code was told or will be.
ChangesAreTold == (~due /\ ~Unsettled) => IF reading THEN ~outdated ELSE ~stale

ViewsInv == ViewsTypeOK /\ ChangesAreTold

\* The manager's state that a view shows is as it was.
Unseen == UNCHANGED <<view, server, canStartServer, entry, editors, running, variables>>

\* What a change of the manager must do: tell of it, leave something to tell of, or show nothing.
IsTold == due' \/ Unsettled' \/ (Unseen /\ ~Unsettled /\ due' = due /\ reading' = reading)

\* The nodes of a view and its items are made of the manager's state alone.
LEMMA UnseenIsUnchanged ==
    Unseen => getChildren' = getChildren /\ getTreeItems(getChildren)' = getTreeItems(getChildren)
BY DEF Unseen, getChildren, getTreeItems, ServerTree, groupServers, getServerTreeItem, getServerContextValue,
       getServerIconID, Link, ConnectionItem, getPanelConnectionTreeItem, isConnected, Held, Servers, Conns

\* A change that is told of keeps the invariant.
LEMMA ToldKeeps ==
    ASSUME ViewsInv, IsTold, Notices, ViewsTypeOK'
    PROVE  ViewsInv'
<1>1. CASE due' \/ Unsettled'
  BY <1>1 DEF ViewsInv, ChangesAreTold
<1>2. CASE Unseen /\ ~Unsettled /\ due' = due /\ reading' = reading
  <2>1. outdated' = outdated /\ stale' = stale
    BY <1>2, UnseenIsUnchanged DEF Notices, ViewsInv, ViewsTypeOK
  <2> QED BY <1>2, <2>1 DEF ViewsInv, ChangesAreTold
<1> QED BY <1>1, <1>2 DEF IsTold

LEMMA CountIsTyped ==
    ASSUME NEW servers \in [Servers -> ServerRecords], NEW s \in Servers, NEW change \in {1, -1}
    PROVE  updateConnectionCount(servers, s, change) \in [Servers -> ServerRecords]
<1> DEFINE sum == servers[s].connectionCount + change
           count == IF sum < 0 THEN 0 ELSE sum
<1>1. servers[s] \in ServerRecords
  OBVIOUS
<1>2. count \in Nat /\ (count > 0 \/ s = Enterprise) \in BOOLEAN
  BY <1>1 DEF ServerRecords
<1> HIDE DEF count
<1>3. [servers EXCEPT ![s].connectionCount = count, ![s].isConnected = count > 0 \/ s = Enterprise]
        \in [Servers -> ServerRecords]
  BY <1>1, <1>2 DEF ServerRecords
<1> QED BY <1>3 DEF updateConnectionCount, count

\* Connections that leave are disposed of, and until then nobody is told.
LEMMA LeavingIsSeen ==
    ASSUME ViewsTypeOK, NEW cs, Leave(cs)
    PROVE  /\ entry' \in [Conns -> Stages] /\ editors' \in [Documents -> Conns \cup {NoConn}]
           /\ ending' \subseteq Conns /\ closing' \subseteq Conns /\ running' \subseteq Conns
           /\ closing' # {} \/ UNCHANGED <<entry, editors, running, closing>>
<1> DEFINE left == {c \in cs \cap Cores : entry[c] # "none"}
<1>1. /\ entry' = [c \in Conns |-> IF c \in left THEN "none" ELSE entry[c]]
      /\ editors' = [d \in Documents |-> IF editors[d] \in left THEN NoConn ELSE editors[d]]
      /\ running' = running \ left
      /\ closing' = closing \cup left
      /\ ending' = ending \cup (cs \cap Workers)
  BY DEF Leave
<1>2. left \subseteq Conns /\ Workers \subseteq Conns
  BY DEF Conns
<1> HIDE DEF left
<1>3. entry' \in [Conns -> Stages] /\ editors' \in [Documents -> Conns \cup {NoConn}]
  BY <1>1 DEF ViewsTypeOK, Stages
<1>4. ending' \subseteq Conns /\ closing' \subseteq Conns /\ running' \subseteq Conns
  BY <1>1, <1>2 DEF ViewsTypeOK
<1>5. left = {} => UNCHANGED <<entry, editors, running, closing>>
  <2> SUFFICES ASSUME left = {} PROVE UNCHANGED <<entry, editors, running, closing>>
    OBVIOUS
  <2>1. entry' = [c \in Conns |-> entry[c]] /\ editors' = [d \in Documents |-> editors[d]]
    BY <1>1
  <2>2. entry' = entry /\ editors' = editors
    BY <2>1 DEF ViewsTypeOK
  <2> QED BY <1>1, <2>2
<1> QED BY <1>1, <1>3, <1>4, <1>5

\* Updates fire or not, and say so.
LEMMA FlagsAreTyped ==
    ASSUME ViewsTypeOK, Fires \/ Silent
    PROVE  /\ due' \in BOOLEAN /\ reading' \in BOOLEAN /\ untold' \in BOOLEAN
           /\ reading' = reading
           /\ due' \/ (due' = due /\ untold' = untold)
BY DEF ViewsTypeOK, Fires, Silent, displayVars

\* Changes of the servers.
LEMMA ServerChangesAreTold ==
    ASSUME ViewsTypeOK,
           loadServerConfig \/ syncManagedServers \/ disconnectFromDHEServer \/ \E s \in Servers : updateStatus(s)
    PROVE  IsTold /\ (outdated' \in BOOLEAN /\ stale' \in BOOLEAN => ViewsTypeOK')
<1>0. Unlisted \in ServerRecords /\ Initial \in ServerRecords /\ [Initial EXCEPT !.isManaged = TRUE] \in ServerRecords
  BY DEF Unlisted, Initial, ServerRecords
<1>1. \A s \in Servers : server[s] \in ServerRecords
  BY DEF ViewsTypeOK
<1>2. CASE loadServerConfig
  <2>1. PICK configured \in SUBSET Servers :
         LET new == [s \in Servers |->
                 IF s \in configured
                 THEN IF server[s].listed THEN [server[s] EXCEPT !.isManaged = FALSE] ELSE Initial
                 ELSE IF server[s].isManaged THEN server[s] ELSE Unlisted]
             gone == {c \in Held(entry) : ~new[ServerOf(c)].listed}
         IN server' = new /\ Leave(gone)
    BY <1>2 DEF loadServerConfig
  <2>2. reload' = TRUE /\ Silent /\ UNCHANGED <<view, canStartServer, variables>>
    BY <1>2 DEF loadServerConfig
  <2>3. \A s \in Servers : [server[s] EXCEPT !.isManaged = FALSE] \in ServerRecords
    BY <1>1 DEF ServerRecords
  <2>4. server' \in [Servers -> ServerRecords]
    BY <1>0, <1>1, <2>1, <2>3
  <2>5. PICK gone \in SUBSET Conns : Leave(gone)
    BY <2>1 DEF Held
  <2>6. /\ entry' \in [Conns -> Stages] /\ editors' \in [Documents -> Conns \cup {NoConn}]
        /\ ending' \subseteq Conns /\ closing' \subseteq Conns /\ running' \subseteq Conns
    BY <2>5, LeavingIsSeen
  <2>7. due' \in BOOLEAN /\ reading' \in BOOLEAN /\ untold' \in BOOLEAN
    BY <2>2, FlagsAreTyped
  <2> QED BY <2>2, <2>4, <2>6, <2>7 DEF ViewsTypeOK, IsTold, Unsettled
<1>3. CASE syncManagedServers
  <2>1. PICK urls \in SUBSET Manageable, able \in BOOLEAN :
         LET gone == {s \in Servers : server[s].isManaged /\ s \notin urls}
         IN /\ server' = [s \in Servers |->
                 IF s \in gone THEN Unlisted
                 ELSE IF s \in urls /\ ~server[s].listed THEN [Initial EXCEPT !.isManaged = TRUE]
                 ELSE server[s]]
            /\ Leave(gone)
            /\ canStartServer' = able
    BY <1>3 DEF syncManagedServers
  <2>2. reload' = FALSE /\ Fires /\ UNCHANGED <<view, variables>>
    BY <1>3 DEF syncManagedServers
  <2>3. server' \in [Servers -> ServerRecords]
    BY <1>0, <1>1, <2>1
  <2>4. PICK gone \in SUBSET Servers : Leave(gone)
    BY <2>1
  <2>5. /\ entry' \in [Conns -> Stages] /\ editors' \in [Documents -> Conns \cup {NoConn}]
        /\ ending' \subseteq Conns /\ closing' \subseteq Conns /\ running' \subseteq Conns
    BY <2>4, LeavingIsSeen
  <2>6. due' \in BOOLEAN /\ reading' \in BOOLEAN /\ untold' \in BOOLEAN
    BY <2>2, FlagsAreTyped
  <2>7. due'
    BY <2>2 DEF Fires
  <2> QED BY <2>1, <2>2, <2>3, <2>5, <2>6, <2>7 DEF ViewsTypeOK, IsTold
<1>4. CASE disconnectFromDHEServer
  <2>1. /\ server' = [server EXCEPT ![Enterprise].isConnected = FALSE, ![Enterprise].connectionCount = 0]
        /\ Fires
        /\ UNCHANGED <<view, canStartServer, reload, entry, ending, closing, running, editors, variables>>
    BY <1>4 DEF disconnectFromDHEServer
  <2>2. server' \in [Servers -> ServerRecords]
    BY <1>1, <2>1 DEF ViewsTypeOK, ServerRecords
  <2>3. due' \in BOOLEAN /\ reading' \in BOOLEAN /\ untold' \in BOOLEAN /\ due'
    BY <2>1, FlagsAreTyped DEF Fires
  <2> QED BY <2>1, <2>2, <2>3 DEF ViewsTypeOK, IsTold
<1>5. ASSUME NEW s \in Servers, updateStatus(s)
      PROVE  IsTold /\ (outdated' \in BOOLEAN /\ stale' \in BOOLEAN => ViewsTypeOK')
  <2> DEFINE changed == [server EXCEPT ![s].isRunning = ~@]
  <2>1. changed \in [Servers -> ServerRecords]
    BY <1>1 DEF ViewsTypeOK, ServerRecords
  <2>2. Fires /\ UNCHANGED <<view, canStartServer, reload, variables>>
    BY <1>5 DEF updateStatus, StatusHeard
  <2>3. due' \in BOOLEAN /\ reading' \in BOOLEAN /\ untold' \in BOOLEAN /\ due'
    BY <2>2, FlagsAreTyped DEF Fires
  <2>4. \/ server' = Decrements(changed, s) /\ Leave({s} \cap Cores)
        \/ server' = changed /\ UNCHANGED <<entry, editors, running, closing, ending>>
    BY <1>5 DEF updateStatus
  <2> HIDE DEF changed
  <2>5. CASE server' = Decrements(changed, s) /\ Leave({s} \cap Cores)
    <3>1. server' \in [Servers -> ServerRecords]
      BY <2>1, <2>5, CountIsTyped DEF Decrements
    <3>2. {s} \cap Cores \in SUBSET Conns
      BY DEF Conns
    <3>3. /\ entry' \in [Conns -> Stages] /\ editors' \in [Documents -> Conns \cup {NoConn}]
          /\ ending' \subseteq Conns /\ closing' \subseteq Conns /\ running' \subseteq Conns
      BY <2>5, <3>2, LeavingIsSeen
    <3> QED BY <2>2, <2>3, <3>1, <3>3 DEF ViewsTypeOK, IsTold
  <2>6. CASE server' = changed /\ UNCHANGED <<entry, editors, running, closing, ending>>
    BY <2>1, <2>2, <2>3, <2>6 DEF ViewsTypeOK, IsTold
  <2> QED BY <2>4, <2>5, <2>6
<1> QED BY <1>2, <1>3, <1>4, <1>5

\* Changes of connections and of what they hold.
LEMMA ConnectionChangesAreTold ==
    ASSUME ViewsTypeOK,
           \/ \E w \in Workers :
                \/ addWorkerPlaceholderConnection(w) \/ removeWorkerPlaceholderConnection(w)
                \/ CreationFailed(w) \/ WorkerDeleted(w)
           \/ \E c \in Cores : LoggedInToCore(c)
           \/ \E c \in Conns :
                \/ SessionCreated(c) \/ SessionFailed(c) \/ ConnectionReady(c) \/ disconnectFromServer(c)
                \/ Disposed(c) \/ isRunningCode(c) \/ updateVariables(c)
           \/ \E d \in Documents : EditorChanges(d)
    PROVE  IsTold /\ (outdated' \in BOOLEAN /\ stale' \in BOOLEAN => ViewsTypeOK')
<1> DEFINE Goal == IsTold /\ (outdated' \in BOOLEAN /\ stale' \in BOOLEAN => ViewsTypeOK')
<1> USE DEF Stages
<1>0. Enterprise \in Servers /\ Cores \subseteq Conns /\ Workers \subseteq Conns /\ Cores \subseteq Servers
  BY DEF Servers, Conns
<1>1. \A s \in Servers :
        /\ Increments(server, s) \in [Servers -> ServerRecords]
        /\ Decrements(server, s) \in [Servers -> ServerRecords]
        /\ ~server[s].listed => Decrements(server, s) = server
  BY CountIsTyped DEF Increments, Decrements, ViewsTypeOK, updateConnectionCount
<1>2. \A c \in Conns : ServerOf(c) \in Servers
  BY DEF ServerOf, Servers
<1>3. ASSUME NEW w \in Workers, addWorkerPlaceholderConnection(w) PROVE Goal
  <2>1. /\ server' = Increments(server, Enterprise) /\ entry' = [entry EXCEPT ![w] = "placeholder"] /\ Fires
        /\ UNCHANGED <<view, canStartServer, reload, ending, closing, running, editors, variables>>
    BY <1>3 DEF addWorkerPlaceholderConnection
  <2>2. due' \in BOOLEAN /\ reading' \in BOOLEAN /\ untold' \in BOOLEAN /\ due'
    BY <2>1, FlagsAreTyped DEF Fires
  <2> QED BY <1>0, <1>1, <2>1, <2>2 DEF ViewsTypeOK, IsTold
<1>4. ASSUME NEW w \in Workers, removeWorkerPlaceholderConnection(w) PROVE Goal
  <2>1. PICK next \in {"none", "session"} : entry' = [entry EXCEPT ![w] = next]
    BY <1>4 DEF removeWorkerPlaceholderConnection
  <2>2. /\ ending' = ending \ {w} /\ Fires
        /\ UNCHANGED <<view, server, canStartServer, reload, closing, running, editors, variables>>
    BY <1>4 DEF removeWorkerPlaceholderConnection
  <2>3. due' \in BOOLEAN /\ reading' \in BOOLEAN /\ untold' \in BOOLEAN /\ due'
    BY <2>2, FlagsAreTyped DEF Fires
  <2> QED BY <1>0, <2>1, <2>2, <2>3 DEF ViewsTypeOK, IsTold
<1>5. ASSUME NEW w \in Workers, CreationFailed(w) PROVE Goal
  <2>1. /\ entry' = [entry EXCEPT ![w] = "none"] /\ server' = Decrements(server, Enterprise)
        /\ ending' = ending \ {w}
        /\ UNCHANGED <<view, canStartServer, reload, closing, running, editors, variables>>
    BY <1>5 DEF CreationFailed
  <2>2. Fires \/ (untold' = TRUE /\ UNCHANGED <<due, reading>>)
    BY <1>5 DEF CreationFailed
  <2>3. due' \in BOOLEAN /\ reading' \in BOOLEAN /\ untold' \in BOOLEAN /\ (due' \/ untold')
    BY <2>2, FlagsAreTyped DEF Fires, ViewsTypeOK
  <2> QED BY <1>0, <1>1, <2>1, <2>3 DEF ViewsTypeOK, IsTold, Unsettled
<1>6. ASSUME NEW w \in Workers, WorkerDeleted(w) PROVE Goal
  <2>1. ending' = ending \ {w} /\ Silent /\ UNCHANGED <<view, server, canStartServer, reload, variables>>
    BY <1>6 DEF WorkerDeleted
  <2>2. UNCHANGED <<due, reading, untold>>
    BY <2>1 DEF Silent, displayVars
  <2>3. CASE UNCHANGED <<entry, editors, running, closing>>
    BY <2>1, <2>2, <2>3 DEF ViewsTypeOK, IsTold, Unsettled, Unseen
  <2>4. CASE /\ entry' = [entry EXCEPT ![w] = "none"]
             /\ editors' = [d \in Documents |-> IF editors[d] = w THEN NoConn ELSE editors[d]]
             /\ running' = running \ {w} /\ closing' = closing \cup {w}
    BY <1>0, <2>1, <2>2, <2>4 DEF ViewsTypeOK, IsTold, Unsettled
  <2> QED BY <1>6, <2>3, <2>4 DEF WorkerDeleted
<1>7. ASSUME NEW c \in Cores, LoggedInToCore(c) PROVE Goal
  <2>1. /\ entry' = [entry EXCEPT ![c] = "session"] /\ Fires
        /\ UNCHANGED <<view, server, canStartServer, reload, ending, closing, running, editors, variables>>
    BY <1>7 DEF LoggedInToCore
  <2>2. due' \in BOOLEAN /\ reading' \in BOOLEAN /\ untold' \in BOOLEAN /\ due'
    BY <2>1, FlagsAreTyped DEF Fires
  <2> QED BY <1>0, <2>1, <2>2 DEF ViewsTypeOK, IsTold
<1>8. ASSUME NEW c \in Conns, SessionCreated(c) PROVE Goal
  <2>1. /\ entry' = [entry EXCEPT ![c] = "plugins"] /\ Silent
        /\ UNCHANGED <<view, server, canStartServer, reload, ending, closing, running, editors, variables>>
    BY <1>8 DEF SessionCreated
  <2>2. UNCHANGED <<due, reading, untold>>
    BY <2>1 DEF Silent, displayVars
  <2> QED BY <2>1, <2>2 DEF ViewsTypeOK, IsTold, Unsettled
<1>9. ASSUME NEW c \in Conns, SessionFailed(c) PROVE Goal
  <2>1. /\ entry' = [entry EXCEPT ![c] = "none"] /\ untold' = TRUE
        /\ UNCHANGED <<view, server, canStartServer, reload, ending, closing, running, editors, variables, due, reading>>
    BY <1>9 DEF SessionFailed
  <2> QED BY <2>1 DEF ViewsTypeOK, IsTold, Unsettled
<1>10. ASSUME NEW c \in Conns, ConnectionReady(c) PROVE Goal
  <2>1. /\ entry' = [entry EXCEPT ![c] = "open"] /\ Fires
        /\ server' = IF c \in Cores THEN Increments(server, c) ELSE server
        /\ UNCHANGED <<view, canStartServer, reload, ending, closing, running, editors, variables>>
    BY <1>10 DEF ConnectionReady
  <2>2. due' \in BOOLEAN /\ reading' \in BOOLEAN /\ untold' \in BOOLEAN /\ due'
    BY <2>1, FlagsAreTyped DEF Fires
  <2>3. server' \in [Servers -> ServerRecords]
    BY <1>0, <1>1, <2>1 DEF ViewsTypeOK
  <2> QED BY <2>1, <2>2, <2>3 DEF ViewsTypeOK, IsTold
<1>11. ASSUME NEW c \in Conns, disconnectFromServer(c) PROVE Goal
  <2>1. /\ server' = Decrements(server, ServerOf(c)) /\ Leave({c})
        /\ FiresIf(server[ServerOf(c)].listed)
        /\ UNCHANGED <<view, canStartServer, reload, variables>>
    BY <1>11 DEF disconnectFromServer
  <2>2. /\ entry' \in [Conns -> Stages] /\ editors' \in [Documents -> Conns \cup {NoConn}]
        /\ ending' \subseteq Conns /\ closing' \subseteq Conns /\ running' \subseteq Conns
        /\ closing' # {} \/ UNCHANGED <<entry, editors, running, closing>>
    BY <2>1, LeavingIsSeen
  <2>3. server' \in [Servers -> ServerRecords]
    BY <1>1, <1>2, <2>1
  <2>4. Fires \/ (Silent /\ ~server[ServerOf(c)].listed)
    BY <2>1 DEF FiresIf
  <2>5. /\ due' \in BOOLEAN /\ reading' \in BOOLEAN /\ untold' \in BOOLEAN
        /\ due' \/ (UNCHANGED <<due, reading, untold>> /\ server' = server)
    BY <1>1, <1>2, <2>1, <2>4, FlagsAreTyped DEF Fires, Silent, displayVars
  <2>6. IsTold
    BY <2>1, <2>2, <2>5 DEF IsTold, Unsettled, Unseen
  <2> QED BY <2>1, <2>2, <2>3, <2>5, <2>6 DEF ViewsTypeOK
<1>12. ASSUME NEW c \in Conns, Disposed(c) PROVE Goal
  <2>1. /\ closing' = closing \ {c} /\ variables' = [variables EXCEPT ![c] = {}] /\ Fires
        /\ UNCHANGED <<view, server, canStartServer, reload, entry, ending, running, editors>>
    BY <1>12 DEF Disposed
  <2>2. due' \in BOOLEAN /\ reading' \in BOOLEAN /\ untold' \in BOOLEAN /\ due'
    BY <2>1, FlagsAreTyped DEF Fires
  <2> QED BY <2>1, <2>2 DEF ViewsTypeOK, IsTold
<1>13. ASSUME NEW c \in Conns, isRunningCode(c) PROVE Goal
  <2>1. /\ running' = (IF c \in running THEN running \ {c} ELSE running \cup {c}) /\ Fires
        /\ UNCHANGED <<view, server, canStartServer, reload, entry, ending, closing, editors, variables>>
    BY <1>13 DEF isRunningCode
  <2>2. due' \in BOOLEAN /\ reading' \in BOOLEAN /\ untold' \in BOOLEAN /\ due'
    BY <2>1, FlagsAreTyped DEF Fires
  <2> QED BY <2>1, <2>2 DEF ViewsTypeOK, IsTold
<1>14. ASSUME NEW c \in Conns, updateVariables(c) PROVE Goal
  <2>1. PICK vs \in SUBSET Exported : variables' = [variables EXCEPT ![c] = vs]
    BY <1>14 DEF updateVariables
  <2>2. Fires /\ UNCHANGED <<view, server, canStartServer, reload, entry, ending, closing, running, editors>>
    BY <1>14 DEF updateVariables
  <2>3. due' \in BOOLEAN /\ reading' \in BOOLEAN /\ untold' \in BOOLEAN /\ due'
    BY <2>2, FlagsAreTyped DEF Fires
  <2> QED BY <2>1, <2>2, <2>3 DEF ViewsTypeOK, IsTold
<1>15. ASSUME NEW d \in Documents, EditorChanges(d) PROVE Goal
  <2>1. PICK c \in Conns \cup {NoConn} : editors' = [editors EXCEPT ![d] = c]
    BY <1>15 DEF EditorChanges
  <2>2. Fires /\ UNCHANGED <<view, server, canStartServer, reload, entry, ending, closing, running, variables>>
    BY <1>15 DEF EditorChanges
  <2>3. due' \in BOOLEAN /\ reading' \in BOOLEAN /\ untold' \in BOOLEAN /\ due'
    BY <2>2, FlagsAreTyped DEF Fires
  <2> QED BY <2>1, <2>2, <2>3 DEF ViewsTypeOK, IsTold
<1> QED BY <1>3, <1>4, <1>5, <1>6, <1>7, <1>8, <1>9, <1>10, <1>11, <1>12, <1>13, <1>14, <1>15

\* Every change and every read keeps the invariant.
THEOREM ViewsInvInductive == ViewsInv /\ [ServerViewsNext]_viewVars => ViewsInv'
<1> SUFFICES ASSUME ViewsInv, [ServerViewsNext]_viewVars PROVE ViewsInv'
  OBVIOUS
<1>0. ViewsTypeOK
  BY DEF ViewsInv
<1>1. CASE ReadChildren
  BY <1>1 DEF ReadChildren, managerVars, ViewsInv, ViewsTypeOK, ChangesAreTold, Unsettled
<1>2. CASE ReadItems
  BY <1>2 DEF ReadItems, managerVars, ViewsInv, ViewsTypeOK, ChangesAreTold, Unsettled
<1>3. ASSUME IsTold, outdated' \in BOOLEAN /\ stale' \in BOOLEAN => ViewsTypeOK', Notices PROVE ViewsInv'
  <2>1. outdated' \in BOOLEAN /\ stale' \in BOOLEAN
    BY <1>0, <1>3, Zenon DEF Notices, ViewsTypeOK
  <2> QED BY <1>3, <2>1, ToldKeeps
<1>4. CASE /\ loadServerConfig \/ syncManagedServers \/ disconnectFromDHEServer \/ \E s \in Servers : updateStatus(s)
           /\ Notices
  BY <1>0, <1>3, <1>4, ServerChangesAreTold
<1>5. CASE /\ \/ \E w \in Workers :
                   \/ addWorkerPlaceholderConnection(w) \/ removeWorkerPlaceholderConnection(w)
                   \/ CreationFailed(w) \/ WorkerDeleted(w)
              \/ \E c \in Cores : LoggedInToCore(c)
              \/ \E c \in Conns :
                   \/ SessionCreated(c) \/ SessionFailed(c) \/ ConnectionReady(c) \/ disconnectFromServer(c)
                   \/ Disposed(c) \/ isRunningCode(c) \/ updateVariables(c)
              \/ \E d \in Documents : EditorChanges(d)
           /\ Notices
  <2>1. IsTold /\ (outdated' \in BOOLEAN /\ stale' \in BOOLEAN => ViewsTypeOK')
    BY <1>0, <1>5, ConnectionChangesAreTold
  <2> QED BY <1>3, <1>5, <2>1
<1>6. CASE UNCHANGED viewVars
  BY <1>6 DEF viewVars, managerVars, displayVars, ViewsInv, ViewsTypeOK, ChangesAreTold, Unsettled
<1> QED BY <1>1, <1>2, <1>4, <1>5, <1>6 DEF ServerViewsNext

\* A view that was read after all it was told of shows what there is, for any servers,
\* workers, documents and variables (ServerTreeProviderBase, treeViewUtils).
THEOREM ViewsAreAlwaysCurrent == ServerViewsSpec => []ViewsAreCurrent
<1>1. ServerViewsInit => ViewsInv
  <2> SUFFICES ASSUME ServerViewsInit PROVE ViewsInv
    OBVIOUS
  <2>1. Unlisted \in ServerRecords
    BY DEF Unlisted, ServerRecords
  <2>2. /\ server \in [Servers -> ServerRecords] /\ entry \in [Conns -> Stages]
        /\ editors \in [Documents -> Conns \cup {NoConn}] /\ variables \in [Conns -> SUBSET Exported]
    BY <2>1 DEF ServerViewsInit, Stages
  <2>3. ViewsTypeOK
    BY <2>2 DEF ServerViewsInit, ViewsTypeOK
  <2> QED BY <2>3 DEF ServerViewsInit, ViewsInv, ChangesAreTold
<1>2. ViewsInv => ViewsAreCurrent
  BY DEF ViewsInv, ViewsTypeOK, ChangesAreTold, Unsettled, ViewsAreCurrent
<1> QED BY <1>1, <1>2, ViewsInvInductive, PTL DEF ServerViewsSpec

-----------------------------------------------------------------------------
(* Panels                                                                  *)

PanelOrNone == PanelIds \cup {None}
Refreshes == [todo : Seq(Variables), panel : PanelOrNone, active : BOOLEAN]

\* The values of the variables.
PanelsTypeOK ==
    /\ connected \in BOOLEAN /\ known \subseteq Variables /\ timer \in BOOLEAN
    /\ panelOf \in [Variables -> PanelOrNone] /\ shows \in [PanelIds -> Variables \cup {None}]
    /\ open \subseteq PanelIds /\ front \in PanelOrNone
    /\ pending \subseteq PanelIds /\ current \subseteq PanelIds /\ givenUp \subseteq PanelIds
    /\ opening \in Seq(OpenLists)
    /\ refresh \in [Handlers -> Refreshes]

\* The panel of a variable is open and shows it.
PanelsAreTracked ==
    \A v \in Variables : hasPanel(v) => panelOf[v] \in open /\ shows[panelOf[v]] = v

\* A panel that waits for its first load shows a variable.
PendingIsShown == \A p \in pending : shows[p] \in Variables

\* A refresh goes on that is to load the panel of variable v.
IsRefreshed(v) ==
    \E h \in Handlers : refresh[h].active /\ (refresh[h].panel = panelOf[v] \/ v \in Range(refresh[h].todo))

\* A panel has loaded what its variable has, in view or not, or will be loaded.
PanelsAreCovered ==
    \A v \in Variables : hasPanel(v) =>
        panelOf[v] \in current \cup pending \cup givenUp \/ IsRefreshed(v)

\* The timer is set when the panel in front waits for its first load.
FrontIsTimed == \A v \in Variables : (hasPanel(v) /\ panelOf[v] = front /\ front \in pending) => timer

PanelsInv == PanelsTypeOK /\ PanelsAreTracked /\ PendingIsShown /\ PanelsAreCovered /\ FrontIsTimed

\* A set of numbers that is not empty has a least one: the intervals from 0 to its members are
\* finite, and one of them contains no other.
LEMMA LeastIsThere ==
    ASSUME NEW P \in SUBSET Nat, P # {}
    PROVE  \E p \in P : \A q \in P : p <= q
<1> DEFINE T == {0..p : p \in P}
<1>1. IsWellFoundedOn(StrictSubsetOrdering(Nat), FiniteSubsetsOf(Nat))
  BY FS_StrictSubsetOrderingWellFounded
<1>2. \A p \in P : 0..p \in FiniteSubsetsOf(Nat)
  <2> SUFFICES ASSUME NEW p \in P PROVE 0..p \in FiniteSubsetsOf(Nat)
    OBVIOUS
  <2>1. IsFiniteSet(0..p) /\ 0..p \in SUBSET Nat
    BY FS_Interval
  <2> QED BY <2>1 DEF FiniteSubsetsOf
<1>3. T \subseteq FiniteSubsetsOf(Nat) /\ T # {}
  BY <1>2
<1>4. PICK I \in T : \A J \in T : ~ (<<J, I>> \in StrictSubsetOrdering(Nat))
  <2> HIDE DEF T
  <2> QED BY <1>1, <1>3, WFMin
<1>5. PICK p \in P : I = 0..p
  BY <1>4
<1>6. ASSUME NEW q \in P PROVE p <= q
  <2>1. ~ (<<0..q, 0..p>> \in StrictSubsetOrdering(Nat))
    BY <1>4, <1>5
  <2>2. 0..q \in SUBSET Nat /\ 0..p \in SUBSET Nat
    OBVIOUS
  <2>3. ~(0..q \subseteq 0..p /\ 0..q # 0..p)
    BY <2>1, <2>2 DEF StrictSubsetOrdering
  <2>4. CASE q < p
    <3>1. 0..q \subseteq 0..p /\ p \in 0..p /\ p \notin 0..q
      BY <2>4
    <3> QED BY <2>3, <3>1
  <2> QED BY <2>4
<1> QED BY <1>6

\* The variables of a set, in any order.
LEMMA SeqsHoldTheSet ==
    ASSUME NEW S, IsFiniteSet(S), NEW vs \in SetToSeqs(S)
    PROVE  vs \in Seq(S) /\ Range(vs) = S
<1> DEFINE n == Cardinality(S)
<1>1. n \in Nat
  BY FS_CardinalityType
<1>2. vs \in [1..n -> S] /\ \A i, j \in 1..n : i # j => vs[i] # vs[j]
  BY DEF SetToSeqs
<1>3. vs \in Injection(1..n, S)
  BY <1>2 DEF Injection, IsInjective
<1>4. Cardinality(1..n) = n
  BY <1>1, FS_Interval
<1>5. vs \in Surjection(1..n, S)
  BY <1>3, <1>4, FS_Injection
<1>6. Range(vs) = S
  BY <1>2, <1>5 DEF Surjection, Range
<1> QED BY <1>1, <1>2, <1>6

\* A refresh of variables starts, or their panels are given up.
RefreshStarts(vs) ==
    /\ refresh' \in [Handlers -> Refreshes] /\ givenUp' \subseteq PanelIds
    /\ givenUp \subseteq givenUp'
    /\ \A h \in Handlers : refresh[h].active => refresh'[h] = refresh[h]
    /\ \A v \in Range(vs) : \/ \E h \in Handlers : refresh'[h].active /\ v \in Range(refresh'[h].todo)
                            \/ ~connected /\ (hasPanel(v) => panelOf[v] \in givenUp')

LEMMA RefreshIsStarted ==
    ASSUME PanelsTypeOK, NEW vs \in Seq(Variables), RefreshPanelsContent(vs)
    PROVE  RefreshStarts(vs)
<1>0. Range(vs) \subseteq Variables
  BY DEF Range
<1>1. CASE vs = <<>>
  <2>1. Range(vs) = {}
    BY <1>1 DEF Range
  <2> QED BY <1>1, <2>1 DEF RefreshPanelsContent, RefreshStarts, PanelsTypeOK
<1>2. CASE vs # <<>> /\ connected
  <2> DEFINE h == CHOOSE h \in Free : TRUE
             started == [todo |-> vs, panel |-> None, active |-> TRUE]
  <2>1. Free # {} /\ UNCHANGED givenUp /\ refresh' = [refresh EXCEPT ![h] = started]
    BY <1>2 DEF RefreshPanelsContent
  <2>2. h \in Handlers /\ ~refresh[h].active
    BY <2>1 DEF Free
  <2>3. started \in Refreshes /\ started.active /\ started.todo = vs
    BY DEF Refreshes, PanelOrNone
  <2> HIDE DEF h, started
  <2>4. refresh' \in [Handlers -> Refreshes] /\ refresh'[h] = started
    BY <2>1, <2>2, <2>3 DEF PanelsTypeOK
  <2>5. \A g \in Handlers : refresh[g].active => refresh'[g] = refresh[g]
    BY <2>1, <2>2 DEF PanelsTypeOK
  <2> QED BY <2>1, <2>2, <2>3, <2>4, <2>5 DEF RefreshStarts, PanelsTypeOK
<1>3. CASE vs # <<>> /\ ~connected
  <2>1. givenUp' = givenUp \cup PanelsOf(vs) /\ UNCHANGED refresh
    BY <1>3 DEF RefreshPanelsContent
  <2>2. PanelsOf(vs) \subseteq PanelIds
    BY <1>0 DEF PanelsOf, PanelsTypeOK, PanelOrNone
  <2>3. \A v \in Range(vs) : hasPanel(v) => panelOf[v] \in givenUp'
    BY <2>1 DEF PanelsOf, hasPanel
  <2> QED BY <1>3, <2>1, <2>2, <2>3 DEF RefreshStarts, PanelsTypeOK
<1> QED BY <1>1, <1>2, <1>3

\* The loop goes on: the panels of its variables are to be loaded, put off or given up.
LoopGoesOn(h, todo, failed) ==
    /\ refresh' \in [Handlers -> Refreshes]
    /\ pending \subseteq pending' /\ pending' \subseteq PanelIds
    /\ \A p \in pending' : p \in pending \/ \E v \in Variables : hasPanel(v) /\ panelOf[v] = p
    /\ failed \subseteq givenUp' /\ givenUp' \subseteq PanelIds
    /\ \A g \in Handlers \ {h} : refresh'[g] = refresh[g]
    /\ \A v \in Range(todo) : hasPanel(v) =>
         \/ panelOf[v] \in pending' \cup givenUp'
         \/ refresh'[h].active /\ (refresh'[h].panel = panelOf[v] \/ v \in Range(refresh'[h].todo))
    /\ front \in pending' => front \in pending

LEMMA LoopCovers ==
    ASSUME PanelsTypeOK, NEW h \in Handlers, NEW todo \in Seq(Variables), NEW failed \in SUBSET PanelIds,
           Loop(h, todo, failed)
    PROVE  LoopGoesOn(h, todo, failed)
<1> DEFINE stops == {i \in DOMAIN todo : panelOf[todo[i]] \in {None, front}}
           stop == IF stops = {} THEN Len(todo) + 1 ELSE CHOOSE i \in stops : \A j \in stops : i <= j
           rest == SubSeq(todo, stop + 1, Len(todo))
           hidden == {panelOf[todo[i]] : i \in 1..(stop - 1)}
           goingOn == [todo |-> rest, panel |-> front, active |-> TRUE]
<1>1. /\ pending' = pending \cup hidden
      /\ IF stops # {} /\ hasPanel(todo[stop])
         THEN refresh' = [refresh EXCEPT ![h] = goingOn] /\ givenUp' = failed
         ELSE refresh' = [refresh EXCEPT ![h] = Idle] /\ givenUp' = failed \cup PanelsOf(rest)
  BY DEF Loop, HiddenPending
<1>2. Len(todo) \in Nat /\ DOMAIN todo = 1..Len(todo) /\ \A i \in DOMAIN todo : todo[i] \in Variables
  OBVIOUS
<1>3. stops \subseteq DOMAIN todo /\ stops \in SUBSET Nat
  BY <1>2
<1>4. /\ stops = {} => stop = Len(todo) + 1
      /\ stops # {} => stop \in stops /\ \A j \in stops : stop <= j
  <2>1. stops # {} => \E i \in stops : \A j \in stops : i <= j
    <3> HIDE DEF stops
    <3> QED BY <1>3, LeastIsThere
  <2> HIDE DEF stops
  <2> QED BY <2>1
<1>5. \A i \in DOMAIN todo : i \in stops <=> panelOf[todo[i]] \in {None, front}
  OBVIOUS
<1> HIDE DEF stops, stop
<1>6. stop \in Nat /\ stop \in 1..(Len(todo) + 1)
  BY <1>2, <1>3, <1>4
<1>7. \A i \in 1..(stop - 1) : i \in DOMAIN todo /\ i \notin stops
  BY <1>2, <1>3, <1>4, <1>6
<1>8. /\ hidden \subseteq PanelIds /\ front \notin hidden
      /\ \A p \in hidden : \E v \in Variables : hasPanel(v) /\ panelOf[v] = p
  BY <1>2, <1>5, <1>7 DEF PanelsTypeOK, PanelOrNone, hasPanel
<1>9. /\ rest \in Seq(Variables)
      /\ \A i \in DOMAIN todo : i > stop => todo[i] \in Range(rest)
  <2>1. /\ rest \in Seq(Variables)
        /\ Len(rest) = IF stop + 1 <= Len(todo) THEN Len(todo) - (stop + 1) + 1 ELSE 0
        /\ \A i \in 1 .. Len(todo) - (stop + 1) + 1 : rest[i] = todo[stop + 1 + i - 1]
    <3>1. \A i \in (stop + 1) .. Len(todo) : todo[i] \in Variables
      BY <1>2, <1>6
    <3>2. stop + 1 \in Int /\ Len(todo) \in Int
      BY <1>2, <1>6
    <3> QED BY <3>1, <3>2, SubSeqProperties
  <2>2. ASSUME NEW i \in DOMAIN todo, i > stop PROVE todo[i] \in Range(rest)
    <3>1. i - stop \in 1 .. Len(todo) - (stop + 1) + 1 /\ i - stop \in 1 .. Len(rest)
      BY <1>2, <1>6, <2>1, <2>2
    <3>2. rest[i - stop] = todo[stop + 1 + (i - stop) - 1] /\ stop + 1 + (i - stop) - 1 = i
      BY <1>2, <1>6, <2>1, <2>2, <3>1
    <3>3. i - stop \in DOMAIN rest /\ rest[i - stop] = todo[i]
      BY <2>1, <3>1, <3>2
    <3> HIDE DEF rest
    <3> QED BY <3>3 DEF Range
  <2> QED BY <2>1, <2>2
<1> HIDE DEF rest, hidden
<1>10. PanelsOf(rest) \subseteq PanelIds /\ \A v \in Range(rest) : hasPanel(v) => panelOf[v] \in PanelsOf(rest)
  <2>1. Range(rest) \subseteq Variables
    BY <1>9 DEF Range
  <2> QED BY <2>1 DEF PanelsOf, hasPanel, PanelsTypeOK, PanelOrNone
<1>11. goingOn \in Refreshes /\ Idle \in Refreshes
  BY <1>9 DEF Refreshes, Idle, PanelOrNone, PanelsTypeOK
<1>12. refresh' \in [Handlers -> Refreshes] /\ \A g \in Handlers \ {h} : refresh'[g] = refresh[g]
  BY <1>1, <1>11 DEF PanelsTypeOK
<1>13. /\ pending \subseteq pending' /\ pending' \subseteq PanelIds
       /\ failed \subseteq givenUp' /\ givenUp' \subseteq PanelIds
       /\ \A p \in pending' : p \in pending \/ \E v \in Variables : hasPanel(v) /\ panelOf[v] = p
       /\ front \in pending' => front \in pending
  BY <1>1, <1>8, <1>10 DEF PanelsTypeOK
<1>14. ASSUME NEW v \in Range(todo), hasPanel(v)
       PROVE  \/ panelOf[v] \in pending' \cup givenUp'
              \/ refresh'[h].active /\ (refresh'[h].panel = panelOf[v] \/ v \in Range(refresh'[h].todo))
  <2>1. PICK i \in DOMAIN todo : v = todo[i]
    BY DEF Range
  <2>2. i \in Nat
    BY <1>2
  <2>3. CASE i < stop
    <3>1. i \in 1..(stop - 1)
      BY <1>2, <1>6, <2>3
    <3> QED BY <1>1, <2>1, <3>1 DEF hidden
  <2>4. CASE stops # {} /\ hasPanel(todo[stop]) /\ i >= stop
    <3>1. refresh'[h] = goingOn
      BY <1>1, <2>4 DEF PanelsTypeOK
    <3>2. CASE i = stop
      <4>1. panelOf[v] = front
        BY <1>4, <1>5, <1>14, <2>1, <2>4, <3>2 DEF hasPanel
      <4> QED BY <3>1, <4>1
    <3>3. CASE i > stop
      BY <1>9, <2>1, <3>1, <3>3
    <3> QED BY <1>6, <2>2, <2>4, <3>2, <3>3
  <2>5. CASE ~(stops # {} /\ hasPanel(todo[stop])) /\ i >= stop
    <3>1. i # stop
      BY <1>2, <1>4, <1>14, <2>1, <2>5
    <3>2. v \in Range(rest)
      BY <1>6, <1>9, <2>1, <2>2, <2>5, <3>1
    <3> QED BY <1>1, <1>10, <1>14, <2>5, <3>2
  <2> QED BY <1>6, <2>2, <2>3, <2>4, <2>5
<1> QED BY <1>12, <1>13, <1>14 DEF LoopGoesOn

\* A call that goes on keeps its panels covered: what it was to load is loaded, or it is still to be
\* loaded, put off or given up.
LEMMA LoopKeepsCovered ==
    ASSUME PanelsInv, NEW h \in Handlers, NEW failed, LoopGoesOn(h, refresh[h].todo, failed),
           \A v \in Variables : hasPanel(v) =>
             /\ panelOf[v] \in current \cup pending \cup givenUp => panelOf[v] \in current' \cup pending \cup failed
             /\ panelOf[v] = refresh[h].panel => panelOf[v] \in current',
           UNCHANGED panelOf
    PROVE  PanelsAreCovered'
<1> SUFFICES ASSUME NEW v \in Variables, hasPanel(v)
             PROVE  \/ panelOf[v] \in current' \cup pending' \cup givenUp'
                    \/ \E g \in Handlers : refresh'[g].active /\ (refresh'[g].panel = panelOf[v]
                                                                   \/ v \in Range(refresh'[g].todo))
  BY DEF PanelsAreCovered, IsRefreshed, hasPanel
<1>1. pending \subseteq pending' /\ failed \subseteq givenUp'
  BY DEF LoopGoesOn
<1>2. CASE panelOf[v] \in current \cup pending \cup givenUp
  BY <1>1, <1>2
<1>3. CASE IsRefreshed(v)
  <2>1. PICK g \in Handlers :
          refresh[g].active /\ (refresh[g].panel = panelOf[v] \/ v \in Range(refresh[g].todo))
    BY <1>3 DEF IsRefreshed
  <2>2. CASE g # h
    <3>1. refresh'[g] = refresh[g]
      BY <2>2 DEF LoopGoesOn
    <3> QED BY <2>1, <3>1
  <2>3. CASE g = h /\ refresh[h].panel = panelOf[v]
    BY <2>3
  <2>4. CASE g = h /\ v \in Range(refresh[h].todo)
    BY <2>4 DEF LoopGoesOn
  <2> QED BY <2>1, <2>2, <2>3, <2>4
<1> QED BY <1>2, <1>3 DEF PanelsInv, PanelsAreCovered

\* A refresh that starts takes nothing from the calls that go on.
LEMMA StartKeepsCovered ==
    ASSUME PanelsInv, NEW vs, RefreshStarts(vs),
           \A v \in Variables : hasPanel(v)' =>
             /\ panelOf'[v] = panelOf[v]
             /\ panelOf[v] \in current \cup pending \cup givenUp =>
                  panelOf[v] \in current' \cup pending' \cup givenUp' \/ v \in Range(vs),
           connected \/ UNCHANGED panelOf
    PROVE  PanelsAreCovered'
<1> SUFFICES ASSUME NEW v \in Variables, panelOf'[v] # None
             PROVE  \/ panelOf'[v] \in current' \cup pending' \cup givenUp'
                    \/ \E g \in Handlers : refresh'[g].active /\ (refresh'[g].panel = panelOf'[v]
                                                                   \/ v \in Range(refresh'[g].todo))
  BY DEF PanelsAreCovered, IsRefreshed, hasPanel
<1>1. panelOf'[v] = panelOf[v] /\ hasPanel(v)
  BY DEF hasPanel
<1>2. CASE v \in Range(vs)
  <2>1. CASE ~connected /\ (hasPanel(v) => panelOf[v] \in givenUp')
    BY <1>1, <2>1
  <2>2. CASE \E h \in Handlers : refresh'[h].active /\ v \in Range(refresh'[h].todo)
    BY <2>2
  <2> QED BY <1>2, <2>1, <2>2 DEF RefreshStarts
<1>3. CASE panelOf[v] \in current \cup pending \cup givenUp /\ v \notin Range(vs)
  BY <1>1, <1>3 DEF hasPanel
<1>4. CASE IsRefreshed(v)
  <2>1. PICK g \in Handlers :
          refresh[g].active /\ (refresh[g].panel = panelOf[v] \/ v \in Range(refresh[g].todo))
    BY <1>4 DEF IsRefreshed
  <2>2. refresh'[g] = refresh[g]
    BY <2>1 DEF RefreshStarts
  <2> QED BY <1>1, <2>1, <2>2
<1> QED BY <1>1, <1>2, <1>3, <1>4 DEF PanelsInv, PanelsAreCovered

\* A call that awaits the worker's information or an address goes on.
LEMMA ResumeKeeps ==
    ASSUME PanelsInv, NEW h \in Handlers, Resume(h)
    PROVE  PanelsInv'
<1>0. PanelsTypeOK
  BY DEF PanelsInv
<1>1. refresh[h] \in Refreshes /\ refresh[h].todo \in Seq(Variables)
  BY <1>0 DEF PanelsTypeOK, Refreshes
<1>2. UNCHANGED <<connected, known, panelOf, shows, open, front, timer, opening>>
  BY DEF Resume, WorkerInfoKnown, AddressKnown, tabVars
<1>3. PanelsAreTracked'
  BY <1>2 DEF PanelsInv, PanelsAreTracked, hasPanel
<1>4. ASSUME NEW failed, LoopGoesOn(h, refresh[h].todo, failed) PROVE PendingIsShown'
  BY <1>2, <1>4 DEF PanelsInv, PendingIsShown, PanelsAreTracked, LoopGoesOn
<1>5. CASE WorkerInfoKnown(h)
  <2>1. refresh[h].panel = None /\ Loop(h, refresh[h].todo, givenUp) /\ UNCHANGED current
    BY <1>5 DEF WorkerInfoKnown
  <2>2. LoopGoesOn(h, refresh[h].todo, givenUp)
    BY <1>0, <1>1, <2>1, LoopCovers DEF PanelsTypeOK
  <2>3. PanelsAreCovered'
    BY <1>2, <2>1, <2>2, LoopKeepsCovered DEF hasPanel
  <2>4. FrontIsTimed'
    BY <1>2, <2>2 DEF PanelsInv, FrontIsTimed, hasPanel, LoopGoesOn
  <2> QED BY <1>0, <1>2, <1>3, <1>4, <2>1, <2>2, <2>3, <2>4 DEF PanelsInv, PanelsTypeOK, LoopGoesOn
<1>6. CASE AddressKnown(h)
  <2> DEFINE p == refresh[h].panel
  <2>1. p \in PanelOrNone /\ p # None
    BY <1>1, <1>6 DEF Refreshes, AddressKnown
  <2>2. CASE p \in open /\ current' = current \cup {p} /\ Loop(h, refresh[h].todo, givenUp \ {p})
    <3>1. LoopGoesOn(h, refresh[h].todo, givenUp \ {p})
      BY <1>0, <1>1, <2>2, LoopCovers DEF PanelsTypeOK
    <3>2. PanelsAreCovered'
      BY <1>2, <2>2, <3>1, LoopKeepsCovered
    <3>3. FrontIsTimed'
      BY <1>2, <3>1 DEF PanelsInv, FrontIsTimed, hasPanel, LoopGoesOn
    <3>4. current' \subseteq PanelIds
      BY <1>0, <2>2 DEF PanelsTypeOK
    <3> QED BY <1>0, <1>2, <1>3, <1>4, <3>1, <3>2, <3>3, <3>4 DEF PanelsInv, PanelsTypeOK, LoopGoesOn
  <2>3. CASE /\ p \notin open
             /\ refresh' = [refresh EXCEPT ![h] = Idle]
             /\ givenUp' = givenUp \cup PanelsOf(refresh[h].todo)
             /\ UNCHANGED <<pending, current>>
    <3>1. /\ Range(refresh[h].todo) \subseteq Variables
          /\ PanelsOf(refresh[h].todo) \subseteq PanelIds
          /\ \A v \in Range(refresh[h].todo) : hasPanel(v) => panelOf[v] \in PanelsOf(refresh[h].todo)
      <4>1. Range(refresh[h].todo) \subseteq Variables
        BY <1>1 DEF Range
      <4> QED BY <1>0, <4>1 DEF PanelsOf, hasPanel, PanelsTypeOK, PanelOrNone
    <3>2. Idle \in Refreshes
      BY DEF Idle, Refreshes, PanelOrNone
    <3>3. refresh' \in [Handlers -> Refreshes] /\ \A g \in Handlers \ {h} : refresh'[g] = refresh[g]
      BY <1>0, <2>3, <3>2 DEF PanelsTypeOK
    <3>4. LoopGoesOn(h, refresh[h].todo, givenUp)
      BY <1>0, <2>3, <3>1, <3>3 DEF LoopGoesOn, PanelsTypeOK
    <3>5. \A v \in Variables : hasPanel(v) => panelOf[v] # p
      BY <2>3 DEF PanelsInv, PanelsAreTracked
    <3>6. PanelsAreCovered'
      BY <1>2, <2>3, <3>4, <3>5, LoopKeepsCovered
    <3>7. FrontIsTimed'
      BY <1>2, <2>3 DEF PanelsInv, FrontIsTimed, hasPanel
    <3> QED BY <1>0, <1>2, <1>3, <1>4, <2>3, <3>4, <3>6, <3>7 DEF PanelsInv, PanelsTypeOK, LoopGoesOn
  <2> QED BY <1>6, <2>2, <2>3 DEF AddressKnown
<1> QED BY <1>5, <1>6 DEF Resume

\* The timer fires: what it takes from the pending panels is refreshed.
LEMMA TimerKeeps ==
    ASSUME PanelsInv, TimerFires
    PROVE  PanelsInv'
<1> DEFINE ready == {p \in pending : p = front /\ panelOf[shows[p]] = p}
           vs == [i \in 1..Cardinality(ready) |-> shows[front]]
<1>0. PanelsTypeOK
  BY DEF PanelsInv
<1>1. /\ timer' = FALSE /\ pending' = pending \ ready /\ RefreshPanelsContent(vs)
      /\ UNCHANGED <<connected, known, panelOf, shows, open, front, opening, current>>
  BY DEF TimerFires, tabVars
<1>2. CASE ready = {}
  <2>1. vs = <<>>
    <3>1. Cardinality(ready) = 0
      BY <1>2, FS_EmptySet
    <3> HIDE DEF ready
    <3>2. vs \in Seq({shows[front]}) /\ Len(vs) = 0
      BY <3>1
    <3> HIDE DEF vs
    <3> QED BY <3>2
  <2>2. UNCHANGED <<refresh, givenUp, pending>>
    BY <1>1, <1>2, <2>1 DEF RefreshPanelsContent
  <2>3. \A v \in Variables : (hasPanel(v) /\ panelOf[v] = front) => front \notin pending
    BY <1>2 DEF PanelsInv, PanelsAreTracked
  <2>4. FrontIsTimed'
    BY <1>1, <2>2, <2>3 DEF FrontIsTimed, hasPanel
  <2>5. PanelsAreTracked' /\ PendingIsShown' /\ PanelsAreCovered'
    BY <1>1, <2>2 DEF PanelsInv, PanelsAreTracked, PendingIsShown, PanelsAreCovered, IsRefreshed, hasPanel
  <2> QED BY <1>0, <1>1, <2>2, <2>4, <2>5 DEF PanelsInv, PanelsTypeOK
<1>3. CASE ready # {}
  <2>1. ready = {front} /\ front \in PanelIds /\ front \in pending /\ panelOf[shows[front]] = front
    BY <1>0, <1>3 DEF PanelsTypeOK
  <2>2. Cardinality(ready) = 1
    BY <2>1, FS_Singleton
  <2>3. vs = [i \in {1} |-> shows[front]]
    BY <2>2
  <2>4. Range(vs) = {shows[front]}
    BY <2>3 DEF Range
  <2>5. ASSUME shows[front] \in Variables PROVE PanelsInv'
    <3>1. vs \in Seq(Variables)
      <4> HIDE DEF ready
      <4> QED BY <2>2, <2>5
    <3> HIDE DEF vs
    <3>2. RefreshStarts(vs)
      BY <1>0, <1>1, <3>1, RefreshIsStarted
    <3>3. \A v \in Variables :
            hasPanel(v) /\ panelOf[v] \in current \cup pending \cup givenUp =>
              panelOf[v] \in current' \cup pending' \cup givenUp' \/ v \in Range(vs)
      <4> SUFFICES ASSUME NEW v \in Variables, hasPanel(v), panelOf[v] \in current \cup pending \cup givenUp
                   PROVE  panelOf[v] \in current' \cup pending' \cup givenUp' \/ v \in Range(vs)
        OBVIOUS
      <4>1. CASE panelOf[v] = front
        BY <2>4, <4>1 DEF PanelsInv, PanelsAreTracked
      <4>2. CASE panelOf[v] # front
        BY <1>1, <2>1, <3>2, <4>2 DEF RefreshStarts
      <4> QED BY <4>1, <4>2
    <3>4. PanelsAreCovered'
      BY <1>1, <3>2, <3>3, StartKeepsCovered DEF hasPanel
    <3>5. FrontIsTimed' /\ PanelsAreTracked' /\ PendingIsShown'
      BY <1>1, <2>1 DEF PanelsInv, PanelsAreTracked, PendingIsShown, FrontIsTimed, hasPanel
    <3> QED BY <1>0, <1>1, <3>2, <3>4, <3>5 DEF PanelsInv, PanelsTypeOK, RefreshStarts
  <2>6. shows[front] \in Variables
    BY <2>1 DEF PanelsInv, PendingIsShown
  <2> QED BY <2>5, <2>6
<1> QED BY <1>2, <1>3

\* Panels are opened, for the variables that have none.
LEMMA OpeningKeeps ==
    ASSUME PanelsInv, PanelsOpened
    PROVE  PanelsInv'
<1> DEFINE vs == Head(opening)
           new == {v \in Range(vs) : ~hasPanel(v)}
           free == {p \in PanelIds \ open : \A h \in Handlers : refresh[h].panel # p}
<1>0. PanelsTypeOK
  BY DEF PanelsInv
<1>1. PICK panel \in Injection(new, free) :
        /\ panelOf' = [v \in Variables |-> IF v \in new THEN panel[v] ELSE panelOf[v]]
        /\ shows' = [p \in PanelIds |-> IF p \in Range(panel) THEN AntiFunction(panel)[p] ELSE shows[p]]
        /\ open' = open \cup Range(panel)
  BY DEF PanelsOpened
<1>2. /\ opening # <<>> /\ opening' = Tail(opening)
      /\ front' = panelOf'[Last(vs)]
      /\ pending' = pending \cup {panelOf'[v] : v \in Range(vs)}
      /\ timer' = TRUE
      /\ UNCHANGED <<connected, known, refresh, current, givenUp>>
  BY DEF PanelsOpened
<1>3. opening' \in Seq(OpenLists) /\ vs \in OpenLists
  BY <1>0, <1>2 DEF PanelsTypeOK
<1>4. vs \in Seq(Variables) /\ vs # <<>>
  BY <1>3, PanelsAssumption
<1>5. Range(vs) \subseteq Variables /\ Last(vs) \in Range(vs) /\ new \subseteq Variables
  <2>1. Len(vs) \in DOMAIN vs /\ Range(vs) \subseteq Variables
    BY <1>4 DEF Range
  <2>2. Last(vs) \in Range(vs)
    BY <1>4, <2>1 DEF Range, Last
  <2> QED BY <2>1, <2>2
<1>6. new \subseteq Range(vs) /\ \A v \in Range(vs) \ new : hasPanel(v)
  OBVIOUS
<1>7. free \subseteq PanelIds \ open
  OBVIOUS
<1> HIDE DEF vs, new, free
<1>8. /\ panel \in [new -> free] /\ \A v \in new : \A w \in new : panel[v] = panel[w] => v = w
      /\ Range(panel) \subseteq free
      /\ \A v \in new : panel[v] \in Range(panel)
      /\ \A p \in Range(panel) : \E v \in new : p = panel[v]
  BY DEF Injection, IsInjective, Range
<1>9. \A v \in new : AntiFunction(panel)[panel[v]] = v
  BY <1>8 DEF AntiFunction, Inverse
<1>10. None \notin PanelIds
  BY PanelsAssumption
<1>11. /\ panelOf' \in [Variables -> PanelOrNone]
       /\ \A v \in Variables : panelOf'[v] = IF v \in new THEN panel[v] ELSE panelOf[v]
       /\ \A v \in Range(vs) : panelOf'[v] \in PanelIds
  <2>1. \A v \in new : panel[v] \in PanelIds
    BY <1>7, <1>8
  <2> QED BY <1>0, <1>1, <1>5, <1>6, <2>1 DEF PanelsTypeOK, PanelOrNone, hasPanel
<1>12. /\ shows' \in [PanelIds -> Variables \cup {None}]
       /\ \A v \in new : shows'[panel[v]] = v
       /\ \A p \in PanelIds \ Range(panel) : shows'[p] = shows[p]
       /\ \A p \in Range(panel) : shows'[p] \in Variables
  BY <1>0, <1>1, <1>5, <1>7, <1>8, <1>9 DEF PanelsTypeOK
<1>13. open' \subseteq PanelIds /\ front' \in PanelOrNone /\ pending' \subseteq PanelIds
  <2>1. open' \subseteq PanelIds
    BY <1>0, <1>1, <1>7, <1>8 DEF PanelsTypeOK
  <2>2. front' \in PanelOrNone
    BY <1>2, <1>5, <1>11 DEF PanelOrNone
  <2>3. pending' \subseteq PanelIds
    <3>1. \A p \in {panelOf'[v] : v \in Range(vs)} : p \in PanelIds
      BY <1>11
    <3> QED BY <1>0, <1>2, <3>1 DEF PanelsTypeOK
  <2> QED BY <2>1, <2>2, <2>3
<1>14. PanelsTypeOK'
  BY <1>0, <1>2, <1>3, <1>11, <1>12, <1>13 DEF PanelsTypeOK
<1>15. PanelsAreTracked'
  <2> SUFFICES ASSUME NEW v \in Variables, panelOf'[v] # None
               PROVE  panelOf'[v] \in open' /\ shows'[panelOf'[v]] = v
    BY DEF PanelsAreTracked, hasPanel
  <2>1. CASE v \in new
    BY <1>1, <1>8, <1>11, <1>12, <2>1
  <2>2. CASE v \notin new
    <3>1. panelOf'[v] = panelOf[v] /\ panelOf[v] \in open /\ shows[panelOf[v]] = v
      BY <1>11, <2>2 DEF PanelsInv, PanelsAreTracked, hasPanel
    <3>2. panelOf[v] \in PanelIds \ Range(panel)
      BY <1>0, <1>7, <1>8, <3>1 DEF PanelsTypeOK
    <3> QED BY <1>1, <1>12, <3>1, <3>2
  <2> QED BY <2>1, <2>2
<1>16. PendingIsShown'
  <2> SUFFICES ASSUME NEW p \in pending' PROVE shows'[p] \in Variables
    BY DEF PendingIsShown
  <2>1. CASE p \in Range(panel)
    BY <1>12, <2>1
  <2>2. CASE p \in pending /\ p \notin Range(panel)
    BY <1>0, <1>12, <2>2 DEF PanelsInv, PendingIsShown, PanelsTypeOK
  <2>3. CASE \E v \in Range(vs) : p = panelOf'[v]
    BY <1>5, <1>10, <1>11, <1>15, <2>3 DEF PanelsAreTracked, hasPanel
  <2> QED BY <1>2, <2>1, <2>2, <2>3
<1>17. PanelsAreCovered'
  <2> SUFFICES ASSUME NEW v \in Variables, panelOf'[v] # None
               PROVE  \/ panelOf'[v] \in current' \cup pending' \cup givenUp'
                      \/ \E g \in Handlers : refresh'[g].active /\ (refresh'[g].panel = panelOf'[v]
                                                                     \/ v \in Range(refresh'[g].todo))
    BY DEF PanelsAreCovered, IsRefreshed, hasPanel
  <2>1. CASE v \in Range(vs)
    BY <1>2, <2>1
  <2>2. CASE v \notin Range(vs)
    <3>1. panelOf'[v] = panelOf[v]
      BY <1>6, <1>11, <2>2
    <3> QED BY <1>2, <3>1 DEF PanelsInv, PanelsAreCovered, IsRefreshed, hasPanel
  <2> QED BY <2>1, <2>2
<1>18. FrontIsTimed'
  BY <1>2 DEF FrontIsTimed
<1> QED BY <1>14, <1>15, <1>16, <1>17, <1>18 DEF PanelsInv

\* A panel is closed, and its variable has none from then on.
LEMMA DisposingKeeps ==
    ASSUME PanelsInv, NEW p \in PanelIds, PanelDisposed(p)
    PROVE  PanelsInv'
<1>0. PanelsTypeOK
  BY DEF PanelsInv
<1>1. /\ p \in open /\ open' = open \ {p}
      /\ front' \in IF p = front THEN (open \ {p}) \cup {None} ELSE {front}
      /\ panelOf' = [panelOf EXCEPT ![shows[p]] = None]
      /\ pending' = pending \ {p} /\ current' = current \ {p} /\ givenUp' = givenUp \ {p}
      /\ timer' = TRUE
      /\ UNCHANGED <<connected, known, shows, opening, refresh>>
  BY DEF PanelDisposed, deletePanel
<1>2. \A v \in Variables : panelOf'[v] # None => v # shows[p] /\ panelOf'[v] = panelOf[v]
  BY <1>0, <1>1 DEF PanelsTypeOK
<1>3. \A v \in Variables : panelOf'[v] # None => panelOf[v] # p /\ hasPanel(v)
  BY <1>2 DEF PanelsInv, PanelsAreTracked, hasPanel
<1>4. panelOf' \in [Variables -> PanelOrNone]
  BY <1>0, <1>1 DEF PanelsTypeOK, PanelOrNone
<1>5. open' \subseteq PanelIds /\ front' \in PanelOrNone
  BY <1>0, <1>1 DEF PanelsTypeOK, PanelOrNone
<1>6. PanelsTypeOK'
  BY <1>0, <1>1, <1>4, <1>5 DEF PanelsTypeOK
<1>7. PanelsAreTracked'
  BY <1>1, <1>2, <1>3 DEF PanelsInv, PanelsAreTracked, hasPanel
<1>8. PendingIsShown'
  BY <1>1 DEF PanelsInv, PendingIsShown
<1>9. PanelsAreCovered'
  <2> SUFFICES ASSUME NEW v \in Variables, panelOf'[v] # None
               PROVE  \/ panelOf'[v] \in current' \cup pending' \cup givenUp'
                      \/ \E g \in Handlers : refresh'[g].active /\ (refresh'[g].panel = panelOf'[v]
                                                                     \/ v \in Range(refresh'[g].todo))
    BY DEF PanelsAreCovered, IsRefreshed, hasPanel
  <2> QED BY <1>1, <1>2, <1>3 DEF PanelsInv, PanelsAreCovered, IsRefreshed
<1>10. FrontIsTimed'
  BY <1>1 DEF FrontIsTimed
<1> QED BY <1>6, <1>7, <1>8, <1>9, <1>10 DEF PanelsInv

\* Fields are updated: what has lost its content is refreshed.
LEMMA UpdateKeeps ==
    ASSUME PanelsInv, NEW set \in SUBSET Variables, NEW removed \in SUBSET Variables, FieldUpdate(set, removed)
    PROVE  PanelsInv'
<1> DEFINE panels == [v \in Variables |-> IF v \in removed THEN None ELSE panelOf[v]]
           updated == UpdatedPanels(set \cap known, panels)
<1>0. PanelsTypeOK
  BY DEF PanelsInv
<1>1. /\ connected /\ removed \subseteq known
      /\ panelOf' = panels /\ known' = (known \ removed) \cup set
      /\ current' = {p \in current : shows[p] \notin set \/ (shows[p] \notin known /\ panels[shows[p]] = p)}
      /\ UNCHANGED <<connected, shows, open, front, pending, timer, opening>>
  BY DEF FieldUpdate, tabVars
<1>2. PICK vs \in SetToSeqs(updated) : RefreshPanelsContent(vs)
  BY DEF FieldUpdate
<1>3. /\ panels \in [Variables -> PanelOrNone]
      /\ \A v \in Variables : panels[v] # None => v \notin removed /\ panels[v] = panelOf[v]
  BY <1>0 DEF PanelsTypeOK, PanelOrNone
<1>4. updated \subseteq Variables /\ \A v \in Variables : v \in updated <=> v \in set \cap known /\ panels[v] # None
  BY DEF UpdatedPanels
<1>5. IsFiniteSet(updated)
  BY <1>4, PanelsAssumption, FS_Subset
<1> HIDE DEF panels, updated
<1>6. vs \in Seq(updated) /\ Range(vs) = updated
  BY <1>5, SeqsHoldTheSet
<1>7. vs \in Seq(Variables)
  BY <1>4, <1>6
<1>8. RefreshStarts(vs)
  BY <1>0, <1>2, <1>7, RefreshIsStarted
<1>9. \A v \in Variables : hasPanel(v)' =>
        /\ panelOf'[v] = panelOf[v]
        /\ panelOf[v] \in current \cup pending \cup givenUp =>
             panelOf[v] \in current' \cup pending' \cup givenUp' \/ v \in Range(vs)
  <2> SUFFICES ASSUME NEW v \in Variables, panels[v] # None
               PROVE  /\ panels[v] = panelOf[v]
                      /\ panelOf[v] \in current \cup pending \cup givenUp =>
                           panelOf[v] \in current' \cup pending' \cup givenUp' \/ v \in Range(vs)
    BY <1>1 DEF hasPanel
  <2>1. panels[v] = panelOf[v] /\ hasPanel(v) /\ shows[panelOf[v]] = v
    BY <1>3 DEF PanelsInv, PanelsAreTracked, hasPanel
  <2>2. CASE panelOf[v] \in current
    BY <1>1, <1>4, <1>6, <2>1, <2>2
  <2>3. CASE panelOf[v] \in pending \cup givenUp
    BY <1>1, <1>8, <2>1, <2>3 DEF RefreshStarts
  <2> QED BY <2>1, <2>2, <2>3
<1>10. PanelsAreCovered'
  BY <1>1, <1>8, <1>9, StartKeepsCovered
<1>11. PanelsTypeOK'
  BY <1>0, <1>1, <1>3, <1>8 DEF PanelsTypeOK, RefreshStarts
<1>12. PanelsAreTracked' /\ FrontIsTimed' /\ PendingIsShown'
  BY <1>1, <1>3 DEF PanelsInv, PanelsAreTracked, FrontIsTimed, PendingIsShown, hasPanel
<1> QED BY <1>10, <1>11, <1>12 DEF PanelsInv

\* The theme changes: the panels of all known variables are refreshed.
LEMMA ThemeKeeps ==
    ASSUME PanelsInv, ThemeChanged
    PROVE  PanelsInv'
<1>0. PanelsTypeOK
  BY DEF PanelsInv
<1>1. UNCHANGED <<connected, known, panelOf, shows, open, front, pending, timer, opening, current>>
  BY DEF ThemeChanged, tabVars
<1>2. PICK vs \in SetToSeqs(getPanelVariables) : RefreshPanelsContent(vs)
  BY DEF ThemeChanged
<1>3. getPanelVariables \subseteq Variables
  BY <1>0 DEF getPanelVariables, PanelsTypeOK
<1>4. IsFiniteSet(getPanelVariables)
  BY <1>3, PanelsAssumption, FS_Subset
<1>5. vs \in Seq(getPanelVariables)
  BY <1>4, SeqsHoldTheSet
<1>6. vs \in Seq(Variables)
  BY <1>3, <1>5
<1>7. RefreshStarts(vs)
  BY <1>0, <1>2, <1>6, RefreshIsStarted
<1>8. \A v \in Variables : hasPanel(v)' =>
        /\ panelOf'[v] = panelOf[v]
        /\ panelOf[v] \in current \cup pending \cup givenUp =>
             panelOf[v] \in current' \cup pending' \cup givenUp' \/ v \in Range(vs)
  BY <1>1, <1>7 DEF RefreshStarts
<1>9. PanelsAreCovered'
  BY <1>1, <1>7, <1>8, StartKeepsCovered
<1>10. PanelsAreTracked' /\ FrontIsTimed' /\ PendingIsShown'
  BY <1>1 DEF PanelsInv, PanelsAreTracked, FrontIsTimed, PendingIsShown, hasPanel
<1>11. PanelsTypeOK'
  BY <1>0, <1>1, <1>7 DEF PanelsTypeOK, RefreshStarts
<1> QED BY <1>9, <1>10, <1>11 DEF PanelsInv

\* The steps that refresh nothing: a call is made, a tab is shown, the connection comes and goes.
LEMMA OtherPanelStepsKeep ==
    ASSUME PanelsInv,
           \/ \E vs \in OpenLists : OpenPanels(vs)
           \/ \E p \in PanelIds \cup {None} : Show(p)
           \/ Disconnected
           \/ Connected
           \/ UNCHANGED vars
    PROVE  PanelsInv'
<1>0. PanelsTypeOK
  BY DEF PanelsInv
<1>1. UNCHANGED <<shows, open, pending, refresh, current, givenUp>>
  BY DEF OpenPanels, Show, Disconnected, Connected, vars, tabVars
<1>2. \/ UNCHANGED panelOf
      \/ panelOf' = [v \in Variables |-> None]
  BY DEF OpenPanels, Show, Disconnected, Connected, vars, tabVars
<1>3. UNCHANGED <<front, timer>> \/ timer' = TRUE
  BY DEF OpenPanels, Show, Disconnected, Connected, vars, tabVars
<1>4. connected' \in BOOLEAN /\ timer' \in BOOLEAN /\ known' \subseteq Variables /\ opening' \in Seq(OpenLists)
  <2>1. CASE \E vs \in OpenLists : OpenPanels(vs)
    BY <1>0, <2>1 DEF OpenPanels, PanelsTypeOK
  <2>2. CASE \E p \in PanelIds \cup {None} : Show(p)
    BY <1>0, <2>2 DEF Show, PanelsTypeOK
  <2>3. CASE Disconnected
    BY <1>0, <2>3 DEF Disconnected, PanelsTypeOK
  <2>4. CASE Connected
    BY <1>0, <2>4 DEF Connected, PanelsTypeOK
  <2>5. CASE UNCHANGED vars
    BY <1>0, <2>5 DEF vars, PanelsTypeOK
  <2> QED BY <2>1, <2>2, <2>3, <2>4, <2>5
<1>5. front' \in PanelOrNone
  <2>1. CASE \E p \in PanelIds \cup {None} : Show(p)
    BY <2>1 DEF Show, PanelOrNone
  <2>2. CASE UNCHANGED front
    BY <1>0, <2>2 DEF PanelsTypeOK
  <2> QED BY <2>1, <2>2 DEF OpenPanels, Disconnected, Connected, vars, tabVars
<1>6. panelOf' \in [Variables -> PanelOrNone]
  BY <1>0, <1>2 DEF PanelsTypeOK, PanelOrNone
<1>7. \A v \in Variables : panelOf'[v] # None => panelOf'[v] = panelOf[v]
  BY <1>2
<1>8. PanelsTypeOK'
  BY <1>0, <1>1, <1>4, <1>5, <1>6 DEF PanelsTypeOK
<1>9. PanelsAreTracked' /\ PendingIsShown'
  BY <1>1, <1>7 DEF PanelsInv, PanelsAreTracked, PendingIsShown, hasPanel
<1>10. PanelsAreCovered'
  <2> SUFFICES ASSUME NEW v \in Variables, panelOf'[v] # None
               PROVE  \/ panelOf'[v] \in current' \cup pending' \cup givenUp'
                      \/ \E g \in Handlers : refresh'[g].active /\ (refresh'[g].panel = panelOf'[v]
                                                                     \/ v \in Range(refresh'[g].todo))
    BY DEF PanelsAreCovered, IsRefreshed, hasPanel
  <2> QED BY <1>1, <1>7 DEF PanelsInv, PanelsAreCovered, IsRefreshed, hasPanel
<1>11. FrontIsTimed'
  <2> SUFFICES ASSUME NEW v \in Variables, panelOf'[v] # None, panelOf'[v] = front', front' \in pending'
               PROVE  timer'
    BY DEF FrontIsTimed, hasPanel
  <2>1. CASE UNCHANGED <<front, timer>>
    BY <1>1, <1>7, <2>1 DEF PanelsInv, FrontIsTimed, hasPanel
  <2> QED BY <1>3, <2>1
<1> QED BY <1>8, <1>9, <1>10, <1>11 DEF PanelsInv

\* PanelController and PanelService: the invariant is inductive.
THEOREM PanelsInvInductive ==
    /\ Init => PanelsInv
    /\ PanelsInv /\ [Next]_vars => PanelsInv'
<1>1. ASSUME Init PROVE PanelsInv
  <2>1. Idle \in Refreshes /\ panelOf \in [Variables -> PanelOrNone]
    BY <1>1 DEF Init, Idle, Refreshes, PanelOrNone
  <2>2. PanelsTypeOK
    <3>1. refresh \in [Handlers -> Refreshes] /\ shows \in [PanelIds -> Variables \cup {None}]
      BY <1>1, <2>1 DEF Init
    <3>2. /\ connected \in BOOLEAN /\ known \subseteq Variables /\ timer \in BOOLEAN
          /\ open \subseteq PanelIds /\ front \in PanelOrNone
          /\ pending \subseteq PanelIds /\ current \subseteq PanelIds /\ givenUp \subseteq PanelIds
      BY <1>1 DEF Init, PanelOrNone
    <3>3. opening \in Seq(OpenLists)
      BY <1>1 DEF Init
    <3> QED BY <2>1, <3>1, <3>2, <3>3 DEF PanelsTypeOK
  <2>3. \A v \in Variables : ~hasPanel(v)
    BY <1>1 DEF Init, hasPanel
  <2>4. PanelsAreTracked /\ PendingIsShown /\ PanelsAreCovered /\ FrontIsTimed
    BY <1>1, <2>3 DEF Init, PanelsAreTracked, PendingIsShown, PanelsAreCovered, FrontIsTimed
  <2> QED BY <2>2, <2>4 DEF PanelsInv
<1>2. ASSUME PanelsInv, [Next]_vars PROVE PanelsInv'
  <2>1. CASE \E h \in Handlers : Resume(h)
    BY <1>2, <2>1, ResumeKeeps
  <2>2. CASE TimerFires
    BY <1>2, <2>2, TimerKeeps
  <2>3. CASE PanelsOpened
    BY <1>2, <2>3, OpeningKeeps
  <2>4. CASE \E p \in PanelIds \cup {None} : p # None /\ PanelDisposed(p)
    BY <1>2, <2>4, DisposingKeeps
  <2>5. CASE \E set, removed \in SUBSET Variables : FieldUpdate(set, removed)
    BY <1>2, <2>5, UpdateKeeps
  <2>6. CASE ThemeChanged
    BY <1>2, <2>6, ThemeKeeps
  <2>7. CASE \/ \E vs \in OpenLists : OpenPanels(vs)
             \/ \E p \in PanelIds \cup {None} : Show(p)
             \/ Disconnected
             \/ Connected
             \/ UNCHANGED vars
    BY <1>2, <2>7, OtherPanelStepsKeep
  <2> QED BY <1>2, <2>1, <2>2, <2>3, <2>4, <2>5, <2>6, <2>7 DEF Next
<1> QED BY <1>1, <1>2

\* PanelController: a panel in view shows the current value of its variable, or a load of it is
\* scheduled or under way, unless a refresh of several panels ended with an exception.
THEOREM VisiblePanelsAreCurrent == Spec => []VisibleIsCurrent
<1>1. PanelsInv => VisibleIsCurrent
  BY DEF PanelsInv, PanelsAreCovered, IsRefreshed, FrontIsTimed, VisibleIsCurrent, hasPanel
<1> QED BY <1>1, PanelsInvInductive, PTL DEF Spec

=============================================================================
