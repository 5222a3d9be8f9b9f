------------------------------- MODULE Panels -------------------------------
(***************************************************************************)
(* The variable panels of one connection: PanelController                  *)
(* (controllers/PanelController.ts), PanelService (services/PanelService.ts)*)
(* and the field updates that DhcService passes on.  Panels share a view   *)
(* column, of which one tab is in front.                                   *)
(***************************************************************************)
EXTENDS Naturals, SequencesExt, FiniteSets

CONSTANTS
    Variables,      \* variables of the server
    OpenLists,      \* lists of variables that panels are opened for at once
    Handlers,       \* calls of _onRefreshPanelsContent that can be under way at once
    PanelIds,        \* panels, used again when they are closed and forgotten
    None

ASSUME PanelsAssumption ==
    /\ IsFiniteSet(Variables) /\ OpenLists \subseteq Seq(Variables) \ {<<>>}
    /\ IsFiniteSet(PanelIds) /\ None \notin PanelIds

VARIABLES
    connected,  \* whether ServerManager has the connection
    known,      \* _cnVariableMap: the variables of the connection
    panelOf,    \* _cnPanelMap: the panel of a variable
    shows,      \* the variable of a panel
    open,       \* panels that are not disposed
    front,      \* the panel that is visible
    pending,    \* _panelsPendingInitialLoad
    timer,      \* whether the debounced refresh is scheduled
    opening,    \* the lists of _onOpenPanels calls that wait for the next tick
    refresh,    \* the calls of _onRefreshPanelsContent
    current,    \* panels that have loaded the value their variable has
    givenUp     \* panels whose refresh ended with an exception, until they are loaded

tabVars == <<shows, open, front>>
vars == <<connected, known, panelOf, tabVars, pending, timer, opening, refresh, current, givenUp>>

Idle == [todo |-> <<>>, panel |-> None, active |-> FALSE]

Init ==
    /\ connected = TRUE /\ known = {}
    /\ panelOf = [v \in Variables |-> None]
    /\ shows = [p \in PanelIds |-> None] /\ open = {} /\ front = None
    /\ pending = {} /\ timer = FALSE /\ opening = <<>>
    /\ refresh = [h \in Handlers |-> Idle]
    /\ current = {} /\ givenUp = {}

-----------------------------------------------------------------------------
(* Refreshing.  A definition that is used nowhere is a faulty variant of   *)
(* the one it stands before.                                               *)

hasPanel(v) == panelOf[v] # None
PanelsOf(vs) == {panelOf[v] : v \in Range(vs)} \ {None}
Free == {h \in Handlers : ~refresh[h].active}

\* _onRefreshPanelsContent for the variables vs, until it awaits the worker's information.
\* Without a connection it throws at once.
RefreshPanelsContent(vs) ==
    IF vs = <<>> THEN UNCHANGED <<refresh, givenUp>>
    ELSE IF connected
         THEN /\ Free # {} /\ UNCHANGED givenUp
              /\ refresh' = [refresh EXCEPT ![CHOOSE h \in Free : TRUE] =
                               [todo |-> vs, panel |-> None, active |-> TRUE]]
         ELSE givenUp' = givenUp \cup PanelsOf(vs) /\ UNCHANGED refresh

HiddenSkipped(ps) == pending
\* Panels that are not visible are loaded when they become so.
HiddenPending(ps) == pending \cup ps

\* The loop, until it awaits the address of a visible panel or a panel is missing.
Loop(h, todo, failed) ==
    LET stops == {i \in DOMAIN todo : panelOf[todo[i]] \in {None, front}}
        stop == IF stops = {} THEN Len(todo) + 1 ELSE CHOOSE i \in stops : \A j \in stops : i <= j
        rest == SubSeq(todo, stop + 1, Len(todo))
    IN /\ pending' = HiddenPending({panelOf[todo[i]] : i \in 1..(stop - 1)})
       /\ IF stops # {} /\ hasPanel(todo[stop])
          THEN /\ refresh' = [refresh EXCEPT ![h] = [todo |-> rest, panel |-> front, active |-> TRUE]]
               /\ givenUp' = failed
          ELSE refresh' = [refresh EXCEPT ![h] = Idle] /\ givenUp' = failed \cup PanelsOf(rest)

WorkerInfoKnown(h) ==
    /\ refresh[h].active /\ refresh[h].panel = None
    /\ Loop(h, refresh[h].todo, givenUp)
    /\ UNCHANGED <<connected, known, panelOf, tabVars, timer, opening, current>>

\* The address is there: the html of the panel is set, which throws if it was disposed.
AddressKnown(h) ==
    LET p == refresh[h].panel IN
    /\ refresh[h].active /\ p # None
    /\ \/ /\ p \in open
          /\ current' = current \cup {p}
          /\ Loop(h, refresh[h].todo, givenUp \ {p})
       \/ /\ p \notin open
          /\ refresh' = [refresh EXCEPT ![h] = Idle]
          /\ givenUp' = givenUp \cup PanelsOf(refresh[h].todo)
          /\ UNCHANGED <<pending, current>>
    /\ UNCHANGED <<connected, known, panelOf, tabVars, timer, opening>>

\* The debounced handler loads the panel in front if it waits for its first load.
TimerFires ==
    LET due == {p \in pending : p = front /\ panelOf[shows[p]] = p} IN
    /\ timer /\ timer' = FALSE
    /\ pending' = pending \ due
    /\ RefreshPanelsContent([i \in 1..Cardinality(due) |-> shows[front]])
    /\ UNCHANGED <<connected, known, panelOf, tabVars, opening, current>>

-----------------------------------------------------------------------------
(* Opening                                                                 *)

OpenPanels(vs) ==
    /\ opening' = Append(opening, vs)
    /\ UNCHANGED <<connected, known, panelOf, tabVars, pending, timer, refresh, current, givenUp>>

\* The next tick: a panel for each variable that has none, the last one revealed.
PanelsOpened ==
    LET vs == Head(opening)
        new == {v \in Range(vs) : ~hasPanel(v)}
        free == {p \in PanelIds \ open : \A h \in Handlers : refresh[h].panel # p}
    IN /\ opening # <<>>
       /\ opening' = Tail(opening)
       /\ \E panel \in Injection(new, free) :
            /\ panelOf' = [v \in Variables |-> IF v \in new THEN panel[v] ELSE panelOf[v]]
            /\ shows' = [p \in PanelIds |-> IF p \in Range(panel) THEN AntiFunction(panel)[p] ELSE shows[p]]
            /\ open' = open \cup Range(panel)
       /\ front' = panelOf'[Last(vs)]
       /\ pending' = pending \cup {panelOf'[v] : v \in Range(vs)}
       /\ timer' = TRUE
       /\ UNCHANGED <<connected, known, refresh, current, givenUp>>

\* The user changes the tab, to an editor for example.
Show(p) ==
    /\ p \in (open \cup {None}) \ {front}
    /\ front' = p
    /\ timer' = TRUE
    /\ UNCHANGED <<connected, known, panelOf, shows, open, pending, opening, refresh, current, givenUp>>

deletePanel(v) == [panelOf EXCEPT ![v] = None]

\* The user closes a panel.
PanelDisposed(p) ==
    /\ p \in open
    /\ open' = open \ {p}
    /\ front' \in IF p = front THEN (open \ {p}) \cup {None} ELSE {front}
    /\ panelOf' = deletePanel(shows[p])
    /\ pending' = pending \ {p} /\ current' = current \ {p} /\ givenUp' = givenUp \ {p}
    /\ timer' = TRUE
    /\ UNCHANGED <<connected, known, shows, opening, refresh>>

-----------------------------------------------------------------------------
(* The connection                                                          *)

\* The updated variables that have a panel when the removed ones have lost theirs.
UpdatedPanels(updated, panels) == {v \in updated : panels[v] # None}

\* A field update: some variables are removed, others created or given another value.  A
\* panel that is opened before its variable is announced shows the announced value: the
\* run that created the variable has opened it.
FieldUpdate(set, removed) ==
    /\ connected /\ set \cup removed # {} /\ set \cap removed = {} /\ removed \subseteq known
    /\ LET panels == [v \in Variables |-> IF v \in removed THEN None ELSE panelOf[v]] IN
       /\ panelOf' = panels
       /\ known' = (known \ removed) \cup set
       /\ current' = {p \in current : shows[p] \notin set \/ (shows[p] \notin known /\ panels[shows[p]] = p)}
       /\ \E vs \in SetToSeqs(UpdatedPanels(set \cap known, panels)) : RefreshPanelsContent(vs)
    /\ UNCHANGED <<connected, tabVars, pending, timer, opening>>

getPanelVariables == {v \in known : hasPanel(v)}
ThemeChanged ==
    /\ \E vs \in SetToSeqs(getPanelVariables) : vs # <<>> /\ RefreshPanelsContent(vs)
    /\ UNCHANGED <<connected, known, panelOf, tabVars, pending, timer, opening, current>>

\* clearServerData; the panels stay, with the content they have.
Disconnected ==
    /\ connected /\ connected' = FALSE
    /\ known' = {} /\ panelOf' = [v \in Variables |-> None]
    /\ UNCHANGED <<tabVars, pending, timer, opening, refresh, current, givenUp>>

Connected ==
    /\ ~connected /\ connected' = TRUE
    /\ UNCHANGED <<known, panelOf, tabVars, pending, timer, opening, refresh, current, givenUp>>

Resume(h) == WorkerInfoKnown(h) \/ AddressKnown(h)
Next ==
    \/ \E h \in Handlers : Resume(h)
    \/ TimerFires \/ PanelsOpened
    \/ \E vs \in OpenLists : opening = <<>> /\ OpenPanels(vs)
    \/ \E p \in PanelIds \cup {None} : Show(p) \/ (p # None /\ PanelDisposed(p))
    \/ \E set, removed \in SUBSET Variables : FieldUpdate(set, removed)
    \/ ThemeChanged \/ Disconnected \/ Connected

\* Timers fire and calls of the services are answered.
Fairness == WF_vars(TimerFires) /\ WF_vars(PanelsOpened) /\ \A h \in Handlers : WF_vars(Resume(h))
Spec == Init /\ [][Next]_vars /\ Fairness

-----------------------------------------------------------------------------
(* Properties.                                                             *)

\* A panel in view shows the current value of its variable, or a load of it is scheduled or
\* under way, unless an exception in a refresh of several panels put an end to it.
VisibleIsCurrent ==
    \A v \in Variables : (hasPanel(v) /\ panelOf[v] = front) =>
        \/ front \in current
        \/ front \in pending /\ timer
        \/ \E h \in Handlers : refresh[h].active /\ (refresh[h].panel = front \/ v \in Range(refresh[h].todo))
        \/ front \in givenUp

=============================================================================
