------------------------------ MODULE MCViews ------------------------------
(* Panels, QueryView, WebviewTheme and ServerViews share nothing: in a      *)
(* behaviour one of them is active and the others stay as they are.        *)
EXTENDS Panels, QueryView, WebviewTheme, ServerViews

VARIABLE active

ViewsInit ==
    /\ active \in {"panels", "query", "theme", "trees"}
    /\ Init /\ QueryInit /\ ThemeInit /\ ServerViewsInit
    /\ active # "theme" => theme = CHOOSE t \in Themes : TRUE
    /\ active # "trees" => view = "servers"

ViewsNext ==
    /\ active' = active
    /\ \/ active = "panels" /\ Next /\ UNCHANGED <<queryVars, themeVars, viewVars>>
       \/ active = "query" /\ QueryNext /\ UNCHANGED <<vars, themeVars, viewVars>>
       \/ active = "theme" /\ ThemeNext /\ UNCHANGED <<vars, queryVars, viewVars>>
       \/ active = "trees" /\ ServerViewsNext /\ UNCHANGED <<vars, queryVars, themeVars>>

ViewsSpec == ViewsInit /\ [][ViewsNext]_<<active, vars, queryVars, themeVars, viewVars>>

Symmetric == Permutations(PanelIds) \cup Permutations(Handlers) \cup Permutations(Variables)
Lists == {<<v>> : v \in Variables} \cup SetToSeqs(Variables)

=============================================================================
