SPECIFICATION Spec
CONSTANTS
    Servers = {s1, s2}
    Conns = {c1, c2, c3}
    Editors = {e1, e2}
    Markdown = {e2}
    None = None
    RemoveWhilePending = FALSE
SYMMETRY Symmetry
INVARIANTS
    OnePerServer
    CountTellsConnected
    NothingUntracked
    ClientsFollowConnections
PROPERTIES
    EndedIsUnbound
    ImplementsSlots
