SPECIFICATION ViewsSpec
CONSTANTS
    Variables = {v, w}
    OpenLists <- Lists
    Handlers = {h1, h2}
    PanelIds = {p1, p2}
    None = None
    Creations = {c1, c2, c3}
    MaxVersion = 2
    NoCreation = NoCreation
    Themes = {dark, light}
    MaxRequests = 3
    MaxInFlight = 3
    NoTheme = NoTheme
    Cores = {c}
    Manageable = {c}
    Enterprise = e
    Workers = {k}
    Documents = {d}
    MaxCount = 1
    Exported = {x}
    NoConn = NoConn
INVARIANTS
    VisibleIsCurrent
    WaitingIsVisible
    ThemeIsApplied
    ViewsAreCurrent
CHECK_DEADLOCK FALSE
SYMMETRY Symmetric
