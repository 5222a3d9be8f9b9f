SPECIFICATION FairSpec
CONSTANTS
    Servers = {s1}
    Conns = {c1, c2}
    Editors = {e1, e2}
    Markdown = {}
    None = None
    RemoveWhilePending = FALSE
INVARIANT BoundToHeldConnection
