SPECIFICATION FairSpec
CONSTANTS
    Servers = {s1}
    Conns = {c1, c2}
    Editors = {e1, e2}
    Markdown = {e2}
    None = None
    RemoveWhilePending = FALSE
PROPERTY RequestsSettle
