SPECIFICATION FairSpec
CONSTANTS
    Ports = {1, 2}
    Terms = {t1, t2}
    Loop = loop
    None = None
    MaxLoads = 1
PROPERTIES
    ReconnectSparesServers
