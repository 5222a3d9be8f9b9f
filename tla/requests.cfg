SPECIFICATION RequestsSpec
CONSTANTS
    Servers = {s1, s2}
    Callers = {s1, s2, g1, g2, storage}
    Null = Null
    Accepted = accepted
    Rejected = rejected
    Managed = {s2}
    Manager = storage
    Users = {u, v}
    Generations = {g1, g2}
    Clearer = storage
    SamlServers = {t1, t2}
    StateIds = {i1, i2, i3}
    NoState = NoState
    Creations = {c1}
    MaxVersion = 3
    NoQuery = NoQuery
    core = core
    worker = worker
    other = other
    enterprise = enterprise
    doc = doc
    script = script
    python = python
    groovy = groovy
    Connections = {core, worker, other}
    Enterprise = {enterprise}
    ServerOf <- ServersOf
    ConsoleType <- Consoles
    Documents = {doc, script}
    LanguageOf <- Languages
    Runs = {r1, r2}
    None = None
    MaxLines = 3
    OtherLines = 4
    NoLine = NoLine
    Ports = {p1, p2}
    NoPort = NoPort
    MaxServers = 2
    Updates = {u1, u2}
    Python = {py1}
    Groovy = {gr1, gr2}
    Packages = {p, q}
    Subpackages = {s}
    Folders = {f1}
    Nothing = Nothing
    Calls = {pager, reader}
    Pager = pager
    MaxRows = 4
    Limits = {1, 2, 3}
INVARIANTS
    SecretsAreKept
    StoredSecretsWork
    LoginsWereConfirmed
    KnownQueriesAreHandled
    RunsWhereAsked
    OwnErrorsAreFlagged
    OwnErrorIsAnswered
    PagesCoverTable
    DefinitionsFollow
    DisabledIsRemoved
CONSTRAINT CallsDoNotOverlap
SYMMETRY Symmetric
CHECK_DEADLOCK FALSE
