SPECIFICATION SourcesSpec
CONSTANTS
    Files <- MCFiles
    Volatile <- MCVolatile
    Segments <- MCSegments
    ControllerPrefixes = {"b"}
    PyFile <- MCPyFile
    InitFile = "__init__.py"
    RootName = "c"
    Offered <- MCOffered
    ToolLists <- MCToolLists
    Requests = {r1, r2}
    NoUri = NoUri
    Python = {s1, s2}
    Groovy = {g}
    Runs = {q1, q2}
    ImportPrefixes = {p}
    Codes <- Plain
    Connected <- Pairs
    MaxVersion = 1
    None = None
INVARIANTS
    ServersAreAnswered
    RunsHaveTheirContext
    GroovyIsFresh
    RunningIsNotStuck
PROPERTIES
    SourcesAreMarked
    ListenersAreTold
    OnlyCommandsTakeSources
    RunsEnd
CHECK_DEADLOCK FALSE
