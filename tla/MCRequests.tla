----------------------------- MODULE MCRequests ------------------------------
(* What users and agents ask for, and what it needs: logins to Core servers, *)
(* to Enterprise servers and through the browser; the queries of workers;    *)
(* runs of code and their connections, the diagnostics of a document, what   *)
(* agents are told of a failed run, the tools that read tables, and the MCP  *)
(* server.  In a behaviour one of them is active and the others stay as they *)
(* are; logins to Core and Enterprise servers share SecretService.          *)
EXTENDS CoreLogins, EnterpriseLogins, SamlLogins, WorkerQueries,
        RunTargets, RunDiagnostics, ImportHints, TableTools, McpLifecycle

CONSTANTS core, worker, other, enterprise, doc, script, python, groovy

VARIABLE part

allLoginVars == <<secretVars, coreLoginVars, enterpriseVars, samlVars, workerVars>>
allToolVars == <<targetVars, diagnosticsVars, hintVars, toolVars, mcpVars>>

RequestsInit ==
    /\ part \in {"core", "enterprise", "saml", "workers", "targets", "diagnostics", "hints", "tables", "mcp"}
    /\ CoreLoginsInit /\ EnterpriseLoginsInit /\ SamlInit /\ WorkersInit
    /\ TargetsInit /\ DiagnosticsInit /\ HintsInit /\ ToolsTablesInit /\ McpInit
    /\ part # "workers" => isUISupported
    /\ part # "diagnostics" => lines = <<"code">>
    /\ part # "hints" => folder = [f \in Folders |-> CHOOSE x \in FolderContents : TRUE] /\ plugin
    /\ part # "tables" => up /\ size = 0
    /\ part # "mcp" => ~windsurf /\ settings = [mcp |-> FALSE, docs |-> FALSE, auto |-> FALSE] /\ storedPort = NoPort

Logins ==
    \/ part = "core" /\ CoreLoginsNext /\ UNCHANGED <<enterpriseVars, samlVars, workerVars>>
    \/ part = "enterprise" /\ EnterpriseLoginsNext /\ UNCHANGED <<coreLoginVars, samlVars, workerVars>>
    \/ part = "saml" /\ SamlNext /\ UNCHANGED <<secretVars, coreLoginVars, enterpriseVars, workerVars>>
    \/ part = "workers" /\ WorkersNext /\ UNCHANGED <<secretVars, coreLoginVars, enterpriseVars, samlVars>>

Tools ==
    \/ part = "targets" /\ TargetsNext /\ UNCHANGED <<diagnosticsVars, hintVars, toolVars, mcpVars>>
    \/ part = "diagnostics" /\ DiagnosticsNext /\ UNCHANGED <<targetVars, hintVars, toolVars, mcpVars>>
    \/ part = "hints" /\ HintsNext /\ UNCHANGED <<targetVars, diagnosticsVars, toolVars, mcpVars>>
    \/ part = "tables" /\ TableToolsNext /\ UNCHANGED <<targetVars, diagnosticsVars, hintVars, mcpVars>>
    \/ part = "mcp" /\ McpNext /\ UNCHANGED <<targetVars, diagnosticsVars, hintVars, toolVars>>

RequestsNext == part' = part /\ ((Logins /\ UNCHANGED allToolVars) \/ (Tools /\ UNCHANGED allLoginVars))

RequestsSpec == RequestsInit /\ [][RequestsNext]_<<part, allLoginVars, allToolVars>>

\* A Core server and an Enterprise server with a worker for each language.
ServersOf == [c \in Connections |-> IF c = core THEN core ELSE enterprise]
Consoles == [c \in Connections |-> IF c = other THEN groovy ELSE python]
Languages == [d \in Documents |-> IF d = script THEN groovy ELSE python]
Symmetric == Permutations(Runs) \cup Permutations(Ports)

\* Nothing is said of what comes after calls to the secret storage have overlapped.
CallsDoNotOverlap == ~overlapped

\* No login keeps a secret that does not work: a key pair that is stored is known to its
\* server, and a key that was rejected is not kept (see StoredKeysWork and
\* RejectedPskIsForgotten).
StoredSecretsWork ==
    /\ part = "enterprise" => StoredKeysWork
    /\ part = "core" => RejectedPskIsForgotten

=============================================================================
