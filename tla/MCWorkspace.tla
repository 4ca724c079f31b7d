---------------------------- MODULE MCWorkspace ----------------------------
(***************************************************************************)
(* Model checking what an agent's tools share: files, shell commands, an   *)
(* MCP server, the trust in a project's servers, and the permission        *)
(* requests of background children.  A scene runs one of them; the         *)
(* variables of the others keep the value of an untouched system.          *)
(***************************************************************************)
EXTENDS FileTools, ShellTasks, McpClient, McpTrust, PermissionQueue

VARIABLE opt        \* the scene

workspaceVars == <<opt, fileVars, shellVars, mcpVars, trustVars, permVars>>

(* Two scenes for the two transports; in the other scenes it is fixed.     *)
WorkspaceInit ==
    /\ opt \in {"files", "shell", "mcp", "trust", "permissions"}
    /\ FileInit /\ ShellInit /\ PermInit
    /\ McpInit(IF opt = "mcp" THEN {"stdio", "http"} ELSE {"stdio"})
    /\ TrustInit
    /\ opt # "trust" => conf = Nothing /\ trustFile = Nothing

WorkspaceNext ==
    /\ \/ opt = "files" /\ FileNext /\ UNCHANGED <<shellVars, mcpVars, trustVars, permVars>>
       \/ opt = "shell" /\ ShellNext /\ UNCHANGED <<fileVars, mcpVars, trustVars, permVars>>
       \/ opt = "mcp" /\ McpNext /\ UNCHANGED <<fileVars, shellVars, trustVars, permVars>>
       \/ opt = "trust" /\ TrustNext /\ UNCHANGED <<fileVars, shellVars, mcpVars, permVars>>
       \/ opt = "permissions" /\ PermNext /\ UNCHANGED <<fileVars, shellVars, mcpVars, trustVars>>
    /\ UNCHANGED opt

(* The callers of the MCP server do what they can when they have their     *)
(* turn, and their timers run out, in the scene that has them.             *)
CallersGoOn ==
    \A r \in McpCalls \cup {"reg", "ping"} :
        /\ WF_mcpVars(opt = "mcp" /\ CallerStep(r))
        /\ WF_mcpVars(opt = "mcp" /\ Expire(r))

WorkspaceSpec == WorkspaceInit /\ [][WorkspaceNext]_workspaceVars /\ CallersGoOn
=============================================================================
