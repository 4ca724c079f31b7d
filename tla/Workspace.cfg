SPECIFICATION WorkspaceSpec
CONSTANTS
    Agents = {main}
    MaxCalls = 3
    MaxWrites = 2
    MaxFileRuns = 2
    MaxCmds = 2
    MaxBackgroundTasks = 1
    McpCalls = {m1, m2}
    MaxPings = 1
    MaxNoise = 1
    Engines = {e1, e2}
    ProjServers = {p}
    MaxConfig = 2
    Requests = {r1, r2, r3}
    MaxRuns = 2
    MaxBindings = 1
INVARIANTS
    StaleEditRefused
    ShellOutcomeStands
    ApprovedAsShown
    RequestsKept
PROPERTIES
    McpCallsReturn
CHECK_DEADLOCK FALSE
