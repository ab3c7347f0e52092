CONSTANTS
    Commands = {"serve", "build"}
    MaxSessions = 1
    Yield = 1
    StopGrace = 1
    MaxChunks <- MaxChunksDef
    Leasers = {"ca"}
    BhaiProcs = {"pa", "pb"}
    ParentOf <- ParentOfDef
    Pids = {1, 2}
    MaxRuns = 4
    Launched = {"gh"}
    Deferred = {"db"}
    Repo = {"gh"}
    McpCallers = {"agent"}
    ViewOf <- ViewOfDef
    Reloads = {"r1", "r2"}
    MaxConns = 3
    MaxEdits = 1
    Budgets <- BudgetsDef
    FeedMax = 2
    InboxMax = 1
    Long = {2}
    Clients = {"c1", "c2", "c3"}
    Rules <- RulesDef
    Secrets <- SecretsDef
    EgressAsks <- AsksDef
    MaxReads = 2
    MaxWords = 4
    MaxEntries = 3
    MaxLost = 2
    Names = {"x", "y", "dz"}
    DirOf <- DirOfDef
    Disks <- DisksDef
    Patches <- PatchesDef
    MaxFaults = 2
    MaxOthers = 1
    Callers = {"agent", "child", "cli"}
    Home <- HomeDef
    Rotations = {TRUE}
    MaxIssued = 3
SPECIFICATION StoresSpec
INVARIANTS CommandsKept TreesKept ServersApart ScreenKept EgressKept PatchKept LoginStays
PROPERTIES AuthorizationKept
CHECK_DEADLOCK FALSE
