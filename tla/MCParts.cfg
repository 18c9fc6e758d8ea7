SPECIFICATION Spec
CONSTANTS
    None = None
    Torn = Torn
    ExecThread = {"t1", "t2"}
    Turn = {"t1"}
    Cmd = {"x"}
    Dangerous = {}
    Silent = {}
    MaxRequests = 2
    MaxSets = 2
    Poller = {"t1", "t2"}
    MaxSessions = 2
    Req = {"r", "s"}
    SessionKey = {"k"}
    RouteKind = {"request", "channel", "stream", "chat", "chatstream"}
    MaxEvents = 1
    BrowserCaller = {"a", "b"}
    SessionId = {"default"}
    MaxObjects = 2
    MaxBrowserCalls = 1
    Channel = {"c", "d"}
    MaxLaunches = 4
    RpcCaller = {"a", "b"}
    MaxRpcCalls = 3
    MaxOpens = 2
    TypedMessage = {"m", "n"}
    MaxRefreshes = 3
    SessionThread = {"a", "b"}
    SendPolicy = {"p", "q"}
    MaxSubs = 3
    MaxEmitted = 3
    DeviceClient = {"a", "b"}
    PairedDevice = {"d", "e"}
    DeviceRole = {"op", "node"}
    MaxTokens = 3
    MaxPairings = 2
    PluginId = {1, 2}
    StrayId = {3}
    PluginTool = {"t", "u"}
    SidecarTools <- Offers
    BundledDefault = {2}
    PluginConfigs <- SomeConfigs
    PluginDisks <- SomeDisks
    MaxReloads = 1
    ChainClient = {"c"}
    BuiltinTool <- Commands
    ToolGroup <- Groups
    McpTools <- ServerTools
    AllowLists <- Allowances
    DenyLists <- Denials
    ErrorPolicy = {"stop", "continue", "retry"}
    MaxSteps = 2
    MaxRetries = 2
    MaxToolReloads = 1
    RouteConn = {"a", "b"}
    RoutePriority = {"high"}
    MaxMessages = 3
    ShortRequest = {"r", "s"}
    MaxTimeoutCount = 1
    DegradedCheckCount = 2
    MaxChecks = 6
    HookCaller = {"a", "b"}
    Hook <- Modes
    HookMode <- ModeOf
    HookPlugin = {"p"}
    HookPriority = {1, 2}
    MaxRegs = 2
    MaxFires = 2
    CronJob = {"i", "j"}
    Minutes = 3
    Hours = 2
    CronSchedules <- Schedules
    SearchLimit = 6
    MaxTime = 8
    LimitedConn = {"c"}
    RateConfigs <- RateLimits
    TicksPerSecond = 2
    MaxTicks = 9
CHECK_DEADLOCK FALSE
INVARIANTS
    
    ToolCallsPaired
    
    
    
    
    
    FireCallsEachOnce
    
    
    StreamComplete
    

    
