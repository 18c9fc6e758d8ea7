------------------------------- MODULE Parts -------------------------------
(***************************************************************************)
(* The components that share no state with each other and that PartsProofs *)
(* is about, put together: each behaviour is one of `scope', which never   *)
(* changes, and the variables of the components that do not run are None.  *)
(* The properties below speak of whichever component runs.                 *)
(***************************************************************************)
EXTENDS Integers, Sequences, FiniteSets

CONSTANTS
  None, Torn,
  ExecThread, Turn, Cmd, Dangerous, Silent, MaxRequests, MaxSets,  \* of Approval
  Poller, MaxSessions,                                             \* of Processes
  Req, SessionKey, RouteKind, MaxEvents,                           \* of HttpApi
  BrowserCaller, SessionId, MaxObjects, MaxBrowserCalls,           \* of Browser
  Channel, MaxLaunches,                                            \* of Adapters
  RpcCaller, MaxRpcCalls, MaxOpens,                                \* of Client
  TypedMessage, MaxRefreshes,                                      \* of Typing
  SessionThread, SendPolicy, MaxSubs, MaxEmitted,                  \* of Transcripts
  DeviceClient, PairedDevice, DeviceRole, MaxTokens, MaxPairings,  \* of Devices
  PluginId, StrayId, PluginTool, SidecarTools, BundledDefault,     \* of Plugins
  PluginConfigs, PluginDisks, MaxReloads,
  ChainClient, BuiltinTool, ToolGroup, McpTools, AllowLists,       \* of ToolChain
  DenyLists, ErrorPolicy, MaxSteps, MaxRetries, MaxToolReloads,
  RouteConn, RoutePriority, MaxMessages,                           \* of Routes
  ShortRequest, MaxTimeoutCount, DegradedCheckCount, MaxChecks,    \* of Health
  HookCaller, Hook, HookMode, HookPlugin, HookPriority,            \* of Hooks
  MaxRegs, MaxFires,
  CronJob, Minutes, Hours, CronSchedules, SearchLimit, MaxTime,    \* of Cron
  LimitedConn, RateConfigs, TicksPerSecond, MaxTicks               \* of RateLimit

\* What the proofs rest on.
ASSUME PartBounds ==
  /\ MaxRequests \in Nat /\ MaxSessions \in Nat /\ MaxObjects \in Nat /\ MaxBrowserCalls \in Nat
  /\ MaxRpcCalls \in Nat /\ MaxOpens \in Nat /\ MaxRefreshes \in Nat
  /\ MaxSubs \in Nat /\ MaxEmitted \in Nat /\ MaxTokens \in Nat /\ MaxPairings \in Nat
  /\ MaxSteps \in Nat /\ MaxRetries \in Nat /\ MaxMessages \in Nat /\ DegradedCheckCount \in Nat \ {0}
  /\ MaxRegs \in Nat /\ MaxFires \in Nat
  /\ Minutes \in Nat \ {0} /\ Hours \in Nat \ {0} /\ SearchLimit \in Nat
ASSUME CronBounds == SearchLimit >= Minutes * Hours
ASSUME RateBounds ==
  /\ TicksPerSecond \in Nat \ {0} /\ MaxTicks \in Nat
  /\ RateConfigs \subseteq [max : Nat \ {0}, window : Nat \ {0}, burst : Nat]
ASSUME PartNames ==
  /\ None \notin {"stream", "chatstream", "delivered", "failed"} /\ None \notin Nat
  /\ "default" \in SessionId /\ PluginId \cap StrayId = {}
  /\ IsFiniteSet(PluginId) /\ IsFiniteSet(StrayId) /\ HookPriority \subseteq Int /\ Hook # {}

VARIABLES
  scope,  \* the component that runs
  config, allowlist, pending, resolved, call, asked, sets, grants,
  table, started, future, exited, output, job, excused,
  server, req, transcript, usage, agent, pushed,
  sessions, object, who, cleaner, made, sent, answer,
  platform, running, adapters, proc, monitor, stop, late, launches,
  socket, connected, authenticated, hello_done, conn, caller, openCalls, done, tableLock,
  callLock, reader, requested, challenged, events, counter, opens,
  handler, isRunning, thread, notices,
  subscribers, policy, emitter, gone, subscriptions, emitted,
  requests, paired, found, owner, void, pairings,
  pluginConfig, disk, plugins, sidecar, told, began, phase, reply, reloads,
  tools, mcpTools, denyList, checker, reload, toolReloads, chain, worked,
  routes, session_messages, hello, toldStatus,
  awaited, serving, health, checks, probed, bad, good,
  hooks, fire, threads, stats, hookAnswer, regs, fires,
  schedule, next_run, now, loop, served,
  limits, windows, clock, refusal, passed

approvalVars == <<config, allowlist, pending, resolved, call, asked, sets, grants>>
processesVars == <<table, started, future, exited, output, job, excused>>
httpVars == <<server, req, transcript, usage, agent, pushed>>
browserVars == <<sessions, object, who, cleaner, made, sent, answer>>
adaptersVars == <<platform, running, adapters, proc, monitor, stop, late, launches>>
clientVars ==
  <<socket, connected, authenticated, hello_done, conn, caller, openCalls, done, tableLock,
    callLock, reader, requested, challenged, events, counter, opens>>
typingVars == <<handler, isRunning, thread, notices>>
transcriptsVars == <<subscribers, policy, emitter, gone, subscriptions, emitted>>
devicesVars == <<requests, paired, found, owner, void, pairings>>
pluginsVars == <<pluginConfig, disk, plugins, sidecar, told, began, phase, reply, reloads>>
chainVars == <<tools, mcpTools, denyList, checker, reload, toolReloads, chain, worked>>
routesVars == <<routes, session_messages, hello, toldStatus>>
healthVars == <<awaited, serving, health, checks, probed, bad, good>>
hooksVars == <<hooks, fire, threads, stats, hookAnswer, regs, fires>>
cronVars == <<schedule, next_run, now, loop, served>>
ratelimitVars == <<limits, windows, clock, refusal, passed>>
own ==
  <<approvalVars, processesVars, httpVars, browserVars, adaptersVars, clientVars, typingVars,
    transcriptsVars, devicesVars, pluginsVars, chainVars, routesVars, healthVars, hooksVars,
    cronVars, ratelimitVars>>
partsVars == <<scope, own>>

AP == INSTANCE Approval WITH Caller <- ExecThread
PR == INSTANCE Processes WITH Thread <- Poller
HA == INSTANCE HttpApi WITH Key <- SessionKey, Kind <- RouteKind
B == INSTANCE Browser WITH Caller <- BrowserCaller, Id <- SessionId, MaxCalls <- MaxBrowserCalls
AD == INSTANCE Adapters
CL == INSTANCE Client WITH
  Caller <- RpcCaller, MaxCalls <- MaxRpcCalls, pending <- openCalls, asked <- requested
TY == INSTANCE Typing WITH Message <- TypedMessage, sent <- notices
TR == INSTANCE Transcripts WITH
  Thread <- SessionThread, Policy <- SendPolicy, MaxEvents <- MaxEmitted, thread <- emitter,
  counter <- subscriptions, events <- emitted
DV == INSTANCE Devices WITH
  Client <- DeviceClient, Device <- PairedDevice, Role <- DeviceRole, MaxRequests <- MaxPairings,
  asked <- pairings
PL == INSTANCE Plugins WITH
  Id <- PluginId, Stray <- StrayId, Tool <- PluginTool, ToolsOf <- SidecarTools,
  Configs <- PluginConfigs, Disks <- PluginDisks, config <- pluginConfig, answer <- reply
TC == INSTANCE ToolChain WITH
  Client <- ChainClient, Builtin <- BuiltinTool, Group <- ToolGroup, McpTool <- McpTools,
  Allow <- AllowLists, Deny <- DenyLists, Policy <- ErrorPolicy, MaxReloads <- MaxToolReloads,
  reloads <- toolReloads
RT == INSTANCE Routes WITH Conn <- RouteConn, Priority <- RoutePriority, told <- toldStatus
HE == INSTANCE Health WITH
  Request <- ShortRequest, pending <- awaited, isRunning <- serving, status <- health,
  answer <- probed
H == INSTANCE Hooks WITH
  Caller <- HookCaller, Mode <- HookMode, Plugin <- HookPlugin, Priority <- HookPriority,
  answer <- hookAnswer
CR == INSTANCE Cron WITH Job <- CronJob, Schedules <- CronSchedules
RL == INSTANCE RateLimit WITH
  Conn <- LimitedConn, Limits <- RateConfigs, Second <- TicksPerSecond, MaxTime <- MaxTicks,
  now <- clock, answer <- refusal

-----------------------------------------------------------------------------

NoApproval ==
  /\ config = None /\ allowlist = None /\ pending = None /\ resolved = None /\ call = None
  /\ asked = None /\ sets = None /\ grants = None
NoProcesses ==
  /\ table = None /\ started = None /\ future = None /\ exited = None /\ output = None
  /\ job = None /\ excused = None
NoHttpApi ==
  /\ server = None /\ req = None /\ transcript = None /\ usage = None /\ agent = None
  /\ pushed = None
NoBrowser ==
  /\ sessions = None /\ object = None /\ who = None /\ cleaner = None /\ made = None
  /\ sent = None /\ answer = None
NoAdapters ==
  /\ platform = None /\ running = None /\ adapters = None /\ proc = None /\ monitor = None
  /\ stop = None /\ late = None /\ launches = None
NoClient ==
  /\ socket = None /\ connected = None /\ authenticated = None /\ hello_done = None
  /\ conn = None /\ caller = None /\ openCalls = None /\ done = None /\ tableLock = None
  /\ callLock = None /\ reader = None /\ requested = None /\ challenged = None
  /\ events = None /\ counter = None /\ opens = None
NoTyping == handler = None /\ isRunning = None /\ thread = None /\ notices = None
NoTranscripts ==
  /\ subscribers = None /\ policy = None /\ emitter = None /\ gone = None
  /\ subscriptions = None /\ emitted = None
NoDevices ==
  /\ requests = None /\ paired = None /\ found = None /\ owner = None /\ void = None
  /\ pairings = None
NoPlugins ==
  /\ pluginConfig = None /\ disk = None /\ plugins = None /\ sidecar = None /\ told = None
  /\ began = None /\ phase = None /\ reply = None /\ reloads = None
NoToolChain ==
  /\ tools = None /\ mcpTools = None /\ denyList = None /\ checker = None /\ reload = None
  /\ toolReloads = None /\ chain = None /\ worked = None
NoRoutes == routes = None /\ session_messages = None /\ hello = None /\ toldStatus = None
NoHealth ==
  /\ awaited = None /\ serving = None /\ health = None /\ checks = None /\ probed = None
  /\ bad = None /\ good = None
NoHooks ==
  /\ hooks = None /\ fire = None /\ threads = None /\ stats = None /\ hookAnswer = None
  /\ regs = None /\ fires = None
NoCron == schedule = None /\ next_run = None /\ now = None /\ loop = None /\ served = None
NoRateLimit ==
  /\ limits = None /\ windows = None /\ clock = None /\ refusal = None /\ passed = None

PartsInit ==
  /\ IF scope = "approval" THEN AP!Init ELSE NoApproval
  /\ IF scope = "processes" THEN PR!Init ELSE NoProcesses
  /\ IF scope = "http" THEN HA!Init ELSE NoHttpApi
  /\ IF scope = "browser" THEN B!Init ELSE NoBrowser
  /\ IF scope = "adapters" THEN AD!Init ELSE NoAdapters
  /\ IF scope = "client" THEN CL!Init ELSE NoClient
  /\ IF scope = "typing" THEN TY!Init ELSE NoTyping
  /\ IF scope = "transcripts" THEN TR!Init ELSE NoTranscripts
  /\ IF scope = "devices" THEN DV!Init ELSE NoDevices
  /\ IF scope = "plugins" THEN PL!Init ELSE NoPlugins
  /\ IF scope = "chain" THEN TC!Init ELSE NoToolChain
  /\ IF scope = "routes" THEN RT!Init ELSE NoRoutes
  /\ IF scope = "health" THEN HE!Init ELSE NoHealth
  /\ IF scope = "hooks" THEN H!Init ELSE NoHooks
  /\ IF scope = "cron" THEN CR!Init ELSE NoCron
  /\ IF scope = "ratelimit" THEN RL!Init ELSE NoRateLimit

ApprovalStep ==
  /\ scope = "approval" /\ AP!Next
  /\ UNCHANGED <<scope, processesVars, httpVars, browserVars, adaptersVars, clientVars,
                 typingVars, transcriptsVars, devicesVars, pluginsVars, chainVars, routesVars,
                 healthVars, hooksVars, cronVars, ratelimitVars>>
ProcessesStep ==
  /\ scope = "processes" /\ PR!Next
  /\ UNCHANGED <<scope, approvalVars, httpVars, browserVars, adaptersVars, clientVars,
                 typingVars, transcriptsVars, devicesVars, pluginsVars, chainVars, routesVars,
                 healthVars, hooksVars, cronVars, ratelimitVars>>
HttpApiStep ==
  /\ scope = "http" /\ HA!Next
  /\ UNCHANGED <<scope, approvalVars, processesVars, browserVars, adaptersVars, clientVars,
                 typingVars, transcriptsVars, devicesVars, pluginsVars, chainVars, routesVars,
                 healthVars, hooksVars, cronVars, ratelimitVars>>
BrowserStep ==
  /\ scope = "browser" /\ B!Next
  /\ UNCHANGED <<scope, approvalVars, processesVars, httpVars, adaptersVars, clientVars,
                 typingVars, transcriptsVars, devicesVars, pluginsVars, chainVars, routesVars,
                 healthVars, hooksVars, cronVars, ratelimitVars>>
AdaptersStep ==
  /\ scope = "adapters" /\ AD!Next
  /\ UNCHANGED <<scope, approvalVars, processesVars, httpVars, browserVars, clientVars,
                 typingVars, transcriptsVars, devicesVars, pluginsVars, chainVars, routesVars,
                 healthVars, hooksVars, cronVars, ratelimitVars>>
ClientStep ==
  /\ scope = "client" /\ CL!Next
  /\ UNCHANGED <<scope, approvalVars, processesVars, httpVars, browserVars, adaptersVars,
                 typingVars, transcriptsVars, devicesVars, pluginsVars, chainVars, routesVars,
                 healthVars, hooksVars, cronVars, ratelimitVars>>
TypingStep ==
  /\ scope = "typing" /\ TY!Next
  /\ UNCHANGED <<scope, approvalVars, processesVars, httpVars, browserVars, adaptersVars,
                 clientVars, transcriptsVars, devicesVars, pluginsVars, chainVars, routesVars,
                 healthVars, hooksVars, cronVars, ratelimitVars>>
TranscriptsStep ==
  /\ scope = "transcripts" /\ TR!Next
  /\ UNCHANGED <<scope, approvalVars, processesVars, httpVars, browserVars, adaptersVars,
                 clientVars, typingVars, devicesVars, pluginsVars, chainVars, routesVars,
                 healthVars, hooksVars, cronVars, ratelimitVars>>
DevicesStep ==
  /\ scope = "devices" /\ DV!Next
  /\ UNCHANGED <<scope, approvalVars, processesVars, httpVars, browserVars, adaptersVars,
                 clientVars, typingVars, transcriptsVars, pluginsVars, chainVars, routesVars,
                 healthVars, hooksVars, cronVars, ratelimitVars>>
PluginsStep ==
  /\ scope = "plugins" /\ PL!Next
  /\ UNCHANGED <<scope, approvalVars, processesVars, httpVars, browserVars, adaptersVars,
                 clientVars, typingVars, transcriptsVars, devicesVars, chainVars, routesVars,
                 healthVars, hooksVars, cronVars, ratelimitVars>>
ToolChainStep ==
  /\ scope = "chain" /\ TC!Next
  /\ UNCHANGED <<scope, approvalVars, processesVars, httpVars, browserVars, adaptersVars,
                 clientVars, typingVars, transcriptsVars, devicesVars, pluginsVars, routesVars,
                 healthVars, hooksVars, cronVars, ratelimitVars>>
RoutesStep ==
  /\ scope = "routes" /\ RT!Next
  /\ UNCHANGED <<scope, approvalVars, processesVars, httpVars, browserVars, adaptersVars,
                 clientVars, typingVars, transcriptsVars, devicesVars, pluginsVars, chainVars,
                 healthVars, hooksVars, cronVars, ratelimitVars>>
HealthStep ==
  /\ scope = "health" /\ HE!Next
  /\ UNCHANGED <<scope, approvalVars, processesVars, httpVars, browserVars, adaptersVars,
                 clientVars, typingVars, transcriptsVars, devicesVars, pluginsVars, chainVars,
                 routesVars, hooksVars, cronVars, ratelimitVars>>
HooksStep ==
  /\ scope = "hooks" /\ H!Next
  /\ UNCHANGED <<scope, approvalVars, processesVars, httpVars, browserVars, adaptersVars,
                 clientVars, typingVars, transcriptsVars, devicesVars, pluginsVars, chainVars,
                 routesVars, healthVars, cronVars, ratelimitVars>>
CronStep ==
  /\ scope = "cron" /\ CR!Next
  /\ UNCHANGED <<scope, approvalVars, processesVars, httpVars, browserVars, adaptersVars,
                 clientVars, typingVars, transcriptsVars, devicesVars, pluginsVars, chainVars,
                 routesVars, healthVars, hooksVars, ratelimitVars>>
RateLimitStep ==
  /\ scope = "ratelimit" /\ RL!Next
  /\ UNCHANGED <<scope, approvalVars, processesVars, httpVars, browserVars, adaptersVars,
                 clientVars, typingVars, transcriptsVars, devicesVars, pluginsVars, chainVars,
                 routesVars, healthVars, hooksVars, cronVars>>

PartsNext ==
  \/ ApprovalStep \/ ProcessesStep \/ HttpApiStep \/ BrowserStep \/ AdaptersStep
  \/ ClientStep \/ TypingStep \/ TranscriptsStep \/ DevicesStep \/ PluginsStep
  \/ ToolChainStep \/ RoutesStep \/ HealthStep \/ HooksStep \/ CronStep
  \/ RateLimitStep

PartsSpec == PartsInit /\ [][PartsNext]_partsVars

-----------------------------------------------------------------------------
(* Properties.                                                             *)

\* A command that runs was allowed by a configuration in force while its call
\* lasted, by the operator, or by the policy for an operator who does not answer.
\* Whoever decides first, the history has one entry for a request.
\* (security/exec_approval.cpp, tools/tool_registry.cpp.)
RunsAreAllowed == scope = "approval" => AP!RunsAreAllowed /\ AP!RecordedOnce

\* A background process that is reported as ended has its output stored,
\* unless it was removed or its output could not be had.
\* (tools/tool_registry.cpp, process_tool.)
EndedHasOutput == scope = "processes" => PR!EndedHasOutput

\* When the response of a stream ends, the client has got every event that was
\* put in its queue, in order, and the last says how the turn ended.
\* (web/api_routes.cpp, the StreamState of the streaming routes.)
StreamComplete == scope = "http" => HA!StreamComplete

\* Nothing outlives who was to end it: a browser process belongs to a session,
\* to a call that works on it or to the cleanup that closes it; no adapter is
\* left after Stop but one whose restart was under way, on win32; no thread sends
\* the typing notice of a message that has been handled; and the
\* tables of open calls, the gateway client's and a browser session's, hold
\* only calls that somebody waits for.
\* (tools/browser_tool.cpp, channels/adapter_manager.cpp,
\* channels/telegram_typing_manager.cpp, gateway/gateway_client.cpp.)
NothingLeftBehind ==
  /\ scope = "browser" => B!NoBrowserLeftBehind /\ B!AnswersAwaited
  /\ scope = "adapters" => AD!StopLeavesNone
  /\ scope = "client" => CL!OnlyOpenCalls
  /\ scope = "typing" => TY!QuietWhenDone

\* What was taken away stays away: a denied plugin is not enabled and not told
\* to the sidecar, a token that was revoked or replaced is in force for no
\* device, and no callback runs after the Unsubscribe of its subscription has
\* returned.
\* (plugins/plugin_registry.cpp, gateway/device_pairing.cpp,
\* session/session_manager.cpp.)
TakenAwayStaysAway ==
  /\ scope = "plugins" => PL!DeniedStayOff
  /\ scope = "devices" => DV!VoidStaysVoid
  /\ scope = "transcripts" => TR!UnsubscribedIsQuiet

\* What is reported is what happened: a chain reports as done the steps whose
\* tools have worked, each once, and the plugin registry reports a conflict
\* over exactly the tools whose names it resolves to one plugin's, a route has the
\* status that its sender was told, and a probe of the gateway's health tells what
\* the probes have found.
\* (tools/tool_chain.cpp, Execute; plugins/plugin_registry.cpp, DetectConflicts;
\* gateway/route_manager.cpp, RecordDelivery; gateway/gateway_server.cpp,
\* ProbeHealth.)
ReportsAreTrue ==
  /\ scope = "chain" => TC!ReportsWhatRan
  /\ scope = "plugins" => PL!ConflictsAreNamed
  /\ scope = "routes" => RT!RoutesAgree
  /\ scope = "health" => HE!ReportFitsProbes

\* Firing a hook calls each handler of the list it took once, in the order of
\* their priorities when they run in sequence, and none that came later.
\* (plugins/hook_manager.cpp, Fire.)
FireCallsEachOnce == scope = "hooks" => H!FireCallsEachOnce

\* A cron job runs once for each minute it is run for, in order, and each is a
\* minute that its schedule names, unless it names none.
\* (core/cron_scheduler.cpp, scheduler_loop and NextAfter.)
RunsWhenNamed == scope = "cron" => CR!RunsWhenNamed

\* Limits hold and are told truly: no window and no second has more requests of
\* a connection than its limit allows, and a caller that waits as long as it was
\* told finds room.
\* (security/rate_limiter.cpp, Allow and RetryAfter.)
LimitsHold == scope = "ratelimit" => RL!NeverOverLimit /\ RL!WaitSuffices
=============================================================================
