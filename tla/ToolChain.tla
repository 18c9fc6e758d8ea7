----------------------------- MODULE ToolChain -----------------------------
(***************************************************************************)
(* The registry of tools (tools/tool_registry.cpp), the permissions it     *)
(* checks (security/tool_permissions.cpp), the tools of MCP servers        *)
(* (mcp/mcp_tool_manager.cpp, mcp/mcp_client.cpp) and chains of tools      *)
(* (tools/tool_chain.cpp), which clients run with chain.execute while a    *)
(* reload of the configuration changes permissions and tools.              *)
(*                                                                         *)
(* What a tool does is left out: its handler returns or throws.  The name  *)
(* of a tool is a sequence: of one name, or of an MCP server and the name  *)
(* there.  An entry of the configuration is <<"*">>, <<"group", g>>,       *)
(* <<"tool", t>>, <<"mcp", s, t>> (t may be "*") or <<"name", t>>, a name  *)
(* without one of those prefixes.                                          *)
(***************************************************************************)
EXTENDS Naturals, Sequences, FiniteSets

CONSTANTS
    Client,         \* threads that execute chains
    Builtin,        \* tools registered when the gateway starts
    Group,          \* the tools of each group, a function
    McpTool,        \* pairs <<server, tool>> that servers may offer
    Allow, Deny,    \* sets of lists of entries a configuration may have
    Policy,         \* error policies
    MaxSteps, MaxRetries,
    MaxReloads      \* bound: reloads of the configuration

Tool == Builtin \cup McpTool

VARIABLES
    tools,      \* tools_ (and the schemas, which have the same names)
    mcpTools,   \* tool_to_server_ and tool_meta_ of the MCPToolManager
    denyList,   \* ghost: the deny list the permission checker was built from
    checker,    \* permission_checker_
    reload,     \* how far a reload of the configuration has come
    reloads,
    chain,      \* per client: the chain it executes
    worked      \* ghost, per client and step: how often its handler returned

vars == <<tools, mcpTools, denyList, checker, reload, reloads, chain, worked>>

NoChain == [at |-> "idle", steps |-> <<>>, policy |-> "none", retries |-> 0,
            attempts |-> 0, results |-> <<>>]

-----------------------------------------------------------------------------
(* ToolPermissionChecker *)

Expand(entries) ==
    UNION {Group[e[2]] : e \in {f \in entries : f[1] = "group" /\ f[2] \in DOMAIN Group}}
      \cup {e[2] : e \in {f \in entries : f[1] = "tool"}}

Specs(entries) == {<<e[2], e[3]>> : e \in {f \in entries : f[1] = "mcp"}}

PermissionChecker(allow, deny) ==
    [allowAll |-> allow = {} \/ <<"*">> \in allow \/ <<"group", "all">> \in allow,
     mcpAll |-> allow = {} \/ <<"*">> \in allow \/ <<"mcp", "*", "*">> \in allow,
     allowed |-> Expand(allow), mcpAllowed |-> Specs(allow),
     denied |-> Expand(deny), mcpDenied |-> Specs(deny)]

IsAllowed(p, t) == t \notin p.denied /\ (p.allowAll \/ t \in p.allowed)

IsMcpToolAllowed(p, s, t) ==
    /\ {<<s, t>>, <<s, "*">>} \cap p.mcpDenied = {}
    /\ p.mcpAll \/ {<<s, t>>, <<s, "*">>} \cap p.mcpAllowed # {}

\* ToolRegistry::check_permission
check_permission(t) ==
    IF t \in McpTool THEN IsMcpToolAllowed(checker, t[1], t[2]) ELSE IsAllowed(checker, t)

-----------------------------------------------------------------------------
(* The gateway registers its tools before it serves; servers that do not      *)
(* answer contribute none.                                                    *)

Init ==
    /\ mcpTools \in SUBSET McpTool
    /\ tools = Builtin \cup mcpTools
    /\ denyList \in Deny
    /\ \E a \in Allow : checker = PermissionChecker(a, denyList)
    /\ reload = "none"
    /\ reloads = 0
    /\ chain = [c \in Client |-> NoChain]
    /\ worked = [c \in Client |-> <<>>]

\* A reload replaces the checker, then asks the servers for their tools, then
\* registers them.  A tool that is no longer offered stays.
ReloadPermissions(a, d) ==
    /\ reload = "none"
    /\ reloads < MaxReloads
    /\ reloads' = reloads + 1
    /\ denyList' = d
    /\ checker' = PermissionChecker(a, d)
    /\ reload' = "discover"
    /\ UNCHANGED <<tools, mcpTools, chain, worked>>

DiscoverTools(found) ==
    /\ reload = "discover"
    /\ mcpTools' = mcpTools \cup found
    /\ reload' = "register"
    /\ UNCHANGED <<tools, denyList, checker, reloads, chain, worked>>

RegisterInto ==
    /\ reload = "register"
    /\ tools' = tools \cup mcpTools
    /\ reload' = "none"
    /\ UNCHANGED <<mcpTools, denyList, checker, reloads, chain, worked>>

-----------------------------------------------------------------------------
(* ToolChainExecutor::Execute, with ToolRegistry::ExecuteTool for each attempt *)

\* ParseChain takes any names and any number of retries.
ExecuteChain(c, steps, p, r) ==
    /\ chain[c].at = "idle"
    /\ chain' = [chain EXCEPT ![c] =
                   [NoChain EXCEPT !.at = "step", !.steps = steps, !.policy = p, !.retries = r]]
    /\ worked' = [worked EXCEPT ![c] = [i \in DOMAIN steps |-> 0]]
    /\ UNCHANGED <<tools, mcpTools, denyList, checker, reload, reloads>>

Current(c) == Len(chain[c].results) + 1
MaxAttempts(c) == IF chain[c].policy = "retry" THEN chain[c].retries ELSE 1

\* The step has its result; a failure ends the chain unless it is to go on.
StepDone(c, ok) ==
    chain' = [chain EXCEPT ![c].results = Append(@, ok), ![c].attempts = 0,
                           ![c].at = IF ok \/ chain[c].policy = "continue" THEN "step" ELSE "done"]

\* Mutation: the loop does not break when the tool succeeded.
AttemptOnAndOn(c, ok) ==
    IF chain[c].attempts + 1 < MaxAttempts(c)
    THEN chain' = [chain EXCEPT ![c].attempts = @ + 1, ![c].at = "step"]
    ELSE StepDone(c, ok)
Attempted(c, ok) ==
    IF ~ok /\ chain[c].attempts + 1 < MaxAttempts(c)
    THEN chain' = [chain EXCEPT ![c].attempts = @ + 1, ![c].at = "step"]
    ELSE StepDone(c, ok)

\* ExecuteTool finds the tool and checks the permission, or throws.
CheckTool(c) ==
    /\ chain[c].at = "step"
    /\ Current(c) <= Len(chain[c].steps)
    /\ chain[c].attempts < MaxAttempts(c)
    /\ LET t == chain[c].steps[Current(c)] IN
          IF t \in tools /\ check_permission(t)
          THEN chain' = [chain EXCEPT ![c].at = "run"]
          ELSE Attempted(c, FALSE)
    /\ UNCHANGED <<tools, mcpTools, denyList, checker, reload, reloads, worked>>

\* What a server may answer.  A request that is lost, times out or is answered
\* with something else than JSON is an error too; a reply with neither a result
\* nor an error is a null result.
Reply(t) == {"result", "error"} \cup IF t \in McpTool THEN {"neither", "lost"} ELSE {}
CallTool(reply) == reply \in {"result", "neither"}

\* The handler of the tool returns or throws.
RunTool(c) ==
    /\ chain[c].at = "run"
    /\ \E reply \in Reply(chain[c].steps[Current(c)]) :
          LET ok == CallTool(reply) IN
          /\ worked' = [worked EXCEPT ![c][Current(c)] = IF ok THEN @ + 1 ELSE @]
          /\ Attempted(c, ok)
    /\ UNCHANGED <<tools, mcpTools, denyList, checker, reload, reloads>>

\* No attempt is allowed: the step fails without one.
NoAttempt(c) ==
    /\ chain[c].at = "step"
    /\ Current(c) <= Len(chain[c].steps)
    /\ chain[c].attempts >= MaxAttempts(c)
    /\ StepDone(c, FALSE)
    /\ UNCHANGED <<tools, mcpTools, denyList, checker, reload, reloads, worked>>

AllSteps(c) ==
    /\ chain[c].at = "step"
    /\ Current(c) > Len(chain[c].steps)
    /\ chain' = [chain EXCEPT ![c].at = "done"]
    /\ UNCHANGED <<tools, mcpTools, denyList, checker, reload, reloads, worked>>

\* success of the ChainResult
Success(c) == \A i \in DOMAIN chain[c].results : chain[c].results[i]

Answer(c) ==
    /\ chain[c].at = "done"
    /\ chain' = [chain EXCEPT ![c] = NoChain]
    /\ worked' = [worked EXCEPT ![c] = <<>>]
    /\ UNCHANGED <<tools, mcpTools, denyList, checker, reload, reloads>>

Next ==
    \/ \E a \in Allow, d \in Deny : ReloadPermissions(a, d)
    \/ \E found \in SUBSET McpTool : DiscoverTools(found)
    \/ RegisterInto
    \/ \E c \in Client :
          \/ CheckTool(c) \/ NoAttempt(c) \/ AllSteps(c) \/ RunTool(c) \/ Answer(c)
          \/ \E n \in 0..MaxSteps, p \in Policy, r \in 0..MaxRetries :
                \E steps \in [1..n -> Tool] : ExecuteChain(c, steps, p, r)

Spec == Init /\ [][Next]_vars

-----------------------------------------------------------------------------
(* Properties *)

\* A chain reports what happened: a step is reported to have succeeded if and only
\* if a handler returned, once, and a chain reports success only if all its steps did.
\* Retries repeat no call that succeeded, and nothing runs after the step that
\* stopped the chain, while permissions and tools change under it.
ReportsWhatRan ==
    \A c \in Client : chain[c].at = "done" =>
        /\ \A i \in DOMAIN chain[c].steps :
              worked[c][i] = IF i \in DOMAIN chain[c].results /\ chain[c].results[i] THEN 1 ELSE 0
        /\ Success(c) => \A i \in DOMAIN chain[c].steps : worked[c][i] = 1

\* What the proof of ReportsWhatRan rests on: the steps with a result have run
\* as it says, the others have not, and a chain that stops before its end has
\* failed.
ChainState ==
    [at : {"idle", "step", "run", "done"}, steps : Seq(Tool), policy : Policy \cup {"none"},
     retries : Nat, attempts : Nat, results : Seq(BOOLEAN)]

Told(ch, w) ==
    /\ ch \in ChainState /\ w \in Seq(Nat) /\ Len(w) = Len(ch.steps)
    /\ Len(ch.results) <= Len(ch.steps)
    /\ ch.at = "run" => Len(ch.results) < Len(ch.steps)
    /\ \A i \in 1 .. Len(ch.steps) :
          w[i] = IF i <= Len(ch.results) /\ ch.results[i] THEN 1 ELSE 0
    /\ ch.at = "done" /\ Len(ch.results) < Len(ch.steps) =>
          \E i \in 1 .. Len(ch.results) : ~ch.results[i]

IInv ==
    /\ DOMAIN chain = Client /\ DOMAIN worked = Client
    /\ \A c \in Client : Told(chain[c], worked[c])
=============================================================================
