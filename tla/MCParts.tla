------------------------------ MODULE MCParts ------------------------------
(***************************************************************************)
(* Instance for TLC of the components that share no state with each other: *)
(* each behaviour is one of `scope', which its initial state chooses.  The *)
(* components of Parts have variables of their own, and constants that the *)
(* configuration gives values; the others use one pool of variables, each  *)
(* under the names of its own module, and those that the component that    *)
(* runs does not use are None.                                             *)
(***************************************************************************)
EXTENDS Parts

VARIABLES
  p1, p2, p3, p4, p5, p6, p7, p8, p9, p10, p11

pool == <<p1, p2, p3, p4, p5, p6, p7, p8, p9, p10, p11>>
vars == <<scope, pool, own>>

-----------------------------------------------------------------------------
(* Constants of the instances.                                             *)

\* Session maintenance: by age and number, by size, and a warning only.
Sweeps ==
  {[warn |-> FALSE, prune |-> 1, entries |-> 2, rotate |-> 0, disk |-> 0, interval |-> 1],
   [warn |-> FALSE, prune |-> 0, entries |-> 0, rotate |-> 1, disk |-> 3, interval |-> 1],
   [warn |-> TRUE, prune |-> 1, entries |-> 1, rotate |-> 1, disk |-> 1, interval |-> 1]}

\* Histories with a question, with two calls and their results, and with an
\* empty answer.
Msg(role, content) == [role |-> role, content |-> content]
Histories ==
  {<<Msg("system", <<<<"text", 0>>>>), Msg("user", <<<<"text", 1>>>>)>>,
   <<Msg("user", <<<<"text", 1>>, <<"text", 1>>>>),
     Msg("assistant", <<<<"text", 2>>, <<"use", 1>>, <<"use", 2>>>>),
     Msg("user", <<<<"result", 1>>, <<"result", 2>>, <<"text", 3>>>>)>>,
   <<Msg("assistant", <<<<"use", 1>>>>), Msg("user", <<<<"result", 1>>>>), Msg("assistant", <<>>)>>}

\* Tools, their groups, and what a configuration may allow and deny.
Commands == {<<"exec">>}
Groups == [runtime |-> Commands, all |-> Commands]
ServerTools == {<<"s", "t">>}
Allowances == {{}, {<<"group", "all">>}, {<<"mcp", "s", "*">>}}
Denials == {{}, {<<"name", <<"exec">>>>}, {<<"group", "runtime">>}, {<<"mcp", "s", "t">>}}

\* Two plugins and a stray one that offer the same tool; one of them twice on
\* the disk, once broken.
Offers == [id \in {1, 2, 3} |-> IF id = 1 THEN {"t"} ELSE {"t", "u"}]
SomeConfigs ==
  [on : BOOLEAN, deny : {{}, {1}}, allow : {{}, {2}}, slot : {None, 1},
   entry : {e \in [{1, 2} -> {"unset", "on", "off"}] : e[2] = "unset"}]
OnDisk(sound, broken) ==
  [o \in {"config", "workspace", "global", "bundled"} |->
     [i \in {1, 2} |-> IF <<o, i>> \in sound THEN "good" ELSE IF <<o, i>> \in broken THEN "bad" ELSE "none"]]
SomeDisks ==
  {OnDisk({<<"config", 1>>, <<"bundled", 2>>}, {}),
   OnDisk({<<"global", 1>>, <<"workspace", 2>>}, {<<"config", 1>>})}

\* A hook of each mode.
Modes == {"void", "modifying", "sync"}
ModeOf == [h \in Modes |-> h]

RateLimits ==
  {[max |-> 2, window |-> 2, burst |-> b] : b \in {0, 1}} \cup {[max |-> 3, window |-> 2, burst |-> 2]}

\* Schedules with a step, an empty range, a range past the end, no restriction,
\* and one that names no minute.
Sched(minute, hour) == [minute |-> minute, hour |-> hour]
Schedules ==
  {Sched(<<"/", 2>>, <<"*">>), Sched(<<"n", 1>>, <<"-", 2, 1>>), Sched(<<"-", 1, 5>>, <<"n", 1>>),
   Sched(<<"*">>, <<"*">>), Sched(<<"n", 7>>, <<"*">>)}

-----------------------------------------------------------------------------
(* The components.                                                         *)

V == INSTANCE VectorStore WITH
    Id <- {"a", "b"}, Dim <- {1, 2}, AgentDim <- 1, MaxElements <- 1, MaxStarts <- 2,
    rows <- p1, db <- p2, graph <- p3, names <- p4, phase <- p5, starts <- p6, writer <- p7

SM == INSTANCE StructuredMemory WITH
    Id <- {"a", "b"}, Tag <- {"t"}, Dim <- {"topic"}, Value <- {"v"}, Word <- {"w"}, Limit <- 1,
    MaxOps <- 3, entries <- p1, tagIndex <- p2, dimIndex <- p3, noLength <- p4, file <- p5,
    hits <- p6, ops <- p7

W == INSTANCE Workspace WITH
    Caller <- {"a", "b"}, Name <- {"m", "d"}, Watched <- {"m"}, Word <- {"w", "v"},
    Texts <- {<<"w">>, <<"v", "blank">>, <<"-", "w">>}, MaxWrites <- 2, MaxLines <- 3,
    disk <- p1, mtime <- p2, call <- p3, index <- p4, watching <- p5, seen <- p6,
    announced <- p7, kept <- p8, writes <- p9

M == INSTANCE Maintenance WITH
    Session <- {"s", "t"}, Configs <- Sweeps, MaxSize <- 2, MaxTime <- 2, MaxFiles <- 3,
    MaxName <- 3, files <- p1, settings <- p2, now <- p3, last_sweep <- p4

AT == INSTANCE AgentTurn WITH
    Provider <- {"anthropic"}, MaxIterations <- 2, MaxOverflows <- 1, HistoryLimit <- 3,
    CompactMax <- 2, KeepRecent <- 1, ProtectRecent <- 1, HardPruneAfter <- 2, MinMessages <- 2,
    MaxTurns <- 2, MaxCalls <- 2, MaxFailures <- 1, history <- p1, req <- p2, fresh <- p3,
    turn <- p4, provider <- p5, stop <- p6, turns <- p7, calls <- p8

PV == INSTANCE Providers WITH
    MaxCalls <- 2, Pieces <- 2, MaxWire <- 2, Messages <- Histories, api <- p1, mode <- p2,
    asked <- p3, payload <- p4, server <- p5, wire <- p6, ctx <- p7, out <- p8, phase <- p9,
    error <- p10

WT == INSTANCE WebTools WITH
    MaxDescription <- 2, MaxTotal <- 4, Dots <- 1, Note <- 1, MaxLen <- 5, MaxItems <- 3,
    Count <- {1, 2}, tool <- p1, keys <- p2, count <- p3, by <- p4, size <- p5, limit <- p6,
    tried <- p7

SK == INSTANCE Skills WITH
    KeyOrder <- <<"anyBins", "bins", "requires">>, Word <- {"x"}, Indent <- {0, 2, 4},
    Name <- {"s", "t"}, Disabled <- {"t"}, Dirs <- 2, MaxLines <- 3, MaxFiles <- 2,
    present <- p1, doc <- p2, tree <- p3, ctx <- p4, pending <- p5, file <- p6, dir <- p7,
    loaded <- p8, tested <- p9, lines <- p10, files <- p11

CF == INSTANCE ConfigFile WITH
    Writer <- {"a", "b"}, Path <- {<<"a">>, <<"a", "b">>}, Value <- {"ref"},
    Env <- [ref |-> "v"], MaxWrites <- 2, file <- p1, bak <- p2, mtime <- p3, op <- p4,
    running <- p5, gw <- p6, watch <- p7, writes <- p8, last <- p9, mixed <- p10, crossed <- p11

-----------------------------------------------------------------------------
(* One component runs; what the others use stays None.                     *)

Unused11 == p11 = None
Unused10 == p10 = None /\ Unused11
Unused9 == p9 = None /\ Unused10
Unused8 == p8 = None /\ Unused9
Unused7 == p7 = None /\ Unused8
Unused6 == p6 = None /\ Unused7
Unused5 == p5 = None /\ Unused6
Unused1 == p1 = None /\ p2 = None /\ p3 = None /\ p4 = None /\ Unused5

PoolInit ==
  \/ scope = "vectors" /\ V!Init /\ Unused8
  \/ scope = "structured" /\ SM!Init /\ Unused8
  \/ scope = "workspace" /\ W!Init /\ Unused10
  \/ scope = "maintenance" /\ M!Init /\ Unused5
  \/ scope = "turn" /\ AT!Init /\ Unused9
  \/ scope = "providers" /\ PV!Init /\ Unused11
  \/ scope = "web" /\ WT!Init /\ Unused8
  \/ scope = "skills" /\ SK!Init
  \/ scope = "config" /\ CF!Init
  \/ /\ scope \in
          {"approval", "processes", "http", "browser", "adapters", "client", "typing",
           "transcripts", "devices", "plugins", "chain", "routes", "health", "hooks", "cron",
           "ratelimit"}
     /\ Unused1

Init == PoolInit /\ PartsInit

\* The step of one component, which uses the first n variables of the pool.

Keep4 == UNCHANGED <<scope, own, p5, p6, p7, p8, p9, p10, p11>>
Keep7 == UNCHANGED <<scope, own, p8, p9, p10, p11>>
Keep8 == UNCHANGED <<scope, own, p9, p10, p11>>
Keep9 == UNCHANGED <<scope, own, p10, p11>>
Keep10 == UNCHANGED <<scope, own, p11>>
Keep11 == UNCHANGED <<scope, own>>

VectorStoreStep == scope = "vectors" /\ V!Next /\ Keep7
StructuredMemoryStep == scope = "structured" /\ SM!Next /\ Keep7
WorkspaceStep == scope = "workspace" /\ W!Next /\ Keep9
MaintenanceStep == scope = "maintenance" /\ M!Next /\ Keep4
AgentTurnStep == scope = "turn" /\ AT!Next /\ Keep8
ProvidersStep == scope = "providers" /\ PV!Next /\ Keep10
WebToolsStep == scope = "web" /\ WT!Next /\ Keep7
SkillsStep == scope = "skills" /\ SK!Next /\ Keep11
ConfigFileStep == scope = "config" /\ CF!Next /\ Keep11

PoolNext ==
  \/ VectorStoreStep \/ StructuredMemoryStep \/ WorkspaceStep \/ MaintenanceStep \/ AgentTurnStep
  \/ ProvidersStep \/ WebToolsStep \/ SkillsStep \/ ConfigFileStep

Next == PoolNext \/ (PartsNext /\ UNCHANGED pool)

Spec == Init /\ [][Next]_vars

-----------------------------------------------------------------------------
(* Properties.                                                             *)

\* What a store was given it keeps and finds: the rows of the vector database by
\* the search that their writer uses, whatever indexes were saved, lost or
\* loaded; the entries of the structured memory through every index, exactly
\* once; the paragraphs of a workspace file under their first lines, and in the
\* file all that was appended, whoever appended at the same time, as long as
\* nobody overwrites or edits it; and the configuration in its file or in the
\* backup of it, where the gateway finds every change, unless two writers or two
\* reloads overlap.
\* (core/vector_database.cpp, core/structured_memory.cpp,
\* core/memory_search.cpp, core/memory_manager.cpp, core/config.cpp.)
StoresKeepAndFind ==
  /\ scope = "vectors" => V!OwnRowsFound
  /\ scope = "structured" => SM!IndexesAgree
  /\ scope = "workspace" => W!ParagraphsIndexed /\ W!AppendsKept
  /\ scope = "config" => CF!FileOrBackup /\ CF!FollowsFile

\* A sweep of the session directory removes the older session files first.
\* (session/session_maintenance.cpp, Sweep.)
OldestGoFirst == [][scope = "maintenance" => M!OlderRemoved]_vars

\* Tool calls and their results stay together: in the history that a turn
\* leaves behind, however it ends; from the blocks of a history to the request
\* of a provider; and from a provider's stream to the calls that the loop is
\* given, each whole or known to be cut off.
\* And every request ends with the user's word, as a model needs it; and a call
\* of the search tool is answered within its limit, or told that it failed only
\* after every provider that could be asked was asked.
\* (core/agent_loop.cpp, providers/anthropic_provider.cpp,
\* providers/openai_provider.cpp, tools/tool_registry.cpp.)
ToolCallsPaired ==
  /\ scope = "turn" => AT!HistoryPaired /\ AT!RequestAsks
  /\ scope = "providers" => PV!CallsAsSent /\ PV!PairsSent
  /\ scope = "web" => WT!CascadeAnswers

\* A skill is offered exactly if the machine has what its file asks for, as
\* the file is written.
\* (core/skill_loader.cpp.)
GatedAsWritten == scope = "skills" => SK!GatedAsWritten
=============================================================================
