----------------------------- MODULE AgentTurn -----------------------------
(***************************************************************************)
(* A turn of the agent loop (core/agent_loop.cpp) and the messages it      *)
(* sends to the model: how the history is cut down to a request, what each *)
(* provider's request is turned into before it is sent, the tool calls,    *)
(* the corrections the loop asks for, the recovery from an overflow, and   *)
(* what of the turn is kept in the history of the session.                 *)
(*                                                                         *)
(* A message has a role and a sequence of blocks <<type, id, what>>: text, *)
(* the use of a tool (what names the tool) and the result of that use (of  *)
(* the same id; what says how much of it is left).  The text of a question *)
(* has the number of its turn as id.  Which provider is asked, and how     *)
(* often a failed call is tried again, is chosen freely: Failover models   *)
(* it.  Lengths are left out: where the code compares an estimate with a   *)
(* limit, either outcome is possible.                                      *)
(***************************************************************************)
EXTENDS Naturals, Sequences, SequencesExt, FiniteSets, FiniteSetsExt

CONSTANTS
    Provider,           \* names of providers
    MaxIterations,      \* max_iterations_
    MaxOverflows,       \* kOverflowCompactionMaxRetries
    HistoryLimit,       \* messages a caller loads from before the question (49)
    CompactMax,         \* compact_max_messages
    KeepRecent,         \* compact_keep_recent
    ProtectRecent, HardPruneAfter,  \* options of the pruner
    MinMessages,        \* min_messages of the compression
    MaxTurns,           \* bound: turns
    MaxCalls,           \* bound: tool calls
    MaxFailures         \* bound: failed calls of one turn

VARIABLES
    history,    \* the messages of the session
    req,        \* request.messages
    fresh,      \* new_messages
    turn,       \* the turn that runs
    provider,
    stop,       \* stop_requested_
    turns,      \* turns begun
    calls       \* tool calls made, which gives them their identifiers

vars == <<history, req, fresh, turn, provider, stop, turns, calls>>

Msg(role, content) == [role |-> role, content |-> content]
Text(id) == <<"text", id, "">>
System == Msg("system", <<Text(0)>>)
Question(n) == Msg("user", <<Text(n)>>)

Ids(m, type) == {m.content[i][2] : i \in {j \in DOMAIN m.content : m.content[j][1] = type}}
Uses(m) == Ids(m, "use")
Results(m) == Ids(m, "result")

\* Mutation: one message too few is kept.
SuffixLess(ms, n) == SubSeq(ms, Len(ms) - Min({n, Len(ms)}) + 1, Len(ms) - 1)
Suffix(ms, n) == SubSeq(ms, Len(ms) - Min({n, Len(ms)}) + 1, Len(ms))

-----------------------------------------------------------------------------
(* From the history to the request *)

has_only_tool_result_blocks(m) ==
    m.role = "user" /\ m.content # <<>> /\ \A i \in DOMAIN m.content : m.content[i][1] = "result"
has_non_tool_result_blocks(m) ==
    m.role = "user" /\ \E i \in DOMAIN m.content : m.content[i][1] # "result"

AutoCompact(ms) ==
    IF Len(ms) > CompactMax /\ Len(ms) > KeepRecent THEN <<System>> \o Suffix(ms, KeepRecent) ELSE ms

\* ContextPruner::Prune: where the assistant's n-th last message stands.
Threshold(ms, n) ==
    LET at == {i \in DOMAIN ms : ms[i].role = "assistant"} IN
    IF Cardinality(at) > n
    THEN CHOOSE i \in at : Cardinality({j \in at : j >= i}) = n
    ELSE 0
Bootstrap(ms) ==
    LET at == {i \in DOMAIN ms : ms[i].role = "user"} IN IF at = {} THEN 0 ELSE Min(at)
PruneBlock(b, hard) ==
    IF b[1] = "result" THEN <<b[1], b[2], IF hard THEN "omitted" ELSE "cut">> ELSE b
Prune(ms) ==
    [i \in DOMAIN ms |->
        IF i >= Threshold(ms, ProtectRecent) \/ i <= Bootstrap(ms)
        THEN ms[i]
        ELSE [ms[i] EXCEPT !.content =
                [k \in DOMAIN @ |-> PruneBlock(@[k], i < Threshold(ms, HardPruneAfter))]]]

\* focus_history_on_latest_turn: a question that is not related to the last one
\* loses the history, one that is keeps it from the last question on.
FocusHistory(ms, related) ==
    LET asked == {i \in DOMAIN ms : has_non_tool_result_blocks(ms[i])}
        last == Max(asked)
        start == IF last = Len(ms) /\ last > 1 /\ ms[last - 1].role = "assistant"
                 THEN last - 1 ELSE last
    IN  IF asked = {} THEN ms
        ELSE IF related THEN SubSeq(ms, start, Len(ms)) ELSE <<>>

\* ContextPruner::Compress: the messages of the system come first.
Compress(ms, keep) ==
    IF Len(ms) <= MinMessages THEN Prune(ms)
    ELSE SelectSeq(Prune(ms), LAMBDA m : m.role = "system")
           \o SelectSeq(Suffix(Prune(ms), Max({MinMessages, keep})), LAMBDA m : m.role # "system")
CompressHistory(ms, keep) == IF keep > Len(ms) THEN ms ELSE Compress(ms, keep)

\* The context window guard.
WindowGuard(ms, full) ==
    IF full /\ KeepRecent < Len(ms) THEN <<System, System>> \o Suffix(ms, KeepRecent) ELSE ms

Past(related, keep) ==
    CompressHistory(FocusHistory(Prune(AutoCompact(Suffix(history, HistoryLimit))), related), keep)

\* `repeated' is the notice that the question was asked before, which only a plain
\* turn looks for.
PlainRequest(n, related, repeated, keep, full) ==
    WindowGuard(<<System>> \o (IF repeated THEN <<System>> ELSE <<>>)
                  \o Past(related, keep) \o <<Question(n)>>, full)
StreamRequest(n, related, keep, full) ==
    WindowGuard(<<System>> \o Past(related, keep) \o <<Question(n)>>, full)

-----------------------------------------------------------------------------
(* What is changed for Anthropic before a request is sent *)

Answered(ms, i) ==
    IF i < Len(ms) /\ ms[i + 1].role = "user" THEN Results(ms[i + 1]) ELSE {}
RepairAssistant(ms, i) ==
    LET kept == SelectSeq(ms[i].content, LAMBDA b : b[1] # "use" \/ b[2] \in Answered(ms, i)) IN
    Msg("assistant", IF kept = <<>> THEN <<Text(0)>> ELSE kept)
\* The results that a message of the user may have.
Known(ms, i) == IF i > 1 /\ ms[i - 1].role = "assistant" THEN Uses(ms[i - 1]) ELSE {}
RepairUser(ms, i) ==
    LET kept == SelectSeq(ms[i].content, LAMBDA b : b[1] # "result" \/ b[2] \in Known(ms, i)) IN
    IF kept = <<>> THEN <<>> ELSE <<Msg("user", kept)>>

repair_anthropic_tool_pairing(ms) ==
    FlattenSeq([i \in DOMAIN ms |->
        CASE ms[i].role = "user" -> RepairUser(ms, i)
          [] ms[i].role = "assistant" /\ Uses(ms[i]) # {} -> <<RepairAssistant(ms, i)>>
          [] OTHER -> <<ms[i]>>])

CanCollapse(ms, i) ==
    /\ i + 3 <= Len(ms)
    /\ ms[i].role = "assistant" /\ Uses(ms[i]) # {}
    /\ has_only_tool_result_blocks(ms[i + 1])
    /\ ms[i + 2].role = "assistant" /\ Uses(ms[i + 2]) = {}
    /\ ms[i + 3].role = "user"
collapse_completed_anthropic_tool_turns(ms) ==
    FlattenSeq([i \in DOMAIN ms |->
        IF CanCollapse(ms, i) \/ (i > 1 /\ CanCollapse(ms, i - 1)) THEN <<>> ELSE <<ms[i]>>])

merge_consecutive_user_messages(ms) ==
    FoldLeft(LAMBDA merged, m :
                IF merged # <<>> /\ m.role = "user" /\ Last(merged).role = "user"
                THEN [merged EXCEPT ![Len(merged)].content = @ \o m.content]
                ELSE Append(merged, m), <<>>, ms)

\* How many messages of the system the request begins with.
Leading(ms) == Max({n \in 0..Len(ms) : \A i \in 1..n : ms[i].role = "system"})

trim_anthropic_replay_to_current_turn(ms) ==
    LET asked == {i \in Leading(ms) + 1..Len(ms) : has_non_tool_result_blocks(ms[i])} IN
    IF ms = <<>> \/ asked = {} \/ ~has_only_tool_result_blocks(Last(ms)) THEN ms
    ELSE SubSeq(ms, 1, Leading(ms)) \o SubSeq(ms, Max(asked), Len(ms))

\* The names of the tools whose results the request ends with.
collect_trailing_replay_tool_names(ms) ==
    LET named(i) == {b[3] : b \in {c \in Range(ms[i].content) :
                                     c[1] = "use" /\ c[2] \in Results(Last(ms))}}
        found == {i \in 1..Len(ms) - 1 : ms[i].role = "assistant" /\ named(i) # {}}
    IN  IF Len(ms) < 2 \/ Last(ms).role # "user" \/ found = {} THEN {} ELSE named(Max(found))

Hint == Msg("system", <<<<"text", 0, "hint">>>>)
AddHint(ms) ==
    IF "web_search" \notin collect_trailing_replay_tool_names(ms) \/ Hint \in Range(ms) THEN ms
    ELSE SubSeq(ms, 1, Leading(ms)) \o <<Hint>> \o SubSeq(ms, Leading(ms) + 1, Len(ms))

\* sanitize_request_messages_for_provider; no turn validator is installed.
Sanitize(ms) ==
    IF provider # "anthropic" THEN ms
    ELSE AddHint(trim_anthropic_replay_to_current_turn(merge_consecutive_user_messages(
           collapse_completed_anthropic_tool_turns(repair_anthropic_tool_pairing(ms)))))

-----------------------------------------------------------------------------
(* The turn *)

Idle == [at |-> "idle", mode |-> "none", lookup |-> FALSE, iterations |-> 0, overflows |-> 0,
         failures |-> 0, retried |-> {}, text |-> FALSE, pending |-> <<>>, results |-> <<>>]

Init ==
    /\ history = <<>>
    /\ req = <<>>
    /\ fresh = <<>>
    /\ turn = Idle
    /\ provider \in Provider
    /\ stop = FALSE
    /\ turns = 0
    /\ calls = 0

\* A caller appends the question to the session; the history it loads ends before it.
Caller(n) == history' = Append(history, Question(n))
Ask(mode, lookup, related, repeated, keep, full) ==
    /\ turn.at = "idle"
    /\ turns < MaxTurns
    /\ turns' = turns + 1
    /\ Caller(turns')
    /\ req' = IF mode = "plain" THEN PlainRequest(turns', related, repeated, keep, full)
                                ELSE StreamRequest(turns', related, keep, full)
    /\ fresh' = <<>>
    /\ turn' = [Idle EXCEPT !.at = "loop", !.mode = mode, !.lookup = lookup]
    /\ stop' = FALSE
    /\ UNCHANGED <<provider, calls>>

Stop ==
    /\ turn.at \notin {"idle", "saved"}
    /\ ~stop
    /\ stop' = TRUE
    /\ UNCHANGED <<history, req, fresh, turn, provider, turns, calls>>

\* The turn is over; what is in `kept' goes to the history.
Save(kept) ==
    /\ history' = history \o kept
    /\ turn' = [turn EXCEPT !.at = "saved"]

Loop ==
    /\ turn.at = "loop"
    /\ turn.iterations < MaxIterations /\ ~stop
    /\ turn' = [turn EXCEPT !.at = "send", !.text = FALSE]
    /\ UNCHANGED <<history, req, fresh, provider, stop, turns, calls>>

\* The loop ends without an answer: a turn that was stopped says so, one that ran
\* out of iterations fails, unless it streams.
LoopEnds ==
    /\ turn.at = "ended" \/ (turn.at = "loop" /\ (turn.iterations >= MaxIterations \/ stop))
    /\ Save(IF stop \/ turn.mode = "stream"
            THEN Append(fresh, Msg("assistant", <<Text(0)>>)) ELSE <<>>)
    /\ UNCHANGED <<req, fresh, provider, stop, turns, calls>>

\* execute_with_retry throws when it finds the turn stopped; the stream does not look.
SendStopped ==
    /\ turn.at = "send" /\ turn.mode = "plain" /\ stop
    /\ Save(<<>>)
    /\ UNCHANGED <<req, fresh, provider, stop, turns, calls>>

Send ==
    /\ turn.at = "send" /\ (turn.mode = "plain" => ~stop)
    /\ req' = Sanitize(req)
    /\ turn' = [turn EXCEPT !.at = "wait"]
    /\ UNCHANGED <<history, fresh, provider, stop, turns, calls>>

\* A reply is awaited, or more of it: a stream goes on after a tool call.
Waiting == turn.at \in {"wait", "more"}

\* A reply, or a piece of the stream, asks for tools.
CallTools(names) ==
    /\ Waiting
    /\ calls + Len(names) <= MaxCalls
    /\ turn' = [turn EXCEPT !.at = "tools", !.results = <<>>,
                            !.pending = [i \in DOMAIN names |-> <<"use", calls + i, names[i]>>]]
    /\ calls' = calls + Len(names)
    /\ UNCHANGED <<history, req, fresh, provider, stop, turns>>

\* handle_tool_calls: a call that was stopped has a result too.
Result(use, what) == <<"result", use[2], what>>
Prefix(text, blocks) == Msg("assistant", (IF text THEN <<Text(0)>> ELSE <<>>) \o blocks)
\* Mutation: the calls that are left when the turn is stopped are dropped.
HandleToolCallsDrops(done, left) ==
    IF stop THEN done ELSE Append(done, Result(Head(left), "full"))
HandleToolCalls(done, left) ==
    IF stop THEN done \o [i \in DOMAIN left |-> Result(left[i], "aborted")]
    ELSE Append(done, Result(Head(left), "full"))

RunTool ==
    /\ turn.at = "tools" /\ turn.mode = "plain"
    /\ Len(turn.results) < Len(turn.pending)
    /\ turn' = [turn EXCEPT !.results = HandleToolCalls(@, SubSeq(turn.pending, Len(@) + 1, Len(turn.pending))),
                            !.at = IF stop THEN "record" ELSE @]
    /\ UNCHANGED <<history, req, fresh, provider, stop, turns, calls>>

RecordCalls(text) ==
    /\ \/ turn.at = "record"
       \/ turn.at = "tools" /\ turn.mode = "plain" /\ Len(turn.results) = Len(turn.pending)
    /\ LET pair == <<Prefix(text, turn.pending), Msg("user", turn.results)>> IN
          /\ req' = req \o pair
          /\ fresh' = fresh \o pair
    /\ turn' = [turn EXCEPT !.at = IF stop THEN "ended" ELSE "loop",
                            !.iterations = IF stop THEN @ ELSE @ + 1]
    /\ UNCHANGED <<history, provider, stop, turns, calls>>

\* A stream runs each tool as it is called and records it.
StreamTool ==
    /\ turn.at = "tools" /\ turn.mode = "stream" /\ turn.pending # <<>>
    /\ LET use == Head(turn.pending)
           pair == <<Prefix(turn.text, <<use>>),
                     Msg("user", <<Result(use, IF stop THEN "aborted" ELSE "full")>>)>>
       IN  /\ req' = req \o pair
           /\ fresh' = fresh \o pair
    /\ turn' = [turn EXCEPT !.pending = Tail(@), !.text = FALSE]
    /\ UNCHANGED <<history, provider, stop, turns, calls>>
StreamToolsDone ==
    /\ turn.at = "tools" /\ turn.mode = "stream" /\ turn.pending = <<>>
    /\ turn' = [turn EXCEPT !.at = "more", !.iterations = @ + 1]
    /\ UNCHANGED <<history, req, fresh, provider, stop, turns, calls>>

TextDelta ==
    /\ Waiting /\ turn.mode = "stream" /\ ~turn.text
    /\ turn' = [turn EXCEPT !.text = TRUE]
    /\ UNCHANGED <<history, req, fresh, provider, stop, turns, calls>>
StreamEnds ==
    /\ Waiting /\ turn.mode = "stream"
    /\ IF turn.text
       THEN Save(Append(fresh, Msg("assistant", <<Text(0)>>)))
       ELSE turn' = [turn EXCEPT !.at = "loop", !.iterations = @ + 1] /\ UNCHANGED history
    /\ UNCHANGED <<req, fresh, provider, stop, turns, calls>>

\* The guards: a search that was only announced, or a raw list of its results, is
\* asked for again, once each.
Guarded(kind) ==
    \/ kind = "preamble" /\ turn.lookup /\ kind \notin turn.retried
    \/ /\ kind = "dump" /\ kind \notin turn.retried
       /\ "web_search" \in collect_trailing_replay_tool_names(req)
Correct(kind) ==
    /\ turn.at = "wait" /\ turn.mode = "plain" /\ Guarded(kind)
    /\ req' = req \o <<Msg("assistant", <<Text(0)>>), Msg("user", <<Text(0)>>)>>
    /\ turn' = [turn EXCEPT !.at = "loop", !.iterations = @ + 1, !.retried = @ \cup {kind}]
    /\ UNCHANGED <<history, fresh, provider, stop, turns, calls>>
FinalAnswer(kind) ==
    /\ turn.at = "wait" /\ turn.mode = "plain" /\ ~Guarded(kind)
    /\ Save(Append(fresh, Msg("assistant", <<Text(0)>>)))
    /\ UNCHANGED <<req, fresh, provider, stop, turns, calls>>
EmptyReply ==
    /\ turn.at = "wait" /\ turn.mode = "plain"
    /\ turn' = [turn EXCEPT !.at = "ended"]
    /\ UNCHANGED <<history, req, fresh, provider, stop, turns, calls>>

\* Overflow: the later half of the request, at least two messages, is tried again.
\* (The providers of this repository report an overflow of a plain call only: for
\* a stream they classify the status without the body, which names it.)
Compact ==
    /\ req' = <<System, System>> \o Suffix(req, Max({2, Len(req) \div 2}))
    /\ turn' = [turn EXCEPT !.at = "loop", !.overflows = @ + 1]
Overflow ==
    /\ Waiting /\ turn.overflows < MaxOverflows
    /\ Compact
    /\ UNCHANGED <<history, fresh, provider, stop, turns, calls>>

\* What is left of a turn that failed: of a stream, what it did; of a call, nothing.
GiveUp ==
    /\ Waiting
    /\ Save(IF turn.mode = "stream" THEN fresh ELSE <<>>)
    /\ UNCHANGED <<req, fresh, provider, stop, turns, calls>>

\* Another provider, or another attempt; a stream counts it as an iteration.
TryAgain(p) ==
    /\ Waiting /\ turn.failures < MaxFailures
    /\ provider' = p
    /\ turn' = [turn EXCEPT !.failures = @ + 1,
                            !.at = IF turn.mode = "stream" THEN "loop" ELSE "send",
                            !.iterations = IF turn.mode = "stream" THEN @ + 1 ELSE @]
    /\ UNCHANGED <<history, req, fresh, stop, turns, calls>>

Finish ==
    /\ turn.at = "saved"
    /\ turn' = Idle
    /\ req' = <<>>
    /\ fresh' = <<>>
    /\ UNCHANGED <<history, provider, stop, turns, calls>>

Names == UNION {[1..n -> {"web_search", "other"}] : n \in 1..MaxCalls}
Kind == {"answer", "preamble", "dump"}

Progress ==
    \/ Loop \/ LoopEnds \/ SendStopped \/ Send \/ RunTool \/ StreamTool \/ StreamToolsDone
    \/ TextDelta \/ StreamEnds \/ EmptyReply \/ Overflow \/ GiveUp \/ Finish
    \/ \E names \in Names : CallTools(names)
    \/ \E text \in BOOLEAN : RecordCalls(text)
    \/ \E kind \in Kind : Correct(kind) \/ FinalAnswer(kind)
    \/ \E p \in Provider : TryAgain(p)

Next ==
    \/ Progress \/ Stop
    \/ \E mode \in {"plain", "stream"}, lookup, related, repeated, full \in BOOLEAN, keep \in 1..HistoryLimit + 1 :
          Ask(mode, lookup, related, repeated, keep, full)

Spec == Init /\ [][Next]_vars

-----------------------------------------------------------------------------
(* Properties *)

Block == {"text", "use", "result"} \X Nat \X {"", "hint", "web_search", "other", "full", "aborted", "cut", "omitted"}
IsMessages(ms) ==
    \A i \in DOMAIN ms : /\ ms[i].role \in {"system", "user", "assistant"}
                         /\ \A k \in DOMAIN ms[i].content : ms[i].content[k] \in Block

TypeOK ==
    /\ IsMessages(history) /\ IsMessages(req) /\ IsMessages(fresh)
    /\ turn.iterations \in 0..MaxIterations + MaxCalls + 1
    /\ turn.overflows \in 0..MaxOverflows

\* Uses and results match: each use is answered in the message after it, each result
\* answers a use of the message before it.
Paired(ms) ==
    \A i \in DOMAIN ms :
        /\ Uses(ms[i]) \subseteq Answered(ms, i)
        /\ Results(ms[i]) \subseteq Known(ms, i)

\* Whatever stops or fails a turn, the history it leaves has the result of every tool
\* use right after it, so that the session can go on.
HistoryPaired == Paired(history)

\* Every request begins with the system prompt and ends with a message of the user,
\* which is the question or a later message that answers the model: no compaction,
\* repair or correction leaves the model to go on with its own words.
RequestAsks ==
    turn.at = "wait" =>
        /\ Head(req) = System
        /\ Last(req).role = "user" /\ Last(req).content # <<>>
=============================================================================
