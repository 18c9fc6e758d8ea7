----------------------------- MODULE Providers -----------------------------
(***************************************************************************)
(* The clients of the model providers (providers/*_provider.cpp): what     *)
(* they send of a request, how they put a reply together again, and how    *)
(* they report failures.  A streamed reply comes as lines; a tool call is  *)
(* spread over many of them: its start, and the pieces of its arguments.   *)
(* Anthropic and OpenAI handle each line as it arrives, Qwen the whole     *)
(* body when it is complete, and Google asks for a reply in one document.  *)
(*                                                                         *)
(* Chunks: what arrives is appended to a buffer and complete lines are     *)
(* taken from it, so lines are received one at a time and a line that is   *)
(* cut off is never handled.  The server is external.                      *)
(***************************************************************************)
EXTENDS Naturals, Sequences, SequencesExt, FiniteSets

CONSTANTS
    MaxCalls,   \* bound: tool calls of a reply
    MaxWire,    \* bound: lines on their way
    Pieces,     \* pieces of the arguments of a call
    Messages    \* bound: the messages that may be sent; a message has a role and
                \* a sequence of blocks <<type, id>>

VARIABLES
    api, mode,  \* the provider; "stream" or "plain"
    asked,      \* the messages of the request
    payload,    \* the messages as they are sent
    server,     \* what the server has sent
    wire,       \* lines on their way
    ctx,        \* what the client keeps while it receives
    out,        \* what was given to the caller
    phase,      \* "new", "transfer", "returned" or "thrown"
    error       \* the kind of the error that was thrown

vars == <<api, mode, asked, payload, server, wire, ctx, out, phase, error>>

Api == {"anthropic", "openai", "qwen", "google"}
Has(m, type) == \E i \in DOMAIN m.content : m.content[i][1] = type

-----------------------------------------------------------------------------
(* Requests *)

Only(m, type) == SelectSeq(m.content, LAMBDA b : b[1] = type)

\* Anthropic: the system's text is a field of its own; equal texts of a message are
\* sent once, and a message with nothing in it is left out.
NoRepeats(blocks) ==
    FoldLeft(LAMBDA kept, b : IF b[1] = "text" /\ b \in Range(kept) THEN kept ELSE Append(kept, b),
             <<>>, blocks)
serialize_messages_to_anthropic(ms) ==
    SelectSeq([i \in DOMAIN ms |-> [role |-> ms[i].role, content |-> NoRepeats(ms[i].content)]],
              LAMBDA m : m.role # "system" /\ m.content # <<>>)

\* OpenAI: each result is a message; text beside results is not sent.
ToolMessages(m) ==
    [i \in DOMAIN Only(m, "result") |-> [role |-> "tool", content |-> <<Only(m, "result")[i]>>]]
\* Mutation: uses are looked for before results.
SerializeOpenAIUsesFirst(m) ==
    CASE Has(m, "use") -> <<[role |-> "assistant", content |-> Only(m, "text") \o Only(m, "use")]>>
      [] OTHER -> <<[role |-> m.role, content |-> Only(m, "text")]>>
SerializeOpenAI(m) ==
    CASE Has(m, "result") -> ToolMessages(m)
      [] ~Has(m, "result") /\ Has(m, "use") ->
            <<[role |-> "assistant", content |-> Only(m, "text") \o Only(m, "use")]>>
      [] OTHER -> <<[role |-> m.role, content |-> Only(m, "text")]>>
serialize_messages_to_openai(ms) == FlattenSeq([i \in DOMAIN ms |-> SerializeOpenAI(ms[i])])

\* Qwen and Google are sent the text alone; for Google the system is a user.
SerializeQwen(ms) == [i \in DOMAIN ms |-> [role |-> ms[i].role, content |-> Only(ms[i], "text")]]
ConvertRequestToGemini(ms) ==
    [i \in DOMAIN ms |-> [role |-> IF ms[i].role = "assistant" THEN "model" ELSE "user",
                          content |-> Only(ms[i], "text")]]

-----------------------------------------------------------------------------
(* The server (external) *)

\* begun: calls begun; sent[c]: pieces of the arguments of c sent.
Quiet == [begun |-> 0, sent |-> [c \in 1..MaxCalls |-> 0], text |-> FALSE, finish |-> "none",
          done |-> FALSE]

Line(type, what, call, piece, finish) ==
    [type |-> type, what |-> what, call |-> call, piece |-> piece, finish |-> finish]

\* An event is a line with its name, for Anthropic, and a line of data.
Event(name, what, call, piece, finish) ==
    (IF api = "anthropic" THEN <<Line("event", name, 0, 0, "none")>> ELSE <<>>)
      \o <<Line("data", what, call, piece, finish)>>
Sends(lines, srv) ==
    /\ phase = "transfer" /\ ~server.done /\ Len(wire) < MaxWire
    /\ wire' = wire \o lines
    /\ server' = srv
    /\ UNCHANGED <<api, mode, asked, payload, ctx, out, phase, error>>

ServerText ==
    /\ ~server.text /\ server.finish = "none"
    /\ Sends(Event("content_block_delta", "text", 0, 0, "none"), [server EXCEPT !.text = TRUE])
ServerCall ==
    /\ server.begun < MaxCalls /\ server.finish = "none"
    /\ LET c == server.begun + 1 IN
       Sends(Event("content_block_start", "call", c, 0, "none"), [server EXCEPT !.begun = c])
\* Anthropic finishes a call before it begins the next.
ServerPiece(c) ==
    /\ c <= server.begun /\ server.sent[c] < Pieces /\ server.finish = "none"
    /\ api = "anthropic" => c = server.begun
    /\ Sends(Event("content_block_delta", "piece", c, server.sent[c] + 1, "none"),
             [server EXCEPT !.sent[c] = @ + 1])
\* The reply ends where the model ends it, or is cut off at max_tokens.
Complete == \A c \in 1..server.begun : server.sent[c] = Pieces
ServerFinish(finish) ==
    /\ server.finish = "none"
    /\ finish = "tool_calls" => server.begun > 0 /\ Complete
    /\ finish = "stop" => server.begun = 0
    /\ Sends(Event("message_delta", "finish", 0, 0, finish), [server EXCEPT !.finish = finish])
ServerDone ==
    /\ server.finish # "none"
    /\ Sends(Event("message_stop", "done", 0, 0, "none"), [server EXCEPT !.done = TRUE])

-----------------------------------------------------------------------------
(* Receiving a stream *)

Empty == [event |-> "", pending |-> <<>>]

\* The arguments parse when every piece of them is there; otherwise they are {}.
Parsed(call) ==
    [id |-> call.id,
     args |-> IF call.args = [k \in 1..Pieces |-> <<call.id, k>>] THEN "whole" ELSE "object"]
Calls(pending) == [type |-> "calls", calls |-> [i \in DOMAIN pending |-> Parsed(pending[i])]]
TextOut == [type |-> "text", calls |-> <<>>]
End == [type |-> "end", calls |-> <<>>]

\* Mutation: the calls stay pending after they were given to the caller.
EmitKeeps(st) ==
    IF st.ctx.pending = <<>> THEN st ELSE [st EXCEPT !.out = Append(@, Calls(st.ctx.pending))]
Emit(st) ==
    IF st.ctx.pending = <<>> THEN st
    ELSE [st EXCEPT !.out = Append(@, Calls(st.ctx.pending)), !.ctx.pending = <<>>]

AnthropicData(st, line) ==
    CASE st.ctx.event = "content_block_start" /\ line.what = "call" ->
            [st EXCEPT !.ctx.pending = Append(@, [id |-> line.call, args |-> <<>>])]
      [] st.ctx.event = "content_block_delta" /\ line.what = "text" -> [st EXCEPT !.out = Append(@, TextOut)]
      [] /\ st.ctx.event = "content_block_delta" /\ line.what = "piece"
         /\ st.ctx.pending # <<>> ->
            [st EXCEPT !.ctx.pending[Len(st.ctx.pending)].args = Append(@, <<line.call, line.piece>>)]
      [] st.ctx.event = "message_stop" -> [Emit(st) EXCEPT !.out = Append(@, End)]
      [] OTHER -> st
AnthropicLine(st, line) ==
    CASE line.type = "event" -> [st EXCEPT !.ctx.event = line.what]
      [] line.type = "data"  -> AnthropicData(st, line)
      [] OTHER               -> st

\* OpenAI and Qwen: a delta of a call names its index, and the calls before it that
\* are not known yet are filled in.
Grow(pending, n) ==
    pending \o [i \in 1..(IF n > Len(pending) THEN n - Len(pending) ELSE 0) |-> [id |-> 0, args |-> <<>>]]
CallDelta(st, line) ==
    LET grown == Grow(st.ctx.pending, line.call) IN
    [st EXCEPT !.ctx.pending =
        IF line.what = "call" THEN [grown EXCEPT ![line.call].id = line.call]
        ELSE [grown EXCEPT ![line.call].args = Append(@, <<line.call, line.piece>>)]]
Delta(st, line) ==
    CASE line.what = "text" -> [st EXCEPT !.out = Append(@, TextOut)]
      [] line.what \in {"call", "piece"} -> CallDelta(st, line)
      [] OTHER -> IF line.finish = "tool_calls" THEN Emit(st) ELSE st

OpenAILine(st, line) ==
    CASE line.type # "data" -> st
      [] line.type = "data" /\ line.what = "done" -> [Emit(st) EXCEPT !.out = Append(@, End)]
      [] OTHER -> Delta(st, line)

\* Qwen stops at [DONE]; calls that are still pending and the end follow the last line.
QwenLine(st, line) ==
    IF line.type # "data" \/ st.done THEN st
    ELSE IF line.what = "done" THEN [st EXCEPT !.done = TRUE] ELSE Delta(st, line)
ParseQwenSseResponse(lines) ==
    [Emit(FoldLeft(QwenLine, [ctx |-> Empty, out |-> <<>>, done |-> FALSE], lines))
        EXCEPT !.out = Append(@, End)]

\* Anthropic's reply to a plain request may come as lines too: they are read to the end.
SseLine(st, line) ==
    IF line.type = "data" /\ st.ctx.event = "message_stop" THEN st ELSE AnthropicLine(st, line)
parse_anthropic_sse_response(lines) ==
    <<Calls(FoldLeft(SseLine, [ctx |-> Empty, out |-> <<>>], lines).ctx.pending)>>

\* The body is collected, in `ctx.pending', and read when it is complete.
Collects == api = "qwen" \/ mode = "plain"

\* A line arrives.  A finish_reason that is null is not a string, and OpenAI's client
\* throws when it reads it.
Receive ==
    /\ phase = "transfer" /\ wire # <<>>
    /\ wire' = Tail(wire)
    /\ CASE ~Collects /\ api = "anthropic" ->
              LET st == AnthropicLine([ctx |-> ctx, out |-> out], Head(wire)) IN
              ctx' = st.ctx /\ out' = st.out /\ UNCHANGED <<phase, error>>
         [] ~Collects /\ api = "openai" ->
              LET st == OpenAILine([ctx |-> ctx, out |-> out], Head(wire)) IN
              ctx' = st.ctx /\ out' = st.out /\ UNCHANGED <<phase, error>>
         [] Collects ->
              ctx' = [ctx EXCEPT !.pending = Append(@, Head(wire))] /\ UNCHANGED <<out, phase, error>>
    /\ UNCHANGED <<api, mode, asked, payload, server>>
ReceiveNull ==
    /\ phase = "transfer" /\ api = "openai" /\ wire # <<>>
    /\ Head(wire).type = "data" /\ Head(wire).what # "done" /\ Head(wire).finish = "none"
    /\ phase' = "thrown" /\ error' = "type_error"
    /\ wire' = <<>>
    /\ UNCHANGED <<api, mode, asked, payload, server, ctx, out>>

\* The server closes the connection, after the end of the reply or before it.
TransferEnds ==
    /\ phase = "transfer" /\ wire = <<>>
    /\ phase' = "returned"
    /\ out' = CASE api = "qwen" -> ParseQwenSseResponse(ctx.pending).out
                [] Collects /\ api # "qwen" -> parse_anthropic_sse_response(ctx.pending)
                [] OTHER -> out
    /\ UNCHANGED <<api, mode, asked, payload, server, wire, ctx, error>>

-----------------------------------------------------------------------------
(* A reply in one document *)

\* One with text and calls; what a document holds is complete.
WholeCalls(n) == [i \in 1..n |-> [id |-> i, args |-> "whole"]]
parse_anthropic_json_response(n, text) == <<[type |-> "calls", calls |-> WholeCalls(n)]>>
\* The arguments stay the string they are sent as.
ParseQwenJsonResponse(n, text) ==
    <<[type |-> "calls", calls |-> [i \in 1..n |-> [id |-> i, args |-> "string"]]]>>
\* The first part alone is looked at, and the identifier is made up.
ConvertGeminiResponse(n, text) ==
    <<[type |-> "calls", calls |-> IF n > 0 /\ ~text THEN WholeCalls(1) ELSE <<>>]>>
\* content is null beside tool calls, and not a string.
OpenAIThrows(n, text) == n > 0 /\ ~text

Document(n, text) ==
    /\ phase = "transfer" /\ server = Quiet /\ wire = <<>>
    /\ mode = "plain" \/ api \in {"qwen", "google"}
    /\ server' = [Quiet EXCEPT !.begun = n, !.text = text, !.done = TRUE, !.finish = "document"]
    /\ IF api = "openai" /\ OpenAIThrows(n, text)
       THEN phase' = "thrown" /\ error' = "type_error" /\ UNCHANGED out
       ELSE /\ phase' = "returned"
            /\ out' = (CASE api = "qwen"   -> ParseQwenJsonResponse(n, text)
                         [] api = "google" -> ConvertGeminiResponse(n, text)
                         [] OTHER          -> parse_anthropic_json_response(n, text))
                       \o (IF mode = "stream" THEN <<End>> ELSE <<>>)
            /\ UNCHANGED error
    /\ UNCHANGED <<api, mode, asked, payload, wire, ctx>>

-----------------------------------------------------------------------------
(* Failures *)

Status == {400, 401, 402, 404, 429, 500}
Body == {"", "improper", "billing", "overflow"}
\* By the status, then by the body; some bodies say that the request is at fault.
ClassifyHttpError(status, body) ==
    CASE body = "improper" -> "unknown"
      [] body # "improper" /\ status = 429 -> "rate_limit"
      [] body # "improper" /\ status = 401 -> "auth_error"
      [] body # "improper" /\ status = 402 -> "billing_error"
      [] body # "improper" /\ status = 404 -> "model_not_found"
      [] body # "improper" /\ status = 500 -> "transient"
      [] status = 400 /\ body = "billing" -> "billing_error"
      [] status = 400 /\ body = "overflow" -> "context_overflow"
      [] OTHER -> "unknown"

Throw(kind) ==
    /\ phase = "transfer"
    /\ phase' = "thrown" /\ error' = kind
    /\ wire' = <<>>
    /\ UNCHANGED <<api, mode, asked, payload, server, ctx, out>>
\* The errors of Qwen and Google are no ProviderErrors.
Reported(kind) == IF api \in {"qwen", "google"} THEN "runtime_error" ELSE kind
\* The body of a streamed reply went to the stream, and is not looked at.
ErrorBody(body) == IF mode = "stream" THEN "" ELSE body
HttpError(status, body) ==
    /\ server = Quiet /\ wire = <<>>
    /\ Throw(Reported(ClassifyHttpError(status, ErrorBody(body))))
CurlError(kind) == Throw(Reported(kind))

-----------------------------------------------------------------------------

Init ==
    /\ api \in Api /\ mode \in {"stream", "plain"}
    /\ asked \in Messages
    /\ payload = <<>>
    /\ server = Quiet
    /\ wire = <<>>
    /\ ctx = Empty
    /\ out = <<>>
    /\ phase = "new"
    /\ error = "none"

ChatCompletion ==
    /\ phase = "new"
    /\ payload' = CASE api = "anthropic" -> serialize_messages_to_anthropic(asked)
                    [] api = "openai"    -> serialize_messages_to_openai(asked)
                    [] api = "qwen"      -> SerializeQwen(asked)
                    [] api = "google"    -> ConvertRequestToGemini(asked)
    /\ phase' = "transfer"
    /\ UNCHANGED <<api, mode, asked, server, wire, ctx, out, error>>

\* The server sends lines to a client that asked for a stream, which Google's does not,
\* and may send them to Anthropic's whatever it asked for.
Streams == (mode = "stream" /\ api # "google") \/ api = "anthropic"

Next ==
    \/ ChatCompletion
    \/ Streams /\ \/ ServerText \/ ServerCall \/ ServerDone
                  \/ \E c \in 1..MaxCalls : ServerPiece(c)
                  \/ \E finish \in {"stop", "tool_calls", "length"} : ServerFinish(finish)
                  \/ Receive \/ ReceiveNull \/ TransferEnds
    \/ \E n \in 0..MaxCalls, text \in BOOLEAN : Document(n, text)
    \/ \E status \in Status, body \in Body : HttpError(status, body)
    \/ \E kind \in {"timeout", "transient", "unknown"} : CurlError(kind)

Spec == Init /\ [][Next]_vars

-----------------------------------------------------------------------------
(* Properties *)

TypeOK ==
    /\ api \in Api /\ mode \in {"stream", "plain"}
    /\ phase \in {"new", "transfer", "returned", "thrown"}
    /\ server.begun \in 0..MaxCalls /\ server.sent \in [1..MaxCalls -> 0..Pieces]
    /\ \A i \in DOMAIN out : out[i].type \in {"text", "calls", "end"}

Given == FlattenSeq([i \in DOMAIN out |-> out[i].calls])

\* Wherever a stream ends or breaks, each call is given to the caller at most once, in
\* order, with arguments that are its own and complete, unless the server never sent
\* all of them; the end comes last, once, and when it comes no call is missing.
CallsAsSent ==
    Streams /\ server.finish # "document" =>
        /\ \A i \in DOMAIN Given :
              Given[i].id = i /\ (Given[i].args = "whole" \/ server.sent[i] < Pieces)
        /\ \A i \in DOMAIN out : out[i] = End => i = Len(out) /\ Len(Given) = server.begun

Blocks(ms, type) == {b \in UNION {Range(ms[i].content) : i \in DOMAIN ms} : b[1] = type}

\* What is sent to Anthropic or to OpenAI has every use and every result of a tool
\* that the request has, in whichever messages they stand together.
PairsSent ==
    phase # "new" /\ api \in {"anthropic", "openai"} =>
        Blocks(payload, "use") = Blocks(asked, "use") /\ Blocks(payload, "result") = Blocks(asked, "result")
=============================================================================
