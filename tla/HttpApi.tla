------------------------------ MODULE HttpApi ------------------------------
(***************************************************************************)
(* The HTTP interface (web/web_server.cpp, web/api_routes.cpp): the        *)
(* server's start and stop, the routes that ask the agent - plain, as a    *)
(* stream of events through a queue between the agent's callback and the   *)
(* response's content provider, and in OpenAI's format - the transcript    *)
(* they keep, and the token usage they report.                             *)
(* The agent runs one turn at a time (session_write_mutex_).               *)
(***************************************************************************)
EXTENDS Integers, Sequences

CONSTANTS
  Req,        \* requests, each made once
  Key,        \* session keys
  Kind,       \* routes in use: "request", "channel", "stream", "chat", "chatstream"
  MaxEvents,  \* bound: events of a turn
  None

VARIABLES
  server,      \* "off", "starting", "listening", "stopping"
  req,         \* what each request is, does and has got
  transcript,  \* the messages of each session
  usage,       \* UsageAccumulator: calls recorded for each session
  agent,       \* the request whose turn holds session_write_mutex_
  pushed       \* everything the worker of a request put in its queue

vars == <<server, req, transcript, usage, agent, pushed>>

Streams == {"stream", "chatstream"}
Chats == {"chat", "chatstream"}
Terminal == {"done", "error"}
Fresh == [at |-> "new", kind |-> None, key |-> None, hist |-> 0, chunks |-> <<>>, finished |-> FALSE,
          sent |-> <<>>, open |-> TRUE, before |-> 0, calls |-> 0, status |-> None]

Event == {"event", "done", "error"}
Stage == {"new", "wait", "turn", "save", "serve", "closed"}
Status == {None, 200, 400, 401, 500}

\* A request, its handler's local variables, and its StreamState: the queue, the
\* flag, and what the client was sent.
RequestState ==
  [at : Stage, kind : Kind \cup {None},
   key : Key \cup {None}, hist : Nat, chunks : Seq(Event), finished : BOOLEAN, sent : Seq(Event),
   open : BOOLEAN, before : Int, calls : Nat, status : Status]

TypeOK ==
  /\ server \in {"off", "starting", "listening", "stopping"}
  /\ req \in [Req -> RequestState]
  /\ \A r \in Req : req[r].at \in {"wait", "turn", "save"} => req[r].key \in Key
  /\ transcript \in [Key -> Seq(Req)]
  /\ usage \in [Key -> Nat] /\ agent \in Req \cup {None}
  /\ pushed \in [Req -> Seq(Event)]

Init ==
  /\ server = "off" /\ req = [r \in Req |-> Fresh] /\ transcript = [k \in Key |-> <<>>]
  /\ usage = [k \in Key |-> 0] /\ agent = None /\ pushed = [r \in Req |-> <<>>]

-----------------------------------------------------------------------------
(* The server.                                                             *)

Start ==
  /\ server = "off" /\ server' = "starting"
  /\ UNCHANGED <<req, transcript, usage, agent, pushed>>

\* The server's thread has registered the routes and listens.
server_loop ==
  /\ server = "starting" /\ server' = "listening"
  /\ UNCHANGED <<req, transcript, usage, agent, pushed>>

\* Stop ends the listening; it returns when the requests have been served.
\* (A Stop before the thread listens has no effect, and then waits for it for
\* good: the gateway stops the server long after it started it.)
Stop ==
  /\ server = "listening" /\ server' = "stopping"
  /\ UNCHANGED <<req, transcript, usage, agent, pushed>>

Stopped ==
  /\ server = "stopping" /\ \A r \in Req : req[r].at \in {"new", "closed"}
  /\ server' = "off"
  /\ UNCHANGED <<req, transcript, usage, agent, pushed>>

-----------------------------------------------------------------------------
(* Requests.                                                               *)

\* The handler returns, and the server sends its response.
Answer(q, status) == [q EXCEPT !.at = "closed", !.status = status]

\* A request without the token ends before its route is entered, ...
Unauthorized(r) ==
  /\ server = "listening" /\ req[r].at = "new"
  /\ req' = [req EXCEPT ![r] = Answer(@, 401)]
  /\ UNCHANGED <<server, transcript, usage, agent, pushed>>

\* ... one without a message before anything is done.
BadRequest(r) ==
  /\ server = "listening" /\ req[r].at = "new"
  /\ req' = [req EXCEPT ![r] = Answer(@, 400)]
  /\ UNCHANGED <<server, transcript, usage, agent, pushed>>

Accept(r, kind, k, hist) ==
  /\ kind \in Kind /\ server = "listening" /\ req[r].at = "new"
  /\ req' = [req EXCEPT ![r] = [Fresh EXCEPT !.at = "wait", !.kind = kind, !.key = k, !.hist = hist,
                                            !.before = usage[k]]]
  /\ UNCHANGED <<server, usage, agent, pushed>>

\* The agent's own routes append the question and then take the history but its
\* last message.
AcceptOwn(r, kind, k) ==
  /\ transcript' = [transcript EXCEPT ![k] = Append(@, r)]
  /\ Accept(r, kind, k, Len(transcript[k]))

AgentRequest(r, k) == AcceptOwn(r, "request", k)
AgentStream(r, k) == AcceptOwn(r, "stream", k)
ChannelMessage(r, k) == AcceptOwn(r, "channel", k)

\* The OpenAI route takes the caller's history and touches no transcript.
ChatCompletions(r, k) ==
  /\ \E kind \in Chats : Accept(r, kind, k, 0)
  /\ UNCHANGED transcript

\* ProcessMessage and ProcessMessageStream wait for each other.
BeginTurn(r) ==
  /\ req[r].at = "wait" /\ agent = None /\ agent' = r
  /\ req' = [req EXCEPT ![r].at = "turn"]
  /\ UNCHANGED <<server, transcript, usage, pushed>>

\* The provider answers once more within the turn; the OpenAI routes have the
\* usage recorded under the request's session, the others under the loop's own.
Record(r) ==
  /\ req[r].at = "turn" /\ req[r].calls < MaxEvents
  /\ req' = [req EXCEPT ![r].calls = @ + 1]
  /\ usage' = IF req[r].kind \in Chats
               THEN [usage EXCEPT ![req[r].key] = @ + 1] ELSE usage
  /\ UNCHANGED <<server, transcript, agent, pushed>>

\* What the worker puts in the queue, under its mutex.
Push(r, e, finished) ==
  /\ req' = [req EXCEPT ![r].chunks = Append(@, e), ![r].finished = finished,
                        ![r].at = IF finished THEN "serve" ELSE @]
  /\ pushed' = [pushed EXCEPT ![r] = Append(@, e)]

\* The agent's callback: every event of the agent's own stream, the text of the
\* OpenAI one.
OnEvent(r) ==
  /\ req[r].at = "turn" /\ req[r].kind \in Streams /\ Len(pushed[r]) < MaxEvents
  /\ Push(r, "event", FALSE)
  /\ UNCHANGED <<server, transcript, usage, agent>>

EndTurn(r) ==
  /\ req[r].at = "turn" /\ agent' = None
  /\ req' = [req EXCEPT ![r].at = "save"]
  /\ UNCHANGED <<server, transcript, usage, pushed>>

Replied(r) ==
  IF req[r].kind \in Chats THEN transcript
  ELSE [transcript EXCEPT ![req[r].key] = Append(@, r)]

\* The turn's messages are appended; then the answer, or the last event and
\* the flag in one step.
Finish(r) ==
  /\ req[r].at = "save" /\ req[r].kind \notin Streams
  /\ transcript' = Replied(r)
  /\ req' = [req EXCEPT ![r] = Answer([@ EXCEPT !.before = usage[req[r].key] - req[r].before], 200)]
  /\ UNCHANGED <<server, usage, agent, pushed>>

\* Mutant of FinishStream: the stream is finished before its last event is put
\* in the queue.
FinishStreamEarly(r) ==
  /\ req[r].at = "save" /\ req[r].kind \in Streams
  /\ IF req[r].finished
     THEN /\ req' = [req EXCEPT ![r].chunks = Append(@, "done"), ![r].at = "serve"]
          /\ pushed' = [pushed EXCEPT ![r] = Append(@, "done")]
          /\ transcript' = Replied(r)
     ELSE /\ req' = [req EXCEPT ![r].finished = TRUE] /\ UNCHANGED <<pushed, transcript>>
  /\ UNCHANGED <<server, usage, agent>>

FinishStream(r) ==
  /\ req[r].at = "save" /\ req[r].kind \in Streams
  /\ Push(r, "done", TRUE) /\ transcript' = Replied(r)
  /\ UNCHANGED <<server, usage, agent>>

\* The turn threw: an answer 500; the agent's stream ends with an event for
\* it, the OpenAI one ends without.
TurnFails(r) ==
  /\ req[r].at = "turn" /\ agent' = None
  /\ CASE req[r].kind = "stream" -> Push(r, "error", TRUE)
       [] req[r].kind = "chatstream" ->
            req' = [req EXCEPT ![r].finished = TRUE, ![r].at = "serve"] /\ UNCHANGED pushed
       [] OTHER -> req' = [req EXCEPT ![r] = Answer(@, 500)] /\ UNCHANGED pushed
  /\ UNCHANGED <<server, transcript, usage>>

\* The content provider sends what is there and ends the response when the
\* flag is set; nothing is sent to a client that has gone.
ContentProvider(r) ==
  LET q == req[r]
  IN  /\ q.kind \in Streams /\ q.status = None /\ q.open
      /\ q.chunks # <<>> \/ q.finished
      /\ req' = [req EXCEPT ![r].sent = @ \o q.chunks, ![r].chunks = <<>>,
                   ![r].status = IF q.finished THEN 200 ELSE None,
                   ![r].at = IF q.finished /\ @ = "serve" THEN "closed" ELSE @]
      /\ UNCHANGED <<server, transcript, usage, agent, pushed>>

\* The client goes away: the turn goes on, its events stay in the queue.
ClientGone(r) ==
  /\ req[r].kind \in Streams /\ req[r].status = None /\ req[r].open
  /\ req' = [req EXCEPT ![r].open = FALSE]
  /\ UNCHANGED <<server, transcript, usage, agent, pushed>>

Abandoned(r) ==
  /\ ~req[r].open /\ req[r].at = "serve"
  /\ req' = [req EXCEPT ![r].at = "closed"]
  /\ UNCHANGED <<server, transcript, usage, agent, pushed>>

\* POST /api/sessions/delete and /reset.
ResetSession(k) ==
  /\ server = "listening" /\ transcript[k] # <<>> /\ transcript' = [transcript EXCEPT ![k] = <<>>]
  /\ UNCHANGED <<server, req, usage, agent, pushed>>

RequestStep(r) ==
  \/ BeginTurn(r) \/ Record(r) \/ OnEvent(r) \/ EndTurn(r) \/ Finish(r) \/ FinishStream(r)
  \/ TurnFails(r) \/ ContentProvider(r) \/ Abandoned(r)

Next ==
  \/ Start \/ server_loop \/ Stop \/ Stopped
  \/ \E r \in Req :
       \/ \E k \in Key : AgentRequest(r, k) \/ AgentStream(r, k) \/ ChannelMessage(r, k)
                          \/ ChatCompletions(r, k)
       \/ Unauthorized(r) \/ BadRequest(r) \/ RequestStep(r) \/ ClientGone(r)
  \/ \E k \in Key : ResetSession(k)

Spec == Init /\ [][Next]_vars

-----------------------------------------------------------------------------

\* A stream is complete: when the response of a stream ends, the client has got
\* every event that was put in the queue, in that order, and of the agent's own
\* stream the last one says how the turn ended, however the worker's pushes and
\* the provider's wakeups interleave.
\* (web/api_routes.cpp, the StreamState of /api/agent/stream and
\* /v1/chat/completions.)
StreamComplete ==
  \A r \in Req : req[r].kind \in Streams /\ req[r].status = 200 =>
    /\ req[r].sent = pushed[r]
    /\ req[r].kind = "stream" => pushed[r] # <<>> /\ pushed[r][Len(pushed[r])] \in Terminal

-----------------------------------------------------------------------------
(* The inductive invariant.                                                *)

\* What was sent and what is in the queue are together what was pushed; nothing
\* is pushed after the flag; and the response ends with the flag set and the
\* queue empty.
StreamOK(q, events) ==
  /\ events = q.sent \o q.chunks
  /\ q.at = "new" => q = Fresh
  /\ q.finished => q.at \in {"serve", "closed"}
  /\ q.kind = "stream" /\ q.finished => events # <<>> /\ events[Len(events)] \in Terminal
  /\ q.kind \in Streams /\ q.status # None =>
       q.finished /\ q.at = "closed" /\ q.chunks = <<>>

IInv == TypeOK /\ \A r \in Req : StreamOK(req[r], pushed[r])
=============================================================================
