------------------------------- MODULE Client -------------------------------
(***************************************************************************)
(* The gateway's client (gateway/gateway_client.cpp), which the command    *)
(* line uses: callers that wait for the answer to a call with a timeout,   *)
(* and the socket's thread, which matches frames to calls.                 *)
(* Both use the table of pending calls under pending_mutex_ and each       *)
(* call's own mutex, in different orders.                                  *)
(***************************************************************************)
EXTENDS Naturals, FiniteSets

CONSTANTS
  Caller,
  MaxCalls, MaxOpens,  \* bounds: calls, and times the socket opens
  None

VARIABLES
  socket,    \* "down", "open": the socket itself
  connected, authenticated, hello_done,  \* connected_, authenticated_, hello_done_
  conn,      \* what Connect is doing
  caller,    \* what each caller is doing, and its call
  pending,   \* pending_calls_
  done,      \* calls whose response is set
  tableLock, \* who holds pending_mutex_: a caller, "reader" or None
  callLock,  \* who holds the mutex of each call
  reader,    \* the call the socket's thread is resolving
  asked,     \* requests the gateway has received and not answered
  challenged,\* a challenge waits to be read
  events,    \* an event waits to be read
  counter, opens

vars == <<socket, connected, authenticated, hello_done, conn, caller, pending, done, tableLock,
          callLock, reader, asked, challenged, events, counter, opens>>

Call == 1 .. MaxCalls
Hello == 0
NoCall == [at |-> "idle", call |-> 0]
CallerState == [at : {"idle", "send", "wait", "timeout", "clean"}, call : Call \cup {0}]

TypeOK ==
  /\ socket \in {"down", "open"}
  /\ connected \in BOOLEAN /\ authenticated \in BOOLEAN /\ hello_done \in BOOLEAN
  /\ conn \in {"none", "opening", "hello", "up"}
  /\ caller \in [Caller -> CallerState]
  /\ pending \subseteq Call /\ done \subseteq Call /\ asked \subseteq Call \cup {Hello}
  /\ tableLock \in Caller \cup {"reader", None}
  /\ callLock \in [Call -> Caller \cup {"reader", None}]
  /\ reader \in Call \cup {0} /\ challenged \in BOOLEAN /\ events \in BOOLEAN
  /\ counter \in 0 .. MaxCalls /\ opens \in 0 .. MaxOpens

Init ==
  /\ socket = "down" /\ connected = FALSE /\ authenticated = FALSE /\ hello_done = FALSE
  /\ conn = "none" /\ caller = [c \in Caller |-> NoCall] /\ pending = {} /\ done = {}
  /\ tableLock = None /\ callLock = [n \in Call |-> None] /\ reader = 0
  /\ asked = {} /\ challenged = FALSE /\ events = FALSE /\ counter = 0 /\ opens = 0

session == <<socket, connected, authenticated, hello_done, conn, opens>>
wire == <<asked, challenged, events>>
locks == <<tableLock, callLock>>

-----------------------------------------------------------------------------
(* Connect and the socket.                                                 *)

\* ws_.start: the library connects, and connects again after a loss.
Connect ==
  /\ conn = "none" /\ conn' = "opening"
  /\ UNCHANGED <<socket, connected, authenticated, hello_done, opens, caller, pending, done, locks,
                 reader, wire, counter>>

ConnectSeesOpen ==
  /\ conn = "opening" /\ (connected \/ socket = "open")
  /\ connected' = TRUE /\ conn' = "hello"
  /\ UNCHANGED <<socket, authenticated, hello_done, opens, caller, pending, done, locks, reader,
                 wire, counter>>

\* Not open in time: the socket is stopped and Connect answers false.
ConnectGivesUp ==
  /\ conn = "opening" /\ ~connected
  /\ conn' = "none" /\ socket' = "down" /\ asked' = {} /\ challenged' = FALSE /\ events' = FALSE
  /\ UNCHANGED <<connected, authenticated, hello_done, opens, caller, pending, done, locks, reader,
                 counter>>

\* The hello came, or its time is up: Connect answers true in both cases.
ConnectReturns ==
  /\ conn = "hello" /\ conn' = "up"
  /\ UNCHANGED <<socket, connected, authenticated, hello_done, opens, caller, pending, done, locks,
                 reader, wire, counter>>

on_open ==
  /\ conn # "none" /\ socket = "down" /\ opens < MaxOpens /\ reader = 0
  /\ socket' = "open" /\ connected' = TRUE /\ challenged' = TRUE /\ opens' = opens + 1
  /\ UNCHANGED <<authenticated, hello_done, conn, caller, pending, done, locks, reader, asked, events,
                 counter>>

on_close ==
  /\ socket = "open" /\ reader = 0
  /\ socket' = "down" /\ connected' = FALSE /\ authenticated' = FALSE
  /\ asked' = {} /\ challenged' = FALSE /\ events' = FALSE
  /\ UNCHANGED <<hello_done, conn, opens, caller, pending, done, locks, reader, counter>>

\* Disconnect waits for the socket's thread.
Disconnect ==
  /\ conn = "up" /\ connected /\ reader = 0
  /\ socket' = "down" /\ connected' = FALSE /\ authenticated' = FALSE /\ conn' = "none"
  /\ asked' = {} /\ challenged' = FALSE /\ events' = FALSE
  /\ UNCHANGED <<hello_done, opens, caller, pending, done, locks, reader, counter>>

-----------------------------------------------------------------------------
(* Call.                                                                   *)

BeginCall(c) ==
  /\ conn = "up" /\ connected /\ caller[c].at = "idle" /\ counter < MaxCalls /\ tableLock = None
  /\ counter' = counter + 1 /\ pending' = pending \cup {counter'}
  /\ caller' = [caller EXCEPT ![c] = [at |-> "send", call |-> counter']]
  /\ UNCHANGED <<session, done, locks, reader, wire>>

\* The request is lost if the socket is down.
SendRequest(c) ==
  /\ caller[c].at = "send"
  /\ asked' = IF socket = "open" THEN asked \cup {caller[c].call} ELSE asked
  /\ caller' = [caller EXCEPT ![c].at = "wait"]
  /\ UNCHANGED <<session, pending, done, locks, reader, challenged, events, counter>>

Answered(c) ==
  /\ caller[c].at = "wait" /\ caller[c].call \in done /\ callLock[caller[c].call] = None
  /\ caller' = [caller EXCEPT ![c].at = "clean"]
  /\ UNCHANGED <<session, pending, done, locks, reader, wire, counter>>

\* wait_for gives up with the call's mutex held, ...
TimesOut(c) ==
  LET n == caller[c].call
  IN  /\ caller[c].at = "wait" /\ n \notin done /\ callLock[n] = None
      /\ callLock' = [callLock EXCEPT ![n] = c]
      /\ caller' = [caller EXCEPT ![c].at = "timeout"]
      /\ UNCHANGED <<session, pending, done, tableLock, reader, wire, counter>>

\* Mutant of Forgets: a call that timed out stays in the table.
ForgetsAnswered(c) ==
  LET n == caller[c].call
  IN  /\ caller[c].at \in {"timeout", "clean"} /\ tableLock = None
      /\ pending' = IF caller[c].at = "clean" THEN pending \ {n} ELSE pending
      /\ callLock' = [callLock EXCEPT ![n] = IF @ = c THEN None ELSE @]
      /\ caller' = [caller EXCEPT ![c] = NoCall]
      /\ UNCHANGED <<session, done, tableLock, reader, wire, counter>>

\* ... and then needs the table's, as a call that was answered does, which
\* holds none.
Forgets(c) ==
  LET n == caller[c].call
  IN  /\ caller[c].at \in {"timeout", "clean"} /\ tableLock = None
      /\ pending' = pending \ {n}
      /\ callLock' = [callLock EXCEPT ![n] = IF @ = c THEN None ELSE @]
      /\ caller' = [caller EXCEPT ![c] = NoCall]
      /\ UNCHANGED <<session, done, tableLock, reader, wire, counter>>

-----------------------------------------------------------------------------
(* handle_frame, in the socket's thread.                                   *)

ReadsChallenge ==
  /\ socket = "open" /\ reader = 0 /\ challenged /\ challenged' = FALSE
  /\ asked' = asked \cup {Hello}
  /\ UNCHANGED <<session, caller, pending, done, locks, reader, events, counter>>

ReadsHelloAnswer ==
  /\ socket = "open" /\ reader = 0 /\ Hello \in asked
  /\ asked' = asked \ {Hello} /\ authenticated' = TRUE /\ hello_done' = TRUE
  /\ UNCHANGED <<socket, connected, conn, opens, caller, pending, done, locks, reader, challenged,
                 events, counter>>

ReadsEvent ==
  /\ socket = "open" /\ reader = 0 /\ events /\ events' = FALSE
  /\ UNCHANGED <<session, caller, pending, done, locks, reader, asked, challenged, counter>>

GatewaySendsEvent ==
  /\ socket = "open" /\ authenticated /\ ~events /\ events' = TRUE
  /\ UNCHANGED <<session, caller, pending, done, locks, reader, asked, challenged, counter>>

\* A response: the table's mutex is taken; a call that is not there any more is
\* passed over, ...
ReadsResponse(n) ==
  /\ socket = "open" /\ reader = 0 /\ n \in asked /\ tableLock = None
  /\ asked' = asked \ {n}
  /\ IF n \in pending THEN tableLock' = "reader" /\ reader' = n ELSE UNCHANGED <<tableLock, reader>>
  /\ UNCHANGED <<session, caller, pending, done, callLock, challenged, events, counter>>

\* ... for one that is, the call's own mutex is taken as well.
Resolves ==
  /\ reader # 0 /\ callLock[reader] = None
  /\ done' = done \cup {reader} /\ tableLock' = None /\ reader' = 0
  /\ UNCHANGED <<session, caller, pending, callLock, wire, counter>>

-----------------------------------------------------------------------------

CallerStep(c) == SendRequest(c) \/ Answered(c) \/ TimesOut(c) \/ Forgets(c)

Next ==
  \/ Connect \/ ConnectSeesOpen \/ ConnectGivesUp \/ ConnectReturns \/ on_open \/ on_close \/ Disconnect
  \/ \E c \in Caller : BeginCall(c) \/ CallerStep(c)
  \/ ReadsChallenge \/ ReadsHelloAnswer \/ ReadsEvent \/ GatewaySendsEvent \/ Resolves
  \/ \E n \in Call : ReadsResponse(n)

\* Threads that can go on do so; a timeout comes.  Nothing is assumed of the
\* gateway.
Spec == Init /\ [][Next]_vars /\ WF_vars(Resolves) /\ \A c \in Caller : WF_vars(CallerStep(c))

-----------------------------------------------------------------------------

\* The table holds only calls that somebody waits for: an answer that comes
\* after the timeout, while the caller gives up, or never, leaves nothing
\* behind.
\* (gateway/gateway_client.cpp, Call and handle_frame.)
OnlyOpenCalls == \A n \in pending : \E c \in Caller : caller[c].call = n

\* "Synchronous RPC call (sends req, waits for res)" with a timeout: every call
\* ends, with the answer or with an error.  It does not when the answer comes
\* while the call times out: Call holds the call's mutex and waits for the
\* table's, handle_frame the other way round.
\* (include/ravbot/gateway/gateway_client.hpp, Call.)
CallEnds == \A c \in Caller : caller[c].at # "idle" ~> caller[c].at = "idle"

\* The inductive invariant: a caller without a call has no number.
IInv == TypeOK /\ OnlyOpenCalls /\ \A c \in Caller : caller[c].at = "idle" => caller[c].call = 0
=============================================================================
