------------------------------- MODULE Routes -------------------------------
(***************************************************************************)
(* The route manager of the gateway (gateway/route_manager.cpp) and the    *)
(* handlers of requests that use it (gateway/gateway_server.cpp,           *)
(* handle_message): each connection's thread attaches a route to a request *)
(* and records how a connect request was answered; other requests stay     *)
(* pending.  InheritRoute and SetPriority have no caller in the gateway.   *)
(* No route is ever removed.                                               *)
(***************************************************************************)
EXTENDS Naturals, Sequences

CONSTANTS
  Conn,         \* connections; the target session of a request is its connection
  Priority,
  MaxMessages,  \* bound: routes
  None

VARIABLES
  routes,            \* routes_: the identifier of a message is its number
  session_messages,  \* session_messages_
  hello,             \* the connect request that each connection's thread handles
  told               \* what the sender of each message was told, None for nothing yet

vars == <<routes, session_messages, hello, told>>

Message == 1 .. Len(routes)
Status == {"pending", "delivered", "failed"}

Route ==
  [source : {"websocket", None}, target : Conn, parent : Nat, external : BOOLEAN,
   priority : Priority \cup {"normal"}, status : Status]

TypeOK ==
  /\ routes \in Seq(Route)
  /\ session_messages \in [Conn -> Seq(Message)]
  /\ hello \in [Conn -> Message \cup {None}]
  /\ told \in [Message -> Status \cup {None}]

Init ==
  /\ routes = <<>> /\ session_messages = [s \in Conn |-> <<>>]
  /\ hello = [c \in Conn |-> None] /\ told = <<>>

-----------------------------------------------------------------------------

\* generate_message_id: the counter makes it new.
Entered(route) ==
  /\ Len(routes) < MaxMessages
  /\ routes' = Append(routes, route)
  /\ session_messages' = [session_messages EXCEPT ![route.target] = Append(@, Len(routes) + 1)]
  /\ told' = Append(told, None)

AttachMetadata(c) ==
  Entered([source |-> "websocket", target |-> c, parent |-> 0, external |-> FALSE,
           priority |-> "normal", status |-> "pending"])

\* A parent that is not known leaves no source.
InheritRoute(parent, s) ==
  /\ Entered(IF parent \in Message
             THEN [routes[parent] EXCEPT !.parent = parent, !.target = s, !.status = "pending"]
             ELSE [source |-> None, target |-> s, parent |-> parent, external |-> FALSE,
                   priority |-> "normal", status |-> "pending"])
  /\ UNCHANGED hello

\* Mutant of RecordDelivery: the route that was attached last is marked.
RecordLast(m, status) == routes' = [routes EXCEPT ![Len(routes)].status = status]
RecordDelivery(m, status) == routes' = [routes EXCEPT ![m].status = status]

SetPriority(m, priority) ==
  /\ routes' = [routes EXCEPT ![m].priority = priority]
  /\ UNCHANGED <<session_messages, hello, told>>

GetDeliveryStatus(m) == IF m \in Message THEN routes[m].status ELSE "pending"
\* The places of the session's messages that are found among the routes.
GetSessionMessages(s) == {i \in DOMAIN session_messages[s] : session_messages[s][i] \in Message}

\* handle_message: a connect request, whose answer is recorded in a second step ...
BeginHello(c) ==
  /\ hello[c] = None /\ AttachMetadata(c) /\ hello' = [hello EXCEPT ![c] = Len(routes) + 1]
EndHello(c, status) ==
  /\ hello[c] # None /\ RecordDelivery(hello[c], status)
  /\ told' = [told EXCEPT ![hello[c]] = status]
  /\ hello' = [hello EXCEPT ![c] = None]
  /\ UNCHANGED session_messages
\* ... and any other, of which nothing is recorded.
Request(c) == hello[c] = None /\ AttachMetadata(c) /\ UNCHANGED hello

Next ==
  \/ \E c \in Conn : BeginHello(c) \/ Request(c) \/ \E s \in {"delivered", "failed"} : EndHello(c, s)
  \/ \E s \in Conn, parent \in 1 .. MaxMessages : InheritRoute(parent, s)
  \/ \E m \in Message, p \in Priority : SetPriority(m, p)

Spec == Init /\ [][Next]_vars

-----------------------------------------------------------------------------

\* The manager's two tables agree: a session's messages are found, and are those
\* with that target, in the order in which they came, and the status of each is what its
\* own sender was told, whatever the other connections' threads do in between.
\* (gateway/route_manager.cpp, RecordDelivery and GetSessionMessages.)
RoutesAgree ==
  /\ \A s \in Conn :
       LET mine == session_messages[s] IN
       /\ GetSessionMessages(s) = DOMAIN mine
       /\ \A m \in Message : routes[m].target = s <=> \E i \in DOMAIN mine : mine[i] = m
       /\ \A i, j \in DOMAIN mine : i < j => mine[i] < mine[j]
  /\ \A m \in Message : GetDeliveryStatus(m) = IF told[m] = None THEN "pending" ELSE told[m]

\* What the proof of RoutesAgree rests on.
IInv == TypeOK /\ RoutesAgree
=============================================================================
