------------------------------ MODULE Gateway ------------------------------
(***************************************************************************)
(* GatewayServer (gateway/gateway_server.cpp): WebSocket connections, the  *)
(* hello handshake with its lockout, RPC requests, the watchdog thread     *)
(* and aborts.  The health probe is in Health.                             *)
(*                                                                         *)
(* ixwebsocket runs one thread per connection, which delivers Open, the    *)
(* messages and Close in turn; a handler runs on the thread of the         *)
(* connection that asked for it.  A step is what happens between two       *)
(* acquisitions of the server's mutexes.  A client uses each request       *)
(* identifier once, but two clients may well choose the same one.          *)
(*                                                                         *)
(* A connection gets an identifier that never comes back, so what the      *)
(* server remembers of a closed one is dead: Conn are slots, and Close     *)
(* makes the slot free for a connection of which nothing is known.         *)
(***************************************************************************)
EXTENDS Naturals

CONSTANTS
    Conn,           \* connections at one time
    Id,             \* identifiers of RPC requests
    AuthModes,      \* SetAuth: "none", "open" (token mode, no token set), "token"
    MaxAttempts,    \* auth_max_attempts_
    None

Kind == {"short", "final"}      \* PendingRequest.expect_final
Entry == [final : BOOLEAN, overdue : BOOLEAN]
Client == [auth : BOOLEAN, pending : [Id -> Entry \cup {None}]]

ASSUME BoundAssumption == MaxAttempts \in Nat \ {0}
ASSUME NameAssumption ==
    /\ AuthModes \subseteq {"none", "open", "token"}
    /\ None \notin Conn /\ None \notin Id /\ None \notin Kind
    /\ None \notin Entry /\ None \notin Client

VARIABLES
    life,       \* running_, and whether Stop has returned
    mode,       \* auth_mode_ and expected_token_
    conn,       \* connections_: per connection None or its ClientConnection
    fails,      \* auth_fail_counts_, as far as MaxAttempts
    locked,     \* the connections whose auth_lockout_until_ lies ahead
    active,     \* active_requests_: request identifier -> connection, or None
    thread,     \* what the thread of each connection is doing
    expired,    \* watchdog_tick's timed_out, still to be answered
    asked,      \* per connection and identifier: the kind of request made, or None
    answers     \* per connection and identifier: the responses sent

authVars == <<mode, fails, locked>>
wireVars == <<asked, answers>>
vars == <<life, authVars, conn, active, thread, expired, wireVars>>

Hellos == {"good", "bad"}

Idle == [at |-> "idle", id |-> None, kind |-> None]
Away == [at |-> "away", id |-> None, kind |-> None]    \* not connected

Pending(c, id) == conn[c] # None /\ conn[c].pending[id] # None

Init ==
    /\ life = "stopped"
    /\ mode \in AuthModes
    /\ conn = [c \in Conn |-> None]
    /\ fails = [c \in Conn |-> 0]
    /\ locked = {}
    /\ active = [id \in Id |-> None]
    /\ thread = [c \in Conn |-> Away]
    /\ expired = {}
    /\ asked = [c \in Conn |-> [id \in Id |-> None]]
    /\ answers = [c \in Conn |-> [id \in Id |-> {}]]

-----------------------------------------------------------------------------
(* Life of the server *)

Start ==
    /\ life = "stopped"
    /\ life' = "running"
    /\ UNCHANGED <<authVars, conn, active, thread, expired, wireVars>>

\* Stop clears running_, then joins the watchdog and the connection threads,
\* and clears the tables when all of them are gone.
Stop ==
    /\ life = "running"
    /\ life' = "stopping"
    /\ UNCHANGED <<authVars, conn, active, thread, expired, wireVars>>

StopReturns ==
    /\ life = "stopping"
    /\ expired = {}
    /\ \A c \in Conn : thread[c] = Away
    /\ life' = "stopped"
    /\ UNCHANGED <<authVars, conn, active, thread, expired, wireVars>>

-----------------------------------------------------------------------------
(* on_connection *)

Open(c) ==
    /\ life # "stopped"
    /\ thread[c] = Away
    /\ thread' = [thread EXCEPT ![c] = Idle]
    /\ conn' = [conn EXCEPT ![c] = [auth |-> FALSE, pending |-> [id \in Id |-> None]]]
    /\ UNCHANGED <<life, authVars, active, expired, wireVars>>

\* Mutation: a connection that closes with an error keeps its entry.
CloseKeepsEntry(c) ==
    /\ thread[c] = Idle
    /\ thread' = [thread EXCEPT ![c] = Away]
    /\ UNCHANGED <<life, authVars, conn, active, expired, wireVars>>
\* (The watchdog would find nobody to answer.)
Close(c) ==
    /\ thread[c] = Idle
    /\ thread' = [thread EXCEPT ![c] = Away]
    /\ conn' = [conn EXCEPT ![c] = None]
    /\ fails' = [fails EXCEPT ![c] = 0]
    /\ locked' = locked \ {c}
    /\ expired' = {r \in expired : r[1] # c}
    /\ asked' = [asked EXCEPT ![c] = [id \in Id |-> None]]
    /\ answers' = [answers EXCEPT ![c] = [id \in Id |-> {}]]
    /\ UNCHANGED <<life, mode, active>>

\* handle_message: the request is noted in active_requests_, under its
\* identifier alone, before anything is checked.
Receive(c, id, kind) ==
    /\ thread[c] = Idle
    /\ asked[c][id] = None
    /\ active' = [active EXCEPT ![id] = c]
    /\ asked' = [asked EXCEPT ![c][id] = kind]
    /\ thread' = [thread EXCEPT ![c] = [at |-> "admit", id |-> id, kind |-> kind]]
    /\ UNCHANGED <<life, authVars, conn, expired, answers>>

\* Mutation: an early return of handle_rpc_request passes the clean-up by.
FinishServedOnly(c) ==
    /\ thread[c].at = "done"
    /\ active' = IF thread[c].kind = "final" THEN active
                 ELSE [active EXCEPT ![thread[c].id] = None]
    /\ thread' = [thread EXCEPT ![c] = Idle]
    /\ UNCHANGED <<life, authVars, conn, expired, wireVars>>

\* The entry is erased at the end, whoever's it is by then.
Finish(c) ==
    /\ thread[c].at = "done"
    /\ active' = [active EXCEPT ![thread[c].id] = None]
    /\ thread' = [thread EXCEPT ![c] = Idle]
    /\ UNCHANGED <<life, authVars, conn, expired, wireVars>>

-----------------------------------------------------------------------------
(* handle_hello *)

BadToken(c) ==
    LET n == IF fails[c] < MaxAttempts THEN fails[c] + 1 ELSE MaxAttempts IN
    /\ fails' = [fails EXCEPT ![c] = n]
    /\ locked' = IF n >= MaxAttempts THEN locked \cup {c} ELSE locked
    /\ UNCHANGED conn

Authenticated(c) == conn' = [conn EXCEPT ![c].auth = TRUE]

TokenAccepted(c) ==
    /\ fails' = [fails EXCEPT ![c] = 0]
    /\ locked' = locked \ {c}
    /\ Authenticated(c)

\* Mutation: the lockout is looked at only when the token is wrong.
TokenCheckedFirst(c, kind) ==
    \/ kind = "bad" /\ BadToken(c)
    \/ kind = "good" /\ TokenAccepted(c)
CheckToken(c, kind) ==
    \/ c \in locked /\ UNCHANGED <<fails, locked, conn>>
    \/ c \notin locked /\ kind = "bad" /\ BadToken(c)
    \/ c \notin locked /\ kind = "good" /\ TokenAccepted(c)

\* A hello with a good or a bad token, on the connection's thread.  (One that
\* does not parse changes nothing here; it leaves an entry in active_requests_
\* under its own identifier and is not answered.)
Hello(c, kind) ==
    /\ thread[c] = Idle
    /\ IF mode = "token" THEN CheckToken(c, kind)
       ELSE Authenticated(c) /\ UNCHANGED <<fails, locked>>
    /\ UNCHANGED <<life, mode, active, thread, expired, wireVars>>

SetAuth(m) ==
    /\ mode' = m
    /\ UNCHANGED <<life, fails, locked, conn, active, thread, expired, wireVars>>

LockoutExpires(c) ==
    /\ c \in locked
    /\ locked' = locked \ {c}
    /\ UNCHANGED <<life, mode, fails, conn, active, thread, expired, wireVars>>

\* With an identifier, or for everyone.
ClearAuthLockout(cs) ==
    /\ fails' = [c \in Conn |-> IF c \in cs THEN 0 ELSE fails[c]]
    /\ locked' = locked \ cs
    /\ UNCHANGED <<life, mode, conn, active, thread, expired, wireVars>>

-----------------------------------------------------------------------------
(* handle_rpc_request *)

\* A response from the connection's own thread.
Answered(c) == answers' = [answers EXCEPT ![c][thread[c].id] = @ \cup {"reply"}]

\* An unknown method, a lack of permission or the rate limit.
Refuse(c) ==
    /\ thread[c].at = "admit"
    /\ thread' = [thread EXCEPT ![c].at = "done"]
    /\ Answered(c)
    /\ UNCHANGED <<life, authVars, conn, active, expired, asked>>

\* Without authentication this is all there is.
Authorized(c) == mode = "none" \/ conn[c].auth

Admit(c) ==
    /\ thread[c].at = "admit"
    /\ Authorized(c)
    /\ thread' = [thread EXCEPT ![c].at = "running"]
    /\ conn' = [conn EXCEPT ![c].pending[thread[c].id] =
                    [final |-> thread[c].kind = "final", overdue |-> FALSE]]
    /\ UNCHANGED <<life, authVars, active, expired, wireVars>>

\* Mutation: the response goes before the entry.
HandlerAnswersFirst(c) ==
    /\ thread[c].at \in {"running", "reply"}
    /\ IF thread[c].at = "running"
       THEN thread' = [thread EXCEPT ![c].at = "reply"] /\ Answered(c) /\ UNCHANGED conn
       ELSE /\ thread' = [thread EXCEPT ![c].at = "done"]
            /\ conn' = [conn EXCEPT ![c].pending[thread[c].id] = None]
            /\ UNCHANGED answers
    /\ UNCHANGED <<life, authVars, active, expired, asked>>

\* The handler returns, or throws; the entry goes before the response.
HandlerEnds(c) ==
    /\ thread[c].at = "running"
    /\ thread' = [thread EXCEPT ![c].at = "reply"]
    /\ conn' = [conn EXCEPT ![c].pending[thread[c].id] = None]
    /\ UNCHANGED <<life, authVars, active, expired, wireVars>>

\* It is sent whether or not the watchdog has answered meanwhile.
Reply(c) ==
    /\ thread[c].at = "reply"
    /\ thread' = [thread EXCEPT ![c].at = "done"]
    /\ Answered(c)
    /\ UNCHANGED <<life, authVars, conn, active, expired, asked>>

AbortRequest(c, id) ==
    /\ active[id] = c
    /\ active' = [active EXCEPT ![id] = None]
    /\ UNCHANGED <<life, authVars, conn, thread, expired, wireVars>>

-----------------------------------------------------------------------------
(* Clock and watchdog *)

\* request_timeout_ms_ has passed since the request came in.
TimePasses(c, id) ==
    /\ Pending(c, id)
    /\ ~conn[c].pending[id].overdue
    /\ conn' = [conn EXCEPT ![c].pending[id].overdue = TRUE]
    /\ UNCHANGED <<life, authVars, active, thread, expired, wireVars>>

\* Mutation: long-running requests time out as well.
OverdueOfAnyKind == {r \in Conn \X Id :
    /\ Pending(r[1], r[2])
    /\ conn[r[1]].pending[r[2]].overdue}
\* Mutation: only they do.
OverdueInverted == {r \in Conn \X Id :
    /\ Pending(r[1], r[2])
    /\ conn[r[1]].pending[r[2]].final
    /\ conn[r[1]].pending[r[2]].overdue}
Overdue == {r \in Conn \X Id :
    /\ Pending(r[1], r[2])
    /\ ~conn[r[1]].pending[r[2]].final
    /\ conn[r[1]].pending[r[2]].overdue}

\* watchdog_tick: entries are collected and erased under the mutex ...
WatchdogTick ==
    /\ life # "stopped"
    /\ expired = {}
    /\ Overdue # {}
    /\ expired' = Overdue
    /\ conn' = [c \in Conn |->
                  IF conn[c] = None THEN None
                  ELSE [conn[c] EXCEPT !.pending =
                          [id \in Id |-> IF <<c, id>> \in Overdue THEN None ELSE @[id]]]]
    /\ UNCHANGED <<life, authVars, active, thread, wireVars>>

\* ... and answered one by one afterwards, if the connection is still there.
WatchdogAnswer(c, id) ==
    /\ <<c, id>> \in expired
    /\ expired' = expired \ {<<c, id>>}
    /\ answers' = IF conn[c] = None THEN answers
                  ELSE [answers EXCEPT ![c][id] = @ \cup {"timeout"}]
    /\ UNCHANGED <<life, authVars, conn, active, thread, asked>>

-----------------------------------------------------------------------------
\* A connection thread, but for the handlers, which take as long as they like.
ConnStep(c) == Admit(c) \/ Reply(c) \/ Finish(c)

Watchdog == WatchdogTick \/ \E c \in Conn, id \in Id : WatchdogAnswer(c, id)

Next ==
    \/ Start \/ Stop \/ StopReturns
    \/ \E c \in Conn :
          \/ Open(c) \/ Close(c) \/ ConnStep(c) \/ Refuse(c) \/ HandlerEnds(c)
          \/ LockoutExpires(c) \/ ClearAuthLockout({c})
          \/ \E kind \in Hellos : Hello(c, kind)
          \/ \E id \in Id, kind \in Kind : Receive(c, id, kind)
          \/ \E id \in Id : AbortRequest(c, id)
          \/ \E id \in Id : TimePasses(c, id)
    \/ ClearAuthLockout(Conn)
    \/ \E m \in AuthModes : SetAuth(m)
    \/ Watchdog

Spec == Init /\ [][Next]_vars

\* The clock runs and the threads are scheduled; handlers may hang.
FairSpec ==
    /\ Spec
    /\ \A c \in Conn : WF_vars(ConnStep(c))
    /\ \A c \in Conn, id \in Id : WF_vars(TimePasses(c, id))
    /\ WF_vars(Watchdog)

-----------------------------------------------------------------------------
(* Properties *)

ThreadState == [at : {"away", "idle", "admit", "running", "reply", "done"},
                id : Id \cup {None}, kind : Kind \cup {None}]

\* Every variable keeps its type, and connections_ has an entry exactly for the
\* connections whose thread is between Open and Close.
TypeOK ==
    /\ life \in {"stopped", "running", "stopping"}
    /\ mode \in AuthModes
    /\ conn \in [Conn -> Client \cup {None}]
    /\ fails \in [Conn -> 0 .. MaxAttempts]
    /\ locked \subseteq Conn
    /\ active \in [Id -> Conn \cup {None}]
    /\ thread \in [Conn -> ThreadState]
    /\ expired \subseteq Conn \X Id
    /\ asked \in [Conn -> [Id -> Kind \cup {None}]]
    /\ answers \in [Conn -> [Id -> SUBSET {"reply", "timeout"}]]
    /\ \A c \in Conn : (conn[c] = None) = (thread[c] = Away)

\* A request the watchdog may still time out has not been answered and is not
\* about to be: the entry of pending_requests goes before either answer, so
\* one request is never answered twice by the same side.
PendingUnanswered ==
    \A c \in Conn, id \in Id : Pending(c, id) =>
        /\ thread[c].at = "running" /\ thread[c].id = id
        /\ answers[c][id] = {}
        /\ <<c, id>> \notin expired

\* agent.request and chat.send (expect_final) are never timed out, whatever
\* their age, the other connections' identifiers and the watchdog's delay.
FinalNeverTimedOut ==
    \A c \in Conn, id \in Id :
        <<c, id>> \in expired \/ "timeout" \in answers[c][id] => asked[c][id] = "short"

\* The watchdog and the handler of a request, which race for its entry, each
\* answer what is theirs to answer.
\* (gateway/gateway_server.cpp, watchdog_tick and handle_rpc_request.)
AnsweredByRight == PendingUnanswered /\ FinalNeverTimedOut

\* An RPC request that AbortRequest finds for a connection is one that the
\* connection's thread still works on, even when connections choose the same
\* identifiers and overwrite and erase each other's entries.
AbortFindsOwn ==
    \A c \in Conn, id \in Id : active[id] = c => thread[c].id = id

\* The threads that work on a request know it by the identifier and the kind
\* the client asked with, and an entry of pending_requests is of that kind.
ThreadShape ==
    \A c \in Conn :
        \/ thread[c] = Away \/ thread[c] = Idle
        \/ /\ thread[c].at \in {"admit", "running", "reply", "done"}
           /\ thread[c].id \in Id /\ thread[c].kind \in Kind
           /\ asked[c][thread[c].id] = thread[c].kind
EntryOfItsKind ==
    \A c \in Conn, id \in Id :
        Pending(c, id) => conn[c].pending[id].final = (asked[c][id] = "final")

\* What has not been asked, or is not let in yet, has no answer of any kind.
NothingEarly ==
    \A c \in Conn, id \in Id :
        asked[c][id] = None \/ (thread[c].at = "admit" /\ thread[c].id = id) =>
            answers[c][id] = {} /\ <<c, id>> \notin expired

\* The inductive invariant: what is answered is answered by right because the
\* entries belong to requests in progress and are of the kind asked for.
IInv ==
    /\ TypeOK /\ ThreadShape /\ EntryOfItsKind /\ NothingEarly
    /\ AnsweredByRight /\ AbortFindsOwn

\* While the lockout of a connection runs, no hello authenticates it.
LockoutHolds ==
    [][\A c \in Conn : c \in locked /\ mode = "token" =>
          \/ conn'[c] = None \/ ~conn'[c].auth
          \/ conn[c] # None /\ conn[c].auth]_vars

\* A short request is answered though its handler may never return, unless the
\* connection or the server ends first.
ShortRequestsAnswered ==
    \A c \in Conn, id \in Id :
        (Pending(c, id) /\ ~conn[c].pending[id].final)
            ~> (answers[c][id] # {} \/ conn[c] = None \/ life # "running")
=============================================================================
