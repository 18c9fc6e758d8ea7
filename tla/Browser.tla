------------------------------ MODULE Browser ------------------------------
(***************************************************************************)
(* Browser sessions (tools/browser_tool.cpp): the manager's table of       *)
(* sessions, the callers that create, fetch, use and close them, and the   *)
(* thread that cleans up.  A session object owns a browser process and a   *)
(* web socket on which calls are matched to answers by a number; whoever   *)
(* holds the last reference to an object closes it.                        *)
(* Time shows only in that a session becomes idle or too old, and in that  *)
(* a call may be given up.                                                 *)
(***************************************************************************)
EXTENDS Naturals, FiniteSets

CONSTANTS
  Caller,
  Id,         \* session identifiers, "default" among them
  MaxObjects, \* bound: session objects
  MaxCalls,   \* bound: calls sent
  None

VARIABLES
  sessions,  \* sessions_: the object of each identifier, or None
  object,    \* the session objects made so far, and what each is doing
  who,       \* what each caller does and the object it holds
  cleaner,   \* lifecycle_thread_: the identifiers it found, and the object it closes
  made, sent, answer

vars == <<sessions, object, who, cleaner, made, sent, answer>>

Obj == 1 .. MaxObjects
Call == 1 .. MaxCalls

\* connected is connection_.is_running, socket the real state of the socket;
\* waiting is cdp_pending_ids_ and stored cdp_responses_.
Unused == [process |-> FALSE, connected |-> FALSE, socket |-> FALSE, idle |-> FALSE,
           old |-> FALSE, waiting |-> {}, stored |-> {}]

Free == [at |-> "free", obj |-> None, id |-> None, call |-> None]

BrowserState ==
  [process : BOOLEAN, connected : BOOLEAN, socket : BOOLEAN, idle : BOOLEAN, old : BOOLEAN,
   waiting : SUBSET Call, stored : SUBSET Call]
CallerState ==
  [at : {"free", "launch", "publish", "hold", "call", "close"}, obj : Obj \cup {None},
   id : Id \cup {None}, call : Call \cup {None}]

TypeOK ==
  /\ sessions \in [Id -> Obj \cup {None}] /\ object \in [Obj -> BrowserState]
  /\ who \in [Caller -> CallerState]
  /\ cleaner \in [ids : SUBSET Id, obj : Obj \cup {None}]
  /\ made \in 0 .. MaxObjects /\ sent \in 0 .. MaxCalls
  /\ answer \in {"none", "success", "error"}

-----------------------------------------------------------------------------

\* BrowserSession::close.
Closed(o) == [o EXCEPT !.process = FALSE, !.connected = FALSE, !.socket = FALSE]

\* Mutant of Released: no destructor.
ReleasedOnly(objs, table, callers, closer) == objs

\* The destructor of BrowserSession closes what nobody refers to any more.
Released(objs, table, callers, closer) ==
  [o \in Obj |->
     IF \/ \E i \in Id : table[i] = o
        \/ \E c \in Caller : callers[c].obj = o
        \/ closer = o
     THEN objs[o] ELSE Closed(objs[o])]

\* Every step of a caller: the new table, objects and state of the caller.
Step(c, table, objs, w) ==
  LET callers == [who EXCEPT ![c] = w]
  IN  /\ sessions' = table
      /\ who' = callers
      /\ object' = Released(objs, table, callers, cleaner.obj)
      /\ UNCHANGED cleaner

\* update_last_used: the session is no longer idle, and as old as it was.
Used(o) == [object EXCEPT ![o].idle = FALSE]

Init ==
  /\ sessions = [i \in Id |-> None] /\ object = [o \in Obj |-> Unused]
  /\ who = [c \in Caller |-> Free] /\ cleaner = [ids |-> {}, obj |-> None]
  /\ made = 0 /\ sent = 0 /\ answer = "none"

\* create_session makes an object under a new identifier, and
\* get_or_create_default one under "default" when the table has none that is
\* connected.  It is not in the table while it starts.
create_session(c, i) ==
  /\ who[c].at = "free" /\ made < MaxObjects
  /\ \/ i # "default" /\ sessions[i] = None /\ \A d \in Caller : who[d].id # i
     \/ i = "default" /\ (sessions[i] # None => ~object[sessions[i]].connected)
  /\ made' = made + 1
  /\ Step(c, sessions, object, [Free EXCEPT !.at = "launch", !.obj = made', !.id = i])
  /\ UNCHANGED <<sent, answer>>

get_or_create_default(c) ==
  LET o == sessions["default"]
  IN  /\ who[c].at = "free" /\ o # None /\ object[o].connected
      /\ Step(c, sessions, Used(o), [Free EXCEPT !.at = "hold", !.obj = o])
      /\ UNCHANGED <<made, sent, answer>>

get_session(c, i) ==
  /\ who[c].at = "free" /\ sessions[i] # None
  /\ Step(c, sessions, Used(sessions[i]), [Free EXCEPT !.at = "hold", !.obj = sessions[i]])
  /\ UNCHANGED <<made, sent, answer>>

\* The socket opened in time.
initialize(c, process) ==
  /\ who[c].at = "launch"
  /\ Step(c, sessions,
          [object EXCEPT ![who[c].obj].process = process, ![who[c].obj].connected = TRUE,
                         ![who[c].obj].socket = TRUE],
          [who[c] EXCEPT !.at = "publish"])
  /\ UNCHANGED <<made, sent, answer>>

\* A browser of the session's own is started and its endpoint found.
launch_local(c) == initialize(c, TRUE)

\* The browser runs elsewhere: only its socket is opened.
connect_remote(c) == initialize(c, FALSE)

\* No binary, no endpoint in time (the process is ended again), or no socket:
\* the object is given up.
initialize_fails(c) ==
  /\ who[c].at = "launch"
  /\ Step(c, sessions, object, Free)
  /\ UNCHANGED <<made, sent, answer>>

\* The object is entered in the table, over whatever another caller entered.
publish(c) ==
  /\ who[c].at = "publish"
  /\ Step(c, [sessions EXCEPT ![who[c].id] = who[c].obj], object,
          [Free EXCEPT !.at = "hold", !.obj = who[c].obj])
  /\ UNCHANGED <<made, sent, answer>>

release(c) ==
  /\ who[c].at = "hold"
  /\ Step(c, sessions, object, Free)
  /\ UNCHANGED <<made, sent, answer>>

\* close_session: out of the table, then closed.
close_session(c, i) ==
  /\ who[c].at = "free" /\ sessions[i] # None
  /\ Step(c, [sessions EXCEPT ![i] = None], object, [Free EXCEPT !.at = "close", !.obj = sessions[i]])
  /\ UNCHANGED <<made, sent, answer>>

close(c) ==
  /\ who[c].at = "close"
  /\ Step(c, sessions, [object EXCEPT ![who[c].obj] = Closed(@)], Free)
  /\ UNCHANGED <<made, sent, answer>>

close_all_sessions(c) ==
  LET gone == {sessions[i] : i \in Id} \ {None}
  IN  /\ who[c].at = "free" /\ gone # {}
      /\ Step(c, [i \in Id |-> None],
              [o \in Obj |-> IF o \in gone THEN Closed(object[o]) ELSE object[o]], who[c])
      /\ UNCHANGED <<made, sent, answer>>

\* cdp_send: the number is entered before the message is sent.
cdp_send(c) ==
  LET o == who[c].obj
  IN  /\ who[c].at = "hold" /\ object[o].connected /\ object[o].socket
      /\ sent < MaxCalls /\ sent' = sent + 1
      /\ Step(c, sessions, [object EXCEPT ![o].waiting = @ \cup {sent'}],
              [who[c] EXCEPT !.at = "call", !.call = sent'])
      /\ UNCHANGED <<made, answer>>

\* Without a connection it returns "{}", which navigate takes for a success.
cdp_send_unconnected(c) ==
  LET o == who[c].obj
  IN  /\ who[c].at = "hold" /\ ~(object[o].connected /\ object[o].socket)
      /\ answer' = "success"
      /\ UNCHANGED <<sessions, object, who, cleaner, made, sent>>

\* check_navigation refuses an address.
navigate_blocked(c) ==
  /\ who[c].at = "hold" /\ answer' = "error"
  /\ UNCHANGED <<sessions, object, who, cleaner, made, sent>>

\* Mutant of on_message: an answer is stored whether or not it is waited for.
on_message_any(o, n) ==
  /\ object[o].socket /\ n <= sent
  /\ object' = [object EXCEPT ![o].stored = @ \cup {n}]
  /\ UNCHANGED <<sessions, who, cleaner, made, sent, answer>>

\* The callback: the answer to a call that is still waited for is stored; one
\* that comes after its call was given up is dropped.
on_message(o, n) ==
  /\ object[o].socket /\ n <= sent
  /\ object' = [object EXCEPT ![o].stored = IF n \in object[o].waiting THEN @ \cup {n} ELSE @]
  /\ UNCHANGED <<sessions, who, cleaner, made, sent, answer>>

\* The caller wakes: with the answer, or because its time is up.  Both forget
\* the number; a timeout and an error of the browser give "{}" as well.
cdp_returns(c) ==
  LET o == who[c].obj
      n == who[c].call
  IN  /\ who[c].at = "call"
      /\ Step(c, sessions,
              [object EXCEPT ![o].waiting = @ \ {n}, ![o].stored = @ \ {n}],
              [who[c] EXCEPT !.at = "hold", !.call = None])
      /\ answer' = "success"
      /\ UNCHANGED <<made, sent>>

\* The browser dies or the connection breaks: is_running is not told.
SocketDrops(o, dies) ==
  /\ object[o].socket
  /\ object' = [object EXCEPT ![o].socket = FALSE, ![o].process = @ /\ ~dies]
  /\ UNCHANGED <<sessions, who, cleaner, made, sent, answer>>

\* is_session_idle or is_session_expired becomes true.
GrowsIdle(o) ==
  /\ object[o].connected /\ ~object[o].idle
  /\ object' = [object EXCEPT ![o].idle = TRUE]
  /\ UNCHANGED <<sessions, who, cleaner, made, sent, answer>>

GrowsOld(o) ==
  /\ object[o].connected /\ ~object[o].old
  /\ object' = [object EXCEPT ![o].old = TRUE]
  /\ UNCHANGED <<sessions, who, cleaner, made, sent, answer>>

\* What validate_session looks at.
Valid(o) == object[o].connected /\ ~object[o].idle /\ ~object[o].old

validate_session(i) ==
  /\ answer' = IF sessions[i] # None /\ Valid(sessions[i]) THEN "success" ELSE "error"
  /\ UNCHANGED <<sessions, object, who, cleaner, made, sent>>

\* cleanup_expired_sessions notes the identifiers under the lock ...
cleanup_notes ==
  LET bad == {i \in Id : sessions[i] # None /\ ~Valid(sessions[i])}
  IN  /\ cleaner.ids = {} /\ cleaner.obj = None /\ bad # {}
      /\ cleaner' = [cleaner EXCEPT !.ids = bad]
      /\ UNCHANGED <<sessions, object, who, made, sent, answer>>

\* ... and closes them one by one: whatever then has the identifier.
cleanup_takes(i) ==
  /\ cleaner.obj = None /\ i \in cleaner.ids
  /\ cleaner' = [ids |-> cleaner.ids \ {i}, obj |-> sessions[i]]
  /\ sessions' = [sessions EXCEPT ![i] = None]
  /\ UNCHANGED <<object, who, made, sent, answer>>

cleanup_closes ==
  /\ cleaner.obj # None
  /\ object' = [object EXCEPT ![cleaner.obj] = Closed(@)]
  /\ cleaner' = [cleaner EXCEPT !.obj = None]
  /\ UNCHANGED <<sessions, who, made, sent, answer>>

Next ==
  \/ \E c \in Caller :
       \/ get_or_create_default(c) \/ publish(c) \/ release(c) \/ close(c)
       \/ launch_local(c) \/ connect_remote(c) \/ initialize_fails(c)
       \/ close_all_sessions(c)
       \/ cdp_send(c) \/ cdp_send_unconnected(c) \/ navigate_blocked(c) \/ cdp_returns(c)
       \/ \E i \in Id : create_session(c, i) \/ get_session(c, i) \/ close_session(c, i)
  \/ \E o \in Obj :
       \/ GrowsIdle(o) \/ GrowsOld(o)
       \/ \E dies \in BOOLEAN : SocketDrops(o, dies)
       \/ \E n \in Call : on_message(o, n)
  \/ cleanup_notes \/ cleanup_closes
  \/ \E i \in Id : cleanup_takes(i) \/ validate_session(i)

Spec == Init /\ [][Next]_vars

-----------------------------------------------------------------------------

\* No browser is left behind: a process runs only for a session that is in the
\* table or that a caller or the cleaning thread still holds, although callers
\* replace each other's "default" session, and sessions are closed by the one
\* while others use them.
\* (tools/browser_tool.cpp, get_or_create_default, close_session,
\* cleanup_expired_sessions and ~BrowserSession.)
NoBrowserLeftBehind ==
  \A o \in Obj : object[o].process =>
    \/ \E i \in Id : sessions[i] = o
    \/ \E c \in Caller : who[c].obj = o
    \/ cleaner.obj = o

\* An answer is kept only for a call that somebody waits for, whether it comes
\* before or after the call's time is up: the table of answers does not grow,
\* and no call finds the answer of another.
\* (tools/browser_tool.cpp, cdp_send and the callback of connect_cdp_websocket.)
AnswersAwaited ==
  \A o \in Obj : \A n \in object[o].stored \cup object[o].waiting :
    \E c \in Caller : who[c].at = "call" /\ who[c].obj = o /\ who[c].call = n

\* The inductive invariant: whoever works holds an object, and knows its
\* identifier until the object is entered in the table.
Holds(w) == (w.at # "free" => w.obj \in Obj) /\ (w.at \in {"launch", "publish"} => w.id \in Id)

IInv == TypeOK /\ NoBrowserLeftBehind /\ AnswersAwaited /\ \A c \in Caller : Holds(who[c])
=============================================================================
