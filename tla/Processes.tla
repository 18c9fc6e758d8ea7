----------------------------- MODULE Processes -----------------------------
(***************************************************************************)
(* process_tool of tools/tool_registry.cpp: commands that run in the       *)
(* background.  The thread of a turn and those of chain.execute share      *)
(* bg_sessions_; its mutex protects the table, not the sessions in it.     *)
(*                                                                         *)
(* A session's future is "running", "ready" when the command has ended, or *)
(* "taken" by the thread that called get().  A thread keeps a session      *)
(* alive while it uses it; the last one to let go of a removed session     *)
(* waits for its command, as the destructor of the future does.            *)
(***************************************************************************)
EXTENDS Naturals

CONSTANTS
    Thread,
    MaxSessions,    \* bound: commands started
    None

Session == 1..MaxSessions

VARIABLES
    table,      \* bg_sessions_
    started,    \* the number of commands started
    future,     \* per session
    exited,     \* per session: the flag
    output,     \* per session: whether the output of the command is there
    job,        \* per thread: what it does, and with which session
    excused     \* ghost: sessions that were killed or cleared

vars == <<table, started, future, exited, output, job, excused>>

\* What a thread does with a session.
JobState ==
    [at : {"free", "poll", "get", "store", "kill", "clear", "remove", "write", "release"},
     id : Session \cup {None}]

Free == [at |-> "free", id |-> None]

Init ==
    /\ table = {}
    /\ started = 0
    /\ future = [s \in Session |-> "running"]
    /\ exited = [s \in Session |-> FALSE]
    /\ output = [s \in Session |-> FALSE]
    /\ job = [t \in Thread |-> Free]
    /\ excused = {}

Start(t) ==
    /\ job[t] = Free
    /\ started < MaxSessions
    /\ started' = started + 1
    /\ table' = table \cup {started'}
    /\ UNCHANGED <<future, exited, output, job, excused>>

\* The command ends, or its five minutes do.
CommandEnds(s) ==
    /\ s <= started
    /\ future[s] = "running"
    /\ future' = [future EXCEPT ![s] = "ready"]
    /\ UNCHANGED <<table, started, exited, output, job, excused>>

\* list collects the sessions whose command has ended, one after the other.
List(t, s) ==
    /\ job[t] = Free
    /\ s \in table
    /\ ~exited[s]
    /\ future[s] = "ready"
    /\ future' = [future EXCEPT ![s] = "taken"]
    /\ job' = [job EXCEPT ![t] = [at |-> "store", id |-> s]]
    /\ UNCHANGED <<table, started, exited, output, excused>>

\* The other actions look the session up under the mutex and go on without it.
Find(t, s, action) ==
    /\ job[t] = Free
    /\ s \in table
    /\ job' = [job EXCEPT ![t] = [at |-> action, id |-> s]]
    /\ UNCHANGED <<table, started, future, exited, output, excused>>

Goto(t, at) == job' = [job EXCEPT ![t].at = at]

\* log, poll: wait_for, up to the timeout, unless the session is done with.
Poll(t) ==
    /\ job[t].at = "poll"
    /\ Goto(t, IF ~exited[job[t].id] /\ future[job[t].id] = "ready" THEN "get" ELSE "release")
    /\ UNCHANGED <<table, started, future, exited, output, excused>>

\* get() of a future that another thread emptied throws, which is caught.
Get(t) ==
    /\ job[t].at = "get"
    /\ LET s == job[t].id IN
          IF future[s] = "ready"
          THEN /\ future' = [future EXCEPT ![s] = "taken"]
               /\ Goto(t, "store")
               /\ UNCHANGED exited
          ELSE /\ exited' = [exited EXCEPT ![s] = TRUE]
               /\ Goto(t, "release")
               /\ UNCHANGED future
    /\ UNCHANGED <<table, started, output, excused>>

\* Mutation: the output is stored unless another thread marked the session.
StoreIfRunning(t) ==
    /\ job[t].at = "store"
    /\ output' = [output EXCEPT ![job[t].id] = @ \/ ~exited[job[t].id]]
    /\ exited' = [exited EXCEPT ![job[t].id] = TRUE]
    /\ Goto(t, "release")
    /\ UNCHANGED <<table, started, future, excused>>
Store(t) ==
    /\ job[t].at = "store"
    /\ output' = [output EXCEPT ![job[t].id] = TRUE]
    /\ exited' = [exited EXCEPT ![job[t].id] = TRUE]
    /\ Goto(t, "release")
    /\ UNCHANGED <<table, started, future, excused>>

\* kill only marks the session.
Kill(t) ==
    /\ job[t].at = "kill"
    /\ exited' = [exited EXCEPT ![job[t].id] = TRUE]
    /\ excused' = excused \cup {job[t].id}
    /\ Goto(t, "release")
    /\ UNCHANGED <<table, started, future, output>>

Clear(t) ==
    /\ job[t].at = "clear"
    /\ output' = [output EXCEPT ![job[t].id] = FALSE]
    /\ excused' = excused \cup {job[t].id}
    /\ Goto(t, "release")
    /\ UNCHANGED <<table, started, future, exited>>

Remove(t) ==
    /\ job[t].at = "remove"
    /\ table' = table \ {job[t].id}
    /\ Goto(t, "release")
    /\ UNCHANGED <<started, future, exited, output, excused>>

\* write, send-keys: not supported.
Write(t) ==
    /\ job[t].at = "write"
    /\ Goto(t, "release")
    /\ UNCHANGED <<table, started, future, exited, output, excused>>

\* The thread's reference to the session goes.
Release(t) ==
    /\ job[t].at = "release"
    /\ \/ job[t].id \in table
       \/ \E u \in Thread \ {t} : job[u].id = job[t].id
       \/ future[job[t].id] # "running"
    /\ job' = [job EXCEPT ![t] = Free]
    /\ UNCHANGED <<table, started, future, exited, output, excused>>

Next ==
    \/ \E t \in Thread :
          \/ Start(t) \/ Poll(t) \/ Get(t) \/ Store(t) \/ Kill(t) \/ Clear(t)
          \/ Remove(t) \/ Write(t) \/ Release(t)
          \/ \E s \in Session : List(t, s)
          \/ \E s \in Session, a \in {"poll", "kill", "clear", "remove", "write"} : Find(t, s, a)
    \/ \E s \in Session : CommandEnds(s)

Spec == Init /\ [][Next]_vars

-----------------------------------------------------------------------------
(* Properties *)

TypeOK ==
    /\ started \in 0..MaxSessions
    /\ table \subseteq 1..started
    /\ future \in [Session -> {"running", "ready", "taken"}]
    /\ exited \in [Session -> BOOLEAN]
    /\ output \in [Session -> BOOLEAN]
    /\ job \in [Thread -> JobState]
    /\ excused \subseteq Session

Storing(s) == \E t \in Thread : job[t] = [at |-> "store", id |-> s]

\* A session that is reported not to run any more shows the output of its command,
\* unless it was killed or cleared, or a thread is about to store it: two threads
\* that find the future ready, one of which then finds it empty, do not lose it.
EndedHasOutput ==
    \A s \in Session : exited[s] => output[s] \/ s \in excused \/ Storing(s)

-----------------------------------------------------------------------------
(* The inductive invariant *)

\* Whoever took the result of a future stored it, or is about to.
TakenIsStored ==
    \A s \in Session : future[s] = "taken" => output[s] \/ s \in excused \/ Storing(s)

\* A thread has a session while it works on it; get() is called on a future whose
\* command has ended, though another thread may have emptied it since.
JobsOK ==
    \A t \in Thread :
        /\ job[t].at # "free" => job[t].id \in Session
        /\ job[t].at = "get" => future[job[t].id] # "running"

IInv == TypeOK /\ EndedHasOutput /\ TakenIsStored /\ JobsOK
=============================================================================
