------------------------------ MODULE Sidecar ------------------------------
(***************************************************************************)
(* SidecarManager (plugins/sidecar_manager.cpp): the Node.js process that  *)
(* runs the plugins, the thread that watches it and the calls made to it.  *)
(* PluginSystem creates a manager, starts it once and destroys it.         *)
(*                                                                         *)
(* On Unix a process that died stays a zombie until somebody waits for it, *)
(* and is_process_alive (kill with signal 0) answers yes for it; on        *)
(* Windows it is gone.  The listening socket is closed as soon as the      *)
(* process has connected, so connect_ipc is always refused.                *)
(***************************************************************************)
EXTENDS Naturals, Sequences, FiniteSets

CONSTANTS
    Pid,            \* bound: processes at one time
    Platforms,      \* a subset of {"unix", "windows"}
    MaxRestarts,    \* bound: the largest opts_.max_restarts
    MaxLines,       \* bound: lines of the stream that no call has read
    Main, Monitor, Caller,  \* PluginSystem's thread, monitor_thread_, a tool call
    None

\* The stream of a connection: the process at its other end, the lines no call
\* has read, and whether a call ever gave up in the middle of one.  A line is
\* the answer to the call under way, to an earlier one, or the rest of a line.
Stream == [to : Pid, lines : Seq({"own", "old", "rest"}), torn : BOOLEAN]

ASSUME SidecarBounds == MaxRestarts \in Nat /\ MaxLines \in Nat
ASSUME SidecarNames ==
    /\ Platforms \subseteq {"unix", "windows"}
    /\ None \notin Pid /\ None \notin Stream
    /\ Main # Monitor /\ Monitor # Caller /\ Main # Caller

VARIABLES
    platform,
    proc,       \* per process identifier: "free", "alive" or "zombie"
    pid,        \* pid_
    running,    \* running_
    stopping,   \* stopping_
    restarts,   \* restart_count_
    limit,      \* opts_.max_restarts
    conn,       \* ipc_handle_: None, or its stream
    at,         \* where each thread is
    child       \* the process a thread spawns or kills

vars == <<platform, proc, pid, running, stopping, restarts, limit, conn, at, child>>

Thread == {Main, Monitor, Caller}

Init ==
    /\ platform \in Platforms
    /\ proc = [p \in Pid |-> "free"]
    /\ pid = None
    /\ running = FALSE /\ stopping = FALSE
    /\ restarts = 0
    /\ limit \in 0 .. MaxRestarts
    /\ conn = None
    /\ at = [t \in Thread |-> CASE t = Main -> "new" [] t = Monitor -> "none" [] OTHER -> "idle"]
    /\ child = [t \in Thread |-> None]

Goto(t, l) == at' = [at EXCEPT ![t] = l]

-----------------------------------------------------------------------------
(* Processes *)

\* Mutation: a process is alive as long as its identifier is known.
PidKnown == pid # None
IsRunning == pid # None /\ proc[pid] # "free"

ProcessDies(p) ==
    /\ proc[p] = "alive"
    /\ proc' = [proc EXCEPT ![p] = IF platform = "unix" THEN "zombie" ELSE "free"]
    /\ UNCHANGED <<platform, pid, running, stopping, restarts, limit, conn, at, child>>

\* Identifiers that nobody remembers.
Unused == {p \in Pid : proc[p] = "free" /\ p # pid /\ \A t \in Thread : child[t] # p}

\* spawn_sidecar: the process is started and known by pid_ ...
Fork(t) ==
    \E p \in Unused :
        /\ proc' = [proc EXCEPT ![p] = "alive"]
        /\ pid' = p
        /\ child' = [child EXCEPT ![t] = p]

\* ... and has to connect.  Setting ipc_handle_ takes ipc_mu_.
IpcFree == \A t \in Thread : at[t] # "read"
Connect(t) ==
    /\ proc[child[t]] = "alive"
    /\ IpcFree
    /\ conn' = [to |-> child[t], lines |-> <<>>, torn |-> FALSE]
    /\ child' = [child EXCEPT ![t] = None]

\* Mutation: the process that did not connect is left alone.
LeaveUnconnected(t) ==
    /\ pid' = None
    /\ child' = [child EXCEPT ![t] = None]
    /\ UNCHANGED <<proc, conn>>
\* Otherwise it is killed and waited for.
KillUnconnected(t) ==
    /\ proc' = [proc EXCEPT ![child[t]] = "free"]
    /\ pid' = None
    /\ child' = [child EXCEPT ![t] = None]
    /\ UNCHANGED conn

-----------------------------------------------------------------------------
(* Start *)

Start ==
    /\ at[Main] = "new"
    /\ \/ Fork(Main) /\ Goto(Main, "accept")
       \/ Goto(Main, "failed") /\ UNCHANGED <<proc, pid, child>>
    /\ UNCHANGED <<platform, running, stopping, restarts, limit, conn>>

Started ==
    /\ at[Main] = "accept"
    /\ Connect(Main)
    /\ running' = TRUE /\ stopping' = FALSE /\ restarts' = 0
    /\ at' = [at EXCEPT ![Main] = "up", ![Monitor] = "sleep"]
    /\ UNCHANGED <<platform, proc, pid, limit>>

StartFails ==
    /\ at[Main] = "accept"
    /\ KillUnconnected(Main)
    /\ Goto(Main, "failed")
    /\ UNCHANGED <<platform, running, stopping, restarts, limit>>

SetMaxRestartAttempts(n) ==
    /\ at[Main] = "up"
    /\ limit' = n
    /\ UNCHANGED <<platform, proc, pid, running, stopping, restarts, conn, at, child>>

-----------------------------------------------------------------------------
(* Stop, from PluginSystem::Shutdown or the destructor *)

\* A manager that gave up is not stopped, and its monitor is not joined: the
\* destructor of the thread ends the program.
Stop ==
    /\ at[Main] = "up"
    /\ IF running
       THEN stopping' = TRUE /\ running' = FALSE /\ Goto(Main, "kill")
       ELSE Goto(Main, "terminated") /\ UNCHANGED <<stopping, running>>
    /\ UNCHANGED <<platform, proc, pid, restarts, limit, conn, child>>

\* kill_sidecar signals the process it finds in pid_ ...
KillSidecar ==
    /\ at[Main] = "kill"
    /\ child' = [child EXCEPT ![Main] = pid]
    /\ Goto(Main, IF pid = None THEN "join" ELSE "reap")
    /\ UNCHANGED <<platform, proc, pid, running, stopping, restarts, limit, conn>>

\* ... waits for it, by force in the end, and forgets pid_, whatever it is by then.
ReapSidecar ==
    /\ at[Main] = "reap"
    /\ proc' = [proc EXCEPT ![child[Main]] = "free"]
    /\ pid' = None
    /\ child' = [child EXCEPT ![Main] = None]
    /\ Goto(Main, "join")
    /\ UNCHANGED <<platform, running, stopping, restarts, limit, conn>>

Join ==
    /\ at[Main] = "join"
    /\ at[Monitor] = "exited"
    /\ IpcFree
    /\ conn' = None
    /\ at' = [at EXCEPT ![Main] = "stopped", ![Monitor] = "none"]
    /\ UNCHANGED <<platform, proc, pid, running, stopping, restarts, limit, child>>

-----------------------------------------------------------------------------
(* monitor_loop *)

\* Mutation: the monitor does not look at stopping_ and never gives up.
WakeRegardless ==
    /\ at[Monitor] = "sleep"
    /\ IF IsRunning THEN Goto(Monitor, "call") /\ UNCHANGED pid
       ELSE Goto(Monitor, "backoff") /\ pid' = None
    /\ UNCHANGED <<platform, proc, running, stopping, restarts, limit, conn, child>>

\* Mutation: restarts are not counted against the limit.
WakeForEver ==
    /\ at[Monitor] = "sleep"
    /\ \/ stopping /\ Goto(Monitor, "exited") /\ UNCHANGED pid
       \/ ~stopping /\ IsRunning /\ Goto(Monitor, "call") /\ UNCHANGED pid
       \/ ~stopping /\ ~IsRunning /\ pid' = None /\ Goto(Monitor, "backoff")
    /\ UNCHANGED <<platform, proc, running, stopping, restarts, limit, conn, child>>

\* After a heartbeat interval: the process is pinged if it lives, restarted
\* after a back-off if it does not, and given up after too many restarts.
Wake ==
    /\ at[Monitor] = "sleep"
    /\ \/ stopping /\ Goto(Monitor, "exited") /\ UNCHANGED <<pid, running>>
       \/ ~stopping /\ IsRunning /\ Goto(Monitor, "call") /\ UNCHANGED <<pid, running>>
       \/ /\ ~stopping /\ ~IsRunning
          /\ pid' = None
          /\ IF restarts >= limit
             THEN running' = FALSE /\ Goto(Monitor, "exited")
             ELSE Goto(Monitor, "backoff") /\ UNCHANGED running
    /\ UNCHANGED <<platform, proc, stopping, restarts, limit, conn, child>>

BackoffEnds ==
    /\ at[Monitor] = "backoff"
    /\ Goto(Monitor, IF stopping THEN "exited" ELSE "close")
    /\ UNCHANGED <<platform, proc, pid, running, stopping, restarts, limit, conn, child>>

\* Mutation: the old connection is kept until the new one replaces it.
KeepConnection ==
    /\ at[Monitor] = "close"
    /\ Goto(Monitor, "spawn")
    /\ UNCHANGED <<platform, proc, pid, running, stopping, restarts, limit, conn, child>>
CloseConnection ==
    /\ at[Monitor] = "close"
    /\ IpcFree
    /\ conn' = None
    /\ Goto(Monitor, "spawn")
    /\ UNCHANGED <<platform, proc, pid, running, stopping, restarts, limit, child>>

\* The restart is counted when it succeeds; a failure is tried again after the
\* next interval.
Respawn ==
    /\ at[Monitor] = "spawn"
    /\ \/ Fork(Monitor) /\ Goto(Monitor, "accept")
       \/ Goto(Monitor, "sleep") /\ UNCHANGED <<proc, pid, child>>
    /\ UNCHANGED <<platform, running, stopping, restarts, limit, conn>>

Respawned ==
    /\ at[Monitor] = "accept"
    /\ \/ Connect(Monitor) /\ restarts' = restarts + 1 /\ UNCHANGED <<proc, pid>>
       \/ KillUnconnected(Monitor) /\ UNCHANGED restarts
    /\ Goto(Monitor, "sleep")
    /\ UNCHANGED <<platform, running, stopping, limit>>

MonitorStep == Wake \/ BackoffEnds \/ CloseConnection \/ Respawn \/ Respawned

-----------------------------------------------------------------------------
(* Call, by the monitor ("ping") or by another thread *)

BeginCall ==
    /\ at[Main] = "up"
    /\ at[Caller] = "idle"
    /\ IsRunning
    /\ Goto(Caller, "call")
    /\ UNCHANGED <<platform, proc, pid, running, stopping, restarts, limit, conn, child>>

Return(t) == Goto(t, IF t = Monitor THEN "sleep" ELSE "idle")

\* Under ipc_mu_: without a connection the call fails, and a write that fails
\* closes it.
Write(t) ==
    /\ at[t] = "call"
    /\ IpcFree
    /\ \/ conn = None /\ Return(t) /\ UNCHANGED conn
       \/ conn # None /\ proc[conn.to] # "alive" /\ conn' = None /\ Return(t)
       \/ /\ conn # None
          /\ conn' = [conn EXCEPT !.lines = Append(@, "own")]
          /\ Goto(t, "read")
    /\ UNCHANGED <<platform, proc, pid, running, stopping, restarts, limit, child>>

\* What no call has read is no longer the answer anybody waits for.
Stale(lines) == [i \in DOMAIN lines |-> IF lines[i] = "own" THEN "old" ELSE lines[i]]

\* A line: parsed and returned, the request's identifier not compared.
ReadLine ==
    /\ proc[conn.to] = "alive"
    /\ conn' = [conn EXCEPT !.lines = Stale(Tail(@))]

\* Mutation: the stream stays open after a timeout.
KeepAfterTimeout == conn' = [conn EXCEPT !.lines = Stale(@)]
\* Nothing before the deadline, or the end of the stream: it is closed.
ReadNothing == conn' = None

\* The deadline, or the end, in the middle of a line: what there is does not
\* parse, and the stream stays open with the rest of the line in it.
ReadPart ==
    /\ Len(conn.lines) < MaxLines
    /\ conn' = [conn EXCEPT !.torn = TRUE, !.lines = <<"rest">> \o Stale(Tail(@))]

Read(t) ==
    /\ at[t] = "read"
    /\ ReadLine \/ ReadNothing \/ ReadPart
    /\ Return(t)
    /\ UNCHANGED <<platform, proc, pid, running, stopping, restarts, limit, child>>

-----------------------------------------------------------------------------
MainStep == Started \/ StartFails \/ KillSidecar \/ ReapSidecar \/ Join

Next ==
    \/ Start \/ Stop \/ MainStep
    \/ MonitorStep
    \/ BeginCall
    \/ \E t \in {Monitor, Caller} : Write(t) \/ Read(t)
    \/ \E p \in Pid : ProcessDies(p)
    \/ \E n \in 0 .. MaxRestarts : SetMaxRestartAttempts(n)

Spec == Init /\ [][Next]_vars

\* The threads are scheduled; every wait in them has a time limit.
FairSpec ==
    /\ Spec
    /\ WF_vars(MainStep)
    /\ WF_vars(MonitorStep \/ Write(Monitor) \/ Read(Monitor))
    /\ SF_vars(Write(Monitor)) /\ SF_vars(Join)     \* ipc_mu_ is not kept from a thread for ever
    /\ SF_vars(CloseConnection)
    /\ WF_vars(Write(Caller) \/ Read(Caller))

-----------------------------------------------------------------------------
(* Properties *)

Alive == {p \in Pid : proc[p] = "alive"}

MainPlace == {"new", "accept", "up", "failed", "kill", "reap", "join", "stopped", "terminated"}
MonitorPlace == {"none", "sleep", "backoff", "close", "spawn", "accept", "call", "read", "exited"}
CallerPlace == {"idle", "call", "read"}

\* Every variable keeps its type, and no more restarts succeed than the limit
\* ever allowed.
TypeOK ==
    /\ platform \in Platforms
    /\ proc \in [Pid -> {"free", "alive", "zombie"}]
    /\ pid \in Pid \cup {None}
    /\ running \in BOOLEAN /\ stopping \in BOOLEAN
    /\ restarts \in 0 .. MaxRestarts
    /\ limit \in 0 .. MaxRestarts
    /\ conn \in Stream \cup {None}
    /\ child \in [Thread -> Pid \cup {None}]
    /\ at \in [Thread -> MainPlace \cup MonitorPlace \cup CallerPlace]
    /\ at[Main] \in MainPlace /\ at[Monitor] \in MonitorPlace /\ at[Caller] \in CallerPlace

\* There is never more than one sidecar, and until Stop begins it is the one the
\* manager knows, whatever start, restart and failed connection came before.
OneSidecar ==
    /\ Cardinality(Alive) <= 1
    /\ ~stopping => Alive \subseteq {pid}

\* A call is never written to a connection of another process than the one that
\* was found alive: a restart closes the old connection before it spawns.
ConnectedToCurrent == conn # None /\ pid # None => conn.to = pid

\* A call reads its own answer, though identifiers are not compared: a stream on
\* which a call gave up is closed, unless it gave up in the middle of a line.
AnswersOwn ==
    (\E t \in Thread : at[t] = "read") /\ ~conn.torn => conn.lines = <<"own">>

(* The inductive invariant behind these (proved in SidecarProofs) *)

Reading == \E t \in Thread : at[t] = "read"

\* Where the manager's own thread is, and what it may rely on there.
MainOK ==
    /\ at[Main] \in {"new", "accept"} => at[Monitor] = "none" /\ conn = None /\ ~stopping
    /\ at[Main] = "new" => Alive = {}
    /\ at[Main] = "accept" => child[Main] \in Pid /\ child[Main] = pid
    /\ at[Main] = "reap" => child[Main] \in Pid
    /\ at[Main] \in {"kill", "reap", "join", "stopped"} => stopping

\* The monitor restarts only what is dead, over a closed connection; only Stop
\* takes the new process's identifier away from it.
MonitorOK ==
    /\ at[Monitor] \in {"backoff", "close", "spawn"} => Alive = {}
    /\ at[Monitor] \in {"spawn", "accept"} => conn = None
    /\ at[Monitor] \in {"backoff", "close", "spawn", "accept"} => restarts < MaxRestarts
    /\ at[Monitor] = "accept" =>
          /\ child[Monitor] \in Pid
          /\ Alive \subseteq {child[Monitor]}
          /\ pid \in {None, child[Monitor]}

\* One call at a time uses the connection, which is there until it returns.
StreamOK ==
    /\ \A t, u \in Thread : at[t] = "read" /\ at[u] = "read" => t = u
    /\ Reading => conn # None /\ conn.lines # <<>>
    /\ conn # None /\ ~conn.torn => conn.lines = IF Reading THEN <<"own">> ELSE <<>>

IInv ==
    /\ TypeOK /\ MainOK /\ MonitorOK /\ StreamOK
    /\ \A p, q \in Alive : p = q
    /\ ~stopping => Alive \subseteq {pid}
    /\ ConnectedToCurrent

\* Stop returns: the monitor leaves its sleeps, its calls and a restart.
StopEnds == at[Main] = "kill" ~> at[Main] = "stopped"

Lost == running /\ ~stopping /\ pid # None /\ proc[pid] # "alive"
\* The process runs again, an attempt to start it has failed, or there is
\* nothing to do any more.
Handled ==
    \/ pid # None /\ proc[pid] = "alive"
    \/ pid = None /\ at[Monitor] = "sleep"
    \/ ~running \/ stopping

\* Where is_process_alive tells that a process has died, a crash leads to an
\* attempt to restart the sidecar, or to giving up.
RestartsOrGivesUp == (Lost /\ platform = "windows") ~> Handled
=============================================================================
