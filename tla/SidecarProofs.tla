--------------------------- MODULE SidecarProofs ---------------------------
(***************************************************************************)
(* Proofs about Sidecar for every set of process identifiers and every     *)
(* limit of restarts: there is one sidecar, calls go to the process the    *)
(* manager knows and read their own answers.                               *)
(***************************************************************************)
EXTENDS Sidecar, TLAPS, FiniteSetTheorems, SequenceTheorems

\* The constants keep the threads apart, and None from everything else.
LEMMA Names ==
    /\ Main # Monitor /\ Monitor # Caller /\ Main # Caller
    /\ None \notin Pid /\ None \notin Stream
  BY SidecarNames

LEMMA InitIInv == Init => IInv
<1> SUFFICES ASSUME Init PROVE IInv
  OBVIOUS
<1>1. /\ at \in [Thread -> MainPlace \cup MonitorPlace \cup CallerPlace]
      /\ at[Main] = "new" /\ at[Monitor] = "none" /\ at[Caller] = "idle"
  BY Names DEF Init, Thread, MainPlace, MonitorPlace, CallerPlace
<1>2. Alive = {} /\ conn = None /\ ~stopping /\ pid = None
  BY DEF Init, Alive
<1>3. TypeOK
  <2>1. /\ at[Main] \in MainPlace /\ at[Monitor] \in MonitorPlace
        /\ at[Caller] \in CallerPlace
    BY <1>1 DEF MainPlace, MonitorPlace, CallerPlace
  <2>2. restarts \in 0 .. MaxRestarts /\ limit \in 0 .. MaxRestarts
    BY SidecarBounds DEF Init
  <2>3. proc \in [Pid -> {"free", "alive", "zombie"}] /\ child \in [Thread -> Pid \cup {None}]
    BY DEF Init
  <2>4. platform \in Platforms /\ running \in BOOLEAN /\ stopping \in BOOLEAN
    BY DEF Init
  <2>5. QED
    BY <1>1, <1>2, <2>1, <2>2, <2>3, <2>4 DEF TypeOK
<1>4. ~Reading
  BY <1>1, Names DEF Reading, Thread
<1>5. MainOK /\ MonitorOK /\ StreamOK
  BY <1>1, <1>2, <1>4, Names DEF MainOK, MonitorOK, StreamOK, Thread
<1>6. QED
  BY <1>2, <1>3, <1>5 DEF IInv, ConnectedToCurrent

-----------------------------------------------------------------------------
(* Steps that leave processes and connection alone *)

\* A thread that moves without touching the stream keeps StreamOK.
LEMMA StreamKept ==
    ASSUME StreamOK, conn' = conn, (\A t \in Thread : at'[t] = "read" <=> at[t] = "read")
    PROVE  StreamOK' /\ (Reading' <=> Reading)
  BY DEF StreamOK, Reading

LEMMA ProcessDiesIInv ==
    ASSUME IInv, NEW p \in Pid, ProcessDies(p)
    PROVE  IInv'
<1>1. TypeOK'
  BY DEF IInv, TypeOK, ProcessDies
<1>2. Alive' \subseteq Alive
  BY DEF IInv, TypeOK, ProcessDies, Alive
<1>3. MainOK' /\ MonitorOK'
  BY <1>2 DEF IInv, MainOK, MonitorOK, ProcessDies
<1>4. StreamOK'
  BY StreamKept DEF IInv, ProcessDies
<1>5. QED
  BY <1>1, <1>2, <1>3, <1>4 DEF IInv, ConnectedToCurrent, ProcessDies

LEMMA SetMaxIInv ==
    ASSUME IInv, NEW n \in 0 .. MaxRestarts, SetMaxRestartAttempts(n)
    PROVE  IInv'
<1>1. TypeOK' /\ Alive' = Alive
  BY DEF IInv, TypeOK, SetMaxRestartAttempts, Alive
<1>2. MainOK' /\ MonitorOK'
  BY <1>1 DEF IInv, MainOK, MonitorOK, SetMaxRestartAttempts
<1>3. StreamOK'
  BY StreamKept DEF IInv, SetMaxRestartAttempts
<1>4. QED
  BY <1>1, <1>2, <1>3 DEF IInv, ConnectedToCurrent, SetMaxRestartAttempts

\* One thread moves, none of them into or out of a read.
LEMMA MoveKeepsStream ==
    ASSUME IInv, NEW t \in Thread, NEW l, Goto(t, l), l # "read", at[t] # "read", conn' = conn
    PROVE  StreamOK'
<1>1. \A u \in Thread : at'[u] = IF u = t THEN l ELSE at[u]
  BY DEF IInv, TypeOK, Goto
<1>2. QED
  BY <1>1, StreamKept DEF IInv

-----------------------------------------------------------------------------
(* What the parts of the actions do *)

\* A thread that moves is where it went, and the others are where they were.
LEMMA Moved ==
    ASSUME TypeOK, NEW t \in Thread, NEW l, Goto(t, l)
    PROVE  /\ \A u \in Thread : at'[u] = IF u = t THEN l ELSE at[u]
           /\ l \in MainPlace \cup MonitorPlace \cup CallerPlace =>
                 at' \in [Thread -> MainPlace \cup MonitorPlace \cup CallerPlace]
  BY DEF TypeOK, Goto

\* The threads are these three.
LEMMA Threads ==
    /\ Main \in Thread /\ Monitor \in Thread /\ Caller \in Thread
    /\ \A t \in Thread : t \in {Main, Monitor, Caller}
  BY DEF Thread

\* Fork adds the process that pid_ and the thread that started it now name.
LEMMA Forked ==
    ASSUME TypeOK, Alive = {}, NEW t \in Thread, Fork(t)
    PROVE  /\ proc' \in [Pid -> {"free", "alive", "zombie"}]
           /\ child' \in [Thread -> Pid \cup {None}]
           /\ pid' \in Pid /\ child'[t] = pid'
           /\ \A u \in Thread : u # t => child'[u] = child[u]
           /\ Alive' = {pid'}
<1>1. PICK p \in Pid : /\ proc' = [proc EXCEPT ![p] = "alive"]
                       /\ pid' = p
                       /\ child' = [child EXCEPT ![t] = p]
  BY DEF Fork, Unused
<1>2. Alive' = {p}
  BY <1>1 DEF TypeOK, Alive
<1>3. QED
  BY <1>1, <1>2 DEF TypeOK

\* Killing what did not connect leaves nothing of it.
LEMMA Killed ==
    ASSUME TypeOK, NEW t \in Thread, child[t] \in Pid, Alive \subseteq {child[t]},
           KillUnconnected(t)
    PROVE  /\ proc' \in [Pid -> {"free", "alive", "zombie"}]
           /\ child' \in [Thread -> Pid \cup {None}]
           /\ \A u \in Thread : u # t => child'[u] = child[u]
           /\ pid' = None /\ Alive' = {} /\ conn' = conn
  BY DEF TypeOK, KillUnconnected, Alive

\* A new connection goes to the process that the thread started.
LEMMA Connected ==
    ASSUME TypeOK, NEW t \in Thread, child[t] \in Pid, Connect(t)
    PROVE  /\ conn' \in Stream /\ conn'.to = child[t] /\ conn'.lines = <<>>
           /\ child' \in [Thread -> Pid \cup {None}]
           /\ \A u \in Thread : u # t => child'[u] = child[u]
           /\ ~Reading
           /\ child[t] \in Alive
<1>1. conn' = [to |-> child[t], lines |-> <<>>, torn |-> FALSE]
  BY DEF Connect
<1>2. <<>> \in Seq({"own", "old", "rest"})
  OBVIOUS
<1>3. conn' \in Stream /\ conn'.to = child[t] /\ conn'.lines = <<>>
  BY <1>1, <1>2 DEF Stream
<1>4. child' \in [Thread -> Pid \cup {None}] /\ \A u \in Thread : u # t => child'[u] = child[u]
  BY DEF Connect, TypeOK
<1>5. QED
  BY <1>3, <1>4 DEF Connect, IpcFree, Reading, Alive

-----------------------------------------------------------------------------
(* The manager's own thread *)

LEMMA StartIInv ==
    ASSUME IInv, Start
    PROVE  IInv'
<1>1. TypeOK /\ Alive = {} /\ conn = None /\ ~stopping /\ at[Monitor] = "none"
  BY DEF IInv, MainOK, Start
<1>2. CASE Fork(Main) /\ Goto(Main, "accept")
  <2>1. at' \in [Thread -> MainPlace \cup MonitorPlace \cup CallerPlace]
    BY <1>1, <1>2, Moved, Threads DEF MainPlace
  <2>2. at'[Main] = "accept" /\ at'[Monitor] = "none" /\ at'[Caller] = at[Caller]
    BY <1>1, <1>2, Moved, Threads, Names
  <2>3. /\ proc' \in [Pid -> {"free", "alive", "zombie"}]
        /\ child' \in [Thread -> Pid \cup {None}]
        /\ pid' \in Pid /\ child'[Main] = pid' /\ Alive' = {pid'}
    BY <1>1, <1>2, Forked, Threads
  <2>4. TypeOK'
    BY <1>1, <2>1, <2>2, <2>3 DEF TypeOK, Start, MainPlace, MonitorPlace
  <2>5. MainOK' /\ MonitorOK'
    BY <1>1, <2>2, <2>3 DEF MainOK, MonitorOK, Start
  <2>6. StreamOK'
    BY <1>2, MoveKeepsStream, Threads DEF Start
  <2>7. QED
    BY <1>1, <2>3, <2>4, <2>5, <2>6, Names DEF IInv, ConnectedToCurrent, Start
<1>3. CASE Goto(Main, "failed") /\ UNCHANGED <<proc, pid, child>>
  <2>1. at' \in [Thread -> MainPlace \cup MonitorPlace \cup CallerPlace]
    BY <1>1, <1>3, Moved, Threads DEF MainPlace
  <2>2. at'[Main] = "failed" /\ at'[Monitor] = "none" /\ at'[Caller] = at[Caller]
    BY <1>1, <1>3, Moved, Threads, Names
  <2>3. Alive' = {}
    BY <1>1, <1>3 DEF Alive
  <2>4. TypeOK'
    BY <1>1, <1>3, <2>1, <2>2 DEF TypeOK, Start, MainPlace, MonitorPlace
  <2>5. MainOK' /\ MonitorOK'
    BY <1>1, <2>2, <2>3 DEF MainOK, MonitorOK, Start
  <2>6. StreamOK'
    BY <1>3, MoveKeepsStream, Threads DEF Start
  <2>7. QED
    BY <1>1, <2>3, <2>4, <2>5, <2>6 DEF IInv, ConnectedToCurrent, Start
<1>4. QED
  BY <1>2, <1>3 DEF Start

\* The connection is made under ipc_mu_, so no call is reading.
LEMMA FreshStream ==
    ASSUME conn' # None, conn'.lines = <<>>, ~Reading'
    PROVE  StreamOK'
  BY DEF StreamOK, Reading

LEMMA StartedIInv ==
    ASSUME IInv, Started
    PROVE  IInv'
<1>1. TypeOK /\ ~stopping /\ child[Main] \in Pid /\ child[Main] = pid /\ Alive \subseteq {pid}
  BY DEF IInv, MainOK, Started
<1>2. /\ at' \in [Thread -> MainPlace \cup MonitorPlace \cup CallerPlace]
      /\ at'[Main] = "up" /\ at'[Monitor] = "sleep" /\ at'[Caller] = at[Caller]
  BY <1>1, Threads, Names DEF TypeOK, Started, MainPlace, MonitorPlace
<1>3. /\ conn' \in Stream /\ conn'.to = pid /\ conn'.lines = <<>>
      /\ child' \in [Thread -> Pid \cup {None}] /\ ~Reading
  BY <1>1, Connected, Threads DEF Started
<1>4. Alive' = Alive
  BY DEF Started, Alive
<1>5. restarts' \in 0 .. MaxRestarts
  BY SidecarBounds DEF Started
<1>6. TypeOK'
  BY <1>1, <1>2, <1>3, <1>5 DEF TypeOK, Started, MainPlace, MonitorPlace
<1>7. MainOK' /\ MonitorOK'
  BY <1>2 DEF MainOK, MonitorOK
<1>8. ~Reading'
  BY <1>2, <1>3, Threads DEF Reading
<1>9. StreamOK'
  BY <1>3, <1>8, FreshStream, Names
<1>10. QED
  BY <1>1, <1>3, <1>4, <1>6, <1>7, <1>9 DEF IInv, ConnectedToCurrent, Started

LEMMA StartFailsIInv ==
    ASSUME IInv, StartFails
    PROVE  IInv'
<1>1. /\ TypeOK /\ at[Monitor] = "none" /\ ~stopping /\ conn = None
      /\ child[Main] \in Pid /\ Alive \subseteq {child[Main]}
  BY DEF IInv, MainOK, StartFails
<1>2. /\ proc' \in [Pid -> {"free", "alive", "zombie"}]
      /\ child' \in [Thread -> Pid \cup {None}]
      /\ pid' = None /\ Alive' = {} /\ conn' = conn
  BY <1>1, Killed, Threads DEF StartFails
<1>3. at' \in [Thread -> MainPlace \cup MonitorPlace \cup CallerPlace]
  BY <1>1, Moved, Threads DEF StartFails, MainPlace
<1>4. at'[Main] = "failed" /\ at'[Monitor] = "none" /\ at'[Caller] = at[Caller]
  BY <1>1, Moved, Threads, Names DEF StartFails
<1>5. TypeOK'
  BY <1>1, <1>2, <1>3, <1>4 DEF TypeOK, StartFails, MainPlace, MonitorPlace
<1>6. MainOK' /\ MonitorOK'
  BY <1>4 DEF MainOK, MonitorOK
<1>7. StreamOK'
  BY <1>2, MoveKeepsStream, Threads DEF StartFails
<1>8. QED
  BY <1>1, <1>2, <1>5, <1>6, <1>7 DEF IInv, ConnectedToCurrent

LEMMA StopIInv ==
    ASSUME IInv, Stop
    PROVE  IInv'
<1>1. Alive' = Alive
  BY DEF Stop, Alive
<1>2. PICK l \in {"kill", "terminated"} :
         /\ Goto(Main, l)
         /\ l = "kill" => stopping' = TRUE /\ running' = FALSE
         /\ l = "terminated" => stopping' = stopping /\ running' = running
  BY DEF Stop
<1>3. at' \in [Thread -> MainPlace \cup MonitorPlace \cup CallerPlace]
  BY <1>2, Moved, Threads DEF IInv, MainPlace
<1>4. at'[Main] = l /\ at'[Monitor] = at[Monitor] /\ at'[Caller] = at[Caller]
  BY <1>2, Moved, Threads, Names DEF IInv
<1>5. TypeOK'
  BY <1>2, <1>3, <1>4 DEF IInv, TypeOK, Stop, MainPlace, MonitorPlace
<1>6. MainOK' /\ MonitorOK'
  BY <1>1, <1>2, <1>4 DEF IInv, MainOK, MonitorOK, Stop
<1>7. StreamOK'
  BY <1>2, MoveKeepsStream, Threads DEF Stop
<1>8. QED
  BY <1>1, <1>2, <1>5, <1>6, <1>7 DEF IInv, ConnectedToCurrent, Stop

LEMMA KillSidecarIInv ==
    ASSUME IInv, KillSidecar
    PROVE  IInv'
<1>1. Alive' = Alive
  BY DEF KillSidecar, Alive
<1>2. PICK l \in {"join", "reap"} : Goto(Main, l) /\ (l = "reap" => pid \in Pid)
  BY DEF KillSidecar, IInv, TypeOK
<1>3. at' \in [Thread -> MainPlace \cup MonitorPlace \cup CallerPlace]
  BY <1>2, Moved, Threads DEF IInv, MainPlace
<1>4. at'[Main] = l /\ at'[Monitor] = at[Monitor] /\ at'[Caller] = at[Caller]
  BY <1>2, Moved, Threads, Names DEF IInv
<1>5. /\ child' \in [Thread -> Pid \cup {None}]
      /\ child'[Main] = pid /\ child'[Monitor] = child[Monitor]
  BY Threads, Names DEF IInv, TypeOK, KillSidecar
<1>6. TypeOK'
  BY <1>3, <1>4, <1>5 DEF IInv, TypeOK, KillSidecar, MainPlace, MonitorPlace
<1>7. MainOK' /\ MonitorOK'
  BY <1>1, <1>2, <1>4, <1>5 DEF IInv, MainOK, MonitorOK, KillSidecar
<1>8. StreamOK'
  BY <1>2, MoveKeepsStream, Threads DEF KillSidecar
<1>9. QED
  BY <1>1, <1>6, <1>7, <1>8 DEF IInv, ConnectedToCurrent, KillSidecar

LEMMA ReapSidecarIInv ==
    ASSUME IInv, ReapSidecar
    PROVE  IInv'
<1>1. child[Main] \in Pid /\ stopping
  BY DEF IInv, MainOK, ReapSidecar
<1>2. /\ proc' \in [Pid -> {"free", "alive", "zombie"}] /\ Alive' \subseteq Alive
      /\ child' \in [Thread -> Pid \cup {None}] /\ child'[Monitor] = child[Monitor]
      /\ pid' = None
  BY <1>1, Threads, Names DEF IInv, TypeOK, ReapSidecar, Alive
<1>3. at' \in [Thread -> MainPlace \cup MonitorPlace \cup CallerPlace]
  BY Moved, Threads DEF IInv, MainPlace, ReapSidecar
<1>4. at'[Main] = "join" /\ at'[Monitor] = at[Monitor] /\ at'[Caller] = at[Caller]
  BY Moved, Threads, Names DEF IInv, ReapSidecar
<1>5. TypeOK'
  BY <1>2, <1>3, <1>4 DEF IInv, TypeOK, ReapSidecar, MainPlace, MonitorPlace
<1>6. MainOK' /\ MonitorOK'
  BY <1>1, <1>2, <1>4 DEF IInv, MainOK, MonitorOK, ReapSidecar
<1>7. StreamOK'
  BY MoveKeepsStream, Threads DEF ReapSidecar
<1>8. QED
  BY <1>1, <1>2, <1>5, <1>6, <1>7 DEF IInv, ConnectedToCurrent, ReapSidecar

\* Nobody is left to read the stream that is closed.
LEMMA NoStream ==
    ASSUME conn' = None, ~Reading'
    PROVE  StreamOK'
  BY DEF StreamOK, Reading

LEMMA JoinIInv ==
    ASSUME IInv, Join
    PROVE  IInv'
<1>1. Alive' = Alive
  BY DEF Join, Alive
<1>2. /\ at' \in [Thread -> MainPlace \cup MonitorPlace \cup CallerPlace]
      /\ at'[Main] = "stopped" /\ at'[Monitor] = "none" /\ at'[Caller] = at[Caller]
  BY Threads, Names DEF IInv, TypeOK, Join, MainPlace, MonitorPlace
<1>3. TypeOK'
  BY <1>2 DEF IInv, TypeOK, Join, MainPlace, MonitorPlace
<1>4. MainOK' /\ MonitorOK'
  BY <1>2 DEF IInv, MainOK, MonitorOK, Join
<1>5. ~Reading'
  BY <1>2, Threads DEF Reading, Join, IpcFree
<1>6. StreamOK'
  BY <1>5, NoStream DEF Join
<1>7. QED
  BY <1>1, <1>3, <1>4, <1>6 DEF IInv, ConnectedToCurrent, Join

-----------------------------------------------------------------------------
(* The monitor *)

\* The manager's own thread has started and waits for nothing of the monitor's.
LEMMA Watching ==
    ASSUME IInv, at[Monitor] # "none"
    PROVE  at[Main] \notin {"new", "accept"}
  BY DEF IInv, MainOK

LEMMA WakeIInv ==
    ASSUME IInv, Wake
    PROVE  IInv'
<1>1. Alive' = Alive /\ at[Main] \notin {"new", "accept"}
  BY Watching DEF Wake, Alive
<1>2. PICK l \in {"exited", "call", "backoff"} :
         /\ Goto(Monitor, l)
         /\ pid' = pid \/ (pid' = None /\ ~stopping /\ ~IsRunning)
         /\ running' = running \/ running' = FALSE
         /\ l = "backoff" => ~stopping /\ ~IsRunning /\ ~(restarts >= limit)
  <2>1. CASE stopping /\ Goto(Monitor, "exited") /\ UNCHANGED <<pid, running>>
    BY <2>1
  <2>2. CASE ~stopping /\ IsRunning /\ Goto(Monitor, "call") /\ UNCHANGED <<pid, running>>
    BY <2>2
  <2>3. CASE /\ ~stopping /\ ~IsRunning /\ pid' = None /\ restarts >= limit
             /\ running' = FALSE /\ Goto(Monitor, "exited")
    BY <2>3
  <2>4. CASE /\ ~stopping /\ ~IsRunning /\ pid' = None /\ ~(restarts >= limit)
             /\ Goto(Monitor, "backoff") /\ UNCHANGED running
    BY <2>4
  <2>5. QED
    BY <2>1, <2>2, <2>3, <2>4, Zenon DEF Wake
<1>3. ~stopping /\ ~IsRunning => Alive = {}
  <2>1. ~stopping => Alive \subseteq {pid}
    BY DEF IInv
  <2>2. ~IsRunning => pid \notin Alive
    BY Names DEF IsRunning, Alive
  <2>3. QED
    BY <2>1, <2>2
<1>4. at' \in [Thread -> MainPlace \cup MonitorPlace \cup CallerPlace]
  BY <1>2, Moved, Threads DEF IInv, MonitorPlace
<1>5. at'[Monitor] = l /\ at'[Main] = at[Main] /\ at'[Caller] = at[Caller]
  BY <1>2, Moved, Threads, Names DEF IInv
<1>6. TypeOK'
  BY <1>2, <1>4, <1>5 DEF IInv, TypeOK, Wake, MonitorPlace
<1>7. l = "backoff" => restarts < MaxRestarts
  <2>1. restarts \in 0 .. MaxRestarts /\ limit \in 0 .. MaxRestarts
    BY DEF IInv, TypeOK
  <2>2. ~(restarts >= limit) => restarts < MaxRestarts
    BY <2>1, SidecarBounds
  <2>3. QED
    BY <1>2, <2>2
<1>8. MainOK' /\ MonitorOK'
  BY <1>1, <1>2, <1>3, <1>5, <1>7 DEF IInv, MainOK, MonitorOK, Wake
<1>9. StreamOK'
  BY <1>2, MoveKeepsStream, Threads DEF Wake
<1>10. QED
  BY <1>1, <1>2, <1>3, <1>6, <1>8, <1>9 DEF IInv, ConnectedToCurrent, Wake

LEMMA BackoffEndsIInv ==
    ASSUME IInv, BackoffEnds
    PROVE  IInv'
<1>1. Alive' = Alive /\ at[Main] \notin {"new", "accept"}
  BY Watching DEF BackoffEnds, Alive
<1>2. PICK l \in {"exited", "close"} : Goto(Monitor, l)
  BY DEF BackoffEnds
<1>3. at' \in [Thread -> MainPlace \cup MonitorPlace \cup CallerPlace]
  BY <1>2, Moved, Threads DEF IInv, MonitorPlace
<1>4. at'[Monitor] = l /\ at'[Main] = at[Main] /\ at'[Caller] = at[Caller]
  BY <1>2, Moved, Threads, Names DEF IInv
<1>5. TypeOK'
  BY <1>3, <1>4 DEF IInv, TypeOK, BackoffEnds, MonitorPlace
<1>6. MainOK' /\ MonitorOK'
  BY <1>1, <1>4 DEF IInv, MainOK, MonitorOK, BackoffEnds
<1>7. StreamOK'
  BY <1>2, MoveKeepsStream, Threads DEF BackoffEnds
<1>8. QED
  BY <1>1, <1>5, <1>6, <1>7 DEF IInv, ConnectedToCurrent, BackoffEnds

LEMMA CloseConnectionIInv ==
    ASSUME IInv, CloseConnection
    PROVE  IInv'
<1>1. Alive' = Alive /\ at[Main] \notin {"new", "accept"}
  BY Watching DEF CloseConnection, Alive
<1>2. at' \in [Thread -> MainPlace \cup MonitorPlace \cup CallerPlace]
  BY Moved, Threads DEF IInv, MonitorPlace, CloseConnection
<1>3. at'[Monitor] = "spawn" /\ at'[Main] = at[Main] /\ at'[Caller] = at[Caller]
  BY Moved, Threads, Names DEF IInv, CloseConnection
<1>4. TypeOK'
  BY <1>2, <1>3 DEF IInv, TypeOK, CloseConnection, MonitorPlace
<1>5. MainOK' /\ MonitorOK'
  BY <1>1, <1>3 DEF IInv, MainOK, MonitorOK, CloseConnection
<1>6. ~Reading'
  <2>1. at[Main] # "read"
    BY DEF IInv, TypeOK, MainPlace
  <2>2. QED
    BY <1>3, <2>1, Threads DEF Reading, CloseConnection, IpcFree
<1>7. StreamOK'
  BY <1>6, NoStream DEF CloseConnection
<1>8. QED
  BY <1>1, <1>4, <1>5, <1>7 DEF IInv, ConnectedToCurrent, CloseConnection

LEMMA RespawnIInv ==
    ASSUME IInv, Respawn
    PROVE  IInv'
<1>1. TypeOK /\ Alive = {} /\ conn = None /\ restarts < MaxRestarts /\ at[Main] \notin {"new", "accept"}
  BY Watching DEF IInv, MonitorOK, Respawn
<1>2. CASE Fork(Monitor) /\ Goto(Monitor, "accept")
  <2>1. at' \in [Thread -> MainPlace \cup MonitorPlace \cup CallerPlace]
    BY <1>1, <1>2, Moved, Threads DEF MonitorPlace
  <2>2. at'[Monitor] = "accept" /\ at'[Main] = at[Main] /\ at'[Caller] = at[Caller]
    BY <1>1, <1>2, Moved, Threads, Names
  <2>3. /\ proc' \in [Pid -> {"free", "alive", "zombie"}]
        /\ child' \in [Thread -> Pid \cup {None}]
        /\ pid' \in Pid /\ child'[Monitor] = pid' /\ Alive' = {pid'}
        /\ child'[Main] = child[Main]
    BY <1>1, <1>2, Forked, Threads, Names
  <2>4. TypeOK'
    BY <1>1, <2>1, <2>2, <2>3 DEF TypeOK, Respawn, MonitorPlace
  <2>5. MainOK' /\ MonitorOK'
    BY <1>1, <2>2, <2>3 DEF IInv, MainOK, MonitorOK, Respawn
  <2>6. StreamOK'
    BY <1>2, MoveKeepsStream, Threads DEF Respawn
  <2>7. QED
    BY <1>1, <2>3, <2>4, <2>5, <2>6 DEF IInv, ConnectedToCurrent, Respawn
<1>3. CASE Goto(Monitor, "sleep") /\ UNCHANGED <<proc, pid, child>>
  <2>1. at' \in [Thread -> MainPlace \cup MonitorPlace \cup CallerPlace]
    BY <1>1, <1>3, Moved, Threads DEF MonitorPlace
  <2>2. at'[Monitor] = "sleep" /\ at'[Main] = at[Main] /\ at'[Caller] = at[Caller]
    BY <1>1, <1>3, Moved, Threads, Names
  <2>3. Alive' = {}
    BY <1>1, <1>3 DEF Alive
  <2>4. TypeOK'
    BY <1>1, <1>3, <2>1, <2>2 DEF TypeOK, Respawn, MonitorPlace
  <2>5. MainOK' /\ MonitorOK'
    BY <1>1, <1>3, <2>2, <2>3 DEF IInv, MainOK, MonitorOK, Respawn
  <2>6. StreamOK'
    BY <1>3, MoveKeepsStream, Threads DEF Respawn
  <2>7. QED
    BY <1>1, <1>3, <2>3, <2>4, <2>5, <2>6 DEF IInv, ConnectedToCurrent, Respawn
<1>4. QED
  BY <1>2, <1>3 DEF Respawn

LEMMA RespawnedIInv ==
    ASSUME IInv, Respawned
    PROVE  IInv'
<1>1. /\ TypeOK /\ conn = None /\ restarts < MaxRestarts /\ at[Main] \notin {"new", "accept"}
      /\ child[Monitor] \in Pid /\ Alive \subseteq {child[Monitor]} /\ pid \in {None, child[Monitor]}
  BY Watching DEF IInv, MonitorOK, Respawned
<1>2. at' \in [Thread -> MainPlace \cup MonitorPlace \cup CallerPlace]
  BY <1>1, Moved, Threads DEF MonitorPlace, Respawned
<1>3. at'[Monitor] = "sleep" /\ at'[Main] = at[Main] /\ at'[Caller] = at[Caller]
  BY <1>1, Moved, Threads, Names DEF Respawned
<1>4. CASE Connect(Monitor) /\ restarts' = restarts + 1 /\ UNCHANGED <<proc, pid>>
  <2>1. /\ conn' \in Stream /\ conn'.to = child[Monitor] /\ conn'.lines = <<>>
        /\ child' \in [Thread -> Pid \cup {None}] /\ child'[Main] = child[Main]
        /\ ~Reading
    BY <1>1, <1>4, Connected, Threads, Names
  <2>2. restarts' \in 0 .. MaxRestarts
    BY <1>1, <1>4, SidecarBounds DEF TypeOK
  <2>3. TypeOK'
    BY <1>1, <1>2, <1>3, <1>4, <2>1, <2>2 DEF TypeOK, Respawned, MonitorPlace
  <2>4. MainOK' /\ MonitorOK'
    BY <1>1, <1>3, <2>1 DEF IInv, MainOK, MonitorOK, Respawned
  <2>5. ~Reading'
    BY <1>3, <2>1, Threads DEF Reading
  <2>6. StreamOK'
    BY <2>1, <2>5, FreshStream, Names
  <2>7. Alive' = Alive
    BY <1>4 DEF Alive
  <2>8. QED
    BY <1>1, <1>4, <2>1, <2>3, <2>4, <2>6, <2>7 DEF IInv, ConnectedToCurrent, Respawned
<1>5. CASE KillUnconnected(Monitor) /\ UNCHANGED restarts
  <2>1. /\ proc' \in [Pid -> {"free", "alive", "zombie"}]
        /\ child' \in [Thread -> Pid \cup {None}] /\ child'[Main] = child[Main]
        /\ pid' = None /\ Alive' = {} /\ conn' = conn
    BY <1>1, <1>5, Killed, Threads, Names
  <2>2. TypeOK'
    BY <1>1, <1>2, <1>3, <1>5, <2>1 DEF TypeOK, Respawned, MonitorPlace
  <2>3. MainOK' /\ MonitorOK'
    BY <1>1, <1>3, <2>1 DEF IInv, MainOK, MonitorOK, Respawned
  <2>4. StreamOK'
    BY <2>1, MoveKeepsStream, Threads DEF Respawned
  <2>5. QED
    BY <1>1, <2>1, <2>2, <2>3, <2>4 DEF IInv, ConnectedToCurrent
<1>6. QED
  BY <1>4, <1>5 DEF Respawned

-----------------------------------------------------------------------------
(* Calls *)

LEMMA BeginCallIInv ==
    ASSUME IInv, BeginCall
    PROVE  IInv'
<1>1. Alive' = Alive
  BY DEF BeginCall, Alive
<1>2. at' \in [Thread -> MainPlace \cup MonitorPlace \cup CallerPlace]
  BY Moved, Threads DEF IInv, CallerPlace, BeginCall
<1>3. at'[Monitor] = at[Monitor] /\ at'[Main] = at[Main] /\ at'[Caller] = "call"
  BY Moved, Threads, Names DEF IInv, BeginCall
<1>4. TypeOK'
  BY <1>2, <1>3 DEF IInv, TypeOK, BeginCall, CallerPlace
<1>5. MainOK' /\ MonitorOK'
  BY <1>1, <1>3 DEF IInv, MainOK, MonitorOK, BeginCall
<1>6. StreamOK'
  BY MoveKeepsStream, Threads DEF BeginCall
<1>7. QED
  BY <1>1, <1>4, <1>5, <1>6 DEF IInv, ConnectedToCurrent, BeginCall

\* A thread in a call touches nothing but the connection and its own place; the
\* rest of the invariant only asks that a connection is not made from nothing.
LEMMA CallIInv ==
    ASSUME IInv, NEW t \in {Monitor, Caller}, at[t] \in {"call", "read"},
           NEW l, Goto(t, l),
           l \in {"read", IF t = Monitor THEN "sleep" ELSE "idle"},
           UNCHANGED <<platform, proc, pid, running, stopping, restarts, limit, child>>,
           conn' \in Stream \cup {None},
           conn' # None => conn # None /\ conn'.to = conn.to,
           StreamOK'
    PROVE  IInv'
<1>1. Alive' = Alive /\ t \in Thread
  BY Threads DEF Alive
<1>2. at' \in [Thread -> MainPlace \cup MonitorPlace \cup CallerPlace]
  BY <1>1, Moved DEF IInv, CallerPlace, MonitorPlace
<1>3. /\ at'[Main] = at[Main]
      /\ at'[Monitor] = IF t = Monitor THEN l ELSE at[Monitor]
      /\ at'[Caller] = IF t = Caller THEN l ELSE at[Caller]
  BY <1>1, Moved, Threads, Names DEF IInv
<1>4. TypeOK'
  BY <1>2, <1>3, Names DEF IInv, TypeOK, CallerPlace, MonitorPlace
<1>5. MainOK'
  BY <1>1, <1>3, Watching DEF IInv, MainOK
<1>6. MonitorOK'
  BY <1>1, <1>3 DEF IInv, MonitorOK
<1>7. QED
  BY <1>1, <1>4, <1>5, <1>6 DEF IInv, ConnectedToCurrent

\* What lies in a stream stays a sequence of lines.
LEMMA StaleLines ==
    ASSUME NEW s \in Seq({"own", "old", "rest"})
    PROVE  Stale(s) \in Seq({"own", "old", "rest"})
<1>1. DOMAIN s = 1 .. Len(s) /\ Len(s) \in Nat
  OBVIOUS
<1>2. Stale(s) \in [1 .. Len(s) -> {"own", "old", "rest"}]
  BY <1>1 DEF Stale
<1>3. QED
  BY <1>1, <1>2, SeqDef

LEMMA StaleNothing == Stale(<<>>) = <<>>
  BY DEF Stale

\* Nobody else reads when one thread returns.
LEMMA ReturnFrees ==
    ASSUME IInv, NEW t \in {Monitor, Caller}, at[t] = "read" \/ IpcFree, Return(t)
    PROVE  ~Reading'
<1>1. t \in Thread /\ TypeOK
  BY Threads DEF IInv
<1>2. PICK l \in {"sleep", "idle"} : Goto(t, l)
  BY DEF Return
<1>3. \A u \in Thread : at'[u] = IF u = t THEN l ELSE at[u]
  BY <1>1, <1>2, Moved
<1>4. \A u \in Thread : u # t => at[u] # "read"
  BY <1>1 DEF IInv, StreamOK, IpcFree
<1>5. QED
  BY <1>3, <1>4 DEF Reading

LEMMA WriteIInv ==
    ASSUME IInv, NEW t \in {Monitor, Caller}, Write(t)
    PROVE  IInv'
<1>1. t \in Thread /\ ~Reading /\ TypeOK /\ StreamOK /\ at[t] = "call" /\ IpcFree
  BY Threads DEF Write, IpcFree, Reading, IInv
<1>2. CASE Return(t) /\ (conn' = None \/ UNCHANGED conn) /\ (conn = None \/ conn' = None)
  <2>1. conn' = None
    BY <1>2
  <2>2. StreamOK'
    BY <1>1, <1>2, <2>1, ReturnFrees, NoStream
  <2>3. QED
    BY <1>1, <1>2, <2>1, <2>2, CallIInv DEF Return, Write
<1>3. CASE /\ conn # None
           /\ conn' = [conn EXCEPT !.lines = Append(@, "own")]
           /\ Goto(t, "read")
  <2>1. conn \in Stream
    BY <1>1, <1>3 DEF TypeOK
  <2>2. Append(conn.lines, "own") \in Seq({"own", "old", "rest"}) /\ Append(conn.lines, "own") # <<>>
    BY <2>1 DEF Stream
  <2>3. /\ conn' \in Stream /\ conn'.to = conn.to /\ conn'.torn = conn.torn
        /\ conn'.lines = Append(conn.lines, "own")
    BY <1>3, <2>1, <2>2 DEF Stream
  <2>4. \A u \in Thread : at'[u] = IF u = t THEN "read" ELSE at[u]
    BY <1>1, <1>3, Moved
  <2>5. Reading' /\ \A u, v \in Thread : at'[u] = "read" /\ at'[v] = "read" => u = v
    BY <1>1, <2>4 DEF Reading
  <2>6. ~conn.torn => Append(conn.lines, "own") = <<"own">>
    <3>1. ~conn.torn => conn.lines = <<>>
      BY <1>1, <1>3 DEF StreamOK
    <3>2. Append(<<>>, "own") = <<"own">>
      OBVIOUS
    <3>3. QED
      BY <3>1, <3>2
  <2>7. StreamOK'
    BY <2>2, <2>3, <2>5, <2>6, Names DEF StreamOK
  <2>8. QED
    BY <1>1, <1>3, <2>3, <2>7, CallIInv DEF Write
<1>4. QED
  BY <1>2, <1>3 DEF Write

LEMMA ReadIInv ==
    ASSUME IInv, NEW t \in {Monitor, Caller}, Read(t)
    PROVE  IInv'
<1>1. t \in Thread /\ at[t] = "read" /\ TypeOK /\ StreamOK
  BY Threads DEF Read, IInv
<1>2. Reading /\ conn \in Stream /\ conn.lines # <<>>
  BY <1>1 DEF Reading, StreamOK, TypeOK
<1>3. ~Reading'
  BY <1>1, ReturnFrees DEF Read
<1>4. Tail(conn.lines) \in Seq({"own", "old", "rest"})
  BY <1>2 DEF Stream
<1>5. CASE ReadNothing
  <2>1. StreamOK'
    BY <1>3, <1>5, NoStream DEF ReadNothing
  <2>2. QED
    BY <1>1, <1>5, <2>1, CallIInv DEF Return, Read, ReadNothing
<1>6. CASE ReadLine
  <2>1. Stale(Tail(conn.lines)) \in Seq({"own", "old", "rest"})
    BY <1>4, StaleLines
  <2>2. /\ conn' \in Stream /\ conn'.to = conn.to /\ conn'.torn = conn.torn
        /\ conn'.lines = Stale(Tail(conn.lines))
    BY <1>2, <1>6, <2>1 DEF Stream, ReadLine
  <2>3. ~conn.torn => Stale(Tail(conn.lines)) = <<>>
    <3>1. ~conn.torn => conn.lines = <<"own">>
      BY <1>1, <1>2, Names DEF StreamOK
    <3>2. Tail(<<"own">>) = <<>>
      OBVIOUS
    <3>3. QED
      BY <3>1, <3>2, StaleNothing
  <2>4. StreamOK'
    BY <1>3, <2>2, <2>3 DEF StreamOK, Reading
  <2>5. QED
    BY <1>1, <1>2, <2>2, <2>4, Names, CallIInv DEF Return, Read
<1>7. CASE ReadPart
  <2>1. <<"rest">> \o Stale(Tail(conn.lines)) \in Seq({"own", "old", "rest"})
    <3>1. Stale(Tail(conn.lines)) \in Seq({"own", "old", "rest"})
      BY <1>4, StaleLines
    <3>2. <<"rest">> \in Seq({"own", "old", "rest"})
      OBVIOUS
    <3>3. QED
      BY <3>1, <3>2, ConcatProperties
  <2>2. /\ conn' \in Stream /\ conn'.to = conn.to /\ conn'.torn = TRUE
        /\ conn'.lines = <<"rest">> \o Stale(Tail(conn.lines))
    BY <1>2, <1>7, <2>1 DEF Stream, ReadPart
  <2>3. StreamOK'
    BY <1>3, <2>2 DEF StreamOK, Reading
  <2>4. QED
    BY <1>1, <1>2, <2>2, <2>3, Names, CallIInv DEF Return, Read
<1>8. QED
  BY <1>5, <1>6, <1>7 DEF Read

-----------------------------------------------------------------------------
(* The theorems *)

LEMMA NextIInv == IInv /\ [Next]_vars => IInv'
<1> SUFFICES ASSUME IInv, [Next]_vars PROVE IInv'
  OBVIOUS
<1>1. CASE UNCHANGED vars
  BY <1>1 DEF vars, IInv, TypeOK, MainOK, MonitorOK, StreamOK, Reading, Alive, ConnectedToCurrent
<1>2. CASE Start \/ Stop \/ MainStep
  BY <1>2, StartIInv, StopIInv, StartedIInv, StartFailsIInv, KillSidecarIInv,
     ReapSidecarIInv, JoinIInv DEF MainStep
<1>3. CASE MonitorStep
  BY <1>3, WakeIInv, BackoffEndsIInv, CloseConnectionIInv, RespawnIInv, RespawnedIInv DEF MonitorStep
<1>4. CASE BeginCall \/ \E t \in {Monitor, Caller} : Write(t) \/ Read(t)
  BY <1>4, BeginCallIInv, WriteIInv, ReadIInv
<1>5. CASE \E p \in Pid : ProcessDies(p)
  BY <1>5, ProcessDiesIInv
<1>6. CASE \E n \in 0 .. MaxRestarts : SetMaxRestartAttempts(n)
  BY <1>6, SetMaxIInv
<1>7. QED
  BY <1>1, <1>2, <1>3, <1>4, <1>5, <1>6 DEF Next

\* The inductive invariant: no step of PluginSystem's thread, the monitor, a
\* call or the process itself leaves it.
THEOREM SidecarInvariance == Spec => []IInv
  BY InitIInv, NextIInv, PTL DEF Spec

\* Every variable keeps its type, and however the limit is changed while the
\* manager runs, no more restarts succeed than the largest limit allows.
THEOREM SidecarTypeCorrect == Spec => []TypeOK
<1>1. IInv => TypeOK
  BY DEF IInv
<1>2. QED
  BY <1>1, SidecarInvariance, PTL

\* spawn_sidecar, kill_sidecar and monitor_loop never leave two live processes,
\* and until Stop begins pid_ names the one there is.
THEOREM OneSidecarAlways == Spec => []OneSidecar
<1>1. IInv => OneSidecar
  <2> SUFFICES ASSUME IInv PROVE OneSidecar
    OBVIOUS
  <2>1. ~stopping => Alive \subseteq {pid}
    BY DEF IInv
  <2>2. Cardinality(Alive) <= 1
    <3>1. CASE Alive = {}
      BY <3>1, FS_EmptySet
    <3>2. CASE Alive # {}
      <4>1. PICK p \in Alive : Alive = {p}
        BY <3>2 DEF IInv
      <4>2. QED
        BY <4>1, FS_Singleton
    <3>3. QED
      BY <3>1, <3>2
  <2>3. QED
    BY <2>1, <2>2 DEF OneSidecar
<1>2. QED
  BY <1>1, SidecarInvariance, PTL

\* ipc_handle_ never belongs to another process than pid_.
THEOREM CallsReachCurrent == Spec => []ConnectedToCurrent
<1>1. IInv => ConnectedToCurrent
  BY DEF IInv
<1>2. QED
  BY <1>1, SidecarInvariance, PTL

\* Call reads its own answer from a stream no call gave up on in mid-line,
\* though it never compares identifiers.
THEOREM CallsReadOwn == Spec => []AnswersOwn
<1>1. IInv => AnswersOwn
  BY DEF IInv, StreamOK, AnswersOwn, Reading
<1>2. QED
  BY <1>1, SidecarInvariance, PTL
=============================================================================
