------------------------------ MODULE Adapters ------------------------------
(***************************************************************************)
(* The channel adapters (channels/adapter_manager.cpp): one child process  *)
(* for each enabled channel that has a script, a monitor thread that looks *)
(* at them every ten seconds and restarts what has died, and Stop, which   *)
(* kills the adapters and clears their table before it joins the monitor.  *)
(* Nothing locks the table.                                                *)
(***************************************************************************)
EXTENDS Naturals, FiniteSets

CONSTANTS
  Channel,      \* enabled channels whose adapter script exists
  MaxLaunches   \* bound: processes launched

VARIABLES
  platform,  \* "posix": a child that died and was not waited for looks alive; "win32"
  running,   \* running_
  adapters,  \* adapters_: "absent", "up" or "down" (its running flag)
  proc,      \* each channel's process: "none", "live", "zombie"
  monitor,   \* the monitor thread, and the adapters its loop still has to visit
  stop,      \* Stop, and the adapters it still has to kill
  late,      \* channels the monitor launched again after Stop had begun
  launches

vars == <<platform, running, adapters, proc, monitor, stop, late, launches>>

Thread == [at : {"none", "sleep", "scan", "restart", "kill", "wait", "join", "done"},
           todo : SUBSET Channel, ch : SUBSET Channel]
NoThread == [at |-> "none", todo |-> {}, ch |-> {}]

StateOK ==
  /\ platform \in {"posix", "win32"} /\ running \in BOOLEAN
  /\ adapters \in [Channel -> {"absent", "up", "down"}]
  /\ proc \in [Channel -> {"none", "live", "zombie"}]
  /\ monitor \in Thread /\ stop \in Thread /\ late \subseteq Channel

TypeOK == StateOK /\ launches \in 0 .. MaxLaunches

Init ==
  /\ platform \in {"posix", "win32"} /\ running = FALSE
  /\ adapters = [c \in Channel |-> "absent"] /\ proc = [c \in Channel |-> "none"]
  /\ monitor = NoThread /\ stop = NoThread /\ late = {} /\ launches = 0

is_process_alive(c) == proc[c] = "live" \/ (proc[c] = "zombie" /\ platform = "posix")

-----------------------------------------------------------------------------

\* Every channel whose adapter could be launched is entered; the monitor starts
\* if there is one.
Start ==
  /\ ~running /\ stop = NoThread /\ monitor = NoThread
  /\ \E L \in SUBSET Channel :
       /\ L # {} /\ launches + Cardinality(L) <= MaxLaunches
       /\ adapters' = [c \in Channel |-> IF c \in L THEN "up" ELSE "absent"]
       /\ proc' = [c \in Channel |-> IF c \in L THEN "live" ELSE proc[c]]
       /\ launches' = launches + Cardinality(L)
  /\ running' = TRUE /\ monitor' = [NoThread EXCEPT !.at = "sleep"]
  /\ UNCHANGED <<platform, stop, late>>

ProcessExits(c) ==
  /\ proc[c] = "live"
  /\ proc' = [proc EXCEPT ![c] = IF platform = "posix" THEN "zombie" ELSE "none"]
  /\ UNCHANGED <<platform, running, adapters, monitor, stop, late, launches>>

-----------------------------------------------------------------------------
(* monitor_loop.                                                           *)

MonitorWakes ==
  /\ monitor.at = "sleep"
  /\ monitor' = IF running
                THEN [at |-> "scan", todo |-> {c \in Channel : adapters[c] # "absent"}, ch |-> {}]
                ELSE [NoThread EXCEPT !.at = "done"]
  /\ UNCHANGED <<platform, running, adapters, proc, stop, late, launches>>

\* One adapter of the loop.  The entries outlive the clearing of the table as
\* memory: the loop goes on over them.
ScanAdapter(c) ==
  LET dead == adapters[c] = "up" /\ ~is_process_alive(c)
  IN  /\ monitor.at = "scan" /\ c \in monitor.todo
      /\ adapters' = IF dead THEN [adapters EXCEPT ![c] = "down"] ELSE adapters
      /\ monitor' = [monitor EXCEPT !.todo = @ \ {c},
                       !.at = IF dead /\ running THEN "restart" ELSE @,
                       !.ch = IF dead /\ running THEN {c} ELSE {}]
      /\ UNCHANGED <<platform, running, proc, stop, late, launches>>

\* Three seconds later, whatever has been stopped meanwhile: the launch, which
\* may fail.
RestartAdapter ==
  /\ monitor.at = "restart" /\ monitor' = [monitor EXCEPT !.at = "scan", !.ch = {}]
  /\ \E c \in monitor.ch, ok \in BOOLEAN :
       /\ ok => launches < MaxLaunches
       /\ proc' = IF ok THEN [proc EXCEPT ![c] = "live"] ELSE proc
       /\ adapters' = IF ok /\ adapters[c] # "absent" THEN [adapters EXCEPT ![c] = "up"] ELSE adapters
       /\ launches' = IF ok THEN launches + 1 ELSE launches
       /\ late' = IF ok /\ stop # NoThread THEN late \cup {c} ELSE late
  /\ UNCHANGED <<platform, running, stop>>

ScanEnds ==
  /\ monitor.at = "scan" /\ monitor.todo = {}
  /\ monitor' = [monitor EXCEPT !.at = IF running THEN "sleep" ELSE "done"]
  /\ UNCHANGED <<platform, running, adapters, proc, stop, late, launches>>

-----------------------------------------------------------------------------
(* Stop and kill_adapter.                                                  *)

Stop ==
  /\ stop = NoThread
  /\ running' = FALSE
  /\ stop' = [at |-> "kill", todo |-> {c \in Channel : adapters[c] # "absent"}, ch |-> {}]
  /\ UNCHANGED <<platform, adapters, proc, monitor, late, launches>>

\* An adapter that is not running is passed over, one that is gets a signal.
kill_adapter(c) ==
  /\ stop.at = "kill" /\ c \in stop.todo
  /\ stop' = [stop EXCEPT !.todo = @ \ {c}, !.at = IF adapters[c] = "up" THEN "wait" ELSE @,
                          !.ch = IF adapters[c] = "up" THEN {c} ELSE {}]
  /\ UNCHANGED <<platform, running, adapters, proc, monitor, late, launches>>

\* Mutant of Killed: an adapter that outlives the signal is left to itself.
KilledGently ==
  /\ stop.at = "wait"
  /\ \E c \in stop.ch :
       /\ proc' = [proc EXCEPT ![c] = IF @ = "live" THEN @ ELSE "none"]
       /\ adapters' = [adapters EXCEPT ![c] = "down"]
  /\ stop' = [stop EXCEPT !.at = "kill", !.ch = {}]
  /\ UNCHANGED <<platform, running, monitor, late, launches>>

\* It has gone within five seconds and is reaped, or it is killed.
Killed ==
  /\ stop.at = "wait"
  /\ \E c \in stop.ch :
       /\ proc' = [proc EXCEPT ![c] = "none"]
       /\ adapters' = [adapters EXCEPT ![c] = "down"]
  /\ stop' = [stop EXCEPT !.at = "kill", !.ch = {}]
  /\ UNCHANGED <<platform, running, monitor, late, launches>>

ClearAdapters ==
  /\ stop.at = "kill" /\ stop.todo = {}
  /\ adapters' = [c \in Channel |-> "absent"] /\ stop' = [stop EXCEPT !.at = "join"]
  /\ UNCHANGED <<platform, running, proc, monitor, late, launches>>

JoinMonitor ==
  /\ stop.at = "join" /\ monitor.at \in {"none", "done"}
  /\ monitor' = NoThread /\ stop' = [stop EXCEPT !.at = "done"]
  /\ UNCHANGED <<platform, running, adapters, proc, late, launches>>

-----------------------------------------------------------------------------

Next ==
  \/ Start \/ MonitorWakes \/ RestartAdapter \/ ScanEnds \/ Stop \/ Killed \/ ClearAdapters \/ JoinMonitor
  \/ \E c \in Channel : ProcessExits(c) \/ ScanAdapter(c) \/ kill_adapter(c)

Spec == Init /\ [][Next]_vars

-----------------------------------------------------------------------------

\* "Stop all running adapters": no process is left when Stop has returned, be
\* it killed while the monitor looks at it, dead and not yet waited for, or
\* deaf to the first signal.  The one exception is an adapter that stood before
\* its restart when Stop passed it over, and only on win32: elsewhere the
\* monitor notices no death.
\* (channels/adapter_manager.cpp, Stop and monitor_loop.)
StopLeavesNone ==
  stop.at = "done" =>
    /\ \A c \in Channel : proc[c] # "none" => c \in late
    /\ late # {} => platform = "win32"

\* The inductive invariant.  What runs is an adapter that is up and that Stop
\* has yet to visit, the one it is killing, or one that was launched late; and
\* elsewhere than on win32 an adapter that is up has a process to wait for,
\* which is why the monitor finds none dead.
AdapterOK(c) ==
  /\ adapters[c] = "down" => proc[c] = "none"
  /\ platform = "posix" /\ adapters[c] = "up" => proc[c] # "none"
  /\ platform = "win32" => proc[c] # "zombie"
  /\ proc[c] # "none" =>
       \/ c \in late
       \/ adapters[c] = "up" /\ stop.at = "none"
       \/ adapters[c] = "up" /\ stop.at \in {"kill", "wait"} /\ c \in stop.todo
       \/ stop.at = "wait" /\ c \in stop.ch

IInv ==
  /\ StateOK
  /\ stop.at = "none" => stop = NoThread
  /\ running => stop.at = "none"
  /\ ~running /\ stop.at = "none" => monitor = NoThread /\ \A c \in Channel : adapters[c] = "absent"
  /\ platform = "posix" => late = {} /\ monitor.at # "restart"
  /\ stop.at \in {"none", "kill", "wait"} => \A c \in monitor.ch : adapters[c] # "absent"
  /\ \A c, d \in stop.ch : c = d
  /\ \A c \in Channel : AdapterOK(c)
=============================================================================
