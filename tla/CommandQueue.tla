---------------------------- MODULE CommandQueue ----------------------------
(***************************************************************************)
(* gateway/command_queue.cpp: one lane per session, a dispatcher thread    *)
(* that activates at most one command per idle lane while run slots are    *)
(* free, and one detached worker thread per dispatched command.            *)
(*                                                                         *)
(* Every section of the code that holds mu_ is one action.  A message is   *)
(* abstracted to the set of commands whose text it holds.  Identifiers are *)
(* drawn in submission order (generate_id only has to make them fresh).    *)
(***************************************************************************)
EXTENDS Naturals, Sequences, FiniteSets

CONSTANTS
    Session,        \* session keys
    MaxCmds,        \* bound: how many commands are ever submitted
    SubmitModes,    \* modes a submission may ask for
    LaneConfigs,    \* lane settings [mode, cap, drop] the callers may choose
    QueueConfigs,   \* global settings [max, lane] the callers may choose
    None            \* no session, no command, no lane

Modes == {"collect", "followup", "steer", "steer-backlog", "interrupt"}
DropPolicies == {"summarize", "drop-oldest", "reject"}
Cmd == 1 .. MaxCmds

ASSUME CmdAssumption == MaxCmds \in Nat /\ None \notin Cmd
ASSUME NoneAssumption == None \notin Session /\ None \notin LaneConfigs
ASSUME SessionAssumption == IsFiniteSet(Session)
ASSUME ConfigAssumption ==
    /\ SubmitModes \subseteq Modes
    /\ LaneConfigs \subseteq [mode : Modes, cap : Nat, drop : DropPolicies]
    /\ QueueConfigs \subseteq [max : Nat, lane : LaneConfigs]

\* QueuedCommand, in a lane's deque and in the worker thread that runs it.
Entry == [id : Cmd, mode : Modes, text : SUBSET Cmd]
Worker == [id : Cmd, session : Session, text : SUBSET Cmd]

VARIABLES
    \* CommandQueue
    life,           \* running_ and the dispatcher thread
    config,         \* config_
    cmdSession,     \* command_to_session_
    activeCount,    \* active_count_
    \* SessionLane
    lane,           \* mode_, cap_, drop_; None for a key lanes_ does not hold
    pending,        \* pending_
    active,         \* the identifier of active_command_
    \* execute_command
    live,           \* commands owned by worker threads
    next            \* the identifier of the next submission

laneVars == <<lane, pending, active>>
vars == <<life, config, cmdSession, activeCount, laneVars, live, next>>

-----------------------------------------------------------------------------
(* State functions *)

Ids(q) == {q[i].id : i \in DOMAIN q}
Waiting == UNION {Ids(pending[s]) : s \in Session}
Live == {w.id : w \in live}
HasActive(s) == active[s] # None
IsIdle(s) == ~HasActive(s) /\ pending[s] = <<>>
IsOpen(s) == lane[s] # None

\* get_lane: the settings of the lane, which is created from config_ if absent.
LaneOf(s) == IF IsOpen(s) THEN lane[s] ELSE config.lane
OpenLane(s, cfg) == lane' = [lane EXCEPT ![s] = cfg]

Init ==
    /\ life = "stopped"
    /\ config \in QueueConfigs
    /\ cmdSession = [c \in Cmd |-> None]
    /\ activeCount = 0
    /\ lane = [s \in Session |-> None]
    /\ pending = [s \in Session |-> <<>>]
    /\ active = [s \in Session |-> None]
    /\ live = {}
    /\ next = 1

-----------------------------------------------------------------------------
(* SessionLane::ApplyCapOverflow, in closed form: how many entries leave,  *)
(* which ones, and what the queue is afterwards.  With cap 0 the loop body *)
(* runs once; "summarize" keeps at least one entry, the one merged into.   *)

LeastOf(a, b) == IF a <= b THEN a ELSE b

Excess(q, cfg) ==
    LET over == IF Len(q) <= cfg.cap THEN 0
                ELSE IF cfg.cap = 0 THEN 1 ELSE Len(q) - cfg.cap
    IN  IF cfg.drop = "summarize" THEN LeastOf(over, Len(q) - 1) ELSE over

Overflowed(q, cfg) ==
    LET k == Excess(q, cfg) IN
    CASE cfg.drop = "summarize"   -> SubSeq(q, 2, k + 1)
      [] cfg.drop = "drop-oldest" -> SubSeq(q, 1, k)
      [] cfg.drop = "reject"      -> SubSeq(q, Len(q) - k + 1, Len(q))

Texts(q) == UNION {q[i].text : i \in DOMAIN q}
\* Mutation: the merged texts are forgotten.
SummaryLost(q, k) == q[1]
Summary(q, k) == [q[1] EXCEPT !.text = @ \cup Texts(SubSeq(q, 2, k + 1))]

Capped(q, cfg) ==
    LET k == Excess(q, cfg) IN
    CASE cfg.drop = "summarize"   -> <<Summary(q, k)>> \o SubSeq(q, k + 2, Len(q))
      [] cfg.drop = "drop-oldest" -> SubSeq(q, k + 1, Len(q))
      [] cfg.drop = "reject"      -> SubSeq(q, 1, Len(q) - k)

\* Mutation: the newest entry moves to the front, the others stay.
NewestFirst(q) == IF q = <<>> THEN <<>> ELSE <<q[Len(q)]>> \o SubSeq(q, 1, Len(q) - 1)
\* InterruptActive keeps only the newest pending entry.
NewestOnly(q) == IF q = <<>> THEN <<>> ELSE <<q[Len(q)]>>

-----------------------------------------------------------------------------
(* Callers: RPC handlers, on any thread *)

\* The command's own mode, or the lane's when it asked for the default.
EffectiveMode(s, m) == IF m = "collect" THEN LaneOf(s).mode ELSE m
NewEntry(s, m) == [id |-> next, mode |-> EffectiveMode(s, m), text |-> {next}]

Steers(s, m) == EffectiveMode(s, m) \in {"steer", "steer-backlog"} /\ HasActive(s)
Interrupts(s, m) == EffectiveMode(s, m) = "interrupt" /\ HasActive(s)

\* Mutation: the early return of the steering branch comes before the map entry.
SubmitSteeringUnmapped(s, m) ==
    /\ next <= MaxCmds
    /\ Steers(s, m)
    /\ OpenLane(s, LaneOf(s))
    /\ pending' = [pending EXCEPT ![s] = Append(@, NewEntry(s, m))]
    /\ next' = next + 1
    /\ UNCHANGED <<life, config, cmdSession, activeCount, active, live>>

\* A steering message for a busy lane is queued, and the cap is not applied.
SubmitSteering(s, m) ==
    /\ next <= MaxCmds
    /\ Steers(s, m)
    /\ OpenLane(s, LaneOf(s))
    /\ pending' = [pending EXCEPT ![s] = Append(@, NewEntry(s, m))]
    /\ cmdSession' = [cmdSession EXCEPT ![next] = s]
    /\ next' = next + 1
    /\ UNCHANGED <<life, config, activeCount, active, live>>

\* Any other message: an interrupt first clears the lane, then the message is
\* queued and the cap applied.
SubmitQueued(s, m) ==
    LET kept == IF Interrupts(s, m) THEN NewestOnly(pending[s]) ELSE pending[s]
        queue == Append(kept, NewEntry(s, m))
        dropped == Ids(Overflowed(queue, LaneOf(s)))
    IN  /\ next <= MaxCmds
        /\ ~Steers(s, m)
        /\ OpenLane(s, LaneOf(s))
        /\ active' = IF Interrupts(s, m) THEN [active EXCEPT ![s] = None] ELSE active
        /\ pending' = [pending EXCEPT ![s] = Capped(queue, LaneOf(s))]
        /\ cmdSession' = [c \in Cmd |-> IF c \in dropped THEN None
                                        ELSE IF c = next THEN s ELSE cmdSession[c]]
        /\ next' = next + 1
        /\ UNCHANGED <<life, config, activeCount, live>>

\* Cancel: the map entry goes whether or not the command was still pending,
\* and get_lane may create the lane of a session that has none.
Cancel(c) ==
    LET s == cmdSession[c] IN
    /\ s # None
    /\ OpenLane(s, LaneOf(s))
    /\ cmdSession' = [cmdSession EXCEPT ![c] = None]
    /\ \/ \E i \in DOMAIN pending[s] :
             /\ pending[s][i].id = c
             /\ pending' = [pending EXCEPT ![s] =
                              SubSeq(@, 1, i - 1) \o SubSeq(@, i + 1, Len(@))]
       \/ /\ c \notin Ids(pending[s])
          /\ UNCHANGED pending
    /\ UNCHANGED <<life, config, activeCount, active, live, next>>

\* Mutation: the aborted command's slot is given back at once.
AbortSessionFreesSlot(s) ==
    /\ IsOpen(s)
    /\ active' = [active EXCEPT ![s] = None]
    /\ activeCount' = IF HasActive(s) THEN activeCount - 1 ELSE activeCount
    /\ pending' = [pending EXCEPT ![s] = NewestOnly(@)]
    /\ cmdSession' = [c \in Cmd |-> IF c = active[s] THEN None ELSE cmdSession[c]]
    /\ UNCHANGED <<life, config, lane, live, next>>

\* AbortSession: it trims the pending entries even when nothing is active.
AbortSession(s) ==
    /\ IsOpen(s)
    /\ active' = [active EXCEPT ![s] = None]
    /\ pending' = [pending EXCEPT ![s] = NewestOnly(@)]
    /\ cmdSession' = [c \in Cmd |-> IF c = active[s] THEN None ELSE cmdSession[c]]
    /\ UNCHANGED <<life, config, activeCount, lane, live, next>>

ConfigureSession(s, cfg) ==
    /\ OpenLane(s, cfg)
    /\ UNCHANGED <<life, config, cmdSession, activeCount, pending, active, live, next>>

SetConfig(cfg) ==
    /\ config' = cfg
    /\ UNCHANGED <<life, cmdSession, activeCount, laneVars, live, next>>

-----------------------------------------------------------------------------
(* Life cycle and dispatcher thread *)

queueVars == <<config, cmdSession, activeCount, laneVars, live, next>>

Start == life = "stopped" /\ life' = "running" /\ UNCHANGED queueVars
\* Stop clears running_ and joins the dispatcher, which leaves its loop without
\* touching the queue again; the detached workers go on.
Stop == life = "running" /\ life' = "stopped" /\ UNCHANGED queueVars

\* Mutation: TryActivate does not look at active_command_.
ReadyThoughBusy == {s \in Session : IsOpen(s) /\ pending[s] # <<>>}

\* SessionLane::TryActivate succeeds on these lanes once the debounce of their
\* first entry has elapsed.
Ready == {s \in Session : IsOpen(s) /\ ~HasActive(s) /\ pending[s] # <<>>}

\* Mutation: one slot too many.
SlotsPlusOne == IF activeCount <= config.max THEN config.max - activeCount + 1 ELSE 0
Slots == IF activeCount < config.max THEN config.max - activeCount ELSE 0

\* The head of the lane goes to a worker.  A collect command takes the text of
\* the other entries along; a followup discards more than one follower.
Dispatched(s) ==
    LET cmd == Head(pending[s]) IN
    [id |-> cmd.id, session |-> s,
     text |-> IF cmd.mode = "collect" THEN Texts(pending[s]) ELSE cmd.text]
Rest(s) ==
    LET mode == Head(pending[s]).mode
        tail == Tail(pending[s])
    IN  IF mode = "collect" \/ (mode = "followup" /\ Len(tail) > 1)
        THEN <<>> ELSE tail

\* One pass of dispatcher_loop under mu_, at a time when the debounce of the
\* lanes in `eligible` has elapsed.  lanes_ is an unordered map: which of them
\* get the free slots is not determined.  Idle lanes are erased, with their
\* per-session settings.
Dispatch(eligible) ==
    /\ life = "running"
    /\ \E chosen \in SUBSET eligible :
        LET ids == {Head(pending[s]).id : s \in chosen} IN
        /\ Cardinality(chosen) = LeastOf(Cardinality(eligible), Slots)
        /\ active' = [s \in Session |->
                        IF s \in chosen THEN Head(pending[s]).id ELSE active[s]]
        /\ pending' = [s \in Session |->
                        IF s \in chosen THEN Rest(s) ELSE pending[s]]
        /\ live' = live \cup {Dispatched(s) : s \in chosen}
        /\ cmdSession' = [c \in Cmd |-> IF c \in ids THEN None ELSE cmdSession[c]]
        /\ activeCount' = activeCount + Cardinality(chosen)
        /\ lane' = [s \in Session |-> IF IsIdle(s) THEN None ELSE lane[s]]
    /\ UNCHANGED <<life, config, next>>

-----------------------------------------------------------------------------
(* execute_command, on a detached worker thread: the executor runs and the *)
(* response is sent outside mu_; then the lane is completed, whichever     *)
(* command is its active one, and the slot is given back.                  *)

\* Mutation: the lane is not completed.
CompleteKeepsLane(w) ==
    /\ live' = live \ {w}
    /\ activeCount' = activeCount - 1
    /\ UNCHANGED <<life, config, cmdSession, lane, pending, active, next>>
\* Mutation: only the worker whose command is still active cleans up.
CompleteIfActive(w) ==
    /\ live' = live \ {w}
    /\ active' = IF active[w.session] = w.id
                 THEN [active EXCEPT ![w.session] = None] ELSE active
    /\ activeCount' = IF active[w.session] = w.id THEN activeCount - 1 ELSE activeCount
    /\ UNCHANGED <<life, config, cmdSession, lane, pending, next>>

Complete(w) ==
    /\ live' = live \ {w}
    /\ active' = [active EXCEPT ![w.session] = None]
    /\ activeCount' = activeCount - 1
    /\ UNCHANGED <<life, config, cmdSession, lane, pending, next>>

-----------------------------------------------------------------------------
\* The gateway takes RPC calls between Start and Stop.
Call ==
    /\ life = "running"
    /\ \/ \E s \in Session, m \in SubmitModes : SubmitSteering(s, m)
       \/ \E s \in Session, m \in SubmitModes : SubmitQueued(s, m)
       \/ \E c \in Cmd : Cancel(c)
       \/ \E s \in Session : AbortSession(s)
       \/ \E s \in Session, cfg \in LaneConfigs : ConfigureSession(s, cfg)
       \/ \E cfg \in QueueConfigs : SetConfig(cfg)

Next ==
    \/ Call
    \/ Start
    \/ Stop
    \/ \E eligible \in SUBSET Ready : Dispatch(eligible)
    \/ \E w \in live : Complete(w)

\* The dispatcher wakes at least every 100 ms and every debounce elapses, so a
\* pass that finds all of them elapsed comes if it can make progress.  An
\* executor "must block until the agent run completes": each run completes.
Fairness ==
    /\ \A c \in Cmd : WF_vars(\E w \in live : w.id = c /\ Complete(w))
    /\ WF_vars(Dispatch(Ready))

Spec == Init /\ [][Next]_vars
FairSpec == Spec /\ Fairness

-----------------------------------------------------------------------------
(* Properties *)

\* Every variable keeps its type.
TypeOK ==
    /\ life \in {"stopped", "running"}
    /\ config \in QueueConfigs
    /\ cmdSession \in [Cmd -> Session \cup {None}]
    /\ activeCount \in Nat
    /\ lane \in [Session -> LaneConfigs \cup {None}]
    /\ pending \in [Session -> Seq(Entry)]
    /\ active \in [Session -> Cmd \cup {None}]
    /\ live \in SUBSET Worker
    /\ next \in 1 .. MaxCmds + 1

\* active_count_ is exactly the number of commands whose worker has been
\* dispatched and has not given its slot back, whatever was interrupted,
\* aborted or cancelled meanwhile: no slot leaks and none is freed twice.
SlotsAccounted == activeCount = Cardinality(live)

\* A lane's active command always has a live worker of that session, so a
\* lane is never blocked by a command nobody will complete.
LaneNeverWedged ==
    \A s \in Session : HasActive(s) =>
        \E w \in live : w.id = active[s] /\ w.session = s

\* The header's promise, "per-session serialization": at most one worker runs
\* for a session.  (The code breaks it once a run was interrupted or aborted.)
LaneSerialized == \A v, w \in live : v.session = w.session => v = w

\* What the code does keep: a run that holds its lane keeps it until it
\* completes, unless InterruptActive takes the lane away, or a run that lost
\* the lane earlier completes now and frees it under the wrong name.
LaneLostOnlyToInterrupt ==
    [][\A w \in live \cap live' :
          LET s == w.session IN
          active[s] = w.id => \/ active'[s] = w.id
                              \/ AbortSession(s)
                              \/ \E m \in SubmitModes : Interrupts(s, m) /\ SubmitQueued(s, m)
                              \/ \E v \in live \ {w} : v.session = s /\ Complete(v)]_vars

\* A lane hands its commands out in submission order: merging, dropping,
\* cancelling and interrupting never reorder the ones that stay.
LaneFIFO ==
    \A s \in Session : \A i, j \in DOMAIN pending[s] :
        i < j => pending[s][i].id < pending[s][j].id

\* Every pending command can be found by Cancel, in the lane that holds it.
PendingCancellable ==
    \A s \in Session : \A i \in DOMAIN pending[s] : cmdSession[pending[s][i].id] = s

\* A pending message never vanishes: a command that leaves its lane runs, or its
\* text, with all that had been merged into it, becomes part of a message that
\* waits or runs; unless it was cancelled, its session was interrupted or
\* aborted, the lane's drop policy discards, or a followup discarded it.
MaybeDiscarded(s, e) ==
    \/ Cancel(e.id)
    \/ AbortSession(s)
    \/ \E m \in SubmitModes : /\ SubmitQueued(s, m)
                              /\ Interrupts(s, m) \/ LaneOf(s).drop # "summarize"
    \/ /\ active'[s] = Head(pending[s]).id
       /\ Head(pending[s]).mode = "followup"
Messages == (UNION {{pending[s][i].text : i \in DOMAIN pending[s]} : s \in Session})
            \cup {w.text : w \in live}
NoMessageVanishes ==
    [][\A s \in Session : \A i \in DOMAIN pending[s] :
          \/ \E text \in Messages' : pending[s][i].text \subseteq text
          \/ MaybeDiscarded(s, pending[s][i])]_vars

\* Nothing is lost but to an interrupt or to a policy that says so: neither the
\* lane of a run nor the message of a command that waits.
\* (gateway/command_queue.cpp, InterruptActive and ApplyCapOverflow.)
OnlyInterruptsLose == LaneLostOnlyToInterrupt /\ NoMessageVanishes

\* The command queue is a worker pool of config_.max_concurrent slots.
Pool == INSTANCE WorkerPool WITH
    waiting <- Waiting,
    running <- Live,
    retired <- (1 .. next - 1) \ (Waiting \cup Live),
    limit <- config.max
RefinesPool == Pool!PoolSpec

\* While the queue runs, a pending command does not stay pending.
PendingSettles ==
    \A c \in Cmd : c \in Waiting ~> (c \notin Waiting \/ life # "running")
=============================================================================
