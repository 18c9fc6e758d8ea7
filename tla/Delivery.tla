------------------------------ MODULE Delivery ------------------------------
(***************************************************************************)
(* How Telegram updates reach the message handler                          *)
(* (channels/telegram_channel.cpp) through the DeduplicationStore and the  *)
(* LaneProcessor, by polling or by webhook, with crashes of the process.   *)
(*                                                                         *)
(* LaneProcessor (channels/lane_processor.cpp): one queue and one worker   *)
(* thread per lane, created on first use, and Shutdown.  A step is a       *)
(* critical section of lanes_mutex_ or of a lane's mutex; the wait on a    *)
(* lane's condition variable is two, because Shutdown notifies without the *)
(* mutex: a notification between the test and the wait is lost.            *)
(*                                                                         *)
(* Both stores are optional (Config).  processed_ids_ never holds an       *)
(* identifier above the watermark, so a store is its watermark; Cleanup    *)
(* only removes identifiers below it.                                      *)
(***************************************************************************)
EXTENDS Naturals, Sequences, FiniteSetsExt

CONSTANTS
    Lane,           \* lane identifiers, numbered in the order of lanes_
    Task,           \* handlers: what a lane runs
    MaxUpdate,      \* bound: updates 1 .. MaxUpdate wait at the server
    MaxDeliveries,  \* bound: how often the server calls the webhook with one update
    MaxCrashes,     \* bound
    Hook,           \* the threads of the web server that deliver webhook calls
    Poller,         \* the polling thread
    LaneOf(_),      \* get_lane_id: the chat of an update
    Configs,        \* [mode : {"poll", "webhook"}, dedup : BOOLEAN, lanes : BOOLEAN]
    None

Update == 1 .. MaxUpdate

\* A Lane and its worker: at the head of its loop, between the test and the wait
\* of its condition variable, waiting, running a task, or gone.
LaneState ==
    [queue : Seq(Task), running : BOOLEAN,
     at : {"test", "blocking", "asleep", "run", "exited"}, task : Task \cup {None}]

\* A thread in HandleUpdate, and the last update of the batch it works on.
Steps == {"check", "record", "submit", "push", "handle", "advance", "write", "undefined"}
ThreadState == [at : Steps, update : Update, last : Update]

ASSUME LaneAssumption == Lane \subseteq Nat /\ None \notin Task \cup LaneState

ASSUME UpdateAssumption ==
    /\ {MaxUpdate, MaxDeliveries, MaxCrashes} \subseteq Nat
    /\ Task = Update
    /\ \A u \in Update : LaneOf(u) \in Lane
    /\ Poller \notin Hook
    /\ None \notin ThreadState

VARIABLES
    lanes,      \* lanes_: per lane None, or its Lane with its worker's position
    shut,       \* shutdown_ and the position of the thread in Shutdown
    config,
    thread,     \* per thread: None, or the update it handles and how far it is
    watermark,  \* watermark_
    offset,     \* last_update_id_
    disk,       \* the files: the saved offset and watermark
    confirmed,  \* Telegram forgets the updates a later getUpdates skipped
    calls,      \* webhook calls made per update
    handled,    \* how often each update reached HandleMessage
    crashes

laneVars == <<lanes, shut>>
vars == <<laneVars, config, thread, watermark, offset, disk, confirmed, calls, handled, crashes>>

Thread == Hook \cup {Poller}
Truncated == 0      \* a file that does not parse leaves last_update_id_ at 0

-----------------------------------------------------------------------------
(* LaneProcessor *)

NewLane == [queue |-> <<>>, running |-> TRUE, at |-> "test", task |-> None]
Exists(l) == lanes[l] # None

LaneInit == lanes = [l \in Lane |-> None] /\ shut = "no"

-----------------------------------------------------------------------------
(* Submit: it looks for the lane under lanes_mutex_, which Shutdown keeps   *)
(* while it joins the workers, and pushes under the lane's mutex.          *)

FindLane(l) ==
    /\ shut # "joining"
    /\ lanes' = IF Exists(l) THEN lanes ELSE [lanes EXCEPT ![l] = NewLane]
    /\ UNCHANGED shut

\* A worker between its test and its wait holds the mutex.
MutexFree(l) == lanes[l].at # "blocking"
Woken(at) == IF at = "asleep" THEN "test" ELSE at

\* Mutation: nobody is notified.
PushSilently(l, t) ==
    /\ Exists(l)
    /\ MutexFree(l)
    /\ lanes' = [lanes EXCEPT ![l].queue = Append(@, t)]
    /\ UNCHANGED shut
Push(l, t) ==
    /\ Exists(l)
    /\ MutexFree(l)
    /\ lanes' = [lanes EXCEPT ![l].queue = Append(@, t), ![l].at = Woken(@)]
    /\ UNCHANGED shut

-----------------------------------------------------------------------------
(* worker_thread *)

\* Mutation: the newest task is taken first.
TakeNewest(l) ==
    LET q == lanes[l].queue IN
    /\ q # <<>>
    /\ lanes' = [lanes EXCEPT ![l].queue = SubSeq(q, 1, Len(q) - 1), ![l].at = "run",
                              ![l].task = q[Len(q)]]
Take(l) ==
    /\ lanes[l].queue # <<>>
    /\ lanes' = [lanes EXCEPT ![l].queue = Tail(@), ![l].at = "run",
                              ![l].task = Head(lanes[l].queue)]

\* A worker that finds its lane stopped leaves, whatever is queued; one that
\* was past the loop's head still takes a task.
WorkerTest(l) ==
    /\ Exists(l)
    /\ lanes[l].at = "test"
    /\ \/ Take(l)
       \/ /\ lanes[l].running
          /\ lanes[l].queue = <<>>
          /\ lanes' = [lanes EXCEPT ![l].at = "blocking"]
       \/ /\ ~lanes[l].running
          /\ lanes' = [lanes EXCEPT ![l].at = "exited"]
    /\ UNCHANGED shut

WorkerBlocks(l) ==
    /\ Exists(l)
    /\ lanes[l].at = "blocking"
    /\ lanes' = [lanes EXCEPT ![l].at = "asleep"]
    /\ UNCHANGED shut

\* The task has run, or thrown.
TaskEnds(l) ==
    /\ Exists(l)
    /\ lanes[l].at = "run"
    /\ lanes' = [lanes EXCEPT ![l].at = "test", ![l].task = None]
    /\ UNCHANGED shut

-----------------------------------------------------------------------------
(* Shutdown: lane after lane is told to stop and joined. *)

BeginShutdown ==
    /\ shut = "no"
    /\ shut' = "begun"
    /\ UNCHANGED lanes

LockLanes ==
    /\ shut = "begun"
    /\ shut' = "joining"
    /\ UNCHANGED lanes

StopLane(l) ==
    /\ shut = "joining"
    /\ Exists(l)
    /\ lanes[l].running
    /\ \A k \in Lane : k < l /\ Exists(k) => lanes[k].at = "exited"
    /\ lanes' = [lanes EXCEPT ![l].running = FALSE, ![l].at = Woken(@)]
    /\ UNCHANGED shut

ClearLanes ==
    /\ shut = "joining"
    /\ \A l \in Lane : Exists(l) => lanes[l].at = "exited"
    /\ lanes' = [l \in Lane |-> None]
    /\ shut' = "done"

Worker(l) == WorkerTest(l) \/ WorkerBlocks(l)

Shutdown ==
    \/ BeginShutdown \/ LockLanes \/ ClearLanes
    \/ \E l \in Lane : StopLane(l)

-----------------------------------------------------------------------------

Init ==
    /\ LaneInit
    /\ config \in Configs
    /\ thread = [t \in Thread |-> None]
    /\ watermark = 0 /\ offset = 0
    /\ disk = [offset |-> 0, watermark |-> 0]
    /\ confirmed = 0
    /\ calls = [u \in Update |-> 0]
    /\ handled = [u \in Update |-> 0]
    /\ crashes = 0

At(t, at) == thread[t] # None /\ thread[t].at = at
Goto(t, at) == thread' = [thread EXCEPT ![t].at = at]

-----------------------------------------------------------------------------
(* Where updates come from *)

\* getUpdates asks for what follows last_update_id_ and gets some of what the
\* server still has, in order.
Poll(last) ==
    LET known == Max({offset, confirmed}) IN
    /\ config.mode = "poll"
    /\ thread[Poller] = None
    /\ known < last
    /\ confirmed' = known
    /\ thread' = [thread EXCEPT ![Poller] = [at |-> "check", update |-> known + 1, last |-> last]]
    /\ UNCHANGED <<laneVars, config, watermark, offset, disk, calls, handled, crashes>>

\* The server repeats a call it thinks was lost, and calls in any order.
HandleWebhookUpdate(t, u) ==
    /\ config.mode = "webhook"
    /\ t \in Hook
    /\ thread[t] = None
    /\ calls[u] < MaxDeliveries
    /\ calls' = [calls EXCEPT ![u] = @ + 1]
    /\ thread' = [thread EXCEPT ![t] = [at |-> "check", update |-> u, last |-> u]]
    /\ UNCHANGED <<laneVars, config, watermark, offset, disk, confirmed, handled, crashes>>

-----------------------------------------------------------------------------
(* HandleUpdate *)

IsProcessed(u) == config.dedup /\ u <= watermark

\* Mutation: the offset is advanced as soon as the update is seen.
CheckAndAdvance(t) ==
    /\ At(t, "check")
    /\ Goto(t, IF IsProcessed(thread[t].update) THEN "advance" ELSE "record")
    /\ offset' = thread[t].update
    /\ disk' = [disk EXCEPT !.offset = thread[t].update]
    /\ UNCHANGED <<laneVars, config, watermark, confirmed, calls, handled, crashes>>

CheckDuplicate(t) ==
    /\ At(t, "check")
    /\ Goto(t, IF IsProcessed(thread[t].update) THEN "advance" ELSE "record")
    /\ UNCHANGED <<laneVars, config, watermark, offset, disk, confirmed, calls, handled, crashes>>

MarkProcessed(t) ==
    /\ At(t, "record")
    /\ watermark' = IF config.dedup THEN Max({watermark, thread[t].update}) ELSE watermark
    /\ Goto(t, IF config.lanes THEN "submit" ELSE "handle")
    /\ UNCHANGED <<laneVars, config, offset, disk, confirmed, calls, handled, crashes>>

\* Without a LaneProcessor the message is handled on the spot.
HandleDirectly(t) ==
    /\ At(t, "handle")
    /\ handled' = [handled EXCEPT ![thread[t].update] = @ + 1]
    /\ Goto(t, "advance")
    /\ UNCHANGED <<laneVars, config, watermark, offset, disk, confirmed, calls, crashes>>

\* With one it is submitted, or rejected once Shutdown has begun.
Submit(t) ==
    LET l == LaneOf(thread[t].update) IN
    /\ \/ At(t, "submit") /\ shut = "no" /\ FindLane(l) /\ Goto(t, "push")
       \/ At(t, "submit") /\ shut # "no" /\ Goto(t, "advance") /\ UNCHANGED laneVars
       \/ At(t, "push") /\ Push(l, thread[t].update) /\ Goto(t, "advance")
    /\ UNCHANGED <<config, watermark, offset, disk, confirmed, calls, handled, crashes>>

\* Shutdown has destroyed the lane Submit still points to: anything may follow.
SubmitDangling(t) ==
    /\ At(t, "push")
    /\ ~Exists(LaneOf(thread[t].update))
    /\ Goto(t, "undefined")
    /\ UNCHANGED <<laneVars, config, watermark, offset, disk, confirmed, calls, handled, crashes>>

\* Mutation: the loop stays on the update it has just handled.
AdvanceInPlace(t) ==
    /\ At(t, "advance")
    /\ offset' = thread[t].update
    /\ disk' = [disk EXCEPT !.offset = thread[t].update]
    /\ thread' = [thread EXCEPT ![t] = IF @.update < @.last THEN [@ EXCEPT !.at = "check"] ELSE None]
    /\ UNCHANGED <<laneVars, config, watermark, confirmed, calls, handled, crashes>>
\* last_update_id_, and SaveLastUpdateId, which truncates and then writes.
Advance(t) ==
    /\ \/ /\ At(t, "advance")
          /\ offset' = thread[t].update
          /\ disk' = [disk EXCEPT !.offset = Truncated]
          /\ Goto(t, "write")
       \/ /\ At(t, "write")
          /\ disk' = [disk EXCEPT !.offset = offset]
          /\ thread' = [thread EXCEPT ![t] =
                IF @.update < @.last
                THEN [at |-> "check", update |-> @.update + 1, last |-> @.last] ELSE None]
          /\ UNCHANGED offset
    /\ UNCHANGED <<laneVars, config, watermark, confirmed, calls, handled, crashes>>

\* Mutation: a handler that throws is not taken off the lane.
HandleMessageAgain(l) ==
    /\ Exists(l)
    /\ lanes[l].at = "run"
    /\ handled' = [handled EXCEPT ![lanes[l].task] = @ + 1]
    /\ UNCHANGED <<laneVars, config, thread, watermark, offset, disk, confirmed, calls, crashes>>
\* The lane's worker runs the handler.
HandleMessage(l) ==
    /\ TaskEnds(l)
    /\ handled' = [handled EXCEPT ![lanes[l].task] = @ + 1]
    /\ UNCHANGED <<config, thread, watermark, offset, disk, confirmed, calls, crashes>>

-----------------------------------------------------------------------------
\* DeduplicationStore::Save, by whoever owns the store.
SaveStore ==
    /\ config.dedup
    /\ disk' = [disk EXCEPT !.watermark = watermark]
    /\ UNCHANGED <<laneVars, config, thread, watermark, offset, confirmed, calls, handled, crashes>>

\* The process dies and starts again: LoadLastUpdateId and
\* DeduplicationStore::Load.
Crash ==
    /\ crashes < MaxCrashes
    /\ crashes' = crashes + 1
    /\ lanes' = [l \in Lane |-> None] /\ shut' = "no"
    /\ thread' = [t \in Thread |-> None]
    /\ watermark' = disk.watermark
    /\ offset' = disk.offset
    /\ UNCHANGED <<config, disk, confirmed, calls, handled>>

ThreadStep(t) ==
    CheckDuplicate(t) \/ MarkProcessed(t) \/ HandleDirectly(t) \/ Submit(t) \/ Advance(t)
LaneStep(l) ==
    \/ /\ Worker(l)
       /\ UNCHANGED <<config, thread, watermark, offset, disk, confirmed, calls, handled, crashes>>
    \/ HandleMessage(l)
ShutdownStep ==
    /\ config.lanes
    /\ Shutdown
    /\ UNCHANGED <<config, thread, watermark, offset, disk, confirmed, calls, handled, crashes>>

Next ==
    \/ \E last \in Update : Poll(last)
    \/ \E t \in Thread : ThreadStep(t) \/ SubmitDangling(t)
    \/ \E t \in Thread, u \in Update : HandleWebhookUpdate(t, u)
    \/ \E l \in Lane : LaneStep(l)
    \/ ShutdownStep
    \/ SaveStore
    \/ Crash

Spec == Init /\ [][Next]_vars

\* The polling thread and the workers are scheduled; handlers return.
FairSpec ==
    /\ Spec
    /\ WF_vars(\E last \in Update : Poll(last))
    /\ WF_vars(ThreadStep(Poller))
    /\ \A l \in Lane : WF_vars(LaneStep(l))

-----------------------------------------------------------------------------
(* Properties *)

LaneType ==
    /\ lanes \in [Lane -> {None} \cup LaneState]
    /\ shut \in {"no", "begun", "joining", "done"}

\* Every variable keeps its type.
TypeOK ==
    /\ LaneType
    /\ config \in Configs
    /\ thread \in [Thread -> {None} \cup ThreadState]
    /\ {watermark, offset, confirmed} \subseteq 0 .. MaxUpdate
    /\ disk \in [offset : 0 .. MaxUpdate, watermark : 0 .. MaxUpdate]
    /\ calls \in [Update -> 0 .. MaxDeliveries]
    /\ handled \in [Update -> Nat]
    /\ crashes \in 0 .. MaxCrashes

\* As the gateway configures the channel (polling, no store, no lanes), Telegram
\* is never told to forget an update that was not handled, whenever the process
\* dies: the offset moves after the handler returned and is saved after that.
NoPolledLoss ==
    config.mode = "poll" /\ ~config.dedup /\ ~config.lanes =>
        \A u \in Update : u <= confirmed => handled[u] > 0

\* A polled update is handled twice only if the process died in between, whether
\* or not the truncated state file sends the poll back to the beginning.
PolledOnce ==
    config.mode = "poll" => \A u \in Update : handled[u] <= 1 + crashes

\* What is polled is handled, and again only after a crash.
\* (channels/telegram_channel.cpp, PollingLoop and HandleUpdate.)
PolledKept == NoPolledLoss /\ PolledOnce

\* Polled messages of one chat are handled in the order they were sent: when one
\* is, no earlier one of the chat is still waiting for its first time.
ChatOrder ==
    [][\A u \in Update : handled'[u] > handled[u] /\ config.mode = "poll" =>
          \A v \in 1 .. u - 1 : LaneOf(v) = LaneOf(u) => handled[v] > 0 \/ crashes > 0]_vars

\* Polled updates are all handled in the end, unless the process dies or is shut
\* down: no wake-up of a lane's worker is lost.
PolledSettle ==
    \A u \in Update :
        config.mode = "poll" ~> (handled[u] > 0 \/ crashes > 0 \/ shut # "no")

-----------------------------------------------------------------------------
(* The inductive invariant *)

\* In this life of the process, the polling thread is past an update.
Past == {"advance", "write", "undefined"}
Passed(u) ==
    LET p == thread[Poller] IN
    IF p = None THEN u <= Max({offset, confirmed})
    ELSE u < p.update \/ (u = p.update /\ p.at \in Past)

\* A lane holds an update, in its queue or with its worker, and holds all in the
\* order they were sent.
Holds(L, u) == (\E i \in DOMAIN L.queue : L.queue[i] = u) \/ (L.at = "run" /\ L.task = u)
InOrder(L) ==
    /\ \A i, j \in DOMAIN L.queue : i < j => L.queue[i] < L.queue[j]
    /\ L.at = "run" => L.task \in Update /\ \A i \in DOMAIN L.queue : L.task < L.queue[i]
Waiting(l, u) == Exists(l) /\ Holds(lanes[l], u)

\* Where the polling thread is, and where it may be.
PollerInv ==
    /\ \A t \in Thread : thread[t] # None => thread[t].update <= thread[t].last
    /\ config.mode = "poll" => \A t \in Hook : thread[t] = None
    /\ thread[Poller] # None =>
          /\ config.mode = "poll"
          /\ confirmed < thread[Poller].update
          /\ thread[Poller].at = "write" => offset = thread[Poller].update
          /\ thread[Poller].at \in {"submit", "push", "undefined"} => config.lanes
          /\ thread[Poller].at = "handle" => ~config.lanes
          /\ \/ thread[Poller].at = "undefined"
             \/ thread[Poller].at = "push" /\ ~Exists(LaneOf(thread[Poller].update))
             => shut # "no"

\* A lane holds updates of its own chats, and none that the polling thread has
\* not passed.
LanesInv ==
    config.mode = "poll" =>
        \A l \in Lane : Exists(l) =>
            /\ config.lanes
            /\ InOrder(lanes[l])
            /\ \A u \in Update : Holds(lanes[l], u) => LaneOf(u) = l /\ Passed(u)

\* An update that is still to be handled in this life was handled in earlier
\* ones only.
OnceInv ==
    config.mode = "poll" =>
        \A u \in Update :
            /\ handled[u] <= 1 + crashes
            /\ ~Passed(u) \/ (\E l \in Lane : Waiting(l, u)) => handled[u] <= crashes

\* Without a store and lanes, everything that is passed or saved was handled.
KeptInv ==
    config.mode = "poll" /\ ~config.dedup /\ ~config.lanes =>
        \A u \in Update :
            Passed(u) \/ u <= offset \/ u <= disk.offset \/ u <= confirmed => handled[u] > 0

\* In the first life the store does not know what is yet to come; what is
\* passed was handled or waits in its lane, unless Shutdown rejected it; and
\* nothing is in a lane, or about to be, before what was sent earlier.
Settled(u) == handled[u] > 0 \/ Waiting(LaneOf(u), u)
About(u) ==
    /\ thread[Poller] # None
    /\ thread[Poller].at = "push" /\ thread[Poller].update = u /\ Exists(LaneOf(u))
OrderInv ==
    config.mode = "poll" /\ crashes = 0 =>
        /\ \A u \in Update :
              ~Passed(u) => u > watermark \/ (/\ thread[Poller] # None /\ u = thread[Poller].update
                                             /\ thread[Poller].at \notin {"check", "record"})
        /\ \A u \in Update : Passed(u) /\ (~config.lanes \/ shut = "no") => Settled(u)
        /\ \A u, v \in Update :
              /\ v < u /\ LaneOf(v) = LaneOf(u)
              /\ About(u) \/ Waiting(LaneOf(u), u)
              => Settled(v)

IInv == TypeOK /\ PollerInv /\ LanesInv /\ OnceInv /\ KeptInv /\ OrderInv
=============================================================================
