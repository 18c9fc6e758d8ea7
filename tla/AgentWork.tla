----------------------------- MODULE AgentWork -----------------------------
(***************************************************************************)
(* The work that competes for the one AgentLoop of the gateway: turns of   *)
(* chats and of cron.run, subagents spawned by a turn or by chain.execute  *)
(* (core/subagent.cpp with the runner of cli/gateway_commands.cpp), and    *)
(* the table of cron jobs (core/cron_scheduler.cpp) that turns, chains and *)
(* the cron.* methods change.                                              *)
(*                                                                         *)
(* A step is a critical section.  The gateway spawns for the parent "main" *)
(* at depth 0 always, so the limit of depth never applies; it calls        *)
(* neither CancelRun nor CleanupCompleted, and never starts the thread of  *)
(* the scheduler.  A spawn that is refused changes nothing.                *)
(***************************************************************************)
EXTENDS Integers, Sequences, FiniteSets

CONSTANTS
    Thread,         \* connection threads
    MaxChildren,    \* max_children
    MaxRuns,        \* bound: subagents ever spawned
    MaxJobs,        \* bound: jobs ever added
    MaxCrashes,     \* bound
    None

Run == 1 .. MaxRuns
Job == 1 .. MaxJobs

ASSUME WorkBounds ==
    /\ {MaxRuns, MaxJobs, MaxCrashes} \subseteq Nat
    /\ MaxChildren \in Nat
    /\ IsFiniteSet(Thread) /\ Thread # {}
    /\ None \notin Thread

VARIABLES
    turnLock,   \* who holds session_write_mutex_
    thread,     \* per thread: the stack of what it does, the innermost call last
    runs,       \* runs_: the states of the subagents
    jobs,       \* jobs_
    path,       \* storage_path_ is set
    file,       \* the file of the jobs
    saving,     \* a thread holds the scheduler's mu_ while it writes the file
    nextJob, crashes

vars == <<turnLock, thread, runs, jobs, path, file, saving, nextJob, crashes>>
cronVars == <<jobs, path, file, saving, nextJob>>

\* What a thread does, and the run or the job it does it for.
Frame(at, of) == [at |-> at, of |-> of]
Idle == <<Frame("idle", None)>>

\* Load is called if the file exists.
Init ==
    /\ turnLock = None
    /\ thread = [t \in Thread |-> Idle]
    /\ runs = <<>>
    /\ jobs = {}
    /\ path \in BOOLEAN
    /\ file = [is |-> IF path THEN "whole" ELSE "absent", holds |-> {}]
    /\ saving = FALSE
    /\ nextJob = 1
    /\ crashes = 0

Top(t) == thread[t][Len(thread[t])]
Pop(t) == SubSeq(thread[t], 1, Len(thread[t]) - 1)
At(t, at) == Top(t).at = at
SetStack(t, stack) == thread' = [thread EXCEPT ![t] = stack]
Goto(t, at) == SetStack(t, Append(Pop(t), Frame(at, Top(t).of)))
\* A tool or a method that ends returns to its caller.
Call(t, at) == SetStack(t, Append(thread[t], Frame(at, None)))
Return(t) == SetStack(t, Pop(t))

\* Where tools are called: in a turn, in a subagent's turn, in a chain.
CallsTools(t) == Top(t).at \in {"turn", "child", "chain"}

-----------------------------------------------------------------------------
(* Requests *)

\* chat.send and its like, or cron.run with a job found in a copy of the table.
Request(t) ==
    /\ At(t, "idle")
    /\ Call(t, "wait")
    /\ UNCHANGED <<turnLock, runs, cronVars, crashes>>

EnterTurn(t) ==
    /\ At(t, "wait")
    /\ turnLock = None
    /\ turnLock' = t
    /\ Goto(t, "turn")
    /\ UNCHANGED <<runs, cronVars, crashes>>

\* Mutation: a turn that throws does not release the mutex.
TurnEndsLocked(t) ==
    /\ At(t, "turn")
    /\ turnLock' \in {None, turnLock}
    /\ Return(t)
    /\ UNCHANGED <<runs, cronVars, crashes>>
\* The turn returns or throws.
TurnEnds(t) ==
    /\ At(t, "turn")
    /\ turnLock' = None
    /\ Return(t)
    /\ UNCHANGED <<runs, cronVars, crashes>>

\* chain.execute runs tools on the thread of the connection.
BeginChain(t) ==
    /\ At(t, "idle")
    /\ Call(t, "chain")
    /\ UNCHANGED <<turnLock, runs, cronVars, crashes>>

EndChain(t) ==
    /\ At(t, "chain")
    /\ Return(t)
    /\ UNCHANGED <<turnLock, runs, cronVars, crashes>>

-----------------------------------------------------------------------------
(* spawn_subagent *)

Active == {r \in DOMAIN runs : runs[r] = "running"}

\* Mutation: one child more.
MaySpawnOneMore == Cardinality(Active) <= MaxChildren
MaySpawn == Cardinality(Active) < MaxChildren

Inserting == {t \in Thread : At(t, "insert")}

\* The children are counted in one critical section ...
Spawn(t) ==
    /\ CallsTools(t)
    /\ MaySpawn
    /\ Len(runs) + Cardinality(Inserting) < MaxRuns   \* bound
    /\ Call(t, "insert")
    /\ UNCHANGED <<turnLock, runs, cronVars, crashes>>

\* ... and the run is entered in another.
Insert(t) ==
    /\ At(t, "insert")
    /\ runs' = Append(runs, "running")
    /\ SetStack(t, Append(Pop(t), Frame("start", Len(runs) + 1)))
    /\ UNCHANGED <<turnLock, cronVars, crashes>>

\* The runner calls ProcessMessage of the same AgentLoop.
EnterChild(t) ==
    /\ At(t, "start")
    /\ turnLock = None
    /\ turnLock' = t
    /\ Goto(t, "child")
    /\ UNCHANGED <<runs, cronVars, crashes>>

\* It answers, answers nothing, or throws.
ChildEnds(t, outcome) ==
    /\ At(t, "child")
    /\ turnLock' = None
    /\ Goto(t, outcome)
    /\ UNCHANGED <<runs, cronVars, crashes>>

\* Mutation: the run is marked even if there is no answer.
RunEndsAnyhow(t) ==
    /\ Top(t).at \in {"completed", "failed", "silent"}
    /\ runs' = [runs EXCEPT ![Top(t).of] = Top(t).at]
    /\ Return(t)
    /\ UNCHANGED <<turnLock, cronVars, crashes>>
\* CompleteRun or FailRun; a run without an answer stays as it is.
RunEnds(t) ==
    /\ Top(t).at \in {"completed", "failed", "silent"}
    /\ runs' = IF At(t, "silent") THEN runs
               ELSE [runs EXCEPT ![Top(t).of] = Top(t).at]
    /\ Return(t)
    /\ UNCHANGED <<turnLock, cronVars, crashes>>

-----------------------------------------------------------------------------
(* CronScheduler *)

Unlocked == ~saving
Truncated == [is |-> "truncated", holds |-> {}]

\* An invalid expression is refused and changes nothing.
AddJob(t) ==
    /\ CallsTools(t) \/ At(t, "idle") \/ At(t, "readd")
    /\ Unlocked
    /\ nextJob <= MaxJobs
    /\ nextJob' = nextJob + 1
    /\ jobs' = jobs \cup {nextJob}
    /\ LET below == IF At(t, "readd") THEN Pop(t) ELSE thread[t] IN
          SetStack(t, IF path THEN Append(below, Frame("save", nextJob)) ELSE below)
    /\ UNCHANGED <<turnLock, runs, path, file, saving, crashes>>

\* Save, after mu_ was released: it opens the file ...
Save(t) ==
    /\ At(t, "save")
    /\ Unlocked
    /\ saving' = TRUE
    /\ file' = Truncated
    /\ Goto(t, "write")
    /\ UNCHANGED <<turnLock, runs, jobs, path, nextJob, crashes>>

\* ... and writes what jobs_ holds then.
Write(t) ==
    /\ At(t, "write")
    /\ saving' = FALSE
    /\ file' = [is |-> "whole", holds |-> jobs]
    /\ Return(t)
    /\ UNCHANGED <<turnLock, runs, jobs, path, nextJob, crashes>>

\* Mutation: what is removed by an unambiguous prefix is not saved.
RemoveUnsaved(t, j, stack) ==
    /\ Unlocked
    /\ jobs' = jobs \ {j}
    /\ SetStack(t, stack)
    /\ UNCHANGED <<file, saving>>
\* RemoveJob, which saves before it releases mu_; the method goes on with `stack'.
Remove(t, j, stack) ==
    /\ Unlocked
    /\ jobs' = jobs \ {j}
    /\ IF path /\ j \in jobs
       THEN /\ saving' = TRUE
            /\ file' = Truncated
            /\ SetStack(t, Append(stack, Frame("write", None)))
       ELSE /\ SetStack(t, stack)
            /\ UNCHANGED <<file, saving>>

RemoveJob(t, j) ==
    /\ CallsTools(t) \/ At(t, "idle")
    /\ j \in jobs
    /\ Remove(t, j, thread[t])
    /\ UNCHANGED <<turnLock, runs, path, nextJob, crashes>>

\* cron.update: the job is found in a copy of the table, removed (if it is still
\* there), and added again under a new identifier, unless its new schedule is
\* invalid.
Update(t, j) ==
    /\ At(t, "idle")
    /\ Unlocked
    /\ j \in jobs
    /\ SetStack(t, Append(thread[t], Frame("update", j)))
    /\ UNCHANGED <<turnLock, runs, cronVars, crashes>>

UpdateRemoves(t) ==
    /\ At(t, "update")
    /\ Remove(t, Top(t).of, Append(Pop(t), Frame("readd", None)))
    /\ UNCHANGED <<turnLock, runs, path, nextJob, crashes>>

UpdateThrows(t) ==
    /\ At(t, "readd")
    /\ Return(t)
    /\ UNCHANGED <<turnLock, runs, cronVars, crashes>>

-----------------------------------------------------------------------------
\* The process dies and starts again.  A file that does not parse is kept as the
\* place to save to.
Crash ==
    /\ crashes < MaxCrashes
    /\ crashes' = crashes + 1
    /\ turnLock' = None
    /\ thread' = [t \in Thread |-> Idle]
    /\ runs' = <<>>
    /\ jobs' = file.holds
    /\ path' = (file.is # "absent")
    /\ saving' = FALSE
    /\ UNCHANGED <<file, nextJob>>

Outcomes == {"completed", "failed", "silent"}

\* What a thread does on its own once a request has come in.
Step(t) ==
    \/ TurnEnds(t) \/ EndChain(t) \/ Insert(t) \/ RunEnds(t)
    \/ \E outcome \in Outcomes : ChildEnds(t, outcome)
    \/ Save(t) \/ Write(t) \/ UpdateRemoves(t) \/ UpdateThrows(t)

\* What clients and models ask for.
Ask(t) ==
    \/ Request(t) \/ BeginChain(t) \/ Spawn(t) \/ AddJob(t)
    \/ \E j \in Job : RemoveJob(t, j) \/ Update(t, j)

Next ==
    \/ \E t \in Thread : Step(t) \/ Ask(t) \/ EnterTurn(t) \/ EnterChild(t)
    \/ Crash

Spec == Init /\ [][Next]_vars

\* Turns, chains and subagents end, and a mutex that is free again and again is
\* granted to each thread that waits for it.
FairSpec ==
    /\ Spec
    /\ \A t \in Thread : WF_vars(Step(t)) /\ SF_vars(EnterTurn(t) \/ EnterChild(t))

-----------------------------------------------------------------------------
(* Properties *)

Places == {"idle", "wait", "turn", "chain", "insert", "start", "child", "save", "write",
           "update", "readd"} \cup Outcomes

Frames == [at : Places, of : Run \cup Job \cup {None}]

\* Every variable keeps its type.
TypeOK ==
    /\ turnLock \in Thread \cup {None}
    /\ thread \in [Thread -> Seq(Frames)]
    /\ runs \in Seq({"running", "completed", "failed"}) /\ Len(runs) <= MaxRuns
    /\ jobs \subseteq Job
    /\ path \in BOOLEAN /\ saving \in BOOLEAN
    /\ file \in [is : {"absent", "whole", "truncated"}, holds : SUBSET Job]
    /\ nextJob \in 1 .. MaxJobs + 1
    /\ crashes \in 0 .. MaxCrashes

\* The children of a parent are counted in one critical section and entered in
\* another: the limit is exceeded by the threads that were counted together, and
\* by no more, however many subagents end without an answer.
ChildrenBounded == Cardinality(Active) <= MaxChildren + Cardinality(Thread) - 1

Unsaved == {Top(t).of : t \in {u \in Thread : At(u, "save")}}
\* Once the scheduler has a file, it holds every job but those whose AddJob has
\* not saved yet, and none that was removed, whoever saves in between: what a
\* client was told survives a crash that finds the mutex free.
JobsOnDisk ==
    path /\ Unlocked =>
        /\ jobs \ Unsaved \subseteq file.holds
        /\ file.holds \subseteq jobs

\* A stack begins with the thread at rest, and what is called from below its top
\* is called from a place that calls.
Callers == {"idle", "turn", "chain", "child", "readd"}
Shaped(stack) ==
    /\ Len(stack) >= 1
    /\ \A i \in 1 .. Len(stack) :
          /\ stack[i].at = "idle" <=> i = 1
          /\ i < Len(stack) => stack[i].at \in Callers
Turns(stack) == {i \in 1 .. Len(stack) : stack[i].at \in {"turn", "child"}}

\* session_write_mutex_ is held by the thread that is in a turn of the AgentLoop,
\* of a chat or of a subagent, and there is at most one such turn in all stacks.
OneTurn ==
    \A t \in Thread :
        IF turnLock = t THEN \E i \in 1 .. Len(thread[t]) : Turns(thread[t]) = {i}
        ELSE Turns(thread[t]) = {}

\* The scheduler's mu_ is held over a write of the file by the one thread that
\* writes.
OneWriter ==
    /\ \A t, u \in Thread : At(t, "write") /\ At(u, "write") => t = u
    /\ saving = \E t \in Thread : At(t, "write")

\* What bounds the children: those that were counted but are not entered yet.
Counted ==
    /\ Cardinality(Active) + Cardinality(Inserting) <= MaxChildren + Cardinality(Thread) - 1
    /\ Len(runs) + Cardinality(Inserting) <= MaxRuns

\* The inductive invariant.
IInv ==
    /\ TypeOK /\ \A t \in Thread : Shaped(thread[t])
    /\ OneTurn /\ OneWriter /\ Counted /\ JobsOnDisk

\* A thread that holds session_write_mutex_ and asks for it again.
Stuck == \E t \in Thread : turnLock = t /\ At(t, "start")

\* A request gets its turn, unless a turn has spawned a subagent and waits for
\* itself.
RequestsServed == \A t \in Thread : At(t, "wait") ~> (~At(t, "wait") \/ Stuck)

\* "Run agent loop on child session": a subagent that was accepted gets its turn.
SubagentsRun == \A t \in Thread : At(t, "start") ~> ~At(t, "start")
=============================================================================
