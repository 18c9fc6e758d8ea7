-------------------------------- MODULE Cron --------------------------------
(***************************************************************************)
(* When cron jobs run (core/cron_scheduler.cpp): the evaluation of a       *)
(* schedule, the search for the next minute it names, and the scheduler's  *)
(* loop, which looks at the jobs every half minute and runs what is due on *)
(* its own thread.  The gateway stores jobs (AgentWork) and never starts   *)
(* the loop.                                                               *)
(*                                                                         *)
(* Time is counted in half minutes; of the five fields of a schedule the   *)
(* minute and the hour are kept, in a day of two short hours: the others   *)
(* are parsed and matched by the same code.  A job removed while the loop  *)
(* runs one leaves the loop with a pointer to what is gone; jobs are not   *)
(* removed here.                                                           *)
(***************************************************************************)
EXTENDS Naturals, FiniteSets, FiniteSetsExt, Sequences

CONSTANTS
  Job,
  Minutes, Hours,  \* minutes in an hour, hours in a day
  Schedules,       \* schedules, of a minute and an hour field
  SearchLimit,     \* minutes the search looks ahead (525960)
  MaxTime          \* bound

VARIABLES
  schedule,  \* each job's schedule
  next_run,  \* the minute each job is due; 0 before it is added
  now,       \* half minutes
  loop,      \* the loop: at, the time it read, and the jobs still to run
  served     \* the minutes each job was run for

vars == <<schedule, next_run, now, loop, served>>

Asleep == [at |-> "off", now |-> 0, due |-> {}]

TypeOK ==
  /\ schedule \in [Job -> Schedules]
  /\ next_run \in [Job -> Nat] /\ now \in 0 .. MaxTime /\ loop.due \subseteq Job
  /\ loop.at \in {"off", "look", "run", "sleep"}

Init ==
  /\ schedule \in [Job -> Schedules]
  /\ next_run = [j \in Job |-> 0] /\ now = 0 /\ loop = Asleep /\ served = [j \in Job |-> <<>>]

-----------------------------------------------------------------------------
(* CronExpression.  A field is <<"*">>, <<"/", step>>, <<"n", value>> or   *)
(* <<"-", lo, hi>>.                                                        *)

\* The values of a field; none stands for all of them, also for a step of zero
\* and for a range that is empty.
parse_field(f, min, max) ==
  CASE f[1] = "/" -> {i \in min .. max : f[2] > 0 /\ (i - min) % f[2] = 0}
    [] f[1] = "n" -> {f[2]}
    [] f[1] = "-" -> {i \in f[2] .. f[3] : i <= max}
    [] OTHER -> {}

field_matches(values, v) == values = {} \/ v \in values

Matches(s, m) ==
  /\ field_matches(parse_field(s.minute, 0, Minutes - 1), m % Minutes)
  /\ field_matches(parse_field(s.hour, 0, Hours - 1), (m \div Minutes) % Hours)

Named(s, from) == {i \in from .. from + SearchLimit - 1 : Matches(s, i)}

\* Mutant of NextAfter: the search begins with the minute that runs.
NextAfterSame(s, t) ==
  LET named == Named(s, t \div 2)
  IN  IF named = {} THEN t \div 2 + Minutes ELSE Min(named)

\* The first minute the schedule names after the one of t, or an hour after t if
\* there is none.
NextAfter(s, t) ==
  LET named == Named(s, t \div 2 + 1)
  IN  IF named = {} THEN t \div 2 + Minutes ELSE Min(named)

-----------------------------------------------------------------------------
(* CronScheduler.                                                          *)

AddJob(j) ==
  /\ next_run[j] = 0 /\ next_run' = [next_run EXCEPT ![j] = NextAfter(schedule[j], now)]
  /\ UNCHANGED <<schedule, now, loop, served>>

Start ==
  /\ loop.at = "off" /\ loop' = [loop EXCEPT !.at = "look"]
  /\ UNCHANGED <<schedule, next_run, now, served>>

\* Stop waits for the thread, which sees it when it sleeps.
Stop ==
  /\ loop.at = "sleep" /\ loop' = Asleep
  /\ UNCHANGED <<schedule, next_run, now, served>>

\* The time is read, and what is due collected.
CollectDue ==
  /\ loop.at = "look"
  /\ loop' = [at |-> "run", now |-> now,
              due |-> {j \in Job : next_run[j] # 0 /\ 2 * next_run[j] <= now}]
  /\ UNCHANGED <<schedule, next_run, now, served>>

\* The handler returns or throws, whenever it does; the next run is computed
\* from the time the loop had read.
RunJob(j) ==
  /\ loop.at = "run" /\ j \in loop.due
  /\ loop' = [loop EXCEPT !.due = @ \ {j}]
  /\ served' = [served EXCEPT ![j] = Append(@, next_run[j])]
  /\ next_run' = [next_run EXCEPT ![j] = NextAfter(schedule[j], loop.now)]
  /\ UNCHANGED <<schedule, now>>

Sleeps ==
  /\ loop.at = "run" /\ loop.due = {} /\ loop' = [loop EXCEPT !.at = "sleep"]
  /\ UNCHANGED <<schedule, next_run, now, served>>

\* Time passes: a sleeping loop wakes, a handler goes on.
Tick ==
  /\ loop.at # "look" /\ now < MaxTime /\ now' = now + 1
  /\ loop' = IF loop.at = "sleep" THEN [loop EXCEPT !.at = "look"] ELSE loop
  /\ UNCHANGED <<schedule, next_run, served>>

Next ==
  \/ Start \/ Stop \/ CollectDue \/ Sleeps \/ Tick
  \/ \E j \in Job : AddJob(j) \/ RunJob(j)

Spec == Init /\ [][Next]_vars

-----------------------------------------------------------------------------

\* A job runs once for each minute it is run for, in their order, however long
\* other jobs keep the loop and whenever it is stopped and started; and each is
\* a minute that its schedule names, unless it names none.
\* (core/cron_scheduler.cpp, scheduler_loop and NextAfter.)
RunsWhenNamed ==
  \A j \in Job :
    LET s == served[j]
    IN  /\ \A i, k \in DOMAIN s : i < k => s[i] < s[k]
        /\ \A i \in DOMAIN s : 2 * s[i] <= now
        /\ Named(schedule[j], 0) # {} => \A i \in DOMAIN s : Matches(schedule[j], s[i])

\* What the proof of RunsWhenNamed rests on.  What a job was run for comes before
\* the minute it is due, which its schedule names, and what is due was in the
\* past when the loop read the time.
RunOK(j) ==
  LET s == served[j]
  IN  /\ next_run[j] \in Nat /\ s \in Seq(Nat)
      /\ \A i \in DOMAIN s : s[i] < next_run[j] /\ 2 * s[i] <= now
      /\ \A i, k \in DOMAIN s : i < k => s[i] < s[k]
      /\ j \in loop.due => next_run[j] # 0 /\ 2 * next_run[j] <= loop.now
      /\ Named(schedule[j], 0) # {} =>
           /\ next_run[j] # 0 => Matches(schedule[j], next_run[j])
           /\ \A i \in DOMAIN s : Matches(schedule[j], s[i])

IInv ==
  /\ DOMAIN next_run = Job /\ DOMAIN served = Job /\ now \in Nat
  /\ loop \in [at: {"off", "look", "run", "sleep"}, now: 0 .. now, due: SUBSET Job]
  /\ loop.at # "run" => loop.due = {}
  /\ \A j \in Job : RunOK(j)
=============================================================================
