------------------------------- MODULE Health -------------------------------
(***************************************************************************)
(* The health that gateway.probe reports (gateway_server.cpp, ProbeHealth):*)
(* a probe counts the requests that wait for a short answer and have used  *)
(* most of their time, and a counter goes up with each probe that finds too*)
(* many and down with each that does not.  Requests are answered, or taken *)
(* away by the watchdog; the server stops once and is not started again.   *)
(***************************************************************************)
EXTENDS Naturals, FiniteSets

CONSTANTS
  Request,
  MaxTimeoutCount,     \* health_max_timeout_count_
  DegradedCheckCount,  \* health_degraded_check_count_
  MaxChecks            \* bound: probes until checks is 0 again

VARIABLES
  pending,   \* each request: "none", "final" (expects one later), "fresh" or "late"
  isRunning,
  status,    \* health_status_
  checks,    \* degraded_check_count_
  answer,    \* what the last probe returned
  bad, good  \* history: the probes of each kind since checks was last 0

vars == <<pending, isRunning, status, checks, answer, bad, good>>

Status == {"healthy", "degraded", "unreachable"}

TypeOK ==
  /\ pending \in [Request -> {"none", "final", "fresh", "late"}]
  /\ isRunning \in BOOLEAN /\ status \in Status /\ answer \in Status
  /\ checks \in 0 .. MaxChecks /\ bad + good \in 0 .. MaxChecks

Init ==
  /\ pending = [r \in Request |-> "none"]
  /\ isRunning = TRUE /\ status = "healthy" /\ answer = "healthy"
  /\ checks = 0 /\ bad = 0 /\ good = 0

Send(r) ==
  /\ isRunning /\ pending[r] = "none"
  /\ \E kind \in {"final", "fresh"} : pending' = [pending EXCEPT ![r] = kind]
  /\ UNCHANGED <<isRunning, status, checks, answer, bad, good>>

\* More than health_timeout_threshold_percent_ of its time is over.
GrowLate(r) ==
  /\ pending[r] = "fresh"
  /\ pending' = [pending EXCEPT ![r] = "late"]
  /\ UNCHANGED <<isRunning, status, checks, answer, bad, good>>

\* Its answer, the watchdog, or the end of its connection.
Settle(r) ==
  /\ pending[r] # "none"
  /\ pending' = [pending EXCEPT ![r] = "none"]
  /\ UNCHANGED <<isRunning, status, checks, answer, bad, good>>

\* Handlers that run while the server stops may still probe.
Stop ==
  /\ isRunning
  /\ isRunning' = FALSE /\ pending' = [r \in Request |-> "none"]
  /\ UNCHANGED <<status, checks, answer, bad, good>>

TimeoutCount == Cardinality({r \in Request : pending[r] = "late"})

ProbeStopped ==
  /\ ~isRunning
  /\ status' = "unreachable" /\ answer' = "unreachable"
  /\ checks' = 0 /\ bad' = 0 /\ good' = 0
  /\ UNCHANGED <<pending, isRunning>>

ProbeBad ==
  /\ isRunning /\ TimeoutCount > MaxTimeoutCount /\ bad + good < MaxChecks
  /\ checks' = checks + 1
  /\ status' = IF checks' >= DegradedCheckCount THEN "degraded" ELSE status
  /\ answer' = status'
  /\ bad' = bad + 1
  /\ UNCHANGED <<pending, isRunning, good>>

ProbeGood ==
  /\ isRunning /\ TimeoutCount <= MaxTimeoutCount /\ bad + good < MaxChecks
  /\ checks' = IF checks > 0 THEN checks - 1 ELSE 0
  /\ status' = IF status = "degraded" /\ checks' = 0 THEN "healthy" ELSE status
  /\ answer' = status'
  /\ bad' = IF checks' = 0 THEN 0 ELSE bad
  /\ good' = IF checks' = 0 THEN 0 ELSE good + 1
  /\ UNCHANGED <<pending, isRunning>>

Next ==
  \/ \E r \in Request : Send(r) \/ GrowLate(r) \/ Settle(r)
  \/ Stop \/ ProbeStopped \/ ProbeBad \/ ProbeGood

Spec == Init /\ [][Next]_vars

-----------------------------------------------------------------------------

\* What a probe reports fits what the probes have found: degraded only if enough
\* of them, and still more of them than of the others, found too many late
\* requests, and healthy only if the first never outweighed the others by that
\* many since.
\* (gateway/gateway_server.cpp, ProbeHealth.)
ReportFitsProbes ==
  isRunning =>
    /\ answer = "degraded" => bad >= DegradedCheckCount /\ bad > good
    /\ answer = "healthy" => bad < good + DegradedCheckCount

\* What the proof of ReportFitsProbes rests on: the counter is what the bad
\* probes are ahead, a degraded server has not made them up, and a healthy one
\* is below the threshold.
IInv ==
  /\ checks \in Nat /\ bad \in Nat /\ good \in Nat /\ bad = good + checks
  /\ isRunning =>
       /\ answer = status /\ status \in {"healthy", "degraded"}
       /\ status = "degraded" => checks > 0 /\ bad >= DegradedCheckCount
       /\ status = "healthy" => checks < DegradedCheckCount
=============================================================================
