----------------------------- MODULE Approval -----------------------------
(***************************************************************************)
(* Running a shell command: exec_tool of tools/tool_registry.cpp, the      *)
(* approval it asks of security/exec_approval.cpp, and the exec.approval*  *)
(* methods of the gateway, whose threads share one ExecApprovalManager.    *)
(*                                                                         *)
(* RequestApproval reads config_ and allowlist_ without the mutex that     *)
(* Configure holds while it replaces the one and then the other: a read is *)
(* a step of its own.  The gateway installs no approval handler and never  *)
(* calls PruneExpired.  A command is a model value; an allowlist is the    *)
(* set of commands its patterns match.                                     *)
(***************************************************************************)
EXTENDS Naturals, Sequences

CONSTANTS
    Caller,         \* threads that ask for approval
    Turn,           \* those that then run the command; the others are clients
    Cmd,            \* commands
    Dangerous,      \* the commands ValidateShellCommand refuses
    Silent,         \* the commands that neither print nor end
    MaxRequests,    \* bound: requests for approval
    MaxSets,        \* bound: changes of the configuration
    None

Ask == {"off", "on-miss", "always"}
Config == [ask : Ask, fallback : {"approved", "denied"}, allow : SUBSET Cmd]

VARIABLES
    config,     \* config_
    allowlist,  \* allowlist_
    pending,    \* pending_: requests without a decision
    resolved,   \* resolved_, in order
    call,       \* per caller: where it stands, its command, request and decision
    asked,      \* the number of requests made
    sets,       \* the number of changes of the configuration
    grants      \* ghost, per caller: what the configurations since it asked grant

vars == <<config, allowlist, pending, resolved, call, asked, sets, grants>>

\* A call of RequestApproval: its position, arguments and local variables.
CallState ==
    [at : {"idle", "ask", "mode", "match", "request", "fallback", "resolve", "decided",
           "run", "answered"},
     cmd : Cmd \cup {None}, id : 0..MaxRequests, decision : {"approved", "denied", None}]

Idle == [at |-> "idle", cmd |-> None, id |-> 0, decision |-> None]

Init ==
    /\ config \in Config
    /\ allowlist = config.allow
    /\ pending = {}
    /\ resolved = <<>>
    /\ call = [t \in Caller |-> Idle]
    /\ asked = 0
    /\ sets = 0
    /\ grants = [t \in Caller |-> {}]

\* How configuration c can let a command pass.
Grants(c, cmd) ==
    (IF c.ask = "off" \/ c.fallback = "approved" THEN {"any"} ELSE {})
      \cup (IF c.ask = "on-miss" THEN {"on-miss"} ELSE {})
      \cup (IF cmd \in c.allow THEN {"match"} ELSE {})

\* No Configure stands between its two writes, so mu_ can be taken.
Unlocked == allowlist = config.allow

Goto(t, at) == call' = [call EXCEPT ![t].at = at]
Decide(t, d) == call' = [call EXCEPT ![t].at = "decided", ![t].decision = d]

-----------------------------------------------------------------------------
(* RequestApproval, by exec_tool or by exec.approval.request *)

ValidateShellCommand(cmd) == cmd \notin Dangerous

Begin(t, cmd) ==
    /\ call[t].at = "idle"
    /\ call' = [call EXCEPT ![t] = [Idle EXCEPT !.at = "ask", !.cmd = cmd]]
    /\ grants' = [grants EXCEPT ![t] = Grants(config, cmd)]
    /\ UNCHANGED <<config, allowlist, pending, resolved, asked, sets>>

\* exec_tool, on the thread of a turn, and exec.approval.request.
ExecTool(t, cmd) == t \in Turn /\ ValidateShellCommand(cmd) /\ Begin(t, cmd)
ApprovalRequest(t, cmd) == t \notin Turn /\ Begin(t, cmd)

AskIsOff(t) ==
    /\ call[t].at = "ask"
    /\ IF config.ask = "off" THEN Decide(t, "approved") ELSE Goto(t, "mode")
    /\ UNCHANGED <<config, allowlist, pending, resolved, asked, sets, grants>>

AskOnMiss(t) ==
    /\ call[t].at = "mode"
    /\ Goto(t, IF config.ask = "on-miss" THEN "match" ELSE "request")
    /\ UNCHANGED <<config, allowlist, pending, resolved, asked, sets, grants>>

Matches(t) ==
    /\ call[t].at = "match"
    /\ IF call[t].cmd \in allowlist THEN Decide(t, "approved") ELSE Goto(t, "request")
    /\ UNCHANGED <<config, allowlist, pending, resolved, asked, sets, grants>>

Request(t) ==
    /\ call[t].at = "request"
    /\ Unlocked
    /\ asked < MaxRequests
    /\ asked' = asked + 1
    /\ pending' = pending \cup {asked'}
    /\ call' = [call EXCEPT ![t].at = "fallback", ![t].id = asked']
    /\ UNCHANGED <<config, allowlist, resolved, sets, grants>>

Fallback(t) ==
    /\ call[t].at = "fallback"
    /\ call' = [call EXCEPT ![t].at = "resolve", ![t].decision = config.fallback]
    /\ UNCHANGED <<config, allowlist, pending, resolved, asked, sets, grants>>

\* Mutation: a decision is recorded whether or not the request still waits.
ResolveAlways(id, by) ==
    /\ pending' = pending \ {id}
    /\ resolved' = Append(resolved, [id |-> id, by |-> by])
Resolve(id, by) ==
    IF id \in pending
    THEN /\ pending' = pending \ {id}
         /\ resolved' = Append(resolved, [id |-> id, by |-> by])
    ELSE UNCHANGED <<pending, resolved>>

ResolveAuto(t) ==
    /\ call[t].at = "resolve"
    /\ Unlocked
    /\ Resolve(call[t].id, "auto")
    /\ Goto(t, "decided")
    /\ UNCHANGED <<config, allowlist, asked, sets, grants>>

\* exec.approval.resolve
OperatorResolves(id) ==
    /\ id \in pending
    /\ Unlocked
    /\ Resolve(id, "operator")
    /\ UNCHANGED <<config, allowlist, call, asked, sets, grants>>

-----------------------------------------------------------------------------
(* What follows the decision *)

\* exec_tool runs the command; exec.approval.request only answers.
Decided(t) ==
    /\ call[t].at = "decided"
    /\ Goto(t, IF t \in Turn /\ call[t].decision = "approved" THEN "run" ELSE "answered")
    /\ UNCHANGED <<config, allowlist, pending, resolved, asked, sets, grants>>

\* exec_capture looks at the clock only after a line of output, so only a command
\* that prints or ends comes back.
ExecCapture(t) ==
    /\ call[t].at = "run"
    /\ call[t].cmd \notin Silent
    /\ Goto(t, "answered")
    /\ UNCHANGED <<config, allowlist, pending, resolved, asked, sets, grants>>

Answer(t) ==
    /\ call[t].at = "answered"
    /\ call' = [call EXCEPT ![t] = Idle]
    /\ grants' = [grants EXCEPT ![t] = {}]
    /\ UNCHANGED <<config, allowlist, pending, resolved, asked, sets>>

-----------------------------------------------------------------------------
(* exec.approvals.set: the fallback is not among its parameters.  The two     *)
(* halves of Configure are under the mutex, which Request and Resolve take.   *)

\* Mutation: the old patterns stay.
ConfigureKeeps(c) ==
    /\ config' = c
    /\ UNCHANGED allowlist
Configure(c) ==
    /\ config' = c
    /\ allowlist' = {}

ApprovalsSet(c) ==
    /\ Unlocked
    /\ c.fallback = "denied"
    /\ sets < MaxSets
    /\ sets' = sets + 1
    /\ Configure(c)
    /\ grants' = [t \in Caller |-> IF call[t].at = "idle" THEN {}
                                   ELSE grants[t] \cup Grants(c, call[t].cmd)]
    /\ UNCHANGED <<pending, resolved, call, asked>>

AddPatterns ==
    /\ ~Unlocked
    /\ allowlist' = allowlist \cup config.allow
    /\ UNCHANGED <<config, pending, resolved, call, asked, sets, grants>>

Next ==
    \/ \E t \in Caller :
          \/ AskIsOff(t) \/ AskOnMiss(t) \/ Matches(t) \/ Request(t) \/ Fallback(t)
          \/ ResolveAuto(t) \/ Decided(t) \/ ExecCapture(t) \/ Answer(t)
          \/ \E cmd \in Cmd : ExecTool(t, cmd) \/ ApprovalRequest(t, cmd)
    \/ \E id \in pending : OperatorResolves(id)
    \/ \E c \in Config : ApprovalsSet(c)
    \/ AddPatterns

Spec == Init /\ [][Next]_vars

-----------------------------------------------------------------------------
(* Properties *)

TypeOK ==
    /\ config \in Config
    /\ allowlist \in SUBSET Cmd
    /\ asked \in 0..MaxRequests
    /\ pending \in SUBSET (1..asked)
    /\ resolved \in Seq([id : 1..asked, by : {"auto", "operator"}])
    /\ call \in [Caller -> CallState]
    /\ grants \in [Caller -> SUBSET {"any", "on-miss", "match"}]

Allowed(t) == "any" \in grants[t] \/ {"on-miss", "match"} \subseteq grants[t]

\* A command runs only if the configurations in force while it was asked for allow
\* it: one that asks nobody, one that approves without an operator, or an allowlist
\* that matches under one that consults it.  A command that only an earlier
\* configuration allowed never runs, however the reads of RequestApproval and the
\* writes of Configure interleave.
RunsAreAllowed ==
    \A t \in Caller : call[t].at = "run" => Allowed(t)

\* An operator, and the thread that asked, may both decide a request: the history
\* has one entry for it, and a request that has been answered does not wait.
RecordedOnce ==
    /\ \A i, j \in DOMAIN resolved : i # j => resolved[i].id # resolved[j].id
    /\ \A i \in DOMAIN resolved : resolved[i].id \notin pending
    /\ \A t \in Caller : call[t].at \in {"run", "answered"} => call[t].id \notin pending

-----------------------------------------------------------------------------
(* The inductive invariant *)

\* What each position of a call may rely on: the ghost has what the present
\* configuration grants, a call looks at the patterns only after one that consults
\* them, and whoever has an approval has had reason for it.
GrantsOK(t) ==
    /\ call[t].at # "idle" => Grants(config, call[t].cmd) \subseteq grants[t]
    /\ call[t].at = "match" => "on-miss" \in grants[t]
    /\ call[t].at \in {"resolve", "decided", "run"} /\ call[t].decision = "approved" => Allowed(t)
    /\ call[t].at = "run" => call[t].decision = "approved"

\* A call has the number of its request from Request on, and a request that was
\* decided for it waits no more.
RequestOK(t) ==
    /\ call[t].id <= asked
    /\ call[t].at \in {"idle", "ask", "mode", "match", "request"} => call[t].id = 0
    /\ call[t].at \in {"decided", "run", "answered"} => call[t].id \notin pending

IInv ==
    /\ TypeOK
    /\ allowlist \subseteq config.allow
    /\ \A t \in Caller : GrantsOK(t) /\ RequestOK(t)
    /\ RecordedOnce
=============================================================================
