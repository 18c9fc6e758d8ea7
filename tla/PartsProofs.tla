---------------------------- MODULE PartsProofs ----------------------------
(***************************************************************************)
(* Proofs about the components that Parts puts together, for any number of *)
(* threads, requests, sessions, calls and messages.  Each component has an *)
(* inductive invariant IInv in its own module, which its Init establishes  *)
(* and each of its actions keeps; the theorems at the end carry them over  *)
(* to the behaviours of PartsSpec.                                         *)
(***************************************************************************)
EXTENDS Parts, TLAPS, SequenceTheorems, FiniteSetTheorems, WellFoundedInduction

-----------------------------------------------------------------------------
(* Approval *)

LEMMA ApprovalInit ==
    ASSUME AP!Init
    PROVE  AP!IInv
<1> USE DEF AP!Init, AP!Idle, AP!CallState, AP!Config
<1>1. \A t \in ExecThread : call[t] = AP!Idle /\ AP!Idle \in AP!CallState
  BY PartBounds
<1>2. AP!TypeOK
  BY <1>1, PartBounds DEF AP!TypeOK
<1>3. \A t \in ExecThread : AP!GrantsOK(t) /\ AP!RequestOK(t)
  BY <1>1 DEF AP!GrantsOK, AP!RequestOK
<1>4. AP!RecordedOnce
  BY <1>1 DEF AP!RecordedOnce
<1>5. QED
  BY <1>2, <1>3, <1>4 DEF AP!IInv

\* What a step must show that changes one call and nothing else: the call keeps
\* its reasons and does not wait for a request that was decided for it.
LEMMA OneCall ==
    ASSUME AP!IInv, NEW t \in ExecThread, NEW c \in AP!CallState,
           call' = [call EXCEPT ![t] = c],
           UNCHANGED <<config, allowlist, pending, resolved, asked, grants>>,
           c.at # "idle" => AP!Grants(config, c.cmd) \subseteq grants[t],
           c.at = "match" => "on-miss" \in grants[t],
           c.at \in {"resolve", "decided", "run"} /\ c.decision = "approved" => AP!Allowed(t),
           c.at = "run" => c.decision = "approved",
           c.id <= asked,
           c.at \in {"idle", "ask", "mode", "match", "request"} => c.id = 0,
           c.at \in {"decided", "run", "answered"} => c.id \notin pending
    PROVE  AP!IInv'
<1>1. call \in [ExecThread -> AP!CallState]
  BY DEF AP!IInv, AP!TypeOK
<1>2. \A u \in ExecThread : call'[u] = IF u = t THEN c ELSE call[u]
  BY <1>1
<1>3. AP!TypeOK'
  BY <1>1 DEF AP!IInv, AP!TypeOK
<1>4. ASSUME NEW u \in ExecThread
      PROVE  AP!GrantsOK(u)' /\ AP!RequestOK(u)'
  <2>1. CASE u = t
    BY <2>1, <1>2 DEF AP!GrantsOK, AP!RequestOK, AP!Allowed
  <2>2. CASE u # t
    <3>1. call'[u] = call[u] /\ AP!GrantsOK(u) /\ AP!RequestOK(u)
      BY <2>2, <1>2 DEF AP!IInv
    <3>2. QED
      BY <3>1 DEF AP!GrantsOK, AP!RequestOK, AP!Allowed
  <2>3. QED
    BY <2>1, <2>2
<1>5. AP!RecordedOnce'
  BY <1>2 DEF AP!IInv, AP!RecordedOnce
<1>6. (allowlist \subseteq config.allow)'
  BY DEF AP!IInv
<1>7. QED
  BY <1>3, <1>4, <1>5, <1>6 DEF AP!IInv

\* The six reads of RequestApproval and what follows the decision.
LEMMA CallSteps ==
    ASSUME AP!IInv, NEW t \in ExecThread,
           \/ AP!AskIsOff(t) \/ AP!AskOnMiss(t) \/ AP!Matches(t) \/ AP!Fallback(t)
           \/ AP!Decided(t) \/ AP!ExecCapture(t)
    PROVE  AP!IInv'
<1> DEFINE c(at) == [call[t] EXCEPT !.at = at]
           d(at, decision) == [call[t] EXCEPT !.at = at, !.decision = decision]
<1>1. /\ call[t] \in AP!CallState /\ AP!GrantsOK(t) /\ AP!RequestOK(t)
      /\ config \in AP!Config /\ allowlist \subseteq config.allow
      /\ pending \subseteq 1 .. asked /\ asked \in Nat
  BY PartBounds DEF AP!IInv, AP!TypeOK
<1>2. ASSUME NEW at \in {"mode", "match", "request", "decided", "run", "answered"}
      PROVE  /\ c(at) \in AP!CallState /\ c(at).at = at /\ c(at).cmd = call[t].cmd
             /\ c(at).id = call[t].id /\ c(at).decision = call[t].decision
  BY <1>1 DEF AP!CallState
<1>3. ASSUME NEW at \in {"resolve", "decided"}, NEW v \in {"approved", "denied"}
      PROVE  /\ d(at, v) \in AP!CallState /\ d(at, v).at = at /\ d(at, v).cmd = call[t].cmd
             /\ d(at, v).id = call[t].id /\ d(at, v).decision = v
  BY <1>1 DEF AP!CallState
<1>4. 0 \notin pending /\ 0 <= asked
  BY <1>1
<1>5. CASE AP!AskIsOff(t)
  <2>1. call[t].id = 0 /\ AP!Grants(config, call[t].cmd) \subseteq grants[t]
    BY <1>1, <1>5 DEF AP!AskIsOff, AP!GrantsOK, AP!RequestOK
  <2>2. CASE config.ask = "off"
    <3>1. call' = [call EXCEPT ![t] = d("decided", "approved")]
      BY <1>5, <2>2 DEF AP!AskIsOff, AP!Decide
    <3>2. AP!Allowed(t)
      BY <2>1, <2>2 DEF AP!Grants, AP!Allowed
    <3> HIDE DEF d
    <3>3. QED
      BY <1>3, <1>4, <1>5, <2>1, <3>1, <3>2, OneCall DEF AP!AskIsOff
  <2>3. CASE config.ask # "off"
    <3>1. call' = [call EXCEPT ![t] = c("mode")]
      BY <1>5, <2>3 DEF AP!AskIsOff, AP!Goto
    <3> HIDE DEF c
    <3>2. QED
      BY <1>2, <1>4, <1>5, <2>1, <3>1, OneCall DEF AP!AskIsOff
  <2>4. QED
    BY <2>2, <2>3
<1>6. CASE AP!AskOnMiss(t)
  <2> DEFINE at == IF config.ask = "on-miss" THEN "match" ELSE "request"
  <2>1. call[t].id = 0 /\ AP!Grants(config, call[t].cmd) \subseteq grants[t]
    BY <1>1, <1>6 DEF AP!AskOnMiss, AP!GrantsOK, AP!RequestOK
  <2>2. at \in {"match", "request"} /\ (at = "match" => "on-miss" \in grants[t])
    BY <2>1 DEF AP!Grants
  <2>3. call' = [call EXCEPT ![t] = c(at)]
    BY <1>6 DEF AP!AskOnMiss, AP!Goto
  <2> HIDE DEF c, at
  <2>4. QED
    BY <1>2, <1>4, <1>6, <2>1, <2>2, <2>3, OneCall DEF AP!AskOnMiss
<1>7. CASE AP!Matches(t)
  <2>1. /\ call[t].id = 0 /\ AP!Grants(config, call[t].cmd) \subseteq grants[t]
        /\ "on-miss" \in grants[t]
    BY <1>1, <1>7 DEF AP!Matches, AP!GrantsOK, AP!RequestOK
  <2>2. CASE call[t].cmd \in allowlist
    <3>1. call' = [call EXCEPT ![t] = d("decided", "approved")]
      BY <1>7, <2>2 DEF AP!Matches, AP!Decide
    <3>2. AP!Allowed(t)
      BY <1>1, <2>1, <2>2 DEF AP!Grants, AP!Allowed
    <3> HIDE DEF d
    <3>3. QED
      BY <1>3, <1>4, <1>7, <2>1, <3>1, <3>2, OneCall DEF AP!Matches
  <2>3. CASE call[t].cmd \notin allowlist
    <3>1. call' = [call EXCEPT ![t] = c("request")]
      BY <1>7, <2>3 DEF AP!Matches, AP!Goto
    <3> HIDE DEF c
    <3>2. QED
      BY <1>2, <1>4, <1>7, <2>1, <3>1, OneCall DEF AP!Matches
  <2>4. QED
    BY <2>2, <2>3
<1>8. CASE AP!Fallback(t)
  <2>1. call' = [call EXCEPT ![t] = d("resolve", config.fallback)]
    BY <1>8 DEF AP!Fallback
  <2>2. /\ AP!Grants(config, call[t].cmd) \subseteq grants[t] /\ call[t].id <= asked
        /\ config.fallback \in {"approved", "denied"}
    BY <1>1, <1>8 DEF AP!Fallback, AP!GrantsOK, AP!RequestOK, AP!Config
  <2>3. config.fallback = "approved" => AP!Allowed(t)
    BY <2>2 DEF AP!Grants, AP!Allowed
  <2> HIDE DEF d
  <2>4. QED
    BY <1>3, <1>8, <2>1, <2>2, <2>3, OneCall DEF AP!Fallback
<1>9. CASE AP!Decided(t)
  <2> DEFINE at == IF t \in Turn /\ call[t].decision = "approved" THEN "run" ELSE "answered"
  <2>1. call' = [call EXCEPT ![t] = c(at)]
    BY <1>9 DEF AP!Decided, AP!Goto
  <2>2. /\ AP!Grants(config, call[t].cmd) \subseteq grants[t]
        /\ call[t].id <= asked /\ call[t].id \notin pending
        /\ call[t].decision = "approved" => AP!Allowed(t)
    BY <1>1, <1>9 DEF AP!Decided, AP!GrantsOK, AP!RequestOK
  <2>3. at \in {"run", "answered"} /\ (at = "run" => call[t].decision = "approved")
    OBVIOUS
  <2> HIDE DEF c, at
  <2>4. QED
    BY <1>2, <1>9, <2>1, <2>2, <2>3, OneCall DEF AP!Decided
<1>10. CASE AP!ExecCapture(t)
  <2>1. call' = [call EXCEPT ![t] = c("answered")]
    BY <1>10 DEF AP!ExecCapture, AP!Goto
  <2>2. /\ AP!Grants(config, call[t].cmd) \subseteq grants[t]
        /\ call[t].id <= asked /\ call[t].id \notin pending
    BY <1>1, <1>10 DEF AP!ExecCapture, AP!GrantsOK, AP!RequestOK
  <2> HIDE DEF c
  <2>3. QED
    BY <1>2, <1>10, <2>1, <2>2, OneCall DEF AP!ExecCapture
<1>11. QED
  BY <1>5, <1>6, <1>7, <1>8, <1>9, <1>10

\* A call begins: with what the configuration of the moment grants.
LEMMA BeginKeeps ==
    ASSUME AP!IInv, NEW t \in ExecThread, NEW cmd \in Cmd, AP!Begin(t, cmd)
    PROVE  AP!IInv'
<1> DEFINE c == [AP!Idle EXCEPT !.at = "ask", !.cmd = cmd]
<1>1. /\ c \in AP!CallState /\ c.at = "ask" /\ c.cmd = cmd /\ c.id = 0
      /\ c.decision = None /\ asked \in Nat
  <2>1. AP!Idle \in AP!CallState /\ AP!Idle.id = 0 /\ AP!Idle.decision = None
    BY PartBounds DEF AP!Idle, AP!CallState
  <2>2. asked \in Nat
    BY PartBounds DEF AP!IInv, AP!TypeOK
  <2>3. QED
    BY <2>1, <2>2 DEF AP!CallState
<1>2. /\ call \in [ExecThread -> AP!CallState]
      /\ grants \in [ExecThread -> SUBSET {"any", "on-miss", "match"}]
      /\ call' = [call EXCEPT ![t] = c]
      /\ grants' = [grants EXCEPT ![t] = AP!Grants(config, cmd)]
      /\ UNCHANGED <<config, allowlist, pending, resolved, asked>>
  BY DEF AP!IInv, AP!TypeOK, AP!Begin
<1> HIDE DEF c
<1>3. AP!Grants(config, cmd) \subseteq {"any", "on-miss", "match"}
  BY DEF AP!Grants
<1>4. \A u \in ExecThread : /\ call'[u] = IF u = t THEN c ELSE call[u]
                        /\ grants'[u] = IF u = t THEN AP!Grants(config, cmd) ELSE grants[u]
  BY <1>2
<1>5. AP!TypeOK'
  BY <1>1, <1>2, <1>3 DEF AP!IInv, AP!TypeOK
<1>6. ASSUME NEW u \in ExecThread
      PROVE  AP!GrantsOK(u)' /\ AP!RequestOK(u)'
  <2>1. CASE u = t
    <3>1. AP!Grants(config', call'[t].cmd) = AP!Grants(config, cmd)
      BY <1>1, <1>2, <1>4
    <3>2. QED
      BY <1>1, <1>2, <1>4, <2>1, <3>1 DEF AP!GrantsOK, AP!RequestOK
  <2>2. CASE u # t
    <3>1. call'[u] = call[u] /\ grants'[u] = grants[u] /\ AP!GrantsOK(u) /\ AP!RequestOK(u)
      BY <2>2, <1>4 DEF AP!IInv
    <3>2. QED
      BY <1>2, <3>1 DEF AP!GrantsOK, AP!RequestOK, AP!Allowed
  <2>3. QED
    BY <2>1, <2>2
<1>7. AP!RecordedOnce'
  BY <1>1, <1>2, <1>4 DEF AP!IInv, AP!RecordedOnce
<1>8. QED
  BY <1>2, <1>5, <1>6, <1>7 DEF AP!IInv

\* A call ends.
LEMMA AnswerKeeps ==
    ASSUME AP!IInv, NEW t \in ExecThread, AP!Answer(t)
    PROVE  AP!IInv'
<1>1. /\ AP!Idle \in AP!CallState /\ AP!Idle.at = "idle" /\ AP!Idle.id = 0
      /\ asked \in Nat
  BY PartBounds DEF AP!Idle, AP!CallState, AP!IInv, AP!TypeOK
<1>2. /\ call \in [ExecThread -> AP!CallState]
      /\ grants \in [ExecThread -> SUBSET {"any", "on-miss", "match"}]
      /\ call' = [call EXCEPT ![t] = AP!Idle]
      /\ grants' = [grants EXCEPT ![t] = {}]
      /\ UNCHANGED <<config, allowlist, pending, resolved, asked>>
  BY DEF AP!IInv, AP!TypeOK, AP!Answer
<1>3. \A u \in ExecThread : /\ call'[u] = IF u = t THEN AP!Idle ELSE call[u]
                        /\ grants'[u] = IF u = t THEN {} ELSE grants[u]
  BY <1>2
<1>4. AP!TypeOK'
  BY <1>1, <1>2 DEF AP!IInv, AP!TypeOK
<1>5. ASSUME NEW u \in ExecThread
      PROVE  AP!GrantsOK(u)' /\ AP!RequestOK(u)'
  <2>1. CASE u = t
    BY <1>1, <1>2, <1>3, <2>1 DEF AP!GrantsOK, AP!RequestOK
  <2>2. CASE u # t
    <3>1. call'[u] = call[u] /\ grants'[u] = grants[u] /\ AP!GrantsOK(u) /\ AP!RequestOK(u)
      BY <2>2, <1>3 DEF AP!IInv
    <3>2. QED
      BY <1>2, <3>1 DEF AP!GrantsOK, AP!RequestOK, AP!Allowed
  <2>3. QED
    BY <2>1, <2>2
<1>6. AP!RecordedOnce'
  BY <1>1, <1>2, <1>3 DEF AP!IInv, AP!RecordedOnce
<1>7. QED
  BY <1>2, <1>4, <1>5, <1>6 DEF AP!IInv

\* A request is recorded when it leaves the table, and it never comes back.
LEMMA ResolveOnce ==
    ASSUME AP!IInv, NEW id, NEW by \in {"auto", "operator"}, AP!Resolve(id, by)
    PROVE  /\ pending' \subseteq pending /\ id \notin pending'
           /\ resolved' \in Seq([id : 1 .. asked, by : {"auto", "operator"}])
           /\ \A i, j \in DOMAIN resolved' : i # j => resolved'[i].id # resolved'[j].id
           /\ \A i \in DOMAIN resolved' : resolved'[i].id \notin pending'
<1> DEFINE e == [id |-> id, by |-> by]
           Entry == [id : 1 .. asked, by : {"auto", "operator"}]
<1>1. /\ resolved \in Seq(Entry) /\ pending \subseteq 1 .. asked
      /\ \A i, j \in DOMAIN resolved : i # j => resolved[i].id # resolved[j].id
      /\ \A i \in DOMAIN resolved : resolved[i].id \notin pending
  BY DEF AP!IInv, AP!TypeOK, AP!RecordedOnce
<1>2. CASE id \in pending
  <2>1. e \in Entry /\ e.id = id
    BY <1>1, <1>2
  <2>2. pending' = pending \ {id} /\ resolved' = Append(resolved, e)
    BY <1>2 DEF AP!Resolve
  <2> HIDE DEF e, Entry
  <2>3. /\ DOMAIN resolved = 1 .. Len(resolved) /\ Len(resolved) \in Nat
        /\ resolved' \in Seq(Entry) /\ DOMAIN resolved' = 1 .. Len(resolved) + 1
        /\ \A i \in 1 .. Len(resolved) : resolved'[i] = resolved[i]
        /\ resolved'[Len(resolved) + 1] = e
    BY <1>1, <2>1, <2>2
  <2>4. \A i \in DOMAIN resolved' : i \in DOMAIN resolved \/ i = Len(resolved) + 1
    BY <2>3
  <2>5. \A i \in DOMAIN resolved : resolved'[i] = resolved[i] /\ resolved[i].id # id
    BY <1>1, <1>2, <2>3
  <2>6. \A i, j \in DOMAIN resolved' : i # j => resolved'[i].id # resolved'[j].id
    BY <1>1, <2>1, <2>3, <2>4, <2>5
  <2>7. \A i \in DOMAIN resolved' : resolved'[i].id \notin pending'
    BY <1>1, <2>1, <2>2, <2>3, <2>4, <2>5
  <2>8. QED
    BY <1>2, <2>2, <2>3, <2>6, <2>7 DEF Entry
<1>3. CASE id \notin pending
  BY <1>1, <1>3 DEF AP!Resolve
<1>4. QED
  BY <1>2, <1>3

\* A decision, by the thread that asked or by the operator.
LEMMA ResolveKeeps ==
    ASSUME AP!IInv, \/ \E t \in ExecThread : AP!ResolveAuto(t)
                    \/ \E id \in pending : AP!OperatorResolves(id)
    PROVE  AP!IInv'
<1>1. /\ call \in [ExecThread -> AP!CallState] /\ asked \in 0 .. MaxRequests /\ asked \in Nat
      /\ pending \subseteq 1 .. asked
      /\ \A u \in ExecThread : AP!GrantsOK(u) /\ AP!RequestOK(u)
  BY PartBounds DEF AP!IInv, AP!TypeOK
<1> DEFINE Decision(id) ==
         /\ AP!Resolve(id, "auto") \/ AP!Resolve(id, "operator")
         /\ UNCHANGED <<config, allowlist, asked, grants>>
         /\ call' \in [ExecThread -> AP!CallState]
         /\ \A u \in ExecThread :
               \/ call'[u] = call[u]
               \/ /\ call[u].at = "resolve" /\ call'[u].at = "decided" /\ call[u].id = id
                  /\ call'[u].cmd = call[u].cmd /\ call'[u].id = call[u].id
                  /\ call'[u].decision = call[u].decision
<1>2. PICK id : Decision(id)
  <2>1. CASE \E t \in ExecThread : AP!ResolveAuto(t)
    <3>1. PICK t \in ExecThread : AP!ResolveAuto(t)
      BY <2>1
    <3> DEFINE c == [call[t] EXCEPT !.at = "decided"]
    <3>2. /\ c \in AP!CallState /\ c.at = "decided" /\ c.cmd = call[t].cmd
          /\ c.id = call[t].id /\ c.decision = call[t].decision
      BY <1>1 DEF AP!CallState
    <3>3. call' = [call EXCEPT ![t] = c] /\ call[t].at = "resolve"
      BY <3>1 DEF AP!ResolveAuto, AP!Goto
    <3> HIDE DEF c
    <3>4. /\ call' \in [ExecThread -> AP!CallState]
          /\ \A u \in ExecThread : call'[u] = IF u = t THEN c ELSE call[u]
      BY <1>1, <3>2, <3>3
    <3>5. AP!Resolve(call[t].id, "auto") /\ UNCHANGED <<config, allowlist, asked, grants>>
      BY <3>1 DEF AP!ResolveAuto
    <3>6. Decision(call[t].id)
      BY <3>2, <3>3, <3>4, <3>5
    <3> HIDE DEF Decision
    <3>7. QED
      BY <3>6
  <2>2. CASE \E id \in pending : AP!OperatorResolves(id)
    <3>1. PICK id \in pending : AP!OperatorResolves(id)
      BY <2>2
    <3>2. Decision(id)
      BY <1>1, <3>1 DEF AP!OperatorResolves
    <3> HIDE DEF Decision
    <3>3. QED
      BY <3>2
  <2>3. QED
    BY <2>1, <2>2
<1>3. /\ pending' \subseteq pending /\ id \notin pending'
      /\ resolved' \in Seq([id : 1 .. asked, by : {"auto", "operator"}])
      /\ \A i, j \in DOMAIN resolved' : i # j => resolved'[i].id # resolved'[j].id
      /\ \A i \in DOMAIN resolved' : resolved'[i].id \notin pending'
  BY <1>2, ResolveOnce
<1>4. AP!TypeOK'
  <2>1. asked' = asked /\ pending' \in SUBSET (1 .. asked)
    BY <1>1, <1>2, <1>3
  <2>2. QED
    BY <1>2, <1>3, <2>1 DEF AP!IInv, AP!TypeOK
<1>5. ASSUME NEW u \in ExecThread
      PROVE  AP!GrantsOK(u)' /\ AP!RequestOK(u)'
  <2>1. AP!GrantsOK(u) /\ AP!RequestOK(u)
    BY <1>1
  <2>2. CASE call'[u] = call[u]
    BY <1>2, <1>3, <2>1, <2>2 DEF AP!GrantsOK, AP!RequestOK, AP!Allowed
  <2>3. CASE call'[u] # call[u]
    <3>1. /\ call[u].at = "resolve" /\ call'[u].at = "decided" /\ call[u].id = id
          /\ call'[u].cmd = call[u].cmd /\ call'[u].id = call[u].id
          /\ call'[u].decision = call[u].decision
      BY <1>2, <2>3
    <3>2. QED
      BY <1>2, <1>3, <2>1, <3>1 DEF AP!GrantsOK, AP!RequestOK, AP!Allowed
  <2>4. QED
    BY <2>2, <2>3
<1>6. \A u \in ExecThread : call'[u].at \in {"run", "answered"} => call'[u].id \notin pending'
  BY <1>5 DEF AP!RequestOK
<1>7. AP!RecordedOnce'
  BY <1>3, <1>6 DEF AP!RecordedOnce
<1>8. QED
  BY <1>2, <1>4, <1>5, <1>7 DEF AP!IInv

\* A request gets a number nobody has had.
LEMMA RequestKeeps ==
    ASSUME AP!IInv, NEW t \in ExecThread, AP!Request(t)
    PROVE  AP!IInv'
<1> DEFINE c == [call[t] EXCEPT !.at = "fallback", !.id = asked + 1]
<1>1. /\ call \in [ExecThread -> AP!CallState] /\ asked \in 0 .. MaxRequests /\ asked \in Nat
      /\ pending \subseteq 1 .. asked
      /\ \A u \in ExecThread : AP!GrantsOK(u) /\ AP!RequestOK(u)
      /\ resolved \in Seq([id : 1 .. asked, by : {"auto", "operator"}])
  BY PartBounds DEF AP!IInv, AP!TypeOK
<1>2. /\ asked' = asked + 1 /\ asked < MaxRequests /\ pending' = pending \cup {asked + 1}
      /\ call' = [call EXCEPT ![t] = c] /\ call[t].at = "request"
      /\ UNCHANGED <<config, allowlist, resolved, grants>>
  BY DEF AP!Request
<1>3. /\ c \in AP!CallState /\ c.at = "fallback" /\ c.cmd = call[t].cmd /\ c.id = asked + 1
  <2>1. MaxRequests \in Nat
    BY PartBounds
  <2>2. asked + 1 \in 0 .. MaxRequests
    BY <1>1, <1>2, <2>1
  <2>3. call[t] \in AP!CallState
    BY <1>1
  <2>4. QED
    BY <2>2, <2>3 DEF AP!CallState
<1> HIDE DEF c
<1>4. /\ call' \in [ExecThread -> AP!CallState]
      /\ \A u \in ExecThread : call'[u] = IF u = t THEN c ELSE call[u]
  BY <1>1, <1>2, <1>3
<1>5. \A i \in DOMAIN resolved : resolved[i].id \in 1 .. asked
  <2> DEFINE Entry == [id : 1 .. asked, by : {"auto", "operator"}]
  <2>1. resolved \in Seq(Entry) /\ \A e \in Entry : e.id \in 1 .. asked
    BY <1>1
  <2> HIDE DEF Entry
  <2>2. QED
    BY <2>1
<1>6. AP!TypeOK'
  <2>1. asked' \in 0 .. MaxRequests /\ pending' \in SUBSET (1 .. asked')
    BY <1>1, <1>2, PartBounds
  <2>2. [id : 1 .. asked, by : {"auto", "operator"}] \subseteq [id : 1 .. asked', by : {"auto", "operator"}]
    BY <1>1, <1>2
  <2> DEFINE Old == [id : 1 .. asked, by : {"auto", "operator"}]
             New == [id : 1 .. asked', by : {"auto", "operator"}]
  <2>3. resolved' \in Seq(New)
    <3>1. resolved \in Seq(Old) /\ Old \subseteq New
      BY <1>1, <2>2
    <3> HIDE DEF Old, New
    <3>2. resolved \in [1 .. Len(resolved) -> New] /\ Len(resolved) \in Nat
      BY <3>1
    <3>3. resolved \in Seq(New)
      BY <3>2
    <3>4. QED
      BY <1>2, <3>3
  <2>4. QED
    BY <1>2, <1>4, <2>1, <2>3 DEF AP!IInv, AP!TypeOK
<1>7. ASSUME NEW u \in ExecThread
      PROVE  AP!GrantsOK(u)' /\ AP!RequestOK(u)'
  <2>1. AP!GrantsOK(u) /\ AP!RequestOK(u) /\ call[u].id \in Nat
    BY <1>1 DEF AP!CallState
  <2>2. CASE u = t
    <3>1. call'[u] = c
      BY <1>4, <2>2
    <3>2. QED
      BY <1>1, <1>2, <1>3, <2>1, <2>2, <3>1 DEF AP!GrantsOK, AP!RequestOK, AP!Allowed
  <2>3. CASE u # t
    <3>1. call'[u] = call[u]
      BY <1>4, <2>3
    <3>2. QED
      BY <1>1, <1>2, <2>1, <3>1 DEF AP!GrantsOK, AP!RequestOK, AP!Allowed
  <2>4. QED
    BY <2>2, <2>3
<1>8. AP!RecordedOnce'
  <2>1. \A u \in ExecThread : call'[u].at \in {"run", "answered"} => call'[u].id \notin pending'
    BY <1>7 DEF AP!RequestOK
  <2>2. /\ \A i, j \in DOMAIN resolved' : i # j => resolved'[i].id # resolved'[j].id
        /\ \A i \in DOMAIN resolved' : resolved'[i].id \notin pending
    BY <1>2 DEF AP!IInv, AP!RecordedOnce
  <2>3. \A i \in DOMAIN resolved' : resolved'[i].id \notin pending'
    BY <1>1, <1>2, <1>5, <2>2
  <2>4. QED
    BY <2>1, <2>2, <2>3 DEF AP!RecordedOnce
<1>9. QED
  BY <1>2, <1>6, <1>7, <1>8 DEF AP!IInv

\* A new configuration: every call under way may count on what it grants.
LEMMA ConfigureSteps ==
    ASSUME AP!IInv, (\E c \in AP!Config : AP!ApprovalsSet(c)) \/ AP!AddPatterns
    PROVE  AP!IInv'
<1>1. CASE \E c \in AP!Config : AP!ApprovalsSet(c)
  <2>1. PICK c \in AP!Config : AP!ApprovalsSet(c)
    BY <1>1
  <2>2. /\ config' = c /\ allowlist' = {}
        /\ grants' = [t \in ExecThread |-> IF call[t].at = "idle" THEN {}
                                       ELSE grants[t] \cup AP!Grants(c, call[t].cmd)]
        /\ UNCHANGED <<pending, resolved, call, asked>>
    BY <2>1 DEF AP!ApprovalsSet, AP!Configure
  <2>3. grants \in [ExecThread -> SUBSET {"any", "on-miss", "match"}]
    BY DEF AP!IInv, AP!TypeOK
  <2>4. \A t \in ExecThread : AP!Grants(c, call[t].cmd) \subseteq {"any", "on-miss", "match"}
    BY DEF AP!Grants
  <2>5. grants' \in [ExecThread -> SUBSET {"any", "on-miss", "match"}]
    BY <2>2, <2>3, <2>4
  <2>6. AP!TypeOK'
    BY <2>1, <2>2, <2>5 DEF AP!IInv, AP!TypeOK
  <2>7. ASSUME NEW t \in ExecThread
        PROVE  AP!GrantsOK(t)' /\ AP!RequestOK(t)'
    <3>1. /\ AP!GrantsOK(t) /\ AP!RequestOK(t) /\ call'[t] = call[t]
          /\ call[t].at # "idle" => grants'[t] = grants[t] \cup AP!Grants(c, call[t].cmd)
      BY <2>2 DEF AP!IInv
    <3>2. QED
      BY <2>2, <3>1 DEF AP!GrantsOK, AP!RequestOK, AP!Allowed
  <2>8. AP!RecordedOnce'
    BY <2>2 DEF AP!IInv, AP!RecordedOnce
  <2>9. QED
    BY <2>2, <2>6, <2>7, <2>8 DEF AP!IInv
<1>2. CASE AP!AddPatterns
  <2>1. /\ allowlist' = allowlist \cup config.allow
        /\ UNCHANGED <<config, pending, resolved, call, asked, grants>>
    BY <1>2 DEF AP!AddPatterns
  <2>2. allowlist' \in SUBSET Cmd /\ allowlist' \subseteq config'.allow
    BY <2>1 DEF AP!IInv, AP!TypeOK, AP!Config
  <2>3. AP!TypeOK'
    BY <2>1, <2>2 DEF AP!IInv, AP!TypeOK
  <2>4. (\A t \in ExecThread : AP!GrantsOK(t) /\ AP!RequestOK(t))'
    BY <2>1 DEF AP!IInv, AP!GrantsOK, AP!RequestOK, AP!Allowed
  <2>5. AP!RecordedOnce'
    BY <2>1 DEF AP!IInv, AP!RecordedOnce
  <2>6. QED
    BY <2>2, <2>3, <2>4, <2>5 DEF AP!IInv
<1>3. QED
  BY <1>1, <1>2

LEMMA ApprovalKeeps ==
    ASSUME AP!IInv, AP!Next \/ UNCHANGED approvalVars
    PROVE  AP!IInv'
<1>1. CASE UNCHANGED approvalVars
  <2>1. UNCHANGED <<config, allowlist, pending, resolved, call, asked, sets, grants>>
    BY <1>1 DEF approvalVars
  <2>2. AP!TypeOK'
    BY <2>1 DEF AP!IInv, AP!TypeOK
  <2>3. (\A t \in ExecThread : AP!GrantsOK(t) /\ AP!RequestOK(t))'
    BY <2>1 DEF AP!IInv, AP!GrantsOK, AP!RequestOK, AP!Allowed
  <2>4. AP!RecordedOnce'
    BY <2>1 DEF AP!IInv, AP!RecordedOnce
  <2>5. QED
    BY <2>1, <2>2, <2>3, <2>4 DEF AP!IInv
<1>2. CASE \E t \in ExecThread, cmd \in Cmd : AP!ExecTool(t, cmd) \/ AP!ApprovalRequest(t, cmd)
  BY <1>2, BeginKeeps DEF AP!ExecTool, AP!ApprovalRequest
<1>3. QED
  BY <1>1, <1>2, CallSteps, RequestKeeps, ResolveKeeps, AnswerKeeps, ConfigureSteps DEF AP!Next

-----------------------------------------------------------------------------
(* Processes *)

LEMMA ProcessesInit ==
    ASSUME PR!Init
    PROVE  PR!IInv
<1>1. \A t \in Poller : job[t] = PR!Free /\ PR!Free \in PR!JobState /\ PR!Free.at = "free"
  BY DEF PR!Init, PR!Free, PR!JobState
<1>2. PR!TypeOK
  BY <1>1, PartBounds DEF PR!Init, PR!TypeOK
<1>3. PR!EndedHasOutput /\ PR!TakenIsStored
  BY DEF PR!Init, PR!EndedHasOutput, PR!TakenIsStored
<1>4. PR!JobsOK
  BY <1>1 DEF PR!JobsOK
<1>5. QED
  BY <1>2, <1>3, <1>4 DEF PR!IInv

\* What a step of a thread must show: it goes from one place to the next with its
\* session, no future that was taken is running again, and a session that has
\* lost the thread that was about to store its output has the output, or was
\* killed or cleared.
Settled(t, j) ==
    \A s \in PR!Session :
        \/ output'[s] \/ s \in excused' \/ j = [at |-> "store", id |-> s]
        \/ /\ (exited'[s] => exited[s] \/ future'[s] = "taken")
           /\ (future'[s] = "taken" => future[s] = "taken")
           /\ job[t] # [at |-> "store", id |-> s]
           /\ (output[s] => output'[s])

LEMMA OneJob ==
    ASSUME PR!IInv, NEW t \in Poller, NEW j \in PR!JobState, job' = [job EXCEPT ![t] = j],
           UNCHANGED started, table' \subseteq 1 .. started,
           future' \in [PR!Session -> {"running", "ready", "taken"}],
           exited' \in [PR!Session -> BOOLEAN], output' \in [PR!Session -> BOOLEAN],
           excused \subseteq excused', excused' \subseteq PR!Session,
           j.at # "free" => j.id \in PR!Session,
           j.at = "get" => future'[j.id] # "running",
           \A s \in PR!Session : future[s] # "running" => future'[s] # "running",
           Settled(t, j)
    PROVE  PR!IInv'
<1>1. job \in [Poller -> PR!JobState]
  BY DEF PR!IInv, PR!TypeOK
<1>2. \A u \in Poller : job'[u] = IF u = t THEN j ELSE job[u]
  BY <1>1
<1>3. PR!TypeOK'
  <2>1. job' \in [Poller -> PR!JobState]
    BY <1>1
  <2>2. PR!Session' = PR!Session /\ PR!JobState' = PR!JobState
    BY DEF PR!Session, PR!JobState
  <2>3. QED
    BY <2>1, <2>2 DEF PR!IInv, PR!TypeOK
<1>4. \A s \in PR!Session :
          \/ output'[s] \/ s \in excused' \/ PR!Storing(s)'
          \/ ~exited'[s] /\ future'[s] # "taken"
  <2> SUFFICES ASSUME NEW s \in PR!Session, ~output'[s], s \notin excused', ~PR!Storing(s)'
               PROVE  ~exited'[s] /\ future'[s] # "taken"
    OBVIOUS
  <2>1. j # [at |-> "store", id |-> s]
    BY <1>2 DEF PR!Storing
  <2>2. /\ exited'[s] => exited[s] \/ future'[s] = "taken"
        /\ future'[s] = "taken" => future[s] = "taken"
        /\ job[t] # [at |-> "store", id |-> s]
        /\ ~output[s]
    BY <2>1 DEF Settled
  <2>3. ~PR!Storing(s) /\ s \notin excused
    BY <1>2, <2>2 DEF PR!Storing
  <2>4. ~exited[s] /\ future[s] # "taken"
    BY <2>2, <2>3 DEF PR!IInv, PR!EndedHasOutput, PR!TakenIsStored
  <2>5. QED
    BY <2>2, <2>4
<1>5. PR!EndedHasOutput' /\ PR!TakenIsStored'
  BY <1>4 DEF PR!EndedHasOutput, PR!TakenIsStored, PR!Session
<1>6. PR!JobsOK'
  BY <1>2 DEF PR!IInv, PR!JobsOK, PR!Session
<1>7. QED
  BY <1>3, <1>5, <1>6 DEF PR!IInv

LEMMA ThreadSteps ==
    ASSUME PR!IInv, NEW t \in Poller,
           \/ PR!Poll(t) \/ PR!Get(t) \/ PR!Store(t) \/ PR!Kill(t) \/ PR!Clear(t)
           \/ PR!Remove(t) \/ PR!Write(t) \/ PR!Release(t)
           \/ \E s \in PR!Session : PR!List(t, s)
           \/ \E s \in PR!Session, a \in {"poll", "kill", "clear", "remove", "write"} : PR!Find(t, s, a)
    PROVE  PR!IInv'
<1> DEFINE id == job[t].id
           j(at) == [job[t] EXCEPT !.at = at]
           on(at, s) == [at |-> at, id |-> s]
<1>1. /\ started \in 0 .. MaxSessions /\ table \subseteq 1 .. started
      /\ future \in [PR!Session -> {"running", "ready", "taken"}]
      /\ exited \in [PR!Session -> BOOLEAN] /\ output \in [PR!Session -> BOOLEAN]
      /\ job[t] \in PR!JobState /\ excused \subseteq PR!Session
      /\ job[t].at # "free" => job[t].id \in PR!Session
      /\ job[t].at = "get" => future[job[t].id] # "running"
  BY DEF PR!IInv, PR!TypeOK, PR!JobsOK
<1>2. ASSUME NEW at \in {"get", "store", "release"}
      PROVE  j(at) \in PR!JobState /\ j(at).at = at /\ j(at).id = id
  BY <1>1 DEF PR!JobState
<1>3. ASSUME NEW at \in {"poll", "get", "store", "kill", "clear", "remove", "write", "release"},
             NEW s \in PR!Session
      PROVE  on(at, s) \in PR!JobState /\ on(at, s).at = at /\ on(at, s).id = s
  BY DEF PR!JobState
<1>4. job[t].at # "store" => \A s \in PR!Session : job[t] # [at |-> "store", id |-> s]
  OBVIOUS
<1>5. CASE PR!Poll(t)
  <2> DEFINE at == IF ~exited[id] /\ future[id] = "ready" THEN "get" ELSE "release"
  <2>1. at \in {"get", "release"} /\ (at = "get" => future[id] = "ready")
    OBVIOUS
  <2>2. /\ job' = [job EXCEPT ![t] = j(at)] /\ job[t].at = "poll"
        /\ UNCHANGED <<table, started, future, exited, output, excused>>
    BY <1>5 DEF PR!Poll, PR!Goto
  <2>3. Settled(t, j(at))
    BY <1>4, <2>2 DEF Settled
  <2> HIDE DEF j, at
  <2>4. QED
    BY <1>1, <1>2, <2>1, <2>2, <2>3, OneJob
<1>6. CASE PR!Get(t)
  <2>1. /\ job[t].at = "get" /\ id \in PR!Session /\ future[id] # "running"
        /\ UNCHANGED <<table, started, output, excused>>
    BY <1>1, <1>6 DEF PR!Get
  <2>2. CASE future[id] = "ready"
    <3>1. /\ job' = [job EXCEPT ![t] = j("store")] /\ UNCHANGED exited
          /\ future' = [future EXCEPT ![id] = "taken"]
      BY <1>6, <2>2 DEF PR!Get, PR!Goto
    <3>2. j("store") = [at |-> "store", id |-> id]
      BY <1>1 DEF PR!JobState
    <3>3. /\ future' \in [PR!Session -> {"running", "ready", "taken"}]
          /\ \A s \in PR!Session : future'[s] = IF s = id THEN "taken" ELSE future[s]
      BY <1>1, <2>1, <3>1
    <3>4. Settled(t, j("store"))
      BY <1>4, <2>1, <3>1, <3>2, <3>3 DEF Settled
    <3>5. j("store") \in PR!JobState /\ j("store").at = "store" /\ j("store").id = id
      BY <1>2
    <3> HIDE DEF j
    <3>6. QED
      BY <1>1, <2>1, <3>1, <3>3, <3>4, <3>5, OneJob
  <2>3. CASE future[id] # "ready"
    <3>1. /\ job' = [job EXCEPT ![t] = j("release")] /\ UNCHANGED future
          /\ exited' = [exited EXCEPT ![id] = TRUE]
      BY <1>6, <2>3 DEF PR!Get, PR!Goto
    <3>2. future[id] = "taken"
      BY <1>1, <2>1, <2>3
    <3>3. /\ exited' \in [PR!Session -> BOOLEAN]
          /\ \A s \in PR!Session : s # id => exited'[s] = exited[s]
      BY <1>1, <2>1, <3>1
    <3>4. Settled(t, j("release"))
      BY <1>4, <2>1, <3>1, <3>2, <3>3 DEF Settled
    <3>5. j("release") \in PR!JobState /\ j("release").at = "release" /\ j("release").id = id
      BY <1>2
    <3> HIDE DEF j
    <3>6. QED
      BY <1>1, <2>1, <3>1, <3>3, <3>4, <3>5, OneJob
  <2>4. QED
    BY <2>2, <2>3
<1>7. CASE PR!Store(t)
  <2>1. /\ job[t].at = "store" /\ id \in PR!Session
        /\ job' = [job EXCEPT ![t] = j("release")]
        /\ output' = [output EXCEPT ![id] = TRUE] /\ exited' = [exited EXCEPT ![id] = TRUE]
        /\ UNCHANGED <<table, started, future, excused>>
    BY <1>1, <1>7 DEF PR!Store, PR!Goto
  <2>2. /\ output' \in [PR!Session -> BOOLEAN] /\ exited' \in [PR!Session -> BOOLEAN]
        /\ output'[id]
        /\ \A s \in PR!Session : s # id => output'[s] = output[s] /\ exited'[s] = exited[s]
    BY <1>1, <2>1
  <2>3. \A s \in PR!Session : s # id => job[t] # [at |-> "store", id |-> s]
    OBVIOUS
  <2>4. Settled(t, j("release"))
    BY <2>1, <2>2, <2>3 DEF Settled
  <2>5. j("release") \in PR!JobState /\ j("release").at = "release" /\ j("release").id = id
    BY <1>2
  <2> HIDE DEF j
  <2>6. QED
    BY <1>1, <2>1, <2>2, <2>4, <2>5, OneJob
<1>8. CASE PR!Kill(t) \/ PR!Clear(t)
  <2>1. /\ job[t].at # "store" /\ id \in PR!Session
        /\ job' = [job EXCEPT ![t] = j("release")]
        /\ excused' = excused \cup {id} /\ UNCHANGED <<table, started, future>>
        /\ \/ exited' = [exited EXCEPT ![id] = TRUE] /\ UNCHANGED output
           \/ output' = [output EXCEPT ![id] = FALSE] /\ UNCHANGED exited
    BY <1>1, <1>8 DEF PR!Kill, PR!Clear, PR!Goto
  <2>2. /\ output' \in [PR!Session -> BOOLEAN] /\ exited' \in [PR!Session -> BOOLEAN]
        /\ \A s \in PR!Session : s # id => output'[s] = output[s] /\ exited'[s] = exited[s]
    BY <1>1, <2>1
  <2>3. Settled(t, j("release"))
    BY <1>4, <2>1, <2>2 DEF Settled
  <2>4. j("release") \in PR!JobState /\ j("release").at = "release" /\ j("release").id = id
    BY <1>2
  <2> HIDE DEF j
  <2>5. QED
    BY <1>1, <2>1, <2>2, <2>3, <2>4, OneJob
<1>9. CASE PR!Remove(t) \/ PR!Write(t)
  <2>1. /\ job[t].at # "store" /\ id \in PR!Session
        /\ job' = [job EXCEPT ![t] = j("release")]
        /\ table' \subseteq table /\ UNCHANGED <<started, future, exited, output, excused>>
    BY <1>1, <1>9 DEF PR!Remove, PR!Write, PR!Goto
  <2>2. Settled(t, j("release"))
    BY <1>4, <2>1 DEF Settled
  <2>3. j("release") \in PR!JobState /\ j("release").at = "release" /\ j("release").id = id
    BY <1>2
  <2>4. table' \subseteq 1 .. started
    BY <1>1, <2>1
  <2> HIDE DEF j
  <2>5. QED
    BY <1>1, <2>1, <2>2, <2>3, <2>4, OneJob
<1>10. CASE PR!Release(t)
  <2>1. /\ job[t].at # "store" /\ job' = [job EXCEPT ![t] = PR!Free]
        /\ UNCHANGED <<table, started, future, exited, output, excused>>
    BY <1>10 DEF PR!Release
  <2>2. PR!Free \in PR!JobState /\ PR!Free.at = "free"
    BY DEF PR!Free, PR!JobState
  <2>3. Settled(t, PR!Free)
    BY <1>4, <2>1 DEF Settled
  <2>4. QED
    BY <1>1, <2>1, <2>2, <2>3, OneJob
<1>11. CASE \E s \in PR!Session : PR!List(t, s)
  <2>1. PICK s \in PR!Session : PR!List(t, s)
    BY <1>11
  <2>2. /\ job[t].at # "store" /\ job' = [job EXCEPT ![t] = on("store", s)]
        /\ future[s] = "ready" /\ future' = [future EXCEPT ![s] = "taken"]
        /\ UNCHANGED <<table, started, exited, output, excused>>
    BY <2>1 DEF PR!List, PR!Free
  <2>3. /\ future' \in [PR!Session -> {"running", "ready", "taken"}]
        /\ \A r \in PR!Session : future'[r] = IF r = s THEN "taken" ELSE future[r]
    BY <1>1, <2>2
  <2>4. on("store", s) = [at |-> "store", id |-> s]
    OBVIOUS
  <2>5. Settled(t, on("store", s))
    BY <1>4, <2>2, <2>3, <2>4 DEF Settled
  <2>6. /\ on("store", s) \in PR!JobState /\ on("store", s).at = "store"
        /\ on("store", s).id = s
    BY <1>3
  <2> HIDE DEF on
  <2>7. QED
    BY <1>1, <2>2, <2>3, <2>5, <2>6, OneJob
<1>12. CASE \E s \in PR!Session, a \in {"poll", "kill", "clear", "remove", "write"} : PR!Find(t, s, a)
  <2>1. PICK s \in PR!Session, a \in {"poll", "kill", "clear", "remove", "write"} : PR!Find(t, s, a)
    BY <1>12
  <2>2. /\ job[t].at # "store" /\ job' = [job EXCEPT ![t] = on(a, s)]
        /\ UNCHANGED <<table, started, future, exited, output, excused>>
    BY <2>1 DEF PR!Find, PR!Free
  <2>3. Settled(t, on(a, s))
    BY <1>4, <2>2 DEF Settled
  <2>4. on(a, s) \in PR!JobState /\ on(a, s).at = a /\ on(a, s).id = s
    BY <1>3
  <2>5. a # "get"
    OBVIOUS
  <2> HIDE DEF on
  <2>6. QED
    BY <1>1, <2>2, <2>3, <2>4, <2>5, OneJob
<1>13. QED
  BY <1>5, <1>6, <1>7, <1>8, <1>9, <1>10, <1>11, <1>12

LEMMA ProcessesKeep ==
    ASSUME PR!IInv, PR!Next \/ UNCHANGED processesVars
    PROVE  PR!IInv'
<1>1. /\ started \in 0 .. MaxSessions /\ table \subseteq 1 .. started
      /\ future \in [PR!Session -> {"running", "ready", "taken"}]
  BY DEF PR!IInv, PR!TypeOK
<1>2. CASE /\ UNCHANGED <<exited, output, job, excused>>
           /\ started' \in 0 .. MaxSessions /\ table' \subseteq 1 .. started'
           /\ future' \in [PR!Session -> {"running", "ready", "taken"}]
           /\ \A s \in PR!Session : /\ future[s] = "taken" <=> future'[s] = "taken"
                                    /\ future'[s] = "running" => future[s] = "running"
  <2>1. PR!TypeOK'
    BY <1>2 DEF PR!IInv, PR!TypeOK, PR!Session, PR!JobState
  <2>2. PR!EndedHasOutput' /\ PR!TakenIsStored'
    BY <1>2 DEF PR!IInv, PR!EndedHasOutput, PR!TakenIsStored, PR!Storing, PR!Session
  <2>3. PR!JobsOK'
    BY <1>2 DEF PR!IInv, PR!JobsOK, PR!Session
  <2>4. QED
    BY <2>1, <2>2, <2>3 DEF PR!IInv
<1>3. CASE \E t \in Poller : PR!Start(t)
  <2>1. /\ started' = started + 1 /\ started < MaxSessions /\ table' = table \cup {started'}
        /\ UNCHANGED <<future, exited, output, job, excused>>
    BY <1>3 DEF PR!Start
  <2>2. started' \in 0 .. MaxSessions /\ table' \subseteq 1 .. started'
    BY <1>1, <2>1, PartBounds
  <2>3. QED
    BY <1>1, <1>2, <2>1, <2>2
<1>4. CASE \E s \in PR!Session : PR!CommandEnds(s)
  <2>1. PICK s \in PR!Session : PR!CommandEnds(s)
    BY <1>4
  <2>2. /\ future[s] = "running" /\ future' = [future EXCEPT ![s] = "ready"]
        /\ UNCHANGED <<table, started, exited, output, job, excused>>
    BY <2>1 DEF PR!CommandEnds
  <2>3. /\ future' \in [PR!Session -> {"running", "ready", "taken"}]
        /\ \A r \in PR!Session : future'[r] = IF r = s THEN "ready" ELSE future[r]
    BY <1>1, <2>2
  <2>4. QED
    BY <1>1, <1>2, <2>2, <2>3
<1>5. CASE UNCHANGED processesVars
  BY <1>1, <1>2, <1>5 DEF processesVars
<1>6. QED
  BY <1>3, <1>4, <1>5, ThreadSteps DEF PR!Next

-----------------------------------------------------------------------------
(* HttpApi *)

\* What the content provider has sent, followed by what waits in the queue: an
\* event is added at the end of the queue, and sending empties the queue.
LEMMA QueueGrows ==
    ASSUME NEW S, NEW e \in S, NEW s \in Seq(S), NEW c \in Seq(S)
    PROVE  Append(s \o c, e) = s \o Append(c, e)
<1>1. <<e>> \in Seq(S) /\ s \o c \in Seq(S)
  BY ConcatProperties
<1>2. Append(c, e) = c \o <<e>> /\ Append(s \o c, e) = (s \o c) \o <<e>>
  BY <1>1, AppendIsConcat
<1>3. (s \o c) \o <<e>> = s \o (c \o <<e>>)
  BY <1>1, ConcatAssociative
<1>4. QED
  BY <1>2, <1>3

LEMMA HttpInit ==
    ASSUME HA!Init
    PROVE  HA!IInv
<1>1. /\ HA!Fresh \in HA!RequestState /\ HA!Fresh.at = "new"
      /\ HA!StreamOK(HA!Fresh, <<>>)
  <2>1. HA!Fresh \in HA!RequestState /\ HA!Fresh.at = "new"
    BY DEF HA!Fresh, HA!RequestState, HA!Stage, HA!Status, HA!Event
  <2>2. /\ HA!Fresh.sent = <<>> /\ HA!Fresh.chunks = <<>> /\ HA!Fresh.finished = FALSE
        /\ HA!Fresh.kind = None /\ HA!Fresh.status = None
    BY DEF HA!Fresh
  <2>3. <<>> = <<>> \o <<>>
    OBVIOUS
  <2>4. QED
    BY <2>1, <2>2, <2>3 DEF HA!StreamOK
<1>2. \A r \in Req : req[r] = HA!Fresh /\ pushed[r] = <<>>
  BY DEF HA!Init
<1>3. HA!TypeOK
  BY <1>1, <1>2 DEF HA!Init, HA!TypeOK
<1>4. QED
  BY <1>1, <1>2, <1>3 DEF HA!IInv

\* What a step of one request must show.
LEMMA OneRequest ==
    ASSUME HA!IInv, NEW r \in Req, NEW q \in HA!RequestState, NEW p \in Seq(HA!Event),
           req' = [req EXCEPT ![r] = q], pushed' = [pushed EXCEPT ![r] = p],
           server' \in {"off", "starting", "listening", "stopping"},
           transcript' \in [SessionKey -> Seq(Req)], usage' \in [SessionKey -> Nat], agent' \in Req \cup {None},
           q.at \in {"wait", "turn", "save"} => q.key \in SessionKey,
           HA!StreamOK(q, p)
    PROVE  HA!IInv'
<1>1. /\ req \in [Req -> HA!RequestState] /\ pushed \in [Req -> Seq(HA!Event)]
      /\ \A u \in Req : HA!StreamOK(req[u], pushed[u])
      /\ \A u \in Req : req[u].at \in {"wait", "turn", "save"} => req[u].key \in SessionKey
  BY DEF HA!IInv, HA!TypeOK
<1>2. \A u \in Req : /\ req'[u] = IF u = r THEN q ELSE req[u]
                     /\ pushed'[u] = IF u = r THEN p ELSE pushed[u]
  BY <1>1
<1>3. /\ HA!RequestState' = HA!RequestState /\ HA!Event' = HA!Event
      /\ HA!Fresh' = HA!Fresh /\ HA!Terminal' = HA!Terminal /\ HA!Streams' = HA!Streams
  BY DEF HA!RequestState, HA!Stage, HA!Status, HA!Event, HA!Fresh, HA!Terminal, HA!Streams
<1>4. req' \in [Req -> HA!RequestState] /\ pushed' \in [Req -> Seq(HA!Event)]
  BY <1>1
<1>5. \A u \in Req : req'[u].at \in {"wait", "turn", "save"} => req'[u].key \in SessionKey
  BY <1>1, <1>2
<1>6. HA!TypeOK'
  BY <1>3, <1>4, <1>5 DEF HA!TypeOK
<1>7. \A u \in Req : HA!StreamOK(req'[u], pushed'[u])
  BY <1>1, <1>2
<1>8. QED
  BY <1>3, <1>6, <1>7 DEF HA!IInv, HA!StreamOK

LEMMA EventAdded ==
    ASSUME NEW s \in Seq(HA!Event), NEW c \in Seq(HA!Event), NEW e \in HA!Event
    PROVE  /\ Append(s \o c, e) = s \o Append(c, e)
           /\ Append(s, e) \in Seq(HA!Event) /\ Append(s, e) # <<>>
           /\ Append(s, e)[Len(Append(s, e))] = e
<1>1. Append(s \o c, e) = s \o Append(c, e)
  BY QueueGrows
<1>2. /\ Append(s, e) \in Seq(HA!Event) /\ Append(s, e) # <<>>
      /\ Len(Append(s, e)) = Len(s) + 1 /\ Append(s, e)[Len(s) + 1] = e
  BY AppendProperties
<1>3. QED
  BY <1>1, <1>2

\* What every step may rely on, of the request that takes it.
LEMMA RequestFacts ==
    ASSUME HA!IInv, NEW r \in Req
    PROVE  /\ req[r] \in HA!RequestState /\ pushed[r] \in Seq(HA!Event)
           /\ HA!StreamOK(req[r], pushed[r])
           /\ req[r].at \in {"wait", "turn", "save"} => req[r].key \in SessionKey
           /\ req \in [Req -> HA!RequestState] /\ pushed \in [Req -> Seq(HA!Event)]
           /\ pushed = [pushed EXCEPT ![r] = pushed[r]]
           /\ server \in {"off", "starting", "listening", "stopping"}
           /\ transcript \in [SessionKey -> Seq(Req)] /\ usage \in [SessionKey -> Nat]
           /\ agent \in Req \cup {None}
  BY DEF HA!IInv, HA!TypeOK

\* A step of a request that pushes nothing, sends nothing and ends no response.
LEMMA QuietStep ==
    ASSUME HA!IInv, NEW r \in Req, NEW q \in HA!RequestState,
           req' = [req EXCEPT ![r] = q], UNCHANGED <<server, pushed>>,
           transcript' \in [SessionKey -> Seq(Req)], usage' \in [SessionKey -> Nat], agent' \in Req \cup {None},
           q.at \in {"wait", "turn", "save"} => q.key \in SessionKey, q.at # "new",
           q.finished => q.at \in {"serve", "closed"},
           q.sent = req[r].sent, q.chunks = req[r].chunks, q.kind = req[r].kind,
           q.kind = "stream" => q.finished = req[r].finished,
           q.kind \in HA!Streams => q.status = None
    PROVE  HA!IInv'
<1>1. HA!StreamOK(q, pushed[r])
  BY RequestFacts DEF HA!StreamOK
<1>2. pushed' = [pushed EXCEPT ![r] = pushed[r]]
  BY RequestFacts
<1>3. QED
  BY <1>1, <1>2, RequestFacts, OneRequest

\* What changing one field of a request leaves alone.
LEMMA AtChanged ==
    ASSUME NEW q \in HA!RequestState, NEW at \in HA!Stage
    PROVE  [q EXCEPT !.at = at] \in HA!RequestState
  BY DEF HA!RequestState

LEMMA ChangeAt ==
    ASSUME NEW q \in HA!RequestState, NEW at \in HA!Stage
    PROVE  LET d == [q EXCEPT !.at = at]
           IN  /\ d \in HA!RequestState /\ d.at = at
               /\ d.key = q.key /\ d.kind = q.kind /\ d.sent = q.sent /\ d.chunks = q.chunks
               /\ d.finished = q.finished /\ d.status = q.status /\ d.open = q.open
               /\ d.calls = q.calls /\ d.before = q.before
<1> DEFINE d == [q EXCEPT !.at = at]
<1>1. d \in HA!RequestState
  BY AtChanged
<1>2. QED
  BY <1>1 DEF HA!RequestState

LEMMA StatusChanged ==
    ASSUME NEW q \in HA!RequestState, NEW status \in HA!Status
    PROVE  [q EXCEPT !.status = status] \in HA!RequestState
  BY DEF HA!RequestState

LEMMA ChangeStatus ==
    ASSUME NEW q \in HA!RequestState, NEW status \in HA!Status
    PROVE  LET d == [q EXCEPT !.status = status]
           IN  /\ d \in HA!RequestState /\ d.status = status
               /\ d.key = q.key /\ d.kind = q.kind /\ d.sent = q.sent /\ d.chunks = q.chunks
               /\ d.finished = q.finished /\ d.at = q.at /\ d.open = q.open
               /\ d.calls = q.calls /\ d.before = q.before
<1> DEFINE d == [q EXCEPT !.status = status]
<1>1. d \in HA!RequestState
  BY StatusChanged
<1>2. QED
  BY <1>1 DEF HA!RequestState

LEMMA ChangeFinished ==
    ASSUME NEW q \in HA!RequestState, NEW finished \in BOOLEAN
    PROVE  LET d == [q EXCEPT !.finished = finished]
           IN  /\ d \in HA!RequestState /\ d.finished = finished
               /\ d.key = q.key /\ d.kind = q.kind /\ d.sent = q.sent /\ d.chunks = q.chunks
               /\ d.status = q.status /\ d.at = q.at /\ d.open = q.open
               /\ d.calls = q.calls /\ d.before = q.before
<1> DEFINE d == [q EXCEPT !.finished = finished]
<1>1. d \in HA!RequestState
  BY DEF HA!RequestState
<1>2. QED
  BY <1>1 DEF HA!RequestState

LEMMA ChangeChunks ==
    ASSUME NEW q \in HA!RequestState, NEW chunks \in Seq(HA!Event)
    PROVE  LET d == [q EXCEPT !.chunks = chunks]
           IN  /\ d \in HA!RequestState /\ d.chunks = chunks
               /\ d.key = q.key /\ d.kind = q.kind /\ d.sent = q.sent /\ d.finished = q.finished
               /\ d.status = q.status /\ d.at = q.at /\ d.open = q.open
               /\ d.calls = q.calls /\ d.before = q.before
<1> DEFINE d == [q EXCEPT !.chunks = chunks]
<1>1. d \in HA!RequestState
  BY DEF HA!RequestState
<1>2. QED
  BY <1>1 DEF HA!RequestState

LEMMA ChangeSent ==
    ASSUME NEW q \in HA!RequestState, NEW out \in Seq(HA!Event)
    PROVE  LET d == [q EXCEPT !.sent = out]
           IN  /\ d \in HA!RequestState /\ d.sent = out
               /\ d.key = q.key /\ d.kind = q.kind /\ d.chunks = q.chunks /\ d.finished = q.finished
               /\ d.status = q.status /\ d.at = q.at /\ d.open = q.open
               /\ d.calls = q.calls /\ d.before = q.before
<1> DEFINE d == [q EXCEPT !.sent = out]
<1>1. d \in HA!RequestState
  BY DEF HA!RequestState
<1>2. QED
  BY <1>1 DEF HA!RequestState

LEMMA ChangeCalls ==
    ASSUME NEW q \in HA!RequestState, NEW calls \in Nat
    PROVE  [q EXCEPT !.calls = calls] \in HA!RequestState
  BY DEF HA!RequestState

LEMMA ChangeBefore ==
    ASSUME NEW q \in HA!RequestState, NEW before \in Int
    PROVE  [q EXCEPT !.before = before] \in HA!RequestState
  BY DEF HA!RequestState

LEMMA ChangeOpen ==
    ASSUME NEW q \in HA!RequestState, NEW open \in BOOLEAN
    PROVE  [q EXCEPT !.open = open] \in HA!RequestState
  BY DEF HA!RequestState

LEMMA ChangeRest ==
    ASSUME NEW q \in HA!RequestState, NEW d,
           \/ \E calls \in Nat : d = [q EXCEPT !.calls = calls]
           \/ \E before \in Int : d = [q EXCEPT !.before = before]
           \/ \E open \in BOOLEAN : d = [q EXCEPT !.open = open]
    PROVE  /\ d \in HA!RequestState
           /\ d.key = q.key /\ d.kind = q.kind /\ d.chunks = q.chunks /\ d.finished = q.finished
           /\ d.status = q.status /\ d.at = q.at /\ d.sent = q.sent
<1>1. d \in HA!RequestState
  BY ChangeCalls, ChangeBefore, ChangeOpen
<1>2. QED
  BY <1>1 DEF HA!RequestState

LEMMA Answered ==
    ASSUME NEW q \in HA!RequestState, NEW status \in HA!Status
    PROVE  /\ HA!Answer(q, status) \in HA!RequestState /\ HA!Answer(q, status).at = "closed"
           /\ HA!Answer(q, status).kind = q.kind /\ HA!Answer(q, status).sent = q.sent
           /\ HA!Answer(q, status).chunks = q.chunks /\ HA!Answer(q, status).finished = q.finished
<1> DEFINE d1 == [q EXCEPT !.at = "closed"]
           d2 == [d1 EXCEPT !.status = status]
<1>1. /\ d1 \in HA!RequestState /\ d1.at = "closed" /\ d1.kind = q.kind /\ d1.sent = q.sent
      /\ d1.chunks = q.chunks /\ d1.finished = q.finished
  BY ChangeAt DEF HA!Stage
<1> HIDE DEF d1
<1>2. d2 \in HA!RequestState
  BY <1>1, StatusChanged
<1>3. /\ d2.at = d1.at /\ d2.kind = d1.kind /\ d2.sent = d1.sent
      /\ d2.chunks = d1.chunks /\ d2.finished = d1.finished
  BY <1>1 DEF HA!RequestState
<1>4. HA!Answer(q, status) = d2
  BY DEF d1, HA!Answer
<1> HIDE DEF d2
<1>5. QED
  BY <1>1, <1>2, <1>3, <1>4

\* The answer of a request that is not a stream.
LEMMA AnswerStep ==
    ASSUME HA!IInv, NEW r \in Req, NEW q \in HA!RequestState,
           NEW status \in HA!Status,
           q.kind = req[r].kind, q.sent = req[r].sent, q.chunks = req[r].chunks,
           q.finished = req[r].finished, q.kind \notin HA!Streams,
           req' = [req EXCEPT ![r] = HA!Answer(q, status)],
           UNCHANGED <<server, pushed, usage>>,
           transcript' \in [SessionKey -> Seq(Req)], agent' \in Req \cup {None}
    PROVE  HA!IInv'
<1> DEFINE d == HA!Answer(q, status)
<1>1. /\ d \in HA!RequestState /\ d.at = "closed" /\ d.kind = q.kind
      /\ d.sent = q.sent /\ d.chunks = q.chunks /\ d.finished = q.finished
  BY Answered
<1>2. req' = [req EXCEPT ![r] = d]
  OBVIOUS
<1> HIDE DEF d
<1>3. d.kind # "stream"
  BY <1>1 DEF HA!Streams
<1>4. usage' \in [SessionKey -> Nat]
  BY RequestFacts
<1>5. d.kind = req[r].kind /\ d.sent = req[r].sent /\ d.chunks = req[r].chunks
  BY <1>1
<1>6. d.kind \notin HA!Streams
  BY <1>1
<1>7. QED
  BY <1>1, <1>2, <1>3, <1>4, <1>5, <1>6, QuietStep

\* A request as its route accepts it.
Requested(kind, k, hist, before) ==
  [HA!Fresh EXCEPT !.at = "wait", !.kind = kind, !.key = k, !.hist = hist, !.before = before]

LEMMA KindChanged ==
    ASSUME NEW q \in HA!RequestState, NEW kind \in RouteKind
    PROVE  [q EXCEPT !.kind = kind] \in HA!RequestState
  BY DEF HA!RequestState

LEMMA KeyChanged ==
    ASSUME NEW q \in HA!RequestState, NEW k \in SessionKey
    PROVE  [q EXCEPT !.key = k] \in HA!RequestState
  BY DEF HA!RequestState

LEMMA HistChanged ==
    ASSUME NEW q \in HA!RequestState, NEW hist \in Nat
    PROVE  [q EXCEPT !.hist = hist] \in HA!RequestState
  BY DEF HA!RequestState

\* Nothing has been put in its queue, nothing sent, and no answer given.
Blank(q) ==
  /\ q.sent = HA!Fresh.sent /\ q.chunks = HA!Fresh.chunks
  /\ q.finished = HA!Fresh.finished /\ q.status = HA!Fresh.status

LEMMA RequestedFacts ==
    ASSUME NEW kind \in RouteKind, NEW k \in SessionKey, NEW hist \in Nat, NEW before \in Nat
    PROVE  /\ Requested(kind, k, hist, before) \in HA!RequestState
           /\ Requested(kind, k, hist, before).at = "wait"
           /\ Requested(kind, k, hist, before).key = k
           /\ Blank(Requested(kind, k, hist, before))
<1> DEFINE q1 == [HA!Fresh EXCEPT !.at = "wait"]
           q2 == [q1 EXCEPT !.kind = kind]
           q3 == [q2 EXCEPT !.key = k]
           q4 == [q3 EXCEPT !.hist = hist]
           q5 == [q4 EXCEPT !.before = before]
<1>1. HA!Fresh \in HA!RequestState
  BY DEF HA!Fresh, HA!RequestState, HA!Stage, HA!Status
<1>2. Requested(kind, k, hist, before) = q5
  BY DEF Requested
<1>3. q1 \in HA!RequestState
  BY <1>1, AtChanged DEF HA!Stage
<1>4. q1.at = "wait" /\ Blank(q1)
  BY <1>1 DEF HA!RequestState, Blank
<1> HIDE DEF q1
<1>5. q2 \in HA!RequestState
  BY <1>3, KindChanged
<1>6. q2.at = "wait" /\ Blank(q2)
  BY <1>3, <1>4 DEF HA!RequestState, Blank
<1> HIDE DEF q2
<1>7. q3 \in HA!RequestState
  BY <1>5, KeyChanged
<1>8. q3.at = "wait" /\ q3.key = k /\ Blank(q3)
  BY <1>5, <1>6 DEF HA!RequestState, Blank
<1> HIDE DEF q3
<1>9. q4 \in HA!RequestState
  BY <1>7, HistChanged
<1>10. q4.at = "wait" /\ q4.key = k /\ Blank(q4)
  BY <1>7, <1>8 DEF HA!RequestState, Blank
<1> HIDE DEF q4
<1>11. q5 \in HA!RequestState
  <2>1. before \in Int
    OBVIOUS
  <2>2. QED
    BY <1>9, <2>1, ChangeBefore
<1>12. q5.at = "wait" /\ q5.key = k /\ Blank(q5)
  BY <1>9, <1>10 DEF HA!RequestState, Blank
<1> HIDE DEF q5
<1>13. QED
  BY <1>2, <1>11, <1>12

\* Requests that are refused or accepted.
LEMMA AcceptSteps ==
    ASSUME HA!IInv, NEW r \in Req,
           \/ HA!Unauthorized(r) \/ HA!BadRequest(r)
           \/ \E k \in SessionKey : \/ HA!AgentRequest(r, k) \/ HA!AgentStream(r, k)
                             \/ HA!ChannelMessage(r, k) \/ HA!ChatCompletions(r, k)
    PROVE  HA!IInv'
<1>1. CASE HA!Unauthorized(r) \/ HA!BadRequest(r)
  <2>1. PICK status \in {400, 401} : req' = [req EXCEPT ![r] = HA!Answer(req[r], status)]
    <3>1. HA!Unauthorized(r) => req' = [req EXCEPT ![r] = HA!Answer(req[r], 401)]
      BY DEF HA!Unauthorized
    <3>2. HA!BadRequest(r) => req' = [req EXCEPT ![r] = HA!Answer(req[r], 400)]
      BY DEF HA!BadRequest
    <3>3. QED
      BY <1>1, <3>1, <3>2
  <2>2. req[r] = HA!Fresh /\ UNCHANGED <<server, transcript, usage, agent, pushed>>
    BY <1>1, RequestFacts DEF HA!Unauthorized, HA!BadRequest, HA!StreamOK
  <2>3. req[r].kind \notin HA!Streams
    BY <2>2, PartNames DEF HA!Fresh, HA!Streams
  <2>4. req[r] \in HA!RequestState /\ transcript' \in [SessionKey -> Seq(Req)] /\ agent' \in Req \cup {None}
    BY <2>2, RequestFacts
  <2>5. {400, 401} \subseteq HA!Status
    BY DEF HA!Status
  <2>6. UNCHANGED <<server, pushed, usage>>
    BY <2>2
  <2> DEFINE q == req[r]
  <2>7. req' = [req EXCEPT ![r] = HA!Answer(q, status)] /\ status \in HA!Status
    BY <2>1, <2>5
  <2>8. /\ q \in HA!RequestState /\ q.kind \notin HA!Streams /\ q.kind = req[r].kind
        /\ q.sent = req[r].sent /\ q.chunks = req[r].chunks /\ q.finished = req[r].finished
    BY <2>3, <2>4
  <2> HIDE DEF q
  <2>9. QED
    BY <2>4, <2>6, <2>7, <2>8, AnswerStep
<1>2. ASSUME NEW k \in SessionKey, NEW kind \in RouteKind, NEW hist \in Nat, HA!Accept(r, kind, k, hist),
             transcript' \in [SessionKey -> Seq(Req)]
      PROVE  HA!IInv'
  <2>2. PICK before \in Nat : before = usage[k]
    BY RequestFacts
  <2> DEFINE q == Requested(kind, k, hist, before)
  <2>1. /\ req' = [req EXCEPT ![r] = q] /\ req[r].at = "new"
        /\ UNCHANGED <<server, usage, agent, pushed>>
    BY <1>2, <2>2 DEF HA!Accept, Requested
  <2>3. /\ q \in HA!RequestState /\ q.at = "wait" /\ q.key = k /\ q.sent = <<>> /\ q.chunks = <<>>
        /\ q.finished = FALSE /\ q.status = None
    <3>1. q \in HA!RequestState /\ q.at = "wait" /\ q.key = k /\ Blank(q)
      BY RequestedFacts
    <3> HIDE DEF q
    <3>2. /\ HA!Fresh.sent = <<>> /\ HA!Fresh.chunks = <<>> /\ HA!Fresh.finished = FALSE
          /\ HA!Fresh.status = None
      BY DEF HA!Fresh
    <3>3. QED
      BY <3>1, <3>2 DEF Blank
  <2> HIDE DEF q
  <2>4. pushed[r] = <<>> \o <<>>
    <3>1. req[r] = HA!Fresh /\ pushed[r] = req[r].sent \o req[r].chunks
      BY <2>1, RequestFacts DEF HA!StreamOK
    <3>2. HA!Fresh.sent = <<>> /\ HA!Fresh.chunks = <<>>
      BY DEF HA!Fresh
    <3>3. QED
      BY <3>1, <3>2
  <2>5. HA!StreamOK(q, pushed[r])
    BY <2>3, <2>4 DEF HA!StreamOK
  <2>6. QED
    BY <1>2, <2>1, <2>3, <2>5, RequestFacts, OneRequest
<1>3. ASSUME NEW k \in SessionKey, NEW kind, HA!AcceptOwn(r, kind, k)
      PROVE  HA!IInv'
  <2>1. kind \in RouteKind /\ HA!Accept(r, kind, k, Len(transcript[k]))
    BY <1>3 DEF HA!AcceptOwn, HA!Accept
  <2>2. transcript \in [SessionKey -> Seq(Req)] /\ Len(transcript[k]) \in Nat
    BY RequestFacts
  <2>3. transcript' \in [SessionKey -> Seq(Req)]
    BY <1>3, <2>2 DEF HA!AcceptOwn
  <2>4. QED
    BY <1>2, <2>1, <2>2, <2>3
<1>4. ASSUME NEW k \in SessionKey, HA!ChatCompletions(r, k)
      PROVE  HA!IInv'
  <2>1. PICK kind \in HA!Chats : HA!Accept(r, kind, k, 0)
    BY <1>4 DEF HA!ChatCompletions
  <2>2. kind \in RouteKind /\ transcript' = transcript
    BY <1>4, <2>1 DEF HA!ChatCompletions, HA!Accept
  <2>3. QED
    BY <1>2, <2>1, <2>2, RequestFacts
<1>5. QED
  BY <1>1, <1>3, <1>4 DEF HA!AgentRequest, HA!AgentStream, HA!ChannelMessage

\* The steps of a request that push and send nothing.
LEMMA QuietSteps ==
    ASSUME HA!IInv, NEW r \in Req,
           \/ HA!BeginTurn(r) \/ HA!Record(r) \/ HA!EndTurn(r) \/ HA!Finish(r)
           \/ HA!Abandoned(r) \/ HA!ClientGone(r)
           \/ HA!TurnFails(r) /\ req[r].kind # "stream"
    PROVE  HA!IInv'
<1> DEFINE q == req[r]
<1>1. /\ q \in HA!RequestState /\ pushed[r] \in Seq(HA!Event)
      /\ q.at \in {"wait", "turn", "save"} => q.key \in SessionKey
      /\ server \in {"off", "starting", "listening", "stopping"}
      /\ transcript \in [SessionKey -> Seq(Req)] /\ usage \in [SessionKey -> Nat] /\ agent \in Req \cup {None}
  BY RequestFacts
<1>2. /\ q.finished => q.at \in {"serve", "closed"}
      /\ q.at = "new" => q = HA!Fresh
      /\ q.kind \in HA!Streams /\ q.status # None => q.at = "closed"
  BY RequestFacts DEF HA!StreamOK
<1>3. ASSUME NEW at \in {"turn", "save", "closed"}, req' = [req EXCEPT ![r] = [q EXCEPT !.at = at]],
             q.at \in {"wait", "turn", "serve"}, q.at = "serve" => at = "closed",
             UNCHANGED <<server, transcript, usage, pushed>>, agent' \in Req \cup {None}
      PROVE  HA!IInv'
  <2> DEFINE d == [q EXCEPT !.at = at]
  <2>1. /\ d \in HA!RequestState /\ d.at = at /\ d.key = q.key /\ d.kind = q.kind
        /\ d.sent = q.sent /\ d.chunks = q.chunks /\ d.finished = q.finished /\ d.status = q.status
    <3>1. q \in HA!RequestState /\ at \in HA!Stage
      BY <1>1, <1>3 DEF HA!Stage
    <3> HIDE DEF q
    <3>2. QED
      BY <3>1, ChangeAt
  <2>2. req' = [req EXCEPT ![r] = d]
    BY <1>3
  <2> HIDE DEF d
  <2>3. /\ d.at \in {"wait", "turn", "save"} => d.key \in SessionKey
        /\ d.finished => d.at \in {"serve", "closed"} /\ d.at # "new"
        /\ d.kind \in HA!Streams => d.status = None
    BY <1>1, <1>2, <1>3, <2>1
  <2>4. d.at # "new"
    BY <1>3, <2>1
  <2>5. QED
    BY <1>1, <1>3, <2>1, <2>2, <2>3, <2>4, QuietStep
<1>4. CASE HA!BeginTurn(r)
  <2>1. /\ q.at = "wait" /\ agent' = r /\ req' = [req EXCEPT ![r] = [q EXCEPT !.at = "turn"]]
        /\ UNCHANGED <<server, transcript, usage, pushed>>
    BY <1>1, <1>4 DEF HA!BeginTurn
  <2>2. QED
    BY <1>3, <2>1
<1>5. CASE HA!EndTurn(r)
  <2>1. /\ q.at = "turn" /\ agent' = None /\ req' = [req EXCEPT ![r] = [q EXCEPT !.at = "save"]]
        /\ UNCHANGED <<server, transcript, usage, pushed>>
    BY <1>1, <1>5 DEF HA!EndTurn
  <2>2. QED
    BY <1>3, <2>1
<1>6. CASE HA!Abandoned(r)
  <2>1. /\ q.at = "serve" /\ req' = [req EXCEPT ![r] = [q EXCEPT !.at = "closed"]]
        /\ UNCHANGED <<server, transcript, usage, agent, pushed>>
    BY <1>1, <1>6 DEF HA!Abandoned
  <2>2. QED
    BY <1>1, <1>3, <2>1
<1>7. CASE HA!Record(r)
  <2> DEFINE d == [q EXCEPT !.calls = q.calls + 1]
  <2>1. /\ q.at = "turn" /\ req' = [req EXCEPT ![r].calls = @ + 1]
        /\ UNCHANGED <<server, transcript, agent, pushed>>
        /\ usage' = IF q.kind \in HA!Chats THEN [usage EXCEPT ![q.key] = @ + 1] ELSE usage
    BY <1>7 DEF HA!Record
  <2>2. q.calls + 1 \in Nat
    BY <1>1 DEF HA!RequestState
  <2>3. /\ d \in HA!RequestState /\ d.key = q.key /\ d.kind = q.kind /\ d.chunks = q.chunks
        /\ d.finished = q.finished /\ d.status = q.status /\ d.at = q.at /\ d.sent = q.sent
    BY <1>1, <2>2, ChangeRest
  <2>4. req' = [req EXCEPT ![r] = d]
    BY <2>1
  <2>5. usage' \in [SessionKey -> Nat]
    BY <1>1, <2>1
  <2> HIDE DEF d
  <2>6. QED
    <3>1. d.at # "new" /\ (d.at \in {"wait", "turn", "save"} => d.key \in SessionKey)
      BY <1>1, <2>1, <2>3
    <3>2. /\ d.finished => d.at \in {"serve", "closed"}
          /\ d.kind \in HA!Streams => d.status = None
      BY <1>2, <2>1, <2>3
    <3>3. /\ d.sent = req[r].sent /\ d.chunks = req[r].chunks /\ d.kind = req[r].kind
          /\ d.finished = req[r].finished /\ d \in HA!RequestState
      BY <2>3
    <3>4. transcript' \in [SessionKey -> Seq(Req)] /\ agent' \in Req \cup {None} /\ UNCHANGED <<server, pushed>>
      BY <1>1, <2>1
    <3> HIDE DEF q
    <3>5. QED
      BY <2>4, <2>5, <3>1, <3>2, <3>3, <3>4, QuietStep
<1>8. CASE HA!ClientGone(r)
  <2> DEFINE d == [q EXCEPT !.open = FALSE]
  <2>1. /\ q.kind \in HA!Streams /\ q.status = None /\ req' = [req EXCEPT ![r] = d]
        /\ UNCHANGED <<server, transcript, usage, agent, pushed>>
    BY <1>8 DEF HA!ClientGone
  <2>2. /\ d \in HA!RequestState /\ d.key = q.key /\ d.kind = q.kind /\ d.chunks = q.chunks
        /\ d.finished = q.finished /\ d.status = q.status /\ d.at = q.at /\ d.sent = q.sent
    BY <1>1, ChangeRest
  <2>3. q.at # "new"
    <3>1. HA!Fresh.kind = None
      BY DEF HA!Fresh
    <3>2. QED
      BY <1>2, <2>1, <3>1, PartNames DEF HA!Streams
  <2> HIDE DEF d
  <2>4. QED
    BY <1>1, <1>2, <2>1, <2>2, <2>3, QuietStep
<1>9. CASE HA!Finish(r)
  <2> DEFINE b == usage[q.key] - q.before
             q1 == [q EXCEPT !.before = b]
  <2>1. /\ q.at = "save" /\ q.kind \notin HA!Streams /\ UNCHANGED <<server, usage, agent, pushed>>
        /\ transcript' = HA!Replied(r)
        /\ req' = [req EXCEPT ![r] = HA!Answer([q EXCEPT !.before = usage[q.key] - q.before], 200)]
    BY <1>9 DEF HA!Finish
  <2>2. b \in Int
    <3>1. q.before \in Int /\ usage[q.key] \in Int
      BY <1>1, <2>1 DEF HA!RequestState
    <3>2. QED
      BY <3>1
  <2>3. /\ q1 \in HA!RequestState /\ q1.key = q.key /\ q1.kind = q.kind /\ q1.sent = q.sent
        /\ q1.chunks = q.chunks /\ q1.finished = q.finished
    BY <1>1, <2>2, ChangeRest
  <2>4. req' = [req EXCEPT ![r] = HA!Answer(q1, 200)]
    BY <2>1
  <2>5. transcript' \in [SessionKey -> Seq(Req)]
    BY <1>1, <2>1 DEF HA!Replied
  <2>6. q1.kind \notin HA!Streams /\ agent' \in Req \cup {None}
    BY <1>1, <2>1, <2>3
  <2> HIDE DEF q1
  <2>7. UNCHANGED <<server, pushed, usage>> /\ 200 \in HA!Status
    BY <2>1 DEF HA!Status
  <2>8. /\ q1.sent = req[r].sent /\ q1.chunks = req[r].chunks /\ q1.kind = req[r].kind
        /\ q1.finished = req[r].finished
    BY <2>3
  <2> HIDE DEF q
  <2>9. QED
    BY <2>3, <2>4, <2>5, <2>6, <2>7, <2>8, AnswerStep
<1>10. CASE HA!TurnFails(r) /\ q.kind = "chatstream"
  <2> DEFINE d1 == [q EXCEPT !.finished = TRUE]
             d2 == [d1 EXCEPT !.at = "serve"]
  <2>1. /\ q.at = "turn" /\ agent' = None /\ UNCHANGED <<server, transcript, usage, pushed>>
        /\ req' = [req EXCEPT ![r].finished = TRUE, ![r].at = "serve"]
    BY <1>10 DEF HA!TurnFails
  <2>2. /\ d1 \in HA!RequestState /\ d1.finished = TRUE /\ d1.kind = q.kind /\ d1.sent = q.sent
        /\ d1.chunks = q.chunks /\ d1.status = q.status
    BY <1>1, ChangeFinished
  <2>3. req' = [req EXCEPT ![r] = d2]
    BY <2>1
  <2> HIDE DEF d1
  <2>4. /\ d2 \in HA!RequestState /\ d2.finished = TRUE /\ d2.at = "serve" /\ d2.kind = q.kind
        /\ d2.sent = q.sent /\ d2.chunks = q.chunks /\ d2.status = q.status
    BY <2>2, ChangeAt DEF HA!Stage
  <2> HIDE DEF d2
  <2>5. d2.kind = "chatstream" /\ d2.status = None
    BY <1>2, <1>10, <2>1, <2>4 DEF HA!Streams
  <2>6. QED
    BY <1>1, <2>1, <2>3, <2>4, <2>5, QuietStep
<1>11. CASE HA!TurnFails(r) /\ q.kind \notin HA!Streams
  <2>1. /\ agent' = None /\ UNCHANGED <<server, transcript, usage, pushed>>
        /\ req' = [req EXCEPT ![r] = HA!Answer(q, 500)]
    BY <1>11 DEF HA!TurnFails, HA!Streams
  <2>2. req' = [req EXCEPT ![r] = HA!Answer(q, 500)]
    BY <2>1
  <2>3. transcript' \in [SessionKey -> Seq(Req)] /\ agent' \in Req \cup {None}
    BY <1>1, <2>1
  <2>4. q \in HA!RequestState /\ q.kind \notin HA!Streams
    BY <1>1, <1>11
  <2>5. /\ 500 \in HA!Status /\ q.sent = req[r].sent /\ q.chunks = req[r].chunks /\ q.kind = req[r].kind
        /\ q.finished = req[r].finished
    BY DEF HA!Status
  <2>6. UNCHANGED <<server, pushed, usage>>
    BY <2>1
  <2>7. PICK d \in HA!RequestState, status \in HA!Status : d = q /\ status = 500
    BY <2>4, <2>5
  <2>8. /\ d.kind = req[r].kind /\ d.sent = req[r].sent /\ d.chunks = req[r].chunks
        /\ d.finished = req[r].finished /\ d.kind \notin HA!Streams
    BY <2>4, <2>5, <2>7
  <2>9. req' = [req EXCEPT ![r] = HA!Answer(d, status)]
    BY <2>2, <2>7
  <2> HIDE DEF q
  <2>10. QED
    BY <2>3, <2>6, <2>8, <2>9, AnswerStep
<1>12. QED
  BY <1>4, <1>5, <1>6, <1>7, <1>8, <1>9, <1>10, <1>11 DEF HA!Streams

-----------------------------------------------------------------------------
\* The steps that fill and empty the queue of a stream.
Pushed(q, e, finished, at) ==
  [q EXCEPT !.chunks = Append(@, e), !.finished = finished, !.at = at]
Drained(q, status, at) ==
  [q EXCEPT !.sent = @ \o q.chunks, !.chunks = <<>>, !.status = status, !.at = at]

LEMMA PushedFacts ==
    ASSUME NEW q \in HA!RequestState, NEW e \in HA!Event, NEW finished \in BOOLEAN, NEW at \in HA!Stage
    PROVE  LET d == Pushed(q, e, finished, at)
           IN  /\ d \in HA!RequestState /\ d.chunks = Append(q.chunks, e)
               /\ d.finished = finished /\ d.at = at
               /\ d.sent = q.sent /\ d.key = q.key /\ d.kind = q.kind /\ d.status = q.status
<1> DEFINE c == Append(q.chunks, e)
           d1 == [q EXCEPT !.chunks = c]
           d2 == [d1 EXCEPT !.finished = finished]
           d3 == [d2 EXCEPT !.at = at]
<1>1. c \in Seq(HA!Event)
  BY DEF HA!RequestState
<1>2. Pushed(q, e, finished, at) = d3
  BY DEF Pushed
<1> HIDE DEF c
<1>3. /\ d1 \in HA!RequestState /\ d1.chunks = c
      /\ d1.sent = q.sent /\ d1.key = q.key /\ d1.kind = q.kind /\ d1.status = q.status
  BY <1>1, ChangeChunks
<1> HIDE DEF d1
<1>4. /\ d2 \in HA!RequestState /\ d2.chunks = c /\ d2.finished = finished
      /\ d2.sent = q.sent /\ d2.key = q.key /\ d2.kind = q.kind /\ d2.status = q.status
  BY <1>3, ChangeFinished
<1> HIDE DEF d2
<1>5. d3 \in HA!RequestState /\ d3.at = at
  BY <1>4, ChangeAt
<1>6. /\ d3.chunks = c /\ d3.finished = finished
      /\ d3.sent = q.sent /\ d3.key = q.key /\ d3.kind = q.kind /\ d3.status = q.status
  BY <1>4 DEF HA!RequestState
<1> HIDE DEF d3
<1>7. QED
  BY <1>2, <1>5, <1>6 DEF c

LEMMA DrainedFacts ==
    ASSUME NEW q \in HA!RequestState, NEW status \in HA!Status, NEW at \in HA!Stage
    PROVE  LET d == Drained(q, status, at)
           IN  /\ d \in HA!RequestState /\ d.sent = q.sent \o q.chunks /\ d.chunks = <<>>
               /\ d.status = status /\ d.at = at
               /\ d.finished = q.finished /\ d.key = q.key /\ d.kind = q.kind
<1> DEFINE c == q.sent \o q.chunks
           d1 == [q EXCEPT !.sent = c]
           d2 == [d1 EXCEPT !.chunks = <<>>]
           d3 == [d2 EXCEPT !.status = status]
           d4 == [d3 EXCEPT !.at = at]
<1>1. c \in Seq(HA!Event) /\ <<>> \in Seq(HA!Event)
  BY ConcatProperties DEF HA!RequestState
<1>2. Drained(q, status, at) = d4
  BY DEF Drained
<1> HIDE DEF c
<1>3. /\ d1 \in HA!RequestState /\ d1.sent = c
      /\ d1.finished = q.finished /\ d1.key = q.key /\ d1.kind = q.kind
  BY <1>1, ChangeSent
<1> HIDE DEF d1
<1>4. /\ d2 \in HA!RequestState /\ d2.sent = c /\ d2.chunks = <<>>
      /\ d2.finished = q.finished /\ d2.key = q.key /\ d2.kind = q.kind
  BY <1>1, <1>3, ChangeChunks
<1> HIDE DEF d2
<1>5. /\ d3 \in HA!RequestState /\ d3.sent = c /\ d3.chunks = <<>> /\ d3.status = status
      /\ d3.finished = q.finished /\ d3.key = q.key /\ d3.kind = q.kind
  BY <1>4, ChangeStatus
<1> HIDE DEF d3
<1>6. d4 \in HA!RequestState /\ d4.at = at
  BY <1>5, ChangeAt
<1>7. /\ d4.sent = c /\ d4.chunks = <<>> /\ d4.status = status
      /\ d4.finished = q.finished /\ d4.key = q.key /\ d4.kind = q.kind
  BY <1>5 DEF HA!RequestState
<1> HIDE DEF d4
<1>8. QED
  BY <1>2, <1>6, <1>7 DEF c

LEMMA PushStep ==
    ASSUME HA!IInv, NEW r \in Req, NEW e \in HA!Event, NEW finished \in BOOLEAN,
           HA!Push(r, e, finished), req[r].at \in {"turn", "save"},
           finished => e \in HA!Terminal, ~finished => req[r].at = "turn",
           req[r].kind \in HA!Streams, UNCHANGED <<server, usage>>,
           transcript' \in [SessionKey -> Seq(Req)], agent' \in Req \cup {None}
    PROVE  HA!IInv'
<1> DEFINE q == req[r]
           at == IF finished THEN "serve" ELSE q.at
           d == Pushed(q, e, finished, at)
           p == Append(pushed[r], e)
<1>1. /\ q \in HA!RequestState /\ pushed[r] \in Seq(HA!Event) /\ pushed[r] = q.sent \o q.chunks
      /\ q.at \in {"wait", "turn", "save"} => q.key \in SessionKey
      /\ server \in {"off", "starting", "listening", "stopping"} /\ usage \in [SessionKey -> Nat]
      /\ q.status = None
  BY RequestFacts DEF HA!StreamOK
<1>2. req' = [req EXCEPT ![r] = d] /\ pushed' = [pushed EXCEPT ![r] = p]
  BY DEF HA!Push, Pushed
<1>3. at \in HA!Stage /\ at # "new" /\ (finished => at = "serve") /\ (at # "serve" => at = q.at)
  BY DEF HA!Stage
<1>4. /\ d \in HA!RequestState /\ d.chunks = Append(q.chunks, e) /\ d.finished = finished
      /\ d.at = at /\ d.sent = q.sent /\ d.key = q.key /\ d.kind = q.kind /\ d.status = q.status
  <2> HIDE DEF q, at
  <2>1. QED
    BY <1>1, <1>3, PushedFacts
<1>5. p = d.sent \o d.chunks
  <2>1. q.sent \in Seq(HA!Event) /\ q.chunks \in Seq(HA!Event)
    BY <1>1 DEF HA!RequestState
  <2>2. Append(q.sent \o q.chunks, e) = q.sent \o Append(q.chunks, e)
    <3> HIDE DEF q
    <3>1. QED
      BY <2>1, EventAdded
  <2> HIDE DEF q, d
  <2>3. QED
    BY <1>1, <1>4, <2>2
<1>6. p \in Seq(HA!Event) /\ p # <<>> /\ p[Len(p)] = e
  BY <1>1, EventAdded
<1>7. server' \in {"off", "starting", "listening", "stopping"} /\ usage' \in [SessionKey -> Nat]
  BY <1>1
<1>8. d.at \in {"wait", "turn", "save"} => d.key \in SessionKey
  <2> HIDE DEF q, at, d
  <2>1. QED
    BY <1>1, <1>3, <1>4
<1> HIDE DEF at, d, p, q
<1>9. HA!StreamOK(d, p)
  BY <1>1, <1>3, <1>4, <1>5, <1>6 DEF HA!StreamOK
<1>10. QED
  BY <1>2, <1>4, <1>6, <1>7, <1>8, <1>9, OneRequest

LEMMA PushSteps ==
    ASSUME HA!IInv, NEW r \in Req,
           \/ HA!OnEvent(r) \/ HA!FinishStream(r)
           \/ HA!TurnFails(r) /\ req[r].kind = "stream"
    PROVE  HA!IInv'
<1>1. {"event", "done", "error"} \subseteq HA!Event /\ {"done", "error"} \subseteq HA!Terminal
  BY DEF HA!Event, HA!Terminal
<1>2. /\ transcript \in [SessionKey -> Seq(Req)] /\ agent \in Req \cup {None}
      /\ req[r].at \in {"wait", "turn", "save"} => req[r].key \in SessionKey
  BY RequestFacts
<1>3. CASE HA!OnEvent(r)
  <2>1. /\ HA!Push(r, "event", FALSE) /\ req[r].at = "turn" /\ req[r].kind \in HA!Streams
        /\ UNCHANGED <<server, transcript, usage, agent>>
    BY <1>3 DEF HA!OnEvent
  <2>2. QED
    BY <1>1, <1>2, <2>1, PushStep
<1>4. CASE HA!FinishStream(r)
  <2>1. /\ HA!Push(r, "done", TRUE) /\ req[r].at = "save" /\ req[r].kind \in HA!Streams
        /\ UNCHANGED <<server, usage, agent>> /\ transcript' = HA!Replied(r)
    BY <1>4 DEF HA!FinishStream
  <2>2. transcript' \in [SessionKey -> Seq(Req)]
    BY <1>2, <2>1 DEF HA!Replied
  <2>3. QED
    BY <1>1, <1>2, <2>1, <2>2, PushStep
<1>5. CASE HA!TurnFails(r) /\ req[r].kind = "stream"
  <2>1. /\ HA!Push(r, "error", TRUE) /\ req[r].at = "turn" /\ agent' = None
        /\ UNCHANGED <<server, transcript, usage>>
    BY <1>5 DEF HA!TurnFails
  <2>2. req[r].kind \in HA!Streams
    BY <1>5 DEF HA!Streams
  <2>3. QED
    BY <1>1, <1>2, <2>1, <2>2, PushStep
<1>6. QED
  BY <1>3, <1>4, <1>5

\* The content provider takes the whole queue, and ends the response only when
\* it took it after the flag was set.
LEMMA ContentProviderStep ==
    ASSUME HA!IInv, NEW r \in Req, HA!ContentProvider(r)
    PROVE  HA!IInv'
<1> DEFINE q == req[r]
           status == IF q.finished THEN 200 ELSE None
           at == IF q.finished /\ q.at = "serve" THEN "closed" ELSE q.at
           d == Drained(q, status, at)
<1>1. /\ q \in HA!RequestState /\ pushed[r] \in Seq(HA!Event) /\ pushed[r] = q.sent \o q.chunks
      /\ q.at \in {"wait", "turn", "save"} => q.key \in SessionKey
      /\ q.finished => q.at \in {"serve", "closed"}
      /\ q.at = "new" => q = HA!Fresh
      /\ q.kind = "stream" /\ q.finished =>
           pushed[r] # <<>> /\ pushed[r][Len(pushed[r])] \in HA!Terminal
  BY RequestFacts DEF HA!StreamOK
<1>2. /\ q.kind \in HA!Streams /\ req' = [req EXCEPT ![r] = d]
      /\ UNCHANGED <<server, transcript, usage, agent, pushed>>
  BY DEF HA!ContentProvider, Drained
<1>3. q.at # "new"
  <2>1. HA!Fresh.kind = None
    BY DEF HA!Fresh
  <2>2. QED
    BY <1>1, <1>2, <2>1, PartNames DEF HA!Streams
<1>4. status \in HA!Status /\ (~q.finished => status = None)
  BY DEF HA!Status
<1>5. /\ at \in HA!Stage /\ at # "new" /\ (q.finished => at = "closed")
      /\ at # "closed" => at = q.at
  BY <1>1, <1>3 DEF HA!Stage, HA!RequestState
<1>6. /\ d \in HA!RequestState /\ d.sent = q.sent \o q.chunks /\ d.chunks = <<>>
      /\ d.status = status /\ d.at = at
      /\ d.finished = q.finished /\ d.key = q.key /\ d.kind = q.kind
  <2> HIDE DEF q, status, at
  <2>1. QED
    BY <1>1, <1>4, <1>5, DrainedFacts
<1>7. pushed[r] = d.sent \o d.chunks
  <2> HIDE DEF q, d
  <2>1. pushed[r] \o <<>> = pushed[r]
    BY <1>1, ConcatEmptySeq
  <2>2. QED
    BY <1>1, <1>6, <2>1
<1> HIDE DEF status, at, d, q
<1>8. d.at \in {"wait", "turn", "save"} => d.key \in SessionKey
  BY <1>1, <1>5, <1>6
<1>9. HA!StreamOK(d, pushed[r])
  BY <1>1, <1>3, <1>4, <1>5, <1>6, <1>7 DEF HA!StreamOK
<1>10. /\ pushed' = [pushed EXCEPT ![r] = pushed[r]]
       /\ server' \in {"off", "starting", "listening", "stopping"}
       /\ transcript' \in [SessionKey -> Seq(Req)] /\ usage' \in [SessionKey -> Nat] /\ agent' \in Req \cup {None}
  BY <1>2, RequestFacts
<1>11. QED
  BY <1>1, <1>2, <1>6, <1>8, <1>9, <1>10, OneRequest

LEMMA HttpKeeps ==
    ASSUME HA!IInv, HA!Next \/ UNCHANGED httpVars
    PROVE  HA!IInv'
<1>1. /\ req \in [Req -> HA!RequestState] /\ pushed \in [Req -> Seq(HA!Event)]
      /\ server \in {"off", "starting", "listening", "stopping"}
      /\ transcript \in [SessionKey -> Seq(Req)] /\ usage \in [SessionKey -> Nat] /\ agent \in Req \cup {None}
  BY DEF HA!IInv, HA!TypeOK
<1>2. CASE /\ UNCHANGED <<req, pushed, usage, agent>> /\ transcript' \in [SessionKey -> Seq(Req)]
           /\ server' \in {"off", "starting", "listening", "stopping"}
  <2>1. HA!RequestState' = HA!RequestState /\ HA!Event' = HA!Event
    BY DEF HA!RequestState, HA!Stage, HA!Status, HA!Event
  <2>2. HA!TypeOK'
    BY <1>2, <2>1 DEF HA!IInv, HA!TypeOK
  <2>3. \A r \in Req : HA!StreamOK(req[r], pushed[r])
    BY DEF HA!IInv
  <2>4. HA!Fresh' = HA!Fresh /\ HA!Terminal' = HA!Terminal /\ HA!Streams' = HA!Streams
    BY DEF HA!Fresh, HA!Terminal, HA!Streams
  <2>5. \A r \in Req : HA!StreamOK(req[r], pushed[r])'
    BY <1>2, <2>3, <2>4 DEF HA!StreamOK
  <2>6. QED
    BY <2>2, <2>5 DEF HA!IInv
<1>3. CASE HA!Start \/ HA!server_loop \/ HA!Stop \/ HA!Stopped
  <2>1. /\ UNCHANGED <<req, transcript, usage, agent, pushed>>
        /\ server' \in {"off", "starting", "listening", "stopping"}
    BY <1>3 DEF HA!Start, HA!server_loop, HA!Stop, HA!Stopped
  <2>2. QED
    BY <1>1, <1>2, <2>1
<1>4. CASE \E k \in SessionKey : HA!ResetSession(k)
  <2>1. PICK k \in SessionKey : transcript' = [transcript EXCEPT ![k] = <<>>]
    BY <1>4 DEF HA!ResetSession
  <2>2. UNCHANGED <<server, req, usage, agent, pushed>>
    BY <1>4 DEF HA!ResetSession
  <2>3. <<>> \in Seq(Req)
    OBVIOUS
  <2>4. transcript' \in [SessionKey -> Seq(Req)]
    BY <1>1, <2>1, <2>3
  <2>5. QED
    BY <1>1, <1>2, <2>2, <2>4
<1>5. CASE UNCHANGED httpVars
  BY <1>1, <1>2, <1>5 DEF httpVars
<1>6. ASSUME NEW r \in Req,
             \/ \E k \in SessionKey : \/ HA!AgentRequest(r, k) \/ HA!AgentStream(r, k)
                               \/ HA!ChannelMessage(r, k) \/ HA!ChatCompletions(r, k)
             \/ HA!Unauthorized(r) \/ HA!BadRequest(r) \/ HA!RequestStep(r) \/ HA!ClientGone(r)
      PROVE  HA!IInv'
  <2>1. \/ HA!Unauthorized(r) \/ HA!BadRequest(r)
        \/ \E k \in SessionKey : \/ HA!AgentRequest(r, k) \/ HA!AgentStream(r, k)
                          \/ HA!ChannelMessage(r, k) \/ HA!ChatCompletions(r, k)
        \/ HA!BeginTurn(r) \/ HA!Record(r) \/ HA!EndTurn(r) \/ HA!Finish(r)
        \/ HA!Abandoned(r) \/ HA!ClientGone(r)
        \/ HA!TurnFails(r) /\ req[r].kind # "stream"
        \/ HA!OnEvent(r) \/ HA!FinishStream(r)
        \/ HA!TurnFails(r) /\ req[r].kind = "stream"
        \/ HA!ContentProvider(r)
    BY <1>6 DEF HA!RequestStep
  <2>2. QED
    BY <2>1, AcceptSteps, QuietSteps, PushSteps, ContentProviderStep
<1>7. QED
  BY <1>3, <1>4, <1>5, <1>6 DEF HA!Next

-----------------------------------------------------------------------------
(* Browser *)

\* Closing an object ends its process and keeps its calls.
LEMMA ClosedFields ==
    ASSUME NEW r \in B!BrowserState
    PROVE  /\ B!Closed(r) \in B!BrowserState /\ B!Closed(r).process = FALSE
           /\ B!Closed(r).waiting = r.waiting /\ B!Closed(r).stored = r.stored
  BY DEF B!BrowserState, B!Closed

LEMMA BrowserTypes ==
    ASSUME B!IInv
    PROVE  /\ sessions \in [SessionId -> B!Obj \cup {None}]
           /\ object \in [B!Obj -> B!BrowserState]
           /\ who \in [BrowserCaller -> B!CallerState]
           /\ cleaner \in [ids : SUBSET SessionId, obj : B!Obj \cup {None}]
           /\ made \in 0 .. MaxObjects /\ sent \in 0 .. MaxBrowserCalls
           /\ answer \in {"none", "success", "error"}
           /\ None \notin B!Obj /\ None \notin B!Call
           /\ \A c \in BrowserCaller : who[c] \in B!CallerState /\ B!Holds(who[c])
           /\ \A o \in B!Obj : /\ object[o] \in B!BrowserState
                               /\ object[o].waiting \subseteq B!Call
                               /\ object[o].stored \subseteq B!Call
<1>1. None \notin B!Obj /\ None \notin B!Call
  BY PartNames, PartBounds DEF B!Obj, B!Call
<1>2. QED
  BY <1>1 DEF B!IInv, B!TypeOK, B!BrowserState

LEMMA BrowserInit ==
    ASSUME B!Init
    PROVE  B!IInv
<1>1. /\ B!Unused \in B!BrowserState /\ B!Unused.process = FALSE
      /\ B!Unused.waiting = {} /\ B!Unused.stored = {}
  BY DEF B!Unused, B!BrowserState
<1>2. B!Free \in B!CallerState /\ B!Free.at = "free"
  BY DEF B!Free, B!CallerState
<1>3. 0 \in 0 .. MaxObjects /\ 0 \in 0 .. MaxBrowserCalls
  BY PartBounds
<1>4. B!TypeOK
  BY <1>1, <1>2, <1>3 DEF B!Init, B!TypeOK
<1>5. B!NoBrowserLeftBehind /\ B!AnswersAwaited
  BY <1>1 DEF B!Init, B!NoBrowserLeftBehind, B!AnswersAwaited
<1>6. \A c \in BrowserCaller : B!Holds(who[c])
  BY <1>2 DEF B!Init, B!Holds
<1>7. QED
  BY <1>4, <1>5, <1>6 DEF B!IInv

\* What the destructor leaves of an object.
LEMMA ReleasedOne ==
    ASSUME NEW objs \in [B!Obj -> B!BrowserState], NEW tab, NEW callers, NEW closer,
           NEW o \in B!Obj, NEW r, r = B!Released(objs, tab, callers, closer)[o]
    PROVE  /\ r \in B!BrowserState
           /\ r.waiting = objs[o].waiting /\ r.stored = objs[o].stored
           /\ r.process => \/ \E i \in SessionId : tab[i] = o
                           \/ \E c \in BrowserCaller : callers[c].obj = o
                           \/ closer = o
  BY ClosedFields DEF B!Released

\* The step of a caller: its object and identifier are known while it works,
\* and the calls of the objects are still somebody's.
LEMMA CallerActs ==
    ASSUME B!IInv, NEW c \in BrowserCaller,
           NEW tab \in [SessionId -> B!Obj \cup {None}],
           NEW objs \in [B!Obj -> B!BrowserState],
           NEW w \in B!CallerState, B!Holds(w),
           B!Step(c, tab, objs, w),
           made' \in 0 .. MaxObjects, sent' \in 0 .. MaxBrowserCalls,
           answer' \in {"none", "success", "error"},
           \A o \in B!Obj : \A n \in objs[o].stored \cup objs[o].waiting :
             \/ w.at = "call" /\ w.obj = o /\ w.call = n
             \/ \E d \in BrowserCaller :
                  d # c /\ who[d].at = "call" /\ who[d].obj = o /\ who[d].call = n
    PROVE  B!IInv'
<1>1. /\ sessions' = tab /\ cleaner' = cleaner
      /\ who' = [who EXCEPT ![c] = w]
      /\ object' = B!Released(objs, sessions', who', cleaner.obj)
  BY DEF B!Step
<1>2. /\ who' \in [BrowserCaller -> B!CallerState]
      /\ \A d \in BrowserCaller : who'[d] = IF d = c THEN w ELSE who[d]
  BY <1>1, BrowserTypes
<1>3. /\ object' \in [B!Obj -> B!BrowserState]
      /\ \A o \in B!Obj :
           /\ object'[o].waiting = objs[o].waiting /\ object'[o].stored = objs[o].stored
           /\ object'[o].process => \/ \E i \in SessionId : sessions'[i] = o
                                    \/ \E d \in BrowserCaller : who'[d].obj = o
                                    \/ cleaner.obj = o
  <2>1. ASSUME NEW o \in B!Obj
        PROVE  /\ object'[o] \in B!BrowserState
               /\ object'[o].waiting = objs[o].waiting /\ object'[o].stored = objs[o].stored
               /\ object'[o].process => \/ \E i \in SessionId : sessions'[i] = o
                                        \/ \E d \in BrowserCaller : who'[d].obj = o
                                        \/ cleaner.obj = o
    <3>1. PICK callers, closer, r : callers = who' /\ closer = cleaner.obj /\ r = object'[o]
      OBVIOUS
    <3>2. r = B!Released(objs, tab, callers, closer)[o]
      BY <1>1, <3>1
    <3>3. /\ r \in B!BrowserState
          /\ r.waiting = objs[o].waiting /\ r.stored = objs[o].stored
          /\ r.process => \/ \E i \in SessionId : tab[i] = o
                          \/ \E d \in BrowserCaller : callers[d].obj = o
                          \/ closer = o
      BY <3>2, ReleasedOne
    <3>4. QED
      BY <1>1, <3>1, <3>3
  <2>2. object' = [o \in B!Obj |-> object'[o]]
    BY <1>1 DEF B!Released
  <2>3. QED
    BY <2>1, <2>2
<1>4. B!TypeOK'
  BY <1>1, <1>2, <1>3, BrowserTypes DEF B!TypeOK
<1>5. B!NoBrowserLeftBehind'
  BY <1>1, <1>3 DEF B!NoBrowserLeftBehind
<1>6. B!AnswersAwaited'
  <2>1. ASSUME NEW o \in B!Obj, NEW n \in object'[o].stored \cup object'[o].waiting
        PROVE  \E d \in BrowserCaller : who'[d].at = "call" /\ who'[d].obj = o /\ who'[d].call = n
    <3>1. n \in objs[o].stored \cup objs[o].waiting
      BY <1>3, <2>1
    <3>2. CASE w.at = "call" /\ w.obj = o /\ w.call = n
      BY <1>2, <3>2
    <3>3. CASE \E d \in BrowserCaller :
                 d # c /\ who[d].at = "call" /\ who[d].obj = o /\ who[d].call = n
      BY <1>2, <3>3
    <3>4. QED
      BY <3>1, <3>2, <3>3
  <2>2. QED
    BY <2>1 DEF B!AnswersAwaited
<1>7. \A d \in BrowserCaller : B!Holds(who'[d])
  BY <1>2, BrowserTypes
<1>8. QED
  BY <1>4, <1>5, <1>6, <1>7 DEF B!IInv

\* ... which is so if the caller was in no call and the objects keep theirs.
LEMMA CallsStay ==
    ASSUME B!IInv, NEW c \in BrowserCaller, who[c].at # "call",
           NEW o \in B!Obj, NEW n \in object[o].stored \cup object[o].waiting
    PROVE  \E d \in BrowserCaller :
             d # c /\ who[d].at = "call" /\ who[d].obj = o /\ who[d].call = n
  BY DEF B!IInv, B!AnswersAwaited

LEMMA OutsideCalls ==
    ASSUME B!IInv, NEW c \in BrowserCaller, who[c].at # "call",
           NEW tab \in [SessionId -> B!Obj \cup {None}],
           NEW objs \in [B!Obj -> B!BrowserState],
           NEW w \in B!CallerState, B!Holds(w),
           B!Step(c, tab, objs, w),
           made' \in 0 .. MaxObjects, UNCHANGED <<sent, answer>>,
           \A o \in B!Obj : objs[o].stored = object[o].stored /\ objs[o].waiting = object[o].waiting
    PROVE  B!IInv'
<1>1. sent' \in 0 .. MaxBrowserCalls /\ answer' \in {"none", "success", "error"}
  BY BrowserTypes
<1>2. ASSUME NEW o \in B!Obj, NEW n \in objs[o].stored \cup objs[o].waiting
      PROVE  \E d \in BrowserCaller :
               d # c /\ who[d].at = "call" /\ who[d].obj = o /\ who[d].call = n
  BY <1>2, CallsStay
<1>3. QED
  BY <1>1, <1>2, CallerActs

\* Steps of a caller that leave the objects as they are.
LEMMA TableSteps ==
    ASSUME B!IInv, NEW c \in BrowserCaller,
           \/ \E i \in SessionId : B!create_session(c, i) \/ B!close_session(c, i)
           \/ B!initialize_fails(c) \/ B!publish(c) \/ B!release(c)
    PROVE  B!IInv'
<1> DEFINE w(o, i) == [B!Free EXCEPT !.at = "launch", !.obj = o, !.id = i]
           h(at, o) == [B!Free EXCEPT !.at = at, !.obj = o]
<1>1. ASSUME NEW o \in B!Obj, NEW i \in SessionId
      PROVE  w(o, i) \in B!CallerState /\ B!Holds(w(o, i))
  BY DEF B!Free, B!CallerState, B!Holds
<1>2. B!Free \in B!CallerState /\ B!Holds(B!Free)
  BY DEF B!Free, B!CallerState, B!Holds
<1>3. ASSUME NEW at \in {"hold", "close"}, NEW o \in B!Obj
      PROVE  h(at, o) \in B!CallerState /\ B!Holds(h(at, o))
  BY DEF B!Free, B!CallerState, B!Holds
<1>4. /\ sessions \in [SessionId -> B!Obj \cup {None}] /\ object \in [B!Obj -> B!BrowserState]
      /\ made \in 0 .. MaxObjects /\ who[c] \in B!CallerState /\ B!Holds(who[c])
  BY BrowserTypes
<1> HIDE DEF w, h
<1>5. ASSUME NEW i \in SessionId, B!create_session(c, i)
      PROVE  B!IInv'
  <2>1. made' \in B!Obj /\ made' \in 0 .. MaxObjects
    <3>1. made < MaxObjects /\ made' = made + 1
      BY <1>5 DEF B!create_session
    <3>2. QED
      BY <1>4, <3>1, PartBounds DEF B!Obj
  <2>2. PICK v : v = w(made', i)
    OBVIOUS
  <2>3. v \in B!CallerState /\ B!Holds(v)
    BY <1>1, <2>1, <2>2
  <2>4. B!Step(c, sessions, object, v) /\ who[c].at # "call" /\ UNCHANGED <<sent, answer>>
    BY <1>5, <2>2 DEF B!create_session, w
  <2>5. QED
    BY <1>4, <2>1, <2>3, <2>4, OutsideCalls
<1>6. ASSUME NEW i \in SessionId, B!close_session(c, i)
      PROVE  B!IInv'
  <2>1. sessions[i] \in B!Obj
    BY <1>4, <1>6 DEF B!close_session
  <2>2. PICK v : v = h("close", sessions[i])
    OBVIOUS
  <2>3. v \in B!CallerState /\ B!Holds(v)
    BY <1>3, <2>1, <2>2
  <2>4. /\ B!Step(c, [sessions EXCEPT ![i] = None], object, v)
        /\ who[c].at # "call" /\ UNCHANGED <<made, sent, answer>>
    BY <1>6, <2>2 DEF B!close_session, h
  <2>5. PICK tab : tab = [sessions EXCEPT ![i] = None]
    OBVIOUS
  <2>6. tab \in [SessionId -> B!Obj \cup {None}] /\ B!Step(c, tab, object, v)
    BY <1>4, <2>4, <2>5
  <2>7. QED
    BY <1>4, <2>3, <2>4, <2>6, OutsideCalls
<1>7. CASE B!publish(c)
  <2>1. who[c].obj \in B!Obj /\ who[c].id \in SessionId
    BY <1>4, <1>7 DEF B!publish, B!Holds
  <2>2. PICK v : v = h("hold", who[c].obj)
    OBVIOUS
  <2>3. v \in B!CallerState /\ B!Holds(v)
    BY <1>3, <2>1, <2>2
  <2>4. PICK tab : tab = [sessions EXCEPT ![who[c].id] = who[c].obj]
    OBVIOUS
  <2>5. /\ tab \in [SessionId -> B!Obj \cup {None}] /\ B!Step(c, tab, object, v)
        /\ who[c].at # "call" /\ UNCHANGED <<made, sent, answer>>
    BY <1>4, <1>7, <2>1, <2>2, <2>4 DEF B!publish, h
  <2>6. QED
    BY <1>4, <2>3, <2>5, OutsideCalls
<1>8. CASE B!initialize_fails(c) \/ B!release(c)
  <2>1. /\ B!Step(c, sessions, object, B!Free) /\ who[c].at # "call"
        /\ UNCHANGED <<made, sent, answer>>
    BY <1>8 DEF B!initialize_fails, B!release
  <2>2. QED
    BY <1>2, <1>4, <2>1, OutsideCalls
<1>9. QED
  BY <1>5, <1>6, <1>7, <1>8

\* Steps of a caller that change an object, but none of its calls.
LEMMA ObjectSteps ==
    ASSUME B!IInv, NEW c \in BrowserCaller,
           \/ B!get_or_create_default(c) \/ \E i \in SessionId : B!get_session(c, i)
           \/ B!launch_local(c) \/ B!connect_remote(c) \/ B!close(c) \/ B!close_all_sessions(c)
    PROVE  B!IInv'
<1>1. /\ sessions \in [SessionId -> B!Obj \cup {None}] /\ object \in [B!Obj -> B!BrowserState]
      /\ made \in 0 .. MaxObjects /\ who[c] \in B!CallerState /\ B!Holds(who[c])
  BY BrowserTypes
<1>2. ASSUME NEW o \in B!Obj
      PROVE  /\ [B!Free EXCEPT !.at = "hold", !.obj = o] \in B!CallerState
             /\ B!Holds([B!Free EXCEPT !.at = "hold", !.obj = o])
  BY DEF B!Free, B!CallerState, B!Holds
<1>3. B!Free \in B!CallerState /\ B!Holds(B!Free)
  BY DEF B!Free, B!CallerState, B!Holds
<1>4. \* An object is fetched.
      ASSUME NEW o \in B!Obj, who[c].at = "free", UNCHANGED <<made, sent, answer>>,
             B!Step(c, sessions, B!Used(o), [B!Free EXCEPT !.at = "hold", !.obj = o])
      PROVE  B!IInv'
  <2>1. PICK objs, w : objs = B!Used(o) /\ w = [B!Free EXCEPT !.at = "hold", !.obj = o]
    OBVIOUS
  <2>2. /\ objs \in [B!Obj -> B!BrowserState]
        /\ \A p \in B!Obj : objs[p].stored = object[p].stored /\ objs[p].waiting = object[p].waiting
    <3>1. /\ [object[o] EXCEPT !.idle = FALSE] \in B!BrowserState
          /\ [object[o] EXCEPT !.idle = FALSE].stored = object[o].stored
          /\ [object[o] EXCEPT !.idle = FALSE].waiting = object[o].waiting
      BY <1>1 DEF B!BrowserState
    <3>2. objs = [object EXCEPT ![o] = [object[o] EXCEPT !.idle = FALSE]]
      BY <2>1 DEF B!Used
    <3>3. QED
      BY <1>1, <3>1, <3>2
  <2>3. w \in B!CallerState /\ B!Holds(w)
    BY <1>2, <2>1
  <2>4. B!Step(c, sessions, objs, w)
    BY <1>4, <2>1
  <2>5. QED
    BY <1>1, <1>4, <2>2, <2>3, <2>4, OutsideCalls
<1>5. CASE B!get_or_create_default(c)
  <2>1. sessions["default"] \in B!Obj
    BY <1>1, <1>5, PartNames DEF B!get_or_create_default
  <2>2. QED
    BY <1>4, <1>5, <2>1 DEF B!get_or_create_default
<1>6. ASSUME NEW i \in SessionId, B!get_session(c, i)
      PROVE  B!IInv'
  <2>1. sessions[i] \in B!Obj
    BY <1>1, <1>6 DEF B!get_session
  <2>2. QED
    BY <1>4, <1>6, <2>1 DEF B!get_session
<1>7. ASSUME NEW process \in BOOLEAN, B!initialize(c, process)
      PROVE  B!IInv'
  <2> DEFINE r == [object[who[c].obj] EXCEPT !.process = process, !.connected = TRUE,
                                             !.socket = TRUE]
             v == [who[c] EXCEPT !.at = "publish"]
  <2>1. who[c].obj \in B!Obj
    BY <1>1, <1>7 DEF B!initialize, B!Holds
  <2>2. /\ r \in B!BrowserState /\ r.stored = object[who[c].obj].stored
        /\ r.waiting = object[who[c].obj].waiting
    BY <1>1, <2>1 DEF B!BrowserState
  <2>3. v \in B!CallerState /\ B!Holds(v)
    BY <1>1, <1>7 DEF B!CallerState, B!Holds, B!initialize
  <2>4. PICK objs, w : objs = [object EXCEPT ![who[c].obj] = r] /\ w = v
    OBVIOUS
  <2>5. B!Step(c, sessions, objs, w) /\ who[c].at # "call" /\ UNCHANGED <<made, sent, answer>>
    BY <1>7, <2>4 DEF B!initialize
  <2> HIDE DEF r, v
  <2>6. /\ objs \in [B!Obj -> B!BrowserState]
        /\ \A p \in B!Obj : objs[p].stored = object[p].stored /\ objs[p].waiting = object[p].waiting
    BY <1>1, <2>1, <2>2, <2>4
  <2>7. QED
    BY <1>1, <2>3, <2>4, <2>5, <2>6, OutsideCalls
<1>8. CASE B!close(c)
  <2>1. who[c].obj \in B!Obj
    BY <1>1, <1>8 DEF B!close, B!Holds
  <2>2. PICK objs : objs = [object EXCEPT ![who[c].obj] = B!Closed(object[who[c].obj])]
    OBVIOUS
  <2>3. B!Step(c, sessions, objs, B!Free) /\ who[c].at # "call" /\ UNCHANGED <<made, sent, answer>>
    BY <1>8, <2>2 DEF B!close
  <2>4. /\ objs \in [B!Obj -> B!BrowserState]
        /\ \A p \in B!Obj : objs[p].stored = object[p].stored /\ objs[p].waiting = object[p].waiting
    BY <1>1, <2>1, <2>2, ClosedFields
  <2>5. QED
    BY <1>1, <1>3, <2>3, <2>4, OutsideCalls
<1>9. CASE B!close_all_sessions(c)
  <2> DEFINE closing == {sessions[i] : i \in SessionId} \ {None}
  <2>1. PICK objs, tab, w :
          /\ objs = [o \in B!Obj |-> IF o \in closing THEN B!Closed(object[o]) ELSE object[o]]
          /\ tab = [i \in SessionId |-> None] /\ w = who[c]
    OBVIOUS
  <2>2. B!Step(c, tab, objs, w) /\ who[c].at # "call" /\ UNCHANGED <<made, sent, answer>>
    BY <1>9, <2>1 DEF B!close_all_sessions
  <2> HIDE DEF closing
  <2>3. /\ objs \in [B!Obj -> B!BrowserState]
        /\ \A p \in B!Obj : objs[p].stored = object[p].stored /\ objs[p].waiting = object[p].waiting
    BY <1>1, <2>1, ClosedFields
  <2>4. tab \in [SessionId -> B!Obj \cup {None}]
    BY <2>1
  <2>5. QED
    BY <1>1, <2>1, <2>2, <2>3, <2>4, OutsideCalls
<1>10. QED
  BY <1>5, <1>6, <1>7, <1>8, <1>9 DEF B!launch_local, B!connect_remote

\* A call begins, which is then its caller's, or ends, and is nobody's.
LEMMA CallSendKeeps ==
    ASSUME B!IInv, NEW c \in BrowserCaller, B!cdp_send(c)
    PROVE  B!IInv'
<1> DEFINE o == who[c].obj
           r == [object[o] EXCEPT !.waiting = @ \cup {sent'}]
           v == [who[c] EXCEPT !.at = "call", !.call = sent']
<1>1. /\ sessions \in [SessionId -> B!Obj \cup {None}] /\ object \in [B!Obj -> B!BrowserState]
      /\ who[c] \in B!CallerState /\ B!Holds(who[c]) /\ sent \in 0 .. MaxBrowserCalls
      /\ made \in 0 .. MaxObjects /\ answer \in {"none", "success", "error"}
  BY BrowserTypes
<1>2. /\ who[c].at = "hold" /\ sent < MaxBrowserCalls /\ sent' = sent + 1
      /\ UNCHANGED <<made, answer>>
      /\ B!Step(c, sessions, [object EXCEPT ![o] = r], v)
  BY DEF B!cdp_send
<1>3. o \in B!Obj /\ sent' \in B!Call /\ sent' \in 0 .. MaxBrowserCalls
  BY <1>1, <1>2, PartBounds DEF B!Holds, B!Call
<1>4. /\ r \in B!BrowserState /\ r.stored = object[o].stored
      /\ r.waiting = object[o].waiting \cup {sent'}
  BY <1>1, <1>3 DEF B!BrowserState
<1>5. v \in B!CallerState /\ B!Holds(v) /\ v.at = "call" /\ v.obj = o /\ v.call = sent'
  BY <1>1, <1>3 DEF B!CallerState, B!Holds
<1>6. PICK objs, w : objs = [object EXCEPT ![o] = r] /\ w = v
  OBVIOUS
<1>7. B!Step(c, sessions, objs, w)
  BY <1>2, <1>6
<1> HIDE DEF r, v
<1>8. /\ objs \in [B!Obj -> B!BrowserState]
      /\ \A p \in B!Obj : objs[p] = IF p = o THEN r ELSE object[p]
  BY <1>1, <1>3, <1>4, <1>6
<1>9. ASSUME NEW p \in B!Obj, NEW n \in objs[p].stored \cup objs[p].waiting
      PROVE  \/ w.at = "call" /\ w.obj = p /\ w.call = n
             \/ \E d \in BrowserCaller :
                  d # c /\ who[d].at = "call" /\ who[d].obj = p /\ who[d].call = n
  <2>1. CASE n \in object[p].stored \cup object[p].waiting
    BY <1>2, <2>1, CallsStay
  <2>2. CASE n \notin object[p].stored \cup object[p].waiting
    <3>1. p = o /\ n = sent'
      BY <1>4, <1>8, <1>9, <2>2
    <3>2. QED
      BY <1>5, <1>6, <3>1
  <2>3. QED
    BY <2>1, <2>2
<1>10. w \in B!CallerState /\ B!Holds(w)
  BY <1>5, <1>6
<1>11. made' \in 0 .. MaxObjects /\ answer' \in {"none", "success", "error"}
  BY <1>1, <1>2
<1>12. QED
  BY <1>1, <1>3, <1>7, <1>8, <1>9, <1>10, <1>11, CallerActs

LEMMA CallReturnKeeps ==
    ASSUME B!IInv, NEW c \in BrowserCaller, B!cdp_returns(c)
    PROVE  B!IInv'
<1> DEFINE o == who[c].obj
           n == who[c].call
           r == [object[o] EXCEPT !.waiting = @ \ {n}, !.stored = @ \ {n}]
           v == [who[c] EXCEPT !.at = "hold", !.call = None]
<1>1. /\ sessions \in [SessionId -> B!Obj \cup {None}] /\ object \in [B!Obj -> B!BrowserState]
      /\ who[c] \in B!CallerState /\ B!Holds(who[c]) /\ sent \in 0 .. MaxBrowserCalls
      /\ made \in 0 .. MaxObjects
  BY BrowserTypes
<1>2. /\ who[c].at = "call" /\ UNCHANGED <<made, sent>> /\ answer' = "success"
      /\ B!Step(c, sessions, [object EXCEPT ![o].waiting = @ \ {n}, ![o].stored = @ \ {n}], v)
  BY DEF B!cdp_returns
<1>3. o \in B!Obj
  BY <1>1, <1>2 DEF B!Holds
<1>4. /\ r \in B!BrowserState /\ r.stored = object[o].stored \ {n}
      /\ r.waiting = object[o].waiting \ {n}
  BY <1>1, <1>3 DEF B!BrowserState
<1>5. v \in B!CallerState /\ B!Holds(v)
  BY <1>1, <1>2 DEF B!CallerState, B!Holds
<1>6. [object EXCEPT ![o].waiting = @ \ {n}, ![o].stored = @ \ {n}] = [object EXCEPT ![o] = r]
  BY <1>1, <1>3
<1>7. PICK objs, w : objs = [object EXCEPT ![o] = r] /\ w = v
  OBVIOUS
<1>8. B!Step(c, sessions, objs, w)
  BY <1>2, <1>6, <1>7
<1> HIDE DEF r, v
<1>9. /\ objs \in [B!Obj -> B!BrowserState]
      /\ \A p \in B!Obj : objs[p] = IF p = o THEN r ELSE object[p]
  BY <1>1, <1>3, <1>4, <1>7
<1>10. ASSUME NEW p \in B!Obj, NEW m \in objs[p].stored \cup objs[p].waiting
       PROVE  \E d \in BrowserCaller :
                d # c /\ who[d].at = "call" /\ who[d].obj = p /\ who[d].call = m
  <2>1. m \in object[p].stored \cup object[p].waiting /\ (p = o => m # n)
    BY <1>4, <1>9, <1>10
  <2>2. PICK d \in BrowserCaller : who[d].at = "call" /\ who[d].obj = p /\ who[d].call = m
    BY <2>1 DEF B!IInv, B!AnswersAwaited
  <2>3. d # c
    BY <2>1, <2>2
  <2>4. QED
    BY <2>2, <2>3
<1>11. w \in B!CallerState /\ B!Holds(w)
  BY <1>5, <1>7
<1>12. /\ made' \in 0 .. MaxObjects /\ sent' \in 0 .. MaxBrowserCalls
       /\ answer' \in {"none", "success", "error"}
  BY <1>1, <1>2
<1>13. QED
  BY <1>1, <1>8, <1>9, <1>10, <1>11, <1>12, CallerActs

\* The other steps change no caller, start no process and enter no call.
LEMMA OthersAct ==
    ASSUME B!IInv, UNCHANGED <<who, made, sent>>,
           answer' \in {"none", "success", "error"},
           object' \in [B!Obj -> B!BrowserState],
           sessions' \in [SessionId -> B!Obj \cup {None}],
           cleaner' \in [ids : SUBSET SessionId, obj : B!Obj \cup {None}],
           \A o \in B!Obj :
             /\ object'[o].stored \cup object'[o].waiting
                  \subseteq object[o].stored \cup object[o].waiting
             /\ object'[o].process =>
                  /\ object[o].process
                  /\ cleaner.obj = o => cleaner'.obj = o
                  /\ \A i \in SessionId : sessions[i] = o => sessions'[i] = o \/ cleaner'.obj = o
    PROVE  B!IInv'
<1>1. B!TypeOK'
  BY DEF B!IInv, B!TypeOK
<1>2. B!NoBrowserLeftBehind'
  <2>1. ASSUME NEW o \in B!Obj, object'[o].process
        PROVE  \/ \E i \in SessionId : sessions'[i] = o
               \/ \E c \in BrowserCaller : who'[c].obj = o
               \/ cleaner'.obj = o
    <3>1. \/ \E i \in SessionId : sessions[i] = o
          \/ \E c \in BrowserCaller : who[c].obj = o
          \/ cleaner.obj = o
      BY <2>1 DEF B!IInv, B!NoBrowserLeftBehind
    <3>2. QED
      BY <2>1, <3>1
  <2>2. QED
    BY <2>1 DEF B!NoBrowserLeftBehind
<1>3. B!AnswersAwaited'
  BY DEF B!IInv, B!AnswersAwaited
<1>4. QED
  BY <1>1, <1>2, <1>3 DEF B!IInv

LEMMA SocketActs ==
    ASSUME B!IInv, NEW o \in B!Obj,
           \/ \E n \in B!Call : B!on_message(o, n)
           \/ \E dies \in BOOLEAN : B!SocketDrops(o, dies)
           \/ B!GrowsIdle(o) \/ B!GrowsOld(o)
    PROVE  B!IInv'
<1>1. /\ object \in [B!Obj -> B!BrowserState] /\ object[o] \in B!BrowserState
      /\ sessions \in [SessionId -> B!Obj \cup {None}]
      /\ cleaner \in [ids : SUBSET SessionId, obj : B!Obj \cup {None}]
      /\ answer \in {"none", "success", "error"}
  BY BrowserTypes
<1>2. ASSUME NEW r \in B!BrowserState, object' = [object EXCEPT ![o] = r],
             UNCHANGED <<sessions, who, cleaner, made, sent, answer>>,
             r.stored \cup r.waiting \subseteq object[o].stored \cup object[o].waiting,
             r.process => object[o].process
      PROVE  B!IInv'
  <2>1. /\ object' \in [B!Obj -> B!BrowserState]
        /\ \A p \in B!Obj : object'[p] = IF p = o THEN r ELSE object[p]
    BY <1>1, <1>2
  <2>2. \A p \in B!Obj :
          /\ object'[p].stored \cup object'[p].waiting
               \subseteq object[p].stored \cup object[p].waiting
          /\ object'[p].process => object[p].process
    BY <1>2, <2>1
  <2>3. QED
    BY <1>1, <1>2, <2>1, <2>2, OthersAct
<1>3. ASSUME NEW n \in B!Call, B!on_message(o, n)
      PROVE  B!IInv'
  <2> DEFINE r == [object[o] EXCEPT !.stored = IF n \in object[o].waiting THEN @ \cup {n} ELSE @]
  <2>1. /\ r \in B!BrowserState /\ r.waiting = object[o].waiting /\ r.process = object[o].process
        /\ r.stored \subseteq object[o].stored \cup object[o].waiting
    BY <1>1 DEF B!BrowserState
  <2>2. /\ object' = [object EXCEPT ![o] = r]
        /\ UNCHANGED <<sessions, who, cleaner, made, sent, answer>>
    BY <1>1, <1>3 DEF B!on_message
  <2> HIDE DEF r
  <2>3. QED
    BY <1>2, <2>1, <2>2
<1>4. ASSUME NEW dies \in BOOLEAN, B!SocketDrops(o, dies)
      PROVE  B!IInv'
  <2> DEFINE r == [object[o] EXCEPT !.socket = FALSE, !.process = @ /\ ~dies]
  <2>1. /\ r \in B!BrowserState /\ r.waiting = object[o].waiting /\ r.stored = object[o].stored
        /\ r.process => object[o].process
    BY <1>1 DEF B!BrowserState
  <2>2. /\ object' = [object EXCEPT ![o] = r]
        /\ UNCHANGED <<sessions, who, cleaner, made, sent, answer>>
    BY <1>1, <1>4 DEF B!SocketDrops
  <2> HIDE DEF r
  <2>3. QED
    BY <1>2, <2>1, <2>2
<1>5. CASE B!GrowsIdle(o) \/ B!GrowsOld(o)
  <2> DEFINE r == [object[o] EXCEPT !.idle = TRUE]
             s == [object[o] EXCEPT !.old = TRUE]
  <2>1. /\ r \in B!BrowserState /\ r.waiting = object[o].waiting /\ r.stored = object[o].stored
        /\ r.process = object[o].process
        /\ s \in B!BrowserState /\ s.waiting = object[o].waiting /\ s.stored = object[o].stored
        /\ s.process = object[o].process
    BY <1>1 DEF B!BrowserState
  <2>2. /\ object' = [object EXCEPT ![o] = r] \/ object' = [object EXCEPT ![o] = s]
        /\ UNCHANGED <<sessions, who, cleaner, made, sent, answer>>
    BY <1>1, <1>5 DEF B!GrowsIdle, B!GrowsOld
  <2> HIDE DEF r, s
  <2>3. QED
    BY <1>2, <2>1, <2>2
<1>6. QED
  BY <1>3, <1>4, <1>5

\* The cleaning thread: what it takes out of the table it holds until it has
\* closed it.
LEMMA CleanerActs ==
    ASSUME B!IInv,
           \/ B!cleanup_notes \/ B!cleanup_closes
           \/ \E i \in SessionId : B!cleanup_takes(i) \/ B!validate_session(i)
           \/ \E c \in BrowserCaller : B!cdp_send_unconnected(c) \/ B!navigate_blocked(c)
    PROVE  B!IInv'
<1>1. /\ object \in [B!Obj -> B!BrowserState]
      /\ sessions \in [SessionId -> B!Obj \cup {None}]
      /\ cleaner \in [ids : SUBSET SessionId, obj : B!Obj \cup {None}]
      /\ answer \in {"none", "success", "error"} /\ None \notin B!Obj
  BY BrowserTypes
<1>2. CASE B!cleanup_notes
  <2>1. /\ cleaner' \in [ids : SUBSET SessionId, obj : B!Obj \cup {None}]
        /\ cleaner'.obj = cleaner.obj
    BY <1>1, <1>2 DEF B!cleanup_notes
  <2>2. UNCHANGED <<sessions, object, who, made, sent, answer>>
    BY <1>2 DEF B!cleanup_notes
  <2>3. QED
    BY <1>1, <2>1, <2>2, OthersAct
<1>3. CASE B!cleanup_closes
  <2>1. cleaner.obj \in B!Obj
    BY <1>1, <1>3 DEF B!cleanup_closes
  <2>2. /\ cleaner' \in [ids : SUBSET SessionId, obj : B!Obj \cup {None}]
        /\ UNCHANGED <<sessions, who, made, sent, answer>>
        /\ object' = [object EXCEPT ![cleaner.obj] = B!Closed(object[cleaner.obj])]
    BY <1>1, <1>3 DEF B!cleanup_closes
  <2>3. /\ object' \in [B!Obj -> B!BrowserState]
        /\ \A o \in B!Obj :
             /\ object'[o].stored = object[o].stored /\ object'[o].waiting = object[o].waiting
             /\ object'[o].process => object[o].process /\ cleaner.obj # o
    BY <1>1, <2>1, <2>2, ClosedFields
  <2>4. QED
    BY <1>1, <2>2, <2>3, OthersAct
<1>4. ASSUME NEW i \in SessionId, B!cleanup_takes(i)
      PROVE  B!IInv'
  <2>1. /\ cleaner.obj = None /\ sessions' = [sessions EXCEPT ![i] = None]
        /\ cleaner' \in [ids : SUBSET SessionId, obj : B!Obj \cup {None}]
        /\ cleaner'.obj = sessions[i]
        /\ UNCHANGED <<object, who, made, sent, answer>>
    BY <1>1, <1>4 DEF B!cleanup_takes
  <2>2. /\ sessions' \in [SessionId -> B!Obj \cup {None}]
        /\ \A k \in SessionId : sessions'[k] = IF k = i THEN None ELSE sessions[k]
    BY <1>1, <2>1
  <2>3. QED
    BY <1>1, <2>1, <2>2, OthersAct
<1>5. CASE \/ \E i \in SessionId : B!validate_session(i)
           \/ \E c \in BrowserCaller : B!cdp_send_unconnected(c) \/ B!navigate_blocked(c)
  <2>1. /\ answer' \in {"none", "success", "error"}
        /\ UNCHANGED <<sessions, object, who, cleaner, made, sent>>
    BY <1>5 DEF B!validate_session, B!cdp_send_unconnected, B!navigate_blocked
  <2>2. QED
    BY <1>1, <2>1, OthersAct
<1>6. QED
  BY <1>2, <1>3, <1>4, <1>5

LEMMA BrowserKeeps ==
    ASSUME B!IInv, B!Next \/ UNCHANGED browserVars
    PROVE  B!IInv'
<1>1. CASE UNCHANGED browserVars
  BY <1>1 DEF browserVars, B!IInv, B!TypeOK, B!NoBrowserLeftBehind, B!AnswersAwaited
<1>2. CASE B!Next
  BY <1>2, TableSteps, ObjectSteps, CallSendKeeps, CallReturnKeeps, SocketActs, CleanerActs
     DEF B!Next
<1>3. QED
  BY <1>1, <1>2

-----------------------------------------------------------------------------
(* Adapters *)

LEMMA NoThreadFields ==
    /\ AD!NoThread \in AD!Thread /\ AD!NoThread.at = "none"
    /\ AD!NoThread.todo = {} /\ AD!NoThread.ch = {}
  BY DEF AD!NoThread, AD!Thread

LEMMA AdaptersInit ==
    ASSUME AD!Init
    PROVE  AD!IInv
<1>1. AD!StateOK
  BY NoThreadFields DEF AD!Init, AD!StateOK
<1>2. QED
  BY <1>1, NoThreadFields DEF AD!Init, AD!IInv, AD!AdapterOK

\* A step of the monitor or of a process: what it does to one adapter leaves
\* each of them in order.
LEMMA MonitorSteps ==
    ASSUME AD!IInv,
           \/ AD!MonitorWakes \/ AD!ScanEnds
           \/ \E c \in Channel : AD!ProcessExits(c)
    PROVE  AD!IInv'
<1>1. /\ AD!StateOK /\ monitor \in AD!Thread
      /\ \A c \in Channel : AD!AdapterOK(c)
  BY DEF AD!IInv, AD!StateOK
<1>2. CASE AD!MonitorWakes
  <2> DEFINE s == [at |-> "scan", todo |-> {c \in Channel : adapters[c] # "absent"}, ch |-> {}]
             d == [AD!NoThread EXCEPT !.at = "done"]
  <2>1. /\ s \in AD!Thread /\ s.ch = {} /\ s.at = "scan"
        /\ d \in AD!Thread /\ d.ch = {} /\ d.at = "done"
    BY DEF AD!Thread, AD!NoThread
  <2>2. /\ monitor' = IF running THEN s ELSE d
        /\ monitor.at = "sleep"
        /\ UNCHANGED <<platform, running, adapters, proc, stop, late>>
    BY <1>2 DEF AD!MonitorWakes
  <2> HIDE DEF s, d
  <2>3. monitor' \in AD!Thread /\ monitor'.ch = {} /\ monitor'.at # "restart"
    BY <2>1, <2>2
  <2>4. AD!StateOK'
    BY <1>1, <2>2, <2>3 DEF AD!StateOK
  <2>5. \A c \in Channel : AD!AdapterOK(c)'
    BY <1>1, <2>2 DEF AD!AdapterOK
  <2>6. ~(~running /\ stop.at = "none")
    BY <2>2, NoThreadFields DEF AD!IInv
  <2>7. QED
    BY <2>2, <2>3, <2>4, <2>5, <2>6 DEF AD!IInv
<1>3. CASE AD!ScanEnds
  <2> DEFINE s == [monitor EXCEPT !.at = IF running THEN "sleep" ELSE "done"]
  <2>1. s \in AD!Thread /\ s.ch = monitor.ch /\ s.at \in {"sleep", "done"}
    BY <1>1 DEF AD!Thread
  <2>2. /\ monitor' = s /\ monitor.at = "scan"
        /\ UNCHANGED <<platform, running, adapters, proc, stop, late>>
    BY <1>3 DEF AD!ScanEnds
  <2> HIDE DEF s
  <2>3. monitor' \in AD!Thread /\ monitor'.ch = monitor.ch /\ monitor'.at # "restart"
    BY <2>1, <2>2
  <2>4. AD!StateOK'
    BY <1>1, <2>2, <2>3 DEF AD!StateOK
  <2>5. \A c \in Channel : AD!AdapterOK(c)'
    BY <1>1, <2>2 DEF AD!AdapterOK
  <2>6. ~(~running /\ stop.at = "none")
    BY <2>2, NoThreadFields DEF AD!IInv
  <2>7. QED
    BY <2>2, <2>3, <2>4, <2>5, <2>6 DEF AD!IInv
<1>4. ASSUME NEW c \in Channel, AD!ProcessExits(c)
      PROVE  AD!IInv'
  <2>1. /\ proc[c] = "live"
        /\ proc' = [proc EXCEPT ![c] = IF platform = "posix" THEN "zombie" ELSE "none"]
        /\ UNCHANGED <<platform, running, adapters, monitor, stop, late>>
    BY <1>4 DEF AD!ProcessExits
  <2>2. AD!StateOK'
    BY <1>1, <2>1 DEF AD!StateOK
  <2>3. ASSUME NEW d \in Channel
        PROVE  AD!AdapterOK(d)'
    <3>1. /\ d # c => proc'[d] = proc[d]
          /\ proc'[c] = IF platform = "posix" THEN "zombie" ELSE "none"
          /\ AD!AdapterOK(d) /\ platform \in {"posix", "win32"}
      BY <1>1, <2>1 DEF AD!StateOK
    <3>2. QED
      BY <2>1, <3>1 DEF AD!AdapterOK
  <2>4. QED
    BY <2>1, <2>2, <2>3 DEF AD!IInv
<1>5. QED
  BY <1>2, <1>3, <1>4

\* The monitor takes an adapter for dead only on win32, and then it has no
\* process.
LEMMA ScanKeeps ==
    ASSUME AD!IInv, NEW c \in Channel, AD!ScanAdapter(c)
    PROVE  AD!IInv'
<1> DEFINE dead == adapters[c] = "up" /\ ~AD!is_process_alive(c)
           s == [monitor EXCEPT !.todo = @ \ {c},
                   !.at = IF dead /\ running THEN "restart" ELSE @,
                   !.ch = IF dead /\ running THEN {c} ELSE {}]
<1>1. /\ AD!StateOK /\ monitor \in AD!Thread /\ adapters \in [Channel -> {"absent", "up", "down"}]
      /\ AD!AdapterOK(c) /\ platform \in {"posix", "win32"}
      /\ proc[c] \in {"none", "live", "zombie"}
  BY DEF AD!IInv, AD!StateOK
<1>2. /\ monitor.at = "scan" /\ monitor' = s
      /\ adapters' = IF dead THEN [adapters EXCEPT ![c] = "down"] ELSE adapters
      /\ UNCHANGED <<platform, running, proc, stop, late>>
  BY DEF AD!ScanAdapter
<1>3. dead => proc[c] = "none" /\ platform = "win32"
  BY <1>1 DEF AD!is_process_alive, AD!AdapterOK
<1>4. /\ s \in AD!Thread /\ s.at \in {"scan", "restart"}
      /\ s.at = "restart" => dead /\ running
      /\ s.ch \subseteq {c} /\ (s.ch # {} => dead)
  <2>1. s \in AD!Thread
    BY <1>1 DEF AD!Thread
  <2>2. /\ s.at = IF dead /\ running THEN "restart" ELSE monitor.at
        /\ s.ch = IF dead /\ running THEN {c} ELSE {}
    BY <1>1 DEF AD!Thread
  <2>3. QED
    BY <1>2, <2>1, <2>2
<1> HIDE DEF dead, s
<1>5. \A d \in Channel : adapters'[d] = IF d = c /\ dead THEN "down" ELSE adapters[d]
  BY <1>1, <1>2
<1>6. AD!StateOK'
  BY <1>1, <1>2, <1>4 DEF AD!StateOK
<1>7. ASSUME NEW d \in Channel
      PROVE  AD!AdapterOK(d)'
  <2>1. AD!AdapterOK(d)
    BY DEF AD!IInv
  <2>2. QED
    BY <1>2, <1>3, <1>5, <2>1 DEF AD!AdapterOK
<1>8. \A d \in monitor'.ch : adapters'[d] # "absent"
  BY <1>2, <1>4, <1>5
<1>9. ~(~running /\ stop.at = "none")
  BY <1>2, NoThreadFields DEF AD!IInv
<1>10. platform' = "posix" => late' = {} /\ monitor'.at # "restart"
  BY <1>2, <1>3, <1>4 DEF AD!IInv
<1>11. QED
  BY <1>2, <1>6, <1>7, <1>8, <1>9, <1>10 DEF AD!IInv

\* A launch by the monitor is late, or its adapter is up.
LEMMA RestartKeeps ==
    ASSUME AD!IInv, AD!RestartAdapter
    PROVE  AD!IInv'
<1> DEFINE s == [monitor EXCEPT !.at = "scan", !.ch = {}]
<1>1. /\ AD!StateOK /\ monitor \in AD!Thread /\ adapters \in [Channel -> {"absent", "up", "down"}]
      /\ proc \in [Channel -> {"none", "live", "zombie"}] /\ late \subseteq Channel
      /\ stop \in AD!Thread /\ platform \in {"posix", "win32"}
      /\ stop.at = "none" => stop = AD!NoThread
  BY DEF AD!IInv, AD!StateOK
<1>2. PICK c \in monitor.ch, ok \in BOOLEAN :
        /\ proc' = IF ok THEN [proc EXCEPT ![c] = "live"] ELSE proc
        /\ adapters' = IF ok /\ adapters[c] # "absent" THEN [adapters EXCEPT ![c] = "up"] ELSE adapters
        /\ late' = IF ok /\ stop # AD!NoThread THEN late \cup {c} ELSE late
  BY DEF AD!RestartAdapter
<1>3. /\ monitor.at = "restart" /\ monitor' = s
      /\ UNCHANGED <<platform, running, stop>>
  BY DEF AD!RestartAdapter
<1>4. s \in AD!Thread /\ s.at = "scan" /\ s.ch = {}
  BY <1>1 DEF AD!Thread
<1> HIDE DEF s
<1>5. c \in Channel
  BY <1>1, <1>2 DEF AD!Thread
<1>6. platform = "win32"
  BY <1>1, <1>3 DEF AD!IInv
<1>7. AD!StateOK'
  BY <1>1, <1>2, <1>3, <1>4, <1>5 DEF AD!StateOK
<1>8. /\ proc'[c] = IF ok THEN "live" ELSE proc[c]
      /\ adapters'[c] = IF ok /\ adapters[c] # "absent" THEN "up" ELSE adapters[c]
      /\ \A d \in Channel : d # c => proc'[d] = proc[d] /\ adapters'[d] = adapters[d]
      /\ late \subseteq late'
  BY <1>1, <1>2, <1>5
<1>9. ASSUME NEW d \in Channel
      PROVE  AD!AdapterOK(d)'
  <2>1. AD!AdapterOK(d)
    BY DEF AD!IInv
  <2>2. CASE d # c \/ ~ok
    <3>1. proc'[d] = proc[d] /\ adapters'[d] = adapters[d]
      BY <1>8, <2>2
    <3>2. QED
      BY <1>3, <1>8, <2>1, <3>1 DEF AD!AdapterOK
  <2>3. CASE d = c /\ ok
    <3>1. adapters'[c] # "down" /\ proc'[c] = "live"
      BY <1>1, <1>5, <1>8, <2>3
    <3>2. c \in late' \/ (adapters'[c] = "up" /\ stop.at = "none")
      <4>1. CASE stop.at = "none"
        <5>1. adapters[c] # "absent"
          BY <1>2, <4>1 DEF AD!IInv
        <5>2. QED
          BY <1>8, <2>3, <4>1, <5>1
      <4>2. CASE stop.at # "none"
        BY <1>2, <2>3, <4>2, NoThreadFields
      <4>3. QED
        BY <4>1, <4>2
    <3>3. QED
      BY <1>3, <1>6, <2>3, <3>1, <3>2 DEF AD!AdapterOK
  <2>4. QED
    BY <2>2, <2>3
<1>10. ~(~running /\ stop.at = "none")
  BY <1>3, NoThreadFields DEF AD!IInv
<1>11. monitor'.ch = {} /\ platform' # "posix"
  BY <1>3, <1>4, <1>6
<1>12. QED
  BY <1>3, <1>7, <1>9, <1>10, <1>11 DEF AD!IInv

\* Start and Stop, until the table is cleared and the monitor joined.
LEMMA StartKeeps ==
    ASSUME AD!IInv, AD!Start
    PROVE  AD!IInv'
<1> DEFINE s == [AD!NoThread EXCEPT !.at = "sleep"]
<1>1. PICK L \in SUBSET Channel :
        /\ adapters' = [c \in Channel |-> IF c \in L THEN "up" ELSE "absent"]
        /\ proc' = [c \in Channel |-> IF c \in L THEN "live" ELSE proc[c]]
  BY DEF AD!Start
<1>2. /\ ~running /\ stop = AD!NoThread /\ monitor = AD!NoThread
      /\ running' = TRUE /\ monitor' = s
      /\ UNCHANGED <<platform, stop, late>>
  BY DEF AD!Start
<1>3. s \in AD!Thread /\ s.at = "sleep" /\ s.ch = {}
  BY DEF AD!NoThread, AD!Thread
<1> HIDE DEF s
<1>4. AD!StateOK'
  BY <1>1, <1>2, <1>3 DEF AD!IInv, AD!StateOK
<1>5. ASSUME NEW c \in Channel
      PROVE  AD!AdapterOK(c)'
  <2>1. /\ adapters'[c] = IF c \in L THEN "up" ELSE "absent"
        /\ proc'[c] = IF c \in L THEN "live" ELSE proc[c]
    BY <1>1
  <2>2. AD!AdapterOK(c) /\ stop.at = "none" /\ adapters[c] = "absent"
    BY <1>2, NoThreadFields DEF AD!IInv
  <2>3. proc[c] # "none" => c \in late
    BY <2>2 DEF AD!AdapterOK
  <2>4. QED
    BY <1>2, <2>1, <2>2, <2>3 DEF AD!AdapterOK
<1>6. QED
  BY <1>2, <1>3, <1>4, <1>5, NoThreadFields DEF AD!IInv

LEMMA StopSteps ==
    ASSUME AD!IInv,
           \/ AD!Stop \/ AD!Killed \/ AD!ClearAdapters \/ AD!JoinMonitor
           \/ \E c \in Channel : AD!kill_adapter(c)
    PROVE  AD!IInv'
<1>1. /\ AD!StateOK /\ stop \in AD!Thread /\ monitor \in AD!Thread /\ running \in BOOLEAN
      /\ adapters \in [Channel -> {"absent", "up", "down"}]
      /\ proc \in [Channel -> {"none", "live", "zombie"}]
      /\ \A c \in Channel : AD!AdapterOK(c)
  BY DEF AD!IInv, AD!StateOK
<1>2. CASE AD!Stop
  <2> DEFINE s == [at |-> "kill", todo |-> {c \in Channel : adapters[c] # "absent"}, ch |-> {}]
  <2>1. /\ s \in AD!Thread /\ s.at = "kill" /\ s.ch = {}
        /\ s.todo = {c \in Channel : adapters[c] # "absent"}
    BY DEF AD!Thread
  <2>2. /\ stop = AD!NoThread /\ running' = FALSE /\ stop' = s
        /\ UNCHANGED <<platform, adapters, proc, monitor, late>>
    BY <1>2 DEF AD!Stop
  <2> HIDE DEF s
  <2>3. AD!StateOK'
    BY <1>1, <2>1, <2>2 DEF AD!StateOK
  <2>4. ASSUME NEW c \in Channel
        PROVE  AD!AdapterOK(c)'
    <3>1. stop.at = "none" /\ AD!AdapterOK(c) /\ (adapters[c] = "up" => c \in stop'.todo)
      BY <1>1, <2>1, <2>2, NoThreadFields
    <3>2. QED
      BY <2>1, <2>2, <3>1 DEF AD!AdapterOK
  <2>5. QED
    BY <2>1, <2>2, <2>3, <2>4, NoThreadFields DEF AD!IInv
<1>3. ASSUME NEW c \in Channel, AD!kill_adapter(c)
      PROVE  AD!IInv'
  <2> DEFINE s == [stop EXCEPT !.todo = @ \ {c}, !.at = IF adapters[c] = "up" THEN "wait" ELSE @,
                               !.ch = IF adapters[c] = "up" THEN {c} ELSE {}]
  <2>1. /\ stop.at = "kill" /\ c \in stop.todo /\ stop' = s
        /\ UNCHANGED <<platform, running, adapters, proc, monitor, late>>
    BY <1>3 DEF AD!kill_adapter
  <2>2. /\ s \in AD!Thread /\ s.todo = stop.todo \ {c}
        /\ s.at = IF adapters[c] = "up" THEN "wait" ELSE "kill"
        /\ s.ch = IF adapters[c] = "up" THEN {c} ELSE {}
    BY <1>1, <2>1 DEF AD!Thread
  <2> HIDE DEF s
  <2>3. AD!StateOK'
    BY <1>1, <2>1, <2>2 DEF AD!StateOK
  <2>4. ASSUME NEW d \in Channel
        PROVE  AD!AdapterOK(d)'
    <3>1. AD!AdapterOK(d) /\ AD!AdapterOK(c)
      BY <1>1
    <3>2. QED
      BY <2>1, <2>2, <3>1 DEF AD!AdapterOK
  <2>5. QED
    BY <2>1, <2>2, <2>3, <2>4, NoThreadFields DEF AD!IInv
<1>4. CASE AD!Killed
  <2> DEFINE s == [stop EXCEPT !.at = "kill", !.ch = {}]
  <2>1. PICK c \in stop.ch : /\ proc' = [proc EXCEPT ![c] = "none"]
                             /\ adapters' = [adapters EXCEPT ![c] = "down"]
    BY <1>4 DEF AD!Killed
  <2>2. /\ stop.at = "wait" /\ stop' = s /\ UNCHANGED <<platform, running, monitor, late>>
    BY <1>4 DEF AD!Killed
  <2>3. s \in AD!Thread /\ s.at = "kill" /\ s.ch = {} /\ s.todo = stop.todo
    BY <1>1 DEF AD!Thread
  <2> HIDE DEF s
  <2>4. c \in Channel /\ \A d \in stop.ch : d = c
    BY <1>1, <2>1 DEF AD!Thread, AD!IInv
  <2>5. /\ proc'[c] = "none" /\ adapters'[c] = "down"
        /\ \A d \in Channel : d # c => proc'[d] = proc[d] /\ adapters'[d] = adapters[d]
    BY <1>1, <2>1, <2>4
  <2>6. AD!StateOK'
    BY <1>1, <2>1, <2>2, <2>3 DEF AD!StateOK
  <2>7. ASSUME NEW d \in Channel
        PROVE  AD!AdapterOK(d)'
    <3>1. CASE d = c
      BY <2>5, <3>1 DEF AD!AdapterOK
    <3>2. CASE d # c
      <4>1. AD!AdapterOK(d) /\ d \notin stop.ch
        BY <1>1, <2>4, <3>2
      <4>2. QED
        BY <2>2, <2>3, <2>5, <3>2, <4>1 DEF AD!AdapterOK
    <3>3. QED
      BY <3>1, <3>2
  <2>8. \A d \in monitor'.ch : adapters'[d] # "absent"
    <3>1. \A d \in monitor.ch : adapters[d] # "absent" /\ d \in Channel
      BY <1>1, <2>2 DEF AD!IInv, AD!Thread
    <3>2. QED
      BY <2>2, <2>5, <3>1
  <2>9. QED
    BY <2>2, <2>3, <2>6, <2>7, <2>8 DEF AD!IInv
<1>5. CASE AD!ClearAdapters
  <2> DEFINE s == [stop EXCEPT !.at = "join"]
  <2>1. /\ stop.at = "kill" /\ stop.todo = {} /\ stop' = s
        /\ adapters' = [c \in Channel |-> "absent"]
        /\ UNCHANGED <<platform, running, proc, monitor, late>>
    BY <1>5 DEF AD!ClearAdapters
  <2>2. s \in AD!Thread /\ s.at = "join" /\ s.ch = stop.ch
    BY <1>1 DEF AD!Thread
  <2> HIDE DEF s
  <2>3. AD!StateOK'
    BY <1>1, <2>1, <2>2 DEF AD!StateOK
  <2>4. ASSUME NEW d \in Channel
        PROVE  AD!AdapterOK(d)'
    <3>1. AD!AdapterOK(d) /\ adapters'[d] = "absent"
      BY <1>1, <2>1
    <3>2. QED
      BY <2>1, <2>2, <3>1 DEF AD!AdapterOK
  <2>5. QED
    BY <2>1, <2>2, <2>3, <2>4 DEF AD!IInv
<1>6. CASE AD!JoinMonitor
  <2> DEFINE s == [stop EXCEPT !.at = "done"]
  <2>1. /\ stop.at = "join" /\ monitor' = AD!NoThread /\ stop' = s
        /\ UNCHANGED <<platform, running, adapters, proc, late>>
    BY <1>6 DEF AD!JoinMonitor
  <2>2. s \in AD!Thread /\ s.at = "done" /\ s.ch = stop.ch
    BY <1>1 DEF AD!Thread
  <2> HIDE DEF s
  <2>3. AD!StateOK'
    BY <1>1, <2>1, <2>2, NoThreadFields DEF AD!StateOK
  <2>4. ASSUME NEW d \in Channel
        PROVE  AD!AdapterOK(d)'
    <3>1. AD!AdapterOK(d)
      BY <1>1
    <3>2. QED
      BY <2>1, <2>2, <3>1 DEF AD!AdapterOK
  <2>5. QED
    BY <2>1, <2>2, <2>3, <2>4, NoThreadFields DEF AD!IInv
<1>7. QED
  BY <1>2, <1>3, <1>4, <1>5, <1>6

LEMMA AdaptersKeep ==
    ASSUME AD!IInv, AD!Next \/ UNCHANGED adaptersVars
    PROVE  AD!IInv'
<1>1. CASE UNCHANGED adaptersVars
  BY <1>1 DEF adaptersVars, AD!IInv, AD!StateOK, AD!AdapterOK
<1>2. CASE AD!Next
  BY <1>2, MonitorSteps, ScanKeeps, RestartKeeps, StartKeeps, StopSteps DEF AD!Next
<1>3. QED
  BY <1>1, <1>2

-----------------------------------------------------------------------------
(* Client *)

LEMMA ClientInit ==
    ASSUME CL!Init
    PROVE  CL!IInv
<1>1. CL!NoCall \in CL!CallerState /\ CL!NoCall.call = 0
  BY DEF CL!NoCall, CL!CallerState
<1>2. 0 \in 0 .. MaxRpcCalls /\ 0 \in 0 .. MaxOpens
  BY PartBounds
<1>3. CL!TypeOK
  BY <1>1, <1>2 DEF CL!Init, CL!TypeOK
<1>4. QED
  BY <1>1, <1>3 DEF CL!Init, CL!IInv, CL!OnlyOpenCalls

\* A step that enters no call and changes no caller.
LEMMA CallsKept ==
    ASSUME CL!IInv, CL!TypeOK', UNCHANGED <<caller, openCalls>>
    PROVE  CL!IInv'
  BY DEF CL!IInv, CL!OnlyOpenCalls

\* A step of one caller keeps each call of the table with somebody: the caller
\* keeps its number, or the table loses it with the caller.
LEMMA CallerMoves ==
    ASSUME CL!IInv, CL!TypeOK', NEW c \in RpcCaller, NEW w \in CL!CallerState,
           caller' = [caller EXCEPT ![c] = w],
           w.at = "idle" => w.call = 0,
           openCalls' \subseteq openCalls \cup {w.call},
           w.call = caller[c].call \/ caller[c].call \notin openCalls'
             \/ caller[c].call = 0
    PROVE  CL!IInv'
<1>1. /\ caller \in [RpcCaller -> CL!CallerState]
      /\ openCalls \subseteq 1 .. MaxRpcCalls /\ openCalls' \subseteq 1 .. MaxRpcCalls
  BY DEF CL!IInv, CL!TypeOK, CL!Call
<1>2. \A d \in RpcCaller : caller'[d] = IF d = c THEN w ELSE caller[d]
  BY <1>1
<1>3. ASSUME NEW n \in openCalls'
      PROVE  \E d \in RpcCaller : caller'[d].call = n
  <2>1. CASE n = w.call
    BY <1>2, <2>1
  <2>2. CASE n # w.call
    <3>1. n \in openCalls /\ n # 0
      BY <1>1, <1>3, <2>2
    <3>2. PICK d \in RpcCaller : caller[d].call = n
      BY <3>1 DEF CL!IInv, CL!OnlyOpenCalls
    <3>3. d # c
      BY <1>3, <2>2, <3>1, <3>2
    <3>4. QED
      BY <1>2, <3>2, <3>3
  <2>3. QED
    BY <2>1, <2>2
<1>4. \A d \in RpcCaller : caller'[d].at = "idle" => caller'[d].call = 0
  BY <1>2 DEF CL!IInv
<1>5. QED
  BY <1>3, <1>4 DEF CL!IInv, CL!OnlyOpenCalls

\* The types: a step of Connect and the socket, and of the socket's thread.
LEMMA SocketSteps ==
    ASSUME CL!IInv,
           \/ CL!Connect \/ CL!ConnectSeesOpen \/ CL!ConnectGivesUp \/ CL!ConnectReturns
           \/ CL!on_open \/ CL!on_close \/ CL!Disconnect
           \/ CL!ReadsChallenge \/ CL!ReadsHelloAnswer \/ CL!ReadsEvent
           \/ CL!GatewaySendsEvent \/ CL!Resolves
           \/ \E n \in CL!Call : CL!ReadsResponse(n)
    PROVE  CL!IInv'
<1> USE DEF CL!wire, CL!session, CL!locks
<1>1. CL!TypeOK
  BY DEF CL!IInv
<1>2. CASE CL!Connect \/ CL!ConnectSeesOpen \/ CL!ConnectGivesUp \/ CL!ConnectReturns
  <2>1. CL!TypeOK' /\ UNCHANGED <<caller, openCalls>>
    BY <1>1, <1>2
       DEF CL!TypeOK, CL!Connect, CL!ConnectSeesOpen, CL!ConnectGivesUp, CL!ConnectReturns
  <2>2. QED
    BY <2>1, CallsKept
<1>3. CASE CL!on_open \/ CL!on_close \/ CL!Disconnect
  <2>1. opens' \in 0 .. MaxOpens
    BY <1>1, <1>3, PartBounds DEF CL!TypeOK, CL!on_open, CL!on_close, CL!Disconnect
  <2>2. CL!TypeOK' /\ UNCHANGED <<caller, openCalls>>
    BY <1>1, <1>3, <2>1 DEF CL!TypeOK, CL!on_open, CL!on_close, CL!Disconnect
  <2>3. QED
    BY <2>2, CallsKept
<1>4. CASE CL!ReadsChallenge \/ CL!ReadsHelloAnswer \/ CL!ReadsEvent \/ CL!GatewaySendsEvent
  <2>1. CL!TypeOK' /\ UNCHANGED <<caller, openCalls>>
    BY <1>1, <1>4
       DEF CL!TypeOK, CL!ReadsChallenge, CL!ReadsHelloAnswer, CL!ReadsEvent, CL!GatewaySendsEvent
  <2>2. QED
    BY <2>1, CallsKept
<1>5. CASE CL!Resolves \/ \E n \in CL!Call : CL!ReadsResponse(n)
  <2>1. CL!TypeOK' /\ UNCHANGED <<caller, openCalls>>
    BY <1>1, <1>5 DEF CL!TypeOK, CL!Resolves, CL!ReadsResponse
  <2>2. QED
    BY <2>1, CallsKept
<1>6. QED
  BY <1>2, <1>3, <1>4, <1>5

\* The steps of a caller.
LEMMA CallerSteps ==
    ASSUME CL!IInv, NEW c \in RpcCaller, CL!BeginCall(c) \/ CL!CallerStep(c)
    PROVE  CL!IInv'
<1> USE DEF CL!wire, CL!session, CL!locks
<1> DEFINE w(at) == [caller[c] EXCEPT !.at = at]
<1>1. /\ CL!TypeOK /\ caller[c] \in CL!CallerState /\ caller \in [RpcCaller -> CL!CallerState]
      /\ openCalls \subseteq 1 .. MaxRpcCalls
      /\ callLock \in [1 .. MaxRpcCalls -> RpcCaller \cup {"reader", None}]
  BY DEF CL!IInv, CL!TypeOK, CL!Call
<1>2. ASSUME NEW at \in {"wait", "timeout", "clean"}
      PROVE  w(at) \in CL!CallerState /\ w(at).at = at /\ w(at).call = caller[c].call
  BY <1>1 DEF CL!CallerState
<1>3. CASE CL!BeginCall(c)
  <2> DEFINE b == [at |-> "send", call |-> counter']
  <2>1. /\ b \in CL!CallerState /\ b.at = "send" /\ b.call = counter' /\ counter' \in CL!Call
        /\ caller[c].call = 0 /\ counter' \in 0 .. MaxRpcCalls
    BY <1>1, <1>3, PartBounds
       DEF CL!IInv, CL!TypeOK, CL!BeginCall, CL!CallerState, CL!Call
  <2>2. caller' = [caller EXCEPT ![c] = b] /\ openCalls' = openCalls \cup {b.call}
    BY <1>3 DEF CL!BeginCall
  <2> HIDE DEF b
  <2>3. CL!TypeOK'
    BY <1>1, <1>3, <2>1, <2>2 DEF CL!TypeOK, CL!BeginCall
  <2>4. QED
    BY <2>1, <2>2, <2>3, CallerMoves
<1>4. CASE CL!SendRequest(c)
  <2>1. caller' = [caller EXCEPT ![c] = w("wait")]
    BY <1>4 DEF CL!SendRequest
  <2>2. requested' \subseteq CL!Call \cup {CL!Hello}
    BY <1>1, <1>4 DEF CL!SendRequest, CL!TypeOK, CL!CallerState, CL!Hello
  <2> HIDE DEF w
  <2>3. CL!TypeOK'
    BY <1>1, <1>2, <1>4, <2>1, <2>2 DEF CL!TypeOK, CL!SendRequest
  <2>4. openCalls' = openCalls
    BY <1>4 DEF CL!SendRequest
  <2>5. QED
    BY <1>2, <2>1, <2>3, <2>4, CallerMoves
<1>5. CASE CL!Answered(c)
  <2>1. caller' = [caller EXCEPT ![c] = w("clean")]
    BY <1>5 DEF CL!Answered
  <2> HIDE DEF w
  <2>2. CL!TypeOK' /\ openCalls' = openCalls
    BY <1>1, <1>2, <1>5, <2>1 DEF CL!TypeOK, CL!Answered
  <2>3. QED
    BY <1>2, <2>1, <2>2, CallerMoves
<1>6. CASE CL!TimesOut(c)
  <2>1. caller' = [caller EXCEPT ![c] = w("timeout")]
    BY <1>6 DEF CL!TimesOut
  <2> HIDE DEF w
  <2>2. CL!TypeOK' /\ openCalls' = openCalls
    BY <1>1, <1>2, <1>6, <2>1 DEF CL!TypeOK, CL!TimesOut, CL!Call
  <2>3. QED
    BY <1>2, <2>1, <2>2, CallerMoves
<1>7. CASE CL!Forgets(c)
  <2>1. CL!NoCall \in CL!CallerState /\ CL!NoCall.call = 0
    BY DEF CL!NoCall, CL!CallerState
  <2>2. /\ caller' = [caller EXCEPT ![c] = CL!NoCall]
        /\ openCalls' = openCalls \ {caller[c].call}
    BY <1>7 DEF CL!Forgets
  <2>3. CL!TypeOK'
    BY <1>1, <1>7, <2>1, <2>2 DEF CL!TypeOK, CL!Forgets, CL!Call
  <2>4. QED
    BY <2>1, <2>2, <2>3, CallerMoves
<1>8. QED
  BY <1>3, <1>4, <1>5, <1>6, <1>7 DEF CL!CallerStep

LEMMA ClientKeeps ==
    ASSUME CL!IInv, CL!Next \/ UNCHANGED clientVars
    PROVE  CL!IInv'
<1>1. CASE UNCHANGED clientVars
  BY <1>1 DEF clientVars, CL!IInv, CL!TypeOK, CL!OnlyOpenCalls
<1>2. CASE CL!Next
  BY <1>2, SocketSteps, CallerSteps DEF CL!Next
<1>3. QED
  BY <1>1, <1>2

-----------------------------------------------------------------------------
(* Typing *)

LEMMA TypingInit ==
    ASSUME TY!Init
    PROVE  TY!IInv
  BY PartBounds DEF TY!Init, TY!IInv, TY!TypeOK, TY!QuietWhenDone, TY!Mine

\* A step is of one message: the others keep what they had.
LEMMA TypingKeeps ==
    ASSUME TY!IInv, TY!Next \/ UNCHANGED typingVars
    PROVE  TY!IInv'
<1>1. CASE UNCHANGED typingVars
  BY <1>1 DEF typingVars, TY!IInv, TY!TypeOK, TY!QuietWhenDone, TY!Mine
<1>2. ASSUME NEW m \in TypedMessage,
             \/ TY!Start(m) \/ TY!Launch(m) \/ TY!Answered(m) \/ TY!Stop(m)
             \/ TY!Join(m) \/ TY!Wait(m) \/ TY!Refresh(m)
      PROVE  TY!IInv'
  <2>1. /\ handler \in [TypedMessage -> {"new", "started", "working", "stopping", "joining", "done"}]
        /\ isRunning \in [TypedMessage -> BOOLEAN]
        /\ thread \in [TypedMessage -> {"none", "wait", "send", "ended"}]
        /\ notices \in [TypedMessage -> 0 .. MaxRefreshes] /\ MaxRefreshes \in Nat
    BY PartBounds DEF TY!IInv, TY!TypeOK
  <2>2. notices' \in [TypedMessage -> 0 .. MaxRefreshes]
    <3>1. CASE TY!Notice(m)
      BY <2>1, <3>1 DEF TY!Notice
    <3>2. CASE UNCHANGED notices
      BY <2>1, <3>2
    <3>3. QED
      BY <1>2, <3>1, <3>2
         DEF TY!Start, TY!Launch, TY!Answered, TY!Stop, TY!Join, TY!Wait, TY!Refresh
  <2>3. TY!TypeOK'
    BY <1>2, <2>1, <2>2
       DEF TY!TypeOK, TY!Start, TY!Launch, TY!Answered, TY!Stop, TY!Join, TY!Wait, TY!Refresh
  <2>4. ASSUME NEW u \in TypedMessage, u # m
        PROVE  /\ handler'[u] = handler[u] /\ isRunning'[u] = isRunning[u]
               /\ thread'[u] = thread[u]
    BY <1>2, <2>1, <2>4
       DEF TY!Start, TY!Launch, TY!Answered, TY!Stop, TY!Join, TY!Wait, TY!Refresh
  <2>5. /\ TY!Mine(m)'
        /\ handler'[m] = "done" => thread'[m] = "none"
        /\ thread'[m] \in {"wait", "send"} => isRunning'[m] \/ handler'[m] = "joining"
    <3>1. /\ TY!Mine(m)
          /\ thread[m] \in {"wait", "send"} => isRunning[m] \/ handler[m] = "joining"
      BY DEF TY!IInv, TY!QuietWhenDone
    <3>2. CASE TY!Start(m) \/ TY!Launch(m)
      BY <2>1, <3>1, <3>2 DEF TY!Mine, TY!Start, TY!Launch
    <3>3. CASE TY!Answered(m) \/ TY!Stop(m) \/ TY!Join(m)
      BY <2>1, <3>1, <3>3 DEF TY!Mine, TY!Answered, TY!Stop, TY!Join
    <3>4. CASE TY!Wait(m) \/ TY!Refresh(m)
      BY <2>1, <3>1, <3>4 DEF TY!Mine, TY!Wait, TY!Refresh
    <3>5. QED
      BY <1>2, <3>2, <3>3, <3>4
  <2>6. \A u \in TypedMessage : TY!Mine(u)'
    <3>1. ASSUME NEW u \in TypedMessage, u # m
          PROVE  TY!Mine(u)'
      BY <2>4, <3>1 DEF TY!IInv, TY!Mine
    <3>2. QED
      BY <2>5, <3>1
  <2>7. TY!QuietWhenDone'
    <3>1. ASSUME NEW u \in TypedMessage
          PROVE  /\ handler'[u] = "done" => thread'[u] = "none"
                 /\ thread'[u] \in {"wait", "send"} => isRunning'[u] \/ handler'[u] = "joining"
      BY <2>4, <2>5 DEF TY!IInv, TY!QuietWhenDone
    <3>2. QED
      BY <3>1 DEF TY!QuietWhenDone
  <2>8. QED
    BY <2>3, <2>6, <2>7 DEF TY!IInv
<1>3. QED
  BY <1>1, <1>2 DEF TY!Next

-----------------------------------------------------------------------------
(* Transcripts *)

LEMMA TranscriptsInit ==
    ASSUME TR!Init
    PROVE  TR!IInv
<1> USE DEF TR!Init, TR!Rest
<1>1. TR!TypeOK
  BY PartBounds DEF TR!TypeOK, TR!Emitter, TR!Sub
<1>2. TR!Numbered
  BY DEF TR!Numbered
<1>3. \A t \in SessionThread : TR!Holds(emitter[t])
  BY DEF TR!Holds
<1>4. QED
  BY <1>1, <1>2, <1>3 DEF TR!IInv

\* A step of one thread that leaves the subscriptions alone.
LEMMA OneEmitter ==
    ASSUME TR!IInv, NEW t \in SessionThread, NEW e \in TR!Emitter,
           emitter' = [emitter EXCEPT ![t] = e],
           UNCHANGED <<subscribers, gone, subscriptions>>,
           policy' \in SendPolicy \cup {None}, emitted' \in 0 .. MaxEmitted,
           TR!Holds(e)
    PROVE  TR!IInv'
<1>1. TR!TypeOK'
  BY DEF TR!IInv, TR!TypeOK
<1>2. TR!Numbered'
  BY DEF TR!IInv, TR!Numbered
<1>3. ASSUME NEW u \in SessionThread
      PROVE  TR!Holds(emitter[u])'
  <2>1. emitter'[u] = IF u = t THEN e ELSE emitter[u]
    BY DEF TR!IInv, TR!TypeOK
  <2>2. TR!Holds(emitter[u])
    BY DEF TR!IInv
  <2>3. QED
    BY <2>1, <2>2 DEF TR!Holds
<1>4. QED
  BY <1>1, <1>2, <1>3 DEF TR!IInv

LEMMA SubscribeKeeps ==
    ASSUME TR!IInv, TR!Subscribe
    PROVE  TR!IInv'
<1> DEFINE n == Len(subscribers) + 1
<1>1. /\ TR!Sub = 1 .. MaxSubs /\ MaxSubs \in Nat
      /\ subscribers \in Seq(TR!Sub) /\ subscriptions \in 0 .. MaxSubs /\ gone \subseteq 1 .. subscriptions
  BY PartBounds DEF TR!IInv, TR!TypeOK, TR!Numbered, TR!Sub
<1>2. /\ subscriptions' = subscriptions + 1 /\ subscriptions' \in TR!Sub
      /\ subscribers' = Append(subscribers, subscriptions')
      /\ UNCHANGED <<policy, emitter, gone, emitted>>
  BY <1>1 DEF TR!Subscribe
<1>3. /\ subscribers' \in Seq(TR!Sub) /\ Len(subscribers') = n
      /\ \A i \in 1 .. n : subscribers'[i] = IF i = n THEN subscriptions' ELSE subscribers[i]
  BY <1>1, <1>2
<1>4. TR!TypeOK'
  BY <1>1, <1>2, <1>3 DEF TR!IInv, TR!TypeOK
<1>5. TR!Numbered'
  <2>1. \A i \in 1 .. n : i # n => /\ i \in DOMAIN subscribers /\ subscribers[i] \in 1 .. subscriptions
                                   /\ subscribers[i] \notin gone
    BY <1>1 DEF TR!IInv, TR!Numbered
  <2>2. \A i, j \in DOMAIN subscribers : subscribers[i] = subscribers[j] => i = j
    BY DEF TR!IInv, TR!Numbered
  <2>3. DOMAIN subscribers' = 1 .. n /\ DOMAIN subscribers = 1 .. (n - 1) /\ n - 1 \in Nat
    BY <1>1, <1>3
  <2>4. \A i \in 1 .. n : subscribers'[i] \in 1 .. subscriptions' /\ subscribers'[i] \notin gone'
    BY <1>1, <1>2, <1>3, <2>1
  <2>5. \A i, j \in 1 .. n : subscribers'[j] = subscribers'[i] => j = i
    <3>1. \A i \in 1 .. n : i # n => subscribers'[i] = subscribers[i] /\ subscribers[i] # subscriptions'
      BY <1>1, <1>2, <1>3, <2>1
    <3>2. subscribers'[n] = subscriptions' /\ n \in 1 .. n
      BY <1>3, <2>3
    <3> HIDE DEF n
    <3>3. QED
      BY <2>1, <2>2, <3>1, <3>2
  <2>6. gone' \subseteq 1 .. subscriptions'
    BY <1>1, <1>2
  <2>7. QED
    BY <2>3, <2>4, <2>5, <2>6 DEF TR!Numbered
<1>6. \A t \in SessionThread : TR!Holds(emitter[t])'
  BY <1>2 DEF TR!IInv, TR!Holds
<1>7. QED
  BY <1>4, <1>5, <1>6 DEF TR!IInv

\* The one who unsubscribes waits until no thread calls anybody.
LEMMA UnsubscribeKeeps ==
    ASSUME TR!IInv, NEW i \in TR!Sub, TR!Unsubscribe(i)
    PROVE  TR!IInv'
<1>1. PICK n \in DOMAIN subscribers : subscribers[n] = i /\ subscribers' = TR!Erased(subscribers, n)
  BY DEF TR!Unsubscribe
<1>2. gone' = gone \cup {i} /\ UNCHANGED <<policy, emitter, subscriptions, emitted>>
  BY DEF TR!Unsubscribe
<1> DEFINE k == Len(subscribers) - 1
<1>3. /\ subscribers \in Seq(TR!Sub) /\ n \in 1 .. Len(subscribers) /\ k \in Nat
      /\ DOMAIN subscribers = 1 .. Len(subscribers)
  BY <1>1 DEF TR!IInv, TR!TypeOK
<1>4. \A m \in 1 .. k :
        /\ (IF m < n THEN m ELSE m + 1) \in DOMAIN subscribers \ {n}
        /\ subscribers'[m] = subscribers[IF m < n THEN m ELSE m + 1]
  BY <1>1, <1>3 DEF TR!Erased
<1>5. subscribers' \in [1 .. k -> TR!Sub]
  <2>1. \A j \in DOMAIN subscribers : subscribers[j] \in TR!Sub
    BY <1>3
  <2>2. subscribers' = [m \in 1 .. k |-> subscribers[IF m < n THEN m ELSE m + 1]]
    BY <1>1 DEF TR!Erased
  <2>3. QED
    BY <1>4, <2>1, <2>2
<1>6. subscribers' \in Seq(TR!Sub) /\ DOMAIN subscribers' = 1 .. k
  BY <1>3, <1>5, SeqDef
<1>7. TR!TypeOK'
  BY <1>2, <1>6 DEF TR!IInv, TR!TypeOK
<1>8. TR!Numbered'
  <2>1. \A a, b \in DOMAIN subscribers : subscribers[a] = subscribers[b] => a = b
    BY DEF TR!IInv, TR!Numbered
  <2>2. \A a \in DOMAIN subscribers : subscribers[a] \in 1 .. subscriptions /\ subscribers[a] \notin gone
    BY DEF TR!IInv, TR!Numbered
  <2>3. i \in 1 .. subscriptions /\ gone \subseteq 1 .. subscriptions
    BY <1>1, <2>2 DEF TR!IInv, TR!Numbered
  <2>4. \A m \in 1 .. k : /\ subscribers'[m] \in 1 .. subscriptions
                          /\ subscribers'[m] \notin gone /\ subscribers'[m] # i
    BY <1>1, <1>4, <2>1, <2>2
  <2>5. \A a, b \in 1 .. k : subscribers'[b] = subscribers'[a] => b = a
    BY <1>3, <1>4, <2>1
  <2>6. QED
    BY <1>2, <1>6, <2>3, <2>4, <2>5 DEF TR!Numbered
<1>9. ASSUME NEW t \in SessionThread
      PROVE  TR!Holds(emitter[t])'
  <2>1. emitter[t] \in TR!Emitter /\ ~TR!Emitting(t) /\ TR!Holds(emitter[t])
    BY DEF TR!IInv, TR!TypeOK, TR!Unsubscribe
  <2>2. emitter[t].pos = 0
    BY <2>1 DEF TR!Emitter, TR!Emitting
  <2>3. emitter[t].at = 0 /\ emitter[t].list = <<>>
    BY <2>1, <2>2 DEF TR!Holds
  <2>4. 0 \notin gone'
    <3>1. i # 0 /\ 0 \notin 1 .. subscriptions
      BY PartBounds DEF TR!Sub, TR!IInv, TR!TypeOK
    <3>2. QED
      BY <1>2, <3>1 DEF TR!IInv, TR!Numbered
  <2>5. QED
    BY <1>2, <2>2, <2>3, <2>4 DEF TR!Holds
<1>10. QED
  BY <1>7, <1>8, <1>9 DEF TR!IInv

LEMMA EmitterSteps ==
    ASSUME TR!IInv, NEW t \in SessionThread,
           \/ TR!AppendMessage(t) \/ \E p \in SendPolicy : TR!SetPolicy(t, p)
           \/ TR!emit_event(t) \/ TR!CallsBack(t) \/ TR!CallReturns(t) \/ TR!EmitEnds(t)
    PROVE  TR!IInv'
<1> DEFINE e == emitter[t]
<1>1. /\ e \in TR!Emitter /\ TR!Holds(e) /\ emitter \in [SessionThread -> TR!Emitter]
      /\ subscribers \in Seq(TR!Sub) /\ policy \in SendPolicy \cup {None}
      /\ emitted \in 0 .. MaxEmitted /\ MaxEmitted \in Nat /\ subscriptions \in Nat
  BY PartBounds DEF TR!IInv, TR!TypeOK
<1>2. /\ 0 \notin gone /\ 0 \notin TR!Sub
      /\ \A n \in DOMAIN subscribers : subscribers[n] \notin gone
  BY <1>1 DEF TR!IInv, TR!Numbered, TR!Sub
<1>3. /\ e.event \in SendPolicy \cup {None, "message"} /\ e.pos \in {0, 1}
      /\ e.at \in TR!Sub \cup {0} /\ e.list \in Seq(TR!Sub)
      /\ e.pos = 0 => e.at = 0 /\ e.list = <<>>
      /\ e.at # 0 => e.list # <<>>
      /\ e.at \notin gone
      /\ \A n \in DOMAIN e.list : e.list[n] \notin gone
  BY <1>1 DEF TR!Emitter, TR!Holds
<1>4. ASSUME NEW f \in TR!Emitter, emitter' = [emitter EXCEPT ![t] = f], TR!Holds(f),
             UNCHANGED <<subscribers, gone, subscriptions>>,
             policy' \in SendPolicy \cup {None}, emitted' \in {emitted, emitted + 1},
             emitted < MaxEmitted \/ emitted' = emitted
      PROVE  TR!IInv'
  <2>1. emitted' \in 0 .. MaxEmitted
    BY <1>1, <1>4
  <2>2. QED
    BY <1>4, <2>1, OneEmitter
<1>5. ASSUME e = TR!Rest, NEW v \in SendPolicy \cup {None, "message"},
             emitter' = [emitter EXCEPT ![t].event = v],
             UNCHANGED <<subscribers, gone, subscriptions>>,
             policy' \in SendPolicy \cup {None}, emitted < MaxEmitted, emitted' = emitted + 1
      PROVE  TR!IInv'
  <2> DEFINE f == [event |-> v, pos |-> 0, at |-> 0, list |-> <<>>]
  <2>1. emitter' = [emitter EXCEPT ![t] = f]
    <3>1. [e EXCEPT !.event = v] = f
      BY <1>5 DEF TR!Rest
    <3>2. QED
      BY <1>1, <1>5, <3>1
  <2>2. f \in TR!Emitter /\ TR!Holds(f)
    BY <1>2 DEF TR!Emitter, TR!Holds
  <2> HIDE DEF f
  <2>3. QED
    BY <1>4, <1>5, <2>1, <2>2
<1>6. CASE TR!AppendMessage(t)
  BY <1>1, <1>5, <1>6 DEF TR!AppendMessage
<1>7. ASSUME NEW p \in SendPolicy, TR!SetPolicy(t, p)
      PROVE  TR!IInv'
  BY <1>1, <1>5, <1>7 DEF TR!SetPolicy
<1>8. CASE TR!emit_event(t)
  <2> DEFINE f == [e EXCEPT !.pos = 1, !.list = subscribers]
  <2>1. f \in TR!Emitter /\ f.at = e.at /\ f.list = subscribers /\ f.pos = 1
    BY <1>1 DEF TR!Emitter
  <2>2. emitter' = [emitter EXCEPT ![t] = f]
    BY <1>1, <1>8 DEF TR!emit_event
  <2>3. e.pos = 0
    BY <1>3, <1>8 DEF TR!emit_event, TR!Emitting
  <2> HIDE DEF f
  <2>4. TR!Holds(f)
    BY <1>2, <1>3, <2>1, <2>3 DEF TR!Holds
  <2>5. QED
    BY <1>1, <1>4, <1>8, <2>1, <2>2, <2>4 DEF TR!emit_event
<1>9. CASE TR!CallsBack(t)
  <2> DEFINE f == [e EXCEPT !.at = Head(e.list)]
  <2>1. Head(e.list) \in TR!Sub /\ Head(e.list) \notin gone
    BY <1>3, <1>9 DEF TR!CallsBack
  <2>2. f \in TR!Emitter /\ f.at = Head(e.list) /\ f.list = e.list /\ f.pos = e.pos
    BY <1>1, <2>1 DEF TR!Emitter
  <2>3. TR!Holds(f) /\ emitter' = [emitter EXCEPT ![t] = f]
    BY <1>1, <1>3, <1>9, <2>1, <2>2 DEF TR!Holds, TR!CallsBack
  <2> HIDE DEF f
  <2>4. QED
    BY <1>1, <1>4, <1>9, <2>2, <2>3 DEF TR!CallsBack
<1>10. CASE TR!CallReturns(t)
  <2> DEFINE f == [e EXCEPT !.at = 0, !.list = Tail(e.list)]
  <2>1. e.pos # 0 /\ e.at # 0
    BY <1>3, <1>10 DEF TR!CallReturns
  <2>2. Tail(e.list) \in Seq(TR!Sub) /\ \A n \in DOMAIN Tail(e.list) : Tail(e.list)[n] \notin gone
    BY <1>3, <2>1
  <2>3. f \in TR!Emitter /\ f.at = 0 /\ f.list = Tail(e.list) /\ f.pos = e.pos
    BY <1>1, <2>2 DEF TR!Emitter
  <2>4. TR!Holds(f) /\ emitter' = [emitter EXCEPT ![t] = f]
    BY <1>1, <1>2, <1>10, <2>1, <2>2, <2>3 DEF TR!Holds, TR!CallReturns
  <2> HIDE DEF f
  <2>5. QED
    BY <1>1, <1>4, <1>10, <2>3, <2>4 DEF TR!CallReturns
<1>11. CASE TR!EmitEnds(t)
  <2>1. TR!Rest \in TR!Emitter /\ TR!Holds(TR!Rest)
    BY <1>2 DEF TR!Rest, TR!Emitter, TR!Holds
  <2>2. QED
    BY <1>1, <1>4, <1>11, <2>1 DEF TR!EmitEnds
<1>12. QED
  BY <1>6, <1>7, <1>8, <1>9, <1>10, <1>11

LEMMA TranscriptsKeep ==
    ASSUME TR!IInv, TR!Next \/ UNCHANGED transcriptsVars
    PROVE  TR!IInv'
<1>1. CASE UNCHANGED transcriptsVars
  BY <1>1 DEF transcriptsVars, TR!IInv, TR!TypeOK, TR!Numbered, TR!Holds
<1>2. CASE TR!Next
  BY <1>2, SubscribeKeeps, UnsubscribeKeeps, EmitterSteps DEF TR!Next
<1>3. QED
  BY <1>1, <1>2

-----------------------------------------------------------------------------
(* Devices *)

LEMMA DevicesInit ==
    ASSUME DV!Init
    PROVE  DV!IInv
<1> USE DEF DV!Init
<1>1. DV!TypeOK
  BY PartBounds DEF DV!TypeOK, DV!Token
<1>2. DOMAIN paired = {}
  OBVIOUS
<1>3. QED
  BY <1>1, <1>2 DEF DV!IInv, DV!HeldOnce

\* What is left of a vector are elements of it, each once.
LEMMA LeftIs ==
    ASSUME NEW S, NEW s \in Seq(S), NEW I \in SUBSET DOMAIN s, NEW u \in DV!Left(s, I)
    PROVE  /\ u \in Seq(S)
           /\ \E f \in [DOMAIN u -> I] : /\ \A k \in DOMAIN u : u[k] = s[f[k]]
                                         /\ \A j, k \in DOMAIN u : f[j] = f[k] => j = k
<1> DEFINE n == Cardinality(I)
<1>1. DV!Cardinality(I) = n
  BY DEF Cardinality, DV!Cardinality
<1>2. n \in Nat
  <2>1. I \in SUBSET (1 .. Len(s)) /\ Len(s) \in Nat
    OBVIOUS
  <2>2. IsFiniteSet(1 .. Len(s))
    BY <2>1, FS_Interval
  <2>3. QED
    BY <2>1, <2>2, FS_Subset, FS_CardinalityType
<1>3. PICK f \in [1 .. n -> I] :
        /\ \A j, k \in 1 .. n : j < k => f[j] < f[k]
        /\ u = [k \in 1 .. n |-> s[f[k]]]
  BY <1>1 DEF DV!Left
<1> HIDE DEF n
<1>4. DOMAIN u = 1 .. n /\ \A k \in 1 .. n : u[k] = s[f[k]] /\ u[k] \in S
  BY <1>3
<1>5. u \in Seq(S)
  <2>1. u \in [1 .. n -> S]
    BY <1>3, <1>4
  <2>2. QED
    BY <1>2, <2>1, SeqDef
<1>6. \A j, k \in 1 .. n : f[j] = f[k] => j = k
  <2>1. \A j \in 1 .. n : f[j] \in Nat
    BY <1>3
  <2>2. QED
    BY <1>2, <1>3, <2>1
<1>7. QED
  BY <1>3, <1>4, <1>5, <1>6

\* What a step must show that leaves the table of devices as it is.
LEMMA DevicesSame ==
    ASSUME DV!IInv, DV!TypeOK', UNCHANGED <<paired, owner, void>>
    PROVE  DV!IInv'
  BY DEF DV!IInv, DV!HeldOnce, DV!TokenOK, DV!Token

LEMMA AddPairingKeeps ==
    ASSUME DV!IInv, NEW d \in PairedDevice, NEW r \in DeviceRole, DV!AddPairingRequest(d, r)
    PROVE  DV!IInv'
<1>1. DV!TypeOK /\ MaxPairings \in Nat
  BY PartBounds DEF DV!IInv
<1>2. pairings' \in 0 .. MaxPairings /\ pairings' \in Nat
  BY <1>1 DEF DV!TypeOK, DV!AddPairingRequest
<1>3. [id |-> pairings', device |-> d, role |-> r] \in DV!Request
  BY <1>2 DEF DV!Request
<1>4. requests' \in Seq(DV!Request)
  BY <1>1, <1>3 DEF DV!TypeOK, DV!AddPairingRequest
<1>5. DV!TypeOK'
  BY <1>1, <1>2, <1>4 DEF DV!TypeOK, DV!AddPairingRequest, DV!Token
<1>6. QED
  BY <1>5, DevicesSame DEF DV!AddPairingRequest

LEMMA FindKeeps ==
    ASSUME DV!IInv, NEW c \in DeviceClient, NEW id \in 1 .. MaxPairings, DV!DevicePairApprove(c, id)
    PROVE  DV!IInv'
<1>1. DV!TypeOK
  BY DEF DV!IInv
<1>2. PICK i \in DOMAIN requests : found' = [found EXCEPT ![c] = requests[i]]
  BY DEF DV!DevicePairApprove, DV!FindPendingRequest
<1>3. requests[i] \in DV!Request
  BY <1>1, <1>2 DEF DV!TypeOK
<1>4. found' \in [DeviceClient -> DV!Request \cup {None}]
  BY <1>1, <1>2, <1>3 DEF DV!TypeOK
<1>5. DV!TypeOK'
  BY <1>1, <1>4 DEF DV!TypeOK, DV!DevicePairApprove, DV!Token
<1>6. QED
  BY <1>5, DevicesSame DEF DV!DevicePairApprove

LEMMA WithoutType ==
    ASSUME DV!TypeOK, NEW id, NEW u \in DV!Without(id)
    PROVE  u \in Seq(DV!Request)
<1>1. requests \in Seq(DV!Request)
  BY DEF DV!TypeOK
<1>2. {i \in DOMAIN requests : requests[i].id # id} \in SUBSET DOMAIN requests
  OBVIOUS
<1>3. QED
  BY <1>1, <1>2, LeftIs DEF DV!Without

LEMMA RejectKeeps ==
    ASSUME DV!IInv, NEW id, DV!RejectPairing(id)
    PROVE  DV!IInv'
<1>1. DV!TypeOK
  BY DEF DV!IInv
<1>2. requests' \in Seq(DV!Request)
  BY <1>1, WithoutType DEF DV!RejectPairing
<1>3. DV!TypeOK'
  BY <1>1, <1>2 DEF DV!TypeOK, DV!RejectPairing, DV!Token
<1>4. QED
  BY <1>3, DevicesSame DEF DV!RejectPairing

LEMMA RemoveKeeps ==
    ASSUME DV!IInv, NEW d \in PairedDevice, DV!RemovePairedDevice(d)
    PROVE  DV!IInv'
<1> DEFINE I == {i \in DOMAIN paired : paired[i].device # d}
<1>1. /\ DV!TypeOK /\ paired \in Seq(DV!Entry) /\ I \in SUBSET DOMAIN paired
      /\ paired' \in DV!Left(paired, I)
      /\ void' = void \cup {t \in DV!Token : owner[t] = d}
      /\ UNCHANGED <<requests, found, owner, pairings>>
  BY DEF DV!IInv, DV!TypeOK, DV!RemovePairedDevice
<1>2. paired' \in Seq(DV!Entry)
  BY <1>1, LeftIs
<1>3. PICK f \in [DOMAIN paired' -> I] :
        /\ \A k \in DOMAIN paired' : paired'[k] = paired[f[k]]
        /\ \A j, k \in DOMAIN paired' : f[j] = f[k] => j = k
  BY <1>1, LeftIs
<1>4. DV!TypeOK'
  BY <1>1, <1>2 DEF DV!TypeOK, DV!Token
<1>5. DV!HeldOnce'
  BY <1>3 DEF DV!IInv, DV!HeldOnce
<1>6. ASSUME NEW k \in DOMAIN paired'
      PROVE  DV!TokenOK(paired[k])'
  <2>1. DV!TokenOK(paired[f[k]]) /\ paired[f[k]].device # d
    BY <1>3 DEF DV!IInv
  <2>2. QED
    BY <1>1, <1>3, <2>1 DEF DV!TokenOK, DV!Token
<1>7. QED
  BY <1>4, <1>5, <1>6 DEF DV!IInv

\* The device and the tokens of each entry when one token of one of them changes.
LEMMA OneToken ==
    ASSUME paired \in Seq(DV!Entry), NEW i \in DOMAIN paired, NEW r \in DeviceRole,
           NEW x \in Nat \cup {None}
    PROVE  /\ DV!WithToken(i, r, x) \in Seq(DV!Entry)
           /\ DOMAIN DV!WithToken(i, r, x) = DOMAIN paired
           /\ \A j \in DOMAIN paired :
                /\ DV!WithToken(i, r, x)[j].device = paired[j].device
                /\ \A q \in DeviceRole :
                     DV!WithToken(i, r, x)[j].tokens[q] =
                       IF j = i /\ q = r THEN x ELSE paired[j].tokens[q]
<1> DEFINE u == DV!WithToken(i, r, x)
           e == paired[i]
           f == [e EXCEPT !.tokens = [e.tokens EXCEPT ![r] = x]]
<1>1. e \in DV!Entry
  OBVIOUS
<1>2. e.tokens \in [DeviceRole -> Nat \cup {None}]
  BY <1>1 DEF DV!Entry
<1>3. [e.tokens EXCEPT ![r] = x] \in [DeviceRole -> Nat \cup {None}]
  BY <1>2
<1>4. f \in DV!Entry /\ f.device = e.device /\ f.tokens = [e.tokens EXCEPT ![r] = x]
  BY <1>1, <1>3 DEF DV!Entry
<1>5. \A q \in DeviceRole : f.tokens[q] = IF q = r THEN x ELSE e.tokens[q]
  BY <1>2, <1>4
<1>6. DV!WithToken(i, r, x) = [paired EXCEPT ![i] = f]
  BY DEF DV!WithToken
<1> HIDE DEF f
<1>7. DOMAIN u = DOMAIN paired /\ \A j \in DOMAIN paired : u[j] = IF j = i THEN f ELSE paired[j]
  BY <1>6
<1>8. u \in Seq(DV!Entry)
  BY <1>4, <1>6
<1>9. QED
  BY <1>4, <1>5, <1>7, <1>8

LEMMA RotateKeeps ==
    ASSUME DV!IInv, NEW d \in PairedDevice, NEW r \in DeviceRole, DV!RotateDeviceToken(d, r)
    PROVE  DV!IInv'
<1> DEFINE n == Len(owner) + 1
<1>1. /\ paired \in Seq(DV!Entry) /\ owner \in Seq(PairedDevice) /\ Len(owner) \in Nat
      /\ void \subseteq DV!Token /\ DV!TypeOK /\ DV!HeldOnce
      /\ DV!Token = 1 .. Len(owner) /\ MaxTokens \in Nat
      /\ None \notin Nat
  BY PartBounds, PartNames DEF DV!IInv, DV!TypeOK, DV!Token
<1>2. PICK i \in DOMAIN paired :
        /\ paired[i].device = d /\ Len(owner) < MaxTokens
        /\ owner' = Append(owner, d)
        /\ paired' = DV!WithToken(i, r, Len(owner'))
        /\ void' = void \cup ({paired[i].tokens[r]} \ {None})
        /\ UNCHANGED <<requests, found, pairings>>
  BY DEF DV!RotateDeviceToken, DV!FindPairedDevice
<1>3. /\ owner' \in Seq(PairedDevice) /\ Len(owner') = n /\ owner'[n] = d
      /\ \A t \in 1 .. Len(owner) : owner'[t] = owner[t]
      /\ n \in Nat /\ n \notin DV!Token /\ DV!Token' = 1 .. n /\ DV!Token \subseteq 1 .. n
      /\ n \in 1 .. n
  BY <1>1, <1>2 DEF DV!Token
<1>4. /\ paired' \in Seq(DV!Entry) /\ DOMAIN paired' = DOMAIN paired
      /\ \A j \in DOMAIN paired : /\ paired'[j].device = paired[j].device
                                  /\ \A q \in DeviceRole :
                                       paired'[j].tokens[q] =
                                         IF j = i /\ q = r THEN n ELSE paired[j].tokens[q]
  <2>1. paired \in Seq(DV!Entry) /\ n \in Nat \cup {None}
    BY <1>1, <1>3
  <2>2. paired' = DV!WithToken(i, r, n)
    BY <1>2, <1>3
  <2> HIDE DEF n
  <2>3. PICK x \in Nat \cup {None} : x = n
    BY <2>1
  <2>4. /\ DV!WithToken(i, r, x) \in Seq(DV!Entry)
        /\ DOMAIN DV!WithToken(i, r, x) = DOMAIN paired
        /\ \A j \in DOMAIN paired :
             /\ DV!WithToken(i, r, x)[j].device = paired[j].device
             /\ \A q \in DeviceRole :
                  DV!WithToken(i, r, x)[j].tokens[q] =
                    IF j = i /\ q = r THEN x ELSE paired[j].tokens[q]
    BY <2>1, OneToken
  <2>5. paired' = DV!WithToken(i, r, x)
    BY <2>2, <2>3
  <2>6. QED
    BY <2>3, <2>4, <2>5
<1>5. \A j \in DOMAIN paired : \A q \in DeviceRole : paired[j].tokens[q] # None =>
        /\ paired[j].tokens[q] \in DV!Token \ void
        /\ owner[paired[j].tokens[q]] = paired[j].device
  BY DEF DV!IInv, DV!TokenOK
<1> HIDE DEF n
<1>6. void' \subseteq DV!Token
  BY <1>1, <1>2, <1>5
<1>7. DV!TypeOK'
  <2>1. paired' \in Seq(DV!Entry) /\ owner' \in Seq(PairedDevice)
    BY <1>3, <1>4
  <2>2. UNCHANGED <<requests, found, pairings>>
    BY <1>2
  <2>3. Len(owner') <= MaxTokens
    BY <1>1, <1>2, <1>3 DEF n
  <2>4. void' \subseteq DV!Token'
    BY <1>1, <1>3, <1>6
  <2>5. requests \in Seq(DV!Request) /\ found \in [DeviceClient -> DV!Request \cup {None}]
        /\ pairings \in 0 .. MaxPairings
    BY <1>1 DEF DV!TypeOK
  <2>6. QED
    BY <2>1, <2>2, <2>3, <2>4, <2>5 DEF DV!TypeOK
<1>8. DV!HeldOnce'
  <2> SUFFICES ASSUME NEW j \in DOMAIN paired, NEW k \in DOMAIN paired,
                      NEW q \in DeviceRole, NEW x \in DeviceRole,
                      paired'[j].tokens[q] # None, paired'[j].tokens[q] = paired'[k].tokens[x]
               PROVE  j = k /\ q = x
    BY <1>4 DEF DV!HeldOnce
  <2>1. CASE ~(j = i /\ q = r) /\ ~(k = i /\ x = r)
    BY <1>1, <1>4, <2>1 DEF DV!HeldOnce
  <2>2. CASE (j = i /\ q = r) /\ ~(k = i /\ x = r)
    BY <1>1, <1>3, <1>4, <1>5, <2>2
  <2>3. CASE ~(j = i /\ q = r) /\ (k = i /\ x = r)
    BY <1>1, <1>3, <1>4, <1>5, <2>3
  <2>4. QED
    BY <2>1, <2>2, <2>3
<1>9. ASSUME NEW j \in DOMAIN paired
      PROVE  DV!TokenOK(paired[j])'
  <2>1. ASSUME NEW q \in DeviceRole, paired'[j].tokens[q] # None
        PROVE  /\ paired'[j].tokens[q] \in DV!Token' \ void'
               /\ owner'[paired'[j].tokens[q]] = paired'[j].device
    <3>1. CASE j = i /\ q = r
      BY <1>1, <1>2, <1>3, <1>4, <1>6, <3>1
    <3>2. CASE ~(j = i /\ q = r)
      <4>1. paired'[j].tokens[q] = paired[j].tokens[q] /\ paired'[j].device = paired[j].device
        BY <1>4, <3>2
      <4>2. paired[j].tokens[q] # paired[i].tokens[r]
        BY <1>1, <2>1, <3>2, <4>1 DEF DV!HeldOnce
      <4>3. QED
        BY <1>1, <1>2, <1>3, <1>5, <2>1, <4>1, <4>2
    <3>3. QED
      BY <3>1, <3>2
  <2>2. QED
    BY <2>1 DEF DV!TokenOK
<1>10. QED
  BY <1>4, <1>7, <1>8, <1>9 DEF DV!IInv

LEMMA RevokeKeeps ==
    ASSUME DV!IInv, NEW d \in PairedDevice, NEW r \in DeviceRole, DV!RevokeDeviceToken(d, r)
    PROVE  DV!IInv'
<1>1. paired \in Seq(DV!Entry) /\ DV!TypeOK /\ DV!HeldOnce
  BY DEF DV!IInv, DV!TypeOK
<1>2. PICK i \in DOMAIN paired :
        /\ paired[i].tokens[r] # None
        /\ paired' = DV!WithToken(i, r, None)
        /\ void' = void \cup {paired[i].tokens[r]}
        /\ UNCHANGED <<requests, found, owner, pairings>>
  BY DEF DV!RevokeDeviceToken, DV!FindPairedDevice
<1>3. /\ paired' \in Seq(DV!Entry) /\ DOMAIN paired' = DOMAIN paired
      /\ \A j \in DOMAIN paired : /\ paired'[j].device = paired[j].device
                                  /\ \A q \in DeviceRole :
                                       paired'[j].tokens[q] =
                                         IF j = i /\ q = r THEN None ELSE paired[j].tokens[q]
  <2>1. PICK x \in Nat \cup {None} : x = None
    OBVIOUS
  <2>2. paired' = DV!WithToken(i, r, x) /\ paired \in Seq(DV!Entry)
    BY <1>1, <1>2, <2>1
  <2>3. QED
    BY <2>1, <2>2, OneToken
<1>4. \A j \in DOMAIN paired : \A q \in DeviceRole : paired[j].tokens[q] # None =>
        /\ paired[j].tokens[q] \in DV!Token \ void
        /\ owner[paired[j].tokens[q]] = paired[j].device
  BY DEF DV!IInv, DV!TokenOK
<1>5. DV!Token' = DV!Token
  BY <1>2 DEF DV!Token
<1>6. DV!TypeOK'
  BY <1>1, <1>2, <1>3, <1>4, <1>5 DEF DV!TypeOK
<1>7. DV!HeldOnce'
  BY <1>1, <1>3 DEF DV!HeldOnce
<1>8. ASSUME NEW j \in DOMAIN paired
      PROVE  DV!TokenOK(paired[j])'
  <2>1. ASSUME NEW q \in DeviceRole, paired'[j].tokens[q] # None
        PROVE  /\ paired'[j].tokens[q] \in DV!Token' \ void'
               /\ owner'[paired'[j].tokens[q]] = paired'[j].device
    <3>1. /\ paired'[j].tokens[q] = paired[j].tokens[q] /\ paired'[j].device = paired[j].device
          /\ ~(j = i /\ q = r)
      BY <1>3, <2>1
    <3>2. paired[j].tokens[q] # paired[i].tokens[r]
      BY <1>1, <2>1, <3>1 DEF DV!HeldOnce
    <3>3. QED
      BY <1>2, <1>4, <1>5, <2>1, <3>1, <3>2
  <2>2. QED
    BY <2>1 DEF DV!TokenOK
<1>9. QED
  BY <1>3, <1>6, <1>7, <1>8 DEF DV!IInv

\* The new token has a number that no other has.
LEMMA ApproveKeeps ==
    ASSUME DV!IInv, NEW c \in DeviceClient, DV!ApprovePairing(c)
    PROVE  DV!IInv'
<1> DEFINE n == Len(owner) + 1
           m == Len(paired) + 1
           q == found[c]
           e == [device |-> q.device, tokens |-> [x \in DeviceRole |-> IF x = q.role THEN n ELSE None]]
<1>1. /\ paired \in Seq(DV!Entry) /\ owner \in Seq(PairedDevice) /\ Len(owner) \in Nat
      /\ void \subseteq DV!Token /\ DV!TypeOK /\ DV!HeldOnce
      /\ DV!Token = 1 .. Len(owner) /\ MaxTokens \in Nat /\ found \in [DeviceClient -> DV!Request \cup {None}]
  BY PartBounds DEF DV!IInv, DV!TypeOK, DV!Token
<1>2. q \in DV!Request /\ q.device \in PairedDevice
  BY <1>1 DEF DV!Request, DV!ApprovePairing
<1>3. /\ Len(owner) < MaxTokens /\ owner' = Append(owner, q.device)
      /\ paired' = Append(paired, e) /\ requests' \in DV!Without(q.id)
      /\ found' = [found EXCEPT ![c] = None] /\ UNCHANGED <<void, pairings>>
  BY DEF DV!ApprovePairing
<1>4. /\ owner' \in Seq(PairedDevice) /\ Len(owner') = n /\ owner'[n] = q.device
      /\ \A t \in 1 .. Len(owner) : owner'[t] = owner[t]
      /\ n \in Nat /\ n \notin DV!Token /\ DV!Token' = 1 .. n /\ DV!Token \subseteq 1 .. n
      /\ n \in 1 .. n
  BY <1>1, <1>2, <1>3 DEF DV!Token
<1>5. /\ e \in DV!Entry /\ e.device = q.device
      /\ \A x \in DeviceRole : e.tokens[x] = IF x = q.role THEN n ELSE None
  BY <1>2, <1>4 DEF DV!Entry
<1>6. requests' \in Seq(DV!Request) /\ found' \in [DeviceClient -> DV!Request \cup {None}]
  BY <1>1, <1>3, WithoutType
<1> HIDE DEF e
<1>7. /\ paired' \in Seq(DV!Entry) /\ DOMAIN paired' = 1 .. m /\ DOMAIN paired = 1 .. (m - 1)
      /\ \A j \in 1 .. m : j # m => j \in DOMAIN paired /\ paired'[j] = paired[j]
      /\ paired'[m] = e
  BY <1>1, <1>3, <1>5
<1>8. \A j \in DOMAIN paired : \A r \in DeviceRole : paired[j].tokens[r] # None =>
        /\ paired[j].tokens[r] \in DV!Token \ void
        /\ owner[paired[j].tokens[r]] = paired[j].device
  BY DEF DV!IInv, DV!TokenOK
<1> HIDE DEF n, m, q
<1>9. DV!TypeOK'
  BY <1>1, <1>3, <1>4, <1>6, <1>7 DEF DV!TypeOK, n
<1>10. DV!HeldOnce'
  <2> SUFFICES ASSUME NEW i \in 1 .. m, NEW j \in 1 .. m, NEW r \in DeviceRole, NEW x \in DeviceRole,
                      paired'[i].tokens[r] # None, paired'[i].tokens[r] = paired'[j].tokens[x]
               PROVE  i = j /\ r = x
    BY <1>7 DEF DV!HeldOnce
  <2>1. CASE i # m /\ j # m
    <3>1. /\ i \in DOMAIN paired /\ paired'[i] = paired[i]
          /\ j \in DOMAIN paired /\ paired'[j] = paired[j]
      BY <1>7, <2>1
    <3>2. QED
      BY <1>1, <3>1 DEF DV!HeldOnce
  <2>2. CASE i = m /\ j # m
    BY <1>4, <1>5, <1>7, <1>8, <2>2
  <2>3. CASE i # m /\ j = m
    BY <1>4, <1>5, <1>7, <1>8, <2>3
  <2>4. CASE i = m /\ j = m
    BY <1>5, <1>7, <2>4
  <2>5. QED
    BY <2>1, <2>2, <2>3, <2>4
<1>11. ASSUME NEW j \in 1 .. m
       PROVE  DV!TokenOK(paired[j])'
  <2>1. CASE j = m
    BY <1>1, <1>3, <1>4, <1>5, <1>7, <2>1 DEF DV!TokenOK
  <2>2. CASE j # m
    <3>1. paired'[j] = paired[j] /\ j \in DOMAIN paired
      BY <1>7, <2>2
    <3>2. ASSUME NEW r \in DeviceRole, paired[j].tokens[r] # None
          PROVE  /\ paired[j].tokens[r] \in DV!Token' \ void'
                 /\ owner'[paired[j].tokens[r]] = paired[j].device
      <4>1. paired[j].tokens[r] \in DV!Token \ void /\ owner[paired[j].tokens[r]] = paired[j].device
        BY <1>8, <3>1, <3>2
      <4>2. QED
        BY <1>1, <1>3, <1>4, <4>1
    <3>3. QED
      BY <3>1, <3>2 DEF DV!TokenOK
  <2>3. QED
    BY <2>1, <2>2
<1>12. QED
  BY <1>7, <1>9, <1>10, <1>11 DEF DV!IInv

LEMMA DevicesKeep ==
    ASSUME DV!IInv, DV!Next \/ UNCHANGED devicesVars
    PROVE  DV!IInv'
<1>1. CASE UNCHANGED devicesVars
  BY <1>1 DEF devicesVars, DV!IInv, DV!TypeOK, DV!HeldOnce, DV!TokenOK, DV!Token
<1>2. CASE DV!Next
  <2>1. ASSUME NEW c \in DeviceClient, NEW id \in 1 .. MaxPairings,
               DV!DevicePairApprove(c, id) \/ DV!DevicePairReject(c, id)
        PROVE  DV!IInv'
    BY <2>1, FindKeeps, RejectKeeps DEF DV!DevicePairReject
  <2>2. ASSUME NEW c \in DeviceClient, NEW d \in PairedDevice, DV!DevicePairRemove(c, d)
        PROVE  DV!IInv'
    BY <2>2, RemoveKeeps DEF DV!DevicePairRemove
  <2>3. ASSUME NEW c \in DeviceClient, NEW d \in PairedDevice, NEW r \in DeviceRole,
               DV!DeviceTokenRotate(c, d, r) \/ DV!DeviceTokenRevoke(c, d, r)
        PROVE  DV!IInv'
    BY <2>3, RotateKeeps, RevokeKeeps DEF DV!DeviceTokenRotate, DV!DeviceTokenRevoke
  <2>4. QED
    BY <1>2, <2>1, <2>2, <2>3, AddPairingKeeps, ApproveKeeps DEF DV!Next
<1>3. QED
  BY <1>1, <1>2

-----------------------------------------------------------------------------
(* Plugins *)

LEMMA PluginsInit ==
    ASSUME PL!Init
    PROVE  PL!IInv
<1>1. DOMAIN plugins = 1 .. 0 /\ 0 \in Nat
  BY DEF PL!Init
<1>2. reloads \in Nat /\ PL!DeniedStayOff
  BY <1>1 DEF PL!Init, PL!DeniedStayOff
<1>3. QED
  BY <1>1, <1>2 DEF PL!IInv

LEMMA FiniteNumber ==
    ASSUME NEW S, IsFiniteSet(S), NEW T, T \subseteq S
    PROVE  PL!Cardinality(T) \in Nat
<1>1. PL!Cardinality(T) = Cardinality(T)
  BY DEF Cardinality, PL!Cardinality
<1>2. QED
  BY <1>1, FS_Subset, FS_CardinalityType

\* What the registry may enable under a configuration.
LEMMA EnabledIsAllowed ==
    ASSUME NEW c, NEW d, NEW ps \in PL!Discover(c, d)
    PROVE  /\ Len(ps) \in Nat /\ DOMAIN ps = 1 .. Len(ps)
           /\ \A i \in DOMAIN ps : ps[i].enabled =>
                /\ c.on /\ ps[i].id \notin c.deny
                /\ c.allow = {} \/ ps[i].id \in c.allow
<1> DEFINE from == PL!discover_candidates(d)
           n == PL!Cardinality(DOMAIN from)
           R(id) == PL!Record(id, from[id], PL!should_enable(c, id, from[id]))
<1>1. PICK ids : ps = [k \in 1 .. n |-> R(ids[k])]
  BY DEF PL!Discover
<1>2. n \in Nat
  <2>1. DOMAIN from \subseteq PluginId
    BY DEF PL!discover_candidates
  <2>2. QED
    BY <2>1, PartNames, FiniteNumber
<1>3. ASSUME NEW i \in 1 .. n, ps[i].enabled
      PROVE  c.on /\ ps[i].id \notin c.deny /\ (c.allow = {} \/ ps[i].id \in c.allow)
  <2>1. ps[i] = R(ids[i])
    BY <1>1
  <2>2. R(ids[i]).id = ids[i] /\ (R(ids[i]).enabled = PL!should_enable(c, ids[i], from[ids[i]]))
    BY DEF PL!Record
  <2>3. PL!should_enable(c, ids[i], from[ids[i]])
    BY <1>3, <2>1, <2>2
  <2> HIDE DEF R
  <2>4. QED
    BY <2>1, <2>2, <2>3 DEF PL!should_enable
<1> HIDE DEF n, R
<1>4. QED
  BY <1>1, <1>2, <1>3

\* What the sidecar reports enables no plugin that the registry has, and adds
\* plugins that it does not have.
LEMMA ReportsEnableStrays ==
    ASSUME NEW ps, Len(ps) \in Nat, DOMAIN ps = 1 .. Len(ps),
           NEW listed, NEW S, IsFiniteSet(S), listed \ {ps[i].id : i \in DOMAIN ps} \subseteq S,
           NEW us \in PL!UpdateFromSidecar(ps, listed), NEW i \in DOMAIN us
    PROVE  \/ us[i].id \in S
           \/ /\ i \in DOMAIN ps
              /\ us[i].id = ps[i].id
              /\ us[i].enabled => ps[i].enabled
<1> DEFINE fresh == listed \ {ps[k].id : k \in DOMAIN ps}
           With(r) == IF r.id \in listed THEN [r EXCEPT !.tools = @ \cup SidecarTools[r.id]] ELSE r
           n == PL!Cardinality(fresh)
           R(order, k) == IF k <= Len(ps) THEN ps[k] ELSE PL!Record(order[k - Len(ps)], "config", TRUE)
<1>1. PICK order \in [1 .. n -> fresh] : us = [k \in 1 .. (Len(ps) + n) |-> With(R(order, k))]
  BY DEF PL!UpdateFromSidecar
<1>2. n \in Nat
  BY FiniteNumber
<1>3. i \in 1 .. (Len(ps) + n) /\ us[i] = With(R(order, i))
  BY <1>1
<1>4. CASE i <= Len(ps)
  <2>1. i \in DOMAIN ps /\ us[i] = With(ps[i])
    BY <1>2, <1>3, <1>4
  <2>2. With(ps[i]).id = ps[i].id /\ (With(ps[i]).enabled => ps[i].enabled)
    OBVIOUS
  <2>3. QED
    BY <2>1, <2>2
<1>5. CASE i > Len(ps)
  <2>1. us[i] = With(PL!Record(order[i - Len(ps)], "config", TRUE)) /\ i - Len(ps) \in 1 .. n
    <3> HIDE DEF n, With
    <3>1. ~(i <= Len(ps)) /\ i - Len(ps) \in 1 .. n
      BY <1>2, <1>3, <1>5
    <3>2. QED
      BY <1>3, <3>1
  <2>2. order[i - Len(ps)] \in S
    BY <1>1, <2>1
  <2>3. us[i].id = order[i - Len(ps)]
    BY <2>1 DEF PL!Record
  <2>4. QED
    BY <2>2, <2>3
<1>6. i \in Int
  <2> HIDE DEF n
  <2>1. QED
    BY <1>2, <1>3
<1>7. QED
  BY <1>4, <1>5, <1>6

LEMMA ReportsListed ==
    ASSUME NEW ps, Len(ps) \in Nat,
           NEW listed, NEW S, IsFiniteSet(S), listed \ {ps[i].id : i \in DOMAIN ps} \subseteq S,
           NEW us \in PL!UpdateFromSidecar(ps, listed)
    PROVE  \E n \in Nat : DOMAIN us = 1 .. n
<1> DEFINE fresh == listed \ {ps[k].id : k \in DOMAIN ps}
<1>1. PL!Cardinality(fresh) \in Nat
  BY FiniteNumber
<1>2. DOMAIN us = 1 .. (Len(ps) + PL!Cardinality(fresh))
  BY DEF PL!UpdateFromSidecar
<1> HIDE DEF fresh
<1>3. QED
  BY <1>1, <1>2

LEMMA InitializeKeeps ==
    ASSUME PL!IInv, PL!InitializeAlone \/ PL!InitializeWithSidecar
    PROVE  PL!IInv'
<1>1. CASE PL!InitializeAlone
  <2>1. PL!DeniedStayOff' /\ reloads' \in Nat
    BY <1>1, EnabledIsAllowed DEF PL!InitializeAlone, PL!IInv, PL!DeniedStayOff
  <2>2. \E n \in Nat : DOMAIN plugins' = 1 .. n
    BY <1>1, EnabledIsAllowed DEF PL!InitializeAlone
  <2>3. QED
    BY <2>1, <2>2 DEF PL!IInv
<1>2. CASE PL!InitializeWithSidecar
  <2>1. PICK ps \in PL!Discover(pluginConfig, disk) :
          /\ told' = PL!EnabledPluginIds(ps)
          /\ \/ plugins' = ps
             \/ \E listed \in SUBSET (told' \cup StrayId) : plugins' \in PL!UpdateFromSidecar(ps, listed)
    BY <1>2 DEF PL!InitializeWithSidecar
  <2>2. /\ Len(ps) \in Nat /\ DOMAIN ps = 1 .. Len(ps)
        /\ \A i \in DOMAIN ps : ps[i].enabled =>
                /\ pluginConfig.on /\ ps[i].id \notin pluginConfig.deny
                /\ pluginConfig.allow = {} \/ ps[i].id \in pluginConfig.allow
    BY <2>1, EnabledIsAllowed
  <2>3. began' = pluginConfig /\ UNCHANGED <<pluginConfig, reloads>>
    BY <1>2 DEF PL!InitializeWithSidecar
  <2>4. \A id \in told' : /\ pluginConfig.on /\ id \notin pluginConfig.deny
                          /\ pluginConfig.allow = {} \/ id \in pluginConfig.allow
    BY <2>1, <2>2 DEF PL!EnabledPluginIds
  <2>5. ASSUME NEW i \in DOMAIN plugins', plugins'[i].id \in pluginConfig.deny \cap PluginId
        PROVE  ~plugins'[i].enabled
    <3>1. CASE plugins' = ps
      BY <2>2, <2>5, <3>1
    <3>2. ASSUME NEW listed \in SUBSET (told' \cup StrayId), plugins' \in PL!UpdateFromSidecar(ps, listed)
          PROVE  ~plugins'[i].enabled
      <4>1. listed \ {ps[k].id : k \in DOMAIN ps} \subseteq StrayId
        BY <2>1 DEF PL!EnabledPluginIds
      <4>2. plugins'[i].id \notin StrayId
        BY <2>5, PartNames
      <4>3. PICK us \in PL!UpdateFromSidecar(ps, listed) : us = plugins'
        BY <3>2
      <4>4. IsFiniteSet(StrayId)
        BY PartNames
      <4>5. \/ us[i].id \in StrayId
            \/ /\ i \in DOMAIN ps
               /\ us[i].id = ps[i].id
               /\ us[i].enabled => ps[i].enabled
        BY <2>2, <2>5, <4>1, <4>3, <4>4, ReportsEnableStrays
      <4>6. QED
        BY <2>2, <2>5, <4>2, <4>3, <4>5
    <3>3. QED
      BY <2>1, <3>1, <3>2
  <2>6. \E n \in Nat : DOMAIN plugins' = 1 .. n
    <3>1. CASE plugins' = ps
      BY <2>2, <3>1
    <3>2. ASSUME NEW listed \in SUBSET (told' \cup StrayId), plugins' \in PL!UpdateFromSidecar(ps, listed)
          PROVE  \E n \in Nat : DOMAIN plugins' = 1 .. n
      <4>1. listed \ {ps[k].id : k \in DOMAIN ps} \subseteq StrayId
        BY <2>1 DEF PL!EnabledPluginIds
      <4>2. PICK us \in PL!UpdateFromSidecar(ps, listed) : us = plugins'
        BY <3>2
      <4>3. IsFiniteSet(StrayId)
        BY PartNames
      <4>4. \E n \in Nat : DOMAIN us = 1 .. n
        BY <2>2, <4>1, <4>2, <4>3, ReportsListed
      <4>5. QED
        BY <4>2, <4>4
    <3>3. QED
      BY <2>1, <3>1, <3>2
  <2>7. PL!DeniedStayOff'
    BY <2>3, <2>4, <2>5 DEF PL!IInv, PL!DeniedStayOff
  <2>8. QED
    BY <2>3, <2>6, <2>7 DEF PL!IInv
<1>3. QED
  BY <1>1, <1>2

LEMMA PluginsKeep ==
    ASSUME PL!IInv, PL!Next \/ UNCHANGED pluginsVars
    PROVE  PL!IInv'
<1>1. ASSUME UNCHANGED <<pluginConfig, plugins, told, began, reloads>>
      PROVE  PL!IInv'
  BY <1>1 DEF PL!IInv, PL!DeniedStayOff
<1>2. ASSUME NEW c, PL!Reload(c)
      PROVE  PL!IInv'
  <2>1. PL!DeniedStayOff' /\ reloads' \in Nat
    BY <1>2 DEF PL!Reload, PL!IInv, PL!DeniedStayOff
  <2>2. \E n \in Nat : DOMAIN plugins' = 1 .. n
    BY <1>2, EnabledIsAllowed DEF PL!Reload
  <2>3. QED
    BY <2>1, <2>2 DEF PL!IInv
<1>3. ASSUME NEW id, NEW enabled, PL!SetPluginEnabled(id, enabled)
      PROVE  PL!IInv'
  <2>1. PL!DeniedStayOff' /\ reloads' \in Nat
    BY <1>3 DEF PL!SetPluginEnabled, PL!IInv, PL!DeniedStayOff
  <2>2. DOMAIN plugins' = DOMAIN plugins
    BY <1>3 DEF PL!SetPluginEnabled
  <2>3. QED
    BY <2>1, <2>2 DEF PL!IInv
<1>4. CASE PL!Shutdown \/ PL!SidecarLost \/ PL!SidecarBack \/ UNCHANGED pluginsVars
  BY <1>1, <1>4 DEF PL!Shutdown, PL!SidecarLost, PL!SidecarBack, pluginsVars
<1>5. CASE PL!PluginMethods \/ PL!PluginRoutes \/ PL!ListSidecarPlugins \/ PL!HandleCli
  BY <1>1, <1>5
  DEF PL!PluginMethods, PL!PluginRoutes, PL!ListSidecarPlugins, PL!HandleCli, PL!GetToolSchemas,
      PL!ListServices, PL!ListProviders, PL!ListCommands, PL!ListGatewayMethods, PL!CallTool,
      PL!StartService, PL!StopService, PL!ExecuteCommand, PL!CallToolUnnamed, PL!HandleHttp,
      PL!Lists, PL!Acts
<1>6. QED
  BY <1>2, <1>3, <1>4, <1>5, InitializeKeeps DEF PL!Next

\* A tool is in conflict exactly if it has more than one provider.
LEMMA ConflictsNamed ==
    ASSUME PL!IInv
    PROVE  PL!ConflictsAreNamed
<1> SUFFICES ASSUME NEW t \in PluginTool
             PROVE  t \in PL!ToolConflicts <=> PL!ResolveToolName(t) # <<t>>
  BY DEF PL!ConflictsAreNamed
<1> DEFINE I == PL!Providing(t)
<1>1. PICK n \in Nat : DOMAIN plugins = 1 .. n
  BY DEF PL!IInv
<1>2. I \subseteq 1 .. n /\ PL!Cardinality(I) = Cardinality(I)
  BY <1>1 DEF PL!Providing, Cardinality, PL!Cardinality
<1>3. IsFiniteSet(I) /\ Cardinality(I) \in Nat
  <2>1. IsFiniteSet(1 .. n)
    BY <1>1, FS_Interval
  <2>2. IsFiniteSet(I)
    BY <1>2, <2>1, FS_Subset
  <2>3. QED
    BY <2>2, FS_CardinalityType
<1>4. t \in PL!ToolConflicts <=> \E i, j \in I : i # j
  BY <1>1 DEF PL!ToolConflicts, PL!Providing
<1>5. PL!ResolveToolName(t) # <<t>> <=> Cardinality(I) > 1
  BY <1>2, <1>3 DEF PL!ResolveToolName
<1> HIDE DEF I
<1>6. CASE I = {}
  BY <1>3, <1>4, <1>5, <1>6, FS_EmptySet
<1>7. CASE I # {}
  <2>1. PICK i \in I : TRUE
    BY <1>7
  <2>2. IsFiniteSet(I \ {i}) /\ Cardinality(I \ {i}) = Cardinality(I) - 1
    BY <1>3, <2>1, FS_RemoveElement
  <2>3. I \ {i} = {} <=> Cardinality(I \ {i}) = 0
    BY <2>2, FS_EmptySet
  <2>4. (\E j, k \in I : j # k) <=> I \ {i} # {}
    BY <2>1
  <2>5. Cardinality(I) > 1 <=> Cardinality(I \ {i}) # 0
    <3>1. Cardinality(I \ {i}) \in Nat
      BY <2>2, FS_CardinalityType
    <3>2. QED
      BY <1>3, <2>2, <3>1
  <2>6. QED
    BY <1>4, <1>5, <2>3, <2>4, <2>5
<1>8. QED
  BY <1>6, <1>7

-----------------------------------------------------------------------------
(* ToolChain *)

LEMMA NoChainTold == TC!Told(TC!NoChain, <<>>)
  BY PartBounds DEF TC!Told, TC!NoChain, TC!ChainState

\* The parts of a chain that an attempt or a step changes.
LEMMA PlaceChanged ==
    ASSUME NEW ch \in TC!ChainState, NEW n \in Nat, NEW at \in {"idle", "step", "run", "done"}
    PROVE  LET new == [ch EXCEPT !.attempts = n, !.at = at]
           IN  /\ new \in TC!ChainState /\ new.results = ch.results /\ new.at = at
               /\ new.steps = ch.steps
  BY DEF TC!ChainState

\* A chain that begins with these steps.
WithSteps(ch, s, p, r) == [ch EXCEPT !.at = "step", !.steps = s, !.policy = p, !.retries = r]

LEMMA ChainBegun ==
    ASSUME NEW ch \in TC!ChainState, NEW s \in Seq(TC!Tool), NEW p \in ErrorPolicy, NEW r \in Nat
    PROVE  LET b == WithSteps(ch, s, p, r)
           IN  b \in TC!ChainState /\ b.at = "step" /\ b.steps = s /\ b.results = ch.results
<1>1. p \in ErrorPolicy \cup {"none"}
  OBVIOUS
<1>2. QED
  BY <1>1 DEF TC!ChainState, WithSteps

LEMMA ChainInit ==
    ASSUME TC!Init
    PROVE  TC!IInv
<1>1. /\ chain = [c \in ChainClient |-> TC!NoChain] /\ worked = [c \in ChainClient |-> <<>>]
  BY DEF TC!Init
<1>2. QED
  BY <1>1, NoChainTold DEF TC!IInv

\* A step of one client's chain need only show the new state of that chain.
LEMMA OneChain ==
    ASSUME TC!IInv, NEW c \in ChainClient, NEW ch, NEW w, TC!Told(ch, w),
           DOMAIN chain' = ChainClient, DOMAIN worked' = ChainClient,
           chain'[c] = ch, worked'[c] = w,
           \A d \in ChainClient \ {c} : chain'[d] = chain[d] /\ worked'[d] = worked[d]
    PROVE  TC!IInv'
<1>1. \A d \in ChainClient : TC!Told(chain[d], worked[d])
  BY DEF TC!IInv
<1>2. ASSUME NEW d \in ChainClient
      PROVE  TC!Told(chain'[d], worked'[d])
  <2>1. CASE d = c
    BY <2>1
  <2>2. CASE d # c
    BY <2>2, <1>1
  <2>3. QED
    BY <2>1, <2>2
<1>3. TC!IInv' <=>
        /\ DOMAIN chain' = ChainClient /\ DOMAIN worked' = ChainClient
        /\ \A d \in ChainClient : TC!Told(chain'[d], worked'[d])
  BY DEF TC!IInv, TC!Told, TC!ChainState, TC!Tool
<1>4. QED
  BY <1>2, <1>3

\* A chain whose step has got its result.
WithResult(ch, ok, at) == [ch EXCEPT !.results = Append(ch.results, ok), !.attempts = 0, !.at = at]

\* The account v is w with the result of a chain's next step.
Accounted(ch, w, ok, v) ==
  /\ v \in Seq(Nat) /\ Len(v) = Len(w)
  /\ \A i \in 1 .. Len(w) :
       v[i] = IF i = Len(ch.results) + 1 THEN (IF ok THEN 1 ELSE 0) ELSE w[i]

\* A step that has got its result: the chain goes on, or has failed.
LEMMA StepTold ==
    ASSUME NEW ch, NEW w, TC!Told(ch, w), NEW ok \in BOOLEAN, NEW v,
           ch.at \in {"step", "run"}, Len(ch.results) < Len(ch.steps),
           NEW at \in {"step", "done"}, at = "done" => ~ok, Accounted(ch, w, ok, v)
    PROVE  TC!Told(WithResult(ch, ok, at), v)
<1> DEFINE r == Append(ch.results, ok)
           new == [ch EXCEPT !.results = r, !.attempts = 0, !.at = at]
<1>1. /\ ch \in TC!ChainState /\ w \in Seq(Nat) /\ Len(w) = Len(ch.steps)
      /\ \A i \in 1 .. Len(ch.steps) :
           w[i] = IF i <= Len(ch.results) /\ ch.results[i] THEN 1 ELSE 0
      /\ v \in Seq(Nat) /\ Len(v) = Len(w)
      /\ \A i \in 1 .. Len(w) :
           v[i] = IF i = Len(ch.results) + 1 THEN (IF ok THEN 1 ELSE 0) ELSE w[i]
  BY DEF TC!Told, Accounted
<1>2. ch.results \in Seq(BOOLEAN) /\ Len(ch.results) \in Nat /\ ch.steps \in Seq(TC!Tool) /\ Len(ch.steps) \in Nat
  BY <1>1 DEF TC!ChainState
<1>3. /\ r \in Seq(BOOLEAN) /\ Len(r) = Len(ch.results) + 1 /\ r[Len(ch.results) + 1] = ok
      /\ \A i \in 1 .. Len(ch.results) : r[i] = ch.results[i]
  BY <1>2, AppendProperties
<1> HIDE DEF r
<1>4. new \in TC!ChainState /\ new.results = r /\ new.at = at /\ new.steps = ch.steps
  BY <1>1, <1>3 DEF TC!ChainState
<1> HIDE DEF new
<1>5. \A i \in 1 .. Len(ch.steps) : v[i] = IF i <= Len(r) /\ r[i] THEN 1 ELSE 0
  <2> TAKE i \in 1 .. Len(ch.steps)
  <2>1. CASE i = Len(ch.results) + 1
    BY <1>1, <1>2, <1>3, <2>1
  <2>2. CASE i <= Len(ch.results)
    <3>1. v[i] = w[i] /\ r[i] = ch.results[i] /\ i <= Len(r) /\ i # Len(ch.results) + 1
      <4>1. /\ i \in 1 .. Len(w) /\ i \in 1 .. Len(ch.results)
            /\ i <= Len(r) /\ i # Len(ch.results) + 1
        BY <1>1, <1>2, <1>3, <2>2
      <4>2. QED
        BY <1>1, <1>3, <4>1
    <3>2. w[i] = IF ch.results[i] THEN 1 ELSE 0
      BY <1>1, <2>2
    <3>3. QED
      BY <3>1, <3>2
  <2>3. CASE i > Len(ch.results) + 1
    <3>1. /\ i \in 1 .. Len(w) /\ i # Len(ch.results) + 1
          /\ ~(i <= Len(ch.results)) /\ ~(i <= Len(r))
      BY <1>1, <1>2, <1>3, <2>3
    <3>2. v[i] = w[i] /\ w[i] = 0
      BY <1>1, <3>1
    <3>3. QED
      BY <3>1, <3>2
  <2>4. QED
    BY <1>2, <2>1, <2>2, <2>3
<1>6. at = "done" => \E i \in 1 .. Len(r) : ~r[i]
  BY <1>2, <1>3
<1>7. TC!Told(new, v)
  <2>1. v \in Seq(Nat) /\ Len(v) = Len(new.steps) /\ Len(new.results) <= Len(new.steps)
    BY <1>1, <1>2, <1>3, <1>4
  <2>2. /\ \A i \in 1 .. Len(new.steps) : v[i] = IF i <= Len(new.results) /\ new.results[i] THEN 1 ELSE 0
        /\ new.at # "run"
        /\ new.at = "done" => \E i \in 1 .. Len(new.results) : ~new.results[i]
    BY <1>4, <1>5, <1>6
  <2>3. QED
    BY <1>4, <2>1, <2>2 DEF TC!Told
<1>8. QED
  BY <1>7 DEF new, r, WithResult

\* An attempt that was made keeps the account, whether it is repeated or is the
\* result of the step.
LEMMA AttemptTold ==
    ASSUME TC!IInv, NEW c \in ChainClient, NEW ok \in BOOLEAN, NEW v,
           TC!Attempted(c, ok) \/ TC!StepDone(c, ok), chain[c].at \in {"step", "run"},
           Len(chain[c].results) < Len(chain[c].steps),
           DOMAIN worked' = ChainClient, worked'[c] = v,
           \A d \in ChainClient \ {c} : worked'[d] = worked[d],
           v \in Seq(Nat), Len(v) = Len(worked[c]),
           \A i \in 1 .. Len(worked[c]) :
             v[i] = IF i = Len(chain[c].results) + 1 THEN (IF ok THEN 1 ELSE 0) ELSE worked[c][i]
    PROVE  TC!IInv'
<1> DEFINE ch == chain[c]
           w == worked[c]
           at == IF ok \/ ch.policy = "continue" THEN "step" ELSE "done"
           new == [ch EXCEPT !.results = Append(ch.results, ok), !.attempts = 0, !.at = at]
           again == [ch EXCEPT !.attempts = ch.attempts + 1, !.at = "step"]
<1>1. TC!Told(ch, w) /\ DOMAIN chain = ChainClient
  BY DEF TC!IInv
<1>2. CASE TC!StepDone(c, ok)
  <2>1. chain' = [chain EXCEPT ![c] = new]
    BY <1>2 DEF TC!StepDone
  <2>2. at \in {"step", "done"} /\ (at = "done" => ~ok)
    OBVIOUS
  <2> HIDE DEF at
  <2>3. TC!Told(new, v)
    <3>1. PICK x, y : x = ch /\ y = w
      OBVIOUS
    <3>2. PICK p \in {"step", "done"} : p = at /\ (p = "done" => ~ok)
      BY <2>2
    <3>3. TC!Told(WithResult(x, ok, p), v)
      <4>1. /\ TC!Told(x, y) /\ x.at \in {"step", "run"} /\ Len(x.results) < Len(x.steps)
            /\ Accounted(x, y, ok, v)
        BY <1>1, <3>1 DEF Accounted
      <4> HIDE DEF ch, w
      <4>2. QED
        BY <3>2, <4>1, StepTold
    <3>4. QED
      BY <3>1, <3>2, <3>3 DEF WithResult
  <2> HIDE DEF new
  <2>4. DOMAIN chain' = ChainClient /\ chain'[c] = new /\ \A d \in ChainClient \ {c} : chain'[d] = chain[d]
    BY <1>1, <2>1
  <2>5. QED
    BY <2>3, <2>4, OneChain
<1>3. CASE ~ok /\ chain' = [chain EXCEPT ![c].attempts = @ + 1, ![c].at = "step"]
  <2>1. chain' = [chain EXCEPT ![c] = again]
    BY <1>3
  <2>2. ch \in TC!ChainState /\ w \in Seq(Nat)
    BY <1>1 DEF TC!Told
  <2>3. /\ again \in TC!ChainState /\ again.results = ch.results /\ again.at = "step"
        /\ again.steps = ch.steps
    <3>1. PICK x \in TC!ChainState : x = ch
      BY <2>2
    <3>2. x.attempts \in Nat
      BY DEF TC!ChainState
    <3>3. x.attempts + 1 \in Nat
      BY <3>2
    <3> HIDE DEF ch
    <3>4. QED
      BY <3>1, <3>3, PlaceChanged
  <2> HIDE DEF again
  <2>4. v = w
    <3>1. Len(ch.results) \in Nat /\ Len(w) = Len(ch.steps)
      BY <1>1, <2>2 DEF TC!Told, TC!ChainState
    <3>2. \A i \in 1 .. Len(w) : v[i] = w[i]
      <4> TAKE i \in 1 .. Len(w)
      <4>1. w[i] = IF i <= Len(ch.results) /\ ch.results[i] THEN 1 ELSE 0
        BY <1>1, <3>1 DEF TC!Told
      <4>2. QED
        BY <1>3, <3>1, <4>1
    <3>3. QED
      BY <2>2, <3>2, SeqEqual
  <2>5. TC!Told(again, v)
    BY <1>1, <2>3, <2>4 DEF TC!Told
  <2>6. DOMAIN chain' = ChainClient /\ chain'[c] = again /\ \A d \in ChainClient \ {c} : chain'[d] = chain[d]
    BY <1>1, <2>1
  <2>7. QED
    BY <2>5, <2>6, OneChain
<1>4. QED
  BY <1>2, <1>3 DEF TC!Attempted

\* A chain that only changes its place.
LEMMA MovedTold ==
    ASSUME TC!IInv, NEW c \in ChainClient, NEW at \in {"step", "run", "done"},
           chain' = [chain EXCEPT ![c].at = at], UNCHANGED worked,
           at = "run" => Len(chain[c].results) < Len(chain[c].steps),
           at = "done" => Len(chain[c].results) = Len(chain[c].steps)
    PROVE  TC!IInv'
<1> DEFINE ch == chain[c]
           new == [ch EXCEPT !.at = at]
<1>1. TC!Told(ch, worked[c]) /\ DOMAIN chain = ChainClient /\ DOMAIN worked = ChainClient
  BY DEF TC!IInv
<1>2. /\ new \in TC!ChainState /\ new.results = ch.results /\ new.at = at /\ new.steps = ch.steps
      /\ Len(ch.results) \in Nat /\ Len(ch.steps) \in Nat
  <2>1. PICK x \in TC!ChainState : x = ch
    BY <1>1 DEF TC!Told
  <2>2. LET n == [x EXCEPT !.at = at]
        IN  n \in TC!ChainState /\ n.results = x.results /\ n.at = at /\ n.steps = x.steps
    BY DEF TC!ChainState
  <2>3. Len(x.results) \in Nat /\ Len(x.steps) \in Nat
    BY DEF TC!ChainState
  <2>4. QED
    BY <2>1, <2>2, <2>3
<1>3. chain' = [chain EXCEPT ![c] = new]
  OBVIOUS
<1> HIDE DEF new
<1>4. TC!Told(new, worked[c])
  BY <1>1, <1>2 DEF TC!Told
<1>5. DOMAIN chain' = ChainClient /\ chain'[c] = new /\ \A d \in ChainClient \ {c} : chain'[d] = chain[d]
  BY <1>1, <1>3
<1>6. QED
  BY <1>1, <1>4, <1>5, OneChain

LEMMA ChainClientStep ==
    ASSUME TC!IInv, NEW c \in ChainClient,
           TC!CheckTool(c) \/ TC!NoAttempt(c) \/ TC!AllSteps(c) \/ TC!RunTool(c) \/ TC!Answer(c)
    PROVE  TC!IInv'
<1> DEFINE ch == chain[c]
           w == worked[c]
           k == Len(ch.results) + 1
<1>1. TC!Told(ch, w) /\ DOMAIN chain = ChainClient /\ DOMAIN worked = ChainClient
  BY DEF TC!IInv
<1>2. /\ Len(ch.results) \in Nat /\ Len(ch.steps) \in Nat /\ w \in Seq(Nat) /\ Len(w) = Len(ch.steps)
      /\ Len(ch.results) <= Len(ch.steps)
      /\ \A i \in 1 .. Len(w) : i >= k => w[i] = 0
  BY <1>1 DEF TC!Told, TC!ChainState
<1>3. ASSUME ch.at = "step", k <= Len(ch.steps), UNCHANGED worked,
             TC!Attempted(c, FALSE) \/ TC!StepDone(c, FALSE)
      PROVE  TC!IInv'
  <2>1. \A i \in 1 .. Len(w) :
             w[i] = IF i = Len(ch.results) + 1 THEN (IF FALSE THEN 1 ELSE 0) ELSE w[i]
    BY <1>2
  <2>2. worked'[c] = w /\ DOMAIN worked' = ChainClient /\ \A d \in ChainClient \ {c} : worked'[d] = worked[d]
    BY <1>1, <1>3
  <2>3. Len(ch.results) < Len(ch.steps)
    BY <1>2, <1>3
  <2>4. QED
    BY <1>2, <1>3, <2>1, <2>2, <2>3, AttemptTold
<1>4. CASE TC!CheckTool(c)
  <2>1. /\ ch.at = "step" /\ k <= Len(ch.steps) /\ UNCHANGED worked
        /\ chain' = [chain EXCEPT ![c].at = "run"] \/ TC!Attempted(c, FALSE)
    BY <1>4 DEF TC!CheckTool, TC!Current
  <2>2. Len(ch.results) < Len(ch.steps)
    BY <1>2, <2>1
  <2>3. QED
    BY <1>3, <2>1, <2>2, MovedTold
<1>5. CASE TC!NoAttempt(c)
  BY <1>3, <1>5 DEF TC!NoAttempt, TC!Current
<1>6. CASE TC!AllSteps(c)
  <2>1. k > Len(ch.steps) /\ chain' = [chain EXCEPT ![c].at = "done"] /\ UNCHANGED worked
    BY <1>6 DEF TC!AllSteps, TC!Current
  <2>2. Len(ch.results) = Len(ch.steps)
    BY <1>2, <2>1
  <2>3. QED
    BY <2>1, <2>2, MovedTold
<1>7. CASE TC!RunTool(c)
  <2>1. PICK ok \in BOOLEAN :
          /\ worked' = [worked EXCEPT ![c][k] = IF ok THEN @ + 1 ELSE @]
          /\ TC!Attempted(c, ok)
    <3>1. PICK how \in TC!Reply(ch.steps[k]) :
            /\ worked' = [worked EXCEPT ![c][k] = IF TC!CallTool(how) THEN @ + 1 ELSE @]
            /\ TC!Attempted(c, TC!CallTool(how))
      BY <1>7 DEF TC!RunTool, TC!Current
    <3>2. CASE TC!CallTool(how)
      <4>1. TC!CallTool(how) = TRUE
        BY <3>2 DEF TC!CallTool
      <4>2. QED
        BY <3>1, <4>1
    <3>3. CASE ~TC!CallTool(how)
      <4>1. TC!CallTool(how) = FALSE
        BY <3>3 DEF TC!CallTool
      <4>2. QED
        BY <3>1, <4>1
    <3>4. QED
      BY <3>2, <3>3
  <2>2. ch.at = "run" /\ Len(ch.results) < Len(ch.steps)
    BY <1>1, <1>7 DEF TC!RunTool, TC!Told
  <2>3. k \in 1 .. Len(w) /\ w[k] = 0
    <3>1. k \in 1 .. Len(ch.steps) /\ ~(k <= Len(ch.results))
      BY <1>2, <2>2
    <3>2. QED
      BY <1>2, <3>1
  <2> DEFINE v == [w EXCEPT ![k] = IF ok THEN w[k] + 1 ELSE w[k]]
  <2>4. worked' = [worked EXCEPT ![c] = v]
    BY <2>1
  <2>5. /\ v \in Seq(Nat) /\ Len(v) = Len(w)
        /\ \A i \in 1 .. Len(w) : v[i] = IF i = k THEN (IF ok THEN 1 ELSE 0) ELSE w[i]
    <3> HIDE DEF w, k
    <3>1. (IF ok THEN w[k] + 1 ELSE w[k]) \in Nat
      BY <2>3
    <3>2. QED
      BY <1>2, <2>3, <3>1, ExceptSeq
  <2> HIDE DEF v
  <2>6. worked'[c] = v /\ DOMAIN worked' = ChainClient /\ \A d \in ChainClient \ {c} : worked'[d] = worked[d]
    BY <1>1, <2>4
  <2>7. QED
    BY <2>1, <2>2, <2>5, <2>6, AttemptTold
<1>8. CASE TC!Answer(c)
  <2>1. chain' = [chain EXCEPT ![c] = TC!NoChain] /\ worked' = [worked EXCEPT ![c] = <<>>]
    BY <1>8 DEF TC!Answer
  <2>2. /\ DOMAIN chain' = ChainClient /\ chain'[c] = TC!NoChain /\ worked'[c] = <<>>
        /\ DOMAIN worked' = ChainClient
        /\ \A d \in ChainClient \ {c} : worked'[d] = worked[d] /\ chain'[d] = chain[d]
    BY <1>1, <2>1
  <2>3. QED
    BY <2>2, NoChainTold, OneChain
<1>9. QED
  BY <1>4, <1>5, <1>6, <1>7, <1>8

LEMMA ExecuteStep ==
    ASSUME TC!IInv, NEW c \in ChainClient, NEW n \in 0 .. MaxSteps, NEW p \in ErrorPolicy,
           NEW r \in 0 .. MaxRetries, NEW s \in [1 .. n -> TC!Tool], TC!ExecuteChain(c, s, p, r)
    PROVE  TC!IInv'
<1> DEFINE new == [TC!NoChain EXCEPT !.at = "step", !.steps = s, !.policy = p, !.retries = r]
           w == [i \in DOMAIN s |-> 0]
<1>1. /\ chain' = [chain EXCEPT ![c] = new] /\ worked' = [worked EXCEPT ![c] = w]
      /\ DOMAIN chain = ChainClient /\ DOMAIN worked = ChainClient
  BY DEF TC!ExecuteChain, TC!IInv
<1>2. n \in Nat /\ r \in Nat
  BY PartBounds
<1>3. s \in Seq(TC!Tool) /\ Len(s) = n /\ DOMAIN s = 1 .. n
  BY <1>2, SeqDef
<1>4. w \in Seq(Nat) /\ Len(w) = n /\ \A i \in 1 .. n : w[i] = 0
  <2>1. w \in [1 .. n -> Nat] /\ DOMAIN w = 1 .. n
    BY <1>3
  <2>2. QED
    BY <1>2, <1>3, <2>1, SeqDef
<1>5. new \in TC!ChainState /\ new.at = "step" /\ new.steps = s /\ new.results = <<>>
  <2>1. TC!NoChain \in TC!ChainState /\ TC!NoChain.results = <<>>
    BY NoChainTold DEF TC!Told, TC!NoChain
  <2>2. PICK x \in TC!ChainState : x = TC!NoChain
    BY <2>1
  <2>3. LET b == WithSteps(x, s, p, r)
        IN  b \in TC!ChainState /\ b.at = "step" /\ b.steps = s /\ b.results = x.results
    BY <1>2, <1>3, ChainBegun
  <2>4. QED
    BY <2>1, <2>2, <2>3 DEF WithSteps
<1> HIDE DEF new, w
<1>6. Len(new.results) = 0
  BY <1>5
<1>7. TC!Told(new, w)
  BY <1>2, <1>3, <1>4, <1>5, <1>6 DEF TC!Told
<1>8. /\ DOMAIN chain' = ChainClient /\ chain'[c] = new /\ worked'[c] = w
      /\ DOMAIN worked' = ChainClient
      /\ \A d \in ChainClient \ {c} : worked'[d] = worked[d] /\ chain'[d] = chain[d]
  BY <1>1
<1>9. QED
  BY <1>7, <1>8, OneChain

LEMMA ChainKeeps ==
    ASSUME TC!IInv, TC!Next \/ UNCHANGED chainVars
    PROVE  TC!IInv'
<1>1. ASSUME UNCHANGED <<chain, worked>>
      PROVE  TC!IInv'
  BY <1>1 DEF TC!IInv, TC!Told, TC!ChainState, TC!Tool
<1>2. CASE \/ UNCHANGED chainVars
           \/ \E a \in AllowLists, d \in DenyLists : TC!ReloadPermissions(a, d)
           \/ \E f \in SUBSET McpTools : TC!DiscoverTools(f)
           \/ TC!RegisterInto
  BY <1>1, <1>2 DEF chainVars, TC!ReloadPermissions, TC!DiscoverTools, TC!RegisterInto
<1>3. CASE \E c \in ChainClient :
              TC!CheckTool(c) \/ TC!NoAttempt(c) \/ TC!AllSteps(c) \/ TC!RunTool(c) \/ TC!Answer(c)
  BY <1>3, ChainClientStep
<1>4. CASE \E c \in ChainClient : \E n \in 0 .. MaxSteps, p \in ErrorPolicy, r \in 0 .. MaxRetries :
              \E s \in [1 .. n -> TC!Tool] : TC!ExecuteChain(c, s, p, r)
  BY <1>4, ExecuteStep
<1>5. QED
  BY <1>2, <1>3, <1>4 DEF TC!Next

LEMMA ChainReports ==
    ASSUME TC!IInv
    PROVE  TC!ReportsWhatRan
<1> SUFFICES ASSUME NEW c \in ChainClient, chain[c].at = "done"
             PROVE  /\ \A i \in DOMAIN chain[c].steps :
                         worked[c][i] = IF i \in DOMAIN chain[c].results /\ chain[c].results[i] THEN 1 ELSE 0
                    /\ TC!Success(c) => \A i \in DOMAIN chain[c].steps : worked[c][i] = 1
  BY DEF TC!ReportsWhatRan
<1> DEFINE ch == chain[c]
<1>1. TC!Told(ch, worked[c])
  BY DEF TC!IInv
<1>2. /\ DOMAIN ch.steps = 1 .. Len(ch.steps) /\ DOMAIN ch.results = 1 .. Len(ch.results)
      /\ Len(ch.steps) \in Nat /\ Len(ch.results) \in Nat
  BY <1>1 DEF TC!Told, TC!ChainState
<1>3. \A i \in DOMAIN ch.steps :
        worked[c][i] = IF i \in DOMAIN ch.results /\ ch.results[i] THEN 1 ELSE 0
  BY <1>1, <1>2 DEF TC!Told
<1>4. TC!Success(c) => Len(ch.results) = Len(ch.steps)
  BY <1>1, <1>2 DEF TC!Told, TC!Success
<1>5. QED
  BY <1>2, <1>3, <1>4 DEF TC!Success

-----------------------------------------------------------------------------
(* Routes *)

LEMMA RoutesInit ==
    ASSUME RT!Init
    PROVE  RT!IInv
<1> USE DEF RT!Init, RT!Message
<1>1. RT!TypeOK
  BY DEF RT!TypeOK
<1>2. RT!RoutesAgree
  BY DEF RT!RoutesAgree, RT!GetSessionMessages
<1>3. QED
  BY <1>1, <1>2 DEF RT!IInv

\* The facts about the tables that the lemmas below need.
LEMMA RouteFacts ==
    ASSUME RT!IInv
    PROVE  /\ routes \in Seq(RT!Route) /\ Len(routes) \in Nat /\ RT!Message = 1 .. Len(routes)
           /\ session_messages \in [RouteConn -> Seq(RT!Message)]
           /\ hello \in [RouteConn -> RT!Message \cup {None}]
           /\ toldStatus \in Seq(RT!Status \cup {None}) /\ Len(toldStatus) = Len(routes)
           /\ \A m \in RT!Message :
                /\ routes[m].target \in RouteConn
                /\ routes[m].status = IF toldStatus[m] = None THEN "pending" ELSE toldStatus[m]
<1>1. /\ routes \in Seq(RT!Route) /\ Len(routes) \in Nat /\ RT!Message = 1 .. Len(routes)
      /\ session_messages \in [RouteConn -> Seq(RT!Message)]
      /\ hello \in [RouteConn -> RT!Message \cup {None}]
      /\ toldStatus \in [RT!Message -> RT!Status \cup {None}]
  BY DEF RT!IInv, RT!TypeOK, RT!Message
<1>2. toldStatus \in Seq(RT!Status \cup {None}) /\ Len(toldStatus) = Len(routes)
  BY <1>1, SeqDef
<1>3. \A m \in RT!Message : routes[m] \in RT!Route
  BY <1>1
<1>4. \A m \in RT!Message : routes[m].target \in RouteConn
  BY <1>3 DEF RT!Route
<1>5. \A m \in RT!Message :
        routes[m].status = IF toldStatus[m] = None THEN "pending" ELSE toldStatus[m]
  BY DEF RT!IInv, RT!RoutesAgree, RT!GetDeliveryStatus
<1>6. QED
  BY <1>1, <1>2, <1>4, <1>5

\* A message that is entered comes last, and with its target.
LEMMA EnteredKeeps ==
    ASSUME RT!IInv, NEW route \in RT!Route, route.status = "pending", RT!Entered(route),
           hello' \in [RouteConn -> RT!Message' \cup {None}]
    PROVE  RT!IInv'
<1> DEFINE n == Len(routes) + 1
           s == route.target
<1>1. /\ routes \in Seq(RT!Route) /\ Len(routes) \in Nat /\ RT!Message = 1 .. Len(routes)
      /\ session_messages \in [RouteConn -> Seq(RT!Message)]
      /\ toldStatus \in Seq(RT!Status \cup {None}) /\ Len(toldStatus) = Len(routes)
      /\ \A m \in RT!Message :
                /\ routes[m].target \in RouteConn
                /\ routes[m].status = IF toldStatus[m] = None THEN "pending" ELSE toldStatus[m]
  BY RouteFacts
<1>2. s \in RouteConn
  BY DEF RT!Route
<1>3. /\ routes' = Append(routes, route) /\ toldStatus' = Append(toldStatus, None)
      /\ session_messages' = [session_messages EXCEPT ![s] = Append(session_messages[s], n)]
  BY DEF RT!Entered
<1>4. /\ routes' \in Seq(RT!Route) /\ Len(routes') = n /\ routes'[n] = route
      /\ \A m \in RT!Message : routes'[m] = routes[m]
      /\ n \in Nat /\ RT!Message' = 1 .. n /\ RT!Message' = RT!Message \cup {n}
      /\ \A m \in RT!Message : m < n
  BY <1>1, <1>3 DEF RT!Message
<1>5. /\ toldStatus' \in [1 .. n -> RT!Status \cup {None}] /\ toldStatus'[n] = None
      /\ \A m \in RT!Message : toldStatus'[m] = toldStatus[m]
  <2> DEFINE T == RT!Status \cup {None}
  <2>1. toldStatus \in Seq(T) /\ None \in T /\ Len(toldStatus) \in Nat
    BY <1>1
  <2> HIDE DEF T
  <2>2. PICK o \in Seq(T) : o = toldStatus
    BY <2>1
  <2>3. /\ Append(o, None) \in Seq(T) /\ Len(Append(o, None)) = Len(o) + 1
        /\ Append(o, None)[Len(o) + 1] = None
        /\ \A m \in 1 .. Len(o) : Append(o, None)[m] = o[m]
    BY <2>1, AppendProperties
  <2>4. toldStatus' \in Seq(T) /\ Len(toldStatus') = n
    BY <1>1, <1>3, <2>2, <2>3
  <2>5. toldStatus' \in [1 .. n -> T]
    BY <2>4, LenProperties
  <2>6. QED
    BY <1>1, <1>3, <2>2, <2>3, <2>5 DEF T
<1> HIDE DEF n, s
<1>6. ASSUME NEW c \in RouteConn
      PROVE  /\ session_messages'[c] \in Seq(RT!Message')
             /\ c # s => session_messages'[c] = session_messages[c]
             /\ c = s => session_messages'[c] = Append(session_messages[c], n)
  <2>1. session_messages[c] \in Seq(RT!Message)
    BY <1>1
  <2>2. session_messages[c] \in Seq(RT!Message') /\ n \in RT!Message'
    BY <1>4, <2>1
  <2>3. QED
    BY <1>1, <1>2, <1>3, <2>2
<1>7. session_messages' \in [RouteConn -> Seq(RT!Message')]
  BY <1>1, <1>3, <1>6
<1>8. RT!TypeOK'
  BY <1>4, <1>5, <1>7 DEF RT!TypeOK
<1>9. ASSUME NEW c \in RouteConn
      PROVE  /\ RT!GetSessionMessages(c)' = DOMAIN session_messages'[c]
             /\ \A m \in RT!Message' :
                  routes'[m].target = c <=> \E i \in DOMAIN session_messages'[c] : session_messages'[c][i] = m
             /\ \A i, j \in DOMAIN session_messages'[c] :
                  i < j => session_messages'[c][i] < session_messages'[c][j]
  <2> DEFINE old == session_messages[c]
             new == session_messages'[c]
  <2>1. /\ \A m \in RT!Message : routes[m].target = c <=> \E i \in DOMAIN old : old[i] = m
        /\ \A i, j \in DOMAIN old : i < j => old[i] < old[j]
        /\ old \in Seq(RT!Message)
    BY <1>1 DEF RT!IInv, RT!RoutesAgree
  <2>2. new \in Seq(RT!Message')
    BY <1>6
  <2>3. RT!GetSessionMessages(c)' = DOMAIN new
    BY <2>2 DEF RT!GetSessionMessages
  <2>4. CASE c # s
    <3>1. new = old /\ routes'[n].target # c
      BY <1>4, <1>6, <2>4 DEF s
    <3>2. \A i \in DOMAIN old : old[i] # n
      BY <1>1, <1>4, <2>1
    <3>3. QED
      BY <1>4, <2>1, <2>3, <3>1, <3>2
  <2>5. CASE c = s
    <3>1. /\ Len(new) = Len(old) + 1 /\ new[Len(old) + 1] = n /\ Len(old) \in Nat
          /\ \A i \in 1 .. Len(old) : new[i] = old[i] /\ old[i] \in RT!Message
          /\ DOMAIN old = 1 .. Len(old) /\ DOMAIN new = 1 .. (Len(old) + 1)
      <4>1. PICK o \in Seq(RT!Message) : o = old
        BY <2>1
      <4>2. PICK b \in Seq(RT!Message') : b = new
        BY <2>2
      <4>3. b = Append(o, n)
        BY <1>6, <2>5, <4>1, <4>2
      <4>4. /\ Len(o) \in Nat /\ DOMAIN o = 1 .. Len(o)
            /\ \A i \in 1 .. Len(o) : o[i] \in RT!Message
        OBVIOUS
      <4>5. /\ Len(b) = Len(o) + 1 /\ b[Len(o) + 1] = n
            /\ \A i \in 1 .. Len(o) : b[i] = o[i]
        BY <4>3, <4>4
      <4>6. DOMAIN b = 1 .. (Len(o) + 1)
        BY <4>5
      <4>7. QED
        BY <4>1, <4>2, <4>4, <4>5, <4>6
    <3>2. routes'[n].target = c
      BY <1>4, <2>5 DEF s
    <3>3. \A i, j \in DOMAIN new : i < j => new[i] < new[j]
      <4> SUFFICES ASSUME NEW i \in DOMAIN new, NEW j \in DOMAIN new, i < j
                   PROVE  new[i] < new[j]
        OBVIOUS
      <4>1. i \in 1 .. Len(old) /\ (j \in 1 .. Len(old) \/ j = Len(old) + 1)
        BY <3>1
      <4>2. QED
        BY <1>4, <2>1, <3>1, <4>1
    <3>4. ASSUME NEW m \in RT!Message'
          PROVE  routes'[m].target = c <=> \E i \in DOMAIN new : new[i] = m
      <4>1. CASE m = n
        BY <3>1, <3>2, <4>1
      <4>2. CASE m # n
        <5>1. m \in RT!Message
          BY <1>4, <4>2
        <5>2. (\E i \in DOMAIN new : new[i] = m) <=> (\E i \in DOMAIN old : old[i] = m)
          BY <3>1, <4>2
        <5>3. QED
          BY <1>4, <2>1, <5>1, <5>2
      <4>3. QED
        BY <4>1, <4>2
    <3>5. QED
      BY <2>3, <3>3, <3>4
  <2>6. QED
    BY <2>4, <2>5
<1>10. \A m \in RT!Message' : RT!GetDeliveryStatus(m)' = IF toldStatus'[m] = None THEN "pending" ELSE toldStatus'[m]
  <2> SUFFICES ASSUME NEW m \in RT!Message'
               PROVE  RT!GetDeliveryStatus(m)' = IF toldStatus'[m] = None THEN "pending" ELSE toldStatus'[m]
    OBVIOUS
  <2>1. RT!GetDeliveryStatus(m)' = routes'[m].status
    BY DEF RT!GetDeliveryStatus
  <2>2. CASE m = n
    BY <1>4, <1>5, <2>1, <2>2
  <2>3. CASE m \in RT!Message
    <3>1. routes'[m] = routes[m] /\ toldStatus'[m] = toldStatus[m]
      BY <1>4, <1>5, <2>3
    <3>2. routes[m].status = IF toldStatus[m] = None THEN "pending" ELSE toldStatus[m]
      BY <1>1, <2>3
    <3>3. QED
      BY <2>1, <3>1, <3>2
  <2>4. QED
    BY <1>4, <2>2, <2>3
<1>11. QED
  BY <1>8, <1>9, <1>10 DEF RT!IInv, RT!RoutesAgree

\* The routes change, but none moves to another session.
LEMMA RoutesStay ==
    ASSUME RT!IInv, NEW m \in RT!Message, NEW x \in RT!Route, x.target = routes[m].target,
           routes' = [routes EXCEPT ![m] = x], UNCHANGED session_messages,
           hello' \in [RouteConn -> RT!Message \cup {None}],
           toldStatus' \in [RT!Message -> RT!Status \cup {None}],
           \A k \in RT!Message : k # m => toldStatus'[k] = toldStatus[k],
           x.status = IF toldStatus'[m] = None THEN "pending" ELSE toldStatus'[m]
    PROVE  RT!IInv'
<1>1. /\ routes \in Seq(RT!Route) /\ RT!Message = 1 .. Len(routes)
      /\ \A k \in RT!Message :
           routes[k].status = IF toldStatus[k] = None THEN "pending" ELSE toldStatus[k]
  BY RouteFacts
<1>2. /\ routes' \in Seq(RT!Route) /\ Len(routes') = Len(routes)
      /\ \A k \in RT!Message : routes'[k] = IF k = m THEN x ELSE routes[k]
  BY <1>1
<1>3. RT!Message' = RT!Message
  BY <1>2 DEF RT!Message
<1>4. RT!TypeOK'
  BY <1>2, <1>3 DEF RT!IInv, RT!TypeOK
<1>5. \A k \in RT!Message : routes'[k].target = routes[k].target
  BY <1>2
<1>6. \A k \in RT!Message : RT!GetDeliveryStatus(k)' = IF toldStatus'[k] = None THEN "pending" ELSE toldStatus'[k]
  BY <1>1, <1>2, <1>3 DEF RT!GetDeliveryStatus
<1>7. \A c \in RouteConn : RT!GetSessionMessages(c)' = RT!GetSessionMessages(c)
  BY <1>3 DEF RT!GetSessionMessages
<1>8. RT!RoutesAgree'
  BY <1>3, <1>5, <1>6, <1>7 DEF RT!IInv, RT!RoutesAgree
<1>9. QED
  BY <1>4, <1>8 DEF RT!IInv

LEMMA RoutesKeep ==
    ASSUME RT!IInv, RT!Next \/ UNCHANGED routesVars
    PROVE  RT!IInv'
<1>1. /\ routes \in Seq(RT!Route) /\ Len(routes) \in Nat /\ RT!Message = 1 .. Len(routes)
      /\ hello \in [RouteConn -> RT!Message \cup {None}]
      /\ toldStatus \in [RT!Message -> RT!Status \cup {None}]
      /\ \A m \in RT!Message : routes[m] \in RT!Route
      /\ \A m \in RT!Message :
           routes[m].status = IF toldStatus[m] = None THEN "pending" ELSE toldStatus[m]
  BY RouteFacts DEF RT!IInv, RT!TypeOK
<1>2. ASSUME NEW route, RT!Entered(route)
      PROVE  /\ RT!Message' = RT!Message \cup {Len(routes) + 1}
             /\ hello' = hello => hello' \in [RouteConn -> RT!Message' \cup {None}]
  <2>1. routes' = Append(routes, route)
    BY <1>2 DEF RT!Entered
  <2>2. Len(routes') = Len(routes) + 1
    BY <1>1, <2>1
  <2>3. RT!Message' = RT!Message \cup {Len(routes) + 1}
    BY <1>1, <2>2 DEF RT!Message
  <2>4. QED
    BY <1>1, <2>3
<1>3. ASSUME NEW c \in RouteConn, RT!AttachMetadata(c),
             hello' \in [RouteConn -> RT!Message' \cup {None}]
      PROVE  RT!IInv'
  <2> DEFINE route == [source |-> "websocket", target |-> c, parent |-> 0, external |-> FALSE,
                       priority |-> "normal", status |-> "pending"]
  <2>1. route \in RT!Route /\ route.status = "pending" /\ RT!Entered(route)
    BY <1>3 DEF RT!AttachMetadata, RT!Route, RT!Status
  <2> HIDE DEF route
  <2>2. QED
    BY <1>3, <2>1, EnteredKeeps
<1>4. ASSUME NEW c \in RouteConn, RT!BeginHello(c) \/ RT!Request(c)
      PROVE  RT!IInv'
  <2>1. RT!AttachMetadata(c)
    BY <1>4 DEF RT!BeginHello, RT!Request
  <2>2. PICK route : RT!Entered(route)
    BY <2>1 DEF RT!AttachMetadata
  <2>3. hello' \in [RouteConn -> RT!Message' \cup {None}]
    BY <1>1, <1>2, <1>4, <2>2 DEF RT!BeginHello, RT!Request
  <2>4. QED
    BY <1>3, <2>1, <2>3
<1>5. ASSUME NEW s \in RouteConn, NEW parent \in 1 .. MaxMessages, RT!InheritRoute(parent, s)
      PROVE  RT!IInv'
  <2>1. PICK route : /\ route = IF parent \in RT!Message
                                THEN [routes[parent] EXCEPT !.parent = parent, !.target = s, !.status = "pending"]
                                ELSE [source |-> None, target |-> s, parent |-> parent, external |-> FALSE,
                                      priority |-> "normal", status |-> "pending"]
                     /\ RT!Entered(route)
    BY <1>5 DEF RT!InheritRoute
  <2>2. parent \in Nat
    BY PartBounds
  <2>3. route \in RT!Route /\ route.status = "pending"
    <3>1. CASE parent \in RT!Message
      <4>1. routes[parent] \in RT!Route
        BY <1>1, <3>1
      <4>2. QED
        BY <2>1, <2>2, <3>1, <4>1 DEF RT!Route, RT!Status
    <3>2. CASE parent \notin RT!Message
      BY <2>1, <2>2, <3>2 DEF RT!Route, RT!Status
    <3>3. QED
      BY <3>1, <3>2
  <2>4. hello' \in [RouteConn -> RT!Message' \cup {None}]
    BY <1>2, <1>5, <2>1 DEF RT!InheritRoute
  <2>5. QED
    BY <2>1, <2>3, <2>4, EnteredKeeps
<1>6. ASSUME NEW m \in RT!Message, NEW p \in RoutePriority, RT!SetPriority(m, p)
      PROVE  RT!IInv'
  <2> DEFINE x == [routes[m] EXCEPT !.priority = p]
  <2>1. x \in RT!Route /\ x.target = routes[m].target /\ x.status = routes[m].status
    BY <1>1 DEF RT!Route
  <2>2. routes' = [routes EXCEPT ![m] = x] /\ UNCHANGED <<session_messages, hello, toldStatus>>
    BY <1>6 DEF RT!SetPriority
  <2> HIDE DEF x
  <2>3. QED
    BY <1>1, <2>1, <2>2, RoutesStay
<1>7. ASSUME NEW c \in RouteConn, NEW s \in {"delivered", "failed"}, RT!EndHello(c, s)
      PROVE  RT!IInv'
  <2>1. PICK m \in RT!Message : m = hello[c]
    BY <1>1, <1>7 DEF RT!EndHello
  <2> DEFINE x == [routes[m] EXCEPT !.status = s]
  <2>2. x \in RT!Route /\ x.target = routes[m].target /\ x.status = s
    BY <1>1 DEF RT!Route, RT!Status
  <2>3. /\ routes' = [routes EXCEPT ![m] = x] /\ UNCHANGED session_messages
        /\ toldStatus' = [toldStatus EXCEPT ![m] = s]
        /\ hello' = [hello EXCEPT ![c] = None]
    BY <1>7, <2>1 DEF RT!EndHello, RT!RecordDelivery
  <2>4. s # None /\ s \in RT!Status
    BY PartNames DEF RT!Status
  <2> HIDE DEF x
  <2>5. /\ toldStatus' \in [RT!Message -> RT!Status \cup {None}] /\ toldStatus'[m] = s
        /\ \A k \in RT!Message : k # m => toldStatus'[k] = toldStatus[k]
        /\ hello' \in [RouteConn -> RT!Message \cup {None}]
    BY <1>1, <2>3, <2>4
  <2>6. QED
    BY <2>2, <2>3, <2>4, <2>5, RoutesStay
<1>8. CASE UNCHANGED routesVars
  <2>1. RT!TypeOK'
    BY <1>8 DEF routesVars, RT!IInv, RT!TypeOK, RT!Message
  <2>2. RT!RoutesAgree'
    BY <1>8 DEF routesVars, RT!IInv, RT!RoutesAgree, RT!Message, RT!GetSessionMessages, RT!GetDeliveryStatus
  <2>3. QED
    BY <2>1, <2>2 DEF RT!IInv
<1>9. QED
  BY <1>4, <1>5, <1>6, <1>7, <1>8 DEF RT!Next

-----------------------------------------------------------------------------
(* Health *)

LEMMA HealthInit ==
    ASSUME HE!Init
    PROVE  HE!IInv
  BY PartBounds DEF HE!Init, HE!IInv

LEMMA HealthKeeps ==
    ASSUME HE!IInv, HE!Next \/ UNCHANGED healthVars
    PROVE  HE!IInv'
<1>1. /\ checks \in Nat /\ bad \in Nat /\ good \in Nat /\ bad = good + checks
      /\ DegradedCheckCount \in Nat \ {0}
  BY PartBounds DEF HE!IInv
<1>2. ASSUME UNCHANGED <<health, checks, probed, bad, good>>, serving' => serving
      PROVE  HE!IInv'
  BY <1>2 DEF HE!IInv
<1>3. CASE UNCHANGED healthVars \/ \E r \in ShortRequest : HE!Send(r) \/ HE!GrowLate(r) \/ HE!Settle(r)
  BY <1>2, <1>3 DEF healthVars, HE!Send, HE!GrowLate, HE!Settle
<1>4. CASE HE!Stop
  BY <1>2, <1>4 DEF HE!Stop
<1>5. CASE HE!ProbeStopped
  BY <1>5 DEF HE!ProbeStopped, HE!IInv
<1>6. CASE HE!ProbeBad
  <2>1. /\ checks' = checks + 1 /\ bad' = bad + 1 /\ good' = good /\ probed' = health'
        /\ health' = IF checks' >= DegradedCheckCount THEN "degraded" ELSE health
        /\ serving /\ serving'
    BY <1>6 DEF HE!ProbeBad
  <2>2. /\ health \in {"healthy", "degraded"}
        /\ health = "degraded" => checks > 0 /\ bad >= DegradedCheckCount
        /\ health = "healthy" => checks < DegradedCheckCount
    BY <2>1 DEF HE!IInv
  <2>3. bad' >= checks'
    BY <1>1, <2>1
  <2>4. QED
    BY <1>1, <2>1, <2>2, <2>3 DEF HE!IInv
<1>7. CASE HE!ProbeGood
  <2>1. /\ checks' = IF checks > 0 THEN checks - 1 ELSE 0
        /\ health' = IF health = "degraded" /\ checks' = 0 THEN "healthy" ELSE health
        /\ probed' = health' /\ serving /\ serving'
        /\ bad' = IF checks' = 0 THEN 0 ELSE bad
        /\ good' = IF checks' = 0 THEN 0 ELSE good + 1
    BY <1>7 DEF HE!ProbeGood
  <2>2. /\ health \in {"healthy", "degraded"}
        /\ health = "degraded" => checks > 0 /\ bad >= DegradedCheckCount
        /\ health = "healthy" => checks < DegradedCheckCount
    BY <2>1 DEF HE!IInv
  <2>3. CASE checks' = 0
    BY <1>1, <2>1, <2>2, <2>3 DEF HE!IInv
  <2>4. CASE checks' # 0
    BY <1>1, <2>1, <2>2, <2>4 DEF HE!IInv
  <2>5. QED
    BY <2>3, <2>4
<1>8. QED
  BY <1>3, <1>4, <1>5, <1>6, <1>7 DEF HE!Next

LEMMA HealthReports ==
    ASSUME HE!IInv
    PROVE  HE!ReportFitsProbes
  BY PartBounds DEF HE!IInv, HE!ReportFitsProbes

-----------------------------------------------------------------------------
(* Hooks *)

LEMMA NothingFired ==
    ASSUME NEW f, f.snap = <<>>, f.ran = <<>>, f.at = "idle"
    PROVE  H!FireOK(f, {})
  BY DEF H!FireOK, H!ListOK, H!Once, H!Descending, H!ToSet

LEMMA IdleFits == H!Idle \in H!Call /\ H!FireOK(H!Idle, {})
<1>1. PICK h \in Hook : h = CHOOSE g \in Hook : TRUE
  BY PartNames
<1>2. H!Idle = [at |-> "idle", hook |-> h, snap |-> <<>>, ran |-> <<>>, stopped |-> FALSE]
  BY <1>1 DEF H!Idle
<1>3. QED
  BY <1>2, NothingFired DEF H!Call

LEMMA HooksInit ==
    ASSUME H!Init
    PROVE  H!IInv
<1>1. /\ hooks = [h \in Hook |-> <<>>] /\ fire = [c \in HookCaller |-> H!Idle]
      /\ threads = {} /\ stats = 0 /\ hookAnswer = FALSE /\ regs = 0 /\ fires = 0
      /\ MaxRegs \in Nat /\ MaxFires \in Nat
  BY PartBounds DEF H!Init
<1>2. H!TypeOK
  <2>1. hooks \in [Hook -> Seq(H!Handler)]
    BY <1>1
  <2>2. fire \in [HookCaller -> H!Call] /\ threads \subseteq HookCaller \X H!Handler
    BY <1>1, IdleFits
  <2>3. stats \in Nat /\ regs \in 0 .. MaxRegs /\ fires \in 0 .. MaxFires
    BY <1>1
  <2>4. hookAnswer \in BOOLEAN
    BY <1>1
  <2>5. QED
    BY <2>1, <2>2, <2>3, <2>4 DEF H!TypeOK
<1>3. \A h \in Hook : H!ListOK(hooks[h]) /\ \A i \in DOMAIN hooks[h] : hooks[h][i].n <= regs
  BY <1>1 DEF H!ListOK, H!Once, H!Descending
<1>4. \A c \in HookCaller : H!FireOK(fire[c], H!Threads(c))
  BY <1>1, IdleFits DEF H!Threads
<1>5. QED
  BY <1>2, <1>3, <1>4 DEF H!IInv

LEMMA HookFacts ==
    ASSUME H!IInv
    PROVE  /\ hooks \in [Hook -> Seq(H!Handler)] /\ fire \in [HookCaller -> H!Call]
           /\ threads \subseteq HookCaller \X H!Handler /\ stats \in Nat /\ hookAnswer \in BOOLEAN
           /\ regs \in 0 .. MaxRegs /\ fires \in 0 .. MaxFires /\ MaxRegs \in Nat /\ MaxFires \in Nat
           /\ \A h \in Hook : H!ListOK(hooks[h]) /\ \A i \in DOMAIN hooks[h] : hooks[h][i].n <= regs
           /\ \A c \in HookCaller : H!FireOK(fire[c], H!Threads(c)) /\ H!Threads(c) \subseteq H!Handler
<1>1. H!TypeOK
  BY DEF H!IInv
<1>2. \A c \in HookCaller : H!Threads(c) \subseteq H!Handler
  BY <1>1 DEF H!TypeOK, H!Threads
<1>3. QED
  BY <1>1, <1>2, PartBounds DEF H!TypeOK, H!IInv

LEMMA FiringsStay ==
    ASSUME H!IInv, UNCHANGED <<fire, threads>>
    PROVE  \A c \in HookCaller : H!FireOK(fire[c], H!Threads(c))'
<1>1. \A c \in HookCaller : H!Threads(c)' = H!Threads(c) /\ fire'[c] = fire[c]
  BY DEF H!Threads
<1>2. \A c \in HookCaller : H!FireOK(fire'[c], H!Threads(c)')
  BY <1>1, HookFacts
<1>3. QED
  BY <1>2 DEF H!FireOK, H!ListOK, H!Once, H!Descending, H!ToSet

\* A list that is changed by registering and unregistering: the firings go on with
\* their own copies.
LEMMA ListChanges ==
    ASSUME H!IInv, NEW h \in Hook, NEW s \in Seq(H!Handler), H!ListOK(s),
           hooks' = [hooks EXCEPT ![h] = s], UNCHANGED <<fire, threads, stats, fires>>,
           hookAnswer' \in BOOLEAN, regs' \in 0 .. MaxRegs, regs <= regs',
           \A i \in DOMAIN s : s[i].n <= regs'
    PROVE  H!IInv'
<1>1. /\ hooks \in [Hook -> Seq(H!Handler)] /\ fire \in [HookCaller -> H!Call]
      /\ threads \subseteq HookCaller \X H!Handler /\ stats \in Nat
      /\ regs \in 0 .. MaxRegs /\ fires \in 0 .. MaxFires /\ MaxRegs \in Nat /\ MaxFires \in Nat
      /\ \A g \in Hook : H!ListOK(hooks[g]) /\ \A i \in DOMAIN hooks[g] : hooks[g][i].n <= regs
      /\ \A c \in HookCaller : H!FireOK(fire[c], H!Threads(c))
  BY HookFacts
<1>2. hooks' \in [Hook -> Seq(H!Handler)] /\ \A g \in Hook : hooks'[g] = IF g = h THEN s ELSE hooks[g]
  BY <1>1
<1>3. H!TypeOK'
  BY <1>1, <1>2 DEF H!TypeOK
<1>4. ASSUME NEW g \in Hook
      PROVE  H!ListOK(hooks'[g]) /\ \A i \in DOMAIN hooks'[g] : hooks'[g][i].n <= regs'
  <2>1. CASE g = h
    BY <1>2, <2>1
  <2>2. CASE g # h
    <3>1. hooks'[g] = hooks[g] /\ hooks[g] \in Seq(H!Handler)
      BY <1>1, <1>2, <2>2
    <3>2. ASSUME NEW i \in DOMAIN hooks[g]
          PROVE  hooks[g][i].n <= regs'
      <4>1. hooks[g][i] \in H!Handler
        BY <3>1
      <4>2. hooks[g][i].n \in Nat /\ regs' \in Nat
        BY <1>1, <4>1 DEF H!Handler
      <4>3. QED
        BY <1>1, <4>2
    <3>3. QED
      BY <1>1, <3>1, <3>2
  <2>3. QED
    BY <2>1, <2>2
<1>7. \A c \in HookCaller : H!FireOK(fire[c], H!Threads(c))'
  BY FiringsStay
<1>8. \A g \in Hook : H!ListOK(hooks[g])'
  BY <1>4 DEF H!ListOK, H!Once, H!Descending
<1>9. QED
  BY <1>3, <1>4, <1>7, <1>8 DEF H!IInv

LEMMA RegisterKeeps ==
    ASSUME H!IInv, NEW h \in Hook, NEW p \in HookPlugin, NEW pri \in HookPriority,
           H!RegisterHook(h, p, pri)
    PROVE  H!IInv'
<1> DEFINE e == [plugin |-> p, pri |-> pri, n |-> regs']
           old == hooks[h]
           list == Append(old, e)
<1>1. /\ old \in Seq(H!Handler) /\ regs \in 0 .. MaxRegs /\ MaxRegs \in Nat /\ hookAnswer \in BOOLEAN
      /\ \A i \in DOMAIN old : old[i].n <= regs
  BY HookFacts
<1>2. /\ regs < MaxRegs /\ regs' = regs + 1 /\ UNCHANGED <<fire, threads, stats, hookAnswer, fires>>
  BY DEF H!RegisterHook
<1>3. PICK s \in H!Sortings(list) : hooks' = [hooks EXCEPT ![h] = s]
  BY DEF H!RegisterHook
<1>4. e \in H!Handler /\ e.n = regs'
  BY <1>1, <1>2 DEF H!Handler
<1> HIDE DEF e, old
<1>5. /\ list \in Seq(H!Handler) /\ Len(list) \in Nat /\ DOMAIN list = 1 .. Len(list)
      /\ Len(list) = Len(old) + 1 /\ list[Len(old) + 1] = e
      /\ \A i \in 1 .. Len(old) : list[i] = old[i]
      /\ DOMAIN old = 1 .. Len(old) /\ Len(old) \in Nat
  BY <1>1, <1>4, AppendProperties, LenProperties
<1> HIDE DEF list
<1>6. /\ s \in [1 .. Len(list) -> H!Handler] /\ H!ListOK(s)
      /\ \A i \in 1 .. Len(list) : \E k \in 1 .. Len(list) : s[i] = list[k]
  <2>1. s \in [DOMAIN list -> H!ToSet(list)] /\ H!ListOK(s)
    BY <1>3 DEF H!Sortings, H!ListOK
  <2>2. \A x \in H!ToSet(list) : x \in H!Handler /\ \E k \in 1 .. Len(list) : x = list[k]
    BY <1>5 DEF H!ToSet
  <2>3. QED
    BY <1>5, <2>1, <2>2
<1>7. s \in Seq(H!Handler) /\ DOMAIN s = 1 .. Len(list)
  BY <1>5, <1>6, SeqDef
<1>8. ASSUME NEW i \in DOMAIN s
      PROVE  s[i].n <= regs'
  <2>1. PICK k \in 1 .. Len(list) : s[i] = list[k]
    BY <1>6, <1>7
  <2>2. CASE k = Len(old) + 1
    BY <1>1, <1>2, <1>4, <1>5, <2>1, <2>2
  <2>3. CASE k \in 1 .. Len(old)
    <3>1. s[i].n <= regs /\ s[i] \in H!Handler
      BY <1>1, <1>5, <2>1, <2>3
    <3>2. s[i].n \in Nat
      BY <1>1, <3>1 DEF H!Handler
    <3>3. QED
      BY <1>1, <1>2, <3>1, <3>2
  <2>4. QED
    BY <1>5, <2>1, <2>2, <2>3
<1>9. regs' \in 0 .. MaxRegs /\ regs <= regs' /\ hookAnswer' \in BOOLEAN
  BY <1>1, <1>2
<1>10. QED
  BY <1>2, <1>3, <1>6, <1>7, <1>8, <1>9, ListChanges

\* What remove_if leaves of a list is a part of it, in the same order.
LEMMA HooksLeft ==
    ASSUME NEW S, NEW s \in Seq(S), NEW I \in SUBSET DOMAIN s, NEW u \in H!Left(s, I)
    PROVE  /\ u \in Seq(S)
           /\ \E f \in [DOMAIN u -> DOMAIN s] :
                /\ \A k \in DOMAIN u : u[k] = s[f[k]]
                /\ \A j, k \in DOMAIN u : j < k => f[j] < f[k]
<1> DEFINE n == Cardinality(I)
<1>1. H!Cardinality(I) = n
  BY DEF Cardinality, H!Cardinality
<1>2. n \in Nat
  <2>1. I \in SUBSET (1 .. Len(s)) /\ Len(s) \in Nat
    OBVIOUS
  <2>2. IsFiniteSet(1 .. Len(s))
    BY <2>1, FS_Interval
  <2>3. QED
    BY <2>1, <2>2, FS_Subset, FS_CardinalityType
<1>3. PICK f \in [1 .. n -> I] :
        /\ \A j, k \in 1 .. n : j < k => f[j] < f[k]
        /\ u = [k \in 1 .. n |-> s[f[k]]]
  BY <1>1 DEF H!Left
<1> HIDE DEF n
<1>4. DOMAIN u = 1 .. n /\ \A k \in 1 .. n : u[k] = s[f[k]] /\ u[k] \in S
  BY <1>3
<1>5. u \in Seq(S)
  <2>1. u \in [1 .. n -> S]
    BY <1>3, <1>4
  <2>2. QED
    BY <1>2, <2>1, SeqDef
<1>6. f \in [DOMAIN u -> DOMAIN s]
  BY <1>3, <1>4
<1>7. QED
  BY <1>3, <1>4, <1>5, <1>6

LEMMA UnregisterKeeps ==
    ASSUME H!IInv, NEW h \in Hook, NEW p \in HookPlugin, H!UnregisterHook(h, p)
    PROVE  H!IInv'
<1> DEFINE old == hooks[h]
           I == {i \in DOMAIN old : old[i].plugin # p}
<1>1. /\ old \in Seq(H!Handler) /\ regs \in 0 .. MaxRegs /\ MaxRegs \in Nat /\ H!ListOK(old)
      /\ \A i \in DOMAIN old : old[i].n <= regs
  BY HookFacts
<1>2. PICK u \in H!Left(old, I) :
        /\ hooks' = [hooks EXCEPT ![h] = u]
        /\ hookAnswer' \in IF u = <<>> THEN BOOLEAN ELSE {Len(u) < Len(old)}
  BY DEF H!UnregisterHook
<1>3. UNCHANGED <<fire, threads, stats, regs, fires>>
  BY DEF H!UnregisterHook
<1>4. I \in SUBSET DOMAIN old
  OBVIOUS
<1> HIDE DEF I
<1>5. PICK f \in [DOMAIN u -> DOMAIN old] :
             /\ \A k \in DOMAIN u : u[k] = old[f[k]]
             /\ \A j, k \in DOMAIN u : j < k => f[j] < f[k]
  BY <1>1, <1>2, <1>4, HooksLeft
<1>6. u \in Seq(H!Handler) /\ DOMAIN u = 1 .. Len(u) /\ Len(u) \in Nat
  BY <1>1, <1>2, <1>4, HooksLeft, LenProperties
<1> HIDE DEF old
<1>7. H!ListOK(u)
  <2>1. \A j, k \in DOMAIN u : j # k => f[j] # f[k]
    <3>1. \A k \in DOMAIN u : f[k] \in Nat
      BY <1>1, <1>5, LenProperties
    <3>2. QED
      BY <1>5, <1>6, <3>1
  <2>2. \A i, j \in DOMAIN old : i < j => old[i].pri >= old[j].pri
    BY <1>1 DEF H!ListOK, H!Descending
  <2>3. \A i, j \in DOMAIN old : i # j => old[i] # old[j]
    BY <1>1 DEF H!ListOK, H!Once
  <2>4. \A i, j \in DOMAIN u : i # j => u[i] # u[j]
    BY <1>5, <2>1, <2>3
  <2>5. \A i, j \in DOMAIN u : i < j => u[i].pri >= u[j].pri
    BY <1>5, <2>2
  <2>6. QED
    BY <2>4, <2>5 DEF H!ListOK, H!Once, H!Descending
<1>8. \A i \in DOMAIN u : u[i].n <= regs
  BY <1>1, <1>5
<1>9. hookAnswer' \in BOOLEAN
  <2>1. CASE u = <<>>
    BY <1>2, <2>1
  <2>2. CASE u # <<>>
    <3>1. hookAnswer' = (Len(u) < Len(old))
      BY <1>2, <2>2
    <3>2. QED
      BY <3>1
  <2>3. QED
    BY <2>1, <2>2
<1>10. regs' \in 0 .. MaxRegs /\ regs <= regs' /\ \A i \in DOMAIN u : u[i].n <= regs'
  BY <1>1, <1>3, <1>8
<1>11. QED
  BY <1>2, <1>3, <1>6, <1>7, <1>9, <1>10, ListChanges

\* A step of one firing need only show its new state.
LEMMA OneFiring ==
    ASSUME H!IInv, NEW c \in HookCaller, NEW f \in H!Call, NEW T, H!FireOK(f, T),
           fire' = [fire EXCEPT ![c] = f], H!Threads(c)' = T,
           threads' \subseteq HookCaller \X H!Handler,
           \A d \in HookCaller \ {c} : H!Threads(d)' = H!Threads(d),
           UNCHANGED <<hooks, hookAnswer, regs>>, stats' \in Nat, fires' \in 0 .. MaxFires
    PROVE  H!IInv'
<1>1. /\ hooks \in [Hook -> Seq(H!Handler)] /\ fire \in [HookCaller -> H!Call]
      /\ hookAnswer \in BOOLEAN /\ regs \in 0 .. MaxRegs
      /\ \A g \in Hook : H!ListOK(hooks[g]) /\ \A i \in DOMAIN hooks[g] : hooks[g][i].n <= regs
      /\ \A d \in HookCaller : H!FireOK(fire[d], H!Threads(d))
  BY HookFacts
<1>2. fire' \in [HookCaller -> H!Call] /\ \A d \in HookCaller : fire'[d] = IF d = c THEN f ELSE fire[d]
  BY <1>1
<1>3. H!TypeOK'
  BY <1>1, <1>2 DEF H!TypeOK
<1>4. ASSUME NEW d \in HookCaller
      PROVE  H!FireOK(fire'[d], H!Threads(d)')
  <2>1. CASE d = c
    BY <1>2, <2>1
  <2>2. CASE d # c
    BY <1>1, <1>2, <2>2
  <2>3. QED
    BY <2>1, <2>2
<1>5. \A d \in HookCaller : H!FireOK(fire[d], H!Threads(d))'
  BY <1>4 DEF H!FireOK, H!ListOK, H!Once, H!Descending, H!ToSet
<1>6. \A g \in Hook : H!ListOK(hooks[g])'
  BY <1>1 DEF H!ListOK, H!Once, H!Descending
<1>7. QED
  BY <1>1, <1>3, <1>5, <1>6 DEF H!IInv


LEMMA ClearKeeps ==
    ASSUME H!IInv, H!Clear
    PROVE  H!IInv'
<1>1. hooks' = [h \in Hook |-> <<>>] /\ UNCHANGED <<fire, threads, stats, hookAnswer, regs, fires>>
  BY DEF H!Clear
<1>2. H!TypeOK'
  <2>1. hooks' \in [Hook -> Seq(H!Handler)]
    BY <1>1
  <2>2. QED
    BY <1>1, <2>1, HookFacts DEF H!TypeOK
<1>3. \A g \in Hook : H!ListOK(hooks[g])' /\ \A i \in DOMAIN hooks'[g] : hooks'[g][i].n <= regs'
  BY <1>1 DEF H!ListOK, H!Once, H!Descending
<1>4. \A d \in HookCaller : H!FireOK(fire[d], H!Threads(d))'
  BY <1>1, FiringsStay
<1>5. QED
  BY <1>2, <1>3, <1>4 DEF H!IInv

\* A step that changes no list, no firing and no thread.
LEMMA StatsKeep ==
    ASSUME H!IInv, UNCHANGED <<hooks, fire, threads, hookAnswer, regs, fires>>, stats' \in Nat
    PROVE  H!IInv'
<1>1. H!TypeOK'
  BY HookFacts DEF H!TypeOK
<1>2. \A g \in Hook : H!ListOK(hooks[g])' /\ \A i \in DOMAIN hooks'[g] : hooks'[g][i].n <= regs'
  BY HookFacts DEF H!ListOK, H!Once, H!Descending
<1>3. \A d \in HookCaller : H!FireOK(fire[d], H!Threads(d))'
  BY FiringsStay
<1>4. QED
  BY <1>1, <1>2, <1>3 DEF H!IInv

\* What is known of one firing.
LEMMA FiringFacts ==
    ASSUME H!IInv, NEW c \in HookCaller, NEW f, f = fire[c]
    PROVE  /\ f \in H!Call /\ f.hook \in Hook /\ f.snap \in Seq(H!Handler) /\ f.ran \in Seq(H!Handler)
           /\ f.stopped \in BOOLEAN /\ f.at \in {"idle", "run", "wait", "forward", "done"}
           /\ H!FireOK(f, H!Threads(c)) /\ H!ListOK(f.snap) /\ H!Threads(c) \subseteq H!Handler
<1>1. f \in H!Call /\ H!FireOK(f, H!Threads(c)) /\ H!Threads(c) \subseteq H!Handler
  BY HookFacts
<1>2. QED
  BY <1>1 DEF H!Call, H!FireOK

LEMMA FireKeeps ==
    ASSUME H!IInv, NEW c \in HookCaller, NEW h \in Hook, H!Fire(c, h)
    PROVE  H!IInv'
<1> DEFINE list == hooks[h]
           threaded == HookMode[h] = "void"
           f == [at |-> H!FirstAt(h), hook |-> h, snap |-> list, ran |-> <<>>, stopped |-> FALSE]
           T == IF threaded THEN H!ToSet(list) ELSE {}
<1>1. /\ list \in Seq(H!Handler) /\ H!ListOK(list) /\ stats \in Nat /\ fires \in 0 .. MaxFires
      /\ MaxFires \in Nat /\ threads \subseteq HookCaller \X H!Handler
      /\ H!FireOK(fire[c], H!Threads(c))
  BY HookFacts
<1>2. /\ fire[c].at = "idle" /\ fires < MaxFires /\ fires' = fires + 1
      /\ fire' = [fire EXCEPT ![c] = f] /\ UNCHANGED <<hooks, stats, hookAnswer, regs>>
      /\ threads' = threads \cup (IF threaded THEN {<<c, r>> : r \in H!ToSet(list)} ELSE {})
  BY DEF H!Fire
<1>3. H!Threads(c) = {}
  BY <1>1, <1>2 DEF H!FireOK
<1>4. H!ToSet(list) \subseteq H!Handler
  BY <1>1 DEF H!ToSet
<1> HIDE DEF list
<1>5. H!FirstAt(h) \in {"wait", "run"} /\ (H!FirstAt(h) = "wait" <=> threaded)
  BY DEF H!FirstAt
<1>6. f \in H!Call
  BY <1>1, <1>5 DEF H!Call
<1>7. H!FireOK(f, T)
  <2>1. /\ f.at = H!FirstAt(h) /\ f.hook = h /\ f.snap = list /\ f.ran = <<>> /\ f.stopped = FALSE
    OBVIOUS
  <2>2. H!ToSet(<<>>) = {} /\ H!Once(<<>>) /\ Len(<<>>) = 0 /\ DOMAIN <<>> = {}
    BY DEF H!ToSet, H!Once
  <2>3. Len(list) \in Nat
    BY <1>1
  <2> HIDE DEF f
  <2>4. CASE threaded
    BY <1>1, <1>5, <2>1, <2>2, <2>4 DEF H!FireOK
  <2>5. CASE ~threaded
    BY <1>1, <1>5, <2>1, <2>2, <2>3, <2>5 DEF H!FireOK
  <2>6. QED
    BY <2>4, <2>5
<1> HIDE DEF f
<1>8. threads' \subseteq HookCaller \X H!Handler
  BY <1>1, <1>2, <1>4
<1>9. H!Threads(c)' = T
  <2>1. CASE threaded
    <3>1. threads' = threads \cup {<<c, r>> : r \in H!ToSet(list)}
      BY <1>2, <2>1
    <3>2. \A t \in threads : t[1] # c
      BY <1>3 DEF H!Threads
    <3>3. {t \in threads' : t[1] = c} = {<<c, r>> : r \in H!ToSet(list)}
      BY <3>1, <3>2
    <3>4. H!Threads(c)' = {t[2] : t \in {<<c, r>> : r \in H!ToSet(list)}}
      BY <3>3 DEF H!Threads
    <3>5. \A r : r \in {t[2] : t \in {<<c, q>> : q \in H!ToSet(list)}} <=> r \in H!ToSet(list)
      <4>1. ASSUME NEW r \in H!ToSet(list)
            PROVE  r \in {t[2] : t \in {<<c, q>> : q \in H!ToSet(list)}}
        <5>1. <<c, r>> \in {<<c, q>> : q \in H!ToSet(list)} /\ <<c, r>>[2] = r
          OBVIOUS
        <5>2. QED
          BY <5>1
      <4>2. QED
        BY <4>1
    <3>6. H!Threads(c)' = H!ToSet(list)
      BY <3>4, <3>5
    <3>7. QED
      BY <2>1, <3>6
  <2>2. CASE ~threaded
    BY <1>2, <1>3, <2>2 DEF H!Threads
  <2>3. QED
    BY <2>1, <2>2
<1>10. \A d \in HookCaller \ {c} : H!Threads(d)' = H!Threads(d)
  <2> SUFFICES ASSUME NEW d \in HookCaller \ {c}
               PROVE  {t \in threads' : t[1] = d} = {t \in threads : t[1] = d}
    BY DEF H!Threads
  <2>1. QED
    BY <1>2
<1> HIDE DEF T, threaded
<1>11. stats' \in Nat /\ fires' \in 0 .. MaxFires
  BY <1>1, <1>2
<1>12. QED
  BY <1>2, <1>6, <1>7, <1>8, <1>9, <1>10, <1>11, OneFiring

\* A firing after a handler has run.
Ran(f, r) == [f EXCEPT !.ran = Append(f.ran, r)]
At(f, at) == [f EXCEPT !.at = at]

LEMMA RanFields ==
    ASSUME NEW f \in H!Call, NEW r \in H!Handler
    PROVE  /\ Ran(f, r) \in H!Call /\ Ran(f, r).at = f.at /\ Ran(f, r).hook = f.hook
           /\ Ran(f, r).snap = f.snap /\ Ran(f, r).stopped = f.stopped /\ Ran(f, r).ran = Append(f.ran, r)
<1>1. f.ran \in Seq(H!Handler)
  BY DEF H!Call
<1>2. Append(f.ran, r) \in Seq(H!Handler)
  BY <1>1
<1>3. QED
  BY <1>2 DEF H!Call, Ran

LEMMA RecordedFields ==
    ASSUME NEW f \in H!Call, NEW r \in H!Handler, NEW stops \in BOOLEAN
    PROVE  LET g == H!Recorded(f, r, stops)
           IN  /\ g \in H!Call /\ g.hook = f.hook /\ g.snap = f.snap
               /\ g.at = (IF stops THEN "done" ELSE "run")
               /\ g.stopped = stops /\ g.ran = Append(f.ran, r)
<1>1. PICK at \in {"run", "done"} : at = IF stops THEN "done" ELSE "run"
  OBVIOUS
<1>2. f.ran \in Seq(H!Handler)
  BY DEF H!Call
<1>3. Append(f.ran, r) \in Seq(H!Handler)
  BY <1>2
<1>4. H!Recorded(f, r, stops) = [f EXCEPT !.ran = Append(f.ran, r), !.stopped = stops, !.at = at]
  BY <1>1 DEF H!Recorded
<1>5. QED
  BY <1>1, <1>3, <1>4 DEF H!Call

LEMMA AtFields ==
    ASSUME NEW f \in H!Call, NEW at \in {"forward", "done"}
    PROVE  /\ At(f, at) \in H!Call /\ At(f, at).at = at /\ At(f, at).hook = f.hook
           /\ At(f, at).snap = f.snap /\ At(f, at).stopped = f.stopped /\ At(f, at).ran = f.ran
  BY DEF H!Call, At

\* A list with one more handler.
LEMMA OneMore ==
    ASSUME NEW S, NEW s \in Seq(S), NEW r \in S
    PROVE  /\ Append(s, r) \in Seq(S) /\ Len(Append(s, r)) = Len(s) + 1 /\ Len(s) \in Nat
           /\ DOMAIN s = 1 .. Len(s) /\ DOMAIN Append(s, r) = 1 .. (Len(s) + 1)
           /\ Append(s, r)[Len(s) + 1] = r /\ \A i \in 1 .. Len(s) : Append(s, r)[i] = s[i]
           /\ H!ToSet(Append(s, r)) = H!ToSet(s) \cup {r}
           /\ H!Once(s) /\ r \notin H!ToSet(s) => H!Once(Append(s, r))
<1> DEFINE t == Append(s, r)
<1>1. /\ t \in Seq(S) /\ Len(t) = Len(s) + 1 /\ Len(s) \in Nat
      /\ t[Len(s) + 1] = r /\ \A i \in 1 .. Len(s) : t[i] = s[i]
  BY AppendProperties
<1>2. DOMAIN s = 1 .. Len(s) /\ DOMAIN t = 1 .. (Len(s) + 1)
  BY <1>1, LenProperties
<1> HIDE DEF t
<1>3. \A i \in 1 .. (Len(s) + 1) : i \in 1 .. Len(s) \/ i = Len(s) + 1
  BY <1>1
<1>4. H!ToSet(t) = H!ToSet(s) \cup {r}
  <2>1. H!ToSet(t) \subseteq H!ToSet(s) \cup {r}
    BY <1>1, <1>2, <1>3 DEF H!ToSet
  <2>2. H!ToSet(s) \subseteq H!ToSet(t)
    BY <1>1, <1>2 DEF H!ToSet
  <2>3. r \in H!ToSet(t)
    BY <1>1, <1>2 DEF H!ToSet
  <2>4. QED
    BY <2>1, <2>2, <2>3
<1>5. ASSUME H!Once(s), r \notin H!ToSet(s)
      PROVE  H!Once(t)
  BY <1>1, <1>2, <1>3, <1>5 DEF H!Once, H!ToSet
<1>6. QED
  BY <1>1, <1>2, <1>4, <1>5 DEF t

LEMMA ThreadKeeps ==
    ASSUME H!IInv, NEW t \in threads, H!ThreadRuns(t[1], t[2])
    PROVE  H!IInv'
<1>1. t \in HookCaller \X H!Handler /\ threads \subseteq HookCaller \X H!Handler
      /\ stats \in Nat /\ fires \in 0 .. MaxFires /\ fire \in [HookCaller -> H!Call]
  BY HookFacts
<1>2. PICK c \in HookCaller, r \in H!Handler : c = t[1] /\ r = t[2] /\ t = <<c, r>>
  BY <1>1
<1>3. PICK f \in H!Call : f = fire[c]
  BY <1>1
<1>4. PICK T \in SUBSET H!Handler : T = H!Threads(c)
  BY HookFacts
<1>5. /\ <<c, r>> \in threads /\ threads' = threads \ {<<c, r>>} /\ stats' = stats + 1
      /\ fire' = [fire EXCEPT ![c] = Ran(f, r)] /\ UNCHANGED <<hooks, hookAnswer, regs, fires>>
  BY <1>1, <1>2, <1>3 DEF H!ThreadRuns, Ran
<1>6. r \in T
  BY <1>4, <1>5 DEF H!Threads
<1>7. H!FireOK(f, T) /\ f.ran \in Seq(H!Handler) /\ f.snap \in Seq(H!Handler)
  BY <1>3, <1>4, FiringFacts
<1>8. /\ HookMode[f.hook] = "void" /\ H!ListOK(f.snap) /\ f.at # "run" /\ f.at = "wait"
      /\ H!Once(f.ran) /\ H!ToSet(f.ran) \cup T = H!ToSet(f.snap) /\ H!ToSet(f.ran) \cap T = {}
  BY <1>6, <1>7 DEF H!FireOK
<1>9. r \notin H!ToSet(f.ran)
  BY <1>6, <1>8
<1>10. H!Once(Append(f.ran, r)) /\ H!ToSet(Append(f.ran, r)) = H!ToSet(f.ran) \cup {r}
  BY <1>7, <1>8, <1>9, OneMore
<1>11. H!FireOK(Ran(f, r), T \ {r})
  <2>1. PICK g \in H!Call : /\ g = Ran(f, r) /\ g.at = f.at /\ g.hook = f.hook /\ g.snap = f.snap
                            /\ g.ran = Append(f.ran, r)
    BY RanFields
  <2>2. /\ H!ToSet(g.ran) \cup (T \ {r}) = H!ToSet(g.snap)
        /\ H!ToSet(g.ran) \cap (T \ {r}) = {} /\ H!Once(g.ran)
    BY <1>6, <1>8, <1>10, <2>1
  <2>3. H!FireOK(g, T \ {r})
    BY <1>8, <2>1, <2>2 DEF H!FireOK
  <2>4. QED
    BY <2>1, <2>3
<1>12. H!Threads(c)' = T \ {r}
  <2>1. \A u \in threads : u[1] = c => (u # <<c, r>> <=> u[2] # r)
    BY <1>1
  <2>2. QED
    BY <1>4, <1>5, <2>1 DEF H!Threads
<1>13. \A d \in HookCaller \ {c} : H!Threads(d)' = H!Threads(d)
  <2> SUFFICES ASSUME NEW d \in HookCaller \ {c}
               PROVE  {u \in threads' : u[1] = d} = {u \in threads : u[1] = d}
    BY DEF H!Threads
  <2>1. QED
    BY <1>5
<1>14. stats' \in Nat /\ fires' \in 0 .. MaxFires /\ threads' \subseteq HookCaller \X H!Handler
  BY <1>1, <1>5
<1>15. QED
  BY <1>5, <1>11, <1>12, <1>13, <1>14, RanFields, OneFiring

\* A step of one firing that touches no thread.
LEMMA FiringSteps ==
    ASSUME H!IInv, NEW c \in HookCaller, NEW g \in H!Call, H!FireOK(g, H!Threads(c)),
           fire' = [fire EXCEPT ![c] = g], stats' \in Nat,
           UNCHANGED <<hooks, threads, hookAnswer, regs, fires>>
    PROVE  H!IInv'
<1>1. \A d \in HookCaller : H!Threads(d)' = H!Threads(d)
  BY DEF H!Threads
<1>2. threads' \subseteq HookCaller \X H!Handler /\ fires' \in 0 .. MaxFires
  BY HookFacts
<1>3. PICK T : T = H!Threads(c)
  OBVIOUS
<1>4. QED
  BY <1>1, <1>2, <1>3, OneFiring

\* What a sequential firing is when the next handler has run.
LEMMA NextRuns ==
    ASSUME H!IInv, NEW c \in HookCaller, NEW f, f = fire[c], NEW mode \in {"modifying", "sync"},
           H!Sequential(c, mode)
    PROVE  /\ f \in H!Call /\ H!NextHandler(c) \in H!Handler /\ f.at = "run"
           /\ \A g \in H!Call :
                /\ g.hook = f.hook /\ g.snap = f.snap /\ g.ran = Append(f.ran, H!NextHandler(c))
                /\ g.at = "run" \/ (g.at = "done" /\ g.stopped)
                => H!FireOK(g, H!Threads(c))
<1>1. /\ f \in H!Call /\ f.snap \in Seq(H!Handler) /\ f.ran \in Seq(H!Handler)
      /\ H!FireOK(f, H!Threads(c)) /\ H!ListOK(f.snap)
  BY FiringFacts
<1>2. f.at = "run" /\ HookMode[f.hook] = mode /\ Len(f.ran) < Len(f.snap)
  BY DEF H!Sequential
<1>3. /\ H!Threads(c) = {} /\ HookMode[f.hook] # "void"
      /\ \A i \in DOMAIN f.ran : f.ran[i] = f.snap[i]
  BY <1>1, <1>2 DEF H!FireOK
<1>4. PICK n \in Nat : n = Len(f.ran)
  BY <1>1
<1>5. n + 1 \in DOMAIN f.snap /\ Len(f.snap) \in Nat
  BY <1>1, <1>2, <1>4
<1>6. PICK r \in H!Handler : r = H!NextHandler(c) /\ r = f.snap[n + 1]
  BY <1>1, <1>4, <1>5 DEF H!NextHandler
<1>7. ASSUME NEW g \in H!Call, g.hook = f.hook, g.snap = f.snap, g.ran = Append(f.ran, r),
             g.at = "run" \/ (g.at = "done" /\ g.stopped)
      PROVE  H!FireOK(g, {})
  <2>1. /\ Len(g.ran) = n + 1 /\ DOMAIN g.ran = 1 .. (n + 1) /\ g.ran[n + 1] = r
        /\ \A i \in 1 .. n : g.ran[i] = f.ran[i] /\ DOMAIN f.ran = 1 .. n
    BY <1>1, <1>4, <1>7, OneMore
  <2>2. \A i \in DOMAIN g.ran : g.ran[i] = g.snap[i]
    <3> SUFFICES ASSUME NEW i \in 1 .. (n + 1)
                 PROVE  g.ran[i] = g.snap[i]
      BY <2>1
    <3>1. CASE i = n + 1
      BY <1>6, <1>7, <2>1, <3>1
    <3>2. CASE i \in 1 .. n
      BY <1>3, <1>7, <2>1, <3>2
    <3>3. QED
      BY <1>4, <3>1, <3>2
  <2>3. Len(g.ran) <= Len(g.snap)
    BY <1>2, <1>4, <1>5, <1>7, <2>1
  <2>4. HookMode[g.hook] # "void" /\ g.at # "wait" /\ H!ListOK(g.snap) /\ ~(g.at \in {"forward", "done"} /\ ~g.stopped)
    BY <1>1, <1>3, <1>7
  <2>5. QED
    BY <2>2, <2>3, <2>4 DEF H!FireOK
<1>8. QED
  BY <1>1, <1>2, <1>3, <1>6, <1>7

LEMMA SequentialKeeps ==
    ASSUME H!IInv, NEW c \in HookCaller, H!RunModifying(c) \/ H!RunSync(c)
    PROVE  H!IInv'
<1>1. PICK f \in H!Call : f = fire[c]
  BY HookFacts
<1>2. fire \in [HookCaller -> H!Call] /\ stats \in Nat
  BY HookFacts
<1>3. CASE H!RunModifying(c)
  <2>1. H!Sequential(c, "modifying") /\ stats' = stats + 1 /\ UNCHANGED <<hooks, threads, hookAnswer, regs, fires>>
    BY <1>3 DEF H!RunModifying
  <2>2. PICK r \in H!Handler : r = H!NextHandler(c)
    BY <1>1, <2>1, NextRuns
  <2>3. PICK stops \in BOOLEAN : fire' = [fire EXCEPT ![c] = H!Recorded(f, r, stops)]
    BY <1>1, <1>3, <2>2 DEF H!RunModifying
  <2>4. PICK g \in H!Call : /\ g = H!Recorded(f, r, stops) /\ g.hook = f.hook /\ g.snap = f.snap
                            /\ g.at = (IF stops THEN "done" ELSE "run")
                            /\ g.stopped = stops /\ g.ran = Append(f.ran, r)
    BY RecordedFields
  <2>7. g.at = "run" \/ (g.at = "done" /\ g.stopped)
    BY <2>4
  <2>8. H!FireOK(g, H!Threads(c))
    BY <1>1, <2>1, <2>2, <2>4, <2>7, NextRuns
  <2>9. fire' = [fire EXCEPT ![c] = g] /\ stats' \in Nat
    BY <1>2, <2>1, <2>3, <2>4
  <2>10. QED
    BY <2>1, <2>8, <2>9, FiringSteps
<1>4. CASE H!RunSync(c)
  <2>1. H!Sequential(c, "sync") /\ stats' = stats + 1 /\ UNCHANGED <<hooks, threads, hookAnswer, regs, fires>>
    BY <1>4 DEF H!RunSync
  <2>2. PICK r \in H!Handler : r = H!NextHandler(c)
    BY <1>1, <2>1, NextRuns
  <2>3. fire' = [fire EXCEPT ![c] = Ran(f, r)]
    BY <1>1, <1>2, <1>4, <2>2 DEF H!RunSync, Ran
  <2>4. PICK g \in H!Call : /\ g = Ran(f, r) /\ g.at = f.at /\ g.hook = f.hook /\ g.snap = f.snap
                            /\ g.ran = Append(f.ran, r)
    BY RanFields
  <2>5. f.at = "run"
    BY <1>1, <2>1, NextRuns
  <2>6. H!FireOK(g, H!Threads(c))
    BY <1>1, <2>1, <2>2, <2>4, <2>5, NextRuns
  <2>7. fire' = [fire EXCEPT ![c] = g] /\ stats' \in Nat
    BY <1>2, <2>1, <2>3, <2>4
  <2>8. QED
    BY <2>1, <2>6, <2>7, FiringSteps
<1>5. QED
  BY <1>3, <1>4

LEMMA GoesOnKeeps ==
    ASSUME H!IInv, NEW c \in HookCaller,
           H!WaitForAll(c) \/ H!AllRan(c) \/ H!ForwardToSidecar(c) \/ H!Return(c)
    PROVE  H!IInv'
<1>1. PICK f \in H!Call : f = fire[c]
  BY HookFacts
<1>2. /\ fire \in [HookCaller -> H!Call] /\ stats \in Nat /\ H!FireOK(f, H!Threads(c)) /\ H!ListOK(f.snap)
  BY <1>1, HookFacts, FiringFacts
<1>3. CASE H!WaitForAll(c)
  <2>1. /\ f.at = "wait" /\ \A t \in threads : t[1] # c
        /\ fire' = [fire EXCEPT ![c] = At(f, "forward")] /\ UNCHANGED <<hooks, threads, stats, hookAnswer, regs, fires>>
    BY <1>1, <1>2, <1>3 DEF H!WaitForAll, At
  <2>2. H!Threads(c) = {}
    BY <2>1 DEF H!Threads
  <2>3. PICK g \in H!Call : /\ g = At(f, "forward") /\ g.at = "forward" /\ g.hook = f.hook /\ g.snap = f.snap
                            /\ g.stopped = f.stopped /\ g.ran = f.ran
    BY AtFields
  <2>4. H!FireOK(g, H!Threads(c))
    BY <1>2, <2>1, <2>2, <2>3 DEF H!FireOK
  <2>5. QED
    BY <1>2, <2>1, <2>3, <2>4, FiringSteps
<1>4. CASE H!AllRan(c)
  <2>1. /\ f.at = "run" /\ Len(f.ran) = Len(f.snap)
        /\ fire' = [fire EXCEPT ![c] = At(f, "forward")] /\ UNCHANGED <<hooks, threads, stats, hookAnswer, regs, fires>>
    BY <1>1, <1>2, <1>4 DEF H!AllRan, At
  <2>2. PICK g \in H!Call : /\ g = At(f, "forward") /\ g.at = "forward" /\ g.hook = f.hook /\ g.snap = f.snap
                            /\ g.stopped = f.stopped /\ g.ran = f.ran
    BY AtFields
  <2>3. H!FireOK(g, H!Threads(c))
    BY <1>2, <2>1, <2>2 DEF H!FireOK
  <2>4. QED
    BY <1>2, <2>1, <2>2, <2>3, FiringSteps
<1>5. CASE H!ForwardToSidecar(c)
  <2>1. /\ f.at = "forward"
        /\ fire' = [fire EXCEPT ![c] = At(f, "done")] /\ UNCHANGED <<hooks, threads, stats, hookAnswer, regs, fires>>
    BY <1>1, <1>2, <1>5 DEF H!ForwardToSidecar, At
  <2>2. PICK g \in H!Call : /\ g = At(f, "done") /\ g.at = "done" /\ g.hook = f.hook /\ g.snap = f.snap
                            /\ g.stopped = f.stopped /\ g.ran = f.ran
    BY AtFields
  <2>3. H!FireOK(g, H!Threads(c))
    BY <1>2, <2>1, <2>2 DEF H!FireOK
  <2>4. QED
    BY <1>2, <2>1, <2>2, <2>3, FiringSteps
<1>6. CASE H!Return(c)
  <2>1. /\ f.at = "done" /\ fire' = [fire EXCEPT ![c] = H!Idle]
        /\ UNCHANGED <<hooks, threads, stats, hookAnswer, regs, fires>>
    BY <1>1, <1>6 DEF H!Return
  <2>2. H!Threads(c) = {}
    BY <1>2, <2>1 DEF H!FireOK
  <2>3. QED
    BY <1>2, <2>1, <2>2, IdleFits, FiringSteps
<1>7. QED
  BY <1>3, <1>4, <1>5, <1>6

LEMMA HooksKeep ==
    ASSUME H!IInv, H!Next \/ UNCHANGED hooksVars
    PROVE  H!IInv'
<1>1. CASE UNCHANGED hooksVars
  BY <1>1, StatsKeep, HookFacts DEF hooksVars
<1>2. CASE H!Next
  <2>1. CASE \E h \in Hook, p \in HookPlugin, pri \in HookPriority : H!RegisterHook(h, p, pri)
    BY <2>1, RegisterKeeps
  <2>2. CASE \E h \in Hook, p \in HookPlugin : H!UnregisterHook(h, p)
    BY <2>2, UnregisterKeeps
  <2>3. CASE H!Clear
    BY <2>3, ClearKeeps
  <2>4. CASE H!ClearHookStats
    BY <2>4, StatsKeep DEF H!ClearHookStats
  <2>5. CASE \E c \in HookCaller, h \in Hook : H!Fire(c, h)
    BY <2>5, FireKeeps
  <2>6. CASE \E t \in threads : H!ThreadRuns(t[1], t[2])
    BY <2>6, ThreadKeeps
  <2>7. CASE \E c \in HookCaller : \/ H!WaitForAll(c) \/ H!RunModifying(c) \/ H!RunSync(c) \/ H!AllRan(c)
                                   \/ H!ForwardToSidecar(c) \/ H!Return(c)
    BY <2>7, SequentialKeeps, GoesOnKeeps
  <2>8. QED
    BY <1>2, <2>1, <2>2, <2>3, <2>4, <2>5, <2>6, <2>7 DEF H!Next
<1>3. QED
  BY <1>1, <1>2

\* The invariant says how the handlers that ran compare with those that were there.
LEMMA HooksFire ==
    ASSUME H!IInv
    PROVE  H!FireCallsEachOnce
<1> SUFFICES ASSUME NEW c \in HookCaller, NEW f, f = fire[c]
             PROVE  /\ H!ToSet(f.ran) \subseteq H!ToSet(f.snap)
                    /\ \A i, j \in DOMAIN f.ran : i # j => f.ran[i] # f.ran[j]
                    /\ HookMode[f.hook] # "void" =>
                         \A i \in DOMAIN f.ran, r \in H!ToSet(f.snap) :
                           r.pri > f.ran[i].pri => \E j \in 1 .. (i - 1) : f.ran[j] = r
                    /\ f.at \in {"forward", "done"} /\ ~f.stopped => H!ToSet(f.ran) = H!ToSet(f.snap)
                    /\ f.at # "wait" => \A t \in threads : t[1] # c
  BY DEF H!FireCallsEachOnce
<1>1. /\ f.snap \in Seq(H!Handler) /\ f.ran \in Seq(H!Handler)
      /\ H!FireOK(f, H!Threads(c)) /\ H!ListOK(f.snap)
  BY FiringFacts
<1>2. H!Threads(c) = {} => \A t \in threads : t[1] # c
  BY DEF H!Threads
<1>3. CASE HookMode[f.hook] = "void"
  <2>1. /\ H!Once(f.ran) /\ H!ToSet(f.ran) \cup H!Threads(c) = H!ToSet(f.snap)
        /\ f.at # "wait" => H!Threads(c) = {}
    BY <1>1, <1>3 DEF H!FireOK
  <2>2. QED
    BY <1>2, <1>3, <2>1 DEF H!Once
<1>4. CASE HookMode[f.hook] # "void"
  <2>1. /\ H!Threads(c) = {} /\ Len(f.ran) <= Len(f.snap) /\ \A i \in DOMAIN f.ran : f.ran[i] = f.snap[i]
        /\ f.at \in {"forward", "done"} /\ ~f.stopped => Len(f.ran) = Len(f.snap)
    BY <1>1, <1>4 DEF H!FireOK
  <2>2. /\ DOMAIN f.ran = 1 .. Len(f.ran) /\ DOMAIN f.snap = 1 .. Len(f.snap)
        /\ Len(f.ran) \in Nat /\ Len(f.snap) \in Nat
    BY <1>1, LenProperties
  <2>3. /\ \A i, j \in DOMAIN f.snap : i < j => f.snap[i].pri >= f.snap[j].pri
        /\ \A i, j \in DOMAIN f.snap : i # j => f.snap[i] # f.snap[j]
    BY <1>1 DEF H!ListOK, H!Once, H!Descending
  <2>4. \A i \in DOMAIN f.ran : i \in DOMAIN f.snap
    BY <2>1, <2>2
  <2>5. H!ToSet(f.ran) \subseteq H!ToSet(f.snap)
    BY <2>1, <2>4 DEF H!ToSet
  <2>6. \A i, j \in DOMAIN f.ran : i # j => f.ran[i] # f.ran[j]
    BY <2>1, <2>3, <2>4
  <2>7. ASSUME NEW i \in DOMAIN f.ran, NEW r \in H!ToSet(f.snap), r.pri > f.ran[i].pri
        PROVE  \E j \in 1 .. (i - 1) : f.ran[j] = r
    <3>1. PICK k \in DOMAIN f.snap : r = f.snap[k]
      BY DEF H!ToSet
    <3>2. f.ran[i] = f.snap[i] /\ i \in DOMAIN f.snap
      BY <2>1, <2>4
    <3>3. f.snap[k] \in H!Handler /\ f.snap[i] \in H!Handler
      BY <1>1, <3>2
    <3>4. f.snap[k].pri \in Int /\ f.snap[i].pri \in Int
      <4>1. f.snap[k].pri \in HookPriority /\ f.snap[i].pri \in HookPriority
        BY <3>3 DEF H!Handler
      <4>2. HookPriority \subseteq Int
        BY PartNames
      <4>3. QED
        BY <4>1, <4>2
    <3>5. k # i /\ ~(i < k)
      BY <2>3, <2>7, <3>1, <3>2, <3>4
    <3>6. k \in 1 .. (i - 1) /\ k \in DOMAIN f.ran
      BY <2>2, <3>2, <3>5
    <3>7. QED
      BY <2>1, <3>1, <3>6
  <2>8. f.at \in {"forward", "done"} /\ ~f.stopped => H!ToSet(f.ran) = H!ToSet(f.snap)
    BY <2>1, <2>2 DEF H!ToSet
  <2>9. QED
    BY <1>2, <1>4, <2>1, <2>5, <2>6, <2>7, <2>8
<1>5. QED
  BY <1>3, <1>4

-----------------------------------------------------------------------------
(* Cron *)

\* Division and remainder, which the prover does not know well.
LEMMA DivFacts ==
  ASSUME NEW n \in Nat, NEW d \in Nat \ {0}
  PROVE  /\ n \div d \in Nat /\ n % d \in 0 .. (d - 1) /\ n = (n \div d) * d + (n % d)
  OBVIOUS
LEMMA GapAtLeast ==
  ASSUME NEW p \in Nat, NEW d \in Nat \ {0}, NEW q \in Nat, p < q
  PROVE  p * d + d <= q * d
<1>1. PICK e \in Nat : q = p + 1 + e
  <2>1. q - p - 1 \in Nat /\ q = p + 1 + (q - p - 1)
    OBVIOUS
  <2>2. QED
    BY <2>1
<1>2. q * d = p * d + d + e * d
  BY <1>1
<1>3. e * d \in Nat
  OBVIOUS
<1>4. p * d \in Nat
  OBVIOUS
<1>5. QED
  BY <1>2, <1>3, <1>4
LEMMA DivUnique ==
  ASSUME NEW q \in Nat, NEW d \in Nat \ {0}, NEW r \in 0 .. (d - 1)
  PROVE  (q * d + r) % d = r /\ (q * d + r) \div d = q
<1> DEFINE n == q * d + r
<1>1. n \in Nat /\ q * d \in Nat
  OBVIOUS
<1>2. PICK p \in Nat, s \in 0 .. (d - 1) : n = p * d + s /\ p = n \div d /\ s = n % d
  BY <1>1, DivFacts
<1>3. p * d \in Nat
  OBVIOUS
<1>4. ~(p < q)
  <2>1. p < q => p * d + d <= q * d
    BY GapAtLeast
  <2>2. QED
    BY <1>1, <1>2, <1>3, <2>1
<1>5. ~(q < p)
  <2>1. q < p => q * d + d <= p * d
    BY GapAtLeast
  <2>2. QED
    BY <1>1, <1>2, <1>3, <2>1
<1>6. p = q
  BY <1>4, <1>5
<1>7. s = r
  BY <1>1, <1>2, <1>6
<1>8. QED
  BY <1>2, <1>6, <1>7

\* The first minute the search finds, and that it finds one whenever the schedule
\* names any: it looks ahead as long as the minutes and hours take to come round.
LEMMA LeastExists ==
    ASSUME NEW T, T \subseteq Nat, T # {}
    PROVE  \E m \in T : \A k \in T : m <= k
<1> DEFINE R == {p \in Nat \X Nat : p[1] < p[2]}
<1>1. IsWellFoundedOn(R, Nat)
  BY NatLessThanWellFounded DEF OpToRel
<1> HIDE DEF R
<1>2. PICK m \in T : \A k \in T : ~(<<k, m>> \in R)
  BY <1>1, WFMin
<1>3. \A k \in T : ~(k < m)
  BY <1>2 DEF R
<1>4. \A k \in T : m <= k
  BY <1>3
<1>5. QED
  BY <1>4
LEMMA CronLeast ==
    ASSUME NEW T, T \subseteq Nat, T # {}
    PROVE  CR!Min(T) \in T
  BY LeastExists DEF CR!Min

LEMMA ComesRound ==
    ASSUME NEW m \in Nat, NEW from \in Nat
    PROVE  \E i \in from .. (from + SearchLimit - 1) :
             /\ i % Minutes = m % Minutes
             /\ (i \div Minutes) % Hours = (m \div Minutes) % Hours
<1> DEFINE P == Minutes * Hours
           a == m % Minutes
           b == (m \div Minutes) % Hours
           e == b * Minutes + a
<1>1. /\ Minutes \in Nat \ {0} /\ Hours \in Nat \ {0} /\ SearchLimit \in Nat /\ SearchLimit >= P
      /\ P \in Nat \ {0}
  <2>1. Minutes \in Nat \ {0} /\ Hours \in Nat \ {0} /\ SearchLimit \in Nat /\ SearchLimit >= P
    BY PartBounds, CronBounds
  <2>2. QED
    BY <2>1
<1>2. a \in 0 .. (Minutes - 1) /\ b \in 0 .. (Hours - 1)
  <2>1. m \div Minutes \in Nat /\ m % Minutes \in 0 .. (Minutes - 1)
    BY <1>1, DivFacts
  <2>2. QED
    BY <1>1, <2>1, DivFacts
<1> HIDE DEF a, b
<1>3. e \in Nat /\ e < P
  <2>1. b * Minutes \in Nat /\ b \in Nat /\ a \in Nat
    BY <1>1, <1>2
  <2>2. b * Minutes + Minutes <= Hours * Minutes
    BY <1>1, <1>2, GapAtLeast
  <2>3. Hours * Minutes = P
    BY <1>1
  <2>4. QED
    BY <1>1, <1>2, <2>1, <2>2, <2>3
<1> HIDE DEF e
<1>4. PICK q \in Nat, r \in 0 .. (P - 1) : from = q * P + r
  BY <1>1, DivFacts
<1>5. \E k \in Nat : k * P + e \in from .. (from + SearchLimit - 1)
  <2>1. q * P \in Nat /\ (q + 1) * P = q * P + P /\ q + 1 \in Nat
    BY <1>1, <1>4
  <2> HIDE DEF P
  <2>2. CASE r <= e
    BY <1>1, <1>3, <1>4, <2>1, <2>2
  <2>3. CASE r > e
    <3>1. PICK w \in Nat : w = q * P
      BY <2>1
    <3>2. (q + 1) * P + e = w + P + e /\ from = w + r
      BY <1>3, <1>4, <2>1, <3>1
    <3>3. w + P + e \in from .. (from + SearchLimit - 1)
      BY <1>1, <1>3, <1>4, <2>3, <3>2
    <3>4. QED
      BY <2>1, <3>2, <3>3
  <2>4. QED
    BY <1>3, <1>4, <2>2, <2>3
<1>6. PICK k \in Nat : k * P + e \in from .. (from + SearchLimit - 1)
  BY <1>5
<1> DEFINE d == k * Hours + b
<1>7. d \in Nat /\ k * P + e = d * Minutes + a
  BY <1>1, <1>2 DEF e
<1> HIDE DEF d, P
<1>8. (d * Minutes + a) % Minutes = a /\ (d * Minutes + a) \div Minutes = d
  BY <1>1, <1>2, <1>7, DivUnique
<1>9. d % Hours = b
  BY <1>1, <1>2, DivUnique DEF d
<1>10. PICK i \in from .. (from + SearchLimit - 1) : i = d * Minutes + a
  BY <1>6, <1>7
<1>11. i % Minutes = a /\ (i \div Minutes) % Hours = b
  BY <1>8, <1>9, <1>10
<1>12. QED
  BY <1>11 DEF a, b

LEMMA NextRun ==
    ASSUME NEW s, NEW t \in Nat
    PROVE  /\ CR!NextAfter(s, t) \in Nat /\ CR!NextAfter(s, t) > t \div 2
           /\ CR!Named(s, 0) # {} => CR!Matches(s, CR!NextAfter(s, t))
<1> DEFINE from == (t \div 2) + 1
           T == CR!Named(s, from)
<1>1. t \div 2 \in Nat /\ from \in Nat /\ Minutes \in Nat \ {0} /\ SearchLimit \in Nat
  BY PartBounds
<1>2. CR!NextAfter(s, t) = IF T = {} THEN (t \div 2) + Minutes ELSE CR!Min(T)
  BY DEF CR!NextAfter
<1>3. \A i \in T : i \in Nat /\ i >= from /\ CR!Matches(s, i)
  BY <1>1 DEF CR!Named
<1>4. CR!Named(s, 0) # {} => T # {}
  <2> SUFFICES ASSUME NEW m \in CR!Named(s, 0)
               PROVE  T # {}
    OBVIOUS
  <2>1. m \in Nat /\ CR!Matches(s, m)
    BY <1>1 DEF CR!Named
  <2> HIDE DEF from
  <2>2. PICK i \in from .. (from + SearchLimit - 1) :
             /\ i % Minutes = m % Minutes
             /\ (i \div Minutes) % Hours = (m \div Minutes) % Hours
    BY <1>1, <2>1, ComesRound
  <2>3. CR!Matches(s, i)
    BY <2>1, <2>2 DEF CR!Matches
  <2>4. QED
    BY <2>2, <2>3 DEF CR!Named
<1>5. T # {} => CR!Min(T) \in T
  <2>1. T \subseteq Nat
    BY <1>3
  <2> HIDE DEF T
  <2>2. QED
    BY <2>1, CronLeast
<1> HIDE DEF T
<1>6. CASE T = {}
  BY <1>1, <1>2, <1>4, <1>6
<1>7. CASE T # {}
  BY <1>1, <1>2, <1>3, <1>5, <1>7
<1>8. QED
  BY <1>6, <1>7

LEMMA CronInit ==
    ASSUME CR!Init
    PROVE  CR!IInv
<1> USE DEF CR!Init, CR!Asleep
<1>1. \A j \in CronJob : next_run[j] = 0 /\ served[j] = <<>> /\ loop.due = {}
  OBVIOUS
<1>2. \A j \in CronJob : CR!RunOK(j)
  BY <1>1 DEF CR!RunOK
<1>3. QED
  BY <1>2 DEF CR!IInv

\* What a job was run for stays as it is when only the time and the loop go on.
LEMMA RunsStay ==
    ASSUME CR!IInv, UNCHANGED <<schedule, next_run, served>>,
           now' \in Nat, now <= now',
           loop' \in [at: {"off", "look", "run", "sleep"}, now: 0 .. now', due: SUBSET CronJob],
           loop'.at # "run" => loop'.due = {},
           \A j \in loop'.due : next_run[j] # 0 /\ 2 * next_run[j] <= loop'.now
    PROVE  CR!IInv'
<1>1. ASSUME NEW j \in CronJob
      PROVE  CR!RunOK(j)'
  <2>1. CR!RunOK(j) /\ now \in Nat
    BY DEF CR!IInv
  <2>2. CR!Named(schedule[j], 0)' = CR!Named(schedule[j], 0)
    BY DEF CR!Named, CR!Matches, CR!parse_field, CR!field_matches
  <2>3. \A i \in DOMAIN served[j] : 2 * served[j][i] <= now'
    BY <2>1 DEF CR!RunOK
  <2>4. \A m : CR!Matches(schedule[j], m)' = CR!Matches(schedule[j], m)
    BY DEF CR!Matches, CR!parse_field, CR!field_matches
  <2>5. QED
    BY <2>1, <2>2, <2>3, <2>4 DEF CR!RunOK
<1>2. QED
  BY <1>1 DEF CR!IInv

LEMMA AddJobKeeps ==
    ASSUME CR!IInv, NEW j \in CronJob, CR!AddJob(j)
    PROVE  CR!IInv'
<1> DEFINE n == CR!NextAfter(schedule[j], now)
<1>1. /\ next_run[j] = 0 /\ next_run' = [next_run EXCEPT ![j] = n]
      /\ UNCHANGED <<schedule, now, loop, served>>
  BY DEF CR!AddJob
<1>2. /\ n \in Nat /\ n > now \div 2 /\ now \in Nat
      /\ CR!Named(schedule[j], 0) # {} => CR!Matches(schedule[j], n)
  BY NextRun DEF CR!IInv
<1>3. n # 0
  BY <1>2
<1> HIDE DEF n
<1>4. DOMAIN next_run' = CronJob /\ \A i \in CronJob : next_run'[i] = IF i = j THEN n ELSE next_run[i]
  BY <1>1 DEF CR!IInv
<1>5. ASSUME NEW i \in CronJob
      PROVE  CR!RunOK(i)'
  <2>1. CR!RunOK(i)
    BY DEF CR!IInv
  <2>2. CASE i # j
    <3>1. next_run'[i] = next_run[i]
      BY <1>4, <2>2
    <3>2. /\ CR!Named(schedule[i], 0)' = CR!Named(schedule[i], 0)
          /\ \A x : CR!Matches(schedule'[i], x) = CR!Matches(schedule[i], x)
      BY <1>1 DEF CR!Named, CR!Matches, CR!parse_field, CR!field_matches
    <3>3. QED
      BY <1>1, <2>1, <3>1, <3>2 DEF CR!RunOK
  <2>3. CASE i = j
    <3>1. next_run'[j] = n /\ served[j] \in Seq(Nat) /\ \A k \in DOMAIN served[j] : served[j][k] < 0
      BY <1>1, <1>4, <2>1, <2>3 DEF CR!RunOK
    <3>2. DOMAIN served[j] = {}
      BY <3>1
    <3>3. j \notin loop.due
      BY <1>1, <2>1, <2>3 DEF CR!RunOK
    <3>4. /\ CR!Named(schedule[i], 0)' = CR!Named(schedule[i], 0)
          /\ \A x : CR!Matches(schedule'[i], x) = CR!Matches(schedule[i], x)
      BY <1>1 DEF CR!Named, CR!Matches, CR!parse_field, CR!field_matches
    <3>5. served' = served /\ loop' = loop /\ now' = now /\ n \in Nat
      BY <1>1, <1>2
    <3>6. QED
      BY <1>2, <2>3, <3>1, <3>2, <3>3, <3>4, <3>5 DEF CR!RunOK
  <2>4. QED
    BY <2>2, <2>3
<1>6. QED
  BY <1>1, <1>4, <1>5 DEF CR!IInv

LEMMA RunJobKeeps ==
    ASSUME CR!IInv, NEW j \in CronJob, CR!RunJob(j)
    PROVE  CR!IInv'
<1> DEFINE n == CR!NextAfter(schedule[j], loop.now)
           m == next_run[j]
           s == served[j]
           u == Append(s, m)
<1>1. /\ loop.at = "run" /\ j \in loop.due /\ loop' = [loop EXCEPT !.due = loop.due \ {j}]
      /\ served' = [served EXCEPT ![j] = u] /\ next_run' = [next_run EXCEPT ![j] = n]
      /\ UNCHANGED <<schedule, now>>
  BY DEF CR!RunJob
<1>2. /\ loop \in [at: {"off", "look", "run", "sleep"}, now: 0 .. now, due: SUBSET CronJob]
      /\ now \in Nat /\ loop.now \in 0 .. now
      /\ DOMAIN next_run = CronJob /\ DOMAIN served = CronJob
  BY DEF CR!IInv
<1>3. /\ m \in Nat /\ s \in Seq(Nat) /\ m # 0 /\ 2 * m <= loop.now
      /\ \A i \in DOMAIN s : s[i] < m /\ 2 * s[i] <= now
      /\ \A i, k \in DOMAIN s : i < k => s[i] < s[k]
      /\ CR!Named(schedule[j], 0) # {} =>
           CR!Matches(schedule[j], m) /\ \A i \in DOMAIN s : CR!Matches(schedule[j], s[i])
  BY <1>1 DEF CR!IInv, CR!RunOK
<1>4. /\ n \in Nat /\ n > loop.now \div 2
      /\ CR!Named(schedule[j], 0) # {} => CR!Matches(schedule[j], n)
  BY <1>2, NextRun
<1>5. n > m
  <2>1. loop.now \div 2 >= m
    BY <1>2, <1>3
  <2> HIDE DEF n, m
  <2>2. loop.now \div 2 \in Nat
    BY <1>2
  <2>3. QED
    BY <1>3, <1>4, <2>1, <2>2
<1> HIDE DEF n, m, s
<1>6. /\ u \in Seq(Nat) /\ Len(u) = Len(s) + 1 /\ u[Len(s) + 1] = m /\ Len(s) \in Nat
      /\ \A i \in 1 .. Len(s) : u[i] = s[i]
      /\ DOMAIN s = 1 .. Len(s)
  BY <1>3, AppendProperties, LenProperties
<1>7. DOMAIN u = 1 .. (Len(s) + 1)
  BY <1>6, LenProperties
<1> HIDE DEF u
<1>8. /\ loop' \in [at: {"off", "look", "run", "sleep"}, now: 0 .. now', due: SUBSET CronJob]
      /\ loop'.at = "run" /\ loop'.now = loop.now /\ loop'.due = loop.due \ {j}
  BY <1>1, <1>2
<1>9. /\ DOMAIN next_run' = CronJob /\ DOMAIN served' = CronJob
      /\ \A i \in CronJob : /\ next_run'[i] = IF i = j THEN n ELSE next_run[i]
                            /\ served'[i] = IF i = j THEN u ELSE served[i]
  BY <1>1, <1>2
<1>10. ASSUME NEW i \in CronJob
       PROVE  CR!RunOK(i)'
  <2>1. CASE i # j
    <3>1. next_run'[i] = next_run[i] /\ served'[i] = served[i] /\ CR!RunOK(i)
      BY <1>9, <2>1 DEF CR!IInv
    <3>2. /\ CR!Named(schedule[i], 0)' = CR!Named(schedule[i], 0)
          /\ \A x : CR!Matches(schedule'[i], x) = CR!Matches(schedule[i], x)
      BY <1>1 DEF CR!Named, CR!Matches, CR!parse_field, CR!field_matches
    <3>3. (i \in loop'.due) = (i \in loop.due) /\ loop'.now = loop.now /\ now' = now
      BY <1>1, <1>8, <2>1
    <3>4. QED
      BY <3>1, <3>2, <3>3 DEF CR!RunOK
  <2>2. CASE i = j
    <3>1. next_run'[i] = n /\ served'[i] = u
      BY <1>9, <2>2
    <3>2. \A k \in DOMAIN u : u[k] < n /\ 2 * u[k] <= now
      <4> TAKE k \in DOMAIN u
      <4>1. CASE k = Len(s) + 1
        BY <1>2, <1>3, <1>4, <1>5, <1>6, <4>1
      <4>2. CASE k \in 1 .. Len(s)
        <5>1. u[k] = s[k] /\ s[k] < m /\ 2 * s[k] <= now /\ s[k] \in Nat
          BY <1>3, <1>6, <4>2
        <5>2. QED
          BY <1>3, <1>4, <1>5, <5>1
      <4>3. QED
        BY <1>6, <1>7, <4>1, <4>2
    <3>3. \A k, l \in DOMAIN u : k < l => u[k] < u[l]
      <4> SUFFICES ASSUME NEW k \in DOMAIN u, NEW l \in DOMAIN u, k < l
                   PROVE  u[k] < u[l]
        OBVIOUS
      <4>1. k \in 1 .. Len(s) /\ u[k] = s[k]
        BY <1>6, <1>7
      <4>2. CASE l = Len(s) + 1
        BY <1>3, <1>6, <4>1, <4>2
      <4>3. CASE l \in 1 .. Len(s)
        BY <1>3, <1>6, <4>1, <4>3
      <4>4. QED
        BY <1>6, <1>7, <4>2, <4>3
    <3>4. CR!Named(schedule[j], 0) # {} =>
            CR!Matches(schedule[j], n) /\ \A k \in DOMAIN u : CR!Matches(schedule[j], u[k])
      <4> SUFFICES ASSUME CR!Named(schedule[j], 0) # {}, NEW k \in DOMAIN u
                   PROVE  CR!Matches(schedule[j], n) /\ CR!Matches(schedule[j], u[k])
        BY <1>4
      <4>1. CASE k = Len(s) + 1
        BY <1>3, <1>4, <1>6, <4>1
      <4>2. CASE k \in 1 .. Len(s)
        BY <1>3, <1>4, <1>6, <4>2
      <4>3. QED
        BY <1>6, <1>7, <4>1, <4>2
    <3>5. CR!Named(schedule[j], 0)' = CR!Named(schedule[j], 0)
      BY <1>1 DEF CR!Named, CR!Matches, CR!parse_field, CR!field_matches
    <3>6. \A x : CR!Matches(schedule'[j], x) = CR!Matches(schedule[j], x)
      BY <1>1 DEF CR!Matches, CR!parse_field, CR!field_matches
    <3>7. j \notin loop'.due
      BY <1>8
    <3>8. QED
      BY <1>1, <1>4, <1>6, <2>2, <3>1, <3>2, <3>3, <3>4, <3>5, <3>6, <3>7 DEF CR!RunOK
  <2>3. QED
    BY <2>1, <2>2
<1>11. QED
  BY <1>1, <1>2, <1>8, <1>9, <1>10 DEF CR!IInv

LEMMA CronKeeps ==
    ASSUME CR!IInv, CR!Next \/ UNCHANGED cronVars
    PROVE  CR!IInv'
<1> DEFINE Loop(t) == [at: {"off", "look", "run", "sleep"}, now: 0 .. t, due: SUBSET CronJob]
<1>1. /\ now \in Nat /\ loop \in Loop(now) /\ loop.now \in 0 .. now
      /\ loop.at # "run" => loop.due = {}
      /\ \A j \in loop.due : next_run[j] # 0 /\ 2 * next_run[j] <= loop.now
      /\ \A j \in CronJob : next_run[j] \in Nat
  BY DEF CR!IInv, CR!RunOK
<1>2. CASE UNCHANGED cronVars
  BY <1>1, <1>2, RunsStay DEF cronVars
<1>3. CASE CR!Start \/ CR!Stop \/ CR!Sleeps
  <2>1. /\ loop' \in Loop(now) /\ loop'.due = {} /\ UNCHANGED <<schedule, next_run, now, served>>
    BY <1>1, <1>3 DEF CR!Start, CR!Stop, CR!Sleeps, CR!Asleep
  <2>2. QED
    BY <1>1, <2>1, RunsStay
<1>4. CASE CR!CollectDue
  <2>1. /\ loop' = [at |-> "run", now |-> now,
                    due |-> {j \in CronJob : next_run[j] # 0 /\ 2 * next_run[j] <= now}]
        /\ UNCHANGED <<schedule, next_run, now, served>>
    BY <1>4 DEF CR!CollectDue
  <2>2. loop' \in Loop(now) /\ loop'.at = "run"
    BY <1>1, <2>1
  <2>3. \A j \in loop'.due : next_run[j] # 0 /\ 2 * next_run[j] <= loop'.now
    BY <2>1
  <2>4. QED
    BY <1>1, <2>1, <2>2, <2>3, RunsStay
<1>5. CASE CR!Tick
  <2>1. /\ now' = now + 1 /\ UNCHANGED <<schedule, next_run, served>>
        /\ loop' = IF loop.at = "sleep" THEN [loop EXCEPT !.at = "look"] ELSE loop
    BY <1>5 DEF CR!Tick
  <2>2. 0 .. now \subseteq 0 .. now' /\ now' \in Nat /\ now <= now'
    BY <1>1, <2>1
  <2>3. /\ loop' \in Loop(now') /\ loop'.due = loop.due /\ loop'.now = loop.now
        /\ loop'.at # "run" => loop.at # "run"
    BY <1>1, <2>1, <2>2
  <2>4. QED
    BY <1>1, <2>1, <2>2, <2>3, RunsStay
<1>6. CASE \E j \in CronJob : CR!AddJob(j) \/ CR!RunJob(j)
  BY <1>6, AddJobKeeps, RunJobKeeps
<1>7. QED
  BY <1>2, <1>3, <1>4, <1>5, <1>6 DEF CR!Next

LEMMA CronRuns ==
    ASSUME CR!IInv
    PROVE  CR!RunsWhenNamed
  BY DEF CR!IInv, CR!RunOK, CR!RunsWhenNamed

-----------------------------------------------------------------------------
(* RateLimit *)

\* The window in ticks, which is no shorter than a second.
LEMMA LimitFacts ==
    ASSUME limits \in RateConfigs
    PROVE  /\ limits.max \in Nat \ {0} /\ limits.burst \in Nat
           /\ limits.window * TicksPerSecond \in Nat
           /\ limits.window * TicksPerSecond >= TicksPerSecond
           /\ TicksPerSecond \in Nat \ {0}
<1>1. limits.max \in Nat \ {0} /\ limits.window \in Nat \ {0} /\ limits.burst \in Nat
  BY RateBounds
<1>2. TicksPerSecond \in Nat \ {0}
  BY RateBounds
<1>3. PICK w \in Nat, s \in Nat \ {0} : limits.window = w + 1 /\ TicksPerSecond = s
  <2>1. limits.window - 1 \in Nat /\ limits.window = (limits.window - 1) + 1
    BY <1>1
  <2>2. QED
    BY <1>2, <2>1
<1>4. w * s \in Nat /\ (w + 1) * s = w * s + s
  OBVIOUS
<1>5. QED
  BY <1>1, <1>2, <1>3, <1>4

LEMMA BeforeFacts ==
    ASSUME NEW times \in Seq(Nat), NEW t \in Int
    PROVE  /\ RL!Before(times, t) \in 0 .. Len(times)
           /\ \A i \in 1 .. RL!Before(times, t) : times[i] < t
           /\ RL!Before(times, t) < Len(times) => times[RL!Before(times, t) + 1] >= t
<1> DEFINE from == {i \in DOMAIN times : times[i] >= t}
<1>1. Len(times) \in Nat /\ DOMAIN times = 1 .. Len(times) /\ \A i \in 1 .. Len(times) : times[i] \in Nat
  BY LenProperties, ElementOfSeq
<1>2. RL!Before(times, t) = IF from = {} THEN Len(times) ELSE RL!Min(from) - 1
  BY DEF RL!Before
<1>3. CASE from = {}
  <2>1. RL!Before(times, t) = Len(times)
    BY <1>2, <1>3
  <2>2. ASSUME NEW i \in 1 .. Len(times)
        PROVE  times[i] < t
    <3>1. ~(times[i] >= t) /\ times[i] \in Nat
      BY <1>1, <1>3
    <3>2. QED
      BY <3>1
  <2>3. QED
    BY <1>1, <2>1, <2>2
<1>4. CASE from # {}
  <2>1. from \subseteq Nat
    BY <1>1
  <2>2. PICK m \in from : \A k \in from : m <= k
    BY <1>4, <2>1, LeastExists
  <2>3. RL!Min(from) \in from /\ \A k \in from : RL!Min(from) <= k
    BY <2>2 DEF RL!Min
  <2>4. PICK n \in from : n = RL!Min(from) /\ \A k \in from : n <= k
    BY <2>3
  <2>5. RL!Before(times, t) = n - 1
    BY <1>2, <1>4, <2>4
  <2>6. n \in 1 .. Len(times) /\ times[n] >= t
    BY <1>1
  <2>7. \A i \in 1 .. (n - 1) : times[i] < t
    <3> SUFFICES ASSUME NEW i \in 1 .. (n - 1), ~(times[i] < t)
                 PROVE  FALSE
      OBVIOUS
    <3>1. i \in 1 .. Len(times) /\ times[i] \in Nat
      BY <1>1, <2>6
    <3>2. i \in from
      BY <1>1, <3>1
    <3>3. n <= i
      BY <2>4, <3>2
    <3>4. QED
      BY <2>6, <3>3
  <2>8. QED
    BY <1>1, <2>5, <2>6, <2>7
<1>5. QED
  BY <1>3, <1>4

\* What purging leaves: the end of the window, beginning with a time inside it.
LEMMA PurgeFacts ==
    ASSUME NEW w \in Seq(Nat), clock \in Nat, limits \in RateConfigs
    PROVE  \E k \in 0 .. Len(w) :
             /\ RL!purge_old(w, clock) \in Seq(Nat)
             /\ Len(RL!purge_old(w, clock)) = Len(w) - k
             /\ \A i \in 1 .. (Len(w) - k) : RL!purge_old(w, clock)[i] = w[i + k]
             /\ \A i \in 1 .. k : w[i] < clock - limits.window * TicksPerSecond
             /\ k < Len(w) => w[k + 1] >= clock - limits.window * TicksPerSecond
<1>1. PICK t \in Int : t = clock - limits.window * TicksPerSecond
  BY LimitFacts
<1>2. PICK k \in 0 .. Len(w) :
        /\ k = RL!Before(w, t) /\ \A i \in 1 .. k : w[i] < t
        /\ k < Len(w) => w[k + 1] >= t
  BY BeforeFacts
<1>3. RL!purge_old(w, clock) = SubSeq(w, k + 1, Len(w))
  BY <1>1, <1>2 DEF RL!purge_old
<1>4. Len(w) \in Nat
  OBVIOUS
<1>5. /\ SubSeq(w, k + 1, Len(w)) \in Seq(Nat)
      /\ Len(SubSeq(w, k + 1, Len(w))) = Len(w) - k
      /\ \A i \in 1 .. (Len(w) - k) : SubSeq(w, k + 1, Len(w))[i] = w[i + k]
  BY <1>4, SubSeqProperties
<1>6. QED
  BY <1>1, <1>2, <1>3, <1>5

\* Purging keeps what is known of a window.
LEMMA WindowPurged ==
    ASSUME clock \in Nat, limits \in RateConfigs, NEW p \in Seq(Nat), NEW w \in Seq(Nat), NEW a,
           RL!WindowOK(p, w), RL!WaitOK(w, a)
    PROVE  /\ RL!purge_old(w, clock) \in Seq(Nat)
           /\ RL!WindowOK(p, RL!purge_old(w, clock))
           /\ RL!WaitOK(RL!purge_old(w, clock), a)
<1>0. PICK t \in Int : t = clock - limits.window * TicksPerSecond
  BY LimitFacts
<1>1. PICK v \in Seq(Nat), k \in 0 .. Len(w) :
        /\ v = RL!purge_old(w, clock)
        /\ Len(v) = Len(w) - k /\ \A i \in 1 .. (Len(w) - k) : v[i] = w[i + k]
        /\ \A i \in 1 .. k : w[i] < t
  BY <1>0, PurgeFacts
<1>2. /\ Len(w) <= Len(p) /\ Len(w) <= limits.max
      /\ \A i \in 1 .. Len(w) : w[i] = p[i + (Len(p) - Len(w))]
      /\ \A i \in 1 .. (Len(p) - Len(w)) : p[i] < t
  BY <1>0 DEF RL!WindowOK
<1>3. limits.max \in Nat \ {0} /\ Len(p) \in Nat /\ Len(w) \in Nat
  BY LimitFacts
<1>4. RL!WindowOK(p, v)
  <2>1. Len(v) <= Len(p) /\ Len(v) <= limits.max
    BY <1>1, <1>2, <1>3
  <2>2. ASSUME NEW i \in 1 .. Len(v)
        PROVE  v[i] = p[i + (Len(p) - Len(v))]
    <3>1. i \in 1 .. (Len(w) - k) /\ i + k \in 1 .. Len(w)
      BY <1>1, <1>3
    <3>2. v[i] = p[(i + k) + (Len(p) - Len(w))]
      BY <1>1, <1>2, <3>1
    <3>3. (i + k) + (Len(p) - Len(w)) = i + (Len(p) - Len(v))
      BY <1>1, <1>3
    <3>4. QED
      BY <3>2, <3>3
  <2>3. ASSUME NEW i \in 1 .. (Len(p) - Len(v))
        PROVE  p[i] < t
    <3>1. CASE i <= Len(p) - Len(w)
      BY <1>2, <1>3, <3>1
    <3>2. CASE i > Len(p) - Len(w)
      <4>0. i - (Len(p) - Len(w)) \in 1 .. k
        BY <1>1, <1>3, <3>2
      <4>1. PICK j \in 1 .. k : j = i - (Len(p) - Len(w))
        BY <4>0
      <4>2. j \in 1 .. Len(w) /\ j + (Len(p) - Len(w)) = i
        BY <1>3, <4>1
      <4>3. w[j] = p[i]
        BY <1>2, <4>2
      <4>4. QED
        BY <1>1, <4>1, <4>3
    <3>3. QED
      BY <1>3, <3>1, <3>2
  <2>4. QED
    BY <1>0, <2>1, <2>2, <2>3 DEF RL!WindowOK
<1>5. RL!WaitOK(v, a)
  <2> SUFFICES ASSUME a # None, a.full, Len(v) >= limits.max
               PROVE  v[1] + limits.window * TicksPerSecond <= a.at + a.wait * TicksPerSecond
    BY DEF RL!WaitOK
  <2>1. k = 0 /\ Len(w) >= limits.max /\ 1 \in 1 .. (Len(w) - k)
    BY <1>1, <1>2, <1>3
  <2>2. v[1] = w[1]
    BY <1>1, <2>1
  <2>3. w[1] + limits.window * TicksPerSecond <= a.at + a.wait * TicksPerSecond
    BY <2>1 DEF RL!WaitOK
  <2>4. QED
    BY <2>2, <2>3
<1>6. QED
  BY <1>1, <1>4, <1>5

\* The seconds that a full window has the caller wait reach to its first time's end.
LEMMA WaitReaches ==
    ASSUME clock \in Nat, limits \in RateConfigs, NEW w \in Seq(Nat), RL!WindowFull(w)
    PROVE  /\ RL!RetryAfter(w, clock) \in Nat
           /\ w[1] + limits.window * TicksPerSecond
                <= clock + RL!RetryAfter(w, clock) * TicksPerSecond
<1>1. /\ limits.max \in Nat \ {0} /\ limits.window * TicksPerSecond \in Nat
      /\ TicksPerSecond \in Nat \ {0}
  BY LimitFacts
<1>2. Len(w) \in Nat /\ Len(w) >= 1
  BY <1>1 DEF RL!WindowFull
<1>3. w[1] \in Nat
  BY <1>2, ElementOfSeq
<1>4. PICK e \in Nat : e = w[1] + limits.window * TicksPerSecond
  BY <1>1, <1>3
<1>5. CASE e <= clock
  <2>1. RL!RetryAfter(w, clock) = 0
    BY <1>4, <1>5 DEF RL!RetryAfter
  <2>2. QED
    BY <1>1, <1>4, <1>5, <2>1
<1>6. CASE ~(e <= clock)
  <2>1. PICK d \in Nat : d = e - clock
    BY <1>6
  <2>2. RL!RetryAfter(w, clock) = (d \div TicksPerSecond) + 1
    <3>1. ~(w[1] + limits.window * TicksPerSecond <= clock)
      BY <1>4, <1>6
    <3>2. RL!RetryAfter(w, clock)
            = (w[1] + limits.window * TicksPerSecond - clock) \div TicksPerSecond + 1
      BY <3>1, Zenon DEF RL!RetryAfter
    <3>3. w[1] + limits.window * TicksPerSecond - clock = d
      BY <1>1, <1>3, <1>4, <2>1
    <3>4. QED
      BY <3>2, <3>3, Zenon
  <2>3. PICK q \in Nat, r \in 0 .. (TicksPerSecond - 1) :
          q = d \div TicksPerSecond /\ d = q * TicksPerSecond + r
    BY <1>1, DivFacts
  <2>4. (q + 1) * TicksPerSecond = q * TicksPerSecond + TicksPerSecond /\ q * TicksPerSecond \in Nat
    BY <1>1
  <2>5. e <= clock + (q + 1) * TicksPerSecond
    BY <1>1, <2>1, <2>3, <2>4
  <2>6. QED
    BY <1>4, <2>2, <2>3, <2>5
<1>7. QED
  BY <1>5, <1>6

LEMMA RateInit ==
    ASSUME RL!Init
    PROVE  RL!IInv
<1>1. RL!TypeOK
  BY RateBounds DEF RL!Init, RL!TypeOK
<1>2. ASSUME NEW c \in LimitedConn
      PROVE  /\ RL!WindowOK(passed[c], windows[c]) /\ RL!PassedOK(passed[c])
             /\ RL!WaitOK(windows[c], refusal[c])
  <2>1. passed[c] = <<>> /\ windows[c] = <<>> /\ refusal[c] = None
    BY DEF RL!Init
  <2>2. limits \in RateConfigs
    BY DEF RL!Init
  <2>3. Len(<<>>) = 0 /\ DOMAIN <<>> = {}
    OBVIOUS
  <2>4. limits.max \in Nat
    BY <2>2, LimitFacts
  <2>5. RL!WindowOK(<<>>, <<>>)
    BY <2>3, <2>4 DEF RL!WindowOK
  <2>6. RL!PassedOK(<<>>)
    BY <2>3 DEF RL!PassedOK
  <2>7. RL!WaitOK(<<>>, None)
    BY DEF RL!WaitOK
  <2>8. QED
    BY <2>1, <2>5, <2>6, <2>7
<1>3. QED
  BY <1>1, <1>2 DEF RL!IInv

\* One connection of the invariant.
LEMMA RateFacts ==
    ASSUME RL!IInv, NEW c \in LimitedConn
    PROVE  /\ limits \in RateConfigs /\ clock \in 0 .. MaxTicks /\ clock \in Nat
           /\ windows[c] \in Seq(Nat) /\ passed[c] \in Seq(Nat)
           /\ refusal[c] \in RL!Refusal \cup {None}
           /\ RL!WindowOK(passed[c], windows[c]) /\ RL!PassedOK(passed[c])
           /\ RL!WaitOK(windows[c], refusal[c])
  BY RateBounds DEF RL!IInv, RL!TypeOK

\* A request that is let through: the one that max requests earlier was let
\* through is out of the window, and the one burst requests earlier more than a
\* second old.
LEMMA PassedExtends ==
    ASSUME clock \in Nat, limits \in RateConfigs, NEW p \in Seq(Nat), NEW w \in Seq(Nat),
           RL!WindowOK(p, w), RL!PassedOK(p), ~RL!WindowFull(w), ~RL!BurstFull(w, clock)
    PROVE  /\ RL!WindowOK(Append(p, clock), Append(w, clock))
           /\ RL!PassedOK(Append(p, clock))
<1>1. /\ limits.max \in Nat \ {0} /\ limits.burst \in Nat
      /\ TicksPerSecond \in Nat \ {0}
  BY LimitFacts
<1>2. PICK W \in Nat : W = limits.window * TicksPerSecond /\ W >= TicksPerSecond
  BY LimitFacts
<1>3. PICK m \in Nat \ {0}, b \in Nat, s \in Nat \ {0} :
        m = limits.max /\ b = limits.burst /\ s = TicksPerSecond
  BY <1>1
<1>4. PICK n \in Nat, l \in Nat : n = Len(p) /\ l = Len(w)
  OBVIOUS
<1>5. /\ l <= n /\ l < m
      /\ \A i \in 1 .. l : w[i] = p[i + (n - l)]
      /\ \A i \in 1 .. (n - l) : p[i] < clock - W
  BY <1>2, <1>3, <1>4 DEF RL!WindowOK, RL!WindowFull
<1>6. /\ \A i \in 1 .. n : p[i] <= clock
      /\ \A i, j \in 1 .. n : i < j => p[i] <= p[j]
      /\ \A i \in 1 .. n : i > m => p[i - m] < p[i] - W
      /\ b > 0 => \A i \in 1 .. n : i > b => p[i - b] < p[i] - s
  <2>1. DOMAIN p = 1 .. n
    BY <1>4
  <2>2. \A i \in 1 .. n : p[i] <= clock
    BY <2>1 DEF RL!PassedOK
  <2>3. \A i, j \in 1 .. n : i < j => p[i] <= p[j]
    BY <2>1 DEF RL!PassedOK
  <2>4. \A i \in 1 .. n : i > m => p[i - m] < p[i] - W
    BY <1>2, <1>3, <2>1 DEF RL!PassedOK
  <2>5. b > 0 => \A i \in 1 .. n : i > b => p[i - b] < p[i] - s
    BY <1>3, <2>1 DEF RL!PassedOK
  <2>6. QED
    BY <2>2, <2>3, <2>4, <2>5
<1>7. /\ Append(p, clock) \in Seq(Nat) /\ Len(Append(p, clock)) = n + 1
      /\ DOMAIN Append(p, clock) = 1 .. (n + 1)
      /\ \A i \in 1 .. n : Append(p, clock)[i] = p[i]
      /\ Append(p, clock)[n + 1] = clock
  BY <1>4, AppendProperties
<1>8. /\ Append(w, clock) \in Seq(Nat) /\ Len(Append(w, clock)) = l + 1
      /\ \A i \in 1 .. l : Append(w, clock)[i] = w[i]
      /\ Append(w, clock)[l + 1] = clock
  BY <1>4, AppendProperties
<1>9. PICK q, v \in Seq(Nat) : q = Append(p, clock) /\ v = Append(w, clock)
  BY <1>7, <1>8
<1>10. RL!WindowOK(q, v)
  <2>1. ASSUME NEW i \in 1 .. (l + 1)
        PROVE  v[i] = q[i + (n - l)]
    <3>1. CASE i = l + 1
      <4>1. i + (n - l) = n + 1
        BY <3>1
      <4>2. QED
        BY <1>7, <1>8, <1>9, <3>1, <4>1
    <3>2. CASE i # l + 1
      <4>1. i \in 1 .. l /\ i + (n - l) \in 1 .. n
        BY <1>5, <3>2
      <4>2. QED
        BY <1>5, <1>7, <1>8, <1>9, <4>1
    <3>3. QED
      BY <3>1, <3>2
  <2>2. ASSUME NEW i \in 1 .. (n - l)
        PROVE  q[i] < clock - W
    BY <1>5, <1>7, <1>9
  <2>3. Len(q) = n + 1 /\ Len(v) = l + 1 /\ (n + 1) - (l + 1) = n - l
    BY <1>7, <1>8, <1>9
  <2>4. Len(v) <= Len(q) /\ Len(v) <= m
    BY <1>5, <2>3
  <2>5. QED
    BY <1>2, <1>3, <2>1, <2>2, <2>3, <2>4 DEF RL!WindowOK
<1>11. n + 1 > m => p[(n + 1) - m] < clock - W
  <2> SUFFICES ASSUME n + 1 > m
               PROVE  p[(n + 1) - m] < clock - W
    OBVIOUS
  <2>1. (n + 1) - m \in 1 .. (n - l)
    BY <1>5
  <2>2. QED
    BY <1>5, <2>1
<1>12. b > 0 /\ n + 1 > b => p[(n + 1) - b] < clock - s
  <2> SUFFICES ASSUME b > 0, n + 1 > b
               PROVE  p[(n + 1) - b] < clock - s
    OBVIOUS
  <2>1. PICK t \in Int : t = clock - s
    OBVIOUS
  <2>2. PICK k \in 0 .. l : k = RL!Before(w, t) /\ \A i \in 1 .. k : w[i] < t
    BY <1>4, BeforeFacts
  <2>3. l - k < b
    BY <1>3, <1>4, <2>1, <2>2 DEF RL!BurstFull, RL!Burst
  <2>4. PICK i \in 1 .. n : i = (n + 1) - b /\ i <= (n - l) + k
    <3>1. (n + 1) - b \in 1 .. n /\ (n + 1) - b <= (n - l) + k
      BY <2>3
    <3>2. QED
      BY <3>1
  <2>5. CASE i <= n - l
    <3>1. p[i] < clock - W
      BY <1>5, <2>5
    <3>2. p[i] \in Nat
      BY <1>4, ElementOfSeq
    <3>3. W >= s
      BY <1>2, <1>3
    <3>4. p[i] < clock - s
      BY <3>1, <3>2, <3>3
    <3>5. QED
      BY <2>4, <3>4
  <2>6. CASE i > n - l
    <3>1. PICK j \in 1 .. k : j = i - (n - l)
      <4>1. i - (n - l) \in 1 .. k
        BY <1>5, <2>4, <2>6
      <4>2. QED
        BY <4>1
    <3>2. j \in 1 .. l /\ j + (n - l) = i
      BY <1>5, <3>1
    <3>3. w[j] = p[i] /\ w[j] < t
      BY <1>5, <2>2, <3>1, <3>2
    <3>4. QED
      BY <2>1, <2>4, <3>3
  <2>7. QED
    BY <1>5, <2>5, <2>6
<1>13. RL!PassedOK(q)
  <2>1. \A i \in 1 .. (n + 1) : i = n + 1 \/ i \in 1 .. n
    OBVIOUS
  <2>2. \A i \in 1 .. n : q[i] = p[i] /\ p[i] \in Nat
    BY <1>4, <1>7, <1>9, ElementOfSeq
  <2>3. q[n + 1] = clock /\ DOMAIN q = 1 .. (n + 1)
    BY <1>7, <1>9
  <2>4. ASSUME NEW i \in 1 .. (n + 1)
        PROVE  q[i] <= clock
    <3>1. CASE i = n + 1
      BY <2>3, <3>1
    <3>2. CASE i \in 1 .. n
      BY <1>6, <2>2, <3>2
    <3>3. QED
      BY <2>1, <3>1, <3>2
  <2>5. ASSUME NEW i \in 1 .. (n + 1), NEW j \in 1 .. (n + 1), i < j
        PROVE  q[i] <= q[j]
    <3>1. i \in 1 .. n
      BY <2>5
    <3>2. CASE j = n + 1
      BY <1>6, <2>2, <2>3, <3>1, <3>2
    <3>3. CASE j \in 1 .. n
      BY <1>6, <2>2, <2>5, <3>1, <3>3
    <3>4. QED
      BY <2>1, <3>2, <3>3
  <2>6. ASSUME NEW i \in 1 .. (n + 1), i > m
        PROVE  q[i - m] < q[i] - W
    <3>1. i - m \in 1 .. n
      BY <2>6
    <3>2. CASE i = n + 1
      BY <1>11, <2>2, <2>3, <2>6, <3>1, <3>2
    <3>3. CASE i \in 1 .. n
      BY <1>6, <2>2, <2>6, <3>1, <3>3
    <3>4. QED
      BY <2>1, <3>2, <3>3
  <2>7. ASSUME b > 0, NEW i \in 1 .. (n + 1), i > b
        PROVE  q[i - b] < q[i] - s
    <3>1. i - b \in 1 .. n
      BY <2>7
    <3>2. CASE i = n + 1
      BY <1>12, <2>2, <2>3, <2>7, <3>1, <3>2
    <3>3. CASE i \in 1 .. n
      BY <1>6, <2>2, <2>7, <3>1, <3>3
    <3>4. QED
      BY <2>1, <3>2, <3>3
  <2>8. QED
    BY <1>2, <1>3, <2>3, <2>4, <2>5, <2>6, <2>7 DEF RL!PassedOK
<1>14. QED
  BY <1>9, <1>10, <1>13

\* The step of one connection, whose parts are put together from its own.
LEMMA RateStep ==
    ASSUME RL!IInv, NEW c \in LimitedConn, NEW p \in Seq(Nat), NEW w \in Seq(Nat),
           NEW a \in RL!Refusal \cup {None}, limits' = limits, clock' = clock,
           passed' = [passed EXCEPT ![c] = p], windows' = [windows EXCEPT ![c] = w],
           refusal' = [refusal EXCEPT ![c] = a],
           RL!WindowOK(p, w), RL!PassedOK(p), RL!WaitOK(w, a)
    PROVE  RL!IInv'
<1>1. /\ limits \in RateConfigs /\ clock \in 0 .. MaxTicks
      /\ windows \in [LimitedConn -> Seq(Nat)] /\ passed \in [LimitedConn -> Seq(Nat)]
      /\ refusal \in [LimitedConn -> RL!Refusal \cup {None}]
  BY DEF RL!IInv, RL!TypeOK
<1>2. RL!TypeOK'
  BY <1>1 DEF RL!TypeOK, RL!Refusal
<1>3. ASSUME NEW d \in LimitedConn
      PROVE  (/\ RL!WindowOK(passed[d], windows[d]) /\ RL!PassedOK(passed[d])
              /\ RL!WaitOK(windows[d], refusal[d]))'
  <2>1. PICK p2 \in Seq(Nat), w2 \in Seq(Nat), a2 \in RL!Refusal \cup {None} :
          /\ p2 = passed'[d] /\ w2 = windows'[d] /\ a2 = refusal'[d]
          /\ RL!WindowOK(p2, w2) /\ RL!PassedOK(p2) /\ RL!WaitOK(w2, a2)
    <3>1. CASE d = c
      <4>1. passed'[d] = p /\ windows'[d] = w /\ refusal'[d] = a
        BY <1>1, <3>1
      <4>2. QED
        BY <4>1
    <3>2. CASE d # c
      <4>1. passed'[d] = passed[d] /\ windows'[d] = windows[d] /\ refusal'[d] = refusal[d]
        BY <1>1, <3>2
      <4>2. QED
        BY <4>1, RateFacts
    <3>3. QED
      BY <3>1, <3>2
  <2>2. RL!WindowOK(p2, w2)' /\ RL!PassedOK(p2)' /\ RL!WaitOK(w2, a2)'
    BY <2>1 DEF RL!WindowOK, RL!PassedOK, RL!WaitOK
  <2>3. QED
    BY <2>1, <2>2 DEF RL!WindowOK, RL!PassedOK, RL!WaitOK
<1>4. QED
  BY <1>2, <1>3 DEF RL!IInv

LEMMA RateRequestKeeps ==
    ASSUME RL!IInv, NEW c \in LimitedConn, RL!Request(c)
    PROVE  RL!IInv'
<1>1. /\ limits \in RateConfigs /\ clock \in Nat
      /\ windows \in [LimitedConn -> Seq(Nat)] /\ passed \in [LimitedConn -> Seq(Nat)]
      /\ refusal \in [LimitedConn -> RL!Refusal \cup {None}]
  BY RateFacts DEF RL!IInv, RL!TypeOK
<1>2. PICK p \in Seq(Nat), old \in Seq(Nat), a \in RL!Refusal \cup {None} :
        /\ p = passed[c] /\ old = windows[c] /\ a = refusal[c]
        /\ RL!WindowOK(p, old) /\ RL!PassedOK(p) /\ RL!WaitOK(old, a)
  BY RateFacts
<1>3. PICK w \in Seq(Nat) :
        w = RL!purge_old(old, clock) /\ RL!WindowOK(p, w) /\ RL!WaitOK(w, a)
  BY <1>1, <1>2, WindowPurged
<1>4. \/ /\ ~RL!WindowFull(w) /\ ~RL!BurstFull(w, clock)
         /\ windows' = [windows EXCEPT ![c] = Append(w, clock)]
         /\ passed' = [passed EXCEPT ![c] = Append(p, clock)]
         /\ refusal' = [refusal EXCEPT ![c] = None]
         /\ limits' = limits /\ clock' = clock
      \/ /\ windows' = [windows EXCEPT ![c] = w]
         /\ refusal' = [refusal EXCEPT ![c] =
              [at |-> clock, wait |-> RL!RetryAfter(w, clock), full |-> RL!WindowFull(w)]]
         /\ limits' = limits /\ clock' = clock /\ passed' = passed
  BY <1>2, <1>3, Zenon DEF RL!Request
<1>5. CASE /\ ~RL!WindowFull(w) /\ ~RL!BurstFull(w, clock)
           /\ windows' = [windows EXCEPT ![c] = Append(w, clock)]
           /\ passed' = [passed EXCEPT ![c] = Append(p, clock)]
           /\ refusal' = [refusal EXCEPT ![c] = None]
           /\ limits' = limits /\ clock' = clock
  <2>1. RL!WindowOK(Append(p, clock), Append(w, clock)) /\ RL!PassedOK(Append(p, clock))
    BY <1>1, <1>2, <1>3, <1>5, PassedExtends
  <2>2. RL!WaitOK(Append(w, clock), None)
    BY DEF RL!WaitOK
  <2>3. Append(p, clock) \in Seq(Nat) /\ Append(w, clock) \in Seq(Nat)
    BY <1>1
  <2>4. QED
    BY <1>5, <2>1, <2>2, <2>3, RateStep
<1>6. CASE /\ windows' = [windows EXCEPT ![c] = w]
           /\ refusal' = [refusal EXCEPT ![c] =
                [at |-> clock, wait |-> RL!RetryAfter(w, clock), full |-> RL!WindowFull(w)]]
           /\ limits' = limits /\ clock' = clock /\ passed' = passed
  <2>1. PICK wait : wait = RL!RetryAfter(w, clock)
    OBVIOUS
  <2>2. PICK full \in BOOLEAN : full = RL!WindowFull(w)
    <3>1. RL!WindowFull(w) \in BOOLEAN
      BY DEF RL!WindowFull
    <3>2. QED
      BY <3>1
  <2>3. wait \in Nat
    <3>1. CASE RL!WindowFull(w)
      BY <1>1, <2>1, <3>1, WaitReaches
    <3>2. CASE ~RL!WindowFull(w)
      BY <2>1, <3>2 DEF RL!RetryAfter
    <3>3. QED
      BY <3>1, <3>2
  <2>4. PICK b \in RL!Refusal : b = [at |-> clock, wait |-> wait, full |-> full]
    BY <1>1, <2>2, <2>3 DEF RL!Refusal
  <2>5. RL!WaitOK(w, b)
    <3> SUFFICES ASSUME b.full
                 PROVE  w[1] + limits.window * TicksPerSecond <= b.at + b.wait * TicksPerSecond
      BY DEF RL!WaitOK
    <3>1. RL!WindowFull(w) /\ b.at = clock /\ b.wait = wait
      BY <2>2, <2>4
    <3>2. QED
      BY <1>1, <2>1, <3>1, WaitReaches
  <2>6. passed' = [passed EXCEPT ![c] = p]
    BY <1>1, <1>2, <1>6
  <2>7. refusal' = [refusal EXCEPT ![c] = b]
    BY <1>6, <2>1, <2>2, <2>4
  <2>8. QED
    BY <1>2, <1>3, <1>6, <2>5, <2>6, <2>7, RateStep
<1>7. QED
  BY <1>4, <1>5, <1>6

LEMMA RateKeeps ==
    ASSUME RL!IInv, RL!Next \/ UNCHANGED ratelimitVars
    PROVE  RL!IInv'
<1>1. CASE RL!Prune
  <2>1. /\ limits' = limits /\ clock' = clock /\ refusal' = refusal /\ passed' = passed
        /\ windows' = [c \in LimitedConn |-> RL!purge_old(windows[c], clock)]
    BY <1>1 DEF RL!Prune
  <2>2. ASSUME NEW c \in LimitedConn
        PROVE  /\ windows'[c] \in Seq(Nat)
               /\ RL!WindowOK(passed[c], windows'[c]) /\ RL!WaitOK(windows'[c], refusal[c])
    <3>1. windows'[c] = RL!purge_old(windows[c], clock)
      BY <2>1
    <3>2. PICK p \in Seq(Nat), w \in Seq(Nat), a \in RL!Refusal \cup {None} :
            /\ p = passed[c] /\ w = windows[c] /\ a = refusal[c]
            /\ RL!WindowOK(p, w) /\ RL!WaitOK(w, a)
      BY RateFacts
    <3>3. clock \in Nat /\ limits \in RateConfigs
      BY RateFacts
    <3>4. QED
      BY <3>1, <3>2, <3>3, WindowPurged
  <2>3. RL!TypeOK'
    <3>1. windows' \in [LimitedConn -> Seq(Nat)]
      BY <2>1, <2>2
    <3>2. QED
      BY <2>1, <3>1 DEF RL!IInv, RL!TypeOK, RL!Refusal
  <2>4. ASSUME NEW c \in LimitedConn
        PROVE  (/\ RL!WindowOK(passed[c], windows[c]) /\ RL!PassedOK(passed[c])
                /\ RL!WaitOK(windows[c], refusal[c]))'
    <3>1. RL!PassedOK(passed[c])
      BY RateFacts
    <3>2. QED
      BY <2>1, <2>2, <3>1 DEF RL!WindowOK, RL!PassedOK, RL!WaitOK
  <2>5. QED
    BY <2>3, <2>4 DEF RL!IInv
<1>2. CASE RL!Tick
  <2>1. /\ limits' = limits /\ clock' = clock + 1 /\ clock < MaxTicks
        /\ refusal' = refusal /\ passed' = passed /\ windows' = windows
    BY <1>2 DEF RL!Tick
  <2>2. RL!TypeOK'
    BY <2>1, RateBounds DEF RL!IInv, RL!TypeOK, RL!Refusal
  <2>3. ASSUME NEW c \in LimitedConn
        PROVE  (/\ RL!WindowOK(passed[c], windows[c]) /\ RL!PassedOK(passed[c])
                /\ RL!WaitOK(windows[c], refusal[c]))'
    <3>1. PICK p \in Seq(Nat), w \in Seq(Nat), a \in RL!Refusal \cup {None} :
            /\ p = passed[c] /\ w = windows[c] /\ a = refusal[c]
            /\ RL!WindowOK(p, w) /\ RL!PassedOK(p) /\ RL!WaitOK(w, a)
      BY RateFacts
    <3>2. clock \in Nat /\ limits \in RateConfigs
      BY RateFacts
    <3>3. PICK W \in Nat : W = limits.window * TicksPerSecond
      BY <3>2, LimitFacts
    <3>4. \A i \in DOMAIN p : p[i] \in Nat
      BY ElementOfSeq
    <3>5. RL!WindowOK(p, w)'
      <4>1. \A i \in 1 .. (Len(p) - Len(w)) : p[i] < clock - W
        BY <3>1, <3>3 DEF RL!WindowOK
      <4>2. \A i \in 1 .. (Len(p) - Len(w)) : i \in DOMAIN p
        <5>1. Len(p) \in Nat /\ Len(w) \in Nat /\ DOMAIN p = 1 .. Len(p)
          OBVIOUS
        <5>2. QED
          BY <5>1
      <4>3. \A i \in 1 .. (Len(p) - Len(w)) : p[i] < (clock + 1) - W
        BY <3>2, <3>4, <4>1, <4>2
      <4>4. QED
        BY <2>1, <3>1, <3>3, <4>3 DEF RL!WindowOK
    <3>6. RL!PassedOK(p)'
      <4>1. \A i \in DOMAIN p : p[i] <= clock + 1
        BY <3>1, <3>2, <3>4 DEF RL!PassedOK
      <4>2. QED
        BY <2>1, <3>1, <4>1 DEF RL!PassedOK
    <3>7. RL!WaitOK(w, a)'
      BY <2>1, <3>1 DEF RL!WaitOK
    <3>8. QED
      BY <2>1, <3>1, <3>5, <3>6, <3>7 DEF RL!WindowOK, RL!PassedOK, RL!WaitOK
  <2>4. QED
    BY <2>2, <2>3 DEF RL!IInv
<1>3. ASSUME NEW c \in LimitedConn, RL!Request(c)
      PROVE  RL!IInv'
  BY <1>3, RateRequestKeeps
<1>4. ASSUME NEW c \in LimitedConn, RL!Reset(c)
      PROVE  RL!IInv'
  <2>1. limits.max \in Nat
    BY RateFacts, LimitFacts
  <2>2. RL!WindowOK(<<>>, <<>>)
    BY <2>1 DEF RL!WindowOK
  <2>3. RL!PassedOK(<<>>) /\ RL!WaitOK(<<>>, None)
    BY DEF RL!PassedOK, RL!WaitOK
  <2>4. QED
    <3>1. /\ windows' = [windows EXCEPT ![c] = <<>>] /\ passed' = [passed EXCEPT ![c] = <<>>]
          /\ refusal' = [refusal EXCEPT ![c] = None]
          /\ limits' = limits /\ clock' = clock
      BY <1>4 DEF RL!Reset
    <3>2. <<>> \in Seq(Nat) /\ None \in RL!Refusal \cup {None}
      OBVIOUS
    <3>3. QED
      BY <2>2, <2>3, <3>1, <3>2, RateStep
<1>5. CASE UNCHANGED ratelimitVars
  <2>1. /\ limits' = limits /\ clock' = clock /\ refusal' = refusal /\ passed' = passed
        /\ windows' = windows
    BY <1>5 DEF ratelimitVars
  <2>2. QED
    BY <2>1 DEF RL!IInv, RL!TypeOK, RL!Refusal, RL!WindowOK, RL!PassedOK, RL!WaitOK
<1>6. QED
  BY <1>1, <1>2, <1>3, <1>4, <1>5 DEF RL!Next

\* No more requests than the limit fall into the time before one of them when the
\* one that comes as many requests earlier is already too old.
TimesInOrder(p) == \A j, k \in DOMAIN p : j < k => p[j] <= p[k]
TimesInside(p, i, d) == {j \in DOMAIN p : j <= i /\ p[j] >= p[i] - d}
LEMMA FewInside ==
    ASSUME NEW p \in Seq(Nat), NEW most \in Nat \ {0}, NEW d \in Nat, NEW i \in DOMAIN p,
           TimesInOrder(p),
           i > most => p[i - most] < p[i] - d
    PROVE  Cardinality(TimesInside(p, i, d)) <= most
<1> DEFINE S == TimesInside(p, i, d)
<1>1. PICK n \in Nat : n = Len(p) /\ DOMAIN p = 1 .. n /\ \A j \in 1 .. n : p[j] \in Nat
  BY LenProperties, ElementOfSeq
<1>2. PICK lo \in Int : lo = (i - most) + 1
  BY <1>1
<1>3. S \subseteq lo .. i
  <2> SUFFICES ASSUME NEW j \in S, ~(j \in lo .. i)
               PROVE  FALSE
    OBVIOUS
  <2>0. j \in 1 .. n /\ j <= i /\ p[j] >= p[i] - d /\ j < lo
    BY <1>1, <1>2 DEF TimesInside
  <2>1. PICK k \in 1 .. n : k = i - most /\ j <= k
    <3>1. i - most \in 1 .. n /\ j <= i - most
      BY <1>1, <1>2, <2>0
    <3>2. QED
      BY <3>1
  <2>2. p[k] < p[i] - d
    BY <1>1, <2>1
  <2>3. p[j] <= p[k]
    <3>1. CASE j = k
      BY <1>1, <3>1
    <3>2. CASE j # k
      <4>1. j < k /\ j \in DOMAIN p /\ k \in DOMAIN p
        BY <1>1, <2>0, <2>1, <3>2
      <4>2. QED
        BY <4>1 DEF TimesInOrder
    <3>3. QED
      BY <3>1, <3>2
  <2>4. p[i] \in Nat /\ p[j] \in Nat /\ p[k] \in Nat
    BY <1>1, <2>0
  <2>5. QED
    BY <2>0, <2>2, <2>3, <2>4
<1>4. IsFiniteSet(lo .. i) /\ Cardinality(lo .. i) = most
  <2>1. i \in Int /\ lo <= i /\ (i - lo) + 1 = most
    BY <1>1, <1>2
  <2>2. IsFiniteSet(lo .. i) /\ Cardinality(lo .. i) = (i - lo) + 1
    BY <2>1, FS_Interval
  <2>3. QED
    BY <2>1, <2>2
<1>5. Cardinality(S) <= Cardinality(lo .. i)
  BY <1>3, <1>4, FS_Subset
<1>6. QED
  BY <1>4, <1>5

LEMMA RateSafe ==
    ASSUME RL!IInv
    PROVE  RL!NeverOverLimit /\ RL!WaitSuffices
<1>1. \A S : RL!Cardinality(S) = Cardinality(S)
  BY DEF RL!Cardinality, Cardinality
<1>2. RL!NeverOverLimit
  <2> SUFFICES ASSUME NEW c \in LimitedConn, NEW i \in DOMAIN passed[c]
               PROVE  /\ Cardinality(TimesInside(passed[c], i, limits.window * TicksPerSecond))
                           <= limits.max
                      /\ limits.burst > 0 =>
                           Cardinality(TimesInside(passed[c], i, TicksPerSecond)) <= limits.burst
    BY <1>1, Zenon DEF RL!NeverOverLimit, TimesInside
  <2>1. PICK p \in Seq(Nat) : p = passed[c] /\ RL!PassedOK(p)
    BY RateFacts
  <2>2. PICK W \in Nat : W = limits.window * TicksPerSecond
    BY RateFacts, LimitFacts
  <2>3. PICK m \in Nat \ {0}, b \in Nat, t \in Nat :
          m = limits.max /\ b = limits.burst /\ t = TicksPerSecond
    BY RateFacts, LimitFacts
  <2>4. i \in DOMAIN p /\ TimesInOrder(p)
    BY <2>1 DEF RL!PassedOK, TimesInOrder
  <2>5. i > m => p[i - m] < p[i] - W
    BY <2>1, <2>2, <2>3, <2>4 DEF RL!PassedOK
  <2>6. b > 0 /\ i > b => p[i - b] < p[i] - t
    BY <2>1, <2>3, <2>4 DEF RL!PassedOK
  <2>7. Cardinality(TimesInside(p, i, W)) <= m
    BY <2>4, <2>5, FewInside
  <2>8. b > 0 => Cardinality(TimesInside(p, i, t)) <= b
    BY <2>4, <2>6, FewInside
  <2>9. QED
    BY <2>1, <2>2, <2>3, <2>7, <2>8
<1>3. RL!WaitSuffices
  <2> SUFFICES ASSUME NEW c \in LimitedConn, refusal[c] # None, refusal[c].full,
                      clock > refusal[c].at + refusal[c].wait * TicksPerSecond,
                      RL!WindowFull(RL!purge_old(windows[c], clock))
               PROVE  FALSE
    BY DEF RL!WaitSuffices
  <2>1. limits \in RateConfigs /\ clock \in Nat
    BY RateFacts
  <2>2. PICK W \in Nat, m \in Nat \ {0} : W = limits.window * TicksPerSecond /\ m = limits.max
    BY <2>1, LimitFacts
  <2>3. PICK p \in Seq(Nat), w \in Seq(Nat), a \in RL!Refusal \cup {None} :
          /\ p = passed[c] /\ w = windows[c] /\ a = refusal[c]
          /\ RL!WindowOK(p, w) /\ RL!WaitOK(w, a)
    BY RateFacts
  <2>4. PICK v \in Seq(Nat), k \in 0 .. Len(w) :
          /\ v = RL!purge_old(w, clock) /\ Len(v) = Len(w) - k
          /\ \A i \in 1 .. (Len(w) - k) : v[i] = w[i + k]
          /\ k < Len(w) => w[k + 1] >= clock - W
    BY <2>1, <2>2, PurgeFacts
  <2>5. Len(w) <= m /\ Len(v) >= m /\ Len(w) \in Nat
    BY <2>2, <2>3, <2>4 DEF RL!WindowOK, RL!WindowFull
  <2>6. k = 0 /\ Len(w) >= m /\ 0 < Len(w)
    BY <2>2, <2>4, <2>5
  <2>7. w[1] >= clock - W
    BY <2>4, <2>6
  <2>8. PICK e \in Int : e = a.at + a.wait * TicksPerSecond /\ clock > e
    <3>1. a.at \in Nat /\ a.wait \in Nat /\ TicksPerSecond \in Nat
      BY <2>3, RateBounds DEF RL!Refusal
    <3>2. a.wait * TicksPerSecond \in Nat
      BY <3>1
    <3>3. a.at + a.wait * TicksPerSecond \in Int
      BY <3>1, <3>2
    <3>4. QED
      BY <2>3, <3>3
  <2>9. w[1] + W <= e
    BY <2>2, <2>3, <2>6, <2>8 DEF RL!WaitOK
  <2>10. w[1] \in Nat
    BY <2>6, ElementOfSeq
  <2>11. QED
    BY <2>1, <2>2, <2>7, <2>8, <2>9, <2>10
<1>4. QED
  BY <1>2, <1>3

-----------------------------------------------------------------------------
(* The components together.                                                *)

\* The invariant of the component that runs.
PartsInv ==
  /\ scope = "approval" => AP!IInv
  /\ scope = "processes" => PR!IInv
  /\ scope = "http" => HA!IInv
  /\ scope = "browser" => B!IInv
  /\ scope = "adapters" => AD!IInv
  /\ scope = "client" => CL!IInv
  /\ scope = "typing" => TY!IInv
  /\ scope = "transcripts" => TR!IInv
  /\ scope = "devices" => DV!IInv
  /\ scope = "plugins" => PL!IInv
  /\ scope = "chain" => TC!IInv
  /\ scope = "routes" => RT!IInv
  /\ scope = "health" => HE!IInv
  /\ scope = "hooks" => H!IInv
  /\ scope = "cron" => CR!IInv
  /\ scope = "ratelimit" => RL!IInv

LEMMA PartsBegin ==
    ASSUME PartsInit
    PROVE  PartsInv
<1>1. CASE scope = "approval"
  BY <1>1, ApprovalInit DEF PartsInit, PartsInv
<1>2. CASE scope = "processes"
  BY <1>2, ProcessesInit DEF PartsInit, PartsInv
<1>3. CASE scope = "http"
  BY <1>3, HttpInit DEF PartsInit, PartsInv
<1>4. CASE scope = "browser"
  BY <1>4, BrowserInit DEF PartsInit, PartsInv
<1>5. CASE scope = "adapters"
  BY <1>5, AdaptersInit DEF PartsInit, PartsInv
<1>6. CASE scope = "client"
  BY <1>6, ClientInit DEF PartsInit, PartsInv
<1>7. CASE scope = "typing"
  BY <1>7, TypingInit DEF PartsInit, PartsInv
<1>8. CASE scope = "transcripts"
  BY <1>8, TranscriptsInit DEF PartsInit, PartsInv
<1>9. CASE scope = "devices"
  BY <1>9, DevicesInit DEF PartsInit, PartsInv
<1>10. CASE scope = "plugins"
  BY <1>10, PluginsInit DEF PartsInit, PartsInv
<1>11. CASE scope = "chain"
  BY <1>11, ChainInit DEF PartsInit, PartsInv
<1>12. CASE scope = "routes"
  BY <1>12, RoutesInit DEF PartsInit, PartsInv
<1>13. CASE scope = "health"
  BY <1>13, HealthInit DEF PartsInit, PartsInv
<1>14. CASE scope = "hooks"
  BY <1>14, HooksInit DEF PartsInit, PartsInv
<1>15. CASE scope = "cron"
  BY <1>15, CronInit DEF PartsInit, PartsInv
<1>16. CASE scope = "ratelimit"
  BY <1>16, RateInit DEF PartsInit, PartsInv
<1>17. QED
  BY <1>1, <1>2, <1>3, <1>4, <1>5, <1>6, <1>7, <1>8, <1>9, <1>10, <1>11, <1>12, <1>13, <1>14, <1>15, <1>16 DEF PartsInv

\* A step of PartsNext is a step of the component that `scope' names.
LEMMA PartSteps ==
    ASSUME PartsNext
    PROVE  /\ scope' = scope
           /\ scope = "approval" => AP!Next
           /\ scope = "processes" => PR!Next
           /\ scope = "http" => HA!Next
           /\ scope = "browser" => B!Next
           /\ scope = "adapters" => AD!Next
           /\ scope = "client" => CL!Next
           /\ scope = "typing" => TY!Next
           /\ scope = "transcripts" => TR!Next
           /\ scope = "devices" => DV!Next
           /\ scope = "plugins" => PL!Next
           /\ scope = "chain" => TC!Next
           /\ scope = "routes" => RT!Next
           /\ scope = "health" => HE!Next
           /\ scope = "hooks" => H!Next
           /\ scope = "cron" => CR!Next
           /\ scope = "ratelimit" => RL!Next
<1>1. CASE ApprovalStep
  BY <1>1 DEF ApprovalStep
<1>2. CASE ProcessesStep
  BY <1>2 DEF ProcessesStep
<1>3. CASE HttpApiStep
  BY <1>3 DEF HttpApiStep
<1>4. CASE BrowserStep
  BY <1>4 DEF BrowserStep
<1>5. CASE AdaptersStep
  BY <1>5 DEF AdaptersStep
<1>6. CASE ClientStep
  BY <1>6 DEF ClientStep
<1>7. CASE TypingStep
  BY <1>7 DEF TypingStep
<1>8. CASE TranscriptsStep
  BY <1>8 DEF TranscriptsStep
<1>9. CASE DevicesStep
  BY <1>9 DEF DevicesStep
<1>10. CASE PluginsStep
  BY <1>10 DEF PluginsStep
<1>11. CASE ToolChainStep
  BY <1>11 DEF ToolChainStep
<1>12. CASE RoutesStep
  BY <1>12 DEF RoutesStep
<1>13. CASE HealthStep
  BY <1>13 DEF HealthStep
<1>14. CASE HooksStep
  BY <1>14 DEF HooksStep
<1>15. CASE CronStep
  BY <1>15 DEF CronStep
<1>16. CASE RateLimitStep
  BY <1>16 DEF RateLimitStep
<1>17. QED
  BY <1>1, <1>2, <1>3, <1>4, <1>5, <1>6, <1>7, <1>8, <1>9, <1>10, <1>11, <1>12, <1>13, <1>14, <1>15, <1>16 DEF PartsNext

LEMMA PartsKeep ==
    ASSUME PartsInv, [PartsNext]_partsVars
    PROVE  PartsInv'
<1>1. /\ scope' = scope
      /\ scope = "approval" => AP!Next \/ UNCHANGED approvalVars
      /\ scope = "processes" => PR!Next \/ UNCHANGED processesVars
      /\ scope = "http" => HA!Next \/ UNCHANGED httpVars
      /\ scope = "browser" => B!Next \/ UNCHANGED browserVars
      /\ scope = "adapters" => AD!Next \/ UNCHANGED adaptersVars
      /\ scope = "client" => CL!Next \/ UNCHANGED clientVars
      /\ scope = "typing" => TY!Next \/ UNCHANGED typingVars
      /\ scope = "transcripts" => TR!Next \/ UNCHANGED transcriptsVars
      /\ scope = "devices" => DV!Next \/ UNCHANGED devicesVars
      /\ scope = "plugins" => PL!Next \/ UNCHANGED pluginsVars
      /\ scope = "chain" => TC!Next \/ UNCHANGED chainVars
      /\ scope = "routes" => RT!Next \/ UNCHANGED routesVars
      /\ scope = "health" => HE!Next \/ UNCHANGED healthVars
      /\ scope = "hooks" => H!Next \/ UNCHANGED hooksVars
      /\ scope = "cron" => CR!Next \/ UNCHANGED cronVars
      /\ scope = "ratelimit" => RL!Next \/ UNCHANGED ratelimitVars
  <2>1. CASE PartsNext
    BY <2>1, PartSteps
  <2>2. CASE UNCHANGED partsVars
    BY <2>2 DEF partsVars, own
  <2>3. QED
    BY <2>1, <2>2
<1>2. scope = "approval" => AP!IInv'
  BY <1>1, ApprovalKeeps DEF PartsInv
<1>3. scope = "processes" => PR!IInv'
  BY <1>1, ProcessesKeep DEF PartsInv
<1>4. scope = "http" => HA!IInv'
  BY <1>1, HttpKeeps DEF PartsInv
<1>5. scope = "browser" => B!IInv'
  BY <1>1, BrowserKeeps DEF PartsInv
<1>6. scope = "adapters" => AD!IInv'
  BY <1>1, AdaptersKeep DEF PartsInv
<1>7. scope = "client" => CL!IInv'
  BY <1>1, ClientKeeps DEF PartsInv
<1>8. scope = "typing" => TY!IInv'
  BY <1>1, TypingKeeps DEF PartsInv
<1>9. scope = "transcripts" => TR!IInv'
  BY <1>1, TranscriptsKeep DEF PartsInv
<1>10. scope = "devices" => DV!IInv'
  BY <1>1, DevicesKeep DEF PartsInv
<1>11. scope = "plugins" => PL!IInv'
  BY <1>1, PluginsKeep DEF PartsInv
<1>12. scope = "chain" => TC!IInv'
  BY <1>1, ChainKeeps DEF PartsInv
<1>13. scope = "routes" => RT!IInv'
  BY <1>1, RoutesKeep DEF PartsInv
<1>14. scope = "health" => HE!IInv'
  BY <1>1, HealthKeeps DEF PartsInv
<1>15. scope = "hooks" => H!IInv'
  BY <1>1, HooksKeep DEF PartsInv
<1>16. scope = "cron" => CR!IInv'
  BY <1>1, CronKeeps DEF PartsInv
<1>17. scope = "ratelimit" => RL!IInv'
  BY <1>1, RateKeeps DEF PartsInv
<1>18. QED
  BY <1>1, <1>2, <1>3, <1>4, <1>5, <1>6, <1>7, <1>8, <1>9, <1>10, <1>11, <1>12, <1>13, <1>14, <1>15, <1>16, <1>17 DEF PartsInv

LEMMA PartsHold == PartsSpec => []PartsInv
<1>1. PartsInit => PartsInv
  BY PartsBegin
<1>2. PartsInv /\ [PartsNext]_partsVars => PartsInv'
  BY PartsKeep
<1>3. QED
  BY <1>1, <1>2, PTL DEF PartsSpec

\* A command that runs was allowed by a configuration in force while its call
\* lasted, by the operator, or by the policy for an operator who does not
\* answer; and a request that is decided once, by the operator, by a resolution
\* of all or by its expiry, has one entry in the history: for any number of
\* threads, commands, requests and changes of the configuration.
\* (security/exec_approval.cpp, RequestApproval and ResolveApproval;
\* tools/tool_registry.cpp.)
THEOREM OnlyAllowedRun == PartsSpec => []RunsAreAllowed
<1>1. PartsInv => RunsAreAllowed
  <2> SUFFICES ASSUME PartsInv, scope = "approval"
               PROVE  AP!RunsAreAllowed /\ AP!RecordedOnce
    BY DEF RunsAreAllowed
  <2>1. AP!IInv
    BY DEF PartsInv
  <2>2. QED
    BY <2>1 DEF AP!IInv, AP!RunsAreAllowed, AP!GrantsOK
<1>2. QED
  BY <1>1, PartsHold, PTL

\* A background process that is reported as ended has its output stored, unless
\* it was killed, cleared or its output could not be had, whichever of the
\* threads that poll it took the result: for any number of threads and
\* processes.
\* (tools/tool_registry.cpp, process_tool.)
THEOREM EndedKeepsOutput == PartsSpec => []EndedHasOutput
<1>1. PartsInv => EndedHasOutput
  BY DEF PartsInv, EndedHasOutput, PR!IInv
<1>2. QED
  BY <1>1, PartsHold, PTL

\* When the response of a stream ends, the client has got every event that was
\* put in its queue, in order, and the last says how the turn ended: for any
\* number of requests, sessions and events, however the pushes of the worker and
\* the wakeups of the content provider interleave.
\* (web/api_routes.cpp, the StreamState of the streaming routes.)
THEOREM StreamsAreComplete == PartsSpec => []StreamComplete
<1>1. PartsInv => StreamComplete
  <2> SUFFICES ASSUME PartsInv, scope = "http", NEW r \in Req,
                      req[r].kind \in HA!Streams, req[r].status = 200
               PROVE  /\ req[r].sent = pushed[r]
                      /\ req[r].kind = "stream" =>
                           pushed[r] # <<>> /\ pushed[r][Len(pushed[r])] \in HA!Terminal
    BY DEF StreamComplete, HA!StreamComplete
  <2>1. HA!IInv
    BY DEF PartsInv
  <2>2. req[r] \in HA!RequestState /\ HA!StreamOK(req[r], pushed[r])
    BY <2>1, RequestFacts
  <2>3. /\ req[r].finished /\ req[r].chunks = <<>> /\ pushed[r] = req[r].sent \o req[r].chunks
        /\ req[r].kind = "stream" =>
             pushed[r] # <<>> /\ pushed[r][Len(pushed[r])] \in HA!Terminal
    <3>1. req[r].status # None
      BY PartNames
    <3>2. QED
      BY <2>2, <3>1 DEF HA!StreamOK
  <2>4. req[r].sent \in Seq(HA!Event)
    BY <2>2 DEF HA!RequestState
  <2>5. req[r].sent \o <<>> = req[r].sent
    BY <2>4, ConcatEmptySeq
  <2>6. QED
    BY <2>3, <2>5
<1>2. QED
  BY <1>1, PartsHold, PTL

\* A browser process belongs to a session, to a call that works on it or to the
\* cleanup that closes it, and its table of calls holds only calls that somebody
\* waits for, and so does the gateway client's; when Stop of the channel
\* adapters has returned, no process is left but one whose restart was under
\* way, on win32; and no thread sends the typing notice of a message that has
\* been handled: for any number of callers, sessions, channels, calls and
\* messages, whatever fails, breaks or is given up in between.
\* (tools/browser_tool.cpp, channels/adapter_manager.cpp,
\* channels/telegram_typing_manager.cpp, gateway/gateway_client.cpp.)
THEOREM NothingIsLeft == PartsSpec => []NothingLeftBehind
<1>1. PartsInv => NothingLeftBehind
  <2>1. ASSUME PartsInv, scope = "browser"
        PROVE  B!NoBrowserLeftBehind /\ B!AnswersAwaited
    BY <2>1 DEF PartsInv, B!IInv
  <2>2. ASSUME PartsInv, scope = "adapters"
        PROVE  AD!StopLeavesNone
    <3>1. AD!IInv
      BY <2>2 DEF PartsInv
    <3>2. \A c \in Channel : AD!AdapterOK(c)
      BY <3>1 DEF AD!IInv
    <3>3. stop.at = "done" => \A c \in Channel : proc[c] # "none" => c \in late
      BY <3>2 DEF AD!AdapterOK
    <3>4. late # {} => platform = "win32"
      BY <3>1 DEF AD!IInv, AD!StateOK
    <3>5. QED
      BY <3>3, <3>4 DEF AD!StopLeavesNone
  <2>3. ASSUME PartsInv, scope = "client"
        PROVE  CL!OnlyOpenCalls
    BY <2>3 DEF PartsInv, CL!IInv
  <2>4. ASSUME PartsInv, scope = "typing"
        PROVE  TY!QuietWhenDone
    BY <2>4 DEF PartsInv, TY!IInv
  <2>5. QED
    BY <2>1, <2>2, <2>3, <2>4 DEF NothingLeftBehind
<1>2. QED
  BY <1>1, PartsHold, PTL

\* A denied plugin is neither told to the sidecar nor enabled; a token that was
\* revoked, rotated or removed with its device is in force for no device, although
\* a device that two clients approved has two entries; and no callback runs once
\* Unsubscribe has returned: for any number of plugins, clients, devices, roles,
\* threads and subscriptions, however their steps interleave.
\* (plugins/plugin_registry.cpp, gateway/device_pairing.cpp,
\* session/session_manager.cpp.)
THEOREM TakenStaysAway == PartsSpec => []TakenAwayStaysAway
<1>1. PartsInv => TakenAwayStaysAway
  <2>1. ASSUME PartsInv, scope = "plugins"
        PROVE  PL!DeniedStayOff
    BY <2>1 DEF PartsInv, PL!IInv
  <2>2. ASSUME PartsInv, scope = "devices"
        PROVE  DV!VoidStaysVoid
    <3>1. \A i \in DOMAIN paired : \A r \in DeviceRole :
            paired[i].tokens[r] # None => paired[i].tokens[r] \notin void
      BY <2>2 DEF PartsInv, DV!IInv, DV!TokenOK
    <3>2. QED
      BY <3>1 DEF DV!VoidStaysVoid, DV!InForce
  <2>3. ASSUME PartsInv, scope = "transcripts"
        PROVE  TR!UnsubscribedIsQuiet
    BY <2>3 DEF PartsInv, TR!IInv, TR!Holds, TR!UnsubscribedIsQuiet
  <2>4. QED
    BY <2>1, <2>2, <2>3 DEF TakenAwayStaysAway
<1>2. QED
  BY <1>1, PartsHold, PTL

\* A chain reports as done the steps whose handlers returned, each once,
\* whatever is reloaded under it; a plugin's tool gets its name qualified exactly
\* if a conflict over it is reported; every message of a session is found with
\* the status its sender was told; and the health that is reported is what the
\* probes have found: for any number of clients, chains, plugins, connections,
\* requests and probes.
\* (tools/tool_chain.cpp, plugins/plugin_registry.cpp,
\* gateway/route_manager.cpp, gateway/gateway_server.cpp.)
THEOREM ReportsHold == PartsSpec => []ReportsAreTrue
<1>1. PartsInv => ReportsAreTrue
  <2>1. ASSUME PartsInv, scope = "chain"
        PROVE  TC!ReportsWhatRan
    BY <2>1, ChainReports DEF PartsInv
  <2>2. ASSUME PartsInv, scope = "plugins"
        PROVE  PL!ConflictsAreNamed
    BY <2>2, ConflictsNamed DEF PartsInv
  <2>3. ASSUME PartsInv, scope = "routes"
        PROVE  RT!RoutesAgree
    BY <2>3 DEF PartsInv, RT!IInv
  <2>4. ASSUME PartsInv, scope = "health"
        PROVE  HE!ReportFitsProbes
    BY <2>4, HealthReports DEF PartsInv
  <2>5. QED
    BY <2>1, <2>2, <2>3, <2>4 DEF ReportsAreTrue
<1>2. QED
  BY <1>1, PartsHold, PTL

\* A firing calls each handler that was registered when it began once and no other;
\* a modifying or a sync hook calls none before one of a higher priority, and
\* none after one that asked to stop; and no thread of a void hook outlives the
\* call that it reads from: for any number of threads, hooks, plugins and
\* registrations, whatever is registered, unregistered or cleared meanwhile.
\* (plugins/hook_manager.cpp, RegisterHook, UnregisterHook, Fire.)
THEOREM FiringsCallOnce == PartsSpec => []FireCallsEachOnce
<1>1. PartsInv => FireCallsEachOnce
  BY HooksFire DEF PartsInv, FireCallsEachOnce
<1>2. QED
  BY <1>1, PartsHold, PTL

\* A job is run once for each minute it is run for, in their order and not before
\* the minute has come, and each is a minute that its schedule names, unless the
\* schedule names none: for any number of jobs, of schedules and of minutes to the
\* hour and hours to the day, however long other jobs keep the loop and whenever it
\* is stopped and started.  (core/cron_scheduler.cpp, scheduler_loop, NextAfter.)
THEOREM JobsRunWhenNamed == PartsSpec => []RunsWhenNamed
<1>1. PartsInv => RunsWhenNamed
  BY CronRuns DEF PartsInv, RunsWhenNamed
<1>2. QED
  BY <1>1, PartsHold, PTL

\* No window of the configured length, and no second, has more requests of a
\* connection let through than the limits allow, and a connection that the
\* window refused finds room there when the seconds it was told to wait are
\* over: for any number of connections, any limits and any resolution of time,
\* wherever the purging by Allow, Prune and RetryAfter falls.
\* (security/rate_limiter.cpp, Allow, RetryAfter and purge_old.)
THEOREM LimitsAreKept == PartsSpec => []LimitsHold
<1>1. PartsInv => LimitsHold
  BY RateSafe DEF PartsInv, LimitsHold
<1>2. QED
  BY <1>1, PartsHold, PTL
=============================================================================
