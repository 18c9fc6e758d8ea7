------------------------------ MODULE Failover ------------------------------
(***************************************************************************)
(* One agent turn and the provider it talks to: AgentLoop's resolve and    *)
(* retry code (core/agent_loop.cpp), FailoverResolver and CooldownTracker  *)
(* (providers/).  session_write_mutex_ lets one turn run at a time; model  *)
(* changes, configuration reloads and Stop come from other threads.        *)
(*                                                                         *)
(* Time is abstract: a cooldown ends and a probe becomes due at any moment *)
(* after it was set.  What a turn says is not modelled here.               *)
(***************************************************************************)
EXTENDS Naturals, Sequences

CONSTANTS
    Provider,       \* provider identifiers
    Model,          \* model references
    Selectable,     \* the models clients select
    Profile,        \* auth profile identifiers
    Chains,         \* fallback chains an administrator may configure
    ProfileSets,    \* [Provider -> Seq(Profile)] an administrator may configure
    MaxRetries,     \* bound: kDefaultMaxRetries
    MaxFailovers,   \* bound: kMaxFailoverAttempts
    MaxRounds,      \* bound: max_iterations_ and kOverflowCompactionMaxRetries, together
    ModelOf(_),     \* ProviderRegistry::ResolveModel: the provider of a model
    Registered,     \* the providers the registry has a factory for
    Startup,        \* the model of the provider the loop was constructed with
    None

ASSUME BoundAssumption ==
    /\ {MaxRetries, MaxFailovers, MaxRounds} \subseteq Nat
    /\ MaxFailovers > 0
ASSUME ModelAssumption ==
    /\ \A m \in Model : ModelOf(m) \in Provider
    /\ Registered \subseteq Provider
    /\ Startup \in Selectable
    /\ Selectable \subseteq Model
ASSUME ConfigAssumption ==
    /\ Chains \subseteq Seq(Model)
    /\ ProfileSets \subseteq [Provider -> Seq(Profile)]
    /\ None \notin Provider \cup Profile \cup Model

\* cooldown_key: a profile of a provider, or the provider's default entry.
Key == Provider \X (Profile \cup {None})

\* The local variables of a turn.
TurnState ==
    [stream : BOOLEAN,
     \* of Resolve, and what it found
     wanted : Model \cup {None}, index : Nat \ {0}, next : Key \cup {None},
     name : Model \cup {None},
     \* what the turn calls
     provider : Key \cup {None}, request : Model \cup {None}, original : Model \cup {None},
     retry : 0 .. MaxRetries, failovers : 0 .. MaxFailovers, rounds : 0 .. MaxRounds]

ASSUME NoneAssumption == None \notin Key \cup TurnState

Kind == {"transient", "auth", "modelNotFound", "contextOverflow"}
\* should_retry_provider_error: rate limits, timeouts and transient errors.
Retryable(kind) == kind = "transient"
\* ComputeCooldown gives every kind but kModelNotFound a positive cooldown.
Cools(kind) == kind # "modelNotFound"

VARIABLES
    \* FailoverResolver and its CooldownTracker
    chain,      \* fallback_chain_
    profiles,   \* profiles_
    pin,        \* session_pins_ of the loop's session_key_: a key, or None
    cooldown,   \* per key: "none", "cooling", or "probeDue" once kProbeInterval passed
    \* AgentLoop
    model,      \* agent_config_.model
    last,       \* last_provider_id_, last_profile_id_: a key, None when cleared
    stop,       \* stop_requested_
    \* the thread that runs the turn
    pc,
    turn        \* its local variables, and resolved_model_name_ while it is read

resolverVars == <<chain, profiles, pin, cooldown>>
loopVars == <<model, last, stop>>
vars == <<resolverVars, loopVars, pc, turn>>

-----------------------------------------------------------------------------
(* Provider objects.  GetProvider caches one object per provider;          *)
(* GetProviderWithKey makes a new one on every call, so pointer equality   *)
(* holds between default objects only.                                     *)

Object(key) == key
Injected == <<ModelOf(Startup), None>>      \* llm_provider_, from the same cache
SameObject(o, p) == o = p /\ o[2] = None

IsCooling(key) == cooldown[key] # "none"
KeysOf(p) == {<<p, profiles[p][i]>> : i \in DOMAIN profiles[p]}

\* try_resolve_model, under mu_.  The pin is used while its profile exists and
\* is healthy, and is erased otherwise.
PinFor(p) == pin # None /\ pin[1] = p
PinUsable(p) == PinFor(p) /\ ~IsCooling(pin) /\ pin \in KeysOf(p) /\ p \in Registered
PinAfter(p) == IF PinFor(p) /\ ~PinUsable(p) THEN None ELSE pin

\* The first profile that is not cooling, or else the first one as a probe.
Healthy(p) == {i \in DOMAIN profiles[p] : ~IsCooling(<<p, profiles[p][i]>>)}
FirstHealthy(p) ==
    <<p, profiles[p][CHOOSE i \in Healthy(p) : \A j \in Healthy(p) : i <= j]>>
ProbeKey(p) == IF profiles[p] = <<>> THEN <<p, None>> ELSE <<p, profiles[p][1]>>

\* Mutation: the profile order is followed, cooling or not.
CandidateIgnoringCooldown(p) == ProbeKey(p)
\* The key to resolve to, None if the provider has nothing to offer.
Candidate(p) ==
    CASE p \notin Registered -> None
      [] p \in Registered /\ PinUsable(p) -> pin
      [] p \in Registered /\ ~PinUsable(p) /\ profiles[p] # <<>> /\ Healthy(p) # {} ->
            FirstHealthy(p)
      [] OTHER -> IF cooldown[ProbeKey(p)] = "cooling" THEN None ELSE ProbeKey(p)

\* TryProbe restarts the probe interval of the key it lets through (also when
\* the registry then has no factory for the provider).
ProbeTaken(p) ==
    /\ ~PinUsable(p)
    /\ profiles[p] # <<>> => Healthy(p) = {}
    /\ cooldown[ProbeKey(p)] = "probeDue"
TryResolve(p) ==
    /\ pin' = PinAfter(p)
    /\ cooldown' = IF ProbeTaken(p)
                   THEN [cooldown EXCEPT ![ProbeKey(p)] = "cooling"] ELSE cooldown

-----------------------------------------------------------------------------
Init ==
    /\ chain \in Chains
    /\ profiles \in ProfileSets
    /\ pin = None
    /\ cooldown = [k \in Key |-> "none"]
    /\ model = Startup
    /\ last = None
    /\ stop = FALSE
    /\ pc = "idle"
    /\ turn = None

(* resolve_provider *)

\* It starts from the model of the moment.
StartResolve(t) ==
    /\ pc' = "primary"
    /\ turn' = [t EXCEPT !.wanted = model', !.index = 1, !.name = model']

\* ProcessMessage and ProcessMessageStream, once they hold session_write_mutex_.
BeginTurn(stream) ==
    /\ pc = "idle"
    /\ stop' = FALSE
    /\ UNCHANGED <<resolverVars, model, last>>
    /\ StartResolve([stream |-> stream, wanted |-> None, index |-> 1, next |-> None,
                     name |-> None, provider |-> None, request |-> None, original |-> None,
                     retry |-> 0, failovers |-> 0, rounds |-> 0])

\* Resolve tries the requested model first.
Adopt(key, m) ==
    /\ last' = key
    /\ turn' = [turn EXCEPT !.next = Object(key), !.name = m]
    /\ pc' = "resolved"

ResolvePrimary ==
    LET p == ModelOf(turn.wanted) IN
    /\ pc = "primary"
    /\ TryResolve(p)
    /\ IF Candidate(p) # None
       THEN Adopt(Candidate(p), turn.wanted)
       ELSE pc' = "walk" /\ UNCHANGED <<last, turn>>
    /\ UNCHANGED <<chain, profiles, model, stop>>

\* One element of the fallback chain.  mu_ is released around the attempt, and
\* after a success it is locked a second time by the thread that holds it
\* (line 50): a std::mutex never grants that.
WalkChain ==
    LET m == chain[turn.index]
        p == ModelOf(m)
    IN  /\ pc = "walk"
        /\ turn.index <= Len(chain)
        /\ \/ /\ m = turn.wanted
              /\ turn' = [turn EXCEPT !.index = @ + 1]
              /\ UNCHANGED <<pc, pin, cooldown>>
           \/ /\ m # turn.wanted
              /\ TryResolve(p)
              /\ IF Candidate(p) # None
                 THEN pc' = "selfLocked" /\ UNCHANGED turn
                 ELSE turn' = [turn EXCEPT !.index = @ + 1] /\ UNCHANGED pc
        /\ UNCHANGED <<chain, profiles, loopVars>>

LeaveWalk ==
    /\ pc = "walk"
    /\ turn.index > Len(chain)
    /\ pc' = "exhausted"
    /\ UNCHANGED <<resolverVars, loopVars, turn>>

\* Mutation: the fall-through keeps the profile that was resolved before.
FallThroughKeepsProfile ==
    LET p == ModelOf(model)
        key == <<p, None>>
    IN  /\ pc = "exhausted"
        /\ pc' = "resolved"
        /\ last' = IF last = None THEN key ELSE <<p, last[2]>>
        /\ turn' = [turn EXCEPT !.next = IF p \in Registered THEN Object(key) ELSE Injected,
                                !.name = model]
        /\ UNCHANGED <<resolverVars, model, stop>>

\* Nothing resolved: the registry's default object for the model of the moment,
\* whatever its cooldown, or the injected provider.
FallThrough ==
    LET p == ModelOf(model) IN
    /\ pc = "exhausted"
    /\ \/ p \in Registered /\ Adopt(<<p, None>>, model)
       \/ /\ p \notin Registered
          /\ pc' = "resolved"
          /\ last' = None
          /\ turn' = [turn EXCEPT !.next = Injected]
    /\ UNCHANGED <<resolverVars, model, stop>>

-----------------------------------------------------------------------------
(* The turn *)

EndTurn == pc' = "idle" /\ turn' = None

\* The turn takes over what was resolved; the locals of Resolve are gone.
Adopted == [turn EXCEPT !.provider = turn.next, !.request = turn.name,
                        !.wanted = None, !.index = 1, !.next = None, !.name = None]

\* The request is built a while after the provider was resolved: it takes the
\* model name resolved_model_name_ (turn.name) has then.
BuildRequest ==
    /\ pc = "resolved"
    /\ turn.provider = None
    /\ turn' = [Adopted EXCEPT !.original = model]
    /\ pc' = "attempt"
    /\ UNCHANGED <<resolverVars, loopVars>>

\* Failover switches to what was resolved, unless that is the same object: the
\* streaming loop then gives up at once, the other from the second time on.
GivesUp ==
    SameObject(turn.next, turn.provider) /\ (turn.stream \/ turn.failovers > 0)

SwitchProvider ==
    /\ pc = "resolved"
    /\ turn.provider # None
    /\ \/ GivesUp /\ EndTurn
       \/ /\ ~GivesUp
          /\ turn' = [Adopted EXCEPT
                                  !.retry = 0,
                                  !.failovers = IF turn.stream THEN @ ELSE @ + 1,
                                  !.rounds = IF turn.stream THEN @ + 1 ELSE @]
          /\ pc' = "attempt"
    /\ UNCHANGED <<resolverVars, loopVars>>

\* The loops look at stop_requested_ before every call.
Exhausted == turn.failovers >= MaxFailovers \/ turn.rounds >= MaxRounds

\* Mutation: a retry does not look at stop_requested_.
AttemptUnstopped ==
    /\ pc = "attempt"
    /\ IF Exhausted THEN EndTurn ELSE pc' = "calling" /\ UNCHANGED turn
    /\ UNCHANGED <<resolverVars, loopVars>>
Attempt ==
    /\ pc = "attempt"
    /\ IF stop \/ Exhausted THEN EndTurn ELSE pc' = "calling" /\ UNCHANGED turn
    /\ UNCHANGED <<resolverVars, loopVars>>

\* RecordSuccess.  A response with tool calls takes the turn round again, with a
\* new execute_with_retry.
CallSucceeds(final) ==
    /\ pc = "calling"
    /\ IF last = None THEN UNCHANGED <<pin, cooldown>>
       ELSE pin' = last /\ cooldown' = [cooldown EXCEPT ![last] = "none"]
    /\ \/ final /\ EndTurn
       \/ /\ ~final
          /\ turn' = [turn EXCEPT !.retry = 0, !.failovers = 0, !.rounds = @ + 1]
          /\ pc' = "attempt"
    /\ UNCHANGED <<chain, profiles, loopVars>>

\* Mutation: recovery from an overflow is not counted.
CallOverflowsUncounted ==
    /\ pc = "calling"
    /\ turn' = [turn EXCEPT !.retry = 0, !.failovers = 0]
    /\ pc' = "attempt"
    /\ UNCHANGED <<resolverVars, loopVars>>

\* A context overflow passes execute_with_retry by; the turn compacts its
\* messages and calls again, a bounded number of times.
CallOverflows ==
    /\ pc = "calling"
    /\ IF turn.rounds >= MaxRounds THEN EndTurn
       ELSE /\ turn' = [turn EXCEPT !.retry = 0, !.failovers = 0, !.rounds = @ + 1]
            /\ pc' = "attempt"
    /\ UNCHANGED <<resolverVars, loopVars>>

\* Mutation: one retry too many.
CallFailsOneMore(kind) ==
    /\ pc = "calling"
    /\ kind # "contextOverflow"
    /\ IF ~turn.stream /\ Retryable(kind) /\ turn.retry <= MaxRetries
       THEN pc' = "backoff" ELSE pc' = "failed"
    /\ UNCHANGED <<resolverVars, loopVars, turn>>

\* Any other error: the same provider again after a pause, or RecordFailure.
\* The streaming loop does not retry, and fails over only what it can charge.
CallFails(kind) ==
    LET again == ~turn.stream /\ Retryable(kind) /\ turn.retry < MaxRetries IN
    /\ pc = "calling"
    /\ kind # "contextOverflow"
    /\ \/ again /\ pc' = "backoff" /\ UNCHANGED <<turn, cooldown>>
       \/ /\ ~again
          /\ cooldown' = IF last # None /\ Cools(kind)
                         THEN [cooldown EXCEPT ![last] = "cooling"] ELSE cooldown
          /\ IF turn.stream /\ last = None THEN EndTurn
             ELSE pc' = "failed" /\ UNCHANGED turn
    /\ UNCHANGED <<chain, profiles, pin, loopVars>>

\* interruptible_sleep.
Wake ==
    /\ pc = "backoff"
    /\ IF stop THEN EndTurn
       ELSE turn' = [turn EXCEPT !.retry = @ + 1] /\ pc' = "attempt"
    /\ UNCHANGED <<resolverVars, loopVars>>

\* Failover puts the turn's original model back before it resolves again.
FailOver ==
    /\ pc = "failed"
    /\ \/ stop /\ EndTurn /\ UNCHANGED model
       \/ ~stop /\ model' = turn.original /\ StartResolve(turn)
    /\ UNCHANGED <<resolverVars, last, stop>>

-----------------------------------------------------------------------------
(* Other threads, and time *)

Stop ==
    /\ stop' = TRUE
    /\ UNCHANGED <<resolverVars, model, last, pc, turn>>

\* SetModel, and SetConfig as far as it concerns the model.
SetModel(m) ==
    /\ model' = m
    /\ turn' = IF turn # None /\ turn.name # None THEN [turn EXCEPT !.name = m] ELSE turn
    /\ UNCHANGED <<resolverVars, last, stop, pc>>

\* Resolve holds mu_ over its walk, but for the attempts it makes.
Attempted == \E i \in 1 .. turn.index - 1 : chain[i] # turn.wanted
MuFree == pc # "selfLocked" /\ (pc = "walk" /\ turn.index > 1 => Attempted)

\* A reload that lands in such an attempt leaves the walk with iterators into
\* the old chain: nothing is known from there on.
SetFallbackChain(c) ==
    /\ MuFree
    /\ chain' = c
    /\ pc' = IF pc = "walk" /\ Attempted THEN "undefined" ELSE pc
    /\ UNCHANGED <<profiles, pin, cooldown, loopVars, turn>>

SetProfiles(ps) ==
    /\ MuFree
    /\ profiles' = ps
    /\ UNCHANGED <<chain, pin, cooldown, loopVars, pc, turn>>

ClearSessionPin ==
    /\ MuFree
    /\ pin' = None
    /\ UNCHANGED <<chain, profiles, cooldown, loopVars, pc, turn>>

ResetCooldowns ==
    /\ cooldown' = [k \in Key |-> "none"]
    /\ UNCHANGED <<chain, profiles, pin, loopVars, pc, turn>>

CooldownEnds(k) ==
    /\ IsCooling(k)
    /\ cooldown' = [cooldown EXCEPT ![k] = "none"]
    /\ UNCHANGED <<chain, profiles, pin, loopVars, pc, turn>>

\* kProbeInterval has passed; it matters to the key a probe would use.
ProbeFallsDue(k) ==
    /\ cooldown[k] = "cooling"
    /\ k = ProbeKey(k[1])
    /\ cooldown' = [cooldown EXCEPT ![k] = "probeDue"]
    /\ UNCHANGED <<chain, profiles, pin, loopVars, pc, turn>>

-----------------------------------------------------------------------------
TurnStep ==
    \/ ResolvePrimary \/ WalkChain \/ LeaveWalk \/ FallThrough
    \/ BuildRequest \/ SwitchProvider \/ Attempt
    \/ \E final \in BOOLEAN : CallSucceeds(final)
    \/ CallOverflows
    \/ \E kind \in Kind : CallFails(kind)
    \/ Wake \/ FailOver

Environment ==
    \/ Stop
    \/ \E m \in Selectable : SetModel(m)
    \/ \E c \in Chains : SetFallbackChain(c)
    \/ \E ps \in ProfileSets : SetProfiles(ps)
    \/ ClearSessionPin
    \/ ResetCooldowns
    \/ \E k \in Key : CooldownEnds(k) \/ ProbeFallsDue(k)

Next ==
    \/ \E stream \in BOOLEAN : BeginTurn(stream)
    \/ TurnStep
    \/ Environment

Spec == Init /\ [][Next]_vars

\* The turn's thread runs: provider calls time out and pauses end.
FairSpec == Spec /\ WF_vars(TurnStep)

-----------------------------------------------------------------------------
(* Properties *)

PC == {"idle", "primary", "walk", "selfLocked", "undefined", "exhausted", "resolved", "attempt",
       "calling", "backoff", "failed"}

\* Every variable keeps its type, and a turn's counters their bounds.
TypeOK ==
    /\ chain \in Chains /\ profiles \in ProfileSets
    /\ pin \in Key \cup {None}
    /\ cooldown \in [Key -> {"none", "cooling", "probeDue"}]
    /\ model \in Model
    /\ last \in Key \cup {None}
    /\ stop \in BOOLEAN
    /\ pc \in PC
    /\ (turn = None) = (pc = "idle")
    /\ turn # None => turn \in TurnState

\* The success or failure of a call is charged to the profile whose key the
\* call used: last_provider_id_ and last_profile_id_ name the provider object
\* the turn holds, through every retry, switch and fall-through.
Charged == IF last = None THEN Injected ELSE Object(last)
ChargedToCaller ==
    pc \in {"attempt", "calling", "backoff", "failed"} => turn.provider = Charged

\* What was resolved is charged before the turn takes it over.
ResolvedIsCharged == pc = "resolved" => turn.next = Charged

\* Once a call was made, its counters leave room for the switch or the retry
\* that may follow it.
RoomLeft ==
    /\ \/ pc \in {"calling", "backoff", "failed"}
       \/ pc \in {"primary", "walk", "exhausted", "resolved"} /\ turn.provider # None
       => turn.failovers < MaxFailovers /\ turn.rounds < MaxRounds
    /\ pc = "backoff" => turn.retry < MaxRetries

\* Resolve knows what it looks for, and the turn the model to go back to.
ModelKnown ==
    /\ pc \in {"primary", "walk"} => turn.wanted \in Model
    /\ turn # None /\ turn.provider # None => turn.original \in Model

\* The inductive invariant.
IInv == TypeOK /\ ChargedToCaller /\ ResolvedIsCharged /\ RoomLeft /\ ModelKnown

\* The resolver hands out a key whose cooldown runs only as a probe, once the
\* probe interval has passed since the key's last failure or probe.  (What the
\* loop falls through to afterwards is not the resolver's answer.)
ResolverRespectsCooldown ==
    [][ ResolvePrimary /\ pc' = "resolved" => cooldown[last'] # "cooling" ]_vars

\* After Stop, a running turn makes no provider call it had not begun.
StopHonoured ==
    [][ stop /\ pc # "calling" => pc' # "calling" ]_vars

\* No call is made that the operator's Stop or the profile's cooldown forbids.
\* (core/agent_loop.cpp, the loops over the attempts; providers/
\* failover_resolver.cpp, try_resolve_model.)
CallsAllowed == StopHonoured /\ ResolverRespectsCooldown

\* The turn's thread is never left waiting for a mutex it holds itself.
\* (tests/test_failover.cpp expects Resolve to return the fallback.)
FallbackReturned == pc # "selfLocked"

\* Every turn ends, however its calls fail, overflow and switch, unless the
\* resolver is stuck on its own mutex or has lost its iterators.
TurnEnds == pc # "idle" ~> pc \in {"idle", "selfLocked", "undefined"}
=============================================================================
