--------------------------- MODULE FailoverProofs ---------------------------
(***************************************************************************)
(* Proofs about Failover for every set of providers, models, profiles and  *)
(* fallback chains, and for every bound: a call is charged to the key it   *)
(* used, the resolver respects cooldowns, and a stopped turn calls no more.*)
(***************************************************************************)
EXTENDS Failover, TLAPS, WellFoundedInduction

-----------------------------------------------------------------------------
(* The resolver's answers *)

\* Among the healthy profiles there is a first one.
LEMMA Least ==
    ASSUME NEW T \in SUBSET Nat, T # {}
    PROVE  \E i \in T : \A j \in T : i <= j
<1> DEFINE R == OpToRel(<, Nat)
<1>1. IsWellFoundedOn(R, Nat)
  BY NatLessThanWellFounded
<1>2. \A i, j \in Nat : i < j <=> <<i, j>> \in R
  BY DEF OpToRel
<1> HIDE DEF R
<1>3. PICK i \in T : \A j \in T : ~(<<j, i>> \in R)
  BY <1>1, WFMin
<1>4. \A j \in T : i <= j
  <2> SUFFICES ASSUME NEW j \in T PROVE i <= j
    OBVIOUS
  <2>1. i \in Nat /\ j \in Nat
    OBVIOUS
  <2>2. ~(j < i)
    BY <1>2, <1>3, <2>1
  <2>3. QED
    BY <2>1, <2>2
<1>5. QED
  BY <1>4

\* The types that a step of the resolver relies on.
ResolverTyped ==
    /\ chain \in Chains /\ profiles \in ProfileSets
    /\ pin \in Key \cup {None}
    /\ cooldown \in [Key -> {"none", "cooling", "probeDue"}]

LEMMA KeyFacts ==
    /\ None \notin Key
    /\ \A p \in Provider : <<p, None>> \in Key
    /\ \A p \in Provider, f \in Profile : <<p, f>> \in Key
    /\ Injected \in Key
  BY NoneAssumption, ModelAssumption DEF Key, Injected

\* The profile order of a provider, and the key a probe would use.
LEMMA ProfileFacts ==
    ASSUME ResolverTyped, NEW p \in Provider
    PROVE  /\ profiles[p] \in Seq(Profile)
           /\ \A i \in DOMAIN profiles[p] : <<p, profiles[p][i]>> \in Key
           /\ ProbeKey(p) \in Key
<1>1. profiles[p] \in Seq(Profile)
  BY ConfigAssumption DEF ResolverTyped
<1>2. \A i \in DOMAIN profiles[p] : profiles[p][i] \in Profile
  BY <1>1
<1>3. profiles[p] # <<>> => 1 \in DOMAIN profiles[p]
  BY <1>1
<1>4. QED
  BY <1>1, <1>2, <1>3, KeyFacts DEF ProbeKey

\* The first healthy profile is healthy.
LEMMA FirstIsHealthy ==
    ASSUME ResolverTyped, NEW p \in Provider, Healthy(p) # {}
    PROVE  FirstHealthy(p) \in Key /\ ~IsCooling(FirstHealthy(p))
<1> DEFINE H == Healthy(p)
           f == CHOOSE i \in H : \A j \in H : i <= j
<1>1. H \in SUBSET Nat /\ H \subseteq DOMAIN profiles[p] /\ H # {}
  BY ProfileFacts DEF Healthy
<1>2. \A i \in H : ~IsCooling(<<p, profiles[p][i]>>)
  BY DEF Healthy
<1>3. FirstHealthy(p) = <<p, profiles[p][f]>>
  BY DEF FirstHealthy
<1> HIDE DEF H
<1>4. \E i \in H : \A j \in H : i <= j
  BY <1>1, Least
<1>5. f \in H
  BY <1>4
<1> HIDE DEF f
<1>6. QED
  BY <1>1, <1>2, <1>3, <1>5, ProfileFacts

\* What the resolver offers is a key, and not one whose cooldown runs.
LEMMA CandidateFacts ==
    ASSUME ResolverTyped, NEW p \in Provider
    PROVE  /\ Candidate(p) \in Key \cup {None}
           /\ Candidate(p) # None => cooldown[Candidate(p)] # "cooling"
<1>1. CASE p \notin Registered
  BY <1>1 DEF Candidate
<1>2. CASE p \in Registered /\ PinUsable(p)
  <2>1. Candidate(p) = pin
    BY <1>2 DEF Candidate
  <2>2. pin \in Key /\ ~IsCooling(pin)
    BY <1>2 DEF PinUsable, PinFor, ResolverTyped
  <2>3. QED
    BY <2>1, <2>2 DEF IsCooling
<1>3. CASE p \in Registered /\ ~PinUsable(p) /\ profiles[p] # <<>> /\ Healthy(p) # {}
  <2>1. Candidate(p) = FirstHealthy(p)
    BY <1>3 DEF Candidate
  <2>2. QED
    BY <1>3, <2>1, FirstIsHealthy DEF IsCooling
<1>4. CASE p \in Registered /\ ~PinUsable(p) /\ ~(profiles[p] # <<>> /\ Healthy(p) # {})
  <2>1. Candidate(p) = IF cooldown[ProbeKey(p)] = "cooling" THEN None ELSE ProbeKey(p)
    BY <1>4 DEF Candidate
  <2>2. QED
    BY <2>1, ProfileFacts
<1>5. QED
  BY <1>1, <1>2, <1>3, <1>4

\* An attempt to resolve keeps the types.
LEMMA TryKeeps ==
    ASSUME ResolverTyped, NEW p \in Provider, TryResolve(p), UNCHANGED <<chain, profiles>>
    PROVE  ResolverTyped'
<1>1. pin' \in Key \cup {None}
  BY DEF ResolverTyped, TryResolve, PinAfter
<1>2. cooldown' \in [Key -> {"none", "cooling", "probeDue"}]
  BY ProfileFacts DEF ResolverTyped, TryResolve
<1>3. QED
  BY <1>1, <1>2 DEF ResolverTyped

-----------------------------------------------------------------------------
(* The invariant *)

LoopTyped == model \in Model /\ last \in Key \cup {None} /\ stop \in BOOLEAN

TurnInv ==
    /\ pc \in PC
    /\ (turn = None) = (pc = "idle")
    /\ turn # None => turn \in TurnState
    /\ ChargedToCaller /\ ResolvedIsCharged /\ RoomLeft /\ ModelKnown

LEMMA Parts ==
    /\ IInv <=> ResolverTyped /\ LoopTyped /\ TurnInv
    /\ IInv' <=> ResolverTyped' /\ LoopTyped' /\ TurnInv'
  BY DEF IInv, TypeOK, ResolverTyped, LoopTyped, TurnInv

LEMMA ResolverSame == ASSUME ResolverTyped, UNCHANGED resolverVars PROVE ResolverTyped'
  BY DEF ResolverTyped, resolverVars

LEMMA LoopSame == ASSUME LoopTyped, UNCHANGED loopVars PROVE LoopTyped'
  BY DEF LoopTyped, loopVars

LEMMA TurnSame == ASSUME TurnInv, UNCHANGED <<last, pc, turn>> PROVE TurnInv'
  BY DEF TurnInv, ChargedToCaller, ResolvedIsCharged, RoomLeft, ModelKnown, Charged

\* Between turns nothing is asked.
LEMMA TurnOver == ASSUME EndTurn PROVE TurnInv'
  BY DEF EndTurn, TurnInv, ChargedToCaller, ResolvedIsCharged, RoomLeft, ModelKnown, PC

\* What holds of a turn that is not over.
LEMMA Running ==
    ASSUME IInv, pc # "idle"
    PROVE  /\ turn \in TurnState /\ turn # None
           /\ ResolverTyped /\ LoopTyped /\ TurnInv
<1>1. ResolverTyped /\ LoopTyped /\ TurnInv
  BY Parts
<1>2. turn # None
  BY <1>1 DEF TurnInv
<1>3. turn \in TurnState
  BY <1>1, <1>2 DEF TurnInv
<1>4. QED
  BY <1>1, <1>2, <1>3

LEMMA Bounds == MaxRetries \in Nat /\ MaxFailovers \in Nat /\ MaxRounds \in Nat /\ MaxFailovers > 0
  BY BoundAssumption

LEMMA Initially == Init => IInv
<1> SUFFICES ASSUME Init PROVE IInv
  OBVIOUS
<1>1. ResolverTyped
  BY DEF Init, ResolverTyped
<1>2. LoopTyped
  BY ModelAssumption DEF Init, LoopTyped
<1>3. TurnInv
  BY DEF Init, TurnInv, ChargedToCaller, ResolvedIsCharged, RoomLeft, ModelKnown, PC
<1>4. QED
  BY <1>1, <1>2, <1>3, Parts

\* A resolve begins: what the turn holds already stays.
LEMMA ResolveStarts ==
    ASSUME LoopTyped', NEW t \in TurnState, StartResolve(t),
           t.provider # None =>
              t.failovers < MaxFailovers /\ t.rounds < MaxRounds /\ t.original \in Model
    PROVE  TurnInv'
<1> DEFINE m == model'
           u == [t EXCEPT !.wanted = m, !.index = 1, !.name = m]
<1>1. m \in Model
  BY DEF LoopTyped
<1>2. turn' = u /\ pc' = "primary"
  BY DEF StartResolve
<1> HIDE DEF m
<1>3. /\ u \in TurnState /\ u.wanted = m
      /\ u.provider = t.provider /\ u.failovers = t.failovers /\ u.rounds = t.rounds
      /\ u.original = t.original
  <2>1. 1 \in Nat \ {0}
    OBVIOUS
  <2>2. QED
    BY <1>1, <2>1 DEF TurnState
<1> HIDE DEF u
<1>4. u # None
  BY <1>3, NoneAssumption
<1>5. QED
  BY <1>1, <1>2, <1>3, <1>4 DEF TurnInv, ChargedToCaller, ResolvedIsCharged, RoomLeft, ModelKnown, PC

LEMMA BeginTurnKeeps ==
    ASSUME IInv, NEW stream \in BOOLEAN, BeginTurn(stream)
    PROVE  IInv'
<1> DEFINE t == [stream |-> stream, wanted |-> None, index |-> 1, next |-> None,
                 name |-> None, provider |-> None, request |-> None, original |-> None,
                 retry |-> 0, failovers |-> 0, rounds |-> 0]
<1>1. t \in TurnState /\ t.provider = None
  BY Bounds DEF TurnState
<1>2. StartResolve(t)
  BY DEF BeginTurn
<1> HIDE DEF t
<1>3. LoopTyped'
  BY Parts DEF BeginTurn, LoopTyped
<1>4. TurnInv'
  BY <1>1, <1>2, <1>3, ResolveStarts
<1>5. QED
  BY <1>3, <1>4, Parts, ResolverSame DEF BeginTurn

\* The turn takes a key that was resolved, and charges it from then on.
LEMMA Adopts ==
    ASSUME IInv, pc \in {"primary", "exhausted"}, NEW key \in Key, NEW m \in Model, Adopt(key, m),
           UNCHANGED <<model, stop>>
    PROVE  LoopTyped' /\ TurnInv'
<1> DEFINE u == [turn EXCEPT !.next = key, !.name = m]
<1>1. turn \in TurnState /\ LoopTyped /\ TurnInv
  BY Running
<1>2. turn' = u /\ last' = key /\ pc' = "resolved"
  BY DEF Adopt, Object
<1>3. /\ u \in TurnState /\ u.next = key
      /\ u.provider = turn.provider /\ u.failovers = turn.failovers /\ u.rounds = turn.rounds
      /\ u.original = turn.original
  BY <1>1 DEF TurnState
<1> HIDE DEF u
<1>4. u # None /\ key # None
  BY <1>3, NoneAssumption
<1>5. LoopTyped'
  BY <1>1, <1>2 DEF LoopTyped
<1>6. RoomLeft' /\ ModelKnown'
  <2>1. turn # None
    BY <1>1, NoneAssumption
  <2>2. QED
    BY <1>1, <1>2, <1>3, <2>1 DEF TurnInv, RoomLeft, ModelKnown
<1>7. QED
  BY <1>2, <1>3, <1>4, <1>5, <1>6
     DEF TurnInv, ChargedToCaller, ResolvedIsCharged, PC, Charged, Object

LEMMA ResolvePrimaryKeeps ==
    ASSUME IInv, ResolvePrimary
    PROVE  IInv'
<1> DEFINE p == ModelOf(turn.wanted)
<1>1. /\ pc = "primary" /\ turn \in TurnState /\ turn.wanted \in Model
      /\ ResolverTyped /\ LoopTyped /\ TurnInv
  <2>1. pc = "primary"
    BY DEF ResolvePrimary
  <2>2. QED
    BY <2>1, Running DEF TurnInv, ModelKnown
<1>2. p \in Provider
  BY <1>1, ModelAssumption
<1>3. ResolverTyped'
  BY <1>1, <1>2, TryKeeps DEF ResolvePrimary
<1>4. CASE Candidate(p) # None
  <2>1. Candidate(p) \in Key
    BY <1>1, <1>2, <1>4, CandidateFacts
  <2>2. Adopt(Candidate(p), turn.wanted) /\ UNCHANGED <<model, stop>>
    BY <1>4 DEF ResolvePrimary
  <2>3. QED
    BY <1>1, <1>3, <2>1, <2>2, Adopts, Parts
<1>5. CASE Candidate(p) = None
  <2>1. pc' = "walk" /\ UNCHANGED <<last, turn, model, stop>>
    BY <1>5 DEF ResolvePrimary
  <2>2. LoopTyped'
    BY <1>1, <2>1 DEF LoopTyped
  <2>3. TurnInv'
    BY <1>1, <2>1 DEF TurnInv, ChargedToCaller, ResolvedIsCharged, RoomLeft, ModelKnown, PC
  <2>4. QED
    BY <1>3, <2>2, <2>3, Parts
<1>6. QED
  BY <1>4, <1>5

LEMMA WalkChainKeeps ==
    ASSUME IInv, WalkChain
    PROVE  IInv'
<1> DEFINE m == chain[turn.index]
           u == [turn EXCEPT !.index = @ + 1]
<1>1. pc = "walk" /\ turn.index <= Len(chain) /\ UNCHANGED <<chain, profiles, loopVars>>
  BY DEF WalkChain
<1>2. turn \in TurnState /\ turn # None /\ ResolverTyped /\ LoopTyped /\ TurnInv
  BY <1>1, Running
<1>3. m \in Model
  <2>1. chain \in Seq(Model)
    BY <1>2, ConfigAssumption DEF ResolverTyped
  <2>2. turn.index \in Nat \ {0}
    BY <1>2 DEF TurnState
  <2>3. QED
    BY <1>1, <2>1, <2>2
<1>4. ModelOf(m) \in Provider
  BY <1>3, ModelAssumption
<1>5. ResolverTyped'
  <2>1. CASE m = turn.wanted
    BY <1>1, <1>2, <2>1 DEF WalkChain, ResolverTyped
  <2>2. CASE m # turn.wanted
    BY <1>1, <1>2, <1>4, <2>2, TryKeeps DEF WalkChain
  <2>3. QED
    BY <2>1, <2>2
<1>6. LoopTyped'
  BY <1>1, <1>2, LoopSame
<1>7. /\ u \in TurnState /\ u.wanted = turn.wanted
      /\ u.provider = turn.provider /\ u.failovers = turn.failovers /\ u.rounds = turn.rounds
      /\ u.original = turn.original
  BY <1>2 DEF TurnState
<1>8. \/ turn' = u /\ UNCHANGED pc
      \/ pc' = "selfLocked" /\ UNCHANGED turn
  BY Zenon DEF WalkChain
<1> HIDE DEF u
<1>9. u # None
  BY <1>7, NoneAssumption
<1>10. TurnInv'
  <2>1. CASE pc' = "selfLocked" /\ UNCHANGED turn
    BY <1>1, <1>2, <2>1 DEF TurnInv, ChargedToCaller, ResolvedIsCharged, RoomLeft, ModelKnown, PC
  <2>2. CASE turn' = u /\ UNCHANGED pc
    BY <1>1, <1>2, <1>7, <1>9, <2>2
       DEF TurnInv, ChargedToCaller, ResolvedIsCharged, RoomLeft, ModelKnown, PC
  <2>3. QED
    BY <1>8, <2>1, <2>2
<1>11. QED
  BY <1>5, <1>6, <1>10, Parts

LEMMA LeaveWalkKeeps ==
    ASSUME IInv, LeaveWalk
    PROVE  IInv'
<1>1. pc = "walk" /\ pc' = "exhausted" /\ UNCHANGED <<resolverVars, loopVars, turn>>
  BY DEF LeaveWalk
<1>2. ResolverTyped /\ LoopTyped /\ TurnInv
  BY Parts
<1>3. TurnInv'
  BY <1>1, <1>2 DEF TurnInv, ChargedToCaller, ResolvedIsCharged, RoomLeft, ModelKnown, PC
<1>4. QED
  BY <1>1, <1>2, <1>3, Parts, ResolverSame, LoopSame

LEMMA FallThroughKeeps ==
    ASSUME IInv, FallThrough
    PROVE  IInv'
<1> DEFINE p == ModelOf(model)
           u == [turn EXCEPT !.next = Injected]
<1>1. pc = "exhausted" /\ UNCHANGED <<resolverVars, model, stop>>
  BY DEF FallThrough
<1>2. turn \in TurnState /\ ResolverTyped /\ LoopTyped /\ TurnInv
  BY <1>1, Running
<1>3. ResolverTyped'
  BY <1>1, <1>2, ResolverSame
<1>4. CASE p \in Registered
  <2>1. model \in Model /\ <<p, None>> \in Key
    BY <1>2, ModelAssumption, KeyFacts DEF LoopTyped
  <2>2. Adopt(<<p, None>>, model)
    BY <1>4 DEF FallThrough
  <2>3. QED
    BY <1>1, <1>3, <2>1, <2>2, Adopts, Parts
<1>5. CASE p \notin Registered
  <2>1. pc' = "resolved" /\ last' = None /\ turn' = u
    BY <1>5 DEF FallThrough
  <2>2. /\ u \in TurnState /\ u.next = Injected
        /\ u.provider = turn.provider /\ u.failovers = turn.failovers /\ u.rounds = turn.rounds
      /\ u.original = turn.original
    BY <1>2, KeyFacts DEF TurnState
  <2> HIDE DEF u
  <2>3. u # None
    BY <2>2, NoneAssumption
  <2>4. LoopTyped'
    BY <1>1, <1>2, <2>1 DEF LoopTyped
  <2>5. RoomLeft' /\ ModelKnown'
    <3>1. turn # None
      BY <1>2, NoneAssumption
    <3>2. QED
      BY <1>1, <1>2, <2>1, <2>2, <3>1 DEF TurnInv, RoomLeft, ModelKnown
  <2>6. TurnInv'
    BY <2>1, <2>2, <2>3, <2>5
       DEF TurnInv, ChargedToCaller, ResolvedIsCharged, PC, Charged, Injected
  <2>7. QED
    BY <1>3, <2>4, <2>6, Parts
<1>6. QED
  BY <1>4, <1>5

\* What the turn takes over is what it will charge.
LEMMA AdoptedFacts ==
    ASSUME turn \in TurnState
    PROVE  /\ Adopted \in TurnState
           /\ Adopted.provider = turn.next /\ Adopted.original = turn.original
           /\ Adopted.failovers = turn.failovers /\ Adopted.rounds = turn.rounds
           /\ Adopted.stream = turn.stream
<1>1. 1 \in Nat \ {0}
  OBVIOUS
<1>2. QED
  BY <1>1 DEF Adopted, TurnState

\* It then attempts a call, of a key that is charged, with a model to go back to.
LEMMA Attempts ==
    ASSUME TurnInv, LoopTyped, UNCHANGED last, NEW u \in TurnState, turn' = u, pc' = "attempt",
           u.provider = Charged, u.original \in Model
    PROVE  TurnInv'
<1>1. u # None
  BY NoneAssumption
<1>2. QED
  BY <1>1 DEF TurnInv, ChargedToCaller, ResolvedIsCharged, RoomLeft, ModelKnown, PC, Charged

LEMMA BuildRequestKeeps ==
    ASSUME IInv, BuildRequest
    PROVE  IInv'
<1> DEFINE u == [Adopted EXCEPT !.original = model]
<1>1. /\ pc = "resolved" /\ pc' = "attempt" /\ turn' = u
      /\ UNCHANGED <<resolverVars, loopVars>>
  BY DEF BuildRequest
<1>2. turn \in TurnState /\ ResolverTyped /\ LoopTyped /\ TurnInv
  BY <1>1, Running
<1>3. u \in TurnState /\ u.provider = turn.next /\ u.original = model
  <2>1. model \in Model
    BY <1>2 DEF LoopTyped
  <2>2. QED
    BY <1>2, <2>1, AdoptedFacts DEF TurnState
<1> HIDE DEF u
<1>4. u.provider = Charged /\ u.original \in Model
  BY <1>1, <1>2, <1>3 DEF TurnInv, ResolvedIsCharged, LoopTyped
<1>5. TurnInv'
  BY <1>1, <1>2, <1>3, <1>4, Attempts DEF loopVars
<1>6. QED
  BY <1>1, <1>2, <1>5, Parts, ResolverSame, LoopSame

LEMMA SwitchProviderKeeps ==
    ASSUME IInv, SwitchProvider
    PROVE  IInv'
<1>1. pc = "resolved" /\ turn.provider # None /\ UNCHANGED <<resolverVars, loopVars>>
  BY DEF SwitchProvider
<1>2. turn \in TurnState /\ turn # None /\ ResolverTyped /\ LoopTyped /\ TurnInv
  BY <1>1, Running
<1>3. CASE EndTurn
  BY <1>1, <1>2, <1>3, TurnOver, Parts, ResolverSame, LoopSame
<1>4. CASE ~EndTurn
  <2> DEFINE f == IF turn.stream THEN turn.failovers ELSE turn.failovers + 1
             n == IF turn.stream THEN turn.rounds + 1 ELSE turn.rounds
             u == [Adopted EXCEPT !.retry = 0, !.failovers = f, !.rounds = n]
  <2>1. pc' = "attempt" /\ turn' = [Adopted EXCEPT !.retry = 0,
                                  !.failovers = IF turn.stream THEN @ ELSE @ + 1,
                                  !.rounds = IF turn.stream THEN @ + 1 ELSE @]
    BY <1>4 DEF SwitchProvider
  <2>2. /\ Adopted \in TurnState /\ Adopted.failovers = turn.failovers /\ Adopted.rounds = turn.rounds
        /\ Adopted.provider = turn.next /\ Adopted.original = turn.original
    BY <1>2, AdoptedFacts
  <2>3. turn' = u
    BY <2>1, <2>2 DEF TurnState
  <2>4. turn.failovers < MaxFailovers /\ turn.rounds < MaxRounds
    BY <1>1, <1>2 DEF TurnInv, RoomLeft
  <2>5. f \in 0 .. MaxFailovers /\ n \in 0 .. MaxRounds /\ 0 \in 0 .. MaxRetries
    BY <1>2, <2>4, Bounds DEF TurnState
  <2> HIDE DEF f, n
  <2>6. u \in TurnState /\ u.provider = turn.next /\ u.original = turn.original
    BY <2>2, <2>5 DEF TurnState
  <2> HIDE DEF u
  <2>7. u.provider = Charged /\ u.original \in Model
    BY <1>1, <1>2, <2>6 DEF TurnInv, ResolvedIsCharged, ModelKnown
  <2>8. TurnInv'
    BY <1>1, <1>2, <2>1, <2>3, <2>6, <2>7, Attempts DEF loopVars
  <2>9. QED
    BY <1>1, <1>2, <2>8, Parts, ResolverSame, LoopSame
<1>5. QED
  BY <1>3, <1>4

LEMMA AttemptKeeps ==
    ASSUME IInv, Attempt
    PROVE  IInv'
<1>1. pc = "attempt" /\ UNCHANGED <<resolverVars, loopVars>>
  BY DEF Attempt
<1>2. turn \in TurnState /\ turn # None /\ ResolverTyped /\ LoopTyped /\ TurnInv
  BY <1>1, Running
<1>3. CASE stop \/ Exhausted
  BY <1>1, <1>2, <1>3, TurnOver, Parts, ResolverSame, LoopSame DEF Attempt
<1>4. CASE ~(stop \/ Exhausted)
  <2>1. pc' = "calling" /\ UNCHANGED turn
    BY <1>4 DEF Attempt
  <2>2. turn.failovers < MaxFailovers /\ turn.rounds < MaxRounds
    BY <1>2, <1>4, Bounds DEF Exhausted, TurnState
  <2>3. TurnInv'
    BY <1>1, <1>2, <2>1, <2>2
       DEF TurnInv, ChargedToCaller, ResolvedIsCharged, RoomLeft, ModelKnown, PC, Charged, loopVars
  <2>4. QED
    BY <1>1, <1>2, <2>3, Parts, ResolverSame, LoopSame
<1>5. QED
  BY <1>3, <1>4

\* Where a call is made, or has been, the turn holds the charged key and a model
\* to go back to.
LEMMA Calling ==
    ASSUME IInv, pc \in {"calling", "backoff", "failed"}
    PROVE  /\ turn \in TurnState /\ turn # None
           /\ turn.provider = Charged /\ turn.original \in Model
           /\ turn.failovers < MaxFailovers /\ turn.rounds < MaxRounds
           /\ ResolverTyped /\ LoopTyped /\ TurnInv
<1>1. turn \in TurnState /\ turn # None /\ ResolverTyped /\ LoopTyped /\ TurnInv
  BY Running
<1>2. turn.provider = Charged /\ turn.failovers < MaxFailovers /\ turn.rounds < MaxRounds
  BY <1>1 DEF TurnInv, ChargedToCaller, RoomLeft
<1>3. Charged # None
  BY <1>1, KeyFacts DEF Charged, Object, LoopTyped
<1>4. QED
  BY <1>1, <1>2, <1>3 DEF TurnInv, ModelKnown

\* The turn goes round again.
LEMMA GoesRound ==
    ASSUME IInv, pc = "calling", UNCHANGED last, pc' = "attempt",
           turn' = [turn EXCEPT !.retry = 0, !.failovers = 0, !.rounds = @ + 1]
    PROVE  TurnInv'
<1> DEFINE n == turn.rounds + 1
           u == [turn EXCEPT !.retry = 0, !.failovers = 0, !.rounds = n]
<1>1. /\ turn \in TurnState /\ turn.provider = Charged /\ turn.original \in Model
      /\ turn.rounds < MaxRounds /\ LoopTyped /\ TurnInv
  BY Calling
<1>2. turn' = u
  BY <1>1 DEF TurnState
<1>3. n \in 0 .. MaxRounds /\ 0 \in 0 .. MaxRetries /\ 0 \in 0 .. MaxFailovers
  BY <1>1, Bounds DEF TurnState
<1> HIDE DEF n
<1>4. u \in TurnState /\ u.provider = turn.provider /\ u.original = turn.original
  BY <1>1, <1>3 DEF TurnState
<1> HIDE DEF u
<1>5. QED
  BY <1>1, <1>2, <1>4, Attempts

LEMMA CallSucceedsKeeps ==
    ASSUME IInv, NEW final \in BOOLEAN, CallSucceeds(final)
    PROVE  IInv'
<1>1. pc = "calling" /\ UNCHANGED <<chain, profiles, loopVars>>
  BY DEF CallSucceeds
<1>2. ResolverTyped /\ LoopTyped
  BY <1>1, Calling
<1>3. ResolverTyped'
  BY <1>1, <1>2 DEF CallSucceeds, ResolverTyped, LoopTyped
<1>4. TurnInv'
  BY <1>1, TurnOver, GoesRound DEF CallSucceeds, loopVars
<1>5. QED
  BY <1>1, <1>2, <1>3, <1>4, Parts, LoopSame

LEMMA CallOverflowsKeeps ==
    ASSUME IInv, CallOverflows
    PROVE  IInv'
<1>1. pc = "calling" /\ UNCHANGED <<resolverVars, loopVars>>
  BY DEF CallOverflows
<1>2. ResolverTyped /\ LoopTyped
  BY <1>1, Calling
<1>3. TurnInv'
  BY <1>1, TurnOver, GoesRound DEF CallOverflows, loopVars
<1>4. QED
  BY <1>1, <1>2, <1>3, Parts, ResolverSame, LoopSame

LEMMA CallFailsKeeps ==
    ASSUME IInv, NEW kind \in Kind, CallFails(kind)
    PROVE  IInv'
<1>1. pc = "calling" /\ UNCHANGED <<chain, profiles, pin, loopVars>>
  BY DEF CallFails
<1>2. ResolverTyped /\ LoopTyped /\ TurnInv
  BY <1>1, Calling
<1>3. ResolverTyped'
  BY <1>1, <1>2 DEF CallFails, ResolverTyped, LoopTyped
<1>4. \/ pc' = "backoff" /\ UNCHANGED turn /\ turn.retry < MaxRetries
      \/ EndTurn
      \/ pc' = "failed" /\ UNCHANGED turn
  BY DEF CallFails
<1>5. TurnInv'
  <2>1. CASE EndTurn
    BY <2>1, TurnOver
  <2>2. CASE pc' \in {"backoff", "failed"} /\ UNCHANGED turn /\ (pc' = "backoff" => turn.retry < MaxRetries)
    BY <1>1, <1>2, <2>2
       DEF TurnInv, ChargedToCaller, ResolvedIsCharged, RoomLeft, ModelKnown, PC, Charged, loopVars
  <2>3. QED
    BY <1>4, <2>1, <2>2
<1>6. QED
  BY <1>1, <1>2, <1>3, <1>5, Parts, LoopSame

LEMMA WakeKeeps ==
    ASSUME IInv, Wake
    PROVE  IInv'
<1>1. pc = "backoff" /\ UNCHANGED <<resolverVars, loopVars>>
  BY DEF Wake
<1>2. /\ turn \in TurnState /\ turn.provider = Charged /\ turn.original \in Model
      /\ ResolverTyped /\ LoopTyped /\ TurnInv
  BY <1>1, Calling
<1>3. CASE stop
  BY <1>1, <1>2, <1>3, TurnOver, Parts, ResolverSame, LoopSame DEF Wake
<1>4. CASE ~stop
  <2> DEFINE n == turn.retry + 1
             u == [turn EXCEPT !.retry = n]
  <2>1. turn' = u /\ pc' = "attempt"
    BY <1>2, <1>4 DEF Wake, TurnState
  <2>2. n \in 0 .. MaxRetries
    BY <1>1, <1>2, Bounds DEF TurnInv, RoomLeft, TurnState
  <2> HIDE DEF n
  <2>3. u \in TurnState /\ u.provider = turn.provider /\ u.original = turn.original
    BY <1>2, <2>2 DEF TurnState
  <2> HIDE DEF u
  <2>4. TurnInv'
    BY <1>1, <1>2, <2>1, <2>3, Attempts DEF loopVars
  <2>5. QED
    BY <1>1, <1>2, <2>4, Parts, ResolverSame, LoopSame
<1>5. QED
  BY <1>3, <1>4

LEMMA FailOverKeeps ==
    ASSUME IInv, FailOver
    PROVE  IInv'
<1>1. pc = "failed" /\ UNCHANGED <<resolverVars, last, stop>>
  BY DEF FailOver
<1>2. /\ turn \in TurnState /\ turn.provider = Charged /\ turn.original \in Model
      /\ turn.failovers < MaxFailovers /\ turn.rounds < MaxRounds
      /\ ResolverTyped /\ LoopTyped
  BY <1>1, Calling
<1>3. LoopTyped'
  BY <1>1, <1>2 DEF FailOver, LoopTyped
<1>4. TurnInv'
  BY <1>2, <1>3, TurnOver, ResolveStarts DEF FailOver
<1>5. QED
  BY <1>1, <1>2, <1>3, <1>4, Parts, ResolverSame

LEMMA TurnStepKeeps ==
    ASSUME IInv, TurnStep
    PROVE  IInv'
  BY ResolvePrimaryKeeps, WalkChainKeeps, LeaveWalkKeeps, FallThroughKeeps, BuildRequestKeeps,
     SwitchProviderKeeps, AttemptKeeps, CallSucceedsKeeps, CallOverflowsKeeps, CallFailsKeeps,
     WakeKeeps, FailOverKeeps DEF TurnStep

\* A new model reaches the name that a resolve is about to hand out, and nothing
\* that a turn has taken over.
LEMMA SetModelKeeps ==
    ASSUME IInv, NEW m \in Selectable, SetModel(m)
    PROVE  IInv'
<1>1. ResolverTyped /\ LoopTyped /\ TurnInv /\ m \in Model
  BY Parts, ModelAssumption
<1>2. UNCHANGED resolverVars /\ UNCHANGED <<last, stop, pc>> /\ model' = m
  BY DEF SetModel
<1>3. LoopTyped'
  BY <1>1, <1>2 DEF LoopTyped
<1>4. CASE UNCHANGED turn
  BY <1>1, <1>2, <1>3, <1>4, TurnSame, ResolverSame, Parts
<1>5. CASE ~UNCHANGED turn
  <2> DEFINE u == [turn EXCEPT !.name = m]
  <2>1. turn # None /\ turn' = u
    BY <1>5 DEF SetModel
  <2>2. turn \in TurnState
    BY <1>1, <2>1 DEF TurnInv
  <2>3. /\ u \in TurnState /\ u.wanted = turn.wanted /\ u.next = turn.next
        /\ u.provider = turn.provider /\ u.original = turn.original /\ u.retry = turn.retry
        /\ u.failovers = turn.failovers /\ u.rounds = turn.rounds
    BY <1>1, <2>2 DEF TurnState
  <2> HIDE DEF u
  <2>4. u # None
    BY <2>3, NoneAssumption
  <2>5. ChargedToCaller' /\ ResolvedIsCharged'
    BY <1>1, <1>2, <2>1, <2>3 DEF TurnInv, ChargedToCaller, ResolvedIsCharged, Charged
  <2>6. RoomLeft' /\ ModelKnown'
    BY <1>1, <1>2, <2>1, <2>3 DEF TurnInv, RoomLeft, ModelKnown
  <2>7. pc' \in PC /\ (turn' = None) = (pc' = "idle")
    BY <1>1, <1>2, <2>1, <2>4 DEF TurnInv
  <2>8. QED
    BY <1>1, <1>2, <1>3, <2>1, <2>3, <2>5, <2>6, <2>7, ResolverSame, Parts DEF TurnInv
<1>6. QED
  BY <1>4, <1>5

LEMMA SetFallbackChainKeeps ==
    ASSUME IInv, NEW c \in Chains, SetFallbackChain(c)
    PROVE  IInv'
<1>1. ResolverTyped /\ LoopTyped /\ TurnInv
  BY Parts
<1>2. /\ UNCHANGED <<profiles, pin, cooldown, loopVars, turn>> /\ chain' = c
      /\ UNCHANGED pc \/ (pc = "walk" /\ pc' = "undefined")
  BY DEF SetFallbackChain
<1>3. ResolverTyped'
  BY <1>1, <1>2 DEF ResolverTyped
<1>4. TurnInv'
  <2>1. CASE UNCHANGED pc
    BY <1>1, <1>2, <2>1, TurnSame DEF loopVars
  <2>2. CASE pc = "walk" /\ pc' = "undefined"
    BY <1>1, <1>2, <2>2 DEF TurnInv, ChargedToCaller, ResolvedIsCharged, RoomLeft, ModelKnown, PC
  <2>3. QED
    BY <1>2, <2>1, <2>2
<1>5. QED
  BY <1>1, <1>2, <1>3, <1>4, LoopSame, Parts

LEMMA EnvironmentKeeps ==
    ASSUME IInv, Environment
    PROVE  IInv'
<1>1. ResolverTyped /\ LoopTyped /\ TurnInv
  BY Parts
<1>2. CASE Stop
  BY <1>1, <1>2, ResolverSame, TurnSame, Parts DEF Stop, LoopTyped
<1>3. CASE \E ps \in ProfileSets : SetProfiles(ps)
  BY <1>1, <1>3, LoopSame, TurnSame, Parts DEF SetProfiles, ResolverTyped, loopVars
<1>4. CASE ClearSessionPin
  BY <1>1, <1>4, LoopSame, TurnSame, Parts DEF ClearSessionPin, ResolverTyped, loopVars
<1>5. CASE ResetCooldowns
  BY <1>1, <1>5, LoopSame, TurnSame, Parts DEF ResetCooldowns, ResolverTyped, loopVars
<1>6. CASE \E k \in Key : CooldownEnds(k) \/ ProbeFallsDue(k)
  BY <1>1, <1>6, LoopSame, TurnSame, Parts DEF CooldownEnds, ProbeFallsDue, ResolverTyped, loopVars
<1>7. QED
  BY <1>2, <1>3, <1>4, <1>5, <1>6, SetModelKeeps, SetFallbackChainKeeps DEF Environment

LEMMA Inductive == IInv /\ [Next]_vars => IInv'
<1> SUFFICES ASSUME IInv, [Next]_vars PROVE IInv'
  OBVIOUS
<1>1. CASE UNCHANGED vars
  BY <1>1, ResolverSame, LoopSame, TurnSame, Parts DEF vars, resolverVars, loopVars
<1>2. CASE \E stream \in BOOLEAN : BeginTurn(stream)
  BY <1>2, BeginTurnKeeps
<1>3. QED
  BY <1>1, <1>2, TurnStepKeeps, EnvironmentKeeps DEF Next

LEMMA Invariant == Spec => []IInv
<1>1. QED
  BY Initially, Inductive, PTL DEF Spec

-----------------------------------------------------------------------------
(* The theorems *)

\* Type correctness of the resolver, the loop and the turn's locals; the retry,
\* failover and round counters stay within their limits.
THEOREM Typed == Spec => []TypeOK
<1>1. IInv => TypeOK
  BY DEF IInv
<1>2. QED
  BY <1>1, Invariant, PTL

\* A call's success or failure is recorded for the key the call used, through
\* every retry, switch and fall-through, and whatever other threads configure.
THEOREM ChargedToCallerAlways == Spec => []ChargedToCaller
<1>1. IInv => ChargedToCaller
  BY DEF IInv
<1>2. QED
  BY <1>1, Invariant, PTL

\* The resolver hands out no key whose cooldown runs, unless its probe is due.
LEMMA CooldownRespected == Spec => ResolverRespectsCooldown
<1>1. ASSUME IInv, ResolvePrimary, pc' = "resolved"
      PROVE  cooldown[last'] # "cooling"
  <2> DEFINE p == ModelOf(turn.wanted)
  <2>1. p \in Provider /\ ResolverTyped
    <3>1. pc = "primary"
      BY <1>1 DEF ResolvePrimary
    <3>2. QED
      BY <1>1, <3>1, ModelAssumption, Parts DEF IInv, ModelKnown
  <2>2. Candidate(p) # None /\ last' = Candidate(p)
    BY <1>1 DEF ResolvePrimary, Adopt
  <2>3. QED
    BY <2>1, <2>2, CandidateFacts
<1>2. QED
  BY <1>1, Invariant, PTL DEF Spec, ResolverRespectsCooldown

\* A call begins in Attempt only, which looks at stop_requested_ first.
LEMMA StopStops == Spec => StopHonoured
<1>1. ASSUME [Next]_vars, stop, pc # "calling", pc' = "calling"
      PROVE  FALSE
  <2>1. CASE UNCHANGED vars
    BY <1>1, <2>1 DEF vars
  <2>2. CASE \E stream \in BOOLEAN : BeginTurn(stream)
    BY <1>1, <2>2 DEF BeginTurn, StartResolve
  <2>3. CASE ResolvePrimary \/ WalkChain \/ LeaveWalk \/ FallThrough \/ BuildRequest \/ SwitchProvider
    BY <1>1, <2>3 DEF ResolvePrimary, WalkChain, LeaveWalk, FallThrough, BuildRequest,
       SwitchProvider, Adopt, EndTurn
  <2>4. CASE Attempt
    BY <1>1, <2>4 DEF Attempt, EndTurn
  <2>5. CASE (\E final \in BOOLEAN : CallSucceeds(final)) \/ CallOverflows \/ \E kind \in Kind : CallFails(kind)
    BY <1>1, <2>5 DEF CallSucceeds, CallOverflows, CallFails
  <2>6. CASE Wake \/ FailOver
    BY <1>1, <2>6 DEF Wake, FailOver, StartResolve, EndTurn
  <2>7. CASE Environment
    BY <1>1, <2>7 DEF Environment, Stop, SetModel, SetFallbackChain, SetProfiles, ClearSessionPin,
       ResetCooldowns, CooldownEnds, ProbeFallsDue
  <2>8. QED
    BY <1>1, <2>1, <2>2, <2>3, <2>4, <2>5, <2>6, <2>7 DEF Next, TurnStep
<1>2. [Next]_vars => [stop /\ pc # "calling" => pc' # "calling"]_vars
  BY <1>1
<1>3. QED
  BY <1>2, PTL DEF Spec, StopHonoured

\* No call is made that the operator's Stop or a key's running cooldown forbids.
THEOREM CallsAllowedAlways == Spec => CallsAllowed
  BY CooldownRespected, StopStops, PTL DEF CallsAllowed
=============================================================================
