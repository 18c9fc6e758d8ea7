--------------------------- MODULE DeliveryProofs ---------------------------
(***************************************************************************)
(* Proofs about Delivery for every number of updates, lanes, webhook       *)
(* threads and crashes: what is polled is neither forgotten before it was  *)
(* handled nor handled twice in one life of the process, and the messages  *)
(* of a chat are handled in order.                                         *)
(***************************************************************************)
EXTENDS Delivery, TLAPS, SequenceTheorems

-----------------------------------------------------------------------------
(* Lanes *)

\* The later of two updates.
LEMMA MaxFacts ==
    ASSUME NEW a \in Nat, NEW b \in Nat
    PROVE  /\ Max({a, b}) \in {a, b}
           /\ Max({a, b}) >= a /\ Max({a, b}) >= b
<1> DEFINE m == IF a >= b THEN a ELSE b
<1>1. m \in {a, b} /\ \A y \in {a, b} : m >= y
  OBVIOUS
<1>2. \E x \in {a, b} : \A y \in {a, b} : x >= y
  BY <1>1
<1>3. QED
  BY <1>2 DEF Max

\* A worker that takes a task holds what it held, in the same order.
LEMMA Taken ==
    ASSUME NEW L \in LaneState, L.queue # <<>>, L.at # "run",
           NEW M, M = [L EXCEPT !.queue = Tail(@), !.at = "run", !.task = Head(L.queue)]
    PROVE  /\ M \in LaneState
           /\ \A u \in Update : Holds(M, u) <=> Holds(L, u)
           /\ InOrder(L) => InOrder(M)
<1> DEFINE q == L.queue
           t == Tail(q)
           h == Head(q)
<1>1. q \in Seq(Update) /\ q # <<>>
  BY UpdateAssumption DEF LaneState
<1>2. /\ h \in Update /\ t \in Seq(Update) /\ Len(t) = Len(q) - 1
      /\ \A i \in 1 .. Len(t) : t[i] = q[i + 1]
  BY <1>1, HeadTailProperties
<1>3. Len(q) \in Nat /\ Len(q) >= 1 /\ h = q[1]
  BY <1>1, EmptySeq
<1>4. M \in LaneState /\ M.queue = t /\ M.at = "run" /\ M.task = h
  BY <1>2, UpdateAssumption DEF LaneState
<1> HIDE DEF t, h
<1>5. DOMAIN t = 1 .. Len(t) /\ DOMAIN q = 1 .. Len(q)
  BY <1>1, <1>2
<1> HIDE DEF q
<1>6. /\ 1 \in DOMAIN q
      /\ \A i \in DOMAIN t : i + 1 \in DOMAIN q /\ t[i] = q[i + 1] /\ 1 < i + 1 /\ i \in Nat
      /\ \A i \in DOMAIN q : i \in Nat /\ (i = 1 \/ (i - 1 \in DOMAIN t /\ q[i] = t[i - 1]))
  <2>1. /\ 1 \in DOMAIN q
        /\ \A i \in DOMAIN t : i + 1 \in DOMAIN q /\ t[i] = q[i + 1] /\ 1 < i + 1 /\ i \in Nat
    BY <1>2, <1>3, <1>5
  <2>2. ASSUME NEW i \in DOMAIN q, i # 1
        PROVE  i - 1 \in DOMAIN t /\ q[i] = t[i - 1]
    <3>1. i - 1 \in DOMAIN t /\ (i - 1) + 1 = i
      BY <1>2, <1>3, <1>5, <2>2
    <3>2. t[i - 1] = q[(i - 1) + 1]
      BY <2>1, <3>1
    <3>3. QED
      BY <3>1, <3>2
  <2>3. \A i \in DOMAIN q : i \in Nat
    BY <1>5
  <2>4. QED
    BY <2>1, <2>2, <2>3
<1>7. ASSUME NEW u \in Update
      PROVE  (\E i \in DOMAIN q : q[i] = u) <=> (\E i \in DOMAIN t : t[i] = u) \/ h = u
  BY <1>3, <1>6
<1>8. \A u \in Update : Holds(M, u) <=> Holds(L, u)
  BY <1>4, <1>7 DEF Holds, q
<1>9. ASSUME InOrder(L) PROVE InOrder(M)
  <2>1. \A i, j \in DOMAIN q : i < j => q[i] < q[j]
    BY <1>9 DEF InOrder, q
  <2>2. \A i, j \in DOMAIN t : i < j => i + 1 < j + 1
    BY <1>6
  <2>3. \A i, j \in DOMAIN t : i < j => t[i] < t[j]
    BY <1>6, <2>1, <2>2
  <2>4. \A i \in DOMAIN t : h < t[i]
    BY <1>3, <1>6, <2>1
  <2>5. QED
    BY <1>2, <1>4, <2>3, <2>4 DEF InOrder
<1>10. QED
  BY <1>4, <1>8, <1>9

\* A lane that an update is pushed to holds that one as well, and last.
WithTask(L, t) == [L EXCEPT !.queue = Append(@, t), !.at = Woken(@)]
LEMMA Pushed ==
    ASSUME NEW L \in LaneState, NEW t \in Update, NEW M, M = WithTask(L, t)
    PROVE  /\ M \in LaneState
           /\ \A u \in Update : Holds(M, u) <=> Holds(L, u) \/ u = t
           /\ InOrder(L) /\ (\A u \in Update : Holds(L, u) => u < t) => InOrder(M)
<1> DEFINE q == L.queue
           a == Append(q, t)
           w == Woken(L.at)
<1>1. q \in Seq(Update)
  BY UpdateAssumption DEF LaneState
<1>2. /\ a \in Seq(Update) /\ Len(a) = Len(q) + 1 /\ a[Len(q) + 1] = t
      /\ \A i \in 1 .. Len(q) : a[i] = q[i] /\ q[i] \in Update
      /\ Len(q) \in Nat
  BY <1>1
<1>3. w \in {"test", "blocking", "asleep", "run", "exited"} /\ (w = "run" <=> L.at = "run")
  BY DEF Woken, LaneState
<1> HIDE DEF a, w
<1>4. M \in LaneState /\ M.queue = a /\ M.at = w /\ M.task = L.task
  <2>1. M = [L EXCEPT !.queue = a, !.at = w]
    BY DEF LaneState, WithTask, a, w
  <2>2. QED
    BY <1>2, <1>3, <2>1, UpdateAssumption DEF LaneState
<1>5. DOMAIN q = 1 .. Len(q) /\ DOMAIN a = 1 .. Len(a)
  BY <1>1, <1>2
<1> HIDE DEF q
<1>6. /\ \A i \in DOMAIN q : i \in DOMAIN a /\ a[i] = q[i] /\ q[i] \in Update
      /\ \A i \in DOMAIN a : i \in DOMAIN q \/ a[i] = t
      /\ \E i \in DOMAIN a : a[i] = t
      /\ \A i, j \in DOMAIN a : i < j => i \in DOMAIN q
  BY <1>2, <1>5
<1>7. \A u \in Update : Holds(M, u) <=> Holds(L, u) \/ u = t
  BY <1>3, <1>4, <1>6 DEF Holds, q
<1>8. ASSUME InOrder(L), \A u \in Update : Holds(L, u) => u < t
      PROVE  InOrder(M)
  <2>1. \A i, j \in DOMAIN q : i < j => q[i] < q[j]
    BY <1>8 DEF InOrder, q
  <2>2. \A i \in DOMAIN q : q[i] < t
    BY <1>6, <1>8 DEF Holds, q
  <2>3. \A i, j \in DOMAIN a : i < j => a[i] < a[j]
    BY <1>6, <2>1, <2>2
  <2>4. M.at = "run" => M.task \in Update /\ M.task < t /\ \A i \in DOMAIN q : M.task < q[i]
    BY <1>3, <1>4, <1>8 DEF InOrder, Holds, q
  <2>5. M.at = "run" => M.task \in Update /\ \A i \in DOMAIN a : M.task < a[i]
    BY <1>6, <2>4
  <2>6. QED
    BY <1>4, <2>3, <2>5 DEF InOrder
<1>9. QED
  BY <1>4, <1>7, <1>8

\* A worker that has run its task holds the rest.
LEMMA Ran ==
    ASSUME NEW L \in LaneState, L.at = "run",
           NEW M, M = [L EXCEPT !.at = "test", !.task = None]
    PROVE  /\ M \in LaneState
           /\ \A u \in Update : Holds(M, u) => Holds(L, u)
           /\ \A u \in Update : Holds(L, u) => Holds(M, u) \/ u = L.task
           /\ InOrder(L) => InOrder(M) /\ \A u \in Update : Holds(M, u) => L.task < u
<1>1. M \in LaneState /\ M.queue = L.queue /\ M.at = "test"
  BY DEF LaneState
<1>2. QED
  BY <1>1 DEF Holds, InOrder

\* A worker that goes on without a task holds what it held.
LEMMA Idles ==
    ASSUME NEW L \in LaneState, L.at # "run", NEW M \in LaneState,
           M.queue = L.queue, M.at # "run"
    PROVE  /\ \A u \in Update : Holds(M, u) <=> Holds(L, u)
           /\ InOrder(L) => InOrder(M)
  BY DEF Holds, InOrder

\* A lane that is told to stop, too.
LEMMA ToldToStop ==
    ASSUME NEW L \in LaneState, NEW M, M = [L EXCEPT !.running = FALSE, !.at = Woken(@)]
    PROVE  /\ M \in LaneState
           /\ \A u \in Update : Holds(M, u) <=> Holds(L, u)
           /\ InOrder(L) => InOrder(M)
<1> DEFINE w == Woken(L.at)
<1>1. w \in {"test", "blocking", "asleep", "run", "exited"} /\ (w = "run" <=> L.at = "run")
  BY DEF Woken, LaneState
<1>2. M = [L EXCEPT !.running = FALSE, !.at = w]
  BY DEF LaneState
<1> HIDE DEF w
<1>3. M \in LaneState /\ M.queue = L.queue /\ M.at = w /\ M.task = L.task
  BY <1>1, <1>2 DEF LaneState
<1>4. QED
  BY <1>1, <1>3 DEF Holds, InOrder

\* A new lane holds nothing.
LEMMA NewIsEmpty ==
    NewLane \in LaneState /\ InOrder(NewLane) /\ (\A u \in Update : ~Holds(NewLane, u)) /\ NewLane # None
<1>1. <<>> \in Seq(Task) /\ DOMAIN <<>> = {}
  OBVIOUS
<1>2. NewLane \in LaneState /\ NewLane.queue = <<>> /\ NewLane.at = "test"
  BY <1>1 DEF NewLane, LaneState
<1>3. QED
  BY <1>1, <1>2, LaneAssumption DEF Holds, InOrder

-----------------------------------------------------------------------------
(* Types *)

LEMMA Bounds ==
    /\ MaxUpdate \in Nat /\ MaxDeliveries \in Nat /\ MaxCrashes \in Nat
    /\ \A u \in Update : u \in Nat /\ u \in 0 .. MaxUpdate /\ LaneOf(u) \in Lane
    /\ None \notin ThreadState /\ Poller \notin Hook /\ Poller \in Thread
  BY UpdateAssumption DEF Update, Thread

\* Which threads there are, and where one that runs is.
LEMMA ThreadFacts ==
    ASSUME TypeOK, NEW t \in Thread
    PROVE  thread[t] # None => thread[t] \in ThreadState
  BY DEF TypeOK

LEMMA Goes ==
    ASSUME TypeOK, NEW t \in Thread, thread[t] # None, NEW at \in Steps, Goto(t, at)
    PROVE  /\ thread' \in [Thread -> {None} \cup ThreadState]
           /\ thread'[t] \in ThreadState /\ thread'[t] # None
           /\ thread'[t].at = at /\ thread'[t].update = thread[t].update /\ thread'[t].last = thread[t].last
           /\ \A s \in Thread : s # t => thread'[s] = thread[s]
<1> DEFINE p == [thread[t] EXCEPT !.at = at]
<1>1. thread[t] \in ThreadState
  BY ThreadFacts
<1>2. /\ p \in ThreadState
      /\ p.at = at /\ p.update = thread[t].update /\ p.last = thread[t].last
  BY <1>1 DEF ThreadState
<1>3. thread' = [thread EXCEPT ![t] = p]
  BY <1>1 DEF Goto, TypeOK
<1> HIDE DEF p
<1>4. p # None
  BY <1>2, Bounds
<1>5. QED
  BY <1>2, <1>3, <1>4 DEF TypeOK

\* One lane changes and the others stay as they are.
LEMMA OneLane ==
    ASSUME LaneType, NEW l \in Lane, NEW M \in LaneState, lanes' = [lanes EXCEPT ![l] = M]
    PROVE  /\ lanes' \in [Lane -> {None} \cup LaneState]
           /\ lanes'[l] = M /\ M # None
           /\ \A k \in Lane : k # l => lanes'[k] = lanes[k]
  BY LaneAssumption DEF LaneType

\* A lane that exists.
LEMMA LaneFacts ==
    ASSUME LaneType, NEW l \in Lane, Exists(l)
    PROVE  lanes[l] \in LaneState
  BY DEF LaneType, Exists

\* The lane's steps, as a change of the lane's record.
LEMMA PushStep ==
    ASSUME LaneType, NEW l \in Lane, NEW t \in Update, Push(l, t)
    PROVE  /\ Exists(l) /\ UNCHANGED shut
           /\ lanes' = [lanes EXCEPT ![l] = WithTask(lanes[l], t)]
  BY LaneFacts DEF Push, LaneType, LaneState, WithTask

LEMMA TakeStep ==
    ASSUME LaneType, NEW l \in Lane, Exists(l), Take(l)
    PROVE  lanes' = [lanes EXCEPT ![l] =
              [lanes[l] EXCEPT !.queue = Tail(@), !.at = "run", !.task = Head(lanes[l].queue)]]
  BY LaneFacts DEF Take, LaneType, LaneState

LEMMA TaskEndsStep ==
    ASSUME LaneType, NEW l \in Lane, TaskEnds(l)
    PROVE  /\ Exists(l) /\ lanes[l].at = "run" /\ UNCHANGED shut
           /\ lanes' = [lanes EXCEPT ![l] = [lanes[l] EXCEPT !.at = "test", !.task = None]]
  BY LaneFacts DEF TaskEnds, LaneType, LaneState

LEMMA StopLaneStep ==
    ASSUME LaneType, NEW l \in Lane, StopLane(l)
    PROVE  /\ Exists(l) /\ UNCHANGED shut
           /\ lanes' = [lanes EXCEPT ![l] = [lanes[l] EXCEPT !.running = FALSE, !.at = Woken(@)]]
  BY LaneFacts DEF StopLane, LaneType, LaneState

\* What a worker's step does to what lanes hold: nothing.
Unchanging ==
    /\ LaneType'
    /\ \A l \in Lane : Exists(l)' <=> Exists(l)
    /\ \A l \in Lane : Exists(l) /\ InOrder(lanes[l]) => InOrder(lanes'[l])
    /\ \A l \in Lane, u \in Update : Waiting(l, u)' <=> Waiting(l, u)

LEMMA OneUnchanging ==
    ASSUME LaneType, NEW l \in Lane, Exists(l), NEW M \in LaneState,
           lanes' = [lanes EXCEPT ![l] = M], UNCHANGED shut,
           \A u \in Update : Holds(M, u) <=> Holds(lanes[l], u),
           InOrder(lanes[l]) => InOrder(M)
    PROVE  Unchanging
<1>1. /\ lanes' \in [Lane -> {None} \cup LaneState]
      /\ lanes'[l] = M /\ M # None
      /\ \A k \in Lane : k # l => lanes'[k] = lanes[k]
  BY OneLane
<1>2. LaneType'
  BY <1>1 DEF LaneType
<1>3. QED
  BY <1>1, <1>2 DEF Unchanging, Exists, Waiting

LEMMA WorkerUnchanging ==
    ASSUME LaneType, NEW l \in Lane, Worker(l)
    PROVE  Unchanging /\ UNCHANGED shut
<1> DEFINE L == lanes[l]
<1>1. Exists(l) /\ UNCHANGED shut /\ L \in LaneState /\ L.at \in {"test", "blocking"}
  BY LaneFacts DEF Worker, WorkerTest, WorkerBlocks
<1>2. CASE L.at = "test" /\ Take(l)
  <2> DEFINE M == [L EXCEPT !.queue = Tail(@), !.at = "run", !.task = Head(L.queue)]
  <2>1. lanes' = [lanes EXCEPT ![l] = M]
    BY <1>1, <1>2, TakeStep
  <2>2. L.queue # <<>> /\ L.at # "run"
    BY <1>2 DEF Take
  <2>3. /\ M \in LaneState
        /\ \A u \in Update : Holds(M, u) <=> Holds(L, u)
        /\ InOrder(L) => InOrder(M)
    BY <1>1, <2>2, Taken
  <2> HIDE DEF M
  <2>4. QED
    BY <1>1, <2>1, <2>3, OneUnchanging
<1>3. ASSUME NEW at \in {"blocking", "asleep", "exited"}, lanes' = [lanes EXCEPT ![l].at = at]
      PROVE  Unchanging
  <2> DEFINE M == [L EXCEPT !.at = at]
  <2>1. lanes' = [lanes EXCEPT ![l] = M]
    BY <1>1, <1>3 DEF LaneType, LaneState
  <2>2. M \in LaneState /\ M.queue = L.queue /\ M.at = at
    BY <1>1 DEF LaneState
  <2> HIDE DEF M
  <2>3. /\ \A u \in Update : Holds(M, u) <=> Holds(L, u)
        /\ InOrder(L) => InOrder(M)
    BY <1>1, <2>2, Idles
  <2>4. QED
    BY <1>1, <2>1, <2>2, <2>3, OneUnchanging
<1>4. \/ Take(l) /\ L.at = "test"
      \/ \E at \in {"blocking", "asleep", "exited"} : lanes' = [lanes EXCEPT ![l].at = at]
  BY DEF Worker, WorkerTest, WorkerBlocks
<1>5. QED
  BY <1>1, <1>2, <1>3, <1>4

LEMMA FindLaneStep ==
    ASSUME LaneType, NEW l \in Lane, FindLane(l)
    PROVE  /\ LaneType' /\ UNCHANGED shut /\ Exists(l)'
           /\ \A k \in Lane : Exists(k) => lanes'[k] = lanes[k]
           /\ \A k \in Lane : ~Exists(k) => lanes'[k] \in {None, NewLane}
<1>1. CASE Exists(l)
  BY <1>1 DEF FindLane, LaneType, Exists
<1>2. CASE ~Exists(l)
  BY <1>2, NewIsEmpty DEF FindLane, LaneType, Exists
<1>3. QED
  BY <1>1, <1>2

LEMMA PushTypes ==
    ASSUME LaneType, NEW l \in Lane, NEW t \in Update, Push(l, t)
    PROVE  LaneType'
<1>1. lanes[l] \in LaneState
  BY LaneFacts, PushStep
<1>2. WithTask(lanes[l], t) \in LaneState
  BY <1>1, Pushed
<1>3. QED
  BY <1>2, PushStep, OneLane DEF LaneType

LEMMA ThreadStepTypes ==
    ASSUME TypeOK, PollerInv, NEW t \in Thread, ThreadStep(t) \/ SubmitDangling(t)
    PROVE  TypeOK'
<1> DEFINE u == thread[t].update
<1>1. thread[t] # None /\ thread[t] \in ThreadState
  BY ThreadFacts DEF ThreadStep, CheckDuplicate, MarkProcessed, HandleDirectly, Submit, Advance,
     SubmitDangling, At
<1>2. u \in Update /\ u \in 0 .. MaxUpdate /\ u \in Nat /\ LaneOf(u) \in Lane
  BY <1>1, Bounds DEF ThreadState
<1>3. ASSUME NEW at \in Steps, Goto(t, at) PROVE thread' \in [Thread -> {None} \cup ThreadState]
  BY <1>1, <1>3, Goes
<1> HIDE DEF u
<1>4. CASE CheckDuplicate(t)
  <2>1. thread' \in [Thread -> {None} \cup ThreadState]
    BY <1>3, <1>4 DEF CheckDuplicate, Steps
  <2>2. QED
    BY <1>4, <2>1 DEF CheckDuplicate, TypeOK, LaneType, laneVars
<1>5. CASE MarkProcessed(t)
  <2>1. thread' \in [Thread -> {None} \cup ThreadState]
    BY <1>3, <1>5 DEF MarkProcessed, Steps
  <2>2. watermark \in Nat /\ watermark \in 0 .. MaxUpdate
    BY Bounds DEF TypeOK
  <2>3. Max({watermark, u}) \in 0 .. MaxUpdate
    BY <1>2, <2>2, MaxFacts
  <2>4. watermark' \in 0 .. MaxUpdate
    BY <1>5, <2>2, <2>3 DEF MarkProcessed, u
  <2>5. QED
    BY <1>5, <2>1, <2>4 DEF MarkProcessed, TypeOK, LaneType, laneVars
<1>6. CASE HandleDirectly(t)
  <2>1. thread' \in [Thread -> {None} \cup ThreadState]
    BY <1>3, <1>6 DEF HandleDirectly, Steps
  <2>2. handled' \in [Update -> Nat]
    BY <1>2, <1>6 DEF HandleDirectly, TypeOK, u
  <2>3. QED
    BY <1>6, <2>1, <2>2 DEF HandleDirectly, TypeOK, LaneType, laneVars
<1>7. CASE Submit(t)
  <2>1. thread' \in [Thread -> {None} \cup ThreadState]
    BY <1>3, <1>7 DEF Submit, Steps
  <2>2. LaneType
    BY DEF TypeOK
  <2>3. FindLane(LaneOf(u)) \/ UNCHANGED laneVars \/ Push(LaneOf(u), u)
    BY <1>7 DEF Submit, u
  <2>4. LaneType'
    BY <1>2, <2>2, <2>3, FindLaneStep, PushTypes DEF LaneType, laneVars
  <2>5. QED
    BY <1>7, <2>1, <2>4 DEF Submit, TypeOK
<1>8. CASE Advance(t)
  <2>1. CASE At(t, "advance")
    <3>1. thread' \in [Thread -> {None} \cup ThreadState]
      BY <1>3, <1>8, <2>1 DEF Advance, At, Steps
    <3>2. offset' = u /\ disk' = [disk EXCEPT !.offset = 0]
      BY <1>8, <2>1 DEF Advance, At, Truncated, u
    <3>3. disk' \in [offset : 0 .. MaxUpdate, watermark : 0 .. MaxUpdate]
      BY <3>2, Bounds DEF TypeOK
    <3>4. QED
      BY <1>2, <1>8, <3>1, <3>2, <3>3 DEF Advance, TypeOK, LaneType, laneVars
  <2>2. CASE At(t, "write")
    <3> DEFINE p == [at |-> "check", update |-> u + 1, last |-> thread[t].last]
    <3>1. /\ disk' = [disk EXCEPT !.offset = offset] /\ UNCHANGED offset
          /\ thread' = [thread EXCEPT ![t] = IF u < thread[t].last THEN p ELSE None]
      BY <1>8, <2>2 DEF Advance, At, u
    <3>2. u < thread[t].last => p \in ThreadState
      BY <1>1, <1>2, Bounds DEF ThreadState, Steps, Update
    <3>3. thread' \in [Thread -> {None} \cup ThreadState]
      BY <3>1, <3>2 DEF TypeOK
    <3>4. disk' \in [offset : 0 .. MaxUpdate, watermark : 0 .. MaxUpdate]
      BY <3>1, Bounds DEF TypeOK
    <3>5. QED
      BY <1>8, <3>1, <3>3, <3>4 DEF Advance, TypeOK, LaneType, laneVars
  <2>3. QED
    BY <1>8, <2>1, <2>2 DEF Advance
<1>9. CASE SubmitDangling(t)
  <2>1. thread' \in [Thread -> {None} \cup ThreadState]
    BY <1>3, <1>9 DEF SubmitDangling, Steps
  <2>2. QED
    BY <1>9, <2>1 DEF SubmitDangling, TypeOK, LaneType, laneVars
<1>10. QED
  BY <1>4, <1>5, <1>6, <1>7, <1>8, <1>9 DEF ThreadStep

LEMMA DeliveryTypes ==
    ASSUME TypeOK,
           \/ \E last \in Update : Poll(last)
           \/ \E t \in Thread, u \in Update : HandleWebhookUpdate(t, u)
    PROVE  TypeOK'
<1>1. ASSUME NEW last \in Update, Poll(last) PROVE TypeOK'
  <2> DEFINE known == Max({offset, confirmed})
             p == [at |-> "check", update |-> known + 1, last |-> last]
  <2>1. known \in Nat /\ known \in 0 .. MaxUpdate
    BY MaxFacts DEF TypeOK
  <2>2. known < last /\ confirmed' = known /\ thread' = [thread EXCEPT ![Poller] = p]
    BY <1>1 DEF Poll
  <2> HIDE DEF known
  <2>3. p \in ThreadState
    BY <2>1, <2>2, Bounds DEF ThreadState, Steps, Update
  <2> HIDE DEF p
  <2>4. thread' \in [Thread -> {None} \cup ThreadState]
    BY <2>2, <2>3 DEF TypeOK
  <2>5. QED
    BY <1>1, <2>1, <2>2, <2>4 DEF Poll, TypeOK, LaneType, laneVars
<1>2. ASSUME NEW t \in Thread, NEW u \in Update, HandleWebhookUpdate(t, u) PROVE TypeOK'
  <2> DEFINE p == [at |-> "check", update |-> u, last |-> u]
  <2>1. p \in ThreadState
    BY DEF ThreadState, Steps
  <2>2. thread' = [thread EXCEPT ![t] = p]
    BY <1>2 DEF HandleWebhookUpdate
  <2> HIDE DEF p
  <2>3. thread' \in [Thread -> {None} \cup ThreadState]
    BY <2>1, <2>2 DEF TypeOK
  <2>4. calls' \in [Update -> 0 .. MaxDeliveries]
    BY <1>2, Bounds DEF HandleWebhookUpdate, TypeOK
  <2>5. QED
    BY <1>2, <2>3, <2>4 DEF HandleWebhookUpdate, TypeOK, LaneType, laneVars
<1>3. QED
  BY <1>1, <1>2

-----------------------------------------------------------------------------
(* Steps outside of the polling thread *)

\* Without polling, the invariant is about types.
LEMMA NotPolling ==
    ASSUME config.mode # "poll", UNCHANGED config, TypeOK', thread'[Poller] = None,
           \A t \in Thread : thread'[t] # None => thread'[t].update <= thread'[t].last
    PROVE  IInv'
  BY DEF IInv, PollerInv, LanesInv, OnceInv, KeptInv, OrderInv

LEMMA PassedSame ==
    ASSUME UNCHANGED <<thread, offset, confirmed>>
    PROVE  \A u \in Update : Passed(u)' <=> Passed(u)
  BY DEF Passed

\* A worker goes on, or Shutdown does, and what lanes hold stays the same.
LEMMA LanesGoOn ==
    ASSUME IInv, Unchanging, shut' = "no" => shut = "no",
           UNCHANGED <<config, thread, watermark, offset, disk, confirmed, calls, handled, crashes>>
    PROVE  IInv'
<1>1. TypeOK'
  BY DEF IInv, TypeOK, Unchanging
<1>2. \A u \in Update : Passed(u)' <=> Passed(u)
  BY PassedSame
<1>3. PollerInv'
  <2>1. thread[Poller] # None => LaneOf(thread[Poller].update) \in Lane
    BY ThreadFacts, Bounds DEF IInv, ThreadState
  <2>2. QED
    BY <2>1 DEF IInv, PollerInv, Unchanging
<1>4. \A l \in Lane, u \in Update : Exists(l) => (Holds(lanes'[l], u) <=> Holds(lanes[l], u))
  BY DEF Unchanging, Waiting
<1>5. LanesInv'
  BY <1>2, <1>4 DEF IInv, LanesInv, Unchanging
<1>6. OnceInv'
  BY <1>2 DEF IInv, OnceInv, Unchanging
<1>7. KeptInv'
  BY <1>2 DEF IInv, KeptInv
<1>8. \A u \in Update : (Settled(u)' <=> Settled(u)) /\ (About(u)' <=> About(u))
  BY Bounds DEF Settled, About, Unchanging
<1>9. OrderInv'
  BY <1>2, <1>8, Bounds DEF IInv, OrderInv, Unchanging
<1>10. QED
  BY <1>1, <1>3, <1>5, <1>6, <1>7, <1>9 DEF IInv

LEMMA WorkerKeeps ==
    ASSUME IInv, NEW l \in Lane, Worker(l),
           UNCHANGED <<config, thread, watermark, offset, disk, confirmed, calls, handled, crashes>>
    PROVE  IInv'
  BY WorkerUnchanging, LanesGoOn DEF IInv, TypeOK

\* Once Shutdown has cleared the lanes, nothing waits, and nothing will.
LEMMA LanesCleared ==
    ASSUME IInv, ClearLanes,
           UNCHANGED <<config, thread, watermark, offset, disk, confirmed, calls, handled, crashes>>,
           config.lanes
    PROVE  IInv'
<1>1. \A l \in Lane : lanes'[l] = None
  BY DEF ClearLanes
<1>2. TypeOK'
  BY DEF IInv, TypeOK, LaneType, ClearLanes
<1>3. \A u \in Update : Passed(u)' <=> Passed(u)
  BY PassedSame
<1>4. shut' = "done"
  BY DEF ClearLanes
<1>5. PollerInv'
  BY <1>4 DEF IInv, PollerInv
<1>6. LanesInv'
  BY <1>1 DEF LanesInv, Exists
<1>7. OnceInv'
  BY <1>1, <1>3 DEF IInv, OnceInv, Waiting, Exists
<1>8. KeptInv'
  BY <1>3 DEF IInv, KeptInv
<1>9. OrderInv'
  <2>1. \A u \in Update : ~About(u)' /\ ~Waiting(LaneOf(u), u)'
    BY <1>1, Bounds DEF About, Waiting, Exists
  <2>2. QED
    BY <1>3, <1>4, <2>1 DEF IInv, OrderInv
<1>10. QED
  BY <1>2, <1>5, <1>6, <1>7, <1>8, <1>9 DEF IInv

LEMMA ShutdownKeeps ==
    ASSUME IInv, ShutdownStep
    PROVE  IInv'
<1> DEFINE rest == <<config, thread, watermark, offset, disk, confirmed, calls, handled, crashes>>
<1>1. UNCHANGED rest /\ config.lanes /\ LaneType
  BY DEF ShutdownStep, IInv, TypeOK
<1>2. CASE BeginShutdown \/ LockLanes
  <2>1. UNCHANGED lanes /\ shut' \in {"begun", "joining"}
    BY <1>2 DEF BeginShutdown, LockLanes
  <2>2. Unchanging
    BY <1>1, <2>1 DEF Unchanging, LaneType, Exists, Waiting
  <2>3. QED
    BY <1>1, <2>1, <2>2, LanesGoOn
<1>3. ASSUME NEW l \in Lane, StopLane(l)
      PROVE  IInv'
  <2> DEFINE M == [lanes[l] EXCEPT !.running = FALSE, !.at = Woken(@)]
  <2>1. Exists(l) /\ UNCHANGED shut /\ lanes' = [lanes EXCEPT ![l] = M] /\ lanes[l] \in LaneState
    BY <1>1, <1>3, StopLaneStep, LaneFacts
  <2>2. /\ M \in LaneState
        /\ \A u \in Update : Holds(M, u) <=> Holds(lanes[l], u)
        /\ InOrder(lanes[l]) => InOrder(M)
    BY <2>1, ToldToStop
  <2> HIDE DEF M
  <2>3. Unchanging
    BY <1>1, <2>1, <2>2, OneUnchanging
  <2>4. QED
    BY <1>1, <2>1, <2>3, LanesGoOn
<1>4. QED
  BY <1>1, <1>2, <1>3, LanesCleared DEF ShutdownStep, Shutdown

\* A lane's worker handles an update: the earlier ones of the chat were handled,
\* and no lane holds it any more.
LEMMA HandleMessageKeeps ==
    ASSUME IInv, NEW l \in Lane, HandleMessage(l)
    PROVE  IInv'
<1> DEFINE L == lanes[l]
           M == [L EXCEPT !.at = "test", !.task = None]
           w == L.task
<1>1. /\ LaneType /\ Exists(l) /\ L.at = "run" /\ UNCHANGED shut /\ L \in LaneState
      /\ lanes' = [lanes EXCEPT ![l] = M]
  BY TaskEndsStep, LaneFacts DEF HandleMessage, IInv, TypeOK
<1>2. /\ UNCHANGED <<config, thread, watermark, offset, disk, confirmed, calls, crashes>>
      /\ handled' = [handled EXCEPT ![w] = @ + 1]
  BY DEF HandleMessage
<1>3. /\ M \in LaneState
      /\ \A u \in Update : Holds(M, u) => Holds(L, u)
      /\ \A u \in Update : Holds(L, u) => Holds(M, u) \/ u = w
      /\ InOrder(L) => InOrder(M) /\ \A u \in Update : Holds(M, u) => w < u
  BY <1>1, Ran
<1> HIDE DEF M
<1>4. /\ lanes' \in [Lane -> {None} \cup LaneState] /\ lanes'[l] = M /\ M # None
      /\ \A k \in Lane : k # l => lanes'[k] = lanes[k]
  BY <1>1, <1>3, OneLane
<1>5. /\ handled \in [Update -> Nat] /\ handled' \in [Update -> Nat]
      /\ \A u \in Update : u # w => handled'[u] = handled[u]
      /\ w \in Update => handled'[w] = handled[w] + 1
  <2>1. handled \in [Update -> Nat]
    BY DEF IInv, TypeOK
  <2> HIDE DEF w
  <2>2. CASE w \in Update
    BY <1>2, <2>1, <2>2
  <2>3. CASE w \notin Update
    BY <1>2, <2>1, <2>3
  <2>4. QED
    BY <2>2, <2>3
<1>6. TypeOK'
  BY <1>1, <1>2, <1>4, <1>5 DEF IInv, TypeOK, LaneType
<1>7. PollerInv'
  <2>1. thread[Poller] # None => LaneOf(thread[Poller].update) \in Lane
    BY ThreadFacts, Bounds DEF IInv, ThreadState
  <2>2. \A k \in Lane : Exists(k)' <=> Exists(k)
    BY <1>1, <1>4 DEF Exists
  <2>3. QED
    BY <1>1, <1>2, <2>1, <2>2 DEF IInv, PollerInv
<1>8. CASE config.mode # "poll"
  <2>1. thread[Poller] = None /\ \A t \in Thread : thread[t] # None => thread[t].update <= thread[t].last
    BY <1>8 DEF IInv, PollerInv
  <2>2. QED
    BY <1>2, <1>6, <1>8, <2>1, NotPolling
<1>9. CASE config.mode = "poll"
  <2>1. \A u \in Update : Passed(u)' <=> Passed(u)
    BY <1>2, PassedSame
  <2>2. /\ InOrder(L) /\ config.lanes /\ w \in Update
        /\ \A u \in Update : Holds(L, u) => LaneOf(u) = l /\ Passed(u)
    BY <1>1, <1>9 DEF IInv, LanesInv, InOrder
  <2>3. Holds(L, w) /\ LaneOf(w) = l /\ Passed(w) /\ ~Holds(M, w)
    <3>1. Holds(L, w)
      BY <1>1 DEF Holds
    <3>2. w \in Nat
      BY <2>2, Bounds
    <3>3. QED
      BY <1>3, <2>2, <3>1, <3>2
  <2>4. /\ \A k \in Lane, u \in Update : Waiting(k, u)' => Waiting(k, u)
        /\ \A k \in Lane, u \in Update : Waiting(k, u) => (Waiting(k, u)') \/ u = w
        /\ \A k \in Lane, u \in Update : u = w => ~(Waiting(k, u)')
        /\ \A k \in Lane : Exists(k)' <=> Exists(k)
    <3>1. \A k \in Lane : k # l => (Waiting(k, w) => FALSE)
      BY <1>9, <2>2, <2>3 DEF IInv, LanesInv, Waiting
    <3>2. \A k \in Lane : Exists(k)' <=> Exists(k)
      BY <1>1, <1>4 DEF Exists
    <3>3. ASSUME NEW k \in Lane, k # l, NEW u \in Update
          PROVE  Waiting(k, u)' <=> Waiting(k, u)
      BY <1>4, <3>3 DEF Waiting, Exists
    <3>4. \A u \in Update : (Waiting(l, u)' <=> Holds(M, u)) /\ (Waiting(l, u) <=> Holds(L, u))
      BY <1>1, <1>4 DEF Waiting, Exists
    <3> HIDE DEF L, w
    <3>5. QED
      BY <1>3, <2>2, <2>3, <3>1, <3>2, <3>3, <3>4
  <2>5. LanesInv'
    BY <1>1, <1>2, <1>3, <1>4, <2>1, <2>2 DEF IInv, LanesInv, Exists
  <2>6. handled[w] <= crashes /\ crashes \in Nat
    BY <1>1, <1>9, <2>2, <2>3, Bounds DEF IInv, OnceInv, Waiting, TypeOK
  <2>7. OnceInv'
    <3>1. \A u \in Update :
             /\ handled[u] <= 1 + crashes
             /\ ~Passed(u) \/ (\E k \in Lane : Waiting(k, u)) => handled[u] <= crashes
      BY <1>9 DEF IInv, OnceInv
    <3> HIDE DEF w
    <3>2. ASSUME NEW u \in Update
          PROVE  /\ handled'[u] <= 1 + crashes
                 /\ ~Passed(u)' \/ (\E k \in Lane : Waiting(k, u)') => handled'[u] <= crashes
      <4>1. CASE u = w
        BY <1>5, <2>1, <2>2, <2>3, <2>4, <2>6, <4>1
      <4>2. CASE u # w
        BY <1>5, <2>1, <2>4, <3>1, <4>2
      <4>3. QED
        BY <4>1, <4>2
    <3>3. QED
      BY <1>2, <3>2 DEF OnceInv
  <2>8. KeptInv'
    BY <1>2, <2>2 DEF KeptInv
  <2>9. \A u \in Update : (Settled(u) => Settled(u)') /\ (About(u)' <=> About(u))
    <3>1. \A u \in Update : Settled(u) => Settled(u)'
      BY <1>5, <2>2, <2>4, Bounds DEF Settled
    <3>2. \A u \in Update : About(u)' <=> About(u)
      BY <1>2, <2>4, Bounds DEF About
    <3>3. QED
      BY <3>1, <3>2
  <2>10. OrderInv'
    BY <1>1, <1>2, <2>1, <2>4, <2>9, Bounds DEF IInv, OrderInv
  <2>11. QED
    BY <1>6, <1>7, <2>5, <2>7, <2>8, <2>10 DEF IInv
<1>10. QED
  BY <1>8, <1>9

-----------------------------------------------------------------------------
(* Threads that handle an update *)

\* One thread moves, within its batch.
LEMMA ThreadShape ==
    ASSUME TypeOK, PollerInv, NEW t \in Thread, ThreadStep(t) \/ SubmitDangling(t)
    PROVE  /\ thread[t] # None /\ UNCHANGED config
           /\ \A s \in Thread : s # t => thread'[s] = thread[s]
           /\ \A s \in Thread : thread'[s] # None => thread'[s].update <= thread'[s].last
<1>1. thread[t] # None /\ thread[t] \in ThreadState
  BY ThreadFacts DEF ThreadStep, CheckDuplicate, MarkProcessed, HandleDirectly, Submit, Advance,
     SubmitDangling, At
<1>2. UNCHANGED config
  BY DEF ThreadStep, CheckDuplicate, MarkProcessed, HandleDirectly, Submit, Advance, SubmitDangling
<1>3. ASSUME NEW at \in Steps, Goto(t, at)
      PROVE  /\ \A s \in Thread : s # t => thread'[s] = thread[s]
             /\ thread'[t] # None => thread'[t].update <= thread'[t].last
  BY <1>1, <1>3, Goes DEF PollerInv
<1>4. CASE \E at \in Steps : Goto(t, at)
  BY <1>1, <1>2, <1>3, <1>4 DEF PollerInv
<1>5. CASE Advance(t) /\ At(t, "write")
  <2> DEFINE p == [at |-> "check", update |-> thread[t].update + 1, last |-> thread[t].last]
  <2>1. thread' = [thread EXCEPT ![t] = IF thread[t].update < thread[t].last THEN p ELSE None]
    BY <1>5 DEF Advance, At
  <2>2. p.update = thread[t].update + 1 /\ p.last = thread[t].last
    OBVIOUS
  <2> HIDE DEF p
  <2>3. thread[t].update \in Nat /\ thread[t].last \in Nat
    BY <1>1, Bounds DEF ThreadState
  <2>4. thread'[t] # None => thread'[t].update <= thread'[t].last
    BY <2>1, <2>2, <2>3 DEF TypeOK
  <2>5. \A s \in Thread : s # t => thread'[s] = thread[s]
    BY <2>1 DEF TypeOK
  <2>6. QED
    BY <1>1, <1>2, <2>4, <2>5 DEF PollerInv
<1>6. (\E at \in Steps : Goto(t, at)) \/ (Advance(t) /\ At(t, "write"))
  BY DEF ThreadStep, CheckDuplicate, MarkProcessed, HandleDirectly, Submit, Advance,
     SubmitDangling, Steps
<1>7. QED
  BY <1>4, <1>5, <1>6

\* A thread of the web server works in webhook mode only.
LEMMA HookKeeps ==
    ASSUME IInv, NEW t \in Hook, ThreadStep(t) \/ SubmitDangling(t)
    PROVE  IInv'
<1>1. t \in Thread /\ t # Poller /\ TypeOK /\ PollerInv
  BY Bounds DEF Thread, IInv
<1>2. /\ thread[t] # None /\ UNCHANGED config
      /\ \A s \in Thread : s # t => thread'[s] = thread[s]
      /\ \A s \in Thread : thread'[s] # None => thread'[s].update <= thread'[s].last
  BY <1>1, ThreadShape
<1>3. config.mode # "poll" /\ thread'[Poller] = None
  BY <1>1, <1>2, Bounds DEF PollerInv
<1>4. QED
  BY <1>1, <1>2, <1>3, ThreadStepTypes, NotPolling

\* The polling thread moves on with the update it is at.
LEMMA PollerGoes ==
    ASSUME IInv, thread[Poller] # None, NEW at \in Steps, Goto(Poller, at)
    PROVE  /\ thread[Poller] \in ThreadState /\ config.mode = "poll"
           /\ thread[Poller].update \in Update /\ thread[Poller].update \in Nat
           /\ LaneOf(thread[Poller].update) \in Lane
           /\ thread'[Poller] # None /\ thread'[Poller].at = at
           /\ thread'[Poller].update = thread[Poller].update
           /\ \A t \in Hook : thread'[t] = thread[t]
           /\ \A u \in Update : Passed(u) <=>
                 u < thread[Poller].update \/ (u = thread[Poller].update /\ thread[Poller].at \in Past)
           /\ \A u \in Update : (Passed(u)') <=>
                 u < thread[Poller].update \/ (u = thread[Poller].update /\ at \in Past)
<1>1. thread[Poller] \in ThreadState /\ config.mode = "poll" /\ TypeOK
  BY ThreadFacts, Bounds DEF IInv, PollerInv
<1>2. thread[Poller].update \in Update /\ thread[Poller].update \in Nat /\ LaneOf(thread[Poller].update) \in Lane
  BY <1>1, Bounds DEF ThreadState
<1>3. /\ thread'[Poller] # None /\ thread'[Poller].at = at
      /\ thread'[Poller].update = thread[Poller].update
      /\ \A s \in Thread : s # Poller => thread'[s] = thread[s]
  BY <1>1, Goes, Bounds
<1>4. \A t \in Hook : thread'[t] = thread[t]
  BY <1>3, Bounds DEF Thread
<1>5. \A u \in Update : Passed(u) <=>
         u < thread[Poller].update \/ (u = thread[Poller].update /\ thread[Poller].at \in Past)
  BY DEF Passed
<1>6. \A u \in Update : (Passed(u)') <=>
         u < thread[Poller].update \/ (u = thread[Poller].update /\ at \in Past)
  BY <1>3 DEF Passed
<1>7. QED
  BY <1>1, <1>2, <1>3, <1>4, <1>5, <1>6

LEMMA PollerStays ==
    ASSUME IInv, thread[Poller] # None, NEW at \in Steps, Goto(Poller, at),
           UNCHANGED <<config, confirmed>>,
           \A s \in Thread : thread'[s] # None => thread'[s].update <= thread'[s].last,
           at = "write" => offset' = thread[Poller].update,
           at \in {"submit", "push", "undefined"} => config.lanes,
           at = "handle" => ~config.lanes,
           at = "undefined" \/ (at = "push" /\ ~(Exists(LaneOf(thread[Poller].update))')) => shut' # "no"
    PROVE  PollerInv'
<1> DEFINE p == thread[Poller]
           q == thread'[Poller]
<1>1. /\ q # None /\ q.at = at /\ q.update = p.update /\ config.mode = "poll"
      /\ \A t \in Hook : thread'[t] = thread[t]
  BY PollerGoes
<1>2. (\A t \in Hook : thread[t] = None) /\ confirmed < p.update
  BY <1>1 DEF IInv, PollerInv
<1>3. Exists(LaneOf(thread[Poller].update))' <=> lanes'[LaneOf(q.update)] # None
  BY DEF Exists
<1>4. lanes'[LaneOf(q.update)] # None <=> lanes'[LaneOf(p.update)] # None
  BY <1>1
<1>5. QED
  BY <1>1, <1>2 DEF PollerInv, Exists

\* Where no lane changes and nothing is handled.
LEMMA LanesAndOnce ==
    ASSUME IInv, UNCHANGED <<lanes, handled, crashes, config>>,
           \A u \in Update : Passed(u) => Passed(u)'
    PROVE  LanesInv' /\ OnceInv'
<1>1. LanesInv'
  BY DEF IInv, LanesInv, Exists
<1>2. OnceInv'
  BY DEF IInv, OnceInv, Waiting, Exists
<1>3. QED
  BY <1>1, <1>2

-----------------------------------------------------------------------------
(* The polling thread *)

\* What the polling thread's steps have in common.
LEMMA PollerStep ==
    ASSUME IInv, ThreadStep(Poller) \/ SubmitDangling(Poller)
    PROVE  /\ TypeOK' /\ thread[Poller] # None /\ config.mode = "poll" /\ UNCHANGED config
           /\ \A s \in Thread : thread'[s] # None => thread'[s].update <= thread'[s].last
           /\ thread[Poller] \in ThreadState /\ thread[Poller].update \in Update
           /\ thread[Poller].update \in Nat /\ LaneOf(thread[Poller].update) \in Lane
<1>1. Poller \in Thread /\ TypeOK /\ PollerInv
  BY Bounds DEF IInv
<1>2. /\ TypeOK' /\ thread[Poller] # None /\ UNCHANGED config
      /\ \A s \in Thread : thread'[s] # None => thread'[s].update <= thread'[s].last
  BY <1>1, ThreadShape, ThreadStepTypes
<1>3. thread[Poller] \in ThreadState /\ config.mode = "poll"
  BY <1>1, <1>2, ThreadFacts DEF PollerInv
<1>4. QED
  BY <1>2, <1>3, Bounds DEF ThreadState

\* An update is a duplicate only with a store, and only after a crash.
LEMMA CheckDuplicateKeeps ==
    ASSUME IInv, CheckDuplicate(Poller)
    PROVE  IInv'
<1> DEFINE w == thread[Poller].update
           at == IF IsProcessed(w) THEN "advance" ELSE "record"
<1>1. /\ TypeOK' /\ thread[Poller] # None /\ config.mode = "poll" /\ UNCHANGED config
      /\ \A s \in Thread : thread'[s] # None => thread'[s].update <= thread'[s].last
      /\ w \in Update /\ w \in Nat /\ LaneOf(w) \in Lane
  BY PollerStep DEF ThreadStep
<1>2. /\ UNCHANGED <<laneVars, config, watermark, offset, disk, confirmed, calls, handled, crashes>>
      /\ thread[Poller].at = "check" /\ Goto(Poller, at) /\ at \in Steps
  BY DEF CheckDuplicate, At, Steps
<1>3. at = "advance" => config.dedup /\ w <= watermark
  BY DEF IsProcessed
<1>4. at \in {"advance", "record"}
  OBVIOUS
<1> HIDE DEF at
<1>5. /\ thread'[Poller] # None /\ thread'[Poller].at = at /\ thread'[Poller].update = w
      /\ \A u \in Update : Passed(u) <=> u < w
      /\ \A u \in Update : (Passed(u)') <=> u < w \/ (u = w /\ at = "advance")
  BY <1>1, <1>2, <1>4, PollerGoes DEF Past
<1> HIDE DEF w
<1>6. PollerInv'
  BY <1>1, <1>2, <1>4, PollerStays
<1>7. LanesInv' /\ OnceInv'
  BY <1>2, <1>5, LanesAndOnce DEF laneVars
<1>8. KeptInv'
  BY <1>2, <1>3, <1>4, <1>5 DEF IInv, KeptInv
<1>9. ASSUME crashes = 0 PROVE at = "record"
  <2>1. ~Passed(w)
    BY <1>1, <1>5
  <2>2. w > watermark
    BY <1>1, <1>2, <1>9, <2>1 DEF IInv, OrderInv
  <2>3. watermark \in Nat
    BY Bounds DEF IInv, TypeOK
  <2>4. QED
    BY <1>1, <1>3, <1>4, <2>2, <2>3
<1>10. \A u \in Update : Settled(u)' <=> Settled(u)
  BY <1>2 DEF Settled, Waiting, Exists, laneVars
<1>11. \A u \in Update : ~(About(u)')
  BY <1>4, <1>5 DEF About
<1>12. OrderInv'
  <2>1. \A u \in Update : Waiting(LaneOf(u), u)' <=> Waiting(LaneOf(u), u)
    BY <1>2 DEF Waiting, Exists, laneVars
  <2>2. ASSUME crashes = 0
        PROVE  /\ \A u \in Update : ~Passed(u) => u > watermark
               /\ \A u \in Update : (Passed(u)') <=> Passed(u)
    BY <1>1, <1>2, <1>4, <1>5, <1>9, <2>2 DEF IInv, OrderInv
  <2>3. QED
    BY <1>1, <1>2, <1>10, <1>11, <2>1, <2>2 DEF IInv, OrderInv, laneVars
<1>13. QED
  BY <1>1, <1>6, <1>7, <1>8, <1>12 DEF IInv

\* The store learns of the update that is handled now, and of no later one.
LEMMA MarkProcessedKeeps ==
    ASSUME IInv, MarkProcessed(Poller)
    PROVE  IInv'
<1> DEFINE w == thread[Poller].update
           at == IF config.lanes THEN "submit" ELSE "handle"
           m == Max({watermark, w})
<1>1. /\ TypeOK' /\ thread[Poller] # None /\ config.mode = "poll" /\ UNCHANGED config
      /\ \A s \in Thread : thread'[s] # None => thread'[s].update <= thread'[s].last
      /\ w \in Update /\ w \in Nat /\ LaneOf(w) \in Lane
  BY PollerStep DEF ThreadStep
<1>2. /\ UNCHANGED <<laneVars, config, offset, disk, confirmed, calls, handled, crashes>>
      /\ thread[Poller].at = "record" /\ Goto(Poller, at) /\ at \in Steps
      /\ watermark' \in {watermark, m}
  BY DEF MarkProcessed, At, Steps
<1>3. (at = "submit" => config.lanes) /\ (at = "handle" => ~config.lanes) /\ at \in {"submit", "handle"}
  BY <1>1 DEF IInv, TypeOK
<1>4. watermark \in Nat /\ m \in {watermark, w}
  <2>1. watermark \in Nat
    BY Bounds DEF IInv, TypeOK
  <2>2. QED
    BY <1>1, <2>1, MaxFacts
<1> HIDE DEF at, m
<1>5. /\ thread'[Poller] # None /\ thread'[Poller].at = at /\ thread'[Poller].update = w
      /\ \A u \in Update : Passed(u) <=> u < w
      /\ \A u \in Update : (Passed(u)') <=> u < w
  BY <1>1, <1>2, <1>3, PollerGoes DEF Past
<1> HIDE DEF w
<1>6. PollerInv'
  BY <1>1, <1>2, <1>3, PollerStays DEF w
<1>7. LanesInv' /\ OnceInv'
  BY <1>2, <1>5, LanesAndOnce DEF laneVars
<1>8. KeptInv'
  BY <1>2, <1>5 DEF IInv, KeptInv
<1>9. \A u \in Update : (Settled(u)' <=> Settled(u)) /\ ~(About(u)')
  BY <1>2, <1>3, <1>5 DEF Settled, Waiting, Exists, laneVars, About
<1>10. \A u \in Update : Waiting(LaneOf(u), u)' <=> Waiting(LaneOf(u), u)
  BY <1>2 DEF Waiting, Exists, laneVars
<1>11. ASSUME crashes = 0, NEW u \in Update, ~Passed(u)
       PROVE  u > watermark' \/ u = w
  <2>1. u > watermark
    BY <1>1, <1>2, <1>11 DEF IInv, OrderInv
  <2>2. u \in Nat /\ ~(u < w)
    BY <1>5, <1>11, Bounds
  <2>3. QED
    BY <1>1, <1>2, <1>4, <2>1, <2>2
<1>12. OrderInv'
  BY <1>1, <1>2, <1>3, <1>5, <1>9, <1>10, <1>11 DEF IInv, OrderInv, laneVars
<1>13. QED
  BY <1>1, <1>6, <1>7, <1>8, <1>12 DEF IInv

\* Without lanes, the update is handled by the polling thread itself.
LEMMA HandleDirectlyKeeps ==
    ASSUME IInv, HandleDirectly(Poller)
    PROVE  IInv'
<1> DEFINE w == thread[Poller].update
<1>1. /\ TypeOK' /\ thread[Poller] # None /\ config.mode = "poll" /\ UNCHANGED config
      /\ \A s \in Thread : thread'[s] # None => thread'[s].update <= thread'[s].last
      /\ w \in Update /\ w \in Nat /\ LaneOf(w) \in Lane
  BY PollerStep DEF ThreadStep
<1>2. /\ UNCHANGED <<laneVars, config, watermark, offset, disk, confirmed, calls, crashes>>
      /\ thread[Poller].at = "handle" /\ Goto(Poller, "advance") /\ "advance" \in Steps
      /\ handled' = [handled EXCEPT ![w] = @ + 1]
  BY DEF HandleDirectly, At, Steps
<1>3. ~config.lanes
  BY <1>1, <1>2 DEF IInv, PollerInv
<1>4. /\ thread'[Poller] # None /\ thread'[Poller].at = "advance" /\ thread'[Poller].update = w
      /\ \A u \in Update : Passed(u) <=> u < w
      /\ \A u \in Update : (Passed(u)') <=> u < w \/ u = w
  BY <1>1, <1>2, PollerGoes DEF Past
<1>5. PollerInv'
  BY <1>1, <1>2, PollerStays
<1> HIDE DEF w
<1>6. /\ handled \in [Update -> Nat] /\ handled' \in [Update -> Nat] /\ crashes \in Nat
      /\ \A u \in Update : u # w => handled'[u] = handled[u]
      /\ handled'[w] = handled[w] + 1
  BY <1>1, <1>2, Bounds DEF IInv, TypeOK
<1>7. \A l \in Lane : ~Exists(l) /\ ~(Exists(l)')
  BY <1>1, <1>2, <1>3 DEF IInv, LanesInv, Exists, laneVars
<1>8. LanesInv'
  BY <1>7 DEF LanesInv
<1>9. OnceInv'
  <2>1. \A u \in Update : handled[u] <= 1 + crashes /\ (~Passed(u) => handled[u] <= crashes)
    BY <1>1 DEF IInv, OnceInv
  <2>2. ASSUME NEW u \in Update
        PROVE  handled'[u] <= 1 + crashes /\ (~(Passed(u)') => handled'[u] <= crashes)
    BY <1>1, <1>4, <1>6, <2>1
  <2>3. QED
    BY <1>2, <1>7, <2>2 DEF OnceInv, Waiting
<1>10. KeptInv'
  BY <1>1, <1>2, <1>4, <1>6 DEF IInv, KeptInv
<1>11. \A u \in Update : (Settled(u) => Settled(u)') /\ ~(Waiting(LaneOf(u), u)') /\ ~(About(u)')
  BY <1>4, <1>6, <1>7, Bounds DEF Settled, Waiting, About
<1>12. \A u \in Update : u = w => Settled(u)'
  BY <1>6 DEF Settled
<1>13. OrderInv'
  <2>1. ASSUME crashes = 0, NEW u \in Update
        PROVE  /\ ~(Passed(u)') => u > watermark
               /\ (Passed(u)') => Settled(u)'
    <3>1. ~Passed(u) => u > watermark \/ u = w
      BY <1>1, <2>1 DEF IInv, OrderInv, w
    <3>2. Passed(u) => Settled(u)
      BY <1>1, <1>3, <2>1 DEF IInv, OrderInv
    <3>3. QED
      BY <1>4, <1>11, <1>12, <3>1, <3>2
  <2>2. QED
    BY <1>1, <1>2, <1>11, <2>1 DEF OrderInv
<1>14. QED
  BY <1>1, <1>5, <1>8, <1>9, <1>10, <1>13 DEF IInv

\* Once Shutdown has begun, an update may be rejected, or its lane be gone.
LEMMA RejectKeeps ==
    ASSUME IInv, ThreadStep(Poller) \/ SubmitDangling(Poller), NEW at \in {"advance", "undefined"},
           thread[Poller].at \in {"submit", "push"}, Goto(Poller, at), shut # "no",
           UNCHANGED <<laneVars, config, watermark, offset, disk, confirmed, calls, handled, crashes>>
    PROVE  IInv'
<1> DEFINE w == thread[Poller].update
<1>1. /\ TypeOK' /\ thread[Poller] # None /\ config.mode = "poll" /\ UNCHANGED config
      /\ \A s \in Thread : thread'[s] # None => thread'[s].update <= thread'[s].last
      /\ w \in Update /\ w \in Nat /\ LaneOf(w) \in Lane
  BY PollerStep
<1>2. config.lanes
  BY <1>1 DEF IInv, PollerInv
<1>3. at \in Steps /\ shut' # "no"
  BY DEF Steps, laneVars
<1>4. /\ thread'[Poller] # None /\ thread'[Poller].at = at /\ thread'[Poller].update = w
      /\ \A u \in Update : Passed(u) <=> u < w
      /\ \A u \in Update : (Passed(u)') <=> u < w \/ u = w
  BY <1>1, <1>3, PollerGoes DEF Past
<1>5. PollerInv'
  BY <1>1, <1>2, <1>3, PollerStays
<1>6. LanesInv' /\ OnceInv'
  BY <1>4, LanesAndOnce DEF laneVars
<1>7. KeptInv'
  BY <1>1, <1>2 DEF KeptInv
<1>8. \A u \in Update : (Settled(u)' <=> Settled(u)) /\ ~(About(u)')
                        /\ (Waiting(LaneOf(u), u)' <=> Waiting(LaneOf(u), u))
  BY <1>4 DEF Settled, Waiting, Exists, laneVars, About
<1>9. OrderInv'
  <2>1. ASSUME crashes = 0, NEW u \in Update, ~(Passed(u)')
        PROVE  u > watermark
    BY <1>1, <1>4, <2>1 DEF IInv, OrderInv
  <2>2. QED
    BY <1>1, <1>2, <1>3, <1>8, <2>1 DEF IInv, OrderInv
<1>10. QED
  BY <1>1, <1>5, <1>6, <1>7, <1>9 DEF IInv

LEMMA SubmitDanglingKeeps ==
    ASSUME IInv, SubmitDangling(Poller)
    PROVE  IInv'
<1>1. thread[Poller] # None /\ thread[Poller].at = "push" /\ Goto(Poller, "undefined")
  BY DEF SubmitDangling, At
<1>2. shut # "no"
  BY <1>1 DEF IInv, PollerInv, SubmitDangling
<1>3. QED
  BY <1>1, <1>2, RejectKeeps DEF SubmitDangling

\* Submit finds the lane of the update, or makes it: every earlier update of the
\* chat is handled or in that lane.
LEMMA FindLaneKeeps ==
    ASSUME IInv, Submit(Poller), At(Poller, "submit"), shut = "no",
           FindLane(LaneOf(thread[Poller].update)), Goto(Poller, "push")
    PROVE  IInv'
<1> DEFINE w == thread[Poller].update
           l == LaneOf(w)
<1>1. /\ TypeOK' /\ thread[Poller] # None /\ config.mode = "poll" /\ UNCHANGED config
      /\ \A s \in Thread : thread'[s] # None => thread'[s].update <= thread'[s].last
      /\ w \in Update /\ w \in Nat /\ l \in Lane
  BY PollerStep DEF ThreadStep
<1>2. /\ UNCHANGED <<config, watermark, offset, disk, confirmed, calls, handled, crashes>>
      /\ thread[Poller].at = "submit" /\ "push" \in Steps
  BY DEF Submit, At, Steps
<1>3. config.lanes
  BY <1>1, <1>2 DEF IInv, PollerInv
<1>4. /\ UNCHANGED shut /\ lanes'[l] # None
      /\ \A k \in Lane : Exists(k) => lanes'[k] = lanes[k]
      /\ \A k \in Lane : ~Exists(k) => lanes'[k] \in {None, NewLane}
  <2>1. LaneType
    BY DEF IInv, TypeOK
  <2>2. FindLane(l)
    OBVIOUS
  <2> HIDE DEF l
  <2>3. QED
    BY <1>1, <2>1, <2>2, FindLaneStep DEF Exists
<1>5. /\ thread'[Poller] # None /\ thread'[Poller].at = "push" /\ thread'[Poller].update = w
      /\ \A u \in Update : Passed(u) <=> u < w
      /\ \A u \in Update : (Passed(u)') <=> u < w
  BY <1>1, <1>2, PollerGoes DEF Past
<1>6. PollerInv'
  <2>1. Exists(LaneOf(thread[Poller].update))'
    BY <1>4, <1>5 DEF Exists
  <2>2. QED
    BY <1>1, <1>2, <1>3, <2>1, PollerStays
<1> HIDE DEF w, l
<1>7. \A k \in Lane, u \in Update : Waiting(k, u)' <=> Waiting(k, u)
  BY <1>4, NewIsEmpty DEF Waiting, Exists
<1>8. LanesInv'
  BY <1>1, <1>2, <1>3, <1>4, <1>5, NewIsEmpty DEF IInv, LanesInv, Exists
<1>9. OnceInv'
  BY <1>2, <1>5, <1>7 DEF IInv, OnceInv
<1>10. KeptInv'
  BY <1>1, <1>3 DEF KeptInv
<1>11. \A u \in Update : (Settled(u)' <=> Settled(u)) /\ ((About(u)') => u = w)
                         /\ (Waiting(LaneOf(u), u)' <=> Waiting(LaneOf(u), u))
  BY <1>2, <1>5, <1>7, Bounds DEF Settled, About
<1>12. ASSUME crashes = 0, NEW u \in Update
       PROVE  /\ ~(Passed(u)') => u > watermark \/ u = w
              /\ (Passed(u)') => Settled(u)
  BY <1>1, <1>5, <1>12 DEF IInv, OrderInv, w
<1>13. ASSUME crashes = 0, NEW u \in Update, NEW v \in Update, v < u, LaneOf(v) = LaneOf(u),
              (About(u)') \/ (Waiting(LaneOf(u), u)')
       PROVE  Settled(v)
  <2>1. CASE Waiting(LaneOf(u), u)
    BY <1>1, <1>13, <2>1 DEF IInv, OrderInv
  <2>2. CASE u = w
    BY <1>5, <1>12, <1>13, <2>2
  <2>3. QED
    BY <1>11, <1>13, <2>1, <2>2
<1>14. OrderInv'
  BY <1>1, <1>2, <1>5, <1>11, <1>12, <1>13 DEF OrderInv
<1>15. QED
  BY <1>1, <1>6, <1>8, <1>9, <1>10, <1>14 DEF IInv

\* Submit pushes the update behind all that its lane holds.
LEMMA PushKeeps ==
    ASSUME IInv, Submit(Poller), At(Poller, "push"),
           Push(LaneOf(thread[Poller].update), thread[Poller].update), Goto(Poller, "advance")
    PROVE  IInv'
<1> DEFINE w == thread[Poller].update
           l == LaneOf(w)
           M == WithTask(lanes[l], w)
<1>1. /\ TypeOK' /\ thread[Poller] # None /\ config.mode = "poll" /\ UNCHANGED config
      /\ \A s \in Thread : thread'[s] # None => thread'[s].update <= thread'[s].last
      /\ w \in Update /\ w \in Nat /\ l \in Lane
  BY PollerStep DEF ThreadStep
<1>2. /\ UNCHANGED <<config, watermark, offset, disk, confirmed, calls, handled, crashes>>
      /\ thread[Poller].at = "push" /\ "advance" \in Steps
  BY DEF Submit, At, Steps
<1>3. config.lanes
  BY <1>1, <1>2 DEF IInv, PollerInv
<1>4. /\ LaneType /\ Exists(l) /\ UNCHANGED shut /\ lanes' = [lanes EXCEPT ![l] = M]
      /\ lanes[l] \in LaneState
  BY <1>1, PushStep, LaneFacts DEF IInv, TypeOK
<1>5. /\ thread'[Poller] # None /\ thread'[Poller].at = "advance" /\ thread'[Poller].update = w
      /\ \A u \in Update : Passed(u) <=> u < w
      /\ \A u \in Update : (Passed(u)') <=> u < w \/ u = w
  BY <1>1, <1>2, PollerGoes DEF Past
<1>6. PollerInv'
  BY <1>1, <1>2, <1>3, PollerStays
<1>7. About(w)
  BY <1>1, <1>2, <1>4 DEF About
<1>8. /\ InOrder(lanes[l])
      /\ \A k \in Lane, u \in Update : Waiting(k, u) => LaneOf(u) = k /\ u < w
  BY <1>1, <1>4, <1>5 DEF IInv, LanesInv, Waiting
<1>9. /\ M \in LaneState /\ InOrder(M)
      /\ \A u \in Update : Holds(M, u) <=> Holds(lanes[l], u) \/ u = w
  BY <1>1, <1>4, <1>8, Pushed DEF Waiting
<1> HIDE DEF M
<1>10. /\ lanes' \in [Lane -> {None} \cup LaneState] /\ lanes'[l] = M /\ M # None
       /\ \A k \in Lane : k # l => lanes'[k] = lanes[k]
  BY <1>1, <1>4, <1>9, OneLane
<1> HIDE DEF w, l
<1>11. /\ \A k \in Lane : Exists(k)' <=> Exists(k)
       /\ \A k \in Lane, u \in Update : Waiting(k, u)' <=> Waiting(k, u) \/ (k = l /\ u = w)
  BY <1>4, <1>9, <1>10 DEF Waiting, Exists
<1>12. \A u \in Update : Settled(u) => Settled(u)'
  BY <1>2, <1>11, Bounds DEF Settled
<1>13. \A u \in Update : u = w => Settled(u)'
  BY <1>11, Bounds DEF Settled, l
<1>14. LanesInv'
  <2>1. ASSUME NEW k \in Lane, Exists(k)'
        PROVE  InOrder(lanes'[k])
    <3>1. CASE k = l
      BY <1>9, <1>10, <3>1
    <3>2. CASE k # l
      BY <1>1, <1>10, <1>11, <2>1, <3>2 DEF IInv, LanesInv
    <3>3. QED
      BY <3>1, <3>2
  <2>2. ASSUME NEW k \in Lane, Exists(k)', NEW u \in Update, Holds(lanes'[k], u)
        PROVE  LaneOf(u) = k /\ Passed(u)'
    <3>1. Waiting(k, u)'
      BY <2>2 DEF Waiting
    <3>2. Waiting(k, u) \/ (k = l /\ u = w)
      BY <1>11, <3>1
    <3>3. QED
      BY <1>5, <1>8, <3>2 DEF l
  <2>3. QED
    BY <1>1, <1>3, <2>1, <2>2 DEF LanesInv
<1>15. OnceInv'
  <2>1. \A u \in Update :
          /\ handled[u] <= 1 + crashes
          /\ ~Passed(u) \/ (\E k \in Lane : Waiting(k, u)) => handled[u] <= crashes
    BY <1>1 DEF IInv, OnceInv
  <2>2. ~Passed(w)
    BY <1>1, <1>5
  <2>3. ASSUME NEW u \in Update
        PROVE  /\ handled[u] <= 1 + crashes
               /\ ~(Passed(u)') \/ (\E k \in Lane : Waiting(k, u)') => handled[u] <= crashes
    BY <1>1, <1>5, <1>11, <2>1, <2>2, <2>3
  <2>4. QED
    BY <1>2, <2>3 DEF OnceInv
<1>16. KeptInv'
  BY <1>1, <1>3 DEF KeptInv
<1>17. \A u \in Update : ~(About(u)')
  BY <1>5 DEF About
<1>18. ASSUME crashes = 0, NEW u \in Update
       PROVE  /\ ~(Passed(u)') => u > watermark
              /\ (Passed(u)') /\ shut = "no" => Settled(u)'
  <2>1. ~Passed(u) => u > watermark \/ u = w
    BY <1>1, <1>18 DEF IInv, OrderInv, w
  <2>2. Passed(u) /\ shut = "no" => Settled(u)
    BY <1>1, <1>18 DEF IInv, OrderInv
  <2>3. QED
    BY <1>5, <1>12, <1>13, <2>1, <2>2
<1>19. ASSUME crashes = 0, NEW u \in Update, NEW v \in Update, v < u, LaneOf(v) = LaneOf(u),
              Waiting(LaneOf(u), u)'
       PROVE  Settled(v)'
  <2>1. Waiting(LaneOf(u), u) \/ u = w
    BY <1>11, <1>19, Bounds
  <2>2. Settled(v)
    BY <1>1, <1>7, <1>19, <2>1 DEF IInv, OrderInv
  <2>3. QED
    BY <1>12, <2>2
<1>20. OrderInv'
  BY <1>1, <1>2, <1>3, <1>4, <1>17, <1>18, <1>19 DEF OrderInv
<1>21. QED
  BY <1>1, <1>6, <1>14, <1>15, <1>16, <1>20 DEF IInv

LEMMA SubmitKeeps ==
    ASSUME IInv, Submit(Poller)
    PROVE  IInv'
<1>1. CASE At(Poller, "submit") /\ shut = "no" /\ FindLane(LaneOf(thread[Poller].update))
           /\ Goto(Poller, "push")
  BY <1>1, FindLaneKeeps
<1>2. CASE At(Poller, "submit") /\ shut # "no" /\ Goto(Poller, "advance") /\ UNCHANGED laneVars
  BY <1>2, RejectKeeps DEF Submit, ThreadStep, At
<1>3. CASE At(Poller, "push") /\ Push(LaneOf(thread[Poller].update), thread[Poller].update)
           /\ Goto(Poller, "advance")
  BY <1>3, PushKeeps
<1>4. QED
  BY <1>1, <1>2, <1>3 DEF Submit

\* What the polling thread has passed stays the same while it moves the offset
\* and saves it.
LEMMA AdvanceFacts ==
    ASSUME IInv, Advance(Poller)
    PROVE  /\ thread[Poller] # None /\ thread[Poller].at \in {"advance", "write"}
           /\ \A u \in Update : Passed(u) <=> u <= thread[Poller].update
           /\ \A u \in Update : (Passed(u)') <=> u <= thread[Poller].update
           /\ PollerInv'
           /\ thread'[Poller] # None => thread'[Poller].at \in {"write", "check"}
           /\ \A u \in Update : u <= offset' => u <= thread[Poller].update
           /\ \A u \in Update : u <= disk'.offset => u <= thread[Poller].update
<1> DEFINE w == thread[Poller].update
<1>1. /\ TypeOK' /\ thread[Poller] # None /\ config.mode = "poll" /\ UNCHANGED config
      /\ \A s \in Thread : thread'[s] # None => thread'[s].update <= thread'[s].last
      /\ thread[Poller] \in ThreadState /\ w \in Update /\ w \in Nat /\ LaneOf(w) \in Lane
  BY PollerStep DEF ThreadStep
<1>2. thread[Poller].at \in {"advance", "write"} /\ UNCHANGED <<laneVars, confirmed>>
  BY DEF Advance, At
<1>3. \A u \in Update : u \in Nat /\ u > 0
  BY Bounds DEF Update
<1>4. \A u \in Update : Passed(u) <=> u <= w
  BY <1>1, <1>2, <1>3 DEF Passed, Past
<1>5. disk \in [offset : 0 .. MaxUpdate, watermark : 0 .. MaxUpdate] /\ confirmed < w
      /\ confirmed \in Nat /\ \A t \in Hook : thread[t] = None
  BY <1>1, Bounds DEF IInv, TypeOK, PollerInv
<1>6. CASE At(Poller, "advance")
  <2>1. thread[Poller].at = "advance" /\ "write" \in Steps /\ Goto(Poller, "write")
        /\ offset' = w /\ disk' = [disk EXCEPT !.offset = Truncated]
    BY <1>6 DEF At, Steps, Advance
  <2>2. disk'.offset = 0
    BY <1>5, <2>1 DEF Truncated
  <2>3. /\ thread'[Poller] # None /\ thread'[Poller].at = "write"
        /\ \A u \in Update : (Passed(u)') <=> u <= w
    BY <1>1, <1>3, <2>1, PollerGoes DEF Past
  <2>4. PollerInv'
    BY <1>1, <1>2, <2>1, PollerStays
  <2> HIDE DEF w
  <2>5. QED
    BY <1>1, <1>2, <1>3, <1>4, <2>1, <2>2, <2>3, <2>4 DEF w
<1>7. CASE At(Poller, "write")
  <2> DEFINE p == [at |-> "check", update |-> w + 1, last |-> thread[Poller].last]
  <2>1. thread[Poller].at = "write" /\ UNCHANGED offset /\ disk' = [disk EXCEPT !.offset = offset]
        /\ thread' = [thread EXCEPT ![Poller] = IF w < thread[Poller].last THEN p ELSE None]
    BY <1>7 DEF At, Advance
  <2>2. disk'.offset = offset
    BY <1>5, <2>1
  <2>3. offset = w
    BY <1>1, <2>1 DEF IInv, PollerInv
  <2>4. p.at = "check" /\ p.update = w + 1
    OBVIOUS
  <2> HIDE DEF p
  <2>5. Poller \in Thread /\ thread'[Poller] \in {p, None} /\ \A t \in Hook : thread'[t] = None
    BY <1>5, <2>1, Bounds DEF IInv, TypeOK, Thread
  <2> HIDE DEF w
  <2>6. Max({offset, confirmed}) = w
    <3>1. \A a, b \in Nat : Max({a, b}) \in {a, b} /\ Max({a, b}) >= a /\ Max({a, b}) >= b
      BY MaxFacts
    <3>2. Max({offset, confirmed}) \in {offset, confirmed} /\ Max({offset, confirmed}) >= offset
      BY <1>1, <1>5, <2>3, <3>1
    <3>3. QED
      BY <1>1, <1>5, <2>3, <3>2
  <2>7. ASSUME NEW u \in Update PROVE (Passed(u)') <=> u <= w
    <3>1. CASE thread'[Poller] = None
      <4>1. (Passed(u)') <=> u <= Max({offset, confirmed})
        BY <1>2, <2>1, <3>1 DEF Passed
      <4>2. QED
        BY <2>6, <4>1
    <3>2. CASE thread'[Poller] # None
      <4>1. thread'[Poller] = p
        BY <2>5, <3>2
      <4>2. (Passed(u)') <=> u < w + 1 \/ (u = w + 1 /\ "check" \in Past)
        BY <2>4, <3>2, <4>1 DEF Passed
      <4>3. QED
        BY <1>1, <1>3, <4>2 DEF Past
    <3>3. QED
      BY <3>1, <3>2
  <2>8. PollerInv'
    BY <1>1, <1>2, <1>5, <2>4, <2>5 DEF PollerInv
  <2>9. QED
    BY <1>1, <1>2, <1>4, <2>1, <2>2, <2>3, <2>4, <2>5, <2>7, <2>8 DEF w
<1>8. QED
  BY <1>6, <1>7 DEF Advance

LEMMA AdvanceKeeps ==
    ASSUME IInv, Advance(Poller)
    PROVE  IInv'
<1> DEFINE w == thread[Poller].update
<1>1. /\ TypeOK' /\ config.mode = "poll" /\ UNCHANGED config /\ w \in Update /\ w \in Nat
  BY PollerStep DEF ThreadStep
<1>2. /\ UNCHANGED <<laneVars, config, watermark, confirmed, calls, handled, crashes>>
  BY DEF Advance
<1>3. /\ thread[Poller] # None /\ thread[Poller].at \in {"advance", "write"}
      /\ \A u \in Update : Passed(u) <=> u <= w
      /\ \A u \in Update : (Passed(u)') <=> u <= w
      /\ PollerInv'
      /\ thread'[Poller] # None => thread'[Poller].at \in {"write", "check"}
      /\ \A u \in Update : u <= offset' => u <= w
      /\ \A u \in Update : u <= disk'.offset => u <= w
  BY AdvanceFacts
<1>4. LanesInv' /\ OnceInv'
  BY <1>2, <1>3, LanesAndOnce DEF laneVars
<1>5. KeptInv'
  BY <1>2, <1>3 DEF IInv, KeptInv
<1>6. \A u \in Update : (Settled(u)' <=> Settled(u)) /\ ~(About(u)')
                        /\ (Waiting(LaneOf(u), u)' <=> Waiting(LaneOf(u), u))
  BY <1>2, <1>3 DEF Settled, Waiting, Exists, laneVars, About
<1>7. ASSUME crashes = 0, NEW u \in Update, ~(Passed(u)')
      PROVE  u > watermark
  BY <1>1, <1>3, <1>7 DEF IInv, OrderInv
<1>8. OrderInv'
  BY <1>1, <1>2, <1>3, <1>6, <1>7 DEF IInv, OrderInv, laneVars
<1>9. QED
  BY <1>1, <1>3, <1>4, <1>5, <1>8 DEF IInv

-----------------------------------------------------------------------------
(* The rest *)

\* Polling for more confirms what the polling thread is past.
LEMMA PollKeeps ==
    ASSUME IInv, NEW last \in Update, Poll(last)
    PROVE  IInv'
<1> DEFINE known == Max({offset, confirmed})
           p == [at |-> "check", update |-> known + 1, last |-> last]
<1>1. /\ TypeOK' /\ config.mode = "poll" /\ thread[Poller] = None /\ known < last
      /\ thread' = [thread EXCEPT ![Poller] = p] /\ confirmed' = known
      /\ UNCHANGED <<laneVars, config, watermark, offset, disk, calls, handled, crashes>>
  BY DeliveryTypes DEF IInv, Poll
<1>2. \A u \in Update : u \in Nat
  BY Bounds
<1>3. offset \in Nat /\ confirmed \in Nat
  BY Bounds DEF IInv, TypeOK
<1>4. known \in Nat
  <2>1. Max({offset, confirmed}) \in {offset, confirmed}
    BY <1>3, MaxFacts
  <2>2. QED
    BY <1>3, <2>1
<1>5. p.at = "check" /\ p.update = known + 1 /\ p.last = last
  OBVIOUS
<1>6. \A u \in Update : Passed(u) <=> u <= known
  BY <1>1 DEF Passed
<1> HIDE DEF known, p
<1>7. /\ Poller \in Thread /\ thread'[Poller] = p
      /\ \A t \in Thread : t # Poller => thread'[t] = thread[t]
  BY <1>1, Bounds DEF IInv, TypeOK
<1>8. p # None
  <2>1. p \in ThreadState
    BY <1>1, <1>7, Bounds, ThreadFacts DEF TypeOK, p, ThreadState, Steps, Update, known
  <2>2. QED
    BY <2>1, Bounds
<1>9. \A u \in Update : (Passed(u)') <=> u <= known
  <2>1. \A u \in Update : (Passed(u)') <=> u < known + 1 \/ (u = known + 1 /\ "check" \in Past)
    BY <1>5, <1>7, <1>8 DEF Passed
  <2>2. QED
    BY <1>2, <1>4, <2>1 DEF Past
<1>10. PollerInv'
  <2>1. \A t \in Thread : thread'[t] # None => thread'[t].update <= thread'[t].last
    <3>1. p.update <= p.last
      BY <1>1, <1>2, <1>4, <1>5
    <3>2. QED
      BY <1>7, <3>1 DEF IInv, PollerInv
  <2>2. \A t \in Hook : thread'[t] = None
    BY <1>1, <1>7, Bounds DEF IInv, PollerInv, Thread
  <2>3. confirmed' < p.update
    BY <1>1, <1>4, <1>5
  <2>4. QED
    BY <1>1, <1>5, <1>7, <2>1, <2>2, <2>3 DEF PollerInv
<1>11. LanesInv' /\ OnceInv'
  BY <1>1, <1>6, <1>9, LanesAndOnce DEF laneVars
<1>12. KeptInv'
  BY <1>1, <1>6, <1>9 DEF IInv, KeptInv
<1>13. \A u \in Update : (Settled(u)' <=> Settled(u)) /\ ~(About(u)')
                         /\ (Waiting(LaneOf(u), u)' <=> Waiting(LaneOf(u), u))
  BY <1>1, <1>5, <1>7 DEF Settled, Waiting, Exists, laneVars, About
<1>14. ASSUME crashes = 0, NEW u \in Update, ~(Passed(u)')
       PROVE  u > watermark
  BY <1>1, <1>6, <1>9, <1>14 DEF IInv, OrderInv
<1>15. OrderInv'
  BY <1>1, <1>6, <1>9, <1>13, <1>14 DEF IInv, OrderInv, laneVars
<1>16. QED
  BY <1>1, <1>10, <1>11, <1>12, <1>15 DEF IInv

LEMMA HandleWebhookUpdateKeeps ==
    ASSUME IInv, NEW t \in Thread, NEW u \in Update, HandleWebhookUpdate(t, u)
    PROVE  IInv'
<1> DEFINE p == [at |-> "check", update |-> u, last |-> u]
<1>1. /\ TypeOK' /\ config.mode # "poll" /\ UNCHANGED config /\ t # Poller
      /\ thread' = [thread EXCEPT ![t] = p] /\ u \in Nat
  BY DeliveryTypes, Bounds DEF IInv, HandleWebhookUpdate
<1>2. p.update = u /\ p.last = u
  OBVIOUS
<1> HIDE DEF p
<1>3. thread'[t] = p /\ \A s \in Thread : s # t => thread'[s] = thread[s]
  BY <1>1 DEF IInv, TypeOK
<1>4. \A s \in Thread : thread'[s] # None => thread'[s].update <= thread'[s].last
  BY <1>1, <1>2, <1>3 DEF IInv, PollerInv
<1>5. thread'[Poller] = None
  BY <1>1, <1>3, Bounds DEF IInv, PollerInv
<1>6. QED
  BY <1>1, <1>4, <1>5, NotPolling

\* Saving the store leaves all but its file as it is.
LEMMA SaveStoreKeeps ==
    ASSUME IInv, SaveStore
    PROVE  IInv'
<1>1. UNCHANGED <<laneVars, config, thread, watermark, offset, confirmed, calls, handled, crashes>>
      /\ disk' = [disk EXCEPT !.watermark = watermark]
  BY DEF SaveStore
<1>2. /\ disk \in [offset : 0 .. MaxUpdate, watermark : 0 .. MaxUpdate]
      /\ watermark \in 0 .. MaxUpdate
  BY DEF IInv, TypeOK
<1>3. disk' \in [offset : 0 .. MaxUpdate, watermark : 0 .. MaxUpdate] /\ disk'.offset = disk.offset
  BY <1>1, <1>2
<1>4. TypeOK'
  BY <1>1, <1>3 DEF IInv, TypeOK, LaneType, laneVars
<1>5. \A u \in Update : Passed(u)' <=> Passed(u)
  BY <1>1, PassedSame
<1>6. PollerInv'
  BY <1>1 DEF IInv, PollerInv, laneVars, Exists
<1>7. LanesInv' /\ OnceInv'
  BY <1>1, <1>5, LanesAndOnce DEF laneVars
<1>8. KeptInv'
  BY <1>1, <1>3, <1>5 DEF IInv, KeptInv
<1>9. \A u \in Update : /\ Settled(u)' <=> Settled(u)
                        /\ About(u)' <=> About(u)
                        /\ Waiting(LaneOf(u), u)' <=> Waiting(LaneOf(u), u)
  BY <1>1 DEF Settled, Waiting, Exists, laneVars, About
<1>10. OrderInv'
  BY <1>1, <1>5, <1>9 DEF IInv, OrderInv, laneVars
<1>11. QED
  BY <1>4, <1>6, <1>7, <1>8, <1>10 DEF IInv

\* After a crash polling begins where the saved offset or the server says, and
\* everything up to there was handled, if that was promised.
LEMMA CrashKeeps ==
    ASSUME IInv, Crash
    PROVE  IInv'
<1>1. /\ crashes < MaxCrashes /\ crashes' = crashes + 1
      /\ lanes' = [l \in Lane |-> None] /\ shut' = "no"
      /\ thread' = [t \in Thread |-> None]
      /\ watermark' = disk.watermark /\ offset' = disk.offset
      /\ UNCHANGED <<config, disk, confirmed, calls, handled>>
  BY DEF Crash
<1>2. /\ disk \in [offset : 0 .. MaxUpdate, watermark : 0 .. MaxUpdate]
      /\ disk.offset \in 0 .. MaxUpdate /\ disk.watermark \in 0 .. MaxUpdate
      /\ crashes \in Nat /\ MaxCrashes \in Nat /\ crashes + 1 \in 0 .. MaxCrashes
      /\ handled \in [Update -> Nat] /\ confirmed \in 0 .. MaxUpdate
  BY <1>1, Bounds DEF IInv, TypeOK
<1>3. TypeOK'
  BY <1>1, <1>2 DEF IInv, TypeOK, LaneType
<1>4. \A t \in Thread : thread'[t] = None
  BY <1>1
<1>5. \A l \in Lane : ~(Exists(l)')
  BY <1>1 DEF Exists
<1>6. PollerInv'
  BY <1>4, Bounds DEF PollerInv, Thread
<1>7. LanesInv'
  BY <1>5 DEF LanesInv
<1>8. OnceInv'
  BY <1>1, <1>2 DEF IInv, OnceInv
<1>9. KeptInv'
  <2>1. \A u \in Update : (Passed(u)') <=> u <= Max({disk.offset, confirmed})
    BY <1>1, <1>4, Bounds DEF Passed
  <2>2. disk.offset \in Nat /\ confirmed \in Nat
    BY <1>2, Bounds
  <2>3. Max({disk.offset, confirmed}) \in {disk.offset, confirmed}
    BY <2>2, MaxFacts
  <2>4. QED
    BY <1>1, <2>1, <2>3 DEF IInv, KeptInv
<1>10. OrderInv'
  BY <1>1, <1>2 DEF OrderInv
<1>11. QED
  BY <1>3, <1>6, <1>7, <1>8, <1>9, <1>10 DEF IInv

LEMMA InitHolds == Init => IInv
<1> SUFFICES ASSUME Init PROVE IInv
  OBVIOUS
<1>1. /\ lanes = [l \in Lane |-> None] /\ shut = "no" /\ config \in Configs
      /\ thread = [t \in Thread |-> None] /\ watermark = 0 /\ offset = 0
      /\ disk = [offset |-> 0, watermark |-> 0] /\ confirmed = 0
      /\ calls = [u \in Update |-> 0] /\ handled = [u \in Update |-> 0] /\ crashes = 0
  BY DEF Init, LaneInit
<1>2. TypeOK
  BY <1>1, Bounds DEF TypeOK, LaneType
<1>3. Max({offset, confirmed}) = 0
  <2>1. Max({0, 0}) \in {0, 0}
    BY MaxFacts
  <2>2. QED
    BY <1>1, <2>1
<1>4. \A u \in Update : u > 0 /\ u \in Nat /\ LaneOf(u) \in Lane
  BY Bounds DEF Update
<1>5. \A u \in Update : ~Passed(u)
  BY <1>1, <1>3, <1>4, Bounds DEF Passed
<1>6. PollerInv
  BY <1>1, Bounds DEF PollerInv, Thread
<1>7. \A l \in Lane : ~Exists(l)
  BY <1>1 DEF Exists
<1>8. LanesInv /\ OnceInv
  BY <1>1, <1>7 DEF LanesInv, OnceInv, Waiting
<1>9. KeptInv
  <2>1. disk.offset = 0
    BY <1>1
  <2>2. QED
    BY <1>1, <1>4, <1>5, <2>1 DEF KeptInv
<1>10. OrderInv
  BY <1>1, <1>4, <1>5, <1>7, Bounds DEF OrderInv, About, Waiting
<1>11. QED
  BY <1>2, <1>6, <1>8, <1>9, <1>10 DEF IInv

LEMMA StutterKeeps ==
    ASSUME IInv, UNCHANGED vars
    PROVE  IInv'
<1>1. UNCHANGED <<laneVars, config, thread, watermark, offset, disk, confirmed, calls, handled, crashes>>
  BY DEF vars
<1>2. shut' = shut /\ Unchanging
  BY <1>1 DEF Unchanging, LaneType, Exists, Waiting, laneVars, IInv, TypeOK
<1>3. QED
  BY <1>1, <1>2, LanesGoOn

LEMMA Inductive ==
    ASSUME IInv, [Next]_vars
    PROVE  IInv'
<1>1. CASE \E last \in Update : Poll(last)
  BY <1>1, PollKeeps
<1>2. ASSUME NEW t \in Thread, ThreadStep(t) \/ SubmitDangling(t)
      PROVE  IInv'
  <2>1. CASE t \in Hook
    BY <1>2, <2>1, HookKeeps
  <2>2. CASE t = Poller
    BY <1>2, <2>2, CheckDuplicateKeeps, MarkProcessedKeeps, HandleDirectlyKeeps, SubmitKeeps,
       AdvanceKeeps, SubmitDanglingKeeps DEF ThreadStep
  <2>3. QED
    BY <2>1, <2>2 DEF Thread
<1>3. CASE \E t \in Thread, u \in Update : HandleWebhookUpdate(t, u)
  BY <1>3, HandleWebhookUpdateKeeps
<1>4. ASSUME NEW l \in Lane, LaneStep(l)
      PROVE  IInv'
  BY <1>4, WorkerKeeps, HandleMessageKeeps DEF LaneStep
<1>5. CASE ShutdownStep
  BY <1>5, ShutdownKeeps
<1>6. CASE SaveStore
  BY <1>6, SaveStoreKeeps
<1>7. CASE Crash
  BY <1>7, CrashKeeps
<1>8. CASE UNCHANGED vars
  BY <1>8, StutterKeeps
<1>9. QED
  BY <1>1, <1>2, <1>3, <1>4, <1>5, <1>6, <1>7, <1>8 DEF Next

LEMMA Invariant == Spec => []IInv
<1>1. IInv /\ [Next]_vars => IInv'
  BY Inductive
<1>2. QED
  BY <1>1, InitHolds, PTL DEF Spec

-----------------------------------------------------------------------------
(* What the runs check *)

\* The channel's, the store's and the lanes' data keep their types.
THEOREM Typed == Spec => []TypeOK
<1>1. IInv => TypeOK
  BY DEF IInv
<1>2. QED
  BY <1>1, Invariant, PTL

\* Telegram is not told to forget an update that was not handled, as the gateway
\* configures the channel, and a polled update is handled again only after a
\* crash, whatever the configuration (PollingLoop, HandleUpdate and
\* SaveLastUpdateId in channels/telegram_channel.cpp).
THEOREM PolledKeptAlways == Spec => []PolledKept
<1>1. IInv => PolledKept
  BY DEF IInv, KeptInv, OnceInv, PolledKept, NoPolledLoss, PolledOnce
<1>2. QED
  BY <1>1, Invariant, PTL

\* Only the polling thread itself, without lanes, and the workers handle polled
\* updates.
LEMMA WhoHandles ==
    ASSUME IInv, [Next]_vars, config.mode = "poll"
    PROVE  \/ UNCHANGED handled
           \/ HandleDirectly(Poller)
           \/ \E l \in Lane : HandleMessage(l)
<1>1. ASSUME NEW t \in Hook, ThreadStep(t)
      PROVE  FALSE
  <2>1. thread[t] # None
    BY <1>1, ThreadShape DEF IInv, Thread
  <2>2. QED
    BY <2>1 DEF IInv, PollerInv
<1>2. ASSUME NEW t \in Thread, ThreadStep(t) \/ SubmitDangling(t)
      PROVE  UNCHANGED handled \/ (HandleDirectly(t) /\ t = Poller)
  BY <1>1, <1>2 DEF ThreadStep, CheckDuplicate, MarkProcessed, Submit, Advance, SubmitDangling, Thread
<1>3. CASE \/ \E last \in Update : Poll(last)
           \/ \E t \in Thread, u \in Update : HandleWebhookUpdate(t, u)
           \/ ShutdownStep
           \/ SaveStore
           \/ Crash
           \/ UNCHANGED vars
  BY <1>3 DEF Poll, HandleWebhookUpdate, ShutdownStep, SaveStore, Crash, vars
<1>4. ASSUME NEW l \in Lane, LaneStep(l)
      PROVE  UNCHANGED handled \/ HandleMessage(l)
  BY <1>4 DEF LaneStep
<1>5. QED
  BY <1>2, <1>3, <1>4 DEF Next

\* Polled messages of one chat reach HandleMessage in the order they were sent:
\* the lane's queue keeps it (LaneProcessor::Submit and worker_thread), and what
\* is not in the lane by then was handled.
THEOREM ChatOrderAlways == Spec => ChatOrder
<1>1. ASSUME IInv, [Next]_vars, NEW u \in Update, handled'[u] > handled[u], config.mode = "poll",
             NEW v \in 1 .. u - 1, LaneOf(v) = LaneOf(u), ~(crashes > 0)
      PROVE  handled[v] > 0
  <2>1. u \in Nat /\ v \in Update /\ v \in Nat /\ v < u /\ LaneOf(u) \in Lane
    BY Bounds DEF Update
  <2>2. crashes = 0 /\ handled \in [Update -> Nat]
    BY <1>1 DEF IInv, TypeOK
  <2>3. handled[u] \in Nat /\ handled[v] \in Nat /\ handled'[u] # handled[u]
    BY <1>1, <2>1, <2>2
  <2>4. CASE HandleDirectly(Poller)
    <3>1. /\ thread[Poller] # None /\ thread[Poller].at = "handle"
          /\ handled' = [handled EXCEPT ![thread[Poller].update] = @ + 1]
      BY <2>4 DEF HandleDirectly, At
    <3>2. u = thread[Poller].update
      BY <2>2, <2>3, <3>1
    <3>3. Passed(v) /\ ~config.lanes
      BY <1>1, <2>1, <3>1, <3>2 DEF Passed, IInv, PollerInv
    <3>4. Settled(v)
      BY <1>1, <2>1, <2>2, <3>3 DEF IInv, OrderInv
    <3>5. ~Exists(LaneOf(v))
      BY <1>1, <2>1, <3>3 DEF IInv, LanesInv
    <3>6. QED
      BY <3>4, <3>5 DEF Settled, Waiting
  <2>5. ASSUME NEW l \in Lane, HandleMessage(l)
        PROVE  handled[v] > 0
    <3> DEFINE L == lanes[l]
    <3>1. /\ Exists(l) /\ L.at = "run"
          /\ handled' = [handled EXCEPT ![L.task] = @ + 1]
      BY <2>5 DEF HandleMessage, TaskEnds
    <3>2. u = L.task
      BY <2>2, <2>3, <3>1
    <3>3. Holds(L, u)
      BY <3>1, <3>2 DEF Holds
    <3>4. InOrder(L) /\ LaneOf(u) = l
      BY <1>1, <3>1, <3>3 DEF IInv, LanesInv
    <3>5. Waiting(LaneOf(u), u)
      BY <3>1, <3>3, <3>4 DEF Waiting
    <3>6. Settled(v)
      BY <1>1, <2>1, <2>2, <3>5 DEF IInv, OrderInv
    <3>7. ~Holds(L, v)
      <4>1. L.task = u /\ \A i \in DOMAIN L.queue : u < L.queue[i]
        BY <3>1, <3>2, <3>4 DEF InOrder
      <4>2. \A i \in DOMAIN L.queue : L.queue[i] # v
        BY <2>1, <4>1
      <4>3. QED
        BY <2>1, <4>1, <4>2 DEF Holds
    <3>8. QED
      BY <1>1, <3>4, <3>6, <3>7 DEF Settled, Waiting
  <2>6. QED
    BY <1>1, <2>3, <2>4, <2>5, WhoHandles
<1>2. IInv /\ [Next]_vars =>
        [\A u \in Update : handled'[u] > handled[u] /\ config.mode = "poll" =>
            \A v \in 1 .. u - 1 : LaneOf(v) = LaneOf(u) => handled[v] > 0 \/ crashes > 0]_vars
  BY <1>1
<1>3. QED
  BY <1>2, Invariant, PTL DEF Spec, ChatOrder
=============================================================================
