-------------------------- MODULE AgentWorkProofs --------------------------
(***************************************************************************)
(* Proofs about AgentWork for every set of threads, every limit of         *)
(* children and every bound: how far the limit of children can be passed,  *)
(* that the file of the jobs follows the table, that the AgentLoop runs    *)
(* one turn at a time, and that a subagent spawned in a turn stays stuck.  *)
(***************************************************************************)
EXTENDS AgentWork, TLAPS, FiniteSetTheorems

-----------------------------------------------------------------------------
(* Stacks *)

LEMMA FrameType ==
    ASSUME NEW at \in Places, NEW of \in Run \cup Job \cup {None}
    PROVE  Frame(at, of) \in Frames /\ Frame(at, of).at = at /\ Frame(at, of).of = of
  BY DEF Frame, Frames

\* A call puts a frame on a stack whose top may call.
LEMMA Pushed ==
    ASSUME NEW s \in Seq(Frames), Shaped(s), s[Len(s)].at \in Callers,
           NEW f \in Frames, f.at # "idle"
    PROVE  /\ Append(s, f) \in Seq(Frames) /\ Shaped(Append(s, f))
           /\ Append(s, f)[Len(Append(s, f))] = f
           /\ Turns(Append(s, f)) =
                IF f.at \in {"turn", "child"} THEN Turns(s) \cup {Len(s) + 1} ELSE Turns(s)
<1> DEFINE r == Append(s, f)
<1>1. /\ r \in Seq(Frames) /\ Len(r) = Len(s) + 1 /\ r[Len(r)] = f
      /\ \A i \in 1 .. Len(s) : r[i] = s[i]
      /\ Len(s) \in Nat
  OBVIOUS
<1> HIDE DEF r
<1>2. Shaped(r)
  BY <1>1 DEF Shaped
<1>3. Turns(r) = IF f.at \in {"turn", "child"} THEN Turns(s) \cup {Len(s) + 1} ELSE Turns(s)
  BY <1>1 DEF Turns
<1>4. QED
  BY <1>1, <1>2, <1>3 DEF r

\* A return uncovers a place that calls.
LEMMA Popped ==
    ASSUME NEW s \in Seq(Frames), Shaped(s), s[Len(s)].at # "idle"
    PROVE  LET r == SubSeq(s, 1, Len(s) - 1) IN
           /\ r \in Seq(Frames) /\ Shaped(r) /\ r[Len(r)].at \in Callers
           /\ Turns(r) = Turns(s) \ {Len(s)}
<1> DEFINE r == SubSeq(s, 1, Len(s) - 1)
<1>1. Len(s) \in Nat /\ Len(s) > 1
  BY DEF Shaped
<1>2. /\ r \in Seq(Frames) /\ Len(r) = Len(s) - 1
      /\ \A i \in 1 .. Len(s) - 1 : r[i] = s[i]
  BY <1>1
<1> HIDE DEF r
<1>3. Shaped(r) /\ r[Len(r)].at \in Callers
  BY <1>1, <1>2 DEF Shaped
<1>4. Turns(r) = Turns(s) \ {Len(s)}
  BY <1>1, <1>2 DEF Turns
<1>5. QED
  BY <1>2, <1>3, <1>4 DEF r

\* A thread at work goes on to another place.
LEMMA Replaced ==
    ASSUME NEW s \in Seq(Frames), Shaped(s), s[Len(s)].at # "idle",
           NEW f \in Frames, f.at # "idle"
    PROVE  LET r == Append(SubSeq(s, 1, Len(s) - 1), f) IN
           /\ r \in Seq(Frames) /\ Shaped(r) /\ r[Len(r)] = f
           /\ Turns(r) = IF f.at \in {"turn", "child"}
                         THEN (Turns(s) \ {Len(s)}) \cup {Len(s)} ELSE Turns(s) \ {Len(s)}
<1> DEFINE p == SubSeq(s, 1, Len(s) - 1)
<1>1. /\ p \in Seq(Frames) /\ Shaped(p) /\ p[Len(p)].at \in Callers
      /\ Turns(p) = Turns(s) \ {Len(s)}
  BY Popped
<1>2. Len(p) + 1 = Len(s)
  BY DEF Shaped
<1> HIDE DEF p
<1>3. QED
  BY <1>1, <1>2, Pushed DEF p

\* Whether the top of a stack is a turn.
LEMMA TopTurn ==
    ASSUME NEW s \in Seq(Frames), Shaped(s)
    PROVE  /\ Len(s) \in 1 .. Len(s)
           /\ Len(s) \in Turns(s) <=> s[Len(s)].at \in {"turn", "child"}
  BY DEF Shaped, Turns

\* One thread's stack changes.
LEMMA StackSet ==
    ASSUME TypeOK, \A u \in Thread : Shaped(thread[u]),
           NEW t \in Thread, NEW s \in Seq(Frames), Shaped(s), SetStack(t, s)
    PROVE  /\ thread' \in [Thread -> Seq(Frames)]
           /\ \A u \in Thread : Shaped(thread'[u])
           /\ thread'[t] = s /\ Top(t)' = s[Len(s)]
           /\ \A u \in Thread : u # t => thread'[u] = thread[u] /\ Top(u)' = Top(u)
<1>1. thread' = [thread EXCEPT ![t] = s]
  BY DEF SetStack
<1>2. QED
  BY <1>1 DEF TypeOK, Top

-----------------------------------------------------------------------------
(* Parts of the invariant that a step leaves alone *)

\* The stack of one thread changes and none of its turns.
LEMMA SameTurns ==
    ASSUME TypeOK, OneTurn, turnLock' = turnLock, NEW t \in Thread,
           \A u \in Thread : u # t => thread'[u] = thread[u],
           Turns(thread'[t]) = Turns(thread[t])
    PROVE  OneTurn'
<1> SUFFICES ASSUME NEW u \in Thread
             PROVE  IF turnLock' = u
                    THEN \E i \in 1 .. Len(thread'[u]) : Turns(thread'[u]) = {i}
                    ELSE Turns(thread'[u]) = {}
  BY DEF OneTurn
<1>1. Turns(thread'[u]) = Turns(thread[u]) /\ Turns(thread'[u]) \subseteq 1 .. Len(thread'[u])
  BY DEF Turns
<1>2. QED
  BY <1>1 DEF OneTurn

\* The scheduler's lock and its writer stay.
LEMMA SameWriter ==
    ASSUME OneWriter, saving' = saving, \A t \in Thread : At(t, "write")' = At(t, "write")
    PROVE  OneWriter'
  BY DEF OneWriter

LEMMA Finite ==
    ASSUME TypeOK
    PROVE  /\ IsFiniteSet(Active) /\ IsFiniteSet(Inserting) /\ IsFiniteSet(Thread)
           /\ Cardinality(Active) \in Nat /\ Cardinality(Inserting) \in Nat
           /\ Cardinality(Thread) \in Nat /\ Cardinality(Thread) >= 1
           /\ Cardinality(Inserting) <= Cardinality(Thread)
           /\ Len(runs) \in Nat
<1>1. Len(runs) \in Nat /\ Active \subseteq 1 .. Len(runs)
  BY DEF TypeOK, Active
<1>2. IsFiniteSet(Active)
  <2>1. IsFiniteSet(1 .. Len(runs))
    BY <1>1, FS_Interval
  <2>2. QED
    BY <1>1, <2>1, FS_Subset
<1>3. IsFiniteSet(Thread) /\ Inserting \subseteq Thread
  BY WorkBounds DEF Inserting
<1>4. IsFiniteSet(Inserting) /\ Cardinality(Inserting) <= Cardinality(Thread)
  BY <1>3, FS_Subset
<1>5. Cardinality(Thread) # 0
  BY <1>3, WorkBounds, FS_EmptySet
<1>6. QED
  BY <1>1, <1>2, <1>3, <1>4, <1>5, FS_CardinalityType

\* No child more, and nobody new between the two critical sections of Spawn.
LEMMA FewerCounted ==
    ASSUME TypeOK, Counted, Active' \subseteq Active, Inserting' \subseteq Inserting,
           Len(runs') = Len(runs)
    PROVE  Counted'
<1>1. /\ Cardinality(Active') <= Cardinality(Active) /\ Cardinality(Active') \in Nat
      /\ Cardinality(Inserting') <= Cardinality(Inserting) /\ Cardinality(Inserting') \in Nat
  BY Finite, FS_Subset, FS_CardinalityType
<1>2. MaxChildren \in Nat /\ MaxRuns \in Nat
  BY WorkBounds
<1>3. QED
  BY <1>1, <1>2, Finite DEF Counted

\* The table and the file stay, and what is not saved yet as well.
LEMMA SameJobs ==
    ASSUME JobsOnDisk, UNCHANGED cronVars, Unsaved \subseteq Unsaved'
    PROVE  JobsOnDisk'
  BY DEF JobsOnDisk, Unlocked, cronVars

\* Who saves, writes or enters a run, when one thread leaves such a place for no
\* other and comes to none.
LEMMA Ordinary ==
    ASSUME IInv, NEW t \in Thread, NEW s \in Seq(Frames), Shaped(s), SetStack(t, s),
           Top(t).at \notin {"write", "save"}, s[Len(s)].at \notin {"write", "save"}
    PROVE  /\ \A u \in Thread : At(u, "write")' = At(u, "write")
           /\ Unsaved' = Unsaved
           /\ Inserting' = IF s[Len(s)].at = "insert" THEN Inserting \cup {t}
                           ELSE Inserting \ {t}
<1>1. /\ Top(t)' = s[Len(s)]
      /\ \A u \in Thread : u # t => Top(u)' = Top(u)
  BY StackSet DEF IInv
<1>2. \A u \in Thread : /\ At(u, "write")' = At(u, "write")
                        /\ At(u, "save")' = At(u, "save")
                        /\ At(u, "save") => Top(u)' = Top(u)
                        /\ At(u, "insert")' = IF u = t THEN s[Len(s)].at = "insert"
                                             ELSE At(u, "insert")
  BY <1>1 DEF At
<1>3. Unsaved' = Unsaved
  <2>1. {u \in Thread : At(u, "save")}' = {u \in Thread : At(u, "save")}
    BY <1>2
  <2>2. QED
    BY <1>2, <2>1 DEF Unsaved
<1>4. QED
  BY <1>2, <1>3 DEF Inserting

\* A step of one thread that touches neither runs nor jobs.
LEMMA StackStep ==
    ASSUME IInv, NEW t \in Thread, NEW s \in Seq(Frames), Shaped(s), SetStack(t, s),
           Top(t).at \notin {"write", "save"},
           s[Len(s)].at \notin {"write", "save", "insert"},
           turnLock' \in Thread \cup {None},
           UNCHANGED <<runs, cronVars, crashes>>
    PROVE  /\ TypeOK' /\ \A u \in Thread : Shaped(thread'[u])
           /\ OneWriter' /\ Counted' /\ JobsOnDisk'
<1>1. /\ thread' \in [Thread -> Seq(Frames)]
      /\ \A u \in Thread : Shaped(thread'[u])
  BY StackSet DEF IInv
<1>2. TypeOK'
  BY <1>1 DEF IInv, TypeOK, cronVars
<1>3. /\ \A u \in Thread : At(u, "write")' = At(u, "write")
      /\ Unsaved' = Unsaved
      /\ Inserting' \subseteq Inserting
  BY Ordinary
<1>4. OneWriter'
  BY <1>3, SameWriter DEF IInv, cronVars
<1>5. Counted'
  BY <1>3, FewerCounted DEF IInv, Active
<1>6. JobsOnDisk'
  BY <1>3, SameJobs DEF IInv
<1>7. QED
  BY <1>1, <1>2, <1>4, <1>5, <1>6

-----------------------------------------------------------------------------
(* Requests *)

\* Where the threads are.
LEMMA AtTop ==
    ASSUME IInv, NEW t \in Thread
    PROVE  /\ thread[t] \in Seq(Frames) /\ Shaped(thread[t])
           /\ Top(t) \in Frames /\ Top(t) = thread[t][Len(thread[t])]
           /\ Pop(t) = SubSeq(thread[t], 1, Len(thread[t]) - 1)
  BY DEF IInv, TypeOK, Shaped, Top, Pop

\* A call that touches neither runs nor jobs, and is no turn.
LEMMA CallIInv ==
    ASSUME IInv, NEW t \in Thread, Top(t).at \in Callers,
           NEW f \in Frames, f.at \notin {"idle", "turn", "child", "write", "save", "insert"},
           SetStack(t, Append(thread[t], f)), UNCHANGED <<turnLock, runs, cronVars, crashes>>
    PROVE  IInv'
<1> DEFINE s == Append(thread[t], f)
<1>1. s \in Seq(Frames) /\ Shaped(s) /\ s[Len(s)] = f /\ Turns(s) = Turns(thread[t])
  BY AtTop, Pushed
<1>2. Top(t).at \notin {"write", "save"} /\ turnLock' \in Thread \cup {None}
  BY DEF Callers, IInv, TypeOK
<1> HIDE DEF s
<1>3. /\ TypeOK' /\ \A u \in Thread : Shaped(thread'[u])
      /\ OneWriter' /\ Counted' /\ JobsOnDisk'
  BY <1>1, <1>2, StackStep DEF s
<1>4. thread'[t] = s /\ \A u \in Thread : u # t => thread'[u] = thread[u]
  BY <1>1, StackSet DEF s, IInv
<1>5. OneTurn'
  BY <1>1, <1>4, SameTurns DEF IInv
<1>6. QED
  BY <1>3, <1>5 DEF IInv

\* A return that touches neither runs nor jobs, from a place that is no turn.
LEMMA ReturnIInv ==
    ASSUME IInv, NEW t \in Thread, Top(t).at \notin {"idle", "turn", "child", "write", "save"},
           Return(t), UNCHANGED <<turnLock, runs, cronVars, crashes>>
    PROVE  IInv'
<1> DEFINE s == Pop(t)
<1>1. /\ s \in Seq(Frames) /\ Shaped(s) /\ s[Len(s)].at \in Callers
      /\ Turns(s) = Turns(thread[t]) \ {Len(thread[t])}
  BY AtTop, Popped
<1>2. Turns(s) = Turns(thread[t])
  BY <1>1, AtTop, TopTurn
<1> HIDE DEF s
<1>3. SetStack(t, s) /\ turnLock' \in Thread \cup {None}
  BY DEF Return, s, IInv, TypeOK
<1>4. /\ TypeOK' /\ \A u \in Thread : Shaped(thread'[u])
      /\ OneWriter' /\ Counted' /\ JobsOnDisk'
  BY <1>1, <1>3, StackStep DEF Callers
<1>5. thread'[t] = s /\ \A u \in Thread : u # t => thread'[u] = thread[u]
  BY <1>1, <1>3, StackSet DEF IInv
<1>6. OneTurn'
  BY <1>2, <1>5, SameTurns DEF IInv
<1>7. QED
  BY <1>4, <1>6 DEF IInv

LEMMA AskedIInv ==
    ASSUME IInv, NEW t \in Thread,
           Request(t) \/ BeginChain(t) \/ \E j \in Job : Update(t, j)
    PROVE  IInv'
<1> USE DEF Places, Callers
<1>1. CASE Request(t)
  <2>1. Frame("wait", None) \in Frames /\ Frame("wait", None).at = "wait"
    BY FrameType
  <2>2. QED
    BY <1>1, <2>1, CallIInv DEF Request, Call, At
<1>2. CASE BeginChain(t)
  <2>1. Frame("chain", None) \in Frames /\ Frame("chain", None).at = "chain"
    BY FrameType
  <2>2. QED
    BY <1>2, <2>1, CallIInv DEF BeginChain, Call, At
<1>3. ASSUME NEW j \in Job, Update(t, j)
      PROVE  IInv'
  <2>1. Frame("update", j) \in Frames /\ Frame("update", j).at = "update"
    BY FrameType
  <2>2. QED
    BY <1>3, <2>1, CallIInv DEF Update, At
<1>4. QED
  BY <1>1, <1>2, <1>3

LEMMA EndedIInv ==
    ASSUME IInv, NEW t \in Thread, EndChain(t) \/ UpdateThrows(t)
    PROVE  IInv'
  BY ReturnIInv DEF EndChain, UpdateThrows, At

-----------------------------------------------------------------------------
(* Turns *)

\* A thread goes on to the place `at' with what it does it for.
LEMMA WentTo ==
    ASSUME IInv, NEW t \in Thread, Top(t).at # "idle", NEW at \in Places \ {"idle"}, Goto(t, at)
    PROVE  \E s \in Seq(Frames) :
              /\ SetStack(t, s) /\ Shaped(s) /\ s[Len(s)].at = at
              /\ Turns(s) = IF at \in {"turn", "child"}
                            THEN (Turns(thread[t]) \ {Len(thread[t])}) \cup {Len(thread[t])}
                            ELSE Turns(thread[t]) \ {Len(thread[t])}
<1> DEFINE f == Frame(at, Top(t).of)
           s == Append(Pop(t), f)
<1>1. f \in Frames /\ f.at = at
  <2>1. Top(t).of \in Run \cup Job \cup {None}
    BY AtTop DEF Frames
  <2>2. QED
    BY <2>1, FrameType
<1>2. /\ s \in Seq(Frames) /\ Shaped(s) /\ s[Len(s)] = f
      /\ Turns(s) = IF f.at \in {"turn", "child"}
                    THEN (Turns(thread[t]) \ {Len(thread[t])}) \cup {Len(thread[t])}
                    ELSE Turns(thread[t]) \ {Len(thread[t])}
  <2> HIDE DEF f
  <2>1. Pop(t) = SubSeq(thread[t], 1, Len(thread[t]) - 1)
    BY AtTop
  <2>2. /\ thread[t] \in Seq(Frames) /\ Shaped(thread[t])
        /\ thread[t][Len(thread[t])].at # "idle"
    BY AtTop
  <2>3. QED
    BY <1>1, <2>1, <2>2, Replaced
<1>3. SetStack(t, s)
  BY DEF Goto
<1> HIDE DEF s, f
<1>4. QED
  BY <1>1, <1>2, <1>3

\* The mutex is taken when nobody is in a turn, and then for one turn.
LEMMA EnterIInv ==
    ASSUME IInv, NEW t \in Thread, EnterTurn(t) \/ EnterChild(t)
    PROVE  IInv'
<1>1. PICK at \in {"turn", "child"} :
        /\ Goto(t, at) /\ Top(t).at \in {"wait", "start"}
        /\ turnLock = None /\ turnLock' = t
        /\ UNCHANGED <<runs, cronVars, crashes>>
  BY DEF EnterTurn, EnterChild, At
<1>2. PICK s \in Seq(Frames) :
        /\ SetStack(t, s) /\ Shaped(s) /\ s[Len(s)].at = at
        /\ Turns(s) = (Turns(thread[t]) \ {Len(thread[t])}) \cup {Len(thread[t])}
  BY <1>1, WentTo DEF Places
<1>3. /\ TypeOK' /\ \A u \in Thread : Shaped(thread'[u])
      /\ OneWriter' /\ Counted' /\ JobsOnDisk'
  BY <1>1, <1>2, StackStep
<1>4. thread'[t] = s /\ \A u \in Thread : u # t => thread'[u] = thread[u]
  BY <1>2, StackSet DEF IInv
<1>5. \A u \in Thread : Turns(thread[u]) = {}
  BY <1>1, WorkBounds DEF IInv, OneTurn
<1>6. Turns(s) = {Len(thread[t])} /\ Turns(s) \subseteq 1 .. Len(s)
  BY <1>2, <1>5 DEF Turns
<1>7. OneTurn'
  BY <1>1, <1>4, <1>5, <1>6 DEF OneTurn
<1>8. QED
  BY <1>3, <1>7 DEF IInv

\* The mutex is given back by the thread that holds it, with its one turn.
LEMMA LeaveIInv ==
    ASSUME IInv, NEW t \in Thread, NEW s \in Seq(Frames), Shaped(s), SetStack(t, s),
           Top(t).at \in {"turn", "child"}, s[Len(s)].at \in Callers \cup Outcomes,
           Turns(s) = Turns(thread[t]) \ {Len(thread[t])},
           turnLock' = None, UNCHANGED <<runs, cronVars, crashes>>
    PROVE  IInv'
<1>1. /\ TypeOK' /\ \A u \in Thread : Shaped(thread'[u])
      /\ OneWriter' /\ Counted' /\ JobsOnDisk'
  BY StackStep DEF Callers, Outcomes
<1>2. thread'[t] = s /\ \A u \in Thread : u # t => thread'[u] = thread[u]
  BY StackSet DEF IInv
<1>3. Len(thread[t]) \in Turns(thread[t])
  BY AtTop, TopTurn
<1>4. turnLock = t /\ Turns(thread[t]) = {Len(thread[t])}
  BY <1>3 DEF IInv, OneTurn
<1>5. \A u \in Thread : Turns(thread'[u]) = {}
  BY <1>2, <1>4 DEF IInv, OneTurn
<1>6. OneTurn'
  BY <1>5, WorkBounds DEF OneTurn
<1>7. QED
  BY <1>1, <1>6 DEF IInv

LEMMA TurnEndsIInv ==
    ASSUME IInv, NEW t \in Thread, TurnEnds(t)
    PROVE  IInv'
<1>1. /\ Pop(t) \in Seq(Frames) /\ Shaped(Pop(t)) /\ Pop(t)[Len(Pop(t))].at \in Callers
      /\ Turns(Pop(t)) = Turns(thread[t]) \ {Len(thread[t])}
  BY AtTop, Popped DEF TurnEnds, At
<1>2. QED
  BY <1>1, LeaveIInv DEF TurnEnds, At, Return

LEMMA ChildEndsIInv ==
    ASSUME IInv, NEW t \in Thread, NEW outcome \in Outcomes, ChildEnds(t, outcome)
    PROVE  IInv'
<1>1. PICK s \in Seq(Frames) :
        /\ SetStack(t, s) /\ Shaped(s) /\ s[Len(s)].at = outcome
        /\ Turns(s) = Turns(thread[t]) \ {Len(thread[t])}
  BY WentTo DEF Places, Outcomes, ChildEnds, At
<1>2. QED
  BY <1>1, LeaveIInv DEF ChildEnds, At

-----------------------------------------------------------------------------
(* Subagents *)

\* A child is counted only when there are fewer than max_children of them, and
\* no more threads can be between the two critical sections than there are.
LEMMA SpawnIInv ==
    ASSUME IInv, NEW t \in Thread, Spawn(t)
    PROVE  IInv'
<1> DEFINE f == Frame("insert", None)
           s == Append(thread[t], f)
<1>1. /\ Top(t).at \in {"turn", "child", "chain"} /\ SetStack(t, s)
      /\ Cardinality(Active) < MaxChildren
      /\ Len(runs) + Cardinality(Inserting) < MaxRuns
      /\ UNCHANGED <<turnLock, runs, cronVars, crashes>>
  BY DEF Spawn, CallsTools, MaySpawn, Call
<1>2. s \in Seq(Frames) /\ Shaped(s) /\ s[Len(s)].at = "insert" /\ Turns(s) = Turns(thread[t])
  <2>1. f \in Frames /\ f.at = "insert"
    BY FrameType DEF Places
  <2> HIDE DEF f
  <2>2. QED
    BY <1>1, <2>1, AtTop, Pushed DEF Callers
<1> HIDE DEF f, s
<1>3. /\ thread' \in [Thread -> Seq(Frames)]
      /\ \A u \in Thread : Shaped(thread'[u])
      /\ thread'[t] = s /\ \A u \in Thread : u # t => thread'[u] = thread[u]
  BY <1>1, <1>2, StackSet DEF IInv
<1>4. /\ \A u \in Thread : At(u, "write")' = At(u, "write")
      /\ Unsaved' = Unsaved /\ Inserting' = Inserting \cup {t}
  BY <1>1, <1>2, Ordinary
<1>5. TypeOK'
  BY <1>1, <1>3 DEF IInv, TypeOK, cronVars
<1>6. Counted'
  <2>1. TypeOK /\ t \notin Inserting
    BY <1>1 DEF IInv, Inserting, At
  <2>2. Cardinality(Inserting') = Cardinality(Inserting) + 1
    BY <1>4, <2>1, Finite, FS_AddElement
  <2>3. Cardinality(Inserting') <= Cardinality(Thread)
    <3>1. Inserting' \subseteq Thread
      BY DEF Inserting
    <3>2. QED
      BY <2>1, <3>1, Finite, FS_Subset
  <2>4. Active' = Active /\ Len(runs)' = Len(runs)
    BY <1>1 DEF Active
  <2>5. MaxChildren \in Nat /\ MaxRuns \in Nat
    BY WorkBounds
  <2>6. QED
    BY <1>1, <2>1, <2>2, <2>3, <2>4, <2>5, Finite DEF Counted
<1>7. OneTurn'
  BY <1>1, <1>2, <1>3, SameTurns DEF IInv
<1>8. OneWriter' /\ JobsOnDisk'
  BY <1>1, <1>4, SameWriter, SameJobs DEF IInv, cronVars
<1>9. QED
  BY <1>3, <1>5, <1>6, <1>7, <1>8 DEF IInv

LEMMA InsertIInv ==
    ASSUME IInv, NEW t \in Thread, Insert(t)
    PROVE  IInv'
<1> DEFINE n == Len(runs)
           f == Frame("start", n + 1)
           s == Append(Pop(t), f)
<1>1. /\ Top(t).at = "insert" /\ SetStack(t, s) /\ runs' = Append(runs, "running")
      /\ UNCHANGED <<turnLock, cronVars, crashes>>
  BY DEF Insert, At
<1>2. /\ n \in Nat /\ n + 1 <= MaxRuns /\ t \in Inserting
      /\ Cardinality(Inserting \ {t}) = Cardinality(Inserting) - 1
      /\ Cardinality(Inserting \ {t}) \in Nat /\ Cardinality(Inserting) \in Nat
  <2>1. t \in Inserting /\ TypeOK /\ Counted
    BY <1>1 DEF Inserting, At, IInv
  <2>2. /\ Cardinality(Inserting \ {t}) = Cardinality(Inserting) - 1
        /\ Cardinality(Inserting \ {t}) \in Nat
    BY <2>1, Finite, FS_RemoveElement, FS_CardinalityType
  <2>3. MaxRuns \in Nat
    BY WorkBounds
  <2>4. QED
    BY <2>1, <2>2, <2>3, Finite DEF Counted
<1>3. /\ s \in Seq(Frames) /\ Shaped(s) /\ s[Len(s)].at = "start"
      /\ Turns(s) = Turns(thread[t])
  <2>1. n + 1 \in Run
    BY <1>2 DEF Run
  <2>2. f \in Frames /\ f.at = "start"
    BY <2>1, FrameType DEF Places
  <2> HIDE DEF f
  <2>3. /\ thread[t] \in Seq(Frames) /\ Shaped(thread[t])
        /\ thread[t][Len(thread[t])].at = "insert"
        /\ Pop(t) = SubSeq(thread[t], 1, Len(thread[t]) - 1)
    BY <1>1, AtTop
  <2>4. Turns(thread[t]) \ {Len(thread[t])} = Turns(thread[t])
    BY <2>3, TopTurn
  <2>5. thread[t][Len(thread[t])].at # "idle" /\ f.at \notin {"idle", "turn", "child"}
    BY <2>2, <2>3
  <2>6. /\ s \in Seq(Frames) /\ Shaped(s) /\ s[Len(s)] = f
        /\ Turns(s) = Turns(thread[t]) \ {Len(thread[t])}
    BY <2>2, <2>3, <2>5, Replaced
  <2>7. QED
    BY <2>2, <2>4, <2>6
<1> HIDE DEF f, s
<1>4. /\ thread' \in [Thread -> Seq(Frames)]
      /\ \A u \in Thread : Shaped(thread'[u])
      /\ thread'[t] = s /\ \A u \in Thread : u # t => thread'[u] = thread[u]
  BY <1>1, <1>3, StackSet DEF IInv
<1>5. /\ \A u \in Thread : At(u, "write")' = At(u, "write")
      /\ Unsaved' = Unsaved /\ Inserting' = Inserting \ {t}
  BY <1>1, <1>3, Ordinary
<1>6. /\ runs' \in Seq({"running", "completed", "failed"}) /\ Len(runs') = n + 1
      /\ Active' = Active \cup {n + 1} /\ n + 1 \notin Active
  <2>1. runs \in Seq({"running", "completed", "failed"})
    BY DEF IInv, TypeOK
  <2>2. /\ runs' \in Seq({"running", "completed", "failed"}) /\ Len(runs') = n + 1
        /\ runs'[n + 1] = "running" /\ \A i \in 1 .. n : runs'[i] = runs[i]
    BY <1>1, <1>2, <2>1
  <2>3. DOMAIN runs = 1 .. n /\ DOMAIN runs' = 1 .. n + 1
    BY <2>1, <2>2
  <2>4. QED
    BY <1>2, <2>2, <2>3 DEF Active
<1>7. TypeOK'
  BY <1>1, <1>2, <1>4, <1>6 DEF IInv, TypeOK, cronVars
<1>8. Counted'
  <2>1. Cardinality(Active') = Cardinality(Active) + 1
    BY <1>6, Finite, FS_AddElement DEF IInv
  <2>2. MaxChildren \in Nat /\ MaxRuns \in Nat
    BY WorkBounds
  <2>3. QED
    BY <1>2, <1>5, <1>6, <2>1, <2>2, Finite DEF Counted, IInv
<1>9. OneTurn'
  BY <1>1, <1>3, <1>4, SameTurns DEF IInv
<1>10. OneWriter' /\ JobsOnDisk'
  BY <1>1, <1>5, SameWriter, SameJobs DEF IInv, cronVars
<1>11. QED
  BY <1>4, <1>7, <1>8, <1>9, <1>10 DEF IInv

\* A run ends, and with or without an answer no child is added.
LEMMA RunEndsIInv ==
    ASSUME IInv, NEW t \in Thread, RunEnds(t)
    PROVE  IInv'
<1> DEFINE s == Pop(t)
           left == Top(t).at
<1>1. /\ left \in {"completed", "failed", "silent"} /\ SetStack(t, s)
      /\ UNCHANGED <<turnLock, cronVars, crashes>>
      /\ \/ runs' = runs
         \/ left # "silent" /\ runs' = [runs EXCEPT ![Top(t).of] = left]
  BY DEF RunEnds, Return, At
<1>2. /\ s \in Seq(Frames) /\ Shaped(s) /\ s[Len(s)].at \in Callers
      /\ Turns(s) = Turns(thread[t])
  <2>1. /\ thread[t] \in Seq(Frames) /\ Shaped(thread[t])
        /\ thread[t][Len(thread[t])].at \in {"completed", "failed", "silent"}
        /\ s = SubSeq(thread[t], 1, Len(thread[t]) - 1)
    BY <1>1, AtTop
  <2>2. Turns(thread[t]) \ {Len(thread[t])} = Turns(thread[t])
    BY <2>1, TopTurn
  <2>3. QED
    BY <2>1, <2>2, Popped
<1> HIDE DEF s
<1>3. /\ thread' \in [Thread -> Seq(Frames)]
      /\ \A u \in Thread : Shaped(thread'[u])
      /\ thread'[t] = s /\ \A u \in Thread : u # t => thread'[u] = thread[u]
  BY <1>1, <1>2, StackSet DEF IInv
<1>4. /\ \A u \in Thread : At(u, "write")' = At(u, "write")
      /\ Unsaved' = Unsaved /\ Inserting' \subseteq Inserting
  BY <1>1, <1>2, Ordinary DEF Callers
<1>5. /\ runs' \in Seq({"running", "completed", "failed"}) /\ Len(runs') = Len(runs)
      /\ Active' \subseteq Active
  <2>1. runs \in Seq({"running", "completed", "failed"})
    BY DEF IInv, TypeOK
  <2>2. /\ runs' \in Seq({"running", "completed", "failed"}) /\ Len(runs') = Len(runs)
        /\ \A i \in 1 .. Len(runs) : runs'[i] = "running" => runs[i] = "running"
    BY <1>1, <2>1
  <2>3. DOMAIN runs = 1 .. Len(runs) /\ DOMAIN runs' = 1 .. Len(runs)
    BY <2>1, <2>2
  <2>4. QED
    BY <2>2, <2>3 DEF Active
<1>6. TypeOK'
  BY <1>1, <1>3, <1>5 DEF IInv, TypeOK, cronVars
<1>7. Counted'
  BY <1>4, <1>5, FewerCounted DEF IInv
<1>8. OneTurn'
  BY <1>1, <1>2, <1>3, SameTurns DEF IInv
<1>9. OneWriter' /\ JobsOnDisk'
  BY <1>1, <1>4, SameWriter, SameJobs DEF IInv, cronVars
<1>10. QED
  BY <1>3, <1>6, <1>7, <1>8, <1>9 DEF IInv

-----------------------------------------------------------------------------
(* Jobs *)

\* What holds of the threads when one of them, at the end of a step under the
\* scheduler's mu_, writes the file or does not.
LEMMA WriterSet ==
    ASSUME IInv, NEW t \in Thread, NEW s \in Seq(Frames), Shaped(s), SetStack(t, s),
           saving <=> Top(t).at = "write", saving' \in BOOLEAN,
           saving' <=> s[Len(s)].at = "write"
    PROVE  OneWriter'
<1>1. Top(t)' = s[Len(s)] /\ \A u \in Thread : u # t => Top(u)' = Top(u)
  BY StackSet DEF IInv
<1>2. \A u \in Thread : u # t => ~At(u, "write")
  BY DEF IInv, OneWriter, At
<1>3. \A u \in Thread : u # t => ~At(u, "write")'
  BY <1>1, <1>2 DEF At
<1>4. At(t, "write")' = (s[Len(s)].at = "write")
  BY <1>1 DEF At
<1>5. QED
  BY <1>3, <1>4 DEF OneWriter

\* A step that changes no run, no turn, and leaves as many threads to insert.
LEMMA JobStep ==
    ASSUME IInv, NEW t \in Thread, NEW s \in Seq(Frames), Shaped(s), SetStack(t, s),
           Turns(s) = Turns(thread[t]), s[Len(s)].at # "insert",
           UNCHANGED <<turnLock, runs>>
    PROVE  /\ thread' \in [Thread -> Seq(Frames)]
           /\ \A u \in Thread : Shaped(thread'[u])
           /\ OneTurn' /\ Counted'
<1>1. /\ thread' \in [Thread -> Seq(Frames)]
      /\ \A u \in Thread : Shaped(thread'[u])
      /\ thread'[t] = s /\ Top(t)' = s[Len(s)]
      /\ \A u \in Thread : u # t => thread'[u] = thread[u] /\ Top(u)' = Top(u)
  BY StackSet DEF IInv
<1>2. OneTurn'
  BY <1>1, SameTurns DEF IInv
<1>3. \A u \in Thread : At(u, "insert")' => At(u, "insert")
  BY <1>1 DEF At
<1>4. Inserting' \subseteq Inserting
  BY <1>3 DEF Inserting
<1>5. Counted'
  BY <1>4, FewerCounted DEF IInv, Active
<1>6. QED
  BY <1>1, <1>2, <1>5

LEMMA AddJobIInv ==
    ASSUME IInv, NEW t \in Thread, AddJob(t)
    PROVE  IInv'
<1> DEFINE below == IF At(t, "readd") THEN Pop(t) ELSE thread[t]
           f == Frame("save", nextJob)
           s == IF path THEN Append(below, f) ELSE below
<1>1. /\ Top(t).at \in Callers /\ ~saving /\ nextJob <= MaxJobs
      /\ nextJob' = nextJob + 1 /\ jobs' = jobs \cup {nextJob}
      /\ SetStack(t, s)
      /\ UNCHANGED <<turnLock, runs, path, file, saving, crashes>>
  BY DEF AddJob, CallsTools, At, Callers, Unlocked
<1>2. nextJob \in Job
  BY <1>1, WorkBounds DEF IInv, TypeOK, Job
<1>3. f \in Frames /\ f.at = "save" /\ f.of = nextJob
  BY <1>2, FrameType DEF Places
<1>4. /\ below \in Seq(Frames) /\ Shaped(below) /\ below[Len(below)].at \in Callers
      /\ Turns(below) = Turns(thread[t])
  <2>1. CASE At(t, "readd")
    <3>1. /\ thread[t] \in Seq(Frames) /\ Shaped(thread[t])
          /\ thread[t][Len(thread[t])].at = "readd"
          /\ Pop(t) = SubSeq(thread[t], 1, Len(thread[t]) - 1)
      BY <2>1, AtTop DEF At
    <3>2. Turns(thread[t]) \ {Len(thread[t])} = Turns(thread[t])
      BY <3>1, TopTurn
    <3>3. QED
      BY <2>1, <3>1, <3>2, Popped
  <2>2. CASE ~At(t, "readd")
    BY <1>1, <2>2, AtTop
  <2>3. QED
    BY <2>1, <2>2
<1> HIDE DEF below, f
<1>5. /\ s \in Seq(Frames) /\ Shaped(s) /\ Turns(s) = Turns(thread[t])
      /\ s[Len(s)].at \notin {"insert", "write"}
      /\ path => s[Len(s)] = f
  <2>1. CASE path
    <3>1. /\ Append(below, f) \in Seq(Frames) /\ Shaped(Append(below, f))
          /\ Append(below, f)[Len(Append(below, f))] = f
          /\ Turns(Append(below, f)) = Turns(below)
      BY <1>3, <1>4, Pushed
    <3>2. QED
      BY <2>1, <3>1, <1>3, <1>4
  <2>2. CASE ~path
    BY <2>2, <1>4 DEF Callers
  <2>3. QED
    BY <2>1, <2>2
<1> HIDE DEF s
<1>6. /\ thread' \in [Thread -> Seq(Frames)]
      /\ \A u \in Thread : Shaped(thread'[u])
      /\ OneTurn' /\ Counted'
  BY <1>1, <1>5, JobStep
<1>7. OneWriter'
  BY <1>1, <1>5, WriterSet DEF Callers, IInv, TypeOK
<1>8. TypeOK'
  BY <1>1, <1>2, <1>6, WorkBounds DEF IInv, TypeOK, Job
<1>9. JobsOnDisk'
  <2> SUFFICES ASSUME path
               PROVE  /\ (jobs \ Unsaved)' \subseteq (file.holds)'
                      /\ (file.holds)' \subseteq jobs'
    BY <1>1 DEF JobsOnDisk
  <2>1. jobs \ Unsaved \subseteq file.holds /\ file.holds \subseteq jobs
    BY <1>1 DEF IInv, JobsOnDisk, Unlocked
  <2>2. Top(t)' = f /\ \A u \in Thread : u # t => Top(u)' = Top(u)
    BY <1>1, <1>5, StackSet DEF IInv
  <2>3. Unsaved \cup {nextJob} \subseteq Unsaved'
    <3>1. ~At(t, "save")
      BY <1>1 DEF At, Callers
    <3>2. At(t, "save")' /\ (Top(t).of)' = nextJob
      BY <1>3, <2>2 DEF At
    <3>3. \A u \in Thread : At(u, "save") => At(u, "save")' /\ (Top(u).of)' = Top(u).of
      BY <2>2, <3>1 DEF At
    <3>4. QED
      BY <3>2, <3>3 DEF Unsaved
  <2>4. QED
    BY <1>1, <2>1, <2>3
<1>10. QED
  BY <1>6, <1>7, <1>8, <1>9 DEF IInv

LEMMA SaveIInv ==
    ASSUME IInv, NEW t \in Thread, Save(t)
    PROVE  IInv'
<1>1. /\ Top(t).at = "save" /\ ~saving /\ saving' = TRUE /\ file' = Truncated
      /\ Goto(t, "write")
      /\ UNCHANGED <<turnLock, runs, jobs, path, nextJob, crashes>>
  BY DEF Save, At, Unlocked
<1>2. PICK s \in Seq(Frames) :
        /\ SetStack(t, s) /\ Shaped(s) /\ s[Len(s)].at = "write"
        /\ Turns(s) = Turns(thread[t]) \ {Len(thread[t])}
  BY <1>1, WentTo DEF Places
<1>3. Turns(s) = Turns(thread[t])
  BY <1>1, <1>2, AtTop, TopTurn
<1>4. /\ thread' \in [Thread -> Seq(Frames)]
      /\ \A u \in Thread : Shaped(thread'[u])
      /\ OneTurn' /\ Counted'
  BY <1>1, <1>2, <1>3, JobStep
<1>5. OneWriter'
  BY <1>1, <1>2, WriterSet
<1>6. TypeOK'
  BY <1>1, <1>4 DEF IInv, TypeOK, Truncated
<1>7. JobsOnDisk'
  BY <1>1 DEF JobsOnDisk, Unlocked
<1>8. QED
  BY <1>4, <1>5, <1>6, <1>7 DEF IInv

LEMMA WriteIInv ==
    ASSUME IInv, NEW t \in Thread, Write(t)
    PROVE  IInv'
<1> DEFINE s == Pop(t)
<1>1. /\ Top(t).at = "write" /\ saving' = FALSE /\ SetStack(t, s)
      /\ file' = [is |-> "whole", holds |-> jobs]
      /\ UNCHANGED <<turnLock, runs, jobs, path, nextJob, crashes>>
  BY DEF Write, At, Return
<1>2. saving
  BY <1>1 DEF IInv, OneWriter, At
<1>3. /\ s \in Seq(Frames) /\ Shaped(s) /\ s[Len(s)].at \in Callers
      /\ Turns(s) = Turns(thread[t])
  <2>1. /\ thread[t] \in Seq(Frames) /\ Shaped(thread[t])
        /\ thread[t][Len(thread[t])].at = "write"
        /\ s = SubSeq(thread[t], 1, Len(thread[t]) - 1)
    BY <1>1, AtTop
  <2>2. Turns(thread[t]) \ {Len(thread[t])} = Turns(thread[t])
    BY <2>1, TopTurn
  <2>3. QED
    BY <2>1, <2>2, Popped
<1> HIDE DEF s
<1>4. /\ thread' \in [Thread -> Seq(Frames)]
      /\ \A u \in Thread : Shaped(thread'[u])
      /\ OneTurn' /\ Counted'
  BY <1>1, <1>3, JobStep DEF Callers
<1>5. OneWriter'
  BY <1>1, <1>2, <1>3, WriterSet DEF Callers, IInv, TypeOK
<1>6. TypeOK'
  BY <1>1, <1>4 DEF IInv, TypeOK
<1>7. JobsOnDisk'
  BY <1>1 DEF JobsOnDisk
<1>8. QED
  BY <1>4, <1>5, <1>6, <1>7 DEF IInv

\* A job that was in the table is gone from the file too before mu_ is free.
LEMMA RemoveIInv ==
    ASSUME IInv, NEW t \in Thread, NEW j, NEW stack \in Seq(Frames), Shaped(stack),
           stack[Len(stack)].at \in Callers, Turns(stack) = Turns(thread[t]),
           Top(t).at \notin {"write", "save"}, Remove(t, j, stack),
           UNCHANGED <<turnLock, runs, path, nextJob, crashes>>
    PROVE  IInv'
<1>1. ~saving /\ jobs' = jobs \ {j}
  BY DEF Remove, Unlocked
<1>2. CASE path /\ j \in jobs
  <2> DEFINE f == Frame("write", None)
             s == Append(stack, f)
  <2>1. saving' = TRUE /\ file' = Truncated /\ SetStack(t, s)
    BY <1>2 DEF Remove
  <2>2. f \in Frames /\ f.at = "write"
    BY FrameType DEF Places
  <2> HIDE DEF f
  <2>3. /\ s \in Seq(Frames) /\ Shaped(s) /\ s[Len(s)].at = "write"
        /\ Turns(s) = Turns(thread[t])
    BY <2>2, Pushed
  <2> HIDE DEF s
  <2>4. /\ thread' \in [Thread -> Seq(Frames)]
        /\ \A u \in Thread : Shaped(thread'[u])
        /\ OneTurn' /\ Counted'
    BY <2>1, <2>3, JobStep
  <2>5. OneWriter'
    BY <1>1, <2>1, <2>3, WriterSet
  <2>6. TypeOK'
    BY <1>1, <2>1, <2>4 DEF IInv, TypeOK, Truncated
  <2>7. JobsOnDisk'
    BY <2>1 DEF JobsOnDisk, Unlocked
  <2>8. QED
    BY <2>4, <2>5, <2>6, <2>7 DEF IInv
<1>3. CASE ~(path /\ j \in jobs)
  <2>1. SetStack(t, stack) /\ UNCHANGED <<file, saving>>
    BY <1>3 DEF Remove
  <2>2. /\ thread' \in [Thread -> Seq(Frames)]
        /\ \A u \in Thread : Shaped(thread'[u])
        /\ OneTurn' /\ Counted'
    BY <2>1, JobStep DEF Callers
  <2>3. OneWriter'
    BY <1>1, <2>1, WriterSet DEF Callers, IInv, TypeOK
  <2>4. TypeOK'
    BY <1>1, <2>1, <2>2 DEF IInv, TypeOK
  <2>5. Unsaved' = Unsaved
    BY <2>1, Ordinary DEF Callers
  <2>6. path => jobs' = jobs
    BY <1>1, <1>3
  <2>7. JobsOnDisk'
    BY <2>1, <2>5, <2>6 DEF IInv, JobsOnDisk, Unlocked
  <2>8. QED
    BY <2>2, <2>3, <2>4, <2>7 DEF IInv
<1>4. QED
  BY <1>2, <1>3

LEMMA RemovalsIInv ==
    ASSUME IInv, NEW t \in Thread, UpdateRemoves(t) \/ \E j \in Job : RemoveJob(t, j)
    PROVE  IInv'
<1>1. ASSUME NEW j \in Job, RemoveJob(t, j)
      PROVE  IInv'
  BY <1>1, AtTop, RemoveIInv DEF RemoveJob, CallsTools, At, Callers
<1>2. CASE UpdateRemoves(t)
  <2> DEFINE f == Frame("readd", None)
             s == Append(Pop(t), f)
  <2>1. /\ Top(t).at = "update" /\ Remove(t, Top(t).of, s)
        /\ UNCHANGED <<turnLock, runs, path, nextJob, crashes>>
    BY <1>2 DEF UpdateRemoves, At
  <2>2. f \in Frames /\ f.at = "readd"
    BY FrameType DEF Places
  <2> HIDE DEF f
  <2>3. /\ thread[t] \in Seq(Frames) /\ Shaped(thread[t])
        /\ thread[t][Len(thread[t])].at = "update"
        /\ Pop(t) = SubSeq(thread[t], 1, Len(thread[t]) - 1)
    BY <2>1, AtTop
  <2>4. Turns(thread[t]) \ {Len(thread[t])} = Turns(thread[t])
    BY <2>3, TopTurn
  <2>5. thread[t][Len(thread[t])].at # "idle" /\ f.at \notin {"idle", "turn", "child"}
    BY <2>2, <2>3
  <2>6. /\ s \in Seq(Frames) /\ Shaped(s) /\ s[Len(s)] = f
        /\ Turns(s) = Turns(thread[t]) \ {Len(thread[t])}
    BY <2>2, <2>3, <2>5, Replaced
  <2> HIDE DEF s
  <2>7. QED
    BY <2>1, <2>2, <2>4, <2>6, RemoveIInv DEF Callers
<1>3. QED
  BY <1>1, <1>2

-----------------------------------------------------------------------------
(* Init, the crash, and the theorems *)

\* What a process that starts has: idle threads, no runs, and jobs that are
\* those of the file.
Fresh ==
    /\ turnLock = None
    /\ thread = [t \in Thread |-> Idle]
    /\ runs = <<>>
    /\ saving = FALSE
    /\ path \in BOOLEAN
    /\ file \in [is : {"absent", "whole", "truncated"}, holds : SUBSET Job]
    /\ jobs = file.holds
    /\ nextJob \in 1 .. MaxJobs + 1
    /\ crashes \in 0 .. MaxCrashes

LEMMA FreshIInv == Fresh => IInv
<1> SUFFICES ASSUME Fresh PROVE IInv
  OBVIOUS
<1> USE DEF Fresh
<1>1. /\ Idle \in Seq(Frames) /\ Shaped(Idle) /\ Turns(Idle) = {}
      /\ Idle[Len(Idle)].at = "idle"
  <2> DEFINE f == Frame("idle", None)
  <2>1. f \in Frames /\ f.at = "idle"
    BY FrameType DEF Places
  <2> HIDE DEF f
  <2>2. /\ <<f>> \in Seq(Frames) /\ Len(<<f>>) = 1 /\ <<f>>[1] = f
    BY <2>1
  <2>3. Shaped(<<f>>) /\ Turns(<<f>>) = {} /\ <<f>>[Len(<<f>>)].at = "idle"
    BY <2>1, <2>2 DEF Shaped, Turns
  <2>4. QED
    BY <2>2, <2>3 DEF Idle, f
<1>2. \A t \in Thread : thread[t] = Idle
  OBVIOUS
<1>3. \A t \in Thread : Top(t) = Idle[Len(Idle)]
  BY <1>2 DEF Top
<1>4. /\ runs \in Seq({"running", "completed", "failed"}) /\ Len(runs) = 0
      /\ Active = {}
  BY DEF Active
<1>5. TypeOK
  <2>1. thread \in [Thread -> Seq(Frames)]
    BY <1>1
  <2>2. Len(runs) <= MaxRuns /\ turnLock \in Thread \cup {None} /\ jobs \subseteq Job
    BY <1>4, WorkBounds
  <2>3. QED
    BY <1>4, <2>1, <2>2 DEF TypeOK
<1>6. \A t \in Thread : ~At(t, "write") /\ ~At(t, "insert")
  BY <1>1, <1>3 DEF At
<1>7. OneWriter /\ Inserting = {}
  BY <1>6 DEF OneWriter, Inserting
<1>8. Counted
  <2>1. Cardinality(Thread) \in Nat /\ Cardinality(Thread) >= 1
    <3>1. Cardinality(Thread) # 0 /\ Cardinality(Thread) \in Nat
      BY WorkBounds, FS_EmptySet, FS_CardinalityType
    <3>2. QED
      BY <3>1
  <2>2. Cardinality({}) = 0
    BY FS_EmptySet
  <2>3. QED
    BY <1>4, <1>7, <2>1, <2>2, WorkBounds DEF Counted
<1>9. OneTurn
  BY <1>1, <1>2, WorkBounds DEF OneTurn
<1>10. JobsOnDisk
  BY DEF JobsOnDisk
<1>11. QED
  BY <1>1, <1>2, <1>5, <1>7, <1>8, <1>9, <1>10 DEF IInv

LEMMA InitIInv == Init => IInv
<1>1. Init => Fresh
  <2> SUFFICES ASSUME Init PROVE Fresh
    OBVIOUS
  <2>1. file \in [is : {"absent", "whole", "truncated"}, holds : SUBSET Job] /\ file.holds = {}
    BY DEF Init
  <2>2. nextJob \in 1 .. MaxJobs + 1 /\ crashes \in 0 .. MaxCrashes
    BY WorkBounds DEF Init
  <2>3. QED
    BY <2>1, <2>2 DEF Init, Fresh
<1>2. QED
  BY <1>1, FreshIInv

LEMMA CrashIInv == IInv /\ Crash => IInv'
<1>1. IInv /\ Crash => Fresh'
  BY WorkBounds DEF IInv, TypeOK, Crash, Fresh
<1>2. QED
  BY <1>1, FreshIInv, PTL

LEMMA NextIInv == IInv /\ [Next]_vars => IInv'
<1> SUFFICES ASSUME IInv, [Next]_vars PROVE IInv'
  OBVIOUS
<1>1. ASSUME NEW t \in Thread, Step(t)
      PROVE  IInv'
  BY <1>1, TurnEndsIInv, EndedIInv, InsertIInv, RunEndsIInv, ChildEndsIInv, SaveIInv, WriteIInv,
     RemovalsIInv DEF Step
<1>2. ASSUME NEW t \in Thread, Ask(t)
      PROVE  IInv'
  BY <1>2, AskedIInv, SpawnIInv, AddJobIInv, RemovalsIInv DEF Ask
<1>3. ASSUME NEW t \in Thread, EnterTurn(t) \/ EnterChild(t)
      PROVE  IInv'
  BY <1>3, EnterIInv
<1>4. CASE Crash
  BY <1>4, CrashIInv
<1>5. CASE UNCHANGED vars
  BY <1>5 DEF vars, IInv, TypeOK, OneTurn, OneWriter, Counted, JobsOnDisk, Active, Inserting,
              Unsaved, Unlocked, At, Top
<1>6. QED
  BY <1>1, <1>2, <1>3, <1>4, <1>5 DEF Next

LEMMA Invariant == Spec => []IInv
  BY InitIInv, NextIInv, PTL DEF Spec

\* The tables, the stacks and the file keep their types through every
\* interleaving of turns, chains, subagents, cron.* and crashes.
THEOREM Typed == Spec => []TypeOK
<1>1. IInv => TypeOK
  BY DEF IInv
<1>2. QED
  BY <1>1, Invariant, PTL

\* Spawn counts the children in one critical section and enters the new one in
\* another: max_children is passed by the threads counted together and no more.
THEOREM ChildrenBoundedAlways == Spec => []ChildrenBounded
<1>1. IInv => ChildrenBounded
  <2> SUFFICES ASSUME IInv PROVE ChildrenBounded
    OBVIOUS
  <2>1. TypeOK /\ Counted /\ MaxChildren \in Nat
    BY WorkBounds DEF IInv
  <2>2. QED
    BY <2>1, Finite DEF Counted, ChildrenBounded
<1>2. QED
  BY <1>1, Invariant, PTL

\* When the scheduler's mutex is free, the file has every job whose AddJob has
\* returned and none that RemoveJob has taken away: a crash loses nothing that
\* a client was told.
THEOREM JobsOnDiskAlways == Spec => []JobsOnDisk
<1>1. IInv => JobsOnDisk
  BY DEF IInv
<1>2. QED
  BY <1>1, Invariant, PTL

\* session_write_mutex_ does what it is for: in all stacks of all threads there
\* is at most one turn of the AgentLoop, and its thread holds the mutex.
THEOREM OneTurnAlways == Spec => []OneTurn
<1>1. IInv => OneTurn
  BY DEF IInv
<1>2. QED
  BY <1>1, Invariant, PTL

\* A subagent that is spawned in a turn waits for the mutex its own thread holds:
\* no step but a crash of the process ever takes it out of there, for any number
\* of threads and whatever they do.
THEOREM StuckForGood ==
    Spec => [][\A t \in Thread :
                  turnLock = t /\ At(t, "start") /\ crashes' = crashes =>
                      turnLock' = t /\ thread'[t] = thread[t]]_vars
<1> DEFINE A == \A t \in Thread :
                   turnLock = t /\ At(t, "start") /\ crashes' = crashes =>
                       turnLock' = t /\ thread'[t] = thread[t]
<1>1. IInv /\ [Next]_vars => [A]_vars
  <2> SUFFICES ASSUME IInv, [Next]_vars, NEW t \in Thread, turnLock = t, At(t, "start"),
                      crashes' = crashes
               PROVE  turnLock' = t /\ thread'[t] = thread[t]
    OBVIOUS
  <2>1. turnLock # None
    BY WorkBounds
  <2>2. ASSUME NEW u \in Thread, Step(u) \/ Ask(u) \/ EnterTurn(u) \/ EnterChild(u)
        PROVE  /\ \E s : SetStack(u, s)
               /\ u # t
               /\ turnLock' = t
    <3>1. \E s : SetStack(u, s)
      BY <2>2 DEF Step, Ask, Request, BeginChain, Spawn, AddJob, RemoveJob, Update, TurnEnds,
                  EndChain, Insert, RunEnds, ChildEnds, Save, Write, UpdateRemoves, UpdateThrows,
                  EnterTurn, EnterChild, Call, Return, Goto, Remove
    <3>2. Top(u).at # "start"
      BY <2>1, <2>2 DEF Step, Ask, Request, BeginChain, Spawn, AddJob, RemoveJob, Update, TurnEnds,
                  EndChain, Insert, RunEnds, ChildEnds, Save, Write, UpdateRemoves, UpdateThrows,
                  EnterTurn, EnterChild, CallsTools, At
    <3>3. ASSUME TurnEnds(u) \/ \E outcome \in Outcomes : ChildEnds(u, outcome)
          PROVE  FALSE
      <4>1. Top(u).at \in {"turn", "child"}
        BY <3>3 DEF TurnEnds, ChildEnds, At
      <4>2. Turns(thread[u]) # {}
        BY <4>1, AtTop, TopTurn
      <4>3. turnLock = u
        BY <4>2 DEF IInv, OneTurn
      <4>4. QED
        BY <3>2, <4>1, <4>3 DEF At
    <3>4. turnLock' = turnLock
      BY <2>1, <2>2, <3>3 DEF Step, Ask, Request, BeginChain, Spawn, AddJob, RemoveJob, Update,
                  EndChain, Insert, RunEnds, Save, Write, UpdateRemoves, UpdateThrows,
                  EnterTurn, EnterChild
    <3>5. QED
      BY <3>1, <3>2, <3>4 DEF At
  <2>3. CASE UNCHANGED vars
    BY <2>3 DEF vars
  <2>4. CASE Crash
    BY <2>4, WorkBounds DEF Crash, IInv, TypeOK
  <2>5. QED
    BY <2>2, <2>3, <2>4 DEF Next, SetStack, IInv, TypeOK
<1>2. QED
  BY <1>1, Invariant, PTL DEF Spec
=============================================================================
