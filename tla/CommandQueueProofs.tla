------------------------ MODULE CommandQueueProofs ------------------------
(***************************************************************************)
(* Proofs about CommandQueue for every number of sessions and commands and *)
(* every set of lane and queue settings.  The inductive invariant IInv     *)
(* says where a command can be (in one lane or with one worker, never in   *)
(* two places) and ties active_count_ to the workers.  From it follow what *)
(* a step may lose of a lane, and that the queue refines WorkerPool.       *)
(***************************************************************************)
EXTENDS CommandQueue, TLAPS, FiniteSetTheorems, SequenceTheorems

-----------------------------------------------------------------------------
(* Lanes as sequences: what the queue operations keep of them *)

Sorted(q) == \A i, j \in DOMAIN q : i < j => q[i].id < q[j].id
IsLane(q) == q \in Seq(Entry) /\ Sorted(q)

\* A contiguous part of a lane is a lane with no new commands (drop-oldest,
\* reject and Tail all cut lanes this way).
LEMMA SubSeqLane ==
    ASSUME NEW q, IsLane(q), NEW a \in Nat, NEW b \in Nat, 1 <= a, b <= Len(q)
    PROVE  /\ IsLane(SubSeq(q, a, b))
           /\ Ids(SubSeq(q, a, b)) = {q[i].id : i \in a .. b}
           /\ Ids(SubSeq(q, a, b)) \subseteq Ids(q)
<1> DEFINE r == SubSeq(q, a, b)
<1>1. /\ Len(q) \in Nat /\ DOMAIN q = 1 .. Len(q)
      /\ \A i \in a .. b : q[i] \in Entry
  BY DEF IsLane
<1>2. /\ r \in Seq(Entry)
      /\ Len(r) = IF a <= b THEN b - a + 1 ELSE 0
      /\ \A i \in 1 .. b - a + 1 : r[i] = q[a + i - 1]
  <2>1. a \in Int /\ b \in Int
    OBVIOUS
  <2>2. QED
    BY <1>1, <2>1, SubSeqProperties
<1> HIDE DEF r
<1>3. DOMAIN r = 1 .. Len(r)
  BY <1>2
<1>4. \A i \in DOMAIN r : i \in 1 .. b - a + 1 /\ a + i - 1 \in a .. b /\ r[i] = q[a + i - 1]
  BY <1>2, <1>3
<1>5. Sorted(r)
  <2> SUFFICES ASSUME NEW i \in DOMAIN r, NEW j \in DOMAIN r, i < j
               PROVE  r[i].id < r[j].id
    BY DEF Sorted
  <2>1. /\ i \in Nat /\ j \in Nat
        /\ a + i - 1 \in DOMAIN q /\ a + j - 1 \in DOMAIN q /\ a + i - 1 < a + j - 1
    BY <1>1, <1>4
  <2>2. QED
    BY <1>4, <2>1 DEF IsLane, Sorted
<1>6. Ids(r) = {q[i].id : i \in a .. b}
  <2>1. ASSUME NEW i \in DOMAIN r PROVE \E k \in a .. b : q[k].id = r[i].id
    BY <1>4, <2>1
  <2>2. ASSUME NEW k \in a .. b PROVE \E i \in DOMAIN r : r[i].id = q[k].id
    <3>1. /\ k - a + 1 \in 1 .. b - a + 1
          /\ a <= b
          /\ a + (k - a + 1) - 1 = k
      OBVIOUS
    <3>2. k - a + 1 \in DOMAIN r
      BY <1>2, <1>3, <3>1
    <3>3. QED
      BY <1>4, <3>1, <3>2
  <2>3. QED
    BY <2>1, <2>2 DEF Ids
<1>7. Ids(r) \subseteq Ids(q)
  <2>1. \A i \in a .. b : i \in DOMAIN q
    BY <1>1
  <2>2. ASSUME NEW c \in Ids(r) PROVE c \in Ids(q)
    <3>1. PICK i \in a .. b : c = q[i].id
      BY <1>6
    <3>2. QED
      BY <2>1, <3>1 DEF Ids
  <2>3. QED
    BY <2>2
<1>8. QED
  BY <1>2, <1>5, <1>6, <1>7 DEF IsLane, r

\* Joining two lanes, the first all older than the second, gives a lane.
LEMMA ConcatLane ==
    ASSUME NEW q, IsLane(q), NEW r, IsLane(r),
           \A i \in DOMAIN q, j \in DOMAIN r : q[i].id < r[j].id
    PROVE  IsLane(q \o r) /\ Ids(q \o r) = Ids(q) \cup Ids(r)
<1> DEFINE t == q \o r
<1>1. /\ q \in Seq(Entry) /\ r \in Seq(Entry)
      /\ Len(q) \in Nat /\ DOMAIN q = 1 .. Len(q)
      /\ Len(r) \in Nat /\ DOMAIN r = 1 .. Len(r)
  BY DEF IsLane
<1>2. /\ t \in Seq(Entry)
      /\ Len(t) = Len(q) + Len(r)
      /\ \A i \in 1 .. Len(q) + Len(r) : t[i] = IF i <= Len(q) THEN q[i] ELSE r[i - Len(q)]
  BY <1>1, ConcatProperties
<1> HIDE DEF t
<1>3. DOMAIN t = 1 .. Len(q) + Len(r)
  BY <1>2
<1>4. Sorted(t)
  <2> SUFFICES ASSUME NEW i \in DOMAIN t, NEW j \in DOMAIN t, i < j
               PROVE  t[i].id < t[j].id
    BY DEF Sorted
  <2>1. CASE j <= Len(q)
    <3>1. /\ i \in DOMAIN q /\ j \in DOMAIN q
          /\ t[i] = q[i] /\ t[j] = q[j]
      BY <1>1, <1>2, <1>3, <2>1
    <3>2. QED
      BY <3>1 DEF IsLane, Sorted
  <2>2. CASE i <= Len(q) /\ ~(j <= Len(q))
    <3>1. /\ i \in DOMAIN q /\ j - Len(q) \in DOMAIN r
          /\ t[i] = q[i] /\ t[j] = r[j - Len(q)]
      BY <1>1, <1>2, <1>3, <2>2
    <3>2. QED
      BY <3>1
  <2>3. CASE ~(i <= Len(q))
    <3>1. /\ i - Len(q) \in DOMAIN r /\ j - Len(q) \in DOMAIN r
          /\ i - Len(q) < j - Len(q)
          /\ t[i] = r[i - Len(q)] /\ t[j] = r[j - Len(q)]
      BY <1>1, <1>2, <1>3, <2>3
    <3>2. QED
      BY <3>1 DEF IsLane, Sorted
  <2>4. QED
    BY <1>1, <1>3, <2>1, <2>2, <2>3
<1>5. Ids(t) = Ids(q) \cup Ids(r)
  <2>1. ASSUME NEW i \in DOMAIN t
        PROVE  (\E k \in DOMAIN q : t[i] = q[k]) \/ (\E k \in DOMAIN r : t[i] = r[k])
    <3>1. CASE i <= Len(q)
      BY <1>1, <1>2, <1>3, <3>1
    <3>2. CASE ~(i <= Len(q))
      <4>1. i - Len(q) \in DOMAIN r /\ t[i] = r[i - Len(q)]
        BY <1>1, <1>2, <1>3, <3>2
      <4>2. QED
        BY <4>1
    <3>3. QED
      BY <3>1, <3>2
  <2>2. ASSUME NEW k \in DOMAIN q PROVE k \in DOMAIN t /\ t[k] = q[k]
    BY <1>1, <1>2, <1>3
  <2>3. ASSUME NEW k \in DOMAIN r PROVE k + Len(q) \in DOMAIN t /\ t[k + Len(q)] = r[k]
    <3>1. /\ k + Len(q) \in 1 .. Len(q) + Len(r)
          /\ ~(k + Len(q) <= Len(q))
          /\ k + Len(q) - Len(q) = k
      BY <1>1
    <3>2. QED
      BY <1>2, <1>3, <3>1
  <2>4. QED
    BY <2>1, <2>2, <2>3 DEF Ids
<1>6. QED
  BY <1>2, <1>4, <1>5 DEF IsLane, t

\* One entry more at the end, younger than all that wait.
LEMMA AppendLane ==
    ASSUME NEW q, IsLane(q), NEW e \in Entry, \A i \in DOMAIN q : q[i].id < e.id
    PROVE  /\ IsLane(Append(q, e))
           /\ Ids(Append(q, e)) = Ids(q) \cup {e.id}
           /\ Len(Append(q, e)) \in Nat \ {0}
<1>1. /\ <<e>> \in Seq(Entry) /\ Len(<<e>>) = 1 /\ DOMAIN <<e>> = {1} /\ <<e>>[1] = e
  OBVIOUS
<1>2. IsLane(<<e>>) /\ Ids(<<e>>) = {e.id}
  BY <1>1 DEF IsLane, Sorted, Ids
<1>3. Append(q, e) = q \o <<e>>
  BY AppendIsConcat DEF IsLane
<1>4. Len(Append(q, e)) = Len(q) + 1 /\ Len(q) \in Nat
  BY AppendProperties DEF IsLane
<1>5. QED
  <2>1. \A i \in DOMAIN q, j \in DOMAIN <<e>> : q[i].id < <<e>>[j].id
    BY <1>1
  <2>2. QED
    BY <1>2, <1>3, <1>4, <2>1, ConcatLane

\* InterruptActive leaves a lane of commands that waited before.
LEMMA NewestLane ==
    ASSUME NEW q, IsLane(q)
    PROVE  IsLane(NewestOnly(q)) /\ Ids(NewestOnly(q)) \subseteq Ids(q)
<1>1. CASE q = <<>>
  BY <1>1 DEF NewestOnly
<1>2. CASE q # <<>>
  <2>1. Len(q) \in Nat /\ Len(q) # 0 /\ DOMAIN q = 1 .. Len(q) /\ Len(q) \in DOMAIN q
    BY <1>2, EmptySeq DEF IsLane
  <2>2. q[Len(q)] \in Entry
    BY <2>1 DEF IsLane
  <2> DEFINE e == q[Len(q)]
  <2>3. NewestOnly(q) = <<e>>
    BY <1>2 DEF NewestOnly
  <2>4. /\ <<e>> \in Seq(Entry) /\ DOMAIN <<e>> = {1} /\ <<e>>[1] = e
    BY <2>2
  <2> HIDE DEF e
  <2>5. IsLane(<<e>>) /\ Ids(<<e>>) = {e.id}
    BY <2>4 DEF IsLane, Sorted, Ids
  <2>6. e.id \in Ids(q)
    BY <2>1 DEF Ids, e
  <2>7. QED
    BY <2>3, <2>5, <2>6
<1>3. QED
  BY <1>1, <1>2

\* Cancel takes exactly the cancelled command out of its lane.
LEMMA RemoveLane ==
    ASSUME NEW q, IsLane(q), NEW i \in DOMAIN q
    PROVE  LET r == SubSeq(q, 1, i - 1) \o SubSeq(q, i + 1, Len(q))
           IN  IsLane(r) /\ Ids(r) \subseteq Ids(q) \ {q[i].id}
<1> DEFINE a == SubSeq(q, 1, i - 1)
           b == SubSeq(q, i + 1, Len(q))
<1>1. Len(q) \in Nat /\ DOMAIN q = 1 .. Len(q)
  BY DEF IsLane
<1>2. i \in Nat /\ i - 1 \in Nat /\ i + 1 \in Nat /\ 1 <= i + 1 /\ i - 1 <= Len(q)
  BY <1>1
<1>3. /\ IsLane(a) /\ Ids(a) = {q[k].id : k \in 1 .. i - 1}
      /\ IsLane(b) /\ Ids(b) = {q[k].id : k \in i + 1 .. Len(q)}
  <2>1. IsLane(a) /\ Ids(a) = {q[k].id : k \in 1 .. i - 1}
    <3>1. 1 \in Nat /\ 1 <= 1 /\ i - 1 \in Nat /\ i - 1 <= Len(q)
      BY <1>2
    <3>2. QED
      BY <3>1, SubSeqLane
  <2>2. IsLane(b) /\ Ids(b) = {q[k].id : k \in i + 1 .. Len(q)}
    <3>1. i + 1 \in Nat /\ 1 <= i + 1 /\ Len(q) \in Nat /\ Len(q) <= Len(q)
      BY <1>1, <1>2
    <3>2. QED
      BY <3>1, SubSeqLane
  <2>3. QED
    BY <2>1, <2>2
<1> HIDE DEF a, b
<1>4. \A k \in 1 .. i - 1 : k \in DOMAIN q /\ q[k].id < q[i].id
  BY <1>1 DEF IsLane, Sorted
<1>5. \A k \in i + 1 .. Len(q) : k \in DOMAIN q /\ q[i].id < q[k].id
  BY <1>1 DEF IsLane, Sorted
<1>6. \A k \in DOMAIN q : q[k].id \in Nat
  <2>1. \A k \in DOMAIN q : q[k] \in Entry
    BY DEF IsLane
  <2>2. QED
    BY <2>1, CmdAssumption DEF Entry, Cmd
<1>7. \A c \in Ids(a) : c \in Ids(q) /\ c < q[i].id /\ c \in Nat
  BY <1>3, <1>4, <1>6 DEF Ids
<1>8. \A c \in Ids(b) : c \in Ids(q) /\ q[i].id < c /\ c \in Nat
  BY <1>3, <1>5, <1>6 DEF Ids
<1>9. \A j \in DOMAIN a, k \in DOMAIN b : a[j].id < b[k].id
  <2> SUFFICES ASSUME NEW j \in DOMAIN a, NEW k \in DOMAIN b PROVE a[j].id < b[k].id
    OBVIOUS
  <2>1. a[j].id \in Ids(a) /\ b[k].id \in Ids(b)
    BY DEF Ids
  <2>2. QED
    BY <1>6, <1>7, <1>8, <2>1
<1>10. IsLane(a \o b) /\ Ids(a \o b) = Ids(a) \cup Ids(b)
  BY <1>3, <1>9, ConcatLane
<1>11. q[i].id \notin Ids(a) /\ q[i].id \notin Ids(b)
  BY <1>6, <1>7, <1>8
<1>12. QED
  BY <1>7, <1>8, <1>10, <1>11 DEF a, b

\* A lane holds a command once.
LEMMA DistinctIds ==
    ASSUME NEW q, IsLane(q), NEW i \in DOMAIN q, NEW j \in DOMAIN q, i # j
    PROVE  q[i].id # q[j].id
<1>1. i \in Nat /\ j \in Nat /\ (i < j \/ j < i)
  <2>1. DOMAIN q = 1 .. Len(q) /\ Len(q) \in Nat
    BY DEF IsLane
  <2>2. QED
    BY <2>1
<1>2. q[i].id \in Nat /\ q[j].id \in Nat
  <2>1. q[i] \in Entry /\ q[j] \in Entry
    BY DEF IsLane
  <2>2. QED
    BY <2>1, CmdAssumption DEF Entry, Cmd
<1>3. QED
  BY <1>1, <1>2 DEF IsLane, Sorted

\* Cutting positions a .. b out of a lane leaves none of their commands behind.
LEMMA CutApart ==
    ASSUME NEW q, IsLane(q), NEW I, NEW J,
           I \subseteq DOMAIN q, J \subseteq DOMAIN q, I \cap J = {}
    PROVE  /\ {q[i].id : i \in I} \cap {q[i].id : i \in J} = {}
           /\ {q[i].id : i \in I} \subseteq Ids(q)
<1>1. ASSUME NEW i \in I, NEW j \in J PROVE q[i].id # q[j].id
  <2>1. i \in DOMAIN q /\ j \in DOMAIN q /\ i # j
    OBVIOUS
  <2>2. QED
    BY <2>1, DistinctIds
<1>2. {q[i].id : i \in I} \subseteq Ids(q)
  BY DEF Ids
<1>3. QED
  BY <1>1, <1>2

\* ApplyCapOverflow keeps a lane, and keeps no command it reports as dropped.
LEMMA CappedLane ==
    ASSUME NEW q, IsLane(q), Len(q) \in Nat \ {0}, NEW cfg \in LaneConfigs
    PROVE  /\ IsLane(Capped(q, cfg))
           /\ Ids(Capped(q, cfg)) \subseteq Ids(q)
           /\ Ids(Capped(q, cfg)) \cap Ids(Overflowed(q, cfg)) = {}
<1> DEFINE n == Len(q)
           k == Excess(q, cfg)
<1>1. n \in Nat \ {0} /\ DOMAIN q = 1 .. n
  BY DEF IsLane
<1>2. cfg.cap \in Nat /\ cfg.drop \in DropPolicies
  BY ConfigAssumption
<1>3. /\ k \in Nat /\ k <= n
      /\ cfg.drop = "summarize" => k + 1 <= n
  BY <1>1, <1>2 DEF Excess, LeastOf
<1> HIDE DEF k, n
<1>4. CASE cfg.drop = "summarize"
  <2> DEFINE e == Summary(q, k)
             r == SubSeq(q, k + 2, n)
             d == SubSeq(q, 2, k + 1)
  <2>1. /\ IsLane(d) /\ Ids(d) = {q[i].id : i \in 2 .. k + 1}
    <3>1. 2 \in Nat /\ 1 <= 2 /\ k + 1 \in Nat /\ k + 1 <= Len(q)
      BY <1>3, <1>4 DEF n
    <3>2. QED
      BY <3>1, SubSeqLane
  <2>2. /\ IsLane(r) /\ Ids(r) = {q[i].id : i \in k + 2 .. n}
    <3>1. k + 2 \in Nat /\ 1 <= k + 2 /\ n \in Nat /\ n <= Len(q)
      BY <1>1, <1>3 DEF n
    <3>2. QED
      BY <3>1, SubSeqLane
  <2>3. e \in Entry /\ e.id = q[1].id
    <3>1. q[1] \in Entry
      BY <1>1 DEF IsLane, n
    <3>2. \A i \in DOMAIN d : d[i] \in Entry
      BY <2>1 DEF IsLane
    <3>3. Texts(d) \subseteq Cmd
      BY <3>2 DEF Texts, Entry
    <3>4. e = [q[1] EXCEPT !.text = @ \cup Texts(d)]
      BY DEF Summary
    <3> HIDE DEF e, d
    <3>5. QED
      BY <3>1, <3>3, <3>4 DEF Entry
  <2> HIDE DEF e, r
  <2>4. /\ <<e>> \in Seq(Entry) /\ DOMAIN <<e>> = {1} /\ <<e>>[1] = e
    BY <2>3
  <2>5. IsLane(<<e>>) /\ Ids(<<e>>) = {q[1].id}
    BY <2>3, <2>4 DEF IsLane, Sorted, Ids
  <2>6. \A i \in DOMAIN <<e>>, j \in DOMAIN r : <<e>>[i].id < r[j].id
    <3>1. ASSUME NEW j \in DOMAIN r PROVE q[1].id < r[j].id
      <4>1. r[j].id \in Ids(r)
        BY DEF Ids
      <4>2. PICK i \in k + 2 .. n : r[j].id = q[i].id
        BY <2>2, <4>1
      <4>3. 1 \in DOMAIN q /\ i \in DOMAIN q /\ 1 < i
        BY <1>1, <1>3
      <4>4. QED
        BY <4>2, <4>3 DEF IsLane, Sorted
    <3>2. QED
      BY <2>3, <2>4, <3>1
  <2>7. IsLane(<<e>> \o r) /\ Ids(<<e>> \o r) = {q[1].id} \cup Ids(r)
    BY <2>2, <2>5, <2>6, ConcatLane
  <2>8. Capped(q, cfg) = <<e>> \o r /\ Overflowed(q, cfg) = d
    BY <1>4 DEF Capped, Overflowed, e, r, k, n
  <2> DEFINE I == {1} \cup (k + 2 .. n)
             J == 2 .. k + 1
  <2>9. Ids(<<e>> \o r) = {q[i].id : i \in I}
    BY <2>2, <2>7
  <2>10. I \subseteq DOMAIN q /\ J \subseteq DOMAIN q /\ I \cap J = {}
    BY <1>1, <1>3, <1>4
  <2> HIDE DEF d, I, J
  <2>11. Ids(d) = {q[i].id : i \in J}
    BY <2>1 DEF J
  <2>12. QED
    BY <2>7, <2>8, <2>9, <2>10, <2>11, CutApart
<1>5. CASE cfg.drop = "drop-oldest"
  <2> DEFINE I == k + 1 .. n
             J == 1 .. k
  <2>1. k + 1 \in Nat /\ 1 <= k + 1 /\ n \in Nat /\ n <= Len(q) /\ 1 \in Nat /\ 1 <= 1 /\ k \in Nat /\ k <= Len(q)
    BY <1>1, <1>3 DEF n
  <2>2. /\ IsLane(SubSeq(q, k + 1, n)) /\ Ids(SubSeq(q, k + 1, n)) = {q[i].id : i \in I}
    BY <2>1, SubSeqLane
  <2>3. Ids(SubSeq(q, 1, k)) = {q[i].id : i \in J}
    BY <2>1, SubSeqLane
  <2>4. Capped(q, cfg) = SubSeq(q, k + 1, n) /\ Overflowed(q, cfg) = SubSeq(q, 1, k)
    BY <1>5 DEF Capped, Overflowed, k, n
  <2>5. I \subseteq DOMAIN q /\ J \subseteq DOMAIN q /\ I \cap J = {}
    BY <1>1, <1>3
  <2> HIDE DEF I, J
  <2>6. QED
    BY <2>2, <2>3, <2>4, <2>5, CutApart
<1>6. CASE cfg.drop = "reject"
  <2> DEFINE I == 1 .. n - k
             J == n - k + 1 .. n
  <2>1. n - k \in Nat /\ n - k <= Len(q) /\ n - k + 1 \in Nat /\ 1 <= n - k + 1 /\ n \in Nat /\ n <= Len(q) /\ 1 \in Nat /\ 1 <= 1
    BY <1>1, <1>3 DEF n
  <2>2. /\ IsLane(SubSeq(q, 1, n - k)) /\ Ids(SubSeq(q, 1, n - k)) = {q[i].id : i \in I}
    BY <2>1, SubSeqLane
  <2>3. Ids(SubSeq(q, n - k + 1, n)) = {q[i].id : i \in J}
    BY <2>1, SubSeqLane
  <2>4. Capped(q, cfg) = SubSeq(q, 1, n - k) /\ Overflowed(q, cfg) = SubSeq(q, n - k + 1, n)
    BY <1>6 DEF Capped, Overflowed, k, n
  <2>5. I \subseteq DOMAIN q /\ J \subseteq DOMAIN q /\ I \cap J = {}
    BY <1>1, <1>3
  <2> HIDE DEF I, J
  <2>6. QED
    BY <2>2, <2>3, <2>4, <2>5, CutApart
<1>7. QED
  BY <1>2, <1>4, <1>5, <1>6 DEF DropPolicies

\* ApplyCapOverflow reports only commands that were in the lane.
LEMMA OverflowedIds ==
    ASSUME NEW q, IsLane(q), Len(q) \in Nat \ {0}, NEW cfg \in LaneConfigs
    PROVE  Ids(Overflowed(q, cfg)) \subseteq Ids(q)
<1> DEFINE n == Len(q)
           k == Excess(q, cfg)
<1>1. cfg.cap \in Nat /\ cfg.drop \in DropPolicies
  BY ConfigAssumption
<1>2. /\ n \in Nat \ {0} /\ k \in Nat /\ k <= n
      /\ cfg.drop = "summarize" => k + 1 <= n
  BY <1>1 DEF Excess, LeastOf
<1>3. PICK a \in Nat, b \in Nat : 1 <= a /\ b <= n /\ Overflowed(q, cfg) = SubSeq(q, a, b)
  <2> HIDE DEF k, n
  <2>1. CASE cfg.drop = "summarize"
    <3>1. Overflowed(q, cfg) = SubSeq(q, 2, k + 1) /\ 1 <= 2 /\ k + 1 <= n /\ k + 1 \in Nat /\ 2 \in Nat
      BY <1>2, <2>1 DEF Overflowed, k
    <3>2. QED
      BY <3>1
  <2>2. CASE cfg.drop = "drop-oldest"
    <3>1. Overflowed(q, cfg) = SubSeq(q, 1, k)
      BY <2>2 DEF Overflowed, k
    <3>2. 1 <= 1 /\ 1 \in Nat
      OBVIOUS
    <3>3. QED
      BY <1>2, <3>1, <3>2
  <2>3. CASE cfg.drop = "reject"
    <3>1. Overflowed(q, cfg) = SubSeq(q, n - k + 1, n)
      BY <2>3 DEF Overflowed, k, n
    <3>2. 1 <= n - k + 1 /\ n <= n /\ n - k + 1 \in Nat
      BY <1>2
    <3>3. QED
      BY <1>2, <3>1, <3>2
  <2>4. QED
    BY <1>1, <2>1, <2>2, <2>3 DEF DropPolicies
<1>4. QED
  BY <1>3, SubSeqLane DEF n

-----------------------------------------------------------------------------
(* The inductive invariant *)

\* A command waits in one lane only, where Cancel finds it, and has not run.
PendingOK ==
    \A s \in Session :
        /\ Sorted(pending[s])
        /\ \A c \in Ids(pending[s]) : c < next /\ cmdSession[c] = s /\ c \notin Live

\* Workers are finitely many and own different commands, all submitted.
LiveOK ==
    /\ IsFiniteSet(live)
    /\ \A w \in live : w.id < next
    /\ \A v, w \in live : v.id = w.id => v = w

IInv == TypeOK /\ PendingOK /\ LiveOK /\ LaneNeverWedged /\ SlotsAccounted

\* The invariant holds before anything is submitted.
LEMMA InitIInv == Init => IInv
<1> SUFFICES ASSUME Init PROVE IInv
  OBVIOUS
<1>1. TypeOK
  <2>1. 1 \in 1 .. MaxCmds + 1
    BY CmdAssumption
  <2>2. <<>> \in Seq(Entry)
    OBVIOUS
  <2>3. QED
    BY <2>1, <2>2 DEF Init, TypeOK
<1>2. \A s \in Session : pending[s] = <<>> /\ Ids(pending[s]) = {}
  BY DEF Init, Ids
<1>3. PendingOK
  BY <1>2 DEF PendingOK, Sorted
<1>4. LiveOK /\ SlotsAccounted
  BY FS_EmptySet DEF Init, LiveOK, SlotsAccounted
<1>5. LaneNeverWedged
  BY DEF Init, LaneNeverWedged, HasActive
<1>6. QED
  BY <1>1, <1>3, <1>4, <1>5 DEF IInv

\* get_lane finds or creates a lane with legal settings.
LEMMA LaneOfType ==
    ASSUME TypeOK, NEW s \in Session
    PROVE  LaneOf(s) \in LaneConfigs /\ LaneOf(s).mode \in Modes
<1>1. LaneOf(s) \in LaneConfigs
  BY ConfigAssumption DEF TypeOK, LaneOf, IsOpen
<1>2. QED
  BY <1>1, ConfigAssumption

\* A submitted command is a legal entry, whatever mode it asked for.
LEMMA NewEntryType ==
    ASSUME TypeOK, NEW s \in Session, NEW m \in SubmitModes, next <= MaxCmds
    PROVE  /\ NewEntry(s, m) \in Entry /\ NewEntry(s, m).id = next
           /\ next \in Cmd /\ next + 1 \in 1 .. MaxCmds + 1
<1>1. next \in Cmd /\ next + 1 \in 1 .. MaxCmds + 1
  BY CmdAssumption DEF TypeOK, Cmd
<1>2. EffectiveMode(s, m) \in Modes
  BY LaneOfType, ConfigAssumption DEF EffectiveMode
<1>3. QED
  BY <1>1, <1>2 DEF NewEntry, Entry

\* Every session's queue is a lane.
LEMMA PendingIsLane ==
    ASSUME IInv, NEW s \in Session
    PROVE  IsLane(pending[s]) /\ Ids(pending[s]) \subseteq Cmd
<1>1. IsLane(pending[s])
  BY DEF IInv, TypeOK, PendingOK, IsLane
<1>2. \A i \in DOMAIN pending[s] : pending[s][i] \in Entry
  BY <1>1 DEF IsLane
<1>3. QED
  BY <1>1, <1>2 DEF Ids, Entry

\* Both ways of submitting put the new command behind the lane's entries.
LEMMA SubmitSteeringIInv ==
    ASSUME IInv, NEW s \in Session, NEW m \in SubmitModes, SubmitSteering(s, m)
    PROVE  IInv'
<1> DEFINE e == NewEntry(s, m)
<1>1. TypeOK /\ next <= MaxCmds /\ next \in Nat
  BY CmdAssumption DEF IInv, TypeOK, SubmitSteering
<1>2. e \in Entry /\ e.id = next /\ next \in Cmd /\ next + 1 \in 1 .. MaxCmds + 1
  BY <1>1, NewEntryType
<1>3. IsLane(pending[s]) /\ \A i \in DOMAIN pending[s] : pending[s][i].id < e.id
  BY <1>2, PendingIsLane DEF IInv, PendingOK, Ids
<1>4. pending' = [pending EXCEPT ![s] = Append(pending[s], e)]
  BY DEF SubmitSteering
<1> HIDE DEF e
<1>5. IsLane(Append(pending[s], e)) /\ Ids(Append(pending[s], e)) = Ids(pending[s]) \cup {next}
  BY <1>2, <1>3, AppendLane
<1>6. TypeOK'
  <2>1. pending' \in [Session -> Seq(Entry)]
    BY <1>1, <1>4, <1>5 DEF TypeOK, IsLane
  <2>2. lane' \in [Session -> LaneConfigs \cup {None}]
    BY <1>1, LaneOfType DEF TypeOK, SubmitSteering, OpenLane
  <2>3. cmdSession' \in [Cmd -> Session \cup {None}]
    BY <1>1, <1>2 DEF TypeOK, SubmitSteering
  <2>4. QED
    BY <1>1, <1>2, <2>1, <2>2, <2>3 DEF TypeOK, SubmitSteering
<1>7. PendingOK'
  <2> SUFFICES ASSUME NEW t \in Session
               PROVE  /\ Sorted(pending'[t])
                      /\ \A c \in Ids(pending'[t]) : c < next' /\ cmdSession'[c] = t /\ c \notin Live'
    BY DEF PendingOK, Ids
  <2>1. /\ Sorted(pending[t]) /\ Ids(pending[t]) \subseteq Cmd
        /\ \A c \in Ids(pending[t]) : c < next /\ cmdSession[c] = t /\ c \notin Live
    BY PendingIsLane DEF IInv, PendingOK
  <2>2. /\ next' = next + 1 /\ Live' = Live
        /\ \A c \in Cmd : cmdSession'[c] = IF c = next THEN s ELSE cmdSession[c]
    BY <1>1, <1>2 DEF SubmitSteering, Live, TypeOK
  <2>3. next \notin Live
    BY <1>1 DEF IInv, LiveOK, Live
  <2>4. \A c \in Ids(pending[t]) : c \in Nat /\ c < next' /\ cmdSession'[c] = t /\ c \notin Live'
    BY <1>1, <2>1, <2>2, CmdAssumption DEF Cmd
  <2>5. CASE t = s
    <3>1. pending'[t] = Append(pending[s], e)
      BY <1>1, <1>4, <2>5 DEF TypeOK
    <3>2. next < next' /\ cmdSession'[next] = s /\ next \notin Live'
      BY <1>1, <1>2, <2>2, <2>3
    <3>3. QED
      BY <1>5, <2>4, <2>5, <3>1, <3>2 DEF IsLane
  <2>6. CASE t # s
    <3>1. pending'[t] = pending[t]
      BY <1>1, <1>4, <2>6 DEF TypeOK
    <3>2. QED
      BY <2>1, <2>4, <3>1
  <2>7. QED
    BY <2>5, <2>6
<1>8. LiveOK' /\ SlotsAccounted'
  <2>1. \A w \in live : w.id \in Nat
    BY <1>1, CmdAssumption DEF TypeOK, Worker, Cmd
  <2>2. QED
    BY <1>1, <2>1 DEF IInv, LiveOK, SlotsAccounted, SubmitSteering
<1>9. LaneNeverWedged'
  BY DEF IInv, LaneNeverWedged, SubmitSteering, HasActive
<1>10. QED
  BY <1>6, <1>7, <1>8, <1>9 DEF IInv

\* A submission, with its interrupt and its overflow, keeps the invariant.
LEMMA SubmitQueuedIInv ==
    ASSUME IInv, NEW s \in Session, NEW m \in SubmitModes, SubmitQueued(s, m)
    PROVE  IInv'
<1> DEFINE e == NewEntry(s, m)
           cfg == LaneOf(s)
           kept == IF Interrupts(s, m) THEN NewestOnly(pending[s]) ELSE pending[s]
           queue == Append(kept, e)
           dropped == Ids(Overflowed(queue, cfg))
           capped == Capped(queue, cfg)
<1>1. TypeOK /\ next <= MaxCmds /\ next \in Nat
  BY CmdAssumption DEF IInv, TypeOK, SubmitQueued
<1>2. e \in Entry /\ e.id = next /\ next \in Cmd /\ next + 1 \in 1 .. MaxCmds + 1
  BY <1>1, NewEntryType
<1>3. cfg \in LaneConfigs
  BY <1>1, LaneOfType
<1>4. /\ pending' = [pending EXCEPT ![s] = capped]
      /\ cmdSession' = [c \in Cmd |-> IF c \in dropped THEN None
                                      ELSE IF c = next THEN s ELSE cmdSession[c]]
      /\ active' = IF Interrupts(s, m) THEN [active EXCEPT ![s] = None] ELSE active
      /\ lane' = [lane EXCEPT ![s] = cfg]
      /\ next' = next + 1
      /\ UNCHANGED <<life, config, activeCount, live>>
  BY DEF SubmitQueued, OpenLane
<1> HIDE DEF e, cfg
<1>5. IsLane(kept) /\ Ids(kept) \subseteq Ids(pending[s])
  BY PendingIsLane, NewestLane
<1>6. \A c \in Ids(pending[s]) : c < next
  BY DEF IInv, PendingOK
<1> HIDE DEF kept
<1>7. \A i \in DOMAIN kept : kept[i].id < e.id
  BY <1>2, <1>5, <1>6 DEF Ids
<1>8. /\ IsLane(queue) /\ Len(queue) \in Nat \ {0}
      /\ Ids(queue) \subseteq Ids(pending[s]) \cup {next}
  BY <1>2, <1>5, <1>7, AppendLane
<1> HIDE DEF queue
<1>9. /\ IsLane(capped) /\ Ids(capped) \subseteq Ids(queue)
      /\ Ids(capped) \cap dropped = {} /\ dropped \subseteq Ids(queue)
  BY <1>3, <1>8, CappedLane, OverflowedIds
<1> HIDE DEF dropped, capped
<1>10. TypeOK'
  <2>1. pending' \in [Session -> Seq(Entry)]
    BY <1>1, <1>4, <1>9 DEF TypeOK, IsLane
  <2>2. lane' \in [Session -> LaneConfigs \cup {None}]
    BY <1>1, <1>3, <1>4 DEF TypeOK
  <2>3. cmdSession' \in [Cmd -> Session \cup {None}]
    BY <1>1, <1>4 DEF TypeOK
  <2>4. active' \in [Session -> Cmd \cup {None}]
    BY <1>1, <1>4 DEF TypeOK
  <2>5. QED
    BY <1>1, <1>2, <1>4, <2>1, <2>2, <2>3, <2>4 DEF TypeOK
<1>11. PendingOK'
  <2> SUFFICES ASSUME NEW t \in Session
               PROVE  /\ Sorted(pending'[t])
                      /\ \A c \in Ids(pending'[t]) : c < next' /\ cmdSession'[c] = t /\ c \notin Live'
    BY DEF PendingOK, Ids
  <2>1. /\ Sorted(pending[t]) /\ Ids(pending[t]) \subseteq Cmd
        /\ \A c \in Ids(pending[t]) : c < next /\ cmdSession[c] = t /\ c \notin Live
    BY PendingIsLane DEF IInv, PendingOK
  <2>2. \A c \in Ids(pending[s]) : cmdSession[c] = s
    BY DEF IInv, PendingOK
  <2>3. Live' = Live /\ next \notin Live
    BY <1>1, <1>4 DEF IInv, LiveOK, Live
  <2>4. \A c \in Ids(pending[t]) : c \in Nat /\ c < next' /\ c # next
    BY <1>1, <1>4, <2>1, CmdAssumption DEF Cmd
  <2>5. CASE t = s
    <3>1. pending'[t] = capped
      BY <1>1, <1>4, <2>5 DEF TypeOK
    <3>2. next < next'
      BY <1>1, <1>4
    <3>3. ASSUME NEW c \in Ids(capped)
          PROVE  c < next' /\ cmdSession'[c] = t /\ c \notin Live'
      <4>1. c \in Ids(pending[s]) \/ c = next
        BY <1>8, <1>9
      <4>2. c \in Cmd /\ c \notin dropped
        BY <1>2, <1>9, <2>1, <2>5, <4>1
      <4>3. cmdSession'[c] = IF c = next THEN s ELSE cmdSession[c]
        BY <1>4, <4>2
      <4>4. QED
        BY <2>1, <2>3, <2>4, <2>5, <3>2, <4>1, <4>3
    <3>4. QED
      BY <1>9, <3>1, <3>3 DEF IsLane
  <2>6. CASE t # s
    <3>1. pending'[t] = pending[t]
      BY <1>1, <1>4, <2>6 DEF TypeOK
    <3>2. ASSUME NEW c \in Ids(pending[t]) PROVE cmdSession'[c] = t
      <4>1. c \in Cmd /\ c # next /\ c \notin Ids(pending[s])
        BY <2>1, <2>2, <2>4, <2>6
      <4>2. c \notin dropped
        BY <1>8, <1>9, <4>1
      <4>3. QED
        BY <1>4, <2>1, <4>1, <4>2
    <3>3. QED
      BY <2>1, <2>3, <2>4, <3>1, <3>2
  <2>7. QED
    BY <2>5, <2>6
<1>12. LiveOK' /\ SlotsAccounted'
  <2>1. \A w \in live : w.id \in Nat
    BY <1>1, CmdAssumption DEF TypeOK, Worker, Cmd
  <2>2. QED
    BY <1>1, <1>4, <2>1 DEF IInv, LiveOK, SlotsAccounted
<1>13. LaneNeverWedged'
  BY <1>1, <1>4 DEF IInv, LaneNeverWedged, HasActive, TypeOK
<1>14. QED
  BY <1>10, <1>11, <1>12, <1>13 DEF IInv

\* Cancel keeps the invariant, pending command or not.
LEMMA CancelIInv ==
    ASSUME IInv, NEW c \in Cmd, Cancel(c)
    PROVE  IInv'
<1> DEFINE s == cmdSession[c]
<1>1. TypeOK
  BY DEF IInv
<1>2. s \in Session
  BY <1>1 DEF TypeOK, Cancel
<1>3. /\ lane' = [lane EXCEPT ![s] = LaneOf(s)]
      /\ cmdSession' = [cmdSession EXCEPT ![c] = None]
      /\ UNCHANGED <<life, config, activeCount, active, live, next>>
  BY DEF Cancel, OpenLane
<1>4. PICK q : /\ pending' = [pending EXCEPT ![s] = q]
               /\ IsLane(q) /\ Ids(q) \subseteq Ids(pending[s]) \ {c}
  <2>1. CASE c \notin Ids(pending[s]) /\ UNCHANGED pending
    BY <1>1, <1>2, <2>1, PendingIsLane DEF TypeOK
  <2>2. ASSUME NEW i \in DOMAIN pending[s], pending[s][i].id = c,
               pending' = [pending EXCEPT ![s] =
                             SubSeq(@, 1, i - 1) \o SubSeq(@, i + 1, Len(@))]
        PROVE  \E q : /\ pending' = [pending EXCEPT ![s] = q]
                      /\ IsLane(q) /\ Ids(q) \subseteq Ids(pending[s]) \ {c}
    <3> DEFINE r == SubSeq(pending[s], 1, i - 1) \o SubSeq(pending[s], i + 1, Len(pending[s]))
    <3>1. IsLane(r) /\ Ids(r) \subseteq Ids(pending[s]) \ {c}
      BY <1>2, <2>2, PendingIsLane, RemoveLane
    <3>2. pending' = [pending EXCEPT ![s] = r]
      BY <2>2
    <3>3. QED
      BY <3>1, <3>2
  <2>3. QED
    BY <2>1, <2>2 DEF Cancel
<1> HIDE DEF s
<1>5. TypeOK'
  <2>1. pending' \in [Session -> Seq(Entry)]
    BY <1>1, <1>4 DEF TypeOK, IsLane
  <2>2. lane' \in [Session -> LaneConfigs \cup {None}]
    BY <1>1, <1>2, <1>3, LaneOfType DEF TypeOK
  <2>3. QED
    BY <1>1, <1>3, <2>1, <2>2 DEF TypeOK
<1>6. PendingOK'
  <2> SUFFICES ASSUME NEW t \in Session
               PROVE  /\ Sorted(pending'[t])
                      /\ \A d \in Ids(pending'[t]) : d < next' /\ cmdSession'[d] = t /\ d \notin Live'
    BY DEF PendingOK, Ids
  <2>1. /\ Sorted(pending[t]) /\ Ids(pending[t]) \subseteq Cmd
        /\ \A d \in Ids(pending[t]) : d < next /\ cmdSession[d] = t /\ d \notin Live
    BY PendingIsLane DEF IInv, PendingOK
  <2>2. Sorted(pending'[t]) /\ Ids(pending'[t]) \subseteq Ids(pending[t]) \ {c}
    <3>1. CASE t = s
      BY <1>1, <1>4, <3>1 DEF TypeOK, IsLane
    <3>2. CASE t # s
      BY <1>1, <1>4, <2>1, <3>2 DEF TypeOK, s
    <3>3. QED
      BY <3>1, <3>2
  <2>3. \A d \in Cmd \ {c} : cmdSession'[d] = cmdSession[d]
    BY <1>1, <1>3 DEF TypeOK
  <2>4. QED
    BY <1>3, <2>1, <2>2, <2>3 DEF Live
<1>7. QED
  BY <1>3, <1>5, <1>6 DEF IInv, LiveOK, SlotsAccounted, LaneNeverWedged, HasActive

\* AbortSession keeps the invariant: it leaves the worker and its slot alone.
LEMMA AbortSessionIInv ==
    ASSUME IInv, NEW s \in Session, AbortSession(s)
    PROVE  IInv'
<1> DEFINE q == NewestOnly(pending[s])
<1>1. TypeOK
  BY DEF IInv
<1>2. IsLane(q) /\ Ids(q) \subseteq Ids(pending[s])
  BY PendingIsLane, NewestLane
<1>3. /\ pending' = [pending EXCEPT ![s] = q]
      /\ active' = [active EXCEPT ![s] = None]
      /\ cmdSession' = [c \in Cmd |-> IF c = active[s] THEN None ELSE cmdSession[c]]
      /\ UNCHANGED <<life, config, activeCount, lane, live, next>>
  BY DEF AbortSession
<1> HIDE DEF q
<1>4. TypeOK'
  <2>1. pending' \in [Session -> Seq(Entry)]
    BY <1>1, <1>2, <1>3 DEF TypeOK, IsLane
  <2>2. QED
    BY <1>1, <1>3, <2>1 DEF TypeOK
<1>5. PendingOK'
  <2> SUFFICES ASSUME NEW t \in Session
               PROVE  /\ Sorted(pending'[t])
                      /\ \A d \in Ids(pending'[t]) : d < next' /\ cmdSession'[d] = t /\ d \notin Live'
    BY DEF PendingOK, Ids
  <2>1. /\ Sorted(pending[t]) /\ Ids(pending[t]) \subseteq Cmd
        /\ \A d \in Ids(pending[t]) : d < next /\ cmdSession[d] = t /\ d \notin Live
    BY PendingIsLane DEF IInv, PendingOK
  <2>2. Sorted(pending'[t]) /\ Ids(pending'[t]) \subseteq Ids(pending[t])
    <3>1. CASE t = s
      BY <1>1, <1>2, <1>3, <3>1 DEF TypeOK, IsLane
    <3>2. CASE t # s
      BY <1>1, <1>3, <2>1, <3>2 DEF TypeOK
    <3>3. QED
      BY <3>1, <3>2
  <2>3. active[s] = None \/ active[s] \in Live
    BY DEF IInv, LaneNeverWedged, HasActive, Live
  <2>4. \A d \in Ids(pending[t]) : d # active[s]
    BY <2>1, <2>3, CmdAssumption
  <2>5. QED
    BY <1>3, <2>1, <2>2, <2>4 DEF Live
<1>6. LaneNeverWedged'
  BY <1>1, <1>3 DEF IInv, LaneNeverWedged, HasActive, TypeOK
<1>7. QED
  BY <1>3, <1>4, <1>5, <1>6 DEF IInv, LiveOK, SlotsAccounted

\* Steps that move no command.
LEMMA SettingsIInv ==
    ASSUME IInv,
           UNCHANGED <<cmdSession, activeCount, pending, active, live, next>>,
           life' \in {"stopped", "running"}, config' \in QueueConfigs,
           lane' \in [Session -> LaneConfigs \cup {None}]
    PROVE  IInv'
<1>1. TypeOK'
  BY DEF IInv, TypeOK
<1>2. PendingOK'
  <2>1. Live' = Live
    BY DEF Live
  <2>2. QED
    BY <2>1 DEF IInv, PendingOK
<1>3. QED
  BY <1>1, <1>2 DEF IInv, LiveOK, SlotsAccounted, LaneNeverWedged, HasActive

\* A worker that finishes keeps the invariant, even when its lane was freed
\* or given to another command meanwhile.
LEMMA CompleteIInv ==
    ASSUME IInv, NEW w \in live, Complete(w)
    PROVE  IInv'
<1>1. TypeOK /\ w \in Worker /\ w.session \in Session
  BY DEF IInv, TypeOK, Worker
<1>2. /\ live' = live \ {w}
      /\ active' = [active EXCEPT ![w.session] = None]
      /\ activeCount' = activeCount - 1
      /\ UNCHANGED <<life, config, cmdSession, lane, pending, next>>
  BY DEF Complete
<1>3. /\ IsFiniteSet(live') /\ Cardinality(live') = Cardinality(live) - 1
      /\ Cardinality(live') \in Nat
  BY <1>2, FS_RemoveElement, FS_CardinalityType DEF IInv, LiveOK
<1>4. SlotsAccounted' /\ activeCount' \in Nat
  BY <1>2, <1>3 DEF IInv, SlotsAccounted
<1>5. TypeOK'
  BY <1>1, <1>2, <1>4 DEF TypeOK
<1>6. PendingOK'
  <2>1. Live' \subseteq Live
    BY <1>2 DEF Live
  <2>2. QED
    BY <1>2, <2>1 DEF IInv, PendingOK
<1>7. LiveOK'
  BY <1>2, <1>3 DEF IInv, LiveOK
<1>8. LaneNeverWedged'
  <2> SUFFICES ASSUME NEW s \in Session, active'[s] # None
               PROVE  \E v \in live' : v.id = active'[s] /\ v.session = s
    BY DEF LaneNeverWedged, HasActive
  <2>1. s # w.session /\ active'[s] = active[s]
    BY <1>1, <1>2 DEF TypeOK
  <2>2. PICK v \in live : v.id = active[s] /\ v.session = s
    BY <2>1 DEF IInv, LaneNeverWedged, HasActive
  <2>3. v \in live'
    BY <1>2, <2>1, <2>2
  <2>4. QED
    BY <2>1, <2>2, <2>3
<1>9. QED
  BY <1>4, <1>5, <1>6, <1>7, <1>8 DEF IInv

\* The worker of a lane's head is a new one, of that session.
LEMMA DispatchedWorker ==
    ASSUME IInv, NEW s \in Session, pending[s] # <<>>
    PROVE  /\ Head(pending[s]).id \in Ids(pending[s])
           /\ Dispatched(s) \in Worker
           /\ Dispatched(s).id = Head(pending[s]).id
           /\ Dispatched(s).session = s
<1>1. IsLane(pending[s]) /\ \A i \in DOMAIN pending[s] : pending[s][i] \in Entry
  BY PendingIsLane DEF IsLane
<1>2. 1 \in DOMAIN pending[s] /\ Head(pending[s]) = pending[s][1]
  BY <1>1, EmptySeq DEF IsLane
<1>3. Head(pending[s]) \in Entry /\ Head(pending[s]).id \in Ids(pending[s])
  BY <1>1, <1>2 DEF Ids
<1>4. Texts(pending[s]) \subseteq Cmd
  BY <1>1 DEF Texts, Entry
<1>5. QED
  BY <1>3, <1>4 DEF Dispatched, Worker, Entry

\* What stays behind the head is a lane without the head.
LEMMA RestLane ==
    ASSUME IInv, NEW s \in Session, pending[s] # <<>>
    PROVE  /\ IsLane(Rest(s))
           /\ Ids(Rest(s)) \subseteq Ids(pending[s]) \ {Head(pending[s]).id}
<1> DEFINE q == pending[s]
           n == Len(q)
<1>1. IsLane(q) /\ n \in Nat \ {0} /\ DOMAIN q = 1 .. n /\ Head(q) = q[1]
  BY PendingIsLane, EmptySeq DEF IsLane
<1>2. Tail(q) = SubSeq(q, 2, n)
  BY <1>1, TailIsSubSeq DEF IsLane
<1> HIDE DEF q, n
<1>3. IsLane(Tail(q)) /\ Ids(Tail(q)) = {q[i].id : i \in 2 .. n}
  <2>1. 2 \in Nat /\ 1 <= 2 /\ n \in Nat /\ n <= Len(q)
    BY <1>1 DEF n
  <2>2. IsLane(SubSeq(q, 2, n)) /\ Ids(SubSeq(q, 2, n)) = {q[i].id : i \in 2 .. n}
    BY <1>1, <2>1, SubSeqLane
  <2>3. QED
    BY <1>2, <2>2
<1>4. {q[i].id : i \in 2 .. n} \subseteq Ids(q) \ {q[1].id}
  <2>1. {1} \subseteq DOMAIN q /\ 2 .. n \subseteq DOMAIN q /\ {1} \cap (2 .. n) = {}
    BY <1>1
  <2>2. {q[i].id : i \in {1}} \cap {q[i].id : i \in 2 .. n} = {} /\ {q[i].id : i \in 2 .. n} \subseteq Ids(q)
    BY <1>1, <2>1, CutApart
  <2>3. QED
    BY <2>2
<1>5. IsLane(<<>>) /\ Ids(<<>>) = {}
  BY DEF IsLane, Sorted, Ids
<1>6. Rest(s) = <<>> \/ Rest(s) = Tail(q)
  BY DEF Rest, q
<1>7. QED
  BY <1>1, <1>3, <1>4, <1>5, <1>6 DEF q

\* A dispatcher pass keeps the invariant: it fills as many slots as it starts
\* workers.
LEMMA DispatchIInv ==
    ASSUME IInv, NEW eligible \in SUBSET Ready, Dispatch(eligible)
    PROVE  IInv'
<1>1. TypeOK
  BY DEF IInv
<1>2. PICK chosen \in SUBSET eligible :
        /\ active' = [s \in Session |->
                        IF s \in chosen THEN Head(pending[s]).id ELSE active[s]]
        /\ pending' = [s \in Session |-> IF s \in chosen THEN Rest(s) ELSE pending[s]]
        /\ live' = live \cup {Dispatched(s) : s \in chosen}
        /\ cmdSession' = [c \in Cmd |-> IF c \in {Head(pending[s]).id : s \in chosen}
                                        THEN None ELSE cmdSession[c]]
        /\ activeCount' = activeCount + Cardinality(chosen)
        /\ lane' = [s \in Session |-> IF IsIdle(s) THEN None ELSE lane[s]]
        /\ UNCHANGED <<life, config, next>>
  BY DEF Dispatch
<1> DEFINE new == {Dispatched(s) : s \in chosen}
           ids == {Head(pending[s]).id : s \in chosen}
<1>3. chosen \subseteq Session /\ \A s \in chosen : pending[s] # <<>> /\ active[s] = None
  BY DEF Ready, HasActive
<1>4. \A s \in chosen : /\ Dispatched(s) \in Worker
                         /\ Dispatched(s).id = Head(pending[s]).id
                         /\ Dispatched(s).session = s
                         /\ Dispatched(s).id \in Ids(pending[s])
                         /\ Dispatched(s).id < next
                         /\ Dispatched(s).id \notin Live
                         /\ cmdSession[Dispatched(s).id] = s
  BY <1>3, DispatchedWorker DEF IInv, PendingOK
<1>5. \A s, t \in chosen : Dispatched(s).id = Dispatched(t).id => s = t
  BY <1>4
<1>6. /\ IsFiniteSet(chosen) /\ IsFiniteSet(new)
      /\ Cardinality(new) = Cardinality(chosen) /\ Cardinality(chosen) \in Nat
  <2>1. IsFiniteSet(chosen)
    BY <1>3, SessionAssumption, FS_Subset
  <2>2. [s \in chosen |-> Dispatched(s)] \in Bijection(chosen, new)
    BY <1>5 DEF Bijection, Injection, Surjection, IsInjective
  <2>3. ExistsBijection(chosen, new)
    BY <2>2 DEF ExistsBijection
  <2>4. QED
    BY <2>1, <2>3, FS_Bijection, FS_CardinalityType
<1>7. new \cap live = {}
  BY <1>4 DEF Live
<1> HIDE DEF new, ids
<1>8. IsFiniteSet(live') /\ Cardinality(live') = Cardinality(live) + Cardinality(chosen)
  <2>1. IsFiniteSet(live) /\ live' = live \cup new
    BY <1>2 DEF IInv, LiveOK, new
  <2>2. live \cap new = {}
    BY <1>7
  <2>3. /\ IsFiniteSet(live \cup new)
        /\ Cardinality(live \cup new)
              = Cardinality(live) + Cardinality(new) - Cardinality(live \cap new)
    BY <1>6, <2>1, FS_Union
  <2>4. Cardinality(live \cap new) = 0
    BY <2>2, FS_EmptySet
  <2>5. Cardinality(live) \in Nat /\ Cardinality(new) \in Nat
    BY <1>6, <2>1, FS_CardinalityType
  <2>6. QED
    BY <1>6, <2>1, <2>3, <2>4, <2>5
<1>9. SlotsAccounted' /\ activeCount' \in Nat
  BY <1>1, <1>2, <1>6, <1>8 DEF IInv, SlotsAccounted, TypeOK
<1>10. TypeOK'
  <2>1. pending' \in [Session -> Seq(Entry)]
    <3>1. \A s \in Session : (IF s \in chosen THEN Rest(s) ELSE pending[s]) \in Seq(Entry)
      BY <1>1, <1>3, RestLane DEF IsLane, TypeOK
    <3>2. QED
      BY <1>2, <3>1
  <2>2. active' \in [Session -> Cmd \cup {None}]
    BY <1>1, <1>2, <1>4 DEF TypeOK, Worker
  <2>3. live' \in SUBSET Worker
    BY <1>1, <1>2, <1>4 DEF TypeOK
  <2>4. cmdSession' \in [Cmd -> Session \cup {None}] /\ lane' \in [Session -> LaneConfigs \cup {None}]
    BY <1>1, <1>2 DEF TypeOK
  <2>5. QED
    BY <1>1, <1>2, <1>9, <2>1, <2>2, <2>3, <2>4 DEF TypeOK
<1>11. Live' = Live \cup ids
  <2>1. {w.id : w \in new} = ids
    BY <1>4 DEF new, ids
  <2>2. QED
    BY <1>2, <2>1 DEF Live, new
<1>12. PendingOK'
  <2> SUFFICES ASSUME NEW t \in Session
               PROVE  /\ Sorted(pending'[t])
                      /\ \A c \in Ids(pending'[t]) : c < next' /\ cmdSession'[c] = t /\ c \notin Live'
    BY DEF PendingOK, Ids
  <2>1. /\ Sorted(pending[t]) /\ Ids(pending[t]) \subseteq Cmd
        /\ \A c \in Ids(pending[t]) : c < next /\ cmdSession[c] = t /\ c \notin Live
    BY PendingIsLane DEF IInv, PendingOK
  <2>2. /\ Sorted(pending'[t]) /\ Ids(pending'[t]) \subseteq Ids(pending[t])
        /\ t \in chosen => Head(pending[t]).id \notin Ids(pending'[t])
    BY <1>2, <1>3, <2>1, RestLane DEF IsLane
  <2>3. ASSUME NEW c \in Ids(pending'[t]) PROVE c \notin ids
    <3> SUFFICES ASSUME NEW s \in chosen, c = Head(pending[s]).id PROVE FALSE
      BY DEF ids
    <3>1. s = t
      BY <1>4, <2>1, <2>2, <2>3
    <3>2. QED
      BY <2>2, <2>3, <3>1
  <2>4. ASSUME NEW c \in Ids(pending'[t]) PROVE cmdSession'[c] = cmdSession[c]
    BY <1>2, <2>1, <2>2, <2>3, <2>4 DEF ids
  <2>5. QED
    BY <1>2, <1>11, <2>1, <2>2, <2>3, <2>4
<1>13. LiveOK'
  <2>1. \A w \in live' : w \in live \/ \E s \in chosen : w = Dispatched(s)
    BY <1>2
  <2>2. \A w \in live' : w.id < next'
    BY <1>2, <1>4, <2>1 DEF IInv, LiveOK
  <2>3. \A v, w \in live' : v.id = w.id => v = w
    BY <1>4, <1>5, <2>1 DEF IInv, LiveOK, Live
  <2>4. QED
    BY <1>8, <2>2, <2>3 DEF LiveOK
<1>14. LaneNeverWedged'
  <2> SUFFICES ASSUME NEW s \in Session, active'[s] # None
               PROVE  \E v \in live' : v.id = active'[s] /\ v.session = s
    BY DEF LaneNeverWedged, HasActive
  <2>1. CASE s \in chosen
    BY <1>2, <1>4, <2>1
  <2>2. CASE s \notin chosen
    <3>1. active'[s] = active[s]
      BY <1>2, <2>2
    <3>2. PICK v \in live : v.id = active[s] /\ v.session = s
      BY <3>1 DEF IInv, LaneNeverWedged, HasActive
    <3>3. QED
      BY <1>2, <3>1, <3>2
  <2>3. QED
    BY <2>1, <2>2
<1>15. QED
  BY <1>9, <1>10, <1>12, <1>13, <1>14 DEF IInv

-----------------------------------------------------------------------------
\* Every step of the queue keeps the invariant.
LEMMA NextIInv ==
    ASSUME IInv, [Next]_vars
    PROVE  IInv'
<1>1. ASSUME NEW s \in Session, NEW m \in SubmitModes, SubmitSteering(s, m) PROVE IInv'
  BY <1>1, SubmitSteeringIInv
<1>2. ASSUME NEW s \in Session, NEW m \in SubmitModes, SubmitQueued(s, m) PROVE IInv'
  BY <1>2, SubmitQueuedIInv
<1>3. ASSUME NEW c \in Cmd, Cancel(c) PROVE IInv'
  BY <1>3, CancelIInv
<1>4. ASSUME NEW s \in Session, AbortSession(s) PROVE IInv'
  BY <1>4, AbortSessionIInv
<1>5. ASSUME NEW s \in Session, NEW cfg \in LaneConfigs, ConfigureSession(s, cfg) PROVE IInv'
  <2>1. lane' \in [Session -> LaneConfigs \cup {None}]
    BY <1>5 DEF ConfigureSession, OpenLane, IInv, TypeOK
  <2>2. QED
    BY <1>5, <2>1, SettingsIInv DEF ConfigureSession, IInv, TypeOK
<1>6. ASSUME NEW cfg \in QueueConfigs, SetConfig(cfg) PROVE IInv'
  BY <1>6, SettingsIInv DEF SetConfig, laneVars, IInv, TypeOK
<1>7. CASE Start \/ Stop
  BY <1>7, SettingsIInv DEF Start, Stop, queueVars, laneVars, IInv, TypeOK
<1>8. ASSUME NEW eligible \in SUBSET Ready, Dispatch(eligible) PROVE IInv'
  BY <1>8, DispatchIInv
<1>9. ASSUME NEW w \in live, Complete(w) PROVE IInv'
  BY <1>9, CompleteIInv
<1>10. CASE UNCHANGED vars
  BY <1>10, SettingsIInv DEF vars, laneVars, IInv, TypeOK
<1>11. QED
  BY <1>1, <1>2, <1>3, <1>4, <1>5, <1>6, <1>7, <1>8, <1>9, <1>10 DEF Next, Call

\* In every reachable state each command is in one place and the counter agrees
\* with the workers.
THEOREM Invariance == Spec => []IInv
<1>1. QED
  BY InitIInv, NextIInv, PTL DEF Spec

\* Every variable of the queue keeps its type.
THEOREM TypeCorrect == Spec => []TypeOK
<1>1. IInv => TypeOK
  BY DEF IInv
<1>2. QED
  BY <1>1, Invariance, PTL

\* active_count_ counts the dispatched commands that still hold a slot, after
\* any interleaving of submissions, interrupts, aborts and completions.
THEOREM SlotAccounting == Spec => []SlotsAccounted
<1>1. IInv => SlotsAccounted
  BY DEF IInv
<1>2. QED
  BY <1>1, Invariance, PTL

\* No lane is left busy by a command that has no worker to complete it.
THEOREM NeverWedged == Spec => []LaneNeverWedged
<1>1. IInv => LaneNeverWedged
  BY DEF IInv
<1>2. QED
  BY <1>1, Invariance, PTL

\* Lanes are first in, first out, under every cap and drop policy.
THEOREM Fifo == Spec => []LaneFIFO
<1>1. IInv => LaneFIFO
  BY DEF IInv, PendingOK, Sorted, LaneFIFO
<1>2. QED
  BY <1>1, Invariance, PTL

\* Cancel finds every pending command in the lane that holds it.
THEOREM Cancellable == Spec => []PendingCancellable
<1>1. IInv => PendingCancellable
  BY DEF IInv, PendingOK, PendingCancellable, Ids
<1>2. QED
  BY <1>1, Invariance, PTL

-----------------------------------------------------------------------------
(* The queue implements the worker pool *)

\* No two commands have the same worker, and none is both waiting and running.
LEMMA Places ==
    ASSUME IInv
    PROVE  /\ Waiting \cap Live = {}
           /\ Waiting \subseteq 1 .. next - 1 /\ Live \subseteq 1 .. next - 1
           /\ next \in Nat /\ 1 .. next - 1 \subseteq Cmd
           /\ config.max \in Nat
<1>1. next \in 1 .. MaxCmds + 1 /\ MaxCmds \in Nat
  BY CmdAssumption DEF IInv, TypeOK
<1>2. \A c \in Waiting : c \in Cmd /\ c < next /\ c \notin Live
  BY PendingIsLane DEF IInv, PendingOK, Waiting
<1>3. \A c \in Live : c \in Cmd /\ c < next
  BY DEF IInv, LiveOK, TypeOK, Worker, Live
<1>4. config.max \in Nat
  BY ConfigAssumption DEF IInv, TypeOK
<1>5. \A c \in Cmd : c < next => c \in 1 .. next - 1
  BY <1>1 DEF Cmd
<1>6. 1 .. next - 1 \subseteq Cmd
  BY <1>1 DEF Cmd
<1>7. QED
  BY <1>1, <1>2, <1>3, <1>4, <1>5, <1>6

\* A call that starts and ends no worker exchanges commands that wait.
LEMMA CallExchanges ==
    ASSUME IInv, IInv', UNCHANGED <<live, config>>, next' \in {next, next + 1},
           \A c \in Waiting' : c \in Waiting \/ c >= next
    PROVE  Pool!Exchange
<1>1. Live' = Live
  BY DEF Live
<1>2. /\ Waiting \cap Live = {} /\ Waiting' \cap Live = {}
      /\ Waiting \subseteq 1 .. next - 1 /\ Live \subseteq 1 .. next - 1
      /\ next \in Nat
  BY <1>1, Places
<1>3. 1 .. next - 1 \subseteq 1 .. next' - 1
  <2>1. \A n, m \in Nat : n <= m => 1 .. n - 1 \subseteq 1 .. m - 1
    OBVIOUS
  <2>2. next' \in Nat /\ next <= next'
    BY <1>2
  <2>3. QED
    BY <1>2, <2>1, <2>2
<1>4. \A c \in 1 .. next - 1 : ~(c >= next)
  BY <1>2
<1>5. QED
  BY <1>1, <1>2, <1>3, <1>4 DEF Pool!Exchange

\* Where one lane changes, only that lane's commands may have gone or come.
LEMMA OtherLanes ==
    ASSUME TypeOK, NEW s \in Session, NEW q, pending' = [pending EXCEPT ![s] = q],
           Ids(q) \subseteq Ids(pending[s]) \cup {next}
    PROVE  \A c \in Waiting' : c \in Waiting \/ c = next
<1>1. \A t \in Session : pending'[t] = IF t = s THEN q ELSE pending[t]
  BY DEF TypeOK
<1>2. \A t \in Session : Ids(pending'[t]) \subseteq Ids(pending[t]) \cup {next}
  BY <1>1
<1>3. Waiting' = UNION {Ids(pending'[t]) : t \in Session}
  BY DEF Waiting, Ids
<1>4. QED
  BY <1>2, <1>3 DEF Waiting

\* The lane a message is queued in, after an interrupt and before the overflow.
Kept(s, m) == IF Interrupts(s, m) THEN NewestOnly(pending[s]) ELSE pending[s]
Queue(s, m) == Append(Kept(s, m), NewEntry(s, m))
LEMMA QueueIsLane ==
    ASSUME IInv, NEW s \in Session, NEW m \in SubmitModes, next <= MaxCmds
    PROVE  /\ IsLane(Queue(s, m)) /\ Len(Queue(s, m)) \in Nat \ {0}
           /\ Ids(Queue(s, m)) \subseteq Ids(pending[s]) \cup {next}
<1> DEFINE e == NewEntry(s, m)
           kept == Kept(s, m)
<1>1. e \in Entry /\ e.id = next
  BY NewEntryType DEF IInv
<1>2. IsLane(kept) /\ Ids(kept) \subseteq Ids(pending[s])
  BY PendingIsLane, NewestLane DEF Kept
<1>3. Queue(s, m) = Append(kept, e)
  BY DEF Queue
<1> HIDE DEF e, kept
<1>4. \A c \in Ids(pending[s]) : c < next
  BY DEF IInv, PendingOK
<1>5. \A i \in DOMAIN kept : kept[i].id < e.id
  BY <1>1, <1>2, <1>4 DEF Ids
<1>6. QED
  BY <1>1, <1>2, <1>3, <1>5, AppendLane

LEMMA CallRefines ==
    ASSUME IInv, IInv', Call
    PROVE  Pool!PoolNext
<1>1. TypeOK /\ next \in Nat /\ config'.max \in Nat
  BY Places, ConfigAssumption DEF IInv, TypeOK
<1>2. ASSUME NEW s \in Session, NEW q, pending' = [pending EXCEPT ![s] = q],
             Ids(q) \subseteq Ids(pending[s]) \cup {next},
             UNCHANGED <<live, config>>, next' \in {next, next + 1}
      PROVE  Pool!PoolNext
  <2>1. \A c \in Waiting' : c \in Waiting \/ c = next
    BY <1>1, <1>2, OtherLanes
  <2>2. next >= next
    BY <1>1
  <2>3. QED
    BY <1>2, <2>1, <2>2, CallExchanges DEF Pool!PoolNext
<1>3. ASSUME NEW s \in Session, NEW m \in SubmitModes, SubmitSteering(s, m)
      PROVE  Pool!PoolNext
  <2> DEFINE q == Append(pending[s], NewEntry(s, m))
  <2>1. pending' = [pending EXCEPT ![s] = q] /\ next <= MaxCmds
        /\ UNCHANGED <<live, config>> /\ next' = next + 1
    BY <1>3 DEF SubmitSteering
  <2>2. NewEntry(s, m) \in Entry /\ NewEntry(s, m).id = next
    BY <1>1, <2>1, NewEntryType
  <2>3. IsLane(pending[s]) /\ \A i \in DOMAIN pending[s] : pending[s][i].id < NewEntry(s, m).id
    BY <2>2, PendingIsLane DEF IInv, PendingOK, Ids
  <2>4. Ids(q) \subseteq Ids(pending[s]) \cup {next}
    BY <2>2, <2>3, AppendLane
  <2> HIDE DEF q
  <2>5. QED
    BY <1>2, <2>1, <2>4
<1>4. ASSUME NEW s \in Session, NEW m \in SubmitModes, SubmitQueued(s, m)
      PROVE  Pool!PoolNext
  <2> DEFINE q == Capped(Queue(s, m), LaneOf(s))
  <2>1. pending' = [pending EXCEPT ![s] = q] /\ next <= MaxCmds
        /\ UNCHANGED <<live, config>> /\ next' = next + 1
    BY <1>4 DEF SubmitQueued, Queue, Kept
  <2>2. Ids(q) \subseteq Ids(pending[s]) \cup {next}
    BY <1>1, <2>1, QueueIsLane, LaneOfType, CappedLane
  <2> HIDE DEF q
  <2>3. QED
    BY <1>2, <2>1, <2>2
<1>5. ASSUME NEW c \in Cmd, Cancel(c)
      PROVE  Pool!PoolNext
  <2> DEFINE s == cmdSession[c]
  <2>1. s \in Session /\ UNCHANGED <<live, config, next>>
    BY <1>1, <1>5 DEF TypeOK, Cancel
  <2>2. CASE UNCHANGED pending
    <3>1. Waiting' = Waiting
      BY <2>2 DEF Waiting
    <3>2. QED
      BY <2>1, <3>1, CallExchanges DEF Pool!PoolNext
  <2>3. ASSUME NEW i \in DOMAIN pending[s],
               pending' = [pending EXCEPT ![s] =
                             SubSeq(@, 1, i - 1) \o SubSeq(@, i + 1, Len(@))]
        PROVE  Pool!PoolNext
    <3> DEFINE r == SubSeq(pending[s], 1, i - 1) \o SubSeq(pending[s], i + 1, Len(pending[s]))
    <3>1. Ids(r) \subseteq Ids(pending[s])
      BY <2>1, PendingIsLane, RemoveLane
    <3>2. pending' = [pending EXCEPT ![s] = r]
      BY <2>3
    <3> HIDE DEF r
    <3>3. QED
      BY <1>2, <2>1, <3>1, <3>2
  <2>4. QED
    BY <1>5, <2>2, <2>3 DEF Cancel
<1>6. ASSUME NEW s \in Session, AbortSession(s)
      PROVE  Pool!PoolNext
  <2> DEFINE q == NewestOnly(pending[s])
  <2>1. pending' = [pending EXCEPT ![s] = q] /\ UNCHANGED <<live, config, next>>
    BY <1>6 DEF AbortSession
  <2>2. Ids(q) \subseteq Ids(pending[s])
    BY PendingIsLane, NewestLane
  <2> HIDE DEF q
  <2>3. QED
    BY <1>2, <2>1, <2>2
<1>7. CASE UNCHANGED <<pending, live, next>>
  <2>1. Waiting' = Waiting /\ Live' = Live
    BY <1>7 DEF Waiting, Live
  <2>2. QED
    BY <1>1, <1>7, <2>1 DEF Pool!PoolNext, Pool!Relimit
<1>8. QED
  BY <1>3, <1>4, <1>5, <1>6, <1>7 DEF Call, ConfigureSession, SetConfig, laneVars

\* A pass of the dispatcher admits no more commands than there are free slots.
LEMMA DispatchAdmits ==
    ASSUME IInv, IInv', NEW eligible \in SUBSET Ready, Dispatch(eligible)
    PROVE  Pool!Admit
<1>1. PICK chosen \in SUBSET eligible :
        /\ Cardinality(chosen) = LeastOf(Cardinality(eligible), Slots)
        /\ pending' = [s \in Session |-> IF s \in chosen THEN Rest(s) ELSE pending[s]]
        /\ live' = live \cup {Dispatched(s) : s \in chosen}
        /\ activeCount' = activeCount + Cardinality(chosen)
        /\ UNCHANGED <<life, config, next>>
  BY DEF Dispatch
<1> DEFINE ids == {Head(pending[s]).id : s \in chosen}
<1>2. chosen \subseteq Session /\ \A s \in chosen : pending[s] # <<>>
  BY DEF Ready
<1>3. \A s \in chosen : /\ Dispatched(s).id = Head(pending[s]).id
                        /\ Head(pending[s]).id \in Ids(pending[s])
  BY <1>2, DispatchedWorker
<1>4. ids \subseteq Waiting
  BY <1>2, <1>3 DEF Waiting
<1>5. Live' = Live \cup ids
  BY <1>1, <1>3 DEF Live
<1>6. Waiting' \subseteq Waiting
  <2>1. \A s \in Session : Ids(pending'[s]) \subseteq Ids(pending[s])
    BY <1>1, <1>2, RestLane
  <2>2. Waiting' = UNION {Ids(pending'[s]) : s \in Session}
    BY DEF Waiting, Ids
  <2>3. QED
    BY <2>1, <2>2 DEF Waiting
<1> HIDE DEF ids
<1>7. /\ Waiting \cap Live = {} /\ Waiting' \cap Live' = {}
      /\ Waiting \subseteq 1 .. next - 1 /\ Live \subseteq 1 .. next - 1
      /\ config.max \in Nat
  <2>1. \A c \in Waiting' : c \notin Live'
    BY DEF IInv, PendingOK, Waiting
  <2>2. QED
    BY <2>1, Places
<1>8. Cardinality(live') = Cardinality(Live') /\ IsFiniteSet(live')
  <2>1. IsFiniteSet(live') /\ \A v, w \in live' : v.id = w.id => v = w
    BY DEF IInv, LiveOK
  <2>2. Live' = {w.id : w \in live'}
    BY DEF Live
  <2>3. [w \in live' |-> w.id] \in Bijection(live', {w.id : w \in live'})
    BY <2>1 DEF Bijection, Injection, Surjection, IsInjective
  <2>4. ExistsBijection(live', {w.id : w \in live'})
    BY <2>3 DEF ExistsBijection
  <2>5. QED
    BY <2>1, <2>2, <2>4, FS_Bijection
<1>9. ids # {} => Cardinality(Live') <= config.max
  <2> SUFFICES ASSUME ids # {} PROVE Cardinality(Live') <= config.max
    OBVIOUS
  <2>1. IsFiniteSet(eligible) /\ IsFiniteSet(chosen)
    BY SessionAssumption, FS_Subset DEF Ready
  <2>2. chosen # {}
    BY DEF ids
  <2>3. Cardinality(chosen) \in Nat /\ Cardinality(chosen) # 0 /\ Cardinality(eligible) \in Nat
    BY <2>1, <2>2, FS_CardinalityType, FS_EmptySet
  <2>4. activeCount \in Nat
    BY DEF IInv, TypeOK
  <2>5. activeCount < config.max /\ Cardinality(chosen) <= config.max - activeCount
    BY <1>1, <1>7, <2>3, <2>4 DEF LeastOf, Slots
  <2>6. Cardinality(live') = activeCount + Cardinality(chosen)
    BY <1>1 DEF IInv, SlotsAccounted
  <2>7. QED
    BY <1>7, <1>8, <2>3, <2>4, <2>5, <2>6
<1>10. next' = next /\ config' = config
  BY <1>1
<1> DEFINE all == 1 .. next - 1
<1>11. 1 .. next' - 1 = all
  BY <1>10
<1> HIDE DEF all
<1>12. Live' \ Live = ids
  BY <1>4, <1>5, <1>7
<1>13. all \ (Waiting' \cup Live') = (all \ (Waiting \cup Live)) \cup (Waiting \ (ids \cup Waiting'))
  BY <1>4, <1>5, <1>6, <1>7 DEF all
<1>14. ids \cap Waiting' = {} /\ ids \cup Waiting' \subseteq Waiting /\ Live \subseteq Live'
  BY <1>4, <1>5, <1>6, <1>7
<1>15. \A S : Pool!Cardinality(S) = Cardinality(S)
  BY Zenon DEF Pool!Cardinality, Cardinality, Pool!IsFiniteSet, IsFiniteSet
<1>16. QED
  BY <1>9, <1>10, <1>11, <1>12, <1>13, <1>14, <1>15 DEF Pool!Admit, all

\* A worker that completes releases its own slot.
LEMMA CompleteReleases ==
    ASSUME IInv, IInv', NEW w \in live, Complete(w)
    PROVE  Pool!PoolNext
<1>1. live' = live \ {w} /\ UNCHANGED <<pending, config, next>>
  BY DEF Complete
<1>2. Live' = Live \ {w.id} /\ w.id \in Live /\ Waiting' = Waiting
  BY <1>1 DEF IInv, LiveOK, Live, Waiting
<1>3. /\ Waiting \cap Live = {} /\ Live \subseteq 1 .. next - 1 /\ 1 .. next - 1 \subseteq Cmd
  BY Places
<1>4. Pool!Release(w.id) /\ w.id \in Cmd
  BY <1>1, <1>2, <1>3 DEF Pool!Release
<1>5. QED
  BY <1>4 DEF Pool!PoolNext

LEMMA StepRefines ==
    ASSUME IInv, IInv', [Next]_vars
    PROVE  [Pool!PoolNext]_(Pool!poolVars)
<1>1. CASE Call
  BY <1>1, CallRefines
<1>2. ASSUME NEW eligible \in SUBSET Ready, Dispatch(eligible)
      PROVE  Pool!PoolNext
  BY <1>2, DispatchAdmits DEF Pool!PoolNext
<1>3. ASSUME NEW w \in live, Complete(w)
      PROVE  Pool!PoolNext
  BY <1>3, CompleteReleases
<1>4. CASE UNCHANGED queueVars
  <2>1. Waiting' = Waiting /\ Live' = Live /\ config' = config /\ next' = next
    BY <1>4 DEF Waiting, Live, queueVars, laneVars
  <2>2. QED
    BY <2>1 DEF Pool!poolVars
<1>5. QED
  BY <1>1, <1>2, <1>3, <1>4 DEF Next, Start, Stop, vars, queueVars

LEMMA InitRefines == Init => Pool!PoolInit
<1> SUFFICES ASSUME Init PROVE Pool!PoolInit
  OBVIOUS
<1>1. config.max \in Nat
  BY ConfigAssumption DEF Init
<1>2. Waiting = {} /\ Live = {}
  BY DEF Init, Waiting, Live, Ids
<1>3. 1 .. next - 1 = {}
  BY DEF Init
<1>4. QED
  BY <1>1, <1>2, <1>3 DEF Pool!PoolInit

\* The queue, with its lanes, modes, interrupts, aborts and dropped messages, is
\* a worker pool: a command waits, runs at most once, and is admitted only while
\* fewer than config_.max_concurrent slots are taken.
THEOREM Refinement == Spec => RefinesPool
<1>1. IInv /\ IInv' /\ [Next]_vars => [Pool!PoolNext]_(Pool!poolVars)
  BY StepRefines
<1>2. QED
  BY <1>1, InitRefines, Invariance, PTL DEF Spec, RefinesPool, Pool!PoolSpec

-----------------------------------------------------------------------------
(* Nothing is lost but to an interrupt or to a policy that says so *)

\* A lane holds an entry.
In(e, q) == \E i \in DOMAIN q : q[i] = e

LEMMA SubSeqIn ==
    ASSUME NEW q \in Seq(Entry), NEW a \in Nat, NEW b \in Nat, 1 <= a, b <= Len(q), NEW i \in a .. b
    PROVE  In(q[i], SubSeq(q, a, b))
<1> DEFINE r == SubSeq(q, a, b)
           k == i - a + 1
<1>1. Len(q) \in Nat /\ a \in Int /\ b \in Int /\ DOMAIN q = 1 .. Len(q)
  OBVIOUS
<1>2. /\ r \in Seq(Entry) /\ Len(r) = IF a <= b THEN b - a + 1 ELSE 0
      /\ \A j \in 1 .. b - a + 1 : r[j] = q[a + j - 1]
  <2>1. \A j \in a .. b : q[j] \in Entry
    BY <1>1
  <2>2. QED
    BY <1>1, <2>1, SubSeqProperties
<1>3. i \in Int /\ k \in 1 .. b - a + 1 /\ a + k - 1 = i /\ a <= b
  BY <1>1
<1> HIDE DEF r, k
<1>4. DOMAIN r = 1 .. b - a + 1
  BY <1>1, <1>2, <1>3
<1>5. r[k] = q[a + k - 1] /\ k \in DOMAIN r
  BY <1>2, <1>3, <1>4
<1>6. r[k] = q[i]
  BY <1>3, <1>5
<1>7. QED
  BY <1>5, <1>6 DEF In, r

LEMMA ConcatIn ==
    ASSUME NEW q \in Seq(Entry), NEW r \in Seq(Entry), NEW e, In(e, q) \/ In(e, r)
    PROVE  In(e, q \o r)
<1> DEFINE t == q \o r
<1>1. /\ Len(q) \in Nat /\ DOMAIN q = 1 .. Len(q)
      /\ Len(r) \in Nat /\ DOMAIN r = 1 .. Len(r)
  OBVIOUS
<1>2. /\ t \in Seq(Entry) /\ Len(t) = Len(q) + Len(r)
      /\ \A i \in 1 .. Len(q) + Len(r) : t[i] = IF i <= Len(q) THEN q[i] ELSE r[i - Len(q)]
  BY ConcatProperties
<1> HIDE DEF t
<1>3. DOMAIN t = 1 .. Len(q) + Len(r)
  BY <1>2
<1>4. ASSUME NEW i \in DOMAIN q, q[i] = e PROVE In(e, t)
  <2>1. i \in DOMAIN t /\ t[i] = q[i]
    BY <1>1, <1>2, <1>3
  <2>2. QED
    BY <1>4, <2>1 DEF In
<1>5. ASSUME NEW i \in DOMAIN r, r[i] = e PROVE In(e, t)
  <2>1. /\ i + Len(q) \in 1 .. Len(q) + Len(r) /\ ~(i + Len(q) <= Len(q))
        /\ i + Len(q) - Len(q) = i
    BY <1>1
  <2>2. i + Len(q) \in DOMAIN t /\ t[i + Len(q)] = r[i]
    BY <1>2, <1>3, <2>1
  <2>3. QED
    BY <1>5, <2>2 DEF In
<1>6. QED
  BY <1>4, <1>5 DEF In, t

\* ApplyCapOverflow with the policy "summarize" keeps every text.
LEMMA SummarizeKeepsTexts ==
    ASSUME NEW q \in Seq(Entry), Len(q) \in Nat \ {0}, NEW cfg \in LaneConfigs, cfg.drop = "summarize",
           NEW i \in DOMAIN q
    PROVE  \E e : In(e, Capped(q, cfg)) /\ q[i].text \subseteq e.text
<1> DEFINE n == Len(q)
           k == Excess(q, cfg)
           d == SubSeq(q, 2, k + 1)
           e == Summary(q, k)
           r == SubSeq(q, k + 2, n)
<1>1. n \in Nat \ {0} /\ DOMAIN q = 1 .. n /\ \A j \in 1 .. n : q[j] \in Entry
  OBVIOUS
<1>2. k \in Nat /\ k + 1 <= n
  <2>1. cfg.cap \in Nat
    BY ConfigAssumption
  <2>2. QED
    BY <1>1, <2>1 DEF Excess, LeastOf
<1>3. Capped(q, cfg) = <<e>> \o r
  BY DEF Capped
<1> HIDE DEF k
<1>4. /\ \A j \in 2 .. k + 1 : In(q[j], d)
      /\ \A j \in k + 2 .. n : In(q[j], r)
  <2>1. 1 <= 2 /\ 2 \in Nat /\ k + 1 \in Nat /\ k + 1 <= Len(q)
    BY <1>2
  <2>2. 1 <= k + 2 /\ k + 2 \in Nat /\ n \in Nat /\ n <= Len(q)
    BY <1>1, <1>2
  <2> HIDE DEF n
  <2>3. \A j \in 2 .. k + 1 : In(q[j], d)
    BY <2>1, SubSeqIn
  <2>4. \A j \in k + 2 .. n : In(q[j], r)
    BY <2>2, SubSeqIn
  <2>5. QED
    BY <2>3, <2>4
<1>5. d \in Seq(Entry) /\ r \in Seq(Entry)
  <2>1. (\A j \in 2 .. k + 1 : q[j] \in Entry) /\ (\A j \in k + 2 .. n : q[j] \in Entry)
    BY <1>1, <1>2
  <2>2. 2 \in Int /\ k + 1 \in Int /\ k + 2 \in Int /\ n \in Int
    BY <1>1, <1>2
  <2> HIDE DEF n
  <2>3. QED
    BY <2>1, <2>2, SubSeqProperties
<1>6. e \in Entry /\ e.text = q[1].text \cup Texts(d)
  <2>1. Texts(d) \subseteq Cmd
    <3>1. \A j \in DOMAIN d : d[j] \in Entry
      BY <1>5
    <3>2. QED
      BY <3>1 DEF Texts, Entry
  <2>2. e = [q[1] EXCEPT !.text = @ \cup Texts(d)] /\ q[1] \in Entry
    BY <1>1 DEF Summary
  <2> HIDE DEF e, d
  <2>3. QED
    BY <2>1, <2>2 DEF Entry
<1> HIDE DEF e, r
<1>7. <<e>> \in Seq(Entry) /\ In(e, <<e>>)
  <2>1. 1 \in DOMAIN <<e>> /\ <<e>>[1] = e
    OBVIOUS
  <2>2. QED
    BY <1>6, <2>1 DEF In
<1>8. \A x : In(x, <<e>>) \/ In(x, r) => In(x, Capped(q, cfg))
  BY <1>3, <1>5, <1>7, ConcatIn
<1>9. CASE i \in 2 .. k + 1
  <2>1. q[i].text \subseteq Texts(d)
    BY <1>4, <1>9 DEF In, Texts
  <2>2. QED
    BY <1>6, <1>7, <1>8, <2>1
<1>10. CASE i \in k + 2 .. n
  BY <1>4, <1>8, <1>10
<1>11. CASE i = 1
  BY <1>6, <1>7, <1>8, <1>11
<1>12. QED
  BY <1>1, <1>2, <1>9, <1>10, <1>11

\* Cancel keeps every entry but the cancelled one.
LEMMA RemoveIn ==
    ASSUME NEW q \in Seq(Entry), NEW i \in DOMAIN q, NEW j \in DOMAIN q, i # j
    PROVE  In(q[j], SubSeq(q, 1, i - 1) \o SubSeq(q, i + 1, Len(q)))
<1> DEFINE a == SubSeq(q, 1, i - 1)
           b == SubSeq(q, i + 1, Len(q))
<1>1. /\ Len(q) \in Nat /\ DOMAIN q = 1 .. Len(q) /\ \A k \in 1 .. Len(q) : q[k] \in Entry
      /\ i \in Nat /\ j \in Nat
  OBVIOUS
<1>2. /\ 1 \in Nat /\ 1 <= 1 /\ i - 1 \in Nat /\ i - 1 <= Len(q)
      /\ i + 1 \in Nat /\ 1 <= i + 1 /\ Len(q) <= Len(q)
      /\ j \in 1 .. i - 1 \/ j \in i + 1 .. Len(q)
  BY <1>1
<1>3. In(q[j], a) \/ In(q[j], b)
  BY <1>1, <1>2, SubSeqIn
<1>4. a \in Seq(Entry) /\ b \in Seq(Entry)
  <2>1. (\A k \in 1 .. i - 1 : q[k] \in Entry) /\ (\A k \in i + 1 .. Len(q) : q[k] \in Entry)
    BY <1>1, <1>2
  <2>2. 1 \in Int /\ i - 1 \in Int /\ i + 1 \in Int /\ Len(q) \in Int
    BY <1>1
  <2>3. QED
    BY <2>1, <2>2, SubSeqProperties
<1> HIDE DEF a, b
<1>5. In(q[j], a \o b)
  BY <1>3, <1>4, ConcatIn
<1>6. QED
  BY <1>5 DEF a, b

\* A text that an entry of a lane carries is a message of the next state.
LEMMA Carried ==
    ASSUME NEW s \in Session, NEW e, In(e, pending'[s]), NEW text, text \subseteq e.text
    PROVE  \E msg \in Messages' : text \subseteq msg
<1>1. PICK i \in DOMAIN pending'[s] : pending'[s][i] = e
  BY DEF In
<1> DEFINE T == {pending'[s][j].text : j \in DOMAIN pending'[s]}
           M == {{pending'[t][j].text : j \in DOMAIN pending'[t]} : t \in Session}
           L == {w.text : w \in live'}
<1>2. e.text \in T
  BY <1>1
<1>3. T \in M
  OBVIOUS
<1>4. Messages' = (UNION M) \cup L
  BY DEF Messages
<1> HIDE DEF T, M, L
<1>5. e.text \in Messages'
  BY <1>2, <1>3, <1>4
<1>6. QED
  BY <1>5

\* So is the text of a worker.
LEMMA TakenAlong ==
    ASSUME NEW w \in live'
    PROVE  w.text \in Messages'
<1> DEFINE M == {{pending'[t][j].text : j \in DOMAIN pending'[t]} : t \in Session}
           L == {v.text : v \in live'}
<1>1. w.text \in L
  OBVIOUS
<1>2. Messages' = (UNION M) \cup L
  BY DEF Messages
<1> HIDE DEF M, L
<1>3. QED
  BY <1>1, <1>2

LEMMA SubmitKeepsMessages ==
    ASSUME IInv, NEW t \in Session, NEW m \in SubmitModes, SubmitSteering(t, m) \/ SubmitQueued(t, m),
           NEW s \in Session, NEW i \in DOMAIN pending[s]
    PROVE  \/ \E text \in Messages' : pending[s][i].text \subseteq text
           \/ MaybeDiscarded(s, pending[s][i])
<1> DEFINE n == NewEntry(t, m)
           q == pending[t]
           e == pending[s][i]
<1>1. /\ TypeOK /\ pending \in [Session -> Seq(Entry)]
      /\ next <= MaxCmds /\ q \in Seq(Entry)
  BY DEF IInv, TypeOK, SubmitSteering, SubmitQueued
<1>2. n \in Entry
  BY <1>1, NewEntryType
<1>3. In(e, pending[s])
  BY DEF In
<1>4. s = t => In(e, Append(q, n)) /\ Append(q, n) \in Seq(Entry)
  <2>1. Append(q, n) = q \o <<n>> /\ <<n>> \in Seq(Entry) /\ Append(q, n) \in Seq(Entry)
    BY <1>1, <1>2, AppendIsConcat
  <2> HIDE DEF n, e, q
  <2>2. s = t => In(e, q)
    BY <1>3 DEF q
  <2>3. QED
    BY <1>1, <1>2, <2>1, <2>2, ConcatIn
<1>5. CASE s # t
  <2>1. pending'[s] = pending[s]
    BY <1>1, <1>5 DEF SubmitSteering, SubmitQueued
  <2>2. QED
    BY <1>3, <2>1, Carried
<1>6. CASE s = t /\ SubmitSteering(t, m)
  <2>1. pending' = [pending EXCEPT ![t] = Append(q, n)]
    BY <1>6 DEF SubmitSteering
  <2> HIDE DEF n
  <2>2. pending'[s] = Append(q, n)
    BY <1>1, <1>6, <2>1
  <2>3. In(e, pending'[s])
    BY <1>4, <1>6, <2>2
  <2> HIDE DEF e
  <2>4. \E text \in Messages' : e.text \subseteq text
    BY <2>3, Carried
  <2>5. QED
    BY <2>4 DEF e
<1>7. CASE s = t /\ SubmitQueued(t, m) /\ (Interrupts(t, m) \/ LaneOf(t).drop # "summarize")
  BY <1>7 DEF MaybeDiscarded
<1>8. CASE s = t /\ SubmitQueued(t, m) /\ ~Interrupts(t, m) /\ LaneOf(t).drop = "summarize"
  <2> DEFINE queue == Append(q, n)
  <2>1. pending' = [pending EXCEPT ![t] = Capped(queue, LaneOf(t))]
    BY <1>8 DEF SubmitQueued
  <2>2. pending'[s] = Capped(queue, LaneOf(t))
    BY <1>1, <1>8, <2>1
  <2>3. queue \in Seq(Entry) /\ In(e, queue) /\ Len(queue) \in Nat \ {0}
    <3>1. Len(queue) = Len(q) + 1 /\ Len(q) \in Nat
      BY <1>1, <1>2
    <3>2. QED
      BY <1>4, <1>8, <3>1
  <2>4. LaneOf(t) \in LaneConfigs
    BY <1>1, LaneOfType
  <2> HIDE DEF queue, n, e
  <2>5. \E x : In(x, Capped(queue, LaneOf(t))) /\ e.text \subseteq x.text
    BY <1>8, <2>3, <2>4, SummarizeKeepsTexts DEF In
  <2>6. QED
    BY <2>2, <2>5, Carried DEF e
<1>9. QED
  BY <1>5, <1>6, <1>7, <1>8

LEMMA CancelKeepsMessages ==
    ASSUME IInv, NEW c \in Cmd, Cancel(c), NEW s \in Session, NEW i \in DOMAIN pending[s]
    PROVE  \/ \E text \in Messages' : pending[s][i].text \subseteq text
           \/ MaybeDiscarded(s, pending[s][i])
<1> DEFINE t == cmdSession[c]
           e == pending[s][i]
<1>1. pending \in [Session -> Seq(Entry)] /\ t \in Session
  BY DEF IInv, TypeOK, Cancel
<1>2. In(e, pending[s])
  BY DEF In
<1>3. CASE pending'[s] = pending[s]
  BY <1>2, <1>3, Carried
<1>4. CASE e.id = c
  BY <1>4 DEF MaybeDiscarded
<1>5. ASSUME s = t, e.id # c, NEW j \in DOMAIN pending[s], pending[s][j].id = c,
             pending' = [pending EXCEPT ![t] = SubSeq(@, 1, j - 1) \o SubSeq(@, j + 1, Len(@))]
      PROVE  \E text \in Messages' : e.text \subseteq text
  <2>1. pending'[s] = SubSeq(pending[s], 1, j - 1) \o SubSeq(pending[s], j + 1, Len(pending[s]))
    BY <1>1, <1>5
  <2>2. i # j /\ pending[s] \in Seq(Entry)
    BY <1>1, <1>5
  <2>3. In(e, pending'[s])
    BY <2>1, <2>2, RemoveIn
  <2>4. QED
    BY <2>3, Carried
<1>6. QED
  BY <1>1, <1>3, <1>4, <1>5 DEF Cancel

\* What the dispatcher takes along of a lane has the texts of the entries it
\* takes out of it.
LEMMA DispatchKeepsMessages ==
    ASSUME IInv, NEW eligible \in SUBSET Ready, Dispatch(eligible),
           NEW s \in Session, NEW i \in DOMAIN pending[s]
    PROVE  \/ \E text \in Messages' : pending[s][i].text \subseteq text
           \/ MaybeDiscarded(s, pending[s][i])
<1> DEFINE q == pending[s]
           e == q[i]
<1>1. PICK chosen \in SUBSET eligible :
        /\ active' = [t \in Session |->
                        IF t \in chosen THEN Head(pending[t]).id ELSE active[t]]
        /\ pending' = [t \in Session |-> IF t \in chosen THEN Rest(t) ELSE pending[t]]
        /\ live' = live \cup {Dispatched(t) : t \in chosen}
  BY DEF Dispatch
<1>2. q \in Seq(Entry) /\ q # <<>> /\ DOMAIN q = 1 .. Len(q) /\ Len(q) \in Nat
  BY EmptySeq DEF IInv, TypeOK
<1>3. In(e, q)
  BY DEF In
<1>4. CASE s \notin chosen
  BY <1>1, <1>3, <1>4, Carried
<1>5. CASE s \in chosen /\ Head(q).mode = "followup"
  BY <1>1, <1>5 DEF MaybeDiscarded
<1>6. CASE s \in chosen /\ e.text \subseteq Dispatched(s).text
  <2>1. Dispatched(s) \in live'
    BY <1>1, <1>6
  <2>2. QED
    BY <1>6, <2>1, TakenAlong
<1>7. CASE s \in chosen /\ Head(q).mode = "collect"
  <2>1. Dispatched(s).text = Texts(q)
    BY <1>7 DEF Dispatched
  <2>2. e.text \subseteq Texts(q)
    BY DEF Texts
  <2>3. QED
    BY <1>6, <1>7, <2>1, <2>2
<1>8. CASE s \in chosen /\ Head(q).mode \notin {"collect", "followup"}
  <2>1. Dispatched(s).text = Head(q).text /\ Rest(s) = Tail(q)
    BY <1>8 DEF Dispatched, Rest
  <2>2. CASE i = 1
    BY <1>2, <1>6, <1>8, <2>1, <2>2
  <2>3. CASE i # 1
    <3>1. Tail(q) = SubSeq(q, 2, Len(q))
      BY <1>2, TailIsSubSeq
    <3>2. 2 \in Nat /\ 1 <= 2 /\ Len(q) <= Len(q) /\ i \in 2 .. Len(q)
      BY <1>2, <2>3
    <3>3. In(e, Tail(q))
      BY <1>2, <3>1, <3>2, SubSeqIn
    <3>4. pending'[s] = Tail(q)
      BY <1>1, <1>8, <2>1
    <3>5. QED
      BY <3>3, <3>4, Carried
  <2>4. QED
    BY <2>2, <2>3
<1>9. QED
  BY <1>4, <1>5, <1>7, <1>8

\* No step loses the text of a command that waits.
LEMMA StepKeepsMessages ==
    ASSUME IInv, [Next]_vars, NEW s \in Session, NEW i \in DOMAIN pending[s]
    PROVE  \/ \E text \in Messages' : pending[s][i].text \subseteq text
           \/ MaybeDiscarded(s, pending[s][i])
<1>1. ASSUME NEW t \in Session, NEW m \in SubmitModes, SubmitSteering(t, m) \/ SubmitQueued(t, m)
      PROVE  \/ \E text \in Messages' : pending[s][i].text \subseteq text
             \/ MaybeDiscarded(s, pending[s][i])
  BY <1>1, SubmitKeepsMessages
<1>2. ASSUME NEW c \in Cmd, Cancel(c)
      PROVE  \/ \E text \in Messages' : pending[s][i].text \subseteq text
             \/ MaybeDiscarded(s, pending[s][i])
  BY <1>2, CancelKeepsMessages
<1>3. CASE pending'[s] = pending[s]
  <2>1. In(pending[s][i], pending'[s])
    BY <1>3 DEF In
  <2>2. QED
    BY <2>1, Carried
<1>4. ASSUME NEW t \in Session, AbortSession(t)
      PROVE  MaybeDiscarded(s, pending[s][i]) \/ pending'[s] = pending[s]
  <2>1. CASE s = t
    BY <1>4, <2>1 DEF MaybeDiscarded
  <2>2. CASE s # t
    BY <1>4, <2>2 DEF AbortSession, IInv, TypeOK
  <2>3. QED
    BY <2>1, <2>2
<1>5. ASSUME NEW eligible \in SUBSET Ready, Dispatch(eligible)
      PROVE  \/ \E text \in Messages' : pending[s][i].text \subseteq text
             \/ MaybeDiscarded(s, pending[s][i])
  BY <1>5, DispatchKeepsMessages
<1>6. CASE UNCHANGED pending
  BY <1>3, <1>6
<1>7. QED
  BY <1>1, <1>2, <1>3, <1>4, <1>5, <1>6 DEF Next, Call, ConfigureSession, SetConfig, Start, Stop,
     Complete, vars, laneVars, queueVars

\* A run keeps its lane until it completes, is interrupted, or a run that lost
\* the lane before it completes.
LEMMA StepKeepsLanes ==
    ASSUME IInv, [Next]_vars, NEW w \in live \cap live', active[w.session] = w.id
    PROVE  \/ active'[w.session] = w.id
           \/ AbortSession(w.session)
           \/ \E m \in SubmitModes : Interrupts(w.session, m) /\ SubmitQueued(w.session, m)
           \/ \E v \in live \ {w} : v.session = w.session /\ Complete(v)
<1>1. w.id # None /\ w.session \in Session /\ active \in [Session -> Cmd \cup {None}]
  BY CmdAssumption DEF IInv, TypeOK, Worker
<1>2. ASSUME NEW t \in Session, NEW m \in SubmitModes, SubmitQueued(t, m)
      PROVE  active'[w.session] = w.id \/ (t = w.session /\ Interrupts(t, m))
  BY <1>1, <1>2 DEF SubmitQueued
<1>3. ASSUME NEW t \in Session, AbortSession(t)
      PROVE  active'[w.session] = w.id \/ t = w.session
  BY <1>1, <1>3 DEF AbortSession
<1>4. ASSUME NEW eligible \in SUBSET Ready, Dispatch(eligible)
      PROVE  active'[w.session] = w.id
  <2>1. PICK chosen \in SUBSET eligible :
          active' = [s \in Session |-> IF s \in chosen THEN Head(pending[s]).id ELSE active[s]]
    BY <1>4 DEF Dispatch
  <2>2. w.session \notin chosen
    BY <1>1 DEF Ready, HasActive
  <2>3. QED
    BY <1>1, <2>1, <2>2
<1>5. ASSUME NEW v \in live, Complete(v)
      PROVE  active'[w.session] = w.id \/ (v # w /\ v.session = w.session)
  <2>1. v # w
    BY <1>5 DEF Complete
  <2>2. v.session \in Session /\ active' = [active EXCEPT ![v.session] = None]
    BY <1>5 DEF Complete, IInv, TypeOK, Worker
  <2>3. QED
    BY <1>1, <2>1, <2>2
<1>6. CASE UNCHANGED active
  BY <1>6
<1>7. QED
  BY <1>2, <1>3, <1>4, <1>5, <1>6 DEF Next, Call, SubmitSteering, Cancel, ConfigureSession, SetConfig,
     Start, Stop, vars, laneVars, queueVars

\* A run keeps its lane and a waiting message its text, but for interrupts,
\* aborts, cancellations and the policies that discard (InterruptActive,
\* ApplyCapOverflow and TryActivate in gateway/command_queue.cpp).
THEOREM OnlyInterruptsLoseAlways == Spec => OnlyInterruptsLose
<1>1. IInv /\ [Next]_vars =>
        [\A w \in live \cap live' :
            LET s == w.session IN
            active[s] = w.id => \/ active'[s] = w.id
                                \/ AbortSession(s)
                                \/ \E m \in SubmitModes : Interrupts(s, m) /\ SubmitQueued(s, m)
                                \/ \E v \in live \ {w} : v.session = s /\ Complete(v)]_vars
  BY StepKeepsLanes
<1>2. IInv /\ [Next]_vars =>
        [\A s \in Session : \A i \in DOMAIN pending[s] :
            \/ \E text \in Messages' : pending[s][i].text \subseteq text
            \/ MaybeDiscarded(s, pending[s][i])]_vars
  BY StepKeepsMessages
<1>3. QED
  BY <1>1, <1>2, Invariance, PTL DEF Spec, OnlyInterruptsLose, LaneLostOnlyToInterrupt, NoMessageVanishes
=============================================================================
