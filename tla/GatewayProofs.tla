--------------------------- MODULE GatewayProofs ---------------------------
(***************************************************************************)
(* Proofs about Gateway for every number of connections, every set of      *)
(* request identifiers and every bound on wrong tokens: the watchdog and   *)
(* the handlers answer what is theirs to answer, an abort finds a request  *)
(* in progress, and a lockout keeps everybody out.                         *)
(***************************************************************************)
EXTENDS Gateway, TLAPS

\* None is no connection, no identifier, and none of the records of the tables.
LEMMA Nothing ==
    /\ None \notin Conn /\ None \notin Id /\ None \notin Kind
    /\ None \notin Entry /\ None \notin Client
    /\ None # "short" /\ None # "final"
  BY NameAssumption DEF Kind

\* The two places at which a thread has no request.
LEMMA Places ==
    /\ Idle \in ThreadState /\ Away \in ThreadState /\ Idle # Away
    /\ Idle.at = "idle" /\ Away.at = "away" /\ Idle.id = None /\ Away.id = None
  BY DEF Idle, Away, ThreadState

LEMMA InitIInv == Init => IInv
<1> SUFFICES ASSUME Init PROVE IInv
  OBVIOUS
<1>1. TypeOK
  BY Places, BoundAssumption DEF Init, TypeOK
<1>2. ThreadShape /\ EntryOfItsKind /\ NothingEarly
  BY DEF Init, ThreadShape, EntryOfItsKind, NothingEarly, Pending
<1>3. AnsweredByRight /\ AbortFindsOwn
  BY Nothing DEF Init, AnsweredByRight, PendingUnanswered, FinalNeverTimedOut,
                 AbortFindsOwn, Pending
<1>4. QED
  BY <1>1, <1>2, <1>3 DEF IInv

\* A step that touches neither requests nor threads.
LEMMA NoRequest ==
    ASSUME IInv, TypeOK', UNCHANGED <<active, thread, expired, wireVars>>,
           \A c \in Conn, id \in Id : Pending(c, id)' =>
               Pending(c, id) /\ conn'[c].pending[id].final = conn[c].pending[id].final
    PROVE  IInv'
<1>1. ThreadShape' /\ EntryOfItsKind' /\ NothingEarly'
  BY DEF IInv, ThreadShape, EntryOfItsKind, NothingEarly, wireVars
<1>2. PendingUnanswered' /\ FinalNeverTimedOut' /\ AbortFindsOwn'
  BY DEF IInv, AnsweredByRight, PendingUnanswered, FinalNeverTimedOut, AbortFindsOwn, wireVars
<1>3. QED
  BY <1>1, <1>2 DEF IInv, AnsweredByRight

LEMMA LifeIInv ==
    ASSUME IInv, Start \/ Stop \/ StopReturns
    PROVE  IInv'
<1>1. TypeOK'
  BY DEF IInv, TypeOK, Start, Stop, StopReturns, authVars, wireVars
<1>2. QED
  BY <1>1, NoRequest DEF Start, Stop, StopReturns, Pending

LEMMA LockoutIInv ==
    ASSUME IInv,
           \/ \E m \in AuthModes : SetAuth(m)
           \/ \E c \in Conn : LockoutExpires(c)
           \/ \E cs \in SUBSET Conn : ClearAuthLockout(cs)
    PROVE  IInv'
<1>1. UNCHANGED <<conn, active, thread, expired, wireVars>>
  BY DEF SetAuth, LockoutExpires, ClearAuthLockout
<1>2. TypeOK'
  <2>1. fails' \in [Conn -> 0 .. MaxAttempts] /\ locked' \subseteq Conn
    BY BoundAssumption DEF IInv, TypeOK, SetAuth, LockoutExpires, ClearAuthLockout
  <2>2. life' = life /\ mode' \in AuthModes
    BY DEF IInv, TypeOK, SetAuth, LockoutExpires, ClearAuthLockout
  <2>3. QED
    BY <1>1, <2>1, <2>2 DEF IInv, TypeOK, wireVars
<1>3. QED
  BY <1>1, <1>2, NoRequest DEF Pending

\* What a hello does to the table of connections: at most it sets one flag.
LEMMA AuthenticatedKeeps ==
    ASSUME TypeOK, NEW c \in Conn, thread[c] = Idle,
           \/ UNCHANGED conn
           \/ Authenticated(c)
    PROVE  /\ conn' \in [Conn -> Client \cup {None}]
           /\ \A d \in Conn : /\ (conn'[d] = None) = (conn[d] = None)
                              /\ conn[d] # None => conn'[d].pending = conn[d].pending
<1>1. conn[c] \in Client
  BY Places DEF TypeOK
<1>2. CASE Authenticated(c)
  <2>1. [conn[c] EXCEPT !.auth = TRUE] \in Client
    BY <1>1 DEF Client
  <2>2. conn' = [conn EXCEPT ![c] = [conn[c] EXCEPT !.auth = TRUE]]
    BY <1>2 DEF Authenticated
  <2>3. [conn[c] EXCEPT !.auth = TRUE].pending = conn[c].pending
    BY <1>1 DEF Client
  <2>4. [conn[c] EXCEPT !.auth = TRUE] # None /\ conn[c] # None
    BY <1>1, <2>1, Nothing
  <2>5. QED
    BY <2>1, <2>2, <2>3, <2>4 DEF TypeOK
<1>3. CASE UNCHANGED conn
  BY <1>3 DEF TypeOK
<1>4. QED
  BY <1>2, <1>3

LEMMA HelloIInv ==
    ASSUME IInv, NEW c \in Conn, NEW kind \in Hellos, Hello(c, kind)
    PROVE  IInv'
<1>1. /\ thread[c] = Idle
      /\ UNCHANGED <<life, mode, active, thread, expired, wireVars>>
  BY DEF Hello
<1>2. UNCHANGED conn \/ Authenticated(c)
  BY DEF Hello, CheckToken, BadToken, TokenAccepted
<1>3. fails' \in [Conn -> 0 .. MaxAttempts] /\ locked' \subseteq Conn
  <2>1. CASE UNCHANGED <<fails, locked>>
    BY <2>1 DEF IInv, TypeOK
  <2>2. CASE BadToken(c)
    BY <2>2, BoundAssumption DEF IInv, TypeOK, BadToken
  <2>3. CASE TokenAccepted(c)
    BY <2>3, BoundAssumption DEF IInv, TypeOK, TokenAccepted
  <2>4. QED
    BY <2>1, <2>2, <2>3 DEF Hello, CheckToken
<1>4. /\ conn' \in [Conn -> Client \cup {None}]
      /\ \A d \in Conn : /\ (conn'[d] = None) = (conn[d] = None)
                         /\ conn[d] # None => conn'[d].pending = conn[d].pending
  BY <1>1, <1>2, AuthenticatedKeeps DEF IInv
<1>5. TypeOK'
  BY <1>1, <1>3, <1>4 DEF IInv, TypeOK, wireVars
<1>6. QED
  BY <1>1, <1>4, <1>5, NoRequest DEF Pending

\* Time makes an entry overdue and changes nothing else of it.
LEMMA TimePassesIInv ==
    ASSUME IInv, NEW c \in Conn, NEW id \in Id, TimePasses(c, id)
    PROVE  IInv'
<1> DEFINE old == conn[c].pending[id]
           new == [old EXCEPT !.overdue = TRUE]
           after == [conn[c] EXCEPT !.pending = [conn[c].pending EXCEPT ![id] = new]]
<1>1. conn[c] \in Client /\ old \in Entry /\ conn[c] # None /\ old # None
  BY DEF TimePasses, Pending, IInv, TypeOK, Client
<1>2. new \in Entry /\ new.final = old.final /\ new # None
  <2>1. new \in Entry /\ new.final = old.final
    BY <1>1 DEF Entry
  <2>2. QED
    BY <2>1, Nothing
<1>3. after \in Client /\ after.pending = [conn[c].pending EXCEPT ![id] = new] /\ after # None
  <2>1. after \in Client /\ after.pending = [conn[c].pending EXCEPT ![id] = new]
    BY <1>1, <1>2 DEF Client
  <2>2. QED
    BY <2>1, Nothing
<1>4. conn' = [conn EXCEPT ![c] = after]
  BY DEF TimePasses
<1>5. UNCHANGED <<life, authVars, active, thread, expired, wireVars>>
  BY DEF TimePasses
<1>6. TypeOK'
  <2>1. conn' \in [Conn -> Client \cup {None}]
    BY <1>3, <1>4 DEF IInv, TypeOK
  <2>2. \A d \in Conn : (conn'[d] = None) = (conn[d] = None)
    BY <1>1, <1>3, <1>4 DEF IInv, TypeOK
  <2>3. QED
    BY <1>5, <2>1, <2>2 DEF IInv, TypeOK, authVars, wireVars
<1>7. \A d \in Conn, i \in Id : Pending(d, i)' =>
          Pending(d, i) /\ conn'[d].pending[i].final = conn[d].pending[i].final
  <2> SUFFICES ASSUME NEW d \in Conn, NEW i \in Id, Pending(d, i)'
               PROVE  Pending(d, i) /\ conn'[d].pending[i].final = conn[d].pending[i].final
    OBVIOUS
  <2>1. CASE d = c /\ i = id
    BY <2>1, <1>1, <1>2, <1>3, <1>4 DEF Pending, IInv, TypeOK, Client
  <2>2. CASE d = c /\ i # id
    BY <2>2, <1>1, <1>2, <1>3, <1>4 DEF Pending, IInv, TypeOK, Client
  <2>3. CASE d # c
    BY <2>3, <1>4 DEF Pending, IInv, TypeOK
  <2>4. QED
    BY <2>1, <2>2, <2>3
<1>8. QED
  BY <1>5, <1>6, <1>7, NoRequest

-----------------------------------------------------------------------------
(* Connections come and go *)

LEMMA OpenIInv ==
    ASSUME IInv, NEW c \in Conn, Open(c)
    PROVE  IInv'
<1> DEFINE fresh == [auth |-> FALSE, pending |-> [id \in Id |-> None]]
<1>1. /\ thread[c] = Away /\ conn[c] = None
      /\ thread' = [thread EXCEPT ![c] = Idle]
      /\ conn' = [conn EXCEPT ![c] = fresh]
      /\ UNCHANGED <<life, authVars, active, expired, wireVars>>
  BY DEF Open, IInv, TypeOK
<1>2. fresh \in Client /\ fresh # None
  <2>1. fresh \in Client
    BY DEF Client
  <2>2. QED
    BY <2>1, Nothing
<1>3. TypeOK'
  BY <1>1, <1>2, Places DEF IInv, TypeOK, authVars, wireVars
<1>4. \A d \in Conn, id \in Id : Pending(d, id)' = Pending(d, id) /\ (Pending(d, id) => d # c)
  BY <1>1 DEF Pending, IInv, TypeOK
<1>5. \A d \in Conn : d # c => conn'[d] = conn[d] /\ thread'[d] = thread[d]
  BY <1>1 DEF IInv, TypeOK
<1>6. ThreadShape' /\ EntryOfItsKind' /\ NothingEarly'
  <2>1. thread'[c] = Idle
    BY <1>1 DEF IInv, TypeOK
  <2>2. ThreadShape'
    BY <1>1, <1>5, <2>1 DEF IInv, ThreadShape, wireVars
  <2>3. EntryOfItsKind'
    BY <1>1, <1>4, <1>5 DEF IInv, EntryOfItsKind, wireVars
  <2>4. NothingEarly'
    BY <1>1, <1>5, <2>1, Places DEF IInv, NothingEarly, wireVars
  <2>5. QED
    BY <2>2, <2>3, <2>4
<1>7. AnsweredByRight'
  BY <1>1, <1>4, <1>5 DEF IInv, AnsweredByRight, PendingUnanswered, FinalNeverTimedOut, wireVars
<1>8. AbortFindsOwn'
  BY <1>1, <1>5, Places, Nothing DEF IInv, AbortFindsOwn
<1>9. QED
  BY <1>3, <1>6, <1>7, <1>8 DEF IInv

\* A thread that is idle has no entry in active_requests_: nothing is left of it.
LEMMA CloseIInv ==
    ASSUME IInv, NEW c \in Conn, Close(c)
    PROVE  IInv'
<1>1. /\ thread[c] = Idle
      /\ thread' = [thread EXCEPT ![c] = Away]
      /\ conn' = [conn EXCEPT ![c] = None]
      /\ expired' = {r \in expired : r[1] # c}
      /\ asked' = [asked EXCEPT ![c] = [id \in Id |-> None]]
      /\ answers' = [answers EXCEPT ![c] = [id \in Id |-> {}]]
      /\ UNCHANGED <<life, mode, active>>
  BY DEF Close
<1>2. \A d \in Conn : /\ thread'[d] = IF d = c THEN Away ELSE thread[d]
                      /\ conn'[d] = IF d = c THEN None ELSE conn[d]
                      /\ asked'[d] = IF d = c THEN [id \in Id |-> None] ELSE asked[d]
                      /\ answers'[d] = IF d = c THEN [id \in Id |-> {}] ELSE answers[d]
  BY <1>1 DEF IInv, TypeOK
<1>3. \A d \in Conn, id \in Id : <<d, id>> \in expired' <=> (d # c /\ <<d, id>> \in expired)
  BY <1>1
<1>4. TypeOK'
  <2>1. fails' \in [Conn -> 0 .. MaxAttempts] /\ locked' \subseteq Conn
    BY BoundAssumption DEF Close, IInv, TypeOK
  <2>2. /\ asked' \in [Conn -> [Id -> Kind \cup {None}]]
        /\ answers' \in [Conn -> [Id -> SUBSET {"reply", "timeout"}]]
    BY <1>1 DEF IInv, TypeOK
  <2>3. thread' \in [Conn -> ThreadState] /\ conn' \in [Conn -> Client \cup {None}]
    BY <1>1, Places DEF IInv, TypeOK
  <2>4. expired' \subseteq Conn \X Id
    BY <1>1 DEF IInv, TypeOK
  <2>5. QED
    BY <1>1, <1>2, <2>1, <2>2, <2>3, <2>4 DEF IInv, TypeOK
<1>5. \A d \in Conn, id \in Id : Pending(d, id)' <=> (d # c /\ Pending(d, id))
  BY <1>2 DEF Pending
<1>6. ThreadShape'
  BY <1>2 DEF IInv, ThreadShape
<1>7. EntryOfItsKind'
  BY <1>2, <1>5 DEF IInv, EntryOfItsKind
<1>8. NothingEarly'
  BY <1>2, <1>3 DEF IInv, NothingEarly
<1>9. AnsweredByRight'
  <2>1. PendingUnanswered'
    BY <1>2, <1>3, <1>5 DEF IInv, AnsweredByRight, PendingUnanswered
  <2>2. FinalNeverTimedOut'
    BY <1>2, <1>3 DEF IInv, AnsweredByRight, FinalNeverTimedOut
  <2>3. QED
    BY <2>1, <2>2 DEF AnsweredByRight
<1>10. AbortFindsOwn'
  BY <1>1, <1>2, Places, Nothing DEF IInv, AbortFindsOwn
<1>11. QED
  BY <1>4, <1>6, <1>7, <1>8, <1>9, <1>10 DEF IInv

-----------------------------------------------------------------------------
(* A request on the thread of its connection *)

\* A busy thread has a connection, and its request was asked for.
LEMMA Busy ==
    ASSUME IInv, NEW c \in Conn, thread[c].at \in {"admit", "running", "reply", "done"}
    PROVE  /\ thread[c].id \in Id /\ thread[c].kind \in Kind
           /\ asked[c][thread[c].id] = thread[c].kind
           /\ conn[c] \in Client /\ conn[c] # None
<1>1. thread[c] # Away /\ thread[c] # Idle
  BY Places
<1>2. QED
  BY <1>1 DEF IInv, ThreadShape, TypeOK

LEMMA ReceiveIInv ==
    ASSUME IInv, NEW c \in Conn, NEW id \in Id, NEW kind \in Kind, Receive(c, id, kind)
    PROVE  IInv'
<1> DEFINE busy == [at |-> "admit", id |-> id, kind |-> kind]
<1>1. /\ thread[c] = Idle /\ asked[c][id] = None
      /\ active' = [active EXCEPT ![id] = c]
      /\ asked' = [asked EXCEPT ![c] = [asked[c] EXCEPT ![id] = kind]]
      /\ thread' = [thread EXCEPT ![c] = busy]
      /\ UNCHANGED <<life, authVars, conn, expired, answers>>
  BY DEF Receive
<1>2. busy \in ThreadState /\ busy # Away /\ busy # Idle
  BY DEF ThreadState, Away, Idle
<1>3. \A d \in Conn : /\ thread'[d] = IF d = c THEN busy ELSE thread[d]
                      /\ \A i \in Id : asked'[d][i] = IF d = c /\ i = id THEN kind ELSE asked[d][i]
  BY <1>1 DEF IInv, TypeOK
<1>4. TypeOK'
  <2>1. thread' \in [Conn -> ThreadState] /\ active' \in [Id -> Conn \cup {None}]
    BY <1>1, <1>2 DEF IInv, TypeOK
  <2>2. asked' \in [Conn -> [Id -> Kind \cup {None}]]
    BY <1>1 DEF IInv, TypeOK
  <2>3. \A d \in Conn : (conn'[d] = None) = (thread'[d] = Away)
    BY <1>1, <1>2, <1>3, Places DEF IInv, TypeOK
  <2>4. QED
    BY <1>1, <2>1, <2>2, <2>3 DEF IInv, TypeOK, authVars
<1>5. ~\E i \in Id : Pending(c, i)
  BY <1>1, Places DEF IInv, AnsweredByRight, PendingUnanswered
<1>6. \A d \in Conn, i \in Id : Pending(d, i)' = Pending(d, i) /\ (Pending(d, i) => d # c)
  BY <1>1, <1>5 DEF Pending
<1>7. ThreadShape'
  BY <1>3, Places DEF IInv, ThreadShape
<1>8. EntryOfItsKind'
  BY <1>1, <1>3, <1>6 DEF IInv, EntryOfItsKind
<1>9. NothingEarly'
  BY <1>1, <1>3, Nothing DEF IInv, NothingEarly, Kind
<1>10. PendingUnanswered'
  BY <1>1, <1>3, <1>6 DEF IInv, AnsweredByRight, PendingUnanswered
<1>11. FinalNeverTimedOut'
  BY <1>1, <1>3 DEF IInv, AnsweredByRight, FinalNeverTimedOut, NothingEarly
<1>12. AbortFindsOwn'
  <2>1. \A i \in Id : active[i] # c
    BY <1>1, Places, Nothing DEF IInv, AbortFindsOwn
  <2>2. QED
    BY <1>1, <1>3, <2>1 DEF IInv, TypeOK, AbortFindsOwn
<1>13. QED
  BY <1>4, <1>7, <1>8, <1>9, <1>10, <1>11, <1>12 DEF IInv, AnsweredByRight

\* A thread goes on with its request.
LEMMA Moved ==
    ASSUME IInv, NEW c \in Conn, thread[c].at \in {"admit", "running", "reply", "done"},
           NEW l \in {"running", "reply", "done"}, thread' = [thread EXCEPT ![c].at = l]
    PROVE  /\ thread' \in [Conn -> ThreadState]
           /\ thread'[c] # Away /\ thread'[c] # Idle
           /\ thread'[c].at = l /\ thread'[c].id = thread[c].id
           /\ thread'[c].kind = thread[c].kind
           /\ \A d \in Conn : d # c => thread'[d] = thread[d]
<1>1. thread[c] \in ThreadState
  BY DEF IInv, TypeOK
<1>2. thread' = [thread EXCEPT ![c] = [thread[c] EXCEPT !.at = l]]
  OBVIOUS
<1>3. [thread[c] EXCEPT !.at = l] \in ThreadState
  BY <1>1 DEF ThreadState
<1>4. [thread[c] EXCEPT !.at = l].at = l
      /\ [thread[c] EXCEPT !.at = l].id = thread[c].id
      /\ [thread[c] EXCEPT !.at = l].kind = thread[c].kind
  BY <1>1 DEF ThreadState
<1>5. thread'[c] = [thread[c] EXCEPT !.at = l]
  BY <1>2 DEF IInv, TypeOK
<1>6. QED
  BY <1>2, <1>3, <1>4, <1>5, Places DEF IInv, TypeOK

\* A thread that answers its request: the refusals and Reply alike.
LEMMA AnswerIInv ==
    ASSUME IInv, NEW c \in Conn, thread[c].at \in {"admit", "reply"},
           thread' = [thread EXCEPT ![c].at = "done"], Answered(c),
           UNCHANGED <<life, authVars, conn, active, expired, asked>>
    PROVE  IInv'
<1> DEFINE id == thread[c].id
<1>1. /\ thread' \in [Conn -> ThreadState]
      /\ thread'[c] # Away /\ thread'[c] # Idle
      /\ thread'[c].at = "done" /\ thread'[c].id = id /\ thread'[c].kind = thread[c].kind
      /\ \A d \in Conn : d # c => thread'[d] = thread[d]
  BY Moved
<1>2. id \in Id /\ thread[c].kind \in Kind /\ asked[c][id] = thread[c].kind /\ conn[c] # None
  BY Busy
<1>3. /\ answers' \in [Conn -> [Id -> SUBSET {"reply", "timeout"}]]
      /\ answers'[c][id] = answers[c][id] \cup {"reply"}
      /\ \A d \in Conn, i \in Id : d # c \/ i # id => answers'[d][i] = answers[d][i]
  <2>1. answers' = [answers EXCEPT ![c] = [answers[c] EXCEPT ![id] = answers[c][id] \cup {"reply"}]]
    BY DEF Answered
  <2>2. answers[c][id] \cup {"reply"} \in SUBSET {"reply", "timeout"}
    BY <1>2 DEF IInv, TypeOK
  <2>3. QED
    BY <1>2, <2>1, <2>2 DEF IInv, TypeOK
<1>4. TypeOK'
  BY <1>1, <1>2, <1>3, Places DEF IInv, TypeOK, authVars
<1>5. \A d \in Conn, i \in Id : Pending(d, i)' = Pending(d, i) /\ (Pending(d, i) => d # c)
  BY DEF Pending, IInv, AnsweredByRight, PendingUnanswered
<1>6. ThreadShape'
  BY <1>1, <1>2 DEF IInv, ThreadShape
<1>7. EntryOfItsKind'
  BY <1>5 DEF IInv, EntryOfItsKind
<1>8. NothingEarly'
  BY <1>1, <1>2, <1>3, Nothing DEF IInv, NothingEarly
<1>9. PendingUnanswered'
  BY <1>1, <1>3, <1>5 DEF IInv, AnsweredByRight, PendingUnanswered
<1>10. FinalNeverTimedOut'
  BY <1>3 DEF IInv, AnsweredByRight, FinalNeverTimedOut
<1>11. AbortFindsOwn'
  BY <1>1 DEF IInv, AbortFindsOwn
<1>12. QED
  BY <1>4, <1>6, <1>7, <1>8, <1>9, <1>10, <1>11 DEF IInv, AnsweredByRight

PutEntry(c, id, e) == conn' = [conn EXCEPT ![c].pending[id] = e]

\* An entry of pending_requests is put in or taken out, and the record of the
\* connection keeps its shape.
LEMMA EntryPut ==
    ASSUME IInv, NEW c \in Conn, conn[c] # None, NEW id \in Id,
           NEW e \in Entry \cup {None}, PutEntry(c, id, e)
    PROVE  /\ conn' \in [Conn -> Client \cup {None}]
           /\ \A d \in Conn : d # c => conn'[d] = conn[d]
           /\ conn'[c] # None
           /\ \A i \in Id : conn'[c].pending[i] = IF i = id THEN e ELSE conn[c].pending[i]
<1> DEFINE table == [conn[c].pending EXCEPT ![id] = e]
           after == [conn[c] EXCEPT !.pending = table]
<1>1. conn[c] \in Client
  BY DEF IInv, TypeOK
<1>2. table \in [Id -> Entry \cup {None}]
  BY <1>1 DEF Client
<1>3. after \in Client /\ after.pending = table
  BY <1>1, <1>2 DEF Client
<1>4. conn' = [conn EXCEPT ![c] = after]
  BY DEF PutEntry
<1>5. after # None
  BY <1>3, Nothing
<1>6. \A i \in Id : table[i] = IF i = id THEN e ELSE conn[c].pending[i]
  BY <1>1 DEF Client
<1>7. /\ conn' \in [Conn -> Client \cup {None}] /\ conn'[c] = after
      /\ \A d \in Conn : d # c => conn'[d] = conn[d]
  BY <1>3, <1>4 DEF IInv, TypeOK
<1>8. QED
  BY <1>3, <1>5, <1>6, <1>7

LEMMA AdmitIInv ==
    ASSUME IInv, NEW c \in Conn, Admit(c)
    PROVE  IInv'
<1> DEFINE id == thread[c].id
           e == [final |-> thread[c].kind = "final", overdue |-> FALSE]
<1>1. /\ thread[c].at = "admit"
      /\ thread' = [thread EXCEPT ![c].at = "running"]
      /\ conn' = [conn EXCEPT ![c].pending[id] = e]
      /\ UNCHANGED <<life, authVars, active, expired, wireVars>>
  BY DEF Admit
<1>2. id \in Id /\ thread[c].kind \in Kind /\ asked[c][id] = thread[c].kind /\ conn[c] # None
  BY <1>1, Busy
<1>3. e \in Entry /\ e # None
  <2>1. e \in Entry
    BY DEF Entry
  <2>2. QED
    BY <2>1, Nothing
<1>4. /\ thread' \in [Conn -> ThreadState]
      /\ thread'[c] # Away /\ thread'[c] # Idle
      /\ thread'[c].at = "running" /\ thread'[c].id = id /\ thread'[c].kind = thread[c].kind
      /\ \A d \in Conn : d # c => thread'[d] = thread[d]
  BY <1>1, Moved
<1>5. /\ conn' \in [Conn -> Client \cup {None}]
      /\ \A d \in Conn : d # c => conn'[d] = conn[d]
      /\ conn'[c] # None
      /\ \A i \in Id : conn'[c].pending[i] = IF i = id THEN e ELSE conn[c].pending[i]
  <2>1. e \in Entry \cup {None} /\ PutEntry(c, id, e)
    BY <1>1, <1>3 DEF PutEntry
  <2> HIDE DEF e, id
  <2>2. QED
    BY <1>2, <2>1, EntryPut
<1>6. TypeOK'
  BY <1>1, <1>2, <1>4, <1>5, Places DEF IInv, TypeOK, authVars, wireVars
<1>7. \A d \in Conn, i \in Id :
         /\ Pending(d, i)' <=> Pending(d, i) \/ (d = c /\ i = id)
         /\ Pending(d, i) => d # c
  <2>1. \A d \in Conn, i \in Id : Pending(d, i) => d # c
    BY <1>1 DEF IInv, AnsweredByRight, PendingUnanswered
  <2>2. \A d \in Conn, i \in Id : d # c => Pending(d, i)' = Pending(d, i)
    BY <1>5 DEF Pending
  <2>3. \A i \in Id : i = id => Pending(c, i)'
    BY <1>2, <1>3, <1>5 DEF Pending
  <2>4. \A i \in Id : i # id => Pending(c, i)' = Pending(c, i)
    BY <1>2, <1>5 DEF Pending
  <2>5. QED
    BY <2>1, <2>2, <2>3, <2>4
<1>8. ThreadShape'
  BY <1>1, <1>2, <1>4 DEF IInv, ThreadShape, wireVars
<1>9. EntryOfItsKind'
  BY <1>1, <1>2, <1>5, <1>7 DEF IInv, EntryOfItsKind, wireVars
<1>10. NothingEarly'
  BY <1>1, <1>4 DEF IInv, NothingEarly, wireVars
<1>11. PendingUnanswered'
  BY <1>1, <1>4, <1>7 DEF IInv, AnsweredByRight, PendingUnanswered, NothingEarly, wireVars
<1>12. FinalNeverTimedOut'
  BY <1>1 DEF IInv, AnsweredByRight, FinalNeverTimedOut, wireVars
<1>13. AbortFindsOwn'
  BY <1>1, <1>4 DEF IInv, AbortFindsOwn
<1>14. QED
  BY <1>6, <1>8, <1>9, <1>10, <1>11, <1>12, <1>13 DEF IInv, AnsweredByRight

\* The handler's end takes the entry away before anything is sent.
LEMMA HandlerEndsIInv ==
    ASSUME IInv, NEW c \in Conn, HandlerEnds(c)
    PROVE  IInv'
<1> DEFINE id == thread[c].id
<1>1. /\ thread[c].at = "running"
      /\ thread' = [thread EXCEPT ![c].at = "reply"]
      /\ conn' = [conn EXCEPT ![c].pending[id] = None]
      /\ UNCHANGED <<life, authVars, active, expired, wireVars>>
  BY DEF HandlerEnds
<1>2. id \in Id /\ thread[c].kind \in Kind /\ asked[c][id] = thread[c].kind /\ conn[c] # None
  BY <1>1, Busy
<1>3. /\ thread' \in [Conn -> ThreadState]
      /\ thread'[c] # Away /\ thread'[c] # Idle
      /\ thread'[c].at = "reply" /\ thread'[c].id = id /\ thread'[c].kind = thread[c].kind
      /\ \A d \in Conn : d # c => thread'[d] = thread[d]
  BY <1>1, Moved
<1>4. /\ conn' \in [Conn -> Client \cup {None}]
      /\ \A d \in Conn : d # c => conn'[d] = conn[d]
      /\ conn'[c] # None
      /\ \A i \in Id : conn'[c].pending[i] = IF i = id THEN None ELSE conn[c].pending[i]
  <2>1. None \in Entry \cup {None} /\ PutEntry(c, id, None)
    BY <1>1 DEF PutEntry
  <2> HIDE DEF id
  <2>2. QED
    BY <1>2, <2>1, EntryPut
<1>5. TypeOK'
  BY <1>1, <1>2, <1>3, <1>4, Places DEF IInv, TypeOK, authVars, wireVars
<1>6. \A d \in Conn, i \in Id : Pending(d, i)' <=> (Pending(d, i) /\ d # c)
  <2>1. \A i \in Id : Pending(c, i) => i = id
    BY DEF IInv, AnsweredByRight, PendingUnanswered
  <2>2. \A i \in Id : ~Pending(c, i)'
    BY <1>2, <1>4, <2>1 DEF Pending
  <2>3. \A d \in Conn, i \in Id : d # c => Pending(d, i)' = Pending(d, i)
    BY <1>4 DEF Pending
  <2>4. QED
    BY <2>2, <2>3
<1>7. ThreadShape'
  BY <1>1, <1>2, <1>3 DEF IInv, ThreadShape, wireVars
<1>8. EntryOfItsKind'
  BY <1>1, <1>4, <1>6 DEF IInv, EntryOfItsKind, wireVars
<1>9. NothingEarly'
  BY <1>1, <1>3 DEF IInv, NothingEarly, wireVars
<1>10. AnsweredByRight'
  BY <1>1, <1>3, <1>6 DEF IInv, AnsweredByRight, PendingUnanswered, FinalNeverTimedOut, wireVars
<1>11. AbortFindsOwn'
  BY <1>1, <1>3 DEF IInv, AbortFindsOwn
<1>12. QED
  BY <1>5, <1>7, <1>8, <1>9, <1>10, <1>11 DEF IInv

\* The clean-up of handle_message may erase the entry of another connection's
\* request, but leaves none of its own.
LEMMA FinishIInv ==
    ASSUME IInv, NEW c \in Conn, Finish(c)
    PROVE  IInv'
<1>1. /\ thread[c].at = "done"
      /\ active' = [active EXCEPT ![thread[c].id] = None]
      /\ thread' = [thread EXCEPT ![c] = Idle]
      /\ UNCHANGED <<life, authVars, conn, expired, wireVars>>
  BY DEF Finish
<1>2. thread[c].id \in Id /\ conn[c] # None
  BY <1>1, Busy
<1>3. \A d \in Conn : thread'[d] = IF d = c THEN Idle ELSE thread[d]
  BY <1>1 DEF IInv, TypeOK
<1>4. TypeOK'
  BY <1>1, <1>2, <1>3, Places DEF IInv, TypeOK, authVars, wireVars
<1>5. \A d \in Conn, i \in Id : Pending(d, i)' = Pending(d, i) /\ (Pending(d, i) => d # c)
  BY <1>1 DEF Pending, IInv, AnsweredByRight, PendingUnanswered
<1>6. ThreadShape' /\ EntryOfItsKind' /\ NothingEarly'
  <2>1. ThreadShape'
    BY <1>1, <1>3 DEF IInv, ThreadShape, wireVars
  <2>2. EntryOfItsKind'
    BY <1>1, <1>5 DEF IInv, EntryOfItsKind, wireVars
  <2>3. NothingEarly'
    BY <1>1, <1>3, Places DEF IInv, NothingEarly, wireVars
  <2>4. QED
    BY <2>1, <2>2, <2>3
<1>7. AnsweredByRight'
  BY <1>1, <1>3, <1>5 DEF IInv, AnsweredByRight, PendingUnanswered, FinalNeverTimedOut, wireVars
<1>8. AbortFindsOwn'
  BY <1>1, <1>2, <1>3, Nothing DEF IInv, TypeOK, AbortFindsOwn
<1>9. QED
  BY <1>4, <1>6, <1>7, <1>8 DEF IInv

LEMMA AbortIInv ==
    ASSUME IInv, NEW c \in Conn, NEW id \in Id, AbortRequest(c, id)
    PROVE  IInv'
<1>1. /\ active' = [active EXCEPT ![id] = None]
      /\ UNCHANGED <<life, authVars, conn, thread, expired, wireVars>>
  BY DEF AbortRequest
<1>2. TypeOK'
  BY <1>1 DEF IInv, TypeOK, authVars, wireVars
<1>3. ThreadShape' /\ EntryOfItsKind' /\ NothingEarly' /\ AnsweredByRight'
  BY <1>1 DEF IInv, ThreadShape, EntryOfItsKind, NothingEarly, AnsweredByRight,
              PendingUnanswered, FinalNeverTimedOut, Pending, wireVars
<1>4. AbortFindsOwn'
  BY <1>1, Nothing DEF IInv, TypeOK, AbortFindsOwn
<1>5. QED
  BY <1>2, <1>3, <1>4 DEF IInv

-----------------------------------------------------------------------------
(* The watchdog *)

\* What a tick collects is short and was pending; what it leaves of the table
\* is everything else.
LEMMA Collected ==
    ASSUME IInv, WatchdogTick
    PROVE  /\ conn' \in [Conn -> Client \cup {None}]
           /\ \A c \in Conn : (conn'[c] = None) = (conn[c] = None)
           /\ \A c \in Conn, id \in Id :
                 /\ Pending(c, id)' <=> (Pending(c, id) /\ <<c, id>> \notin Overdue)
                 /\ Pending(c, id)' => conn'[c].pending[id] = conn[c].pending[id]
<1> DEFINE left(c) == [id \in Id |-> IF <<c, id>> \in Overdue THEN None ELSE conn[c].pending[id]]
<1>1. \A c \in Conn : conn[c] # None =>
         /\ [conn[c] EXCEPT !.pending = left(c)] \in Client
         /\ [conn[c] EXCEPT !.pending = left(c)].pending = left(c)
  <2> SUFFICES ASSUME NEW c \in Conn, conn[c] # None
               PROVE  /\ [conn[c] EXCEPT !.pending = left(c)] \in Client
                      /\ [conn[c] EXCEPT !.pending = left(c)].pending = left(c)
    OBVIOUS
  <2>1. conn[c] \in Client
    BY DEF IInv, TypeOK
  <2>2. left(c) \in [Id -> Entry \cup {None}]
    BY <2>1 DEF Client
  <2>3. QED
    BY <2>1, <2>2 DEF Client
<1>2. conn' = [c \in Conn |-> IF conn[c] = None THEN None
                              ELSE [conn[c] EXCEPT !.pending = left(c)]]
  BY DEF WatchdogTick
<1>3. \A c \in Conn : conn[c] # None =>
         /\ conn'[c] \in Client /\ conn'[c] # None
         /\ conn'[c].pending = left(c)
  BY <1>1, <1>2, Nothing
<1>4. \A c \in Conn : conn[c] = None => conn'[c] = None
  BY <1>2
<1>5. conn' \in [Conn -> Client \cup {None}]
  <2> HIDE DEF left
  <2>1. \A c \in Conn : conn'[c] \in Client \cup {None}
    BY <1>3, <1>4
  <2>2. QED
    BY <1>2, <2>1
<1>6. QED
  BY <1>3, <1>4, <1>5 DEF Pending

LEMMA TickIInv ==
    ASSUME IInv, WatchdogTick
    PROVE  IInv'
<1>1. /\ expired = {} /\ expired' = Overdue
      /\ UNCHANGED <<life, authVars, active, thread, wireVars>>
  BY DEF WatchdogTick
<1>2. /\ conn' \in [Conn -> Client \cup {None}]
      /\ \A c \in Conn : (conn'[c] = None) = (conn[c] = None)
      /\ \A c \in Conn, id \in Id :
            /\ Pending(c, id)' <=> (Pending(c, id) /\ <<c, id>> \notin Overdue)
            /\ Pending(c, id)' => conn'[c].pending[id] = conn[c].pending[id]
  BY Collected
<1>3. \A c \in Conn, id \in Id : <<c, id>> \in Overdue =>
         Pending(c, id) /\ ~conn[c].pending[id].final
  BY DEF Overdue
<1>4. TypeOK'
  BY <1>1, <1>2 DEF IInv, TypeOK, authVars, wireVars, Overdue
<1>5. ThreadShape'
  BY <1>1 DEF IInv, ThreadShape, wireVars
<1>6. EntryOfItsKind'
  <2> SUFFICES ASSUME NEW c \in Conn, NEW id \in Id, Pending(c, id)'
               PROVE  conn'[c].pending[id].final = (asked'[c][id] = "final")
    BY DEF EntryOfItsKind
  <2>1. Pending(c, id) /\ conn'[c].pending[id] = conn[c].pending[id]
    BY <1>2
  <2>2. QED
    BY <1>1, <2>1 DEF IInv, EntryOfItsKind, wireVars
<1>7. \A c \in Conn, id \in Id : Pending(c, id) =>
         thread[c].at = "running" /\ thread[c].id = id /\ asked[c][id] \in Kind
  <2> SUFFICES ASSUME NEW c \in Conn, NEW id \in Id, Pending(c, id)
               PROVE  thread[c].at = "running" /\ thread[c].id = id /\ asked[c][id] \in Kind
    OBVIOUS
  <2>1. thread[c].at = "running" /\ thread[c].id = id
    BY DEF IInv, AnsweredByRight, PendingUnanswered
  <2>2. QED
    BY <2>1, Busy
<1>8. NothingEarly'
  BY <1>1, <1>3, <1>7, Nothing DEF IInv, NothingEarly, wireVars
<1>9. PendingUnanswered'
  BY <1>1, <1>2 DEF IInv, AnsweredByRight, PendingUnanswered, wireVars
<1>10. FinalNeverTimedOut'
  <2>1. \A c \in Conn, id \in Id : <<c, id>> \in Overdue => asked[c][id] = "short"
    <3> SUFFICES ASSUME NEW c \in Conn, NEW id \in Id, <<c, id>> \in Overdue
                 PROVE  asked[c][id] = "short"
      OBVIOUS
    <3>1. Pending(c, id) /\ ~conn[c].pending[id].final /\ asked[c][id] \in Kind
      BY <1>3, <1>7
    <3>2. QED
      BY <3>1 DEF IInv, EntryOfItsKind, Kind
  <2>2. QED
    BY <1>1, <2>1 DEF IInv, AnsweredByRight, FinalNeverTimedOut, wireVars
<1>11. AbortFindsOwn'
  BY <1>1 DEF IInv, AbortFindsOwn
<1>12. QED
  BY <1>4, <1>5, <1>6, <1>8, <1>9, <1>10, <1>11 DEF IInv, AnsweredByRight

LEMMA TimeoutIInv ==
    ASSUME IInv, NEW c \in Conn, NEW id \in Id, WatchdogAnswer(c, id)
    PROVE  IInv'
<1>1. /\ <<c, id>> \in expired /\ expired' = expired \ {<<c, id>>}
      /\ UNCHANGED <<life, authVars, conn, active, thread, asked>>
  BY DEF WatchdogAnswer
<1>2. /\ answers' \in [Conn -> [Id -> SUBSET {"reply", "timeout"}]]
      /\ \A d \in Conn, i \in Id : answers'[d][i] \subseteq
            IF d = c /\ i = id THEN answers[d][i] \cup {"timeout"} ELSE answers[d][i]
  BY DEF WatchdogAnswer, IInv, TypeOK
<1>3. TypeOK'
  BY <1>1, <1>2 DEF IInv, TypeOK, authVars
<1>4. \A d \in Conn, i \in Id : Pending(d, i)' = Pending(d, i)
  BY <1>1 DEF Pending
<1>5. ThreadShape' /\ EntryOfItsKind' /\ AbortFindsOwn'
  BY <1>1, <1>4 DEF IInv, ThreadShape, EntryOfItsKind, AbortFindsOwn
<1>6. NothingEarly'
  BY <1>1, <1>2 DEF IInv, NothingEarly
<1>7. PendingUnanswered'
  BY <1>1, <1>2, <1>4 DEF IInv, AnsweredByRight, PendingUnanswered
<1>8. FinalNeverTimedOut'
  BY <1>1, <1>2 DEF IInv, AnsweredByRight, FinalNeverTimedOut
<1>9. QED
  BY <1>3, <1>5, <1>6, <1>7, <1>8 DEF IInv, AnsweredByRight

-----------------------------------------------------------------------------
(* The theorems *)

LEMMA NextIInv == IInv /\ [Next]_vars => IInv'
<1> SUFFICES ASSUME IInv, [Next]_vars PROVE IInv'
  OBVIOUS
<1>1. CASE Start \/ Stop \/ StopReturns
  BY <1>1, LifeIInv
<1>2. CASE \/ \E m \in AuthModes : SetAuth(m)
           \/ \E c \in Conn : LockoutExpires(c)
           \/ \E c \in Conn : ClearAuthLockout({c})
           \/ ClearAuthLockout(Conn)
  <2>1. \A c \in Conn : {c} \in SUBSET Conn
    OBVIOUS
  <2>2. QED
    BY <1>2, <2>1, LockoutIInv
<1>3. ASSUME NEW c \in Conn, Open(c) \/ Close(c) \/ Finish(c) \/ Admit(c) \/ HandlerEnds(c)
      PROVE  IInv'
  BY <1>3, OpenIInv, CloseIInv, FinishIInv, AdmitIInv, HandlerEndsIInv
<1>4. ASSUME NEW c \in Conn, Refuse(c) \/ Reply(c)
      PROVE  IInv'
  BY <1>4, AnswerIInv DEF Refuse, Reply
<1>5. ASSUME NEW c \in Conn, NEW kind \in Hellos, Hello(c, kind)
      PROVE  IInv'
  BY <1>5, HelloIInv
<1>6. ASSUME NEW c \in Conn, NEW id \in Id,
             \/ \E kind \in Kind : Receive(c, id, kind)
             \/ AbortRequest(c, id) \/ TimePasses(c, id) \/ WatchdogAnswer(c, id)
      PROVE  IInv'
  BY <1>6, ReceiveIInv, AbortIInv, TimePassesIInv, TimeoutIInv
<1>7. CASE WatchdogTick
  BY <1>7, TickIInv
<1>8. CASE UNCHANGED vars
  BY <1>8 DEF vars, IInv, TypeOK, ThreadShape, EntryOfItsKind, NothingEarly, AnsweredByRight,
              PendingUnanswered, FinalNeverTimedOut, AbortFindsOwn, Pending, authVars, wireVars
<1>9. QED
  BY <1>1, <1>2, <1>3, <1>4, <1>5, <1>6, <1>7, <1>8 DEF Next, ConnStep, Watchdog

\* Every reachable state of the server satisfies the inductive invariant.
LEMMA Invariant == Spec => []IInv
  BY InitIInv, NextIInv, PTL DEF Spec

\* The tables of the server keep their types, and connections_ has an entry for
\* exactly the connections that are open (on_connection).
THEOREM Typed == Spec => []TypeOK
<1>1. IInv => TypeOK
  BY DEF IInv
<1>2. QED
  BY <1>1, Invariant, PTL

\* Whatever the interleaving of the watchdog, the handlers and the clients, a
\* request still pending is unanswered, and only a request that is not
\* expect_final is ever timed out (watchdog_tick, handle_rpc_request).
THEOREM AnsweredByRightAlways == Spec => []AnsweredByRight
<1>1. IInv => AnsweredByRight
  BY DEF IInv
<1>2. QED
  BY <1>1, Invariant, PTL

\* AbortRequest finds for a connection only the request its thread works on,
\* though active_requests_ is keyed by identifiers that connections share.
THEOREM AbortFindsOwnAlways == Spec => []AbortFindsOwn
<1>1. IInv => AbortFindsOwn
  BY DEF IInv
<1>2. QED
  BY <1>1, Invariant, PTL

StaysOut(c) ==
    \/ conn'[c] = None \/ ~conn'[c].auth
    \/ conn[c] # None /\ conn[c].auth

\* A step that starts with a connection locked out in token mode does not
\* authenticate it (handle_hello looks at the lockout before the token).
LEMMA LockedOutStep ==
    ASSUME TypeOK, [Next]_vars, NEW c \in Conn, c \in locked, mode = "token"
    PROVE  StaysOut(c)
<1>1. CASE UNCHANGED conn
  BY <1>1 DEF StaysOut
<1>2. ASSUME NEW d \in Conn, Open(d)
      PROVE  StaysOut(c)
  BY <1>2 DEF Open, TypeOK, StaysOut
<1>3. ASSUME NEW d \in Conn, Close(d)
      PROVE  StaysOut(c)
  BY <1>3 DEF Close, TypeOK, StaysOut
<1>4. ASSUME NEW d \in Conn, NEW kind \in Hellos, Hello(d, kind)
      PROVE  StaysOut(c)
  <2>1. d = c => UNCHANGED conn
    BY <1>4 DEF Hello, CheckToken
  <2>2. UNCHANGED conn \/ Authenticated(d)
    BY <1>4 DEF Hello, CheckToken, BadToken, TokenAccepted
  <2>3. conn'[c] = conn[c]
    BY <2>1, <2>2 DEF Authenticated, TypeOK
  <2>4. QED
    BY <2>3 DEF StaysOut
<1>5. ASSUME NEW d \in Conn, conn[d] # None, NEW id, NEW e, PutEntry(d, id, e)
      PROVE  StaysOut(c)
  <2> DEFINE after == [conn[d] EXCEPT !.pending = [conn[d].pending EXCEPT ![id] = e]]
  <2>1. conn' = [conn EXCEPT ![d] = after] /\ conn[d] \in Client
    BY <1>5 DEF TypeOK, PutEntry
  <2>2. after.auth = conn[d].auth
    BY <2>1 DEF Client
  <2>3. d = c => conn'[c].auth = conn[c].auth
    BY <2>1, <2>2 DEF TypeOK
  <2>4. d # c => conn'[c] = conn[c]
    BY <2>1 DEF TypeOK
  <2>5. QED
    BY <1>5, <2>3, <2>4 DEF StaysOut
<1>6. CASE WatchdogTick
  <2>1. CASE conn[c] = None
    BY <1>6, <2>1 DEF WatchdogTick, StaysOut
  <2>2. CASE conn[c] # None
    <3> DEFINE left == [id \in Id |-> IF <<c, id>> \in Overdue THEN None ELSE conn[c].pending[id]]
               after == [conn[c] EXCEPT !.pending = left]
    <3>1. conn'[c] = after /\ conn[c] \in Client
      BY <1>6, <2>2 DEF WatchdogTick, TypeOK
    <3>2. after.auth = conn[c].auth
      BY <3>1 DEF Client
    <3>3. QED
      BY <2>2, <3>1, <3>2 DEF StaysOut
  <2>3. QED
    BY <2>1, <2>2
<1>7. ASSUME NEW d \in Conn, Admit(d) \/ HandlerEnds(d)
      PROVE  StaysOut(c)
  <2>1. conn[d] # None
    BY <1>7, Places DEF Admit, HandlerEnds, TypeOK
  <2>2. CASE Admit(d)
    <3>1. PutEntry(d, thread[d].id, [final |-> thread[d].kind = "final", overdue |-> FALSE])
      BY <2>2 DEF Admit, PutEntry
    <3>2. QED
      BY <1>5, <2>1, <3>1
  <2>3. CASE HandlerEnds(d)
    <3>1. PutEntry(d, thread[d].id, None)
      BY <2>3 DEF HandlerEnds, PutEntry
    <3>2. QED
      BY <1>5, <2>1, <3>1
  <2>4. QED
    BY <1>7, <2>2, <2>3
<1>8. ASSUME NEW d \in Conn, NEW id \in Id, TimePasses(d, id)
      PROVE  StaysOut(c)
  <2> DEFINE e == [conn[d].pending[id] EXCEPT !.overdue = TRUE]
  <2>1. conn[d] # None /\ PutEntry(d, id, e)
    BY <1>8 DEF TimePasses, Pending, PutEntry
  <2>2. QED
    BY <1>5, <2>1
<1>9. ASSUME \/ Start \/ Stop \/ StopReturns \/ ClearAuthLockout(Conn) \/ UNCHANGED vars
             \/ \E m \in AuthModes : SetAuth(m)
             \/ \E d \in Conn, id \in Id : AbortRequest(d, id) \/ WatchdogAnswer(d, id)
      PROVE  UNCHANGED conn
  BY <1>9 DEF Start, Stop, StopReturns, ClearAuthLockout, SetAuth, AbortRequest, WatchdogAnswer, vars
<1>10. ASSUME NEW d \in Conn,
              \/ LockoutExpires(d) \/ ClearAuthLockout({d}) \/ Reply(d) \/ Finish(d) \/ Refuse(d)
              \/ \E id \in Id, kind \in Kind : Receive(d, id, kind)
       PROVE  UNCHANGED conn
  BY <1>10 DEF LockoutExpires, ClearAuthLockout, Reply, Finish, Refuse, Receive
<1>11. CASE \E d \in Conn :
              \/ Open(d) \/ Close(d) \/ ConnStep(d) \/ Refuse(d) \/ HandlerEnds(d)
              \/ LockoutExpires(d) \/ ClearAuthLockout({d})
              \/ \E kind \in Hellos : Hello(d, kind)
              \/ \E id \in Id, kind \in Kind : Receive(d, id, kind)
              \/ \E id \in Id : TimePasses(d, id)
  BY <1>1, <1>2, <1>3, <1>4, <1>7, <1>8, <1>10, <1>11 DEF ConnStep
<1>12. QED
  BY <1>1, <1>6, <1>9, <1>11 DEF Next, Watchdog

\* While auth_lockout_until_ of a connection lies ahead, no hello with whatever
\* token authenticates it, and nothing else does (handle_hello).
THEOREM LockoutHoldsAlways == Spec => LockoutHolds
<1>1. TypeOK /\ [Next]_vars =>
        [\A c \in Conn : c \in locked /\ mode = "token" =>
           \/ conn'[c] = None \/ ~conn'[c].auth
           \/ conn[c] # None /\ conn[c].auth]_vars
  BY LockedOutStep DEF StaysOut
<1>2. QED
  BY <1>1, Typed, PTL DEF Spec, LockoutHolds
=============================================================================
