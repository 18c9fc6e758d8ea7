--------------------------- MODULE SessionsProofs ---------------------------
(***************************************************************************)
(* Proofs about Sessions for every set of session keys and requests, every *)
(* window and every bound: a crash that finds the mutex free loses no      *)
(* session, and a turn is told what was said before its request came in.   *)
(***************************************************************************)
EXTENDS Sessions, TLAPS, SequenceTheorems

-----------------------------------------------------------------------------
(* Transcripts *)

\* What the history of a session is: the transcript's end.
LEMMA History ==
    ASSUME TypeOK, NEW k \in Key, NEW n \in Nat
    PROVE  /\ Transcript(k) \in Seq(Message)
           /\ GetHistory(k, n) \in Seq(Message)
           /\ n > 0 /\ Transcript(k) # <<>> =>
                /\ GetHistory(k, n) # <<>>
                /\ Last(GetHistory(k, n)) = Transcript(k)[Len(Transcript(k))]
<1> DEFINE f == Transcript(k)
<1>1. f \in Seq(Message)
  BY DEF TypeOK, Transcript, Known, Store
<1> HIDE DEF f
<1>2. CASE Len(f) > n
  <2> DEFINE h == SubSeq(f, Len(f) - n + 1, Len(f))
  <2>1. /\ h \in Seq(Message) /\ Len(h) = n
        /\ n > 0 => h[n] = f[Len(f)]
    <3>1. Len(f) \in Nat /\ \A i \in Len(f) - n + 1 .. Len(f) : f[i] \in Message
      BY <1>1, <1>2, ElementOfSeq, LenProperties
    <3>2. /\ h \in Seq(Message) /\ Len(h) = n
          /\ \A i \in 1 .. n : h[i] = f[Len(f) - n + 1 + i - 1]
      BY <1>2, <3>1, SubSeqProperties
    <3>3. n > 0 => n \in 1 .. n /\ Len(f) - n + 1 + n - 1 = Len(f)
      BY <3>1
    <3>4. QED
      BY <3>2, <3>3
  <2>2. GetHistory(k, n) = h
    BY <1>2 DEF GetHistory, f
  <2> HIDE DEF h
  <2>3. n > 0 => h # <<>> /\ Last(h) = f[Len(f)]
    BY <2>1 DEF Last
  <2>4. QED
    BY <1>1, <2>1, <2>2, <2>3 DEF f
<1>3. CASE ~(Len(f) > n)
  <2>1. GetHistory(k, n) = f
    BY <1>3 DEF GetHistory, f
  <2>2. QED
    BY <1>1, <2>1 DEF f, Last
<1>4. QED
  BY <1>2, <1>3

\* Dropping the last message loses nothing else.
LEMMA Dropped ==
    ASSUME NEW s \in Seq(Message)
    PROVE  /\ DropLast(s) \in Seq(Message)
           /\ \A i \in 1 .. Len(s) : s[i] # Last(s) => s[i] \in ToSet(DropLast(s))
<1>1. CASE s = <<>>
  BY <1>1 DEF DropLast
<1>2. CASE s # <<>>
  <2> DEFINE d == SubSeq(s, 1, Len(s) - 1)
  <2>1. /\ d \in Seq(Message) /\ Len(d) = Len(s) - 1 /\ Len(s) \in Nat \ {0}
        /\ \A i \in 1 .. Len(s) - 1 : d[i] = s[i]
    <3>1. Len(s) \in Nat /\ Len(s) >= 1
      BY <1>2, EmptySeq
    <3> DEFINE n == Len(s) - 1
    <3>2. n \in Nat /\ Len(s) = n + 1 /\ Len(s) \in Nat \ {0}
      BY <3>1
    <3>3. \A i \in 1 .. n : s[i] \in Message
      BY <3>1, ElementOfSeq
    <3> HIDE DEF n
    <3>4. /\ SubSeq(s, 1, n) \in Seq(Message)
          /\ Len(SubSeq(s, 1, n)) = IF 1 <= n THEN n - 1 + 1 ELSE 0
          /\ \A i \in 1 .. n - 1 + 1 : SubSeq(s, 1, n)[i] = s[1 + i - 1]
      BY <3>2, <3>3, SubSeqProperties
    <3>5. Len(SubSeq(s, 1, n)) = n /\ \A i \in 1 .. n : SubSeq(s, 1, n)[i] = s[i]
      BY <3>2, <3>4
    <3>6. QED
      BY <3>2, <3>4, <3>5 DEF n
  <2>2. DropLast(s) = d
    BY <1>2 DEF DropLast, Front
  <2>3. DOMAIN d = 1 .. Len(s) - 1
    BY <2>1
  <2> HIDE DEF d
  <2>4. \A i \in 1 .. Len(s) : s[i] # Last(s) => s[i] \in ToSet(d)
    <3> SUFFICES ASSUME NEW i \in 1 .. Len(s), s[i] # Last(s)
                 PROVE  s[i] \in ToSet(d)
      OBVIOUS
    <3>1. i \in 1 .. Len(s) - 1
      BY <2>1 DEF Last
    <3>2. QED
      BY <2>1, <2>3, <3>1 DEF ToSet
  <2>5. QED
    BY <2>1, <2>2, <2>4
<1>3. QED
  BY <1>1, <1>2

\* Taking the last message for the request's own loses no message but that.
LEMMA WithoutOwnKeeps ==
    ASSUME NEW via, NEW s \in Seq(Message)
    PROVE  /\ WithoutOwn(via, s) \in Seq(Message)
           /\ \A i \in 1 .. Len(s) : s[i] # Last(s) => s[i] \in ToSet(WithoutOwn(via, s))
<1>1. \A i \in 1 .. Len(s) : s[i] \in ToSet(s)
  BY DEF ToSet
<1>2. QED
  BY <1>1, Dropped DEF WithoutOwn

\* What a turn hands back is its own and has no message twice.
LEMMA ReplyFacts ==
    ASSUME NEW r \in Request, NEW out \in Replies(r)
    PROVE  /\ out \in Seq(Message)
           /\ ToSet(out) \subseteq {r} \X {"use", "result", "answer"}
           /\ \A i, j \in 1 .. Len(out) : i # j => out[i] # out[j]
<1> DEFINE use == <<r, "use">>
           result == <<r, "result">>
           answer == <<r, "answer">>
<1>1. /\ use \in Message /\ result \in Message /\ answer \in Message
      /\ use # result /\ use # answer /\ result # answer
  BY DEF Message, Kinds
<1>2. {use, result, answer} \subseteq {r} \X {"use", "result", "answer"}
  OBVIOUS
<1>3. out \in {<<answer>>, <<use, result, answer>>, <<use, result>>}
  BY DEF Replies
<1> HIDE DEF use, result, answer
<1>4. CASE out = <<answer>>
  BY <1>1, <1>2, <1>4 DEF ToSet
<1>5. CASE out = <<use, result, answer>>
  BY <1>1, <1>2, <1>5 DEF ToSet
<1>6. CASE out = <<use, result>>
  BY <1>1, <1>2, <1>6 DEF ToSet
<1>7. QED
  BY <1>3, <1>4, <1>5, <1>6

-----------------------------------------------------------------------------
(* The store and its file *)

\* The part of the invariant that is about sessions.json and the identifiers.
StoreInv ==
    /\ store \in Store
    /\ disk \in [is : {"whole", "truncated", "corrupt"}, content : Store]
    /\ saving \in BOOLEAN
    /\ sids \in 0 .. MaxSid
    /\ compactor \in {None} \cup [at : {"read", "write"}, content : Store \cup {None}]
    /\ compactions \in 0 .. MaxCompactions
    /\ crashes \in 0 .. MaxCrashes
    /\ SidsDistinct
    /\ SavedUnderMutex

\* A store without sessions, and the file while it is written.
LEMMA EmptyStore ==
    /\ Nothing \in Store /\ Distinct(Nothing) /\ Distinct(Nothing)'
    /\ Truncated \in [is : {"whole", "truncated", "corrupt"}, content : Store]
    /\ Truncated.content = Nothing
  BY DEF Nothing, Truncated, Store, Distinct

\* A step that touches nothing of it keeps it.
LEMMA StoreUntouched ==
    ASSUME StoreInv, UNCHANGED <<store, disk, saving, sids, compactor, compactions, crashes>>
    PROVE  StoreInv'
  BY DEF StoreInv, SidsDistinct, SavedUnderMutex, Distinct, Unlocked, Loaded

\* A save begins.
LEMMA SaveBegins ==
    ASSUME StoreInv, BeginSave, UNCHANGED <<store, sids, compactor, compactions, crashes>>
    PROVE  StoreInv'
<1>1. SidsDistinct'
  BY EmptyStore DEF StoreInv, SidsDistinct, BeginSave, Distinct
<1>2. SavedUnderMutex'
  BY DEF StoreInv, SavedUnderMutex, BeginSave
<1>3. QED
  BY <1>1, <1>2, EmptyStore DEF StoreInv, BeginSave

\* A new session gets an identifier that was not used before.
LEMMA SessionIsNew ==
    ASSUME StoreInv, NEW k \in Key, NewSession(k), UNCHANGED <<compactor, compactions, crashes>>
    PROVE  StoreInv'
<1>1. /\ sids \in Nat /\ sids + 1 \in 1 .. MaxSid /\ sids' = sids + 1 /\ MaxSid \in Nat
      /\ store' \in Store
  BY SessionBounds DEF StoreInv, NewSession, Store, Sid
<1>2. \A l \in Key : store'[l] = IF l = k THEN sids + 1 ELSE store[l]
  BY DEF StoreInv, NewSession, Store
<1>3. \A st \in Store : \A l \in Key : st[l] # None => st[l] \in Nat
  BY DEF Store, Sid
<1>4. \A st \in Store : Distinct(st) =>
         /\ \A l \in Key : st[l] # None => st[l] <= sids'
         /\ \A l, m \in Key : l # m /\ st[l] # None => st[l] # st[m]
  BY <1>1, <1>3 DEF Distinct
<1>5. Distinct(store)'
  <2>1. \A l \in Key : store[l] # None => store[l] \in Nat /\ store[l] <= sids
    BY <1>3 DEF StoreInv, SidsDistinct, Distinct
  <2>2. \A l, m \in Key : l # m /\ store[l] # None => store[l] # store[m]
    BY DEF StoreInv, SidsDistinct, Distinct
  <2>3. \A l \in Key : store'[l] # None => store'[l] <= sids'
    BY <1>1, <1>2, <2>1
  <2>4. sids + 1 # None
    BY <1>1, SessionNames
  <2>5. \A l, m \in Key : l # m /\ store'[l] # None => store'[l] # store'[m]
    BY <1>1, <1>2, <2>1, <2>2, <2>4
  <2>6. QED
    BY <2>3, <2>5 DEF Distinct
<1>6. SidsDistinct'
  <2>1. Distinct(disk.content)'
    BY EmptyStore DEF NewSession, BeginSave
  <2>2. (compactor # None /\ compactor.at = "write" =>
          compactor.content \in Store /\ Distinct(compactor.content))'
    BY <1>4 DEF StoreInv, SidsDistinct, Distinct
  <2>3. QED
    BY <1>5, <2>1, <2>2 DEF SidsDistinct
<1>7. SavedUnderMutex'
  BY DEF StoreInv, SavedUnderMutex, NewSession, BeginSave
<1>8. QED
  BY <1>1, <1>6, <1>7, EmptyStore DEF StoreInv, NewSession, BeginSave

\* A deleted session leaves the others as they were.
LEMMA SessionGoes ==
    ASSUME StoreInv, NEW k \in Key, DeleteSession(k), UNCHANGED <<compactor, compactions, crashes>>
    PROVE  StoreInv'
<1>1. /\ store' \in Store
      /\ \A l \in Key : store'[l] = IF l = k THEN None ELSE store[l]
  BY DEF StoreInv, DeleteSession, Store
<1>2. Distinct(store)'
  BY <1>1 DEF StoreInv, SidsDistinct, Distinct, DeleteSession
<1>3. SidsDistinct'
  BY <1>2, EmptyStore DEF StoreInv, SidsDistinct, DeleteSession, BeginSave, Distinct
<1>4. SavedUnderMutex'
  BY DEF StoreInv, SavedUnderMutex, DeleteSession, BeginSave
<1>5. QED
  BY <1>1, <1>3, <1>4, EmptyStore DEF StoreInv, DeleteSession, BeginSave

\* A save ends.
LEMMA SaveEnds ==
    ASSUME StoreInv, EndSave
    PROVE  StoreInv'
<1>1. /\ disk' \in [is : {"whole", "truncated", "corrupt"}, content : Store]
      /\ disk'.content \in {store, Nothing}
      /\ disk = Truncated => disk'.content = store
  BY EmptyStore DEF StoreInv, EndSave, Written
<1>2. SidsDistinct'
  BY <1>1, EmptyStore DEF StoreInv, SidsDistinct, EndSave, Distinct
<1>3. SavedUnderMutex'
  BY <1>1 DEF StoreInv, SavedUnderMutex, EndSave, Loaded
<1>4. QED
  BY <1>1, <1>2, <1>3 DEF StoreInv, EndSave

\* sessions.compact counts, and saves a store that was good when it was read.
LEMMA CompactCounts ==
    ASSUME StoreInv, NEW k \in Key, Compact(k)
    PROVE  StoreInv'
<1> DEFINE c == [at |-> "read", content |-> None]
<1>1. /\ c \in [at : {"read", "write"}, content : Store \cup {None}]
      /\ c.at = "read"
  OBVIOUS
<1>2. compactor' = c
  BY DEF Compact
<1> HIDE DEF c
<1>3. SidsDistinct'
  BY <1>1, <1>2 DEF StoreInv, SidsDistinct, Compact, Distinct
<1>4. compactions \in Nat /\ compactions' = compactions + 1 /\ compactions' <= MaxCompactions
  BY SessionBounds DEF StoreInv, Compact
<1>5. compactions' \in 0 .. MaxCompactions /\ compactions' # 0
  BY <1>4, SessionBounds
<1>6. QED
  BY <1>1, <1>2, <1>3, <1>5 DEF StoreInv, SavedUnderMutex, Compact

LEMMA CompactSaved ==
    ASSUME StoreInv, CompactSaves
    PROVE  StoreInv'
<1>1. compactions # 0
  BY DEF StoreInv, SavedUnderMutex, CompactSaves
<1>2. SavedUnderMutex'
  BY <1>1 DEF SavedUnderMutex, CompactSaves
<1>3. CASE compactor.at = "read"
  <2> DEFINE c == [at |-> "write", content |-> store]
  <2>1. /\ c \in [at : {"read", "write"}, content : Store \cup {None}]
        /\ c.at = "write" /\ c.content = store
    BY DEF StoreInv
  <2>2. compactor' = c /\ disk' = Truncated
    BY <1>3 DEF CompactSaves
  <2> HIDE DEF c
  <2>3. SidsDistinct'
    BY <2>1, <2>2, EmptyStore DEF StoreInv, SidsDistinct, CompactSaves, Distinct
  <2>4. QED
    BY <1>2, <2>1, <2>2, <2>3, EmptyStore DEF StoreInv, CompactSaves
<1>4. CASE compactor.at = "write"
  <2>1. compactor \in [at : {"read", "write"}, content : Store \cup {None}]
    BY DEF StoreInv, CompactSaves
  <2>2. compactor.content \in Store /\ Distinct(compactor.content)
    BY <1>4 DEF StoreInv, SidsDistinct, CompactSaves
  <2>3. /\ compactor' = None
        /\ disk' \in [is : {"whole", "truncated", "corrupt"}, content : Store]
        /\ disk'.content \in {compactor.content, Nothing}
    BY <1>4, <2>2, EmptyStore DEF CompactSaves, Written
  <2>4. SidsDistinct'
    BY <2>2, <2>3, EmptyStore DEF StoreInv, SidsDistinct, CompactSaves, Distinct
  <2>5. QED
    BY <1>2, <2>3, <2>4 DEF StoreInv, CompactSaves
<1>5. QED
  BY <1>3, <1>4 DEF CompactSaves

\* After a crash the manager knows what the file says.
LEMMA StoreRestarts ==
    ASSUME StoreInv, Crash
    PROVE  StoreInv'
<1>1. store' = disk.content /\ disk' = disk /\ disk.content \in Store
  BY DEF StoreInv, Crash, Loaded
<1>2. SidsDistinct'
  BY <1>1 DEF StoreInv, SidsDistinct, Crash, Distinct
<1>3. SavedUnderMutex'
  BY <1>1 DEF StoreInv, SavedUnderMutex, Crash, Loaded
<1>4. crashes' \in 0 .. MaxCrashes
  BY SessionBounds DEF StoreInv, Crash
<1>5. QED
  BY <1>1, <1>2, <1>3, <1>4 DEF StoreInv, Crash

-----------------------------------------------------------------------------
(* The requests *)

\* The part of the invariant that is about the requests and the transcripts.
ReqInv ==
    /\ files \in [Sid -> Seq(Message)]
    /\ req \in [Request -> RequestState]
    /\ RequestShape
    /\ OwnComesAfterPast

\* The two parts are the invariant.
LEMMA Parts ==
    /\ IInv <=> StoreInv /\ ReqInv
    /\ IInv' <=> StoreInv' /\ ReqInv'
  BY DEF IInv, TypeOK, StoreInv, ReqInv

LEMMA RequestsUntouched ==
    ASSUME ReqInv, UNCHANGED <<files, req>>
    PROVE  ReqInv'
  BY DEF ReqInv, RequestShape, OwnComesAfterPast, NoSlashCompact, Ahead

\* A state of a request, by its fields.
LEMMA StateFields ==
    /\ \A q \in RequestState :
          /\ q.at \in {"new", "create", "reset", "name", "user", "history", "turn", "append", "done"}
          /\ q.key \in Key \cup {None} /\ q.via \in {"rpc", "channel", "compact", None}
          /\ q.out \in Seq(Message) /\ q.before \in SUBSET Message /\ q.hist \in Seq(Message)
    /\ Fresh \in RequestState /\ Fresh.at = "new" /\ Fresh.key = None /\ Fresh.via = None
    /\ Fresh.out = <<>> /\ Fresh.before = {} /\ Fresh.hist = <<>>
<1>1. <<>> \in Seq(Message)
  OBVIOUS
<1>2. QED
  BY <1>1 DEF RequestState, Fresh

\* A step that appends nothing: transcripts stay or begin anew, and no request
\* has more to append, or remembers more, than it did.
LEMMA NothingAppended ==
    ASSUME ReqInv,
           files' \in [Sid -> Seq(Message)],
           \A s \in Sid : files'[s] \in {files[s], <<>>},
           req' \in [Request -> RequestState],
           RequestShape',
           NoSlashCompact' =>
              /\ NoSlashCompact
              /\ \A r \in Request :
                    /\ MayAppend(r, req'[r]) \subseteq MayAppend(r, req[r])
                    /\ req'[r].before \subseteq req[r].before
                    /\ req'[r].at = "append" =>
                          \A i, j \in 1 .. Len(req'[r].out) : i # j => req'[r].out[i] # req'[r].out[j]
    PROVE  ReqInv'
<1> SUFFICES ASSUME NoSlashCompact' PROVE OwnComesAfterPast'
  BY DEF ReqInv, OwnComesAfterPast
<1>1. NoSlashCompact /\ OwnComesAfterPast
  BY DEF ReqInv
<1>2. \A r \in Request : Ahead(r)' \subseteq Ahead(r) /\ (Ahead(r))' = MayAppend(r, req'[r])
  BY DEF Ahead
<1>3. \A s \in Sid : \A i \in 1 .. Len(files'[s]) :
         i \in 1 .. Len(files[s]) /\ files'[s][i] = files[s][i]
  <2> SUFFICES ASSUME NEW s \in Sid, NEW i \in 1 .. Len(files'[s])
               PROVE  i \in 1 .. Len(files[s]) /\ files'[s][i] = files[s][i]
    OBVIOUS
  <2>1. Len(<<>>) = 0
    OBVIOUS
  <2>2. files'[s] # <<>>
    BY <2>1
  <2>3. QED
    BY <2>2
<1>4. \A r \in Request : Ahead(r)' \subseteq {r} \X Kinds
  BY <1>1, <1>2 DEF OwnComesAfterPast
<1>5. \A r \in Request : req'[r].at = "append" =>
         \A i, j \in 1 .. Len(req'[r].out) : i # j => req'[r].out[i] # req'[r].out[j]
  OBVIOUS
<1>6. \A s \in Sid, r \in Request : \A i \in 1 .. Len(files'[s]) : files'[s][i] \notin Ahead(r)'
  BY <1>1, <1>2, <1>3 DEF OwnComesAfterPast
<1>7. \A q, r \in Request : req'[q].before \cap Ahead(r)' = {}
  <2>1. \A q, r \in Request : req[q].before \cap Ahead(r) = {}
    BY <1>1 DEF OwnComesAfterPast
  <2>2. QED
    BY <1>2, <2>1
<1>8. \A r \in Request : <<r, "user">> \notin req'[r].before
  BY <1>1 DEF OwnComesAfterPast
<1>9. \A s \in Sid, r \in Request : \A i, j \in 1 .. Len(files'[s]) :
         i < j /\ files'[s][i] = <<r, "user">> => files'[s][j] \notin req'[r].before
  BY <1>1, <1>3 DEF OwnComesAfterPast
<1>10. QED
  BY <1>4, <1>5, <1>6, <1>7, <1>8, <1>9 DEF OwnComesAfterPast

\* One request goes on and the others stay where they are.
LEMMA OneMoves ==
    ASSUME ReqInv, NEW r \in Request, NEW q \in RequestState,
           req' = [req EXCEPT ![r] = q],
           q.at \notin {"new", "reset"} \/ (q.at = "reset" /\ q.via = "compact"),
           q.at # "done" => q.key \in Key
    PROVE  /\ req' \in [Request -> RequestState]
           /\ req'[r] = q /\ \A p \in Request : p # r => req'[p] = req[p]
           /\ RequestShape'
<1>1. /\ req' \in [Request -> RequestState]
      /\ req'[r] = q /\ \A p \in Request : p # r => req'[p] = req[p]
  BY DEF ReqInv
<1>2. RequestShape'
  BY <1>1 DEF ReqInv, RequestShape
<1>3. QED
  BY <1>1, <1>2

\* It goes on and appends nothing.
LEMMA QuietMove ==
    ASSUME ReqInv, NEW r \in Request, NEW q \in RequestState,
           req' = [req EXCEPT ![r] = q],
           q.at \notin {"new", "reset"} \/ (q.at = "reset" /\ q.via = "compact"),
           q.at # "done" => q.key \in Key,
           files' \in [Sid -> Seq(Message)],
           \A s \in Sid : files'[s] \in {files[s], <<>>},
           q.via # "compact" =>
              /\ req[r].via # "compact"
              /\ q.before \subseteq req[r].before
              /\ NoSlashCompact =>
                    /\ MayAppend(r, q) \subseteq MayAppend(r, req[r])
                    /\ q.at = "append" => \A i, j \in 1 .. Len(q.out) : i # j => q.out[i] # q.out[j]
    PROVE  ReqInv'
<1>1. /\ req' \in [Request -> RequestState]
      /\ req'[r] = q /\ \A p \in Request : p # r => req'[p] = req[p]
      /\ RequestShape'
  BY OneMoves
<1>2. NoSlashCompact' => NoSlashCompact /\ q.via # "compact"
  BY <1>1 DEF NoSlashCompact
<1>3. ASSUME NoSlashCompact', NEW p \in Request
      PROVE  /\ MayAppend(p, req'[p]) \subseteq MayAppend(p, req[p])
             /\ req'[p].before \subseteq req[p].before
             /\ req'[p].at = "append" =>
                   \A i, j \in 1 .. Len(req'[p].out) : i # j => req'[p].out[i] # req'[p].out[j]
  <2>1. CASE p = r
    BY <1>1, <1>2, <1>3, <2>1
  <2>2. CASE p # r
    <3>1. req'[p] = req[p]
      BY <1>1, <2>2
    <3>2. req[p].at = "append" => \A i, j \in 1 .. Len(req[p].out) : i # j => req[p].out[i] # req[p].out[j]
      BY <1>2, <1>3 DEF ReqInv, OwnComesAfterPast
    <3>3. QED
      BY <3>1, <3>2
  <2>3. QED
    BY <2>1, <2>2
<1>4. QED
  BY <1>1, <1>2, <1>3, NothingAppended

\* Facts about what a request may append, by where it is.
LEMMA AppendFacts ==
    ASSUME NEW r \in Request, NEW q \in RequestState
    PROVE  /\ q.at \in {"new", "create", "name", "user"} => MayAppend(r, q) = {r} \X Kinds
           /\ q.at \in {"history", "turn"} => MayAppend(r, q) = {r} \X {"use", "result", "answer"}
           /\ q.at = "append" => MayAppend(r, q) = ToSet(q.out)
           /\ q.at \in {"reset", "done"} => MayAppend(r, q) = {}
  BY DEF MayAppend

\* A message that its request appends, and the request appends it no more.
LEMMA OneAppended ==
    ASSUME ReqInv, NEW r \in Request, NEW q \in RequestState,
           req' = [req EXCEPT ![r] = q],
           q.at \notin {"new", "reset"} \/ (q.at = "reset" /\ q.via = "compact"),
           q.at # "done" => q.key \in Key,
           NEW t \in Sid, NEW m \in Message,
           files' = [files EXCEPT ![t] = Append(@, m)],
           q.via = req[r].via, q.before = req[r].before,
           m \in MayAppend(r, req[r]),
           NoSlashCompact =>
              /\ MayAppend(r, q) \subseteq MayAppend(r, req[r]) /\ m \notin MayAppend(r, q)
              /\ q.at = "append" => \A i, j \in 1 .. Len(q.out) : i # j => q.out[i] # q.out[j]
    PROVE  ReqInv'
<1>1. /\ req' \in [Request -> RequestState]
      /\ req'[r] = q /\ \A p \in Request : p # r => req'[p] = req[p]
      /\ RequestShape'
  BY OneMoves
<1>2. files' \in [Sid -> Seq(Message)] /\ files[t] \in Seq(Message)
  BY DEF ReqInv
<1>3. /\ Len(files[t]) \in Nat /\ Len(files'[t]) = Len(files[t]) + 1
      /\ files'[t][Len(files[t]) + 1] = m
      /\ \A i \in 1 .. Len(files[t]) : files'[t][i] = files[t][i]
      /\ \A s \in Sid : s # t => files'[s] = files[s]
  BY <1>2 DEF ReqInv
<1> SUFFICES ASSUME NoSlashCompact' PROVE OwnComesAfterPast'
  BY <1>1, <1>2 DEF ReqInv, OwnComesAfterPast
<1>4. NoSlashCompact
  BY <1>1 DEF NoSlashCompact
<1>5. /\ \A p \in Request : Ahead(p)' \subseteq Ahead(p) /\ Ahead(p) \subseteq {p} \X Kinds
      /\ m \in Ahead(r) /\ \A p \in Request : m \notin Ahead(p)'
      /\ \A p \in Request : req'[p].before = req[p].before
  <2>1. \A p \in Request : Ahead(p) \subseteq {p} \X Kinds
    BY <1>4 DEF ReqInv, OwnComesAfterPast
  <2>2. \A p \in Request : (Ahead(p))' = MayAppend(p, req'[p]) /\ Ahead(p) = MayAppend(p, req[p])
    BY DEF Ahead
  <2>3. \A p \in Request : Ahead(p)' \subseteq Ahead(p)
    BY <1>1, <1>4, <2>2
  <2>4. m \in Ahead(r) /\ m \notin Ahead(r)'
    BY <1>1, <1>4, <2>2
  <2>5. \A p \in Request : p # r => m \notin Ahead(p)
    BY <2>1, <2>4
  <2>6. QED
    BY <1>1, <2>1, <2>3, <2>4, <2>5
<1>6. \A p \in Request : req'[p].at = "append" =>
         \A i, j \in 1 .. Len(req'[p].out) : i # j => req'[p].out[i] # req'[p].out[j]
  <2>1. \A p \in Request : req[p].at = "append" =>
           \A i, j \in 1 .. Len(req[p].out) : i # j => req[p].out[i] # req[p].out[j]
    BY <1>4 DEF ReqInv, OwnComesAfterPast
  <2>2. QED
    BY <1>1, <1>4, <2>1
<1>7. \A s \in Sid, p \in Request : \A i \in 1 .. Len(files'[s]) : files'[s][i] \notin Ahead(p)'
  <2>1. \A s \in Sid, p \in Request : \A i \in 1 .. Len(files[s]) : files[s][i] \notin Ahead(p)
    BY <1>4 DEF ReqInv, OwnComesAfterPast
  <2>2. QED
    BY <1>3, <1>5, <2>1
<1>8. \A p1, p2 \in Request : req'[p1].before \cap Ahead(p2)' = {}
  <2>1. \A p1, p2 \in Request : req[p1].before \cap Ahead(p2) = {}
    BY <1>4 DEF ReqInv, OwnComesAfterPast
  <2>2. QED
    BY <1>5, <2>1
<1>9. \A p \in Request : <<p, "user">> \notin req'[p].before
  BY <1>4, <1>5 DEF ReqInv, OwnComesAfterPast
<1>10. ASSUME NEW s \in Sid, NEW p \in Request, NEW i \in 1 .. Len(files'[s]), NEW j \in 1 .. Len(files'[s]),
              i < j, files'[s][i] = <<p, "user">>
       PROVE  files'[s][j] \notin req'[p].before
  <2>1. \A p1, p2 \in Request : req[p1].before \cap Ahead(p2) = {}
    BY <1>4 DEF ReqInv, OwnComesAfterPast
  <2>2. \A a, b \in 1 .. Len(files[s]) :
           a < b /\ files[s][a] = <<p, "user">> => files[s][b] \notin req[p].before
    BY <1>4 DEF ReqInv, OwnComesAfterPast
  <2>3. CASE s # t
    BY <1>3, <1>5, <1>10, <2>2, <2>3
  <2>4. CASE s = t
    <3>1. i \in 1 .. Len(files[t]) /\ files[t][i] = <<p, "user">>
      BY <1>3, <1>10, <2>4
    <3>2. CASE j = Len(files[t]) + 1
      BY <1>3, <1>5, <2>1, <2>4, <3>2
    <3>3. CASE j # Len(files[t]) + 1
      <4>1. j \in 1 .. Len(files[t]) /\ files'[t][j] = files[t][j]
        BY <1>3, <2>4, <3>3
      <4>2. QED
        BY <1>5, <1>10, <2>2, <2>4, <3>1, <4>1
    <3>4. QED
      BY <3>2, <3>3
  <2>5. QED
    BY <2>3, <2>4
<1>11. \A p \in Request : Ahead(p)' \subseteq {p} \X Kinds
  BY <1>5
<1>12. QED
  BY <1>6, <1>7, <1>8, <1>9, <1>10, <1>11 DEF OwnComesAfterPast

\* Where the requests go, as whole states.
LEMMA GotoState ==
    ASSUME ReqInv, NEW r \in Request, NEW at \in {"name", "user", "history", "append"}, Goto(r, at)
    PROVE  \E q \in RequestState :
              /\ req' = [req EXCEPT ![r] = q]
              /\ q.at = at /\ q.key = req[r].key /\ q.via = req[r].via
              /\ q.out = req[r].out /\ q.before = req[r].before
<1> DEFINE q == [req[r] EXCEPT !.at = at]
<1>1. req[r] \in RequestState
  BY DEF ReqInv
<1>2. /\ q \in RequestState
      /\ q.at = at /\ q.key = req[r].key /\ q.via = req[r].via
      /\ q.out = req[r].out /\ q.before = req[r].before
  BY <1>1 DEF RequestState
<1>3. req' = [req EXCEPT ![r] = q]
  BY <1>1 DEF Goto, ReqInv
<1> HIDE DEF q
<1>4. QED
  BY <1>2, <1>3

LEMMA EndState ==
    ASSUME NEW r \in Request
    PROVE  /\ Ended(r) \in RequestState
           /\ Ended(r).at = "done" /\ Ended(r).before = {}
           /\ Ended(r).via = "compact" <=> req[r].via = "compact"
<1> DEFINE v == IF req[r].via = "compact" THEN "compact" ELSE None
<1>1. v \in {"compact", None}
  OBVIOUS
<1>2. /\ Ended(r) \in RequestState
      /\ Ended(r).at = "done" /\ Ended(r).before = {} /\ Ended(r).via = v
  BY <1>1, StateFields DEF Ended, RequestState, Fresh
<1>3. None # "compact"
  BY SessionNames
<1>4. QED
  BY <1>2, <1>3

\* A request that ends appends nothing and remembers nothing.
LEMMA Ends ==
    ASSUME ReqInv, NEW r \in Request, End(r),
           files' \in [Sid -> Seq(Message)],
           \A s \in Sid : files'[s] \in {files[s], <<>>}
    PROVE  ReqInv'
<1>1. req' = [req EXCEPT ![r] = Ended(r)]
  BY DEF End
<1>2. MayAppend(r, Ended(r)) = {}
  BY EndState, AppendFacts
<1>3. QED
  BY <1>1, <1>2, EndState, QuietMove

\* A session that is reset or deleted begins with an empty transcript.
LEMMA Emptied ==
    ASSUME StoreInv, ReqInv, NEW k \in Key, Known(k), files' = [files EXCEPT ![store[k]] = <<>>]
    PROVE  /\ files' \in [Sid -> Seq(Message)]
           /\ \A s \in Sid : files'[s] \in {files[s], <<>>}
<1>1. store[k] \in Sid
  BY DEF StoreInv, Store, Known
<1>2. <<>> \in Seq(Message)
  OBVIOUS
<1>3. QED
  BY <1>1, <1>2 DEF ReqInv

\* AppendMessage, by the request that the message belongs to.
LEMMA Recorded ==
    ASSUME StoreInv, ReqInv, NEW r \in Request, NEW k \in Key, NEW q \in RequestState,
           req' = [req EXCEPT ![r] = q],
           q.at \notin {"new", "reset"} \/ (q.at = "reset" /\ q.via = "compact"),
           q.at # "done" => q.key \in Key,
           NEW m \in Message, AppendMessage(k, m),
           UNCHANGED <<store, sids, compactor, compactions, crashes>>,
           q.via = req[r].via, q.before = req[r].before,
           m \in MayAppend(r, req[r]),
           NoSlashCompact =>
              /\ MayAppend(r, q) \subseteq MayAppend(r, req[r]) /\ m \notin MayAppend(r, q)
              /\ q.at = "append" => \A i, j \in 1 .. Len(q.out) : i # j => q.out[i] # q.out[j]
    PROVE  StoreInv' /\ ReqInv'
<1>1. CASE UNCHANGED <<files, saving, disk>>
  <2>1. StoreInv'
    BY <1>1, StoreUntouched
  <2>2. files' \in [Sid -> Seq(Message)] /\ \A s \in Sid : files'[s] \in {files[s], <<>>}
    BY <1>1 DEF ReqInv
  <2>3. ReqInv'
    BY <2>2, QuietMove
  <2>4. QED
    BY <2>1, <2>3
<1>2. CASE Known(k) /\ files' = [files EXCEPT ![store[k]] = Append(@, m)] /\ BeginSave
  <2>1. StoreInv'
    BY <1>2, SaveBegins
  <2>2. store[k] \in Sid
    BY <1>2 DEF StoreInv, Store, Known
  <2>3. ReqInv'
    BY <1>2, <2>2, OneAppended
  <2>4. QED
    BY <2>1, <2>3
<1>3. QED
  BY <1>1, <1>2 DEF AppendMessage

-----------------------------------------------------------------------------
(* The actions *)

\* Nobody has said anything yet, or an earlier request has.
LEMMA FirstFiles ==
    ASSUME Init
    PROVE  /\ files \in [Sid -> Seq(Message)]
           /\ \A s \in Sid : \A i \in 1 .. Len(files[s]) : files[s][i] \in {Earlier} \X Kinds
<1>1. /\ Conversation \in Seq(Message) /\ Len(Conversation) = 2
      /\ Conversation[1] \in {Earlier} \X Kinds /\ Conversation[2] \in {Earlier} \X Kinds
  BY DEF Conversation, Message, Kinds
<1>2. <<>> \in Seq(Message) /\ Len(<<>>) = 0
  OBVIOUS
<1> HIDE DEF Conversation
<1>3. CASE files = [s \in Sid |-> <<>>]
  BY <1>2, <1>3
<1>4. CASE files = [s \in Sid |-> IF s = 1 THEN Conversation ELSE <<>>]
  <2>1. files \in [Sid -> {Conversation, <<>>}]
    BY <1>4
  <2>2. \A i \in 1 .. Len(Conversation) : Conversation[i] \in {Earlier} \X Kinds
    BY <1>1
  <2>3. \A i \in 1 .. Len(<<>>) : FALSE
    BY <1>2
  <2>4. ASSUME NEW s \in Sid
        PROVE  /\ files[s] \in Seq(Message)
               /\ \A i \in 1 .. Len(files[s]) : files[s][i] \in {Earlier} \X Kinds
    <3>1. CASE files[s] = Conversation
      BY <1>1, <2>2, <3>1
    <3>2. CASE files[s] = <<>>
      BY <1>2, <2>3, <3>2
    <3>3. QED
      BY <2>1, <3>1, <3>2
  <2>5. files \in [Sid -> Seq(Message)]
    BY <2>1, <2>4
  <2>6. QED
    BY <2>4, <2>5
<1>5. QED
  BY <1>3, <1>4 DEF Init

LEMMA Initially == Init => IInv
<1> SUFFICES ASSUME Init PROVE IInv
  OBVIOUS
<1>1. None \notin Sid /\ 1 \in Sid /\ MaxSid \in Nat /\ MaxSid > 0
  BY SessionNames, SessionBounds DEF Sid
<1>2. store \in Store /\ sids \in 0 .. MaxSid /\ Distinct(store)
  <2>1. CASE store = [k \in Key |-> None] /\ sids = 0
    BY <1>1, <2>1 DEF Store, Distinct
  <2>2. CASE sids = 1 /\ \E k \in Key : store = [l \in Key |-> IF l = k THEN 1 ELSE None]
    BY <1>1, <2>2 DEF Store, Distinct
  <2>3. QED
    BY <2>1, <2>2 DEF Init
<1>3. StoreInv
  <2> DEFINE d == [is |-> "whole", content |-> store]
  <2>1. d \in [is : {"whole", "truncated", "corrupt"}, content : Store] /\ d.content = store
    BY <1>2
  <2>2. disk = d
    BY DEF Init
  <2> HIDE DEF d
  <2>3. compactions \in 0 .. MaxCompactions /\ crashes \in 0 .. MaxCrashes
    BY SessionBounds DEF Init
  <2>4. SidsDistinct
    BY <1>2, <2>1, <2>2 DEF SidsDistinct, Init
  <2>5. SavedUnderMutex
    BY <2>1, <2>2 DEF SavedUnderMutex, Init, Loaded
  <2>6. QED
    BY <1>2, <2>1, <2>2, <2>3, <2>4, <2>5 DEF StoreInv, Init
<1>4. req \in [Request -> RequestState] /\ \A r \in Request : req[r] = Fresh
  BY StateFields DEF Init
<1>5. \A r \in Request : Ahead(r) = {r} \X Kinds
  BY <1>4, StateFields DEF Ahead, MayAppend
<1>6. OwnComesAfterPast
  <2>1. \A r \in Request : req[r].at # "append" /\ req[r].before = {}
    BY <1>4, StateFields
  <2>2. \A r \in Request : \A m \in {Earlier} \X Kinds : m \notin {r} \X Kinds
    BY SessionNames
  <2>3. QED
    BY <1>5, <2>1, <2>2, FirstFiles DEF OwnComesAfterPast
<1>7. RequestShape
  BY <1>4, StateFields DEF RequestShape
<1>8. QED
  BY <1>3, <1>4, <1>6, <1>7, FirstFiles, Parts DEF ReqInv

\* A request comes in: what the conversation holds is before its own messages.
LEMMA BeginKeeps ==
    ASSUME IInv, NEW r \in Request, NEW k \in Key, NEW via \in {"rpc", "channel"}, Begin(r, k, via)
    PROVE  IInv'
<1> DEFINE past == ToSet(Transcript(k))
           q == [req[r] EXCEPT !.at = "create", !.key = k, !.via = via, !.before = past]
<1>1. req[r] \in RequestState /\ ReqInv /\ StoreInv /\ req[r] = Fresh
  BY Parts DEF ReqInv, Begin, At, RequestShape
<1>2. /\ past \subseteq Message
      /\ \A m \in past : \E s \in Sid : \E i \in 1 .. Len(files[s]) : files[s][i] = m
  <2>1. CASE Known(k)
    <3>1. store[k] \in Sid /\ files[store[k]] \in Seq(Message)
      BY <1>1, <2>1 DEF StoreInv, ReqInv, Store, Known
    <3>2. Transcript(k) = files[store[k]]
      BY <2>1 DEF Transcript
    <3>3. past = {files[store[k]][i] : i \in 1 .. Len(files[store[k]])}
      BY <3>1, <3>2 DEF ToSet
    <3>4. QED
      BY <3>1, <3>3
  <2>2. CASE ~Known(k)
    <3>1. Transcript(k) = <<>>
      BY <2>2 DEF Transcript
    <3>2. past = {}
      BY <3>1 DEF ToSet
    <3>3. QED
      BY <3>2
  <2>3. QED
    BY <2>1, <2>2
<1> HIDE DEF past
<1>3. /\ q \in RequestState
      /\ q.at = "create" /\ q.key = k /\ q.via = via /\ q.before = past
  BY <1>1, <1>2 DEF RequestState
<1>4. req' = [req EXCEPT ![r] = q]
  BY <1>1 DEF Begin, ReqInv, past
<1> HIDE DEF q
<1>5. /\ req' \in [Request -> RequestState]
      /\ req'[r] = q /\ \A p \in Request : p # r => req'[p] = req[p]
      /\ RequestShape'
  BY <1>1, <1>3, <1>4, OneMoves
<1>6. UNCHANGED files /\ StoreInv'
  BY <1>1, StoreUntouched DEF Begin
<1>7. ASSUME NoSlashCompact' PROVE OwnComesAfterPast'
  <2>1. NoSlashCompact
    BY <1>1, <1>5, <1>7, StateFields, SessionNames DEF NoSlashCompact
  <2>2. \A p \in Request : Ahead(p)' = Ahead(p)
    BY <1>1, <1>3, <1>5, StateFields DEF Ahead, MayAppend
  <2>3. Ahead(r) = {r} \X Kinds
    BY <1>1, StateFields DEF Ahead, MayAppend
  <2>4. \A p \in Request : past \cap Ahead(p) = {}
    BY <1>1, <1>2, <2>1 DEF ReqInv, OwnComesAfterPast
  <2>5. <<r, "user">> \in Ahead(r)
    BY <2>3 DEF Kinds
  <2>6. \A s \in Sid : \A i \in 1 .. Len(files[s]) : files[s][i] # <<r, "user">>
    BY <1>1, <2>1, <2>5 DEF ReqInv, OwnComesAfterPast
  <2>7. \A p \in Request : req'[p].before = IF p = r THEN past ELSE req[p].before
    BY <1>3, <1>5
  <2>8. \A p \in Request : Ahead(p)' \subseteq {p} \X Kinds
    BY <1>1, <2>1, <2>2 DEF ReqInv, OwnComesAfterPast
  <2>9. \A p \in Request : req'[p].at = "append" =>
           \A i, j \in 1 .. Len(req'[p].out) : i # j => req'[p].out[i] # req'[p].out[j]
    BY <1>1, <1>3, <1>5, <2>1 DEF ReqInv, OwnComesAfterPast
  <2>10. \A s \in Sid, p \in Request : \A i \in 1 .. Len(files'[s]) : files'[s][i] \notin Ahead(p)'
    BY <1>1, <1>6, <2>1, <2>2 DEF ReqInv, OwnComesAfterPast
  <2>11. \A p1, p2 \in Request : req'[p1].before \cap Ahead(p2)' = {}
    BY <1>1, <2>1, <2>2, <2>4, <2>7 DEF ReqInv, OwnComesAfterPast
  <2>12. \A p \in Request : <<p, "user">> \notin req'[p].before
    BY <1>1, <2>1, <2>4, <2>5, <2>7 DEF ReqInv, OwnComesAfterPast
  <2>13. \A s \in Sid, p \in Request : \A i, j \in 1 .. Len(files'[s]) :
            i < j /\ files'[s][i] = <<p, "user">> => files'[s][j] \notin req'[p].before
    BY <1>1, <1>6, <2>1, <2>6, <2>7 DEF ReqInv, OwnComesAfterPast
  <2>14. QED
    BY <2>8, <2>9, <2>10, <2>11, <2>12, <2>13 DEF OwnComesAfterPast
<1>8. OwnComesAfterPast'
  BY <1>7 DEF OwnComesAfterPast
<1>9. ReqInv'
  BY <1>1, <1>5, <1>6, <1>8 DEF ReqInv
<1>10. QED
  BY <1>6, <1>9, Parts

\* Resetting a session, by whichever way.
LEMMA ResetKeeps ==
    ASSUME StoreInv, ReqInv, NEW k \in Key, ResetSession(k), UNCHANGED <<compactor, compactions, crashes>>
    PROVE  /\ StoreInv'
           /\ files' \in [Sid -> Seq(Message)]
           /\ \A s \in Sid : files'[s] \in {files[s], <<>>}
  BY Emptied, SessionIsNew DEF ResetSession

LEMMA SlashResetKeeps ==
    ASSUME IInv, NEW r \in Request, SlashReset(r)
    PROVE  IInv'
<1>1. StoreInv /\ ReqInv /\ req[r].key \in Key
  BY Parts DEF ReqInv, RequestShape, SlashReset, At
<1>2. QED
  BY <1>1, ResetKeeps, Ends, Parts DEF SlashReset

LEMMA FilesKept ==
    ASSUME ReqInv, UNCHANGED files
    PROVE  files' \in [Sid -> Seq(Message)] /\ \A s \in Sid : files'[s] \in {files[s], <<>>}
  BY DEF ReqInv

LEMMA SlashCompactKeeps ==
    ASSUME IInv, NEW r \in Request, SlashCompact(r)
    PROVE  IInv'
<1> DEFINE kept == GetHistory(req[r].key, Keep)
           q == [req[r] EXCEPT !.via = "compact", !.at = "reset", !.before = {}, !.out = kept]
<1>1. StoreInv /\ ReqInv /\ TypeOK /\ req[r].key \in Key /\ req[r] \in RequestState
  BY Parts DEF IInv, ReqInv, RequestShape, SlashCompact, At
<1>2. StoreInv'
  BY <1>1, StoreUntouched DEF SlashCompact
<1>3. files' \in [Sid -> Seq(Message)] /\ \A s \in Sid : files'[s] \in {files[s], <<>>}
  BY <1>1, FilesKept DEF SlashCompact
<1>4. CASE End(r)
  BY <1>1, <1>2, <1>3, <1>4, Ends, Parts
<1>5. CASE ~End(r)
  <2>1. kept \in Seq(Message)
    BY <1>1, History, SessionBounds
  <2>2. req' = [req EXCEPT ![r].via = "compact", ![r].at = "reset", ![r].before = {}, ![r].out = kept]
    BY <1>5 DEF SlashCompact
  <2> HIDE DEF kept
  <2>3. /\ q \in RequestState
        /\ q.via = "compact" /\ q.at = "reset" /\ q.key = req[r].key
    BY <1>1, <2>1 DEF RequestState
  <2>4. req' = [req EXCEPT ![r] = q]
    BY <1>1, <2>2 DEF ReqInv
  <2> HIDE DEF q
  <2>5. ReqInv'
    BY <1>1, <1>3, <2>3, <2>4, QuietMove
  <2>6. QED
    BY <1>2, <2>5, Parts
<1>6. QED
  BY <1>4, <1>5

\* A request that goes on from where it is with what it has, recording nothing.
LEMMA GoesOn ==
    ASSUME ReqInv, NEW r \in Request, NEW at \in {"name", "user", "append"}, Goto(r, at),
           \/ req[r].at = "create" /\ at = "name"
           \/ req[r].at = "name" /\ at = "user"
           \/ req[r].at = "reset" /\ at = "append" /\ req[r].via = "compact",
           files' \in [Sid -> Seq(Message)],
           \A s \in Sid : files'[s] \in {files[s], <<>>}
    PROVE  ReqInv'
<1>1. PICK q \in RequestState :
         /\ req' = [req EXCEPT ![r] = q]
         /\ q.at = at /\ q.key = req[r].key /\ q.via = req[r].via
         /\ q.out = req[r].out /\ q.before = req[r].before
  BY GotoState
<1>2. req[r] \in RequestState /\ req[r].key \in Key
  BY DEF ReqInv, RequestShape
<1>3. q.via # "compact" => MayAppend(r, q) \subseteq MayAppend(r, req[r]) /\ q.at # "append"
  BY <1>1, <1>2, AppendFacts
<1>4. q.via # "compact" => req[r].via # "compact" /\ q.before \subseteq req[r].before
  BY <1>1
<1>5. q.at \notin {"new", "reset"} /\ (q.at # "done" => q.key \in Key)
  BY <1>1, <1>2
<1>6. QED
  BY <1>1, <1>3, <1>4, <1>5, QuietMove

LEMMA CompactResetKeeps ==
    ASSUME IInv, NEW r \in Request, CompactReset(r)
    PROVE  IInv'
<1>1. /\ StoreInv /\ ReqInv /\ req[r].key \in Key
      /\ req[r].at = "reset" /\ req[r].via = "compact" /\ Goto(r, "append")
  BY Parts DEF ReqInv, RequestShape, CompactReset, At
<1>2. /\ StoreInv' /\ files' \in [Sid -> Seq(Message)]
      /\ \A s \in Sid : files'[s] \in {files[s], <<>>}
  <2>1. CASE ResetSession(req[r].key)
    BY <1>1, <2>1, ResetKeeps DEF CompactReset
  <2>2. CASE UNCHANGED <<store, disk, saving, files, sids>>
    BY <1>1, <2>2, StoreUntouched, FilesKept DEF CompactReset
  <2>3. QED
    BY <2>1, <2>2 DEF CompactReset
<1>3. ReqInv'
  BY <1>1, <1>2, GoesOn
<1>4. QED
  BY <1>2, <1>3, Parts

LEMMA CreateKeeps ==
    ASSUME IInv, NEW r \in Request, Create(r)
    PROVE  IInv'
<1>1. /\ StoreInv /\ ReqInv /\ req[r].key \in Key
      /\ req[r].at = "create" /\ Goto(r, "name") /\ UNCHANGED files
  BY Parts DEF ReqInv, RequestShape, Create, At
<1>2. StoreInv'
  BY <1>1, StoreUntouched, SessionIsNew DEF Create, GetOrCreate
<1>3. ReqInv'
  BY <1>1, GoesOn, FilesKept
<1>4. QED
  BY <1>2, <1>3, Parts

LEMMA NameKeeps ==
    ASSUME IInv, NEW r \in Request, Name(r)
    PROVE  IInv'
<1>1. /\ StoreInv /\ ReqInv /\ req[r].key \in Key
      /\ req[r].at = "name" /\ Goto(r, "user") /\ UNCHANGED files
  BY Parts DEF ReqInv, RequestShape, Name, At
<1>2. StoreInv'
  BY <1>1, StoreUntouched, SaveBegins DEF Name
<1>3. ReqInv'
  BY <1>1, GoesOn, FilesKept
<1>4. QED
  BY <1>2, <1>3, Parts

LEMMA AppendUserKeeps ==
    ASSUME IInv, NEW r \in Request, AppendUser(r)
    PROVE  IInv'
<1> DEFINE own == <<r, "user">>
<1>1. /\ StoreInv /\ ReqInv /\ req[r].key \in Key /\ req[r] \in RequestState
      /\ req[r].at = "user" /\ Goto(r, "history") /\ AppendMessage(req[r].key, own)
      /\ UNCHANGED <<store, sids, compactor, compactions, crashes>>
  BY Parts DEF ReqInv, RequestShape, AppendUser, At
<1>2. PICK q \in RequestState :
         /\ req' = [req EXCEPT ![r] = q]
         /\ q.at = "history" /\ q.key = req[r].key /\ q.via = req[r].via
         /\ q.out = req[r].out /\ q.before = req[r].before
  BY <1>1, GotoState
<1>3. /\ MayAppend(r, req[r]) = {r} \X Kinds
      /\ MayAppend(r, q) = {r} \X {"use", "result", "answer"}
  BY <1>1, <1>2, AppendFacts
<1>4. /\ own \in Message /\ own \in {r} \X Kinds /\ own \notin {r} \X {"use", "result", "answer"}
      /\ {r} \X {"use", "result", "answer"} \subseteq {r} \X Kinds
  BY DEF Message, Kinds
<1> HIDE DEF own
<1>5. q.at \notin {"new", "reset", "append"} /\ (q.at # "done" => q.key \in Key)
  BY <1>1, <1>2
<1>6. StoreInv' /\ ReqInv'
  BY <1>1, <1>2, <1>3, <1>4, <1>5, Recorded
<1>7. QED
  BY <1>6, Parts

LEMMA ReadHistoryKeeps ==
    ASSUME IInv, NEW r \in Request, ReadHistory(r)
    PROVE  IInv'
<1> DEFINE h == WithoutOwn(req[r].via, GetHistory(req[r].key, Window))
           q == [req[r] EXCEPT !.at = "turn", !.before = {}, !.hist = h]
<1>1. /\ StoreInv /\ ReqInv /\ TypeOK /\ req[r].key \in Key /\ req[r] \in RequestState
      /\ req[r].at = "history" /\ UNCHANGED files
  BY Parts DEF IInv, ReqInv, RequestShape, ReadHistory, At
<1>2. StoreInv'
  BY <1>1, StoreUntouched DEF ReadHistory
<1>3. h \in Seq(Message)
  BY <1>1, History, WithoutOwnKeeps, SessionBounds
<1>4. req' = [req EXCEPT ![r].at = "turn", ![r].before = {}, ![r].hist = h]
  BY DEF ReadHistory
<1> HIDE DEF h
<1>5. /\ q \in RequestState
      /\ q.at = "turn" /\ q.before = {} /\ q.key = req[r].key /\ q.via = req[r].via
  BY <1>1, <1>3 DEF RequestState
<1>6. req' = [req EXCEPT ![r] = q]
  BY <1>1, <1>4 DEF ReqInv
<1> HIDE DEF q
<1>7. MayAppend(r, q) = MayAppend(r, req[r])
  BY <1>1, <1>5, AppendFacts
<1>8. ReqInv'
  BY <1>1, <1>5, <1>6, <1>7, QuietMove, FilesKept
<1>9. QED
  BY <1>2, <1>8, Parts

LEMMA TurnKeeps ==
    ASSUME IInv, NEW r \in Request, Turn(r)
    PROVE  IInv'
<1>1. /\ StoreInv /\ ReqInv /\ req[r].key \in Key /\ req[r] \in RequestState
      /\ req[r].at = "turn" /\ UNCHANGED files
  BY Parts DEF ReqInv, RequestShape, Turn, At
<1>2. StoreInv'
  BY <1>1, StoreUntouched DEF Turn
<1>3. CASE End(r)
  BY <1>1, <1>2, <1>3, Ends, FilesKept, Parts
<1>4. CASE ~End(r)
  <2>1. PICK out \in Replies(r) :
           req' = [req EXCEPT ![r].at = "append", ![r].out = out, ![r].hist = <<>>]
    BY <1>4 DEF Turn
  <2> DEFINE q == [req[r] EXCEPT !.at = "append", !.out = out, !.hist = <<>>]
  <2>2. <<>> \in Seq(Message)
    OBVIOUS
  <2>3. /\ q \in RequestState
        /\ q.at = "append" /\ q.out = out /\ q.key = req[r].key /\ q.via = req[r].via
        /\ q.before = req[r].before
    BY <1>1, <2>2, ReplyFacts DEF RequestState
  <2>4. req' = [req EXCEPT ![r] = q]
    BY <1>1, <2>1 DEF ReqInv
  <2> HIDE DEF q
  <2>5. /\ MayAppend(r, req[r]) = {r} \X {"use", "result", "answer"}
        /\ MayAppend(r, q) = ToSet(out)
    BY <1>1, <2>3, AppendFacts
  <2>6. /\ MayAppend(r, q) \subseteq MayAppend(r, req[r])
        /\ \A i, j \in 1 .. Len(q.out) : i # j => q.out[i] # q.out[j]
    BY <2>3, <2>5, ReplyFacts
  <2>7. q.at \notin {"new", "reset"} /\ q.key \in Key
    BY <1>1, <2>3
  <2>8. ReqInv'
    BY <1>1, <2>3, <2>4, <2>6, <2>7, QuietMove, FilesKept
  <2>9. QED
    BY <1>2, <2>8, Parts
<1>5. QED
  BY <1>3, <1>4

\* The head of a sequence without repetitions is not in its tail.
LEMMA HeadAndTail ==
    ASSUME NEW out \in Seq(Message), out # <<>>
    PROVE  /\ Head(out) \in Message /\ Tail(out) \in Seq(Message)
           /\ Head(out) \in ToSet(out) /\ ToSet(Tail(out)) \subseteq ToSet(out)
           /\ (\A i, j \in 1 .. Len(out) : i # j => out[i] # out[j]) =>
                 /\ Head(out) \notin ToSet(Tail(out))
                 /\ \A i, j \in 1 .. Len(Tail(out)) : i # j => Tail(out)[i] # Tail(out)[j]
<1>1. /\ Head(out) \in Message /\ Tail(out) \in Seq(Message)
      /\ Len(Tail(out)) = Len(out) - 1
      /\ \A i \in 1 .. Len(Tail(out)) : Tail(out)[i] = out[i + 1]
  BY HeadTailProperties
<1>2. Len(out) \in Nat /\ Len(out) >= 1 /\ Head(out) = out[1]
  BY EmptySeq
<1> DEFINE t == Tail(out)
<1>3. /\ \A i \in 1 .. Len(t) : t[i] = out[i + 1] /\ i + 1 \in 1 .. Len(out) /\ i + 1 # 1
      /\ 1 \in 1 .. Len(out)
  BY <1>1, <1>2
<1>4. /\ ToSet(t) = {t[i] : i \in 1 .. Len(t)}
      /\ ToSet(out) = {out[i] : i \in 1 .. Len(out)}
  <2>1. DOMAIN t = 1 .. Len(t) /\ DOMAIN out = 1 .. Len(out)
    BY <1>1
  <2> HIDE DEF t
  <2>2. QED
    BY <2>1 DEF ToSet
<1> HIDE DEF t
<1>5. ToSet(t) \subseteq ToSet(out) /\ Head(out) \in ToSet(out)
  BY <1>2, <1>3, <1>4
<1>6. ASSUME \A i, j \in 1 .. Len(out) : i # j => out[i] # out[j]
      PROVE  Head(out) \notin ToSet(t) /\ \A i, j \in 1 .. Len(t) : i # j => t[i] # t[j]
  <2>1. \A i, j \in 1 .. Len(t) : i # j => i + 1 # j + 1
    OBVIOUS
  <2>2. QED
    BY <1>2, <1>3, <1>4, <1>6, <2>1
<1>7. QED
  BY <1>1, <1>5, <1>6 DEF t

LEMMA AppendReplyKeeps ==
    ASSUME IInv, NEW r \in Request, AppendReply(r)
    PROVE  IInv'
<1>1. /\ StoreInv /\ ReqInv /\ req[r].key \in Key /\ req[r] \in RequestState
      /\ req[r].at = "append" /\ req[r].out \in Seq(Message)
      /\ UNCHANGED <<store, sids, compactor, compactions, crashes>>
  BY Parts, StateFields DEF ReqInv, RequestShape, AppendReply, At
<1>2. CASE req[r].out = <<>>
  <2>1. End(r) /\ UNCHANGED <<files, saving, disk>>
    BY <1>2 DEF AppendReply
  <2>2. QED
    BY <1>1, <2>1, StoreUntouched, Ends, FilesKept, Parts
<1>3. CASE req[r].out # <<>>
  <2> DEFINE out == req[r].out
             q == [req[r] EXCEPT !.out = Tail(out)]
  <2>1. AppendMessage(req[r].key, Head(out)) /\ req' = [req EXCEPT ![r].out = Tail(@)]
    BY <1>3 DEF AppendReply
  <2>2. Tail(out) \in Seq(Message) /\ Head(out) \in Message
    BY <1>1, <1>3, HeadAndTail
  <2>3. /\ q \in RequestState
        /\ q.at = "append" /\ q.out = Tail(out) /\ q.key = req[r].key /\ q.via = req[r].via
        /\ q.before = req[r].before
    BY <1>1, <2>2 DEF RequestState
  <2>4. req' = [req EXCEPT ![r] = q]
    BY <1>1, <2>1 DEF ReqInv
  <2> HIDE DEF q
  <2>5. MayAppend(r, req[r]) = ToSet(out) /\ MayAppend(r, q) = ToSet(Tail(out))
    BY <1>1, <2>3, AppendFacts
  <2>6. NoSlashCompact => \A i, j \in 1 .. Len(out) : i # j => out[i] # out[j]
    BY <1>1 DEF ReqInv, OwnComesAfterPast
  <2> HIDE DEF out
  <2>7. out \in Seq(Message) /\ out # <<>>
    BY <1>1, <1>3 DEF out
  <2>8. /\ Head(out) \in MayAppend(r, req[r])
        /\ NoSlashCompact =>
              /\ MayAppend(r, q) \subseteq MayAppend(r, req[r]) /\ Head(out) \notin MayAppend(r, q)
              /\ \A i, j \in 1 .. Len(q.out) : i # j => q.out[i] # q.out[j]
    BY <2>3, <2>5, <2>6, <2>7, HeadAndTail
  <2>9. q.at \notin {"new", "reset"} /\ q.key \in Key
    BY <1>1, <2>3
  <2>10. StoreInv' /\ ReqInv'
    BY <1>1, <2>1, <2>2, <2>3, <2>4, <2>8, <2>9, Recorded
  <2>11. QED
    BY <2>10, Parts
<1>4. QED
  BY <1>2, <1>3

LEMMA CrashKeeps ==
    ASSUME IInv, Crash
    PROVE  IInv'
<1>1. StoreInv /\ ReqInv /\ StoreInv' /\ UNCHANGED files
  BY Parts, StoreRestarts DEF Crash
<1>2. req' \in [Request -> RequestState]
  BY <1>1, EndState DEF ReqInv, Crash
<1>3. \A r \in Request : req'[r] = IF req[r].at = "new" THEN req[r] ELSE Ended(r)
  BY DEF Crash
<1>4. RequestShape'
  BY <1>1, <1>3, EndState DEF ReqInv, RequestShape
<1>5. NoSlashCompact' => NoSlashCompact
  BY <1>3, EndState DEF NoSlashCompact
<1>6. \A r \in Request :
         /\ MayAppend(r, req'[r]) \subseteq MayAppend(r, req[r])
         /\ req'[r].before \subseteq req[r].before
         /\ req'[r].at # "append"
  <2>1. \A r \in Request : MayAppend(r, Ended(r)) = {}
    BY EndState, AppendFacts
  <2>2. QED
    BY <1>3, <2>1, EndState
<1>7. QED
  BY <1>1, <1>2, <1>4, <1>5, <1>6, FilesKept, NothingAppended, Parts

LEMMA ResetDeleteKeep ==
    ASSUME IInv, NEW k \in Key, Reset(k) \/ Delete(k)
    PROVE  IInv'
<1>1. /\ StoreInv /\ ReqInv /\ UNCHANGED req
      /\ UNCHANGED <<compactor, compactions, crashes>>
  BY Parts DEF Reset, Delete
<1>2. /\ StoreInv' /\ files' \in [Sid -> Seq(Message)]
      /\ \A s \in Sid : files'[s] \in {files[s], <<>>}
  BY <1>1, ResetKeeps, SessionGoes, Emptied DEF Reset, Delete, DeleteSession
<1>3. req' \in [Request -> RequestState] /\ RequestShape'
  BY <1>1 DEF ReqInv, RequestShape
<1>4. NoSlashCompact' =>
         /\ NoSlashCompact
         /\ \A r \in Request :
               req[r].at = "append" => \A i, j \in 1 .. Len(req[r].out) : i # j => req[r].out[i] # req[r].out[j]
  BY <1>1 DEF ReqInv, OwnComesAfterPast, NoSlashCompact
<1>5. \A r \in Request : req'[r] = req[r]
  BY <1>1
<1>6. \A r \in Request : MayAppend(r, req'[r]) \subseteq MayAppend(r, req[r]) /\ req'[r].before \subseteq req[r].before
  BY <1>5
<1>7. NoSlashCompact' => \A r \in Request : req'[r].at = "append" =>
         \A i, j \in 1 .. Len(req'[r].out) : i # j => req'[r].out[i] # req'[r].out[j]
  BY <1>4, <1>5
<1>8. ReqInv'
  BY <1>1, <1>2, <1>3, <1>4, <1>6, <1>7, NothingAppended
<1>9. QED
  BY <1>2, <1>8, Parts

LEMMA RequestStepKeeps ==
    ASSUME IInv, NEW r \in Request, RequestStep(r)
    PROVE  IInv'
  BY SlashResetKeeps, SlashCompactKeeps, CompactResetKeeps, CreateKeeps, NameKeeps,
     AppendUserKeeps, ReadHistoryKeeps, TurnKeeps, AppendReplyKeeps DEF RequestStep

LEMMA Inductive == IInv /\ [Next]_vars => IInv'
<1> SUFFICES ASSUME IInv, [Next]_vars PROVE IInv'
  OBVIOUS
<1>1. StoreInv /\ ReqInv
  BY Parts
<1>2. CASE UNCHANGED vars
  BY <1>1, <1>2, StoreUntouched, RequestsUntouched, Parts DEF vars
<1>3. CASE EndSave
  BY <1>1, <1>3, SaveEnds, RequestsUntouched, Parts DEF EndSave
<1>4. CASE CompactSaves
  BY <1>1, <1>4, CompactSaved, RequestsUntouched, Parts DEF CompactSaves
<1>5. CASE Crash
  BY <1>5, CrashKeeps
<1>6. CASE \E r \in Request : RequestStep(r)
  BY <1>6, RequestStepKeeps
<1>7. CASE \E r \in Request, k \in Key, via \in {"rpc", "channel"} : Begin(r, k, via)
  BY <1>7, BeginKeeps
<1>8. CASE \E k \in Key : Reset(k) \/ Delete(k) \/ Compact(k)
  <2>1. PICK k \in Key : Reset(k) \/ Delete(k) \/ Compact(k)
    BY <1>8
  <2>2. CASE Compact(k)
    BY <1>1, <2>2, CompactCounts, RequestsUntouched, Parts DEF Compact
  <2>3. QED
    BY <2>1, <2>2, ResetDeleteKeep
<1>9. QED
  BY <1>2, <1>3, <1>4, <1>5, <1>6, <1>7, <1>8 DEF Next

\* The strengthening is an invariant of the specification.
LEMMA Invariant == Spec => []IInv
<1>1. QED
  BY Initially, Inductive, PTL DEF Spec

-----------------------------------------------------------------------------
(* The theorems *)

\* Type correctness of the sessions, their file, their transcripts and every
\* request's locals.
THEOREM Typed == Spec => []TypeOK
<1>1. IInv => TypeOK
  BY DEF IInv
<1>2. QED
  BY <1>1, Invariant, PTL

\* No session identifier is in use twice and none is generated again, not in
\* memory, not in the file a restart would read, and not in what sessions.compact
\* is about to write behind the mutex: two conversations never share a transcript.
THEOREM SidsDistinctAlways == Spec => []SidsDistinct
<1>1. IInv => SidsDistinct
  BY DEF IInv
<1>2. QED
  BY <1>1, Invariant, PTL

\* sessions.json says what the manager knows whenever the mutex is free, as long
\* as sessions.compact, which saves without the mutex, was not called.
THEOREM StoreDurableAlways == Spec => []StoreDurable
<1>1. IInv => StoreDurable
  BY DEF IInv, SavedUnderMutex, StoreDurable, Unlocked
<1>2. QED
  BY <1>1, Invariant, PTL

\* A step that takes a request from its history to its turn reads the history.
LEMMA OnlyByReading ==
    ASSUME IInv, [Next]_vars, NEW r \in Request, req[r].at = "history", req'[r].at = "turn"
    PROVE  ReadHistory(r)
<1>1. req \in [Request -> RequestState] /\ req[r] \in RequestState
  BY DEF IInv, TypeOK
<1>2. ~UNCHANGED req
  OBVIOUS
<1>3. CASE Crash
  BY <1>3, EndState DEF Crash
<1>4. ASSUME NEW p \in Request, p # r,
             \/ RequestStep(p)
             \/ \E k \in Key, via \in {"rpc", "channel"} : Begin(p, k, via)
      PROVE  req'[r] = req[r]
  <2>1. CASE \E k \in Key, via \in {"rpc", "channel"} : Begin(p, k, via)
    BY <1>1, <1>4, <2>1 DEF Begin
  <2>2. CASE SlashReset(p) \/ SlashCompact(p) \/ CompactReset(p) \/ Create(p) \/ Name(p)
    BY <1>1, <1>4, <2>2 DEF SlashReset, SlashCompact, CompactReset, Create, Name, End, Goto
  <2>3. CASE AppendUser(p) \/ ReadHistory(p) \/ Turn(p) \/ AppendReply(p)
    BY <1>1, <1>4, <2>3 DEF AppendUser, ReadHistory, Turn, AppendReply, End, Goto
  <2>4. QED
    BY <1>4, <2>1, <2>2, <2>3 DEF RequestStep
<1>5. CASE RequestStep(r)
  BY <1>5 DEF RequestStep, SlashReset, SlashCompact, CompactReset, Create, Name, AppendUser,
     Turn, AppendReply, At
<1>6. CASE \E k \in Key, via \in {"rpc", "channel"} : Begin(r, k, via)
  BY <1>6 DEF Begin, At
<1>7. ~UNCHANGED vars /\ ~EndSave /\ ~CompactSaves
  BY <1>2 DEF vars, EndSave, CompactSaves
<1>8. ~(\E k \in Key : Reset(k) \/ Delete(k) \/ Compact(k))
  BY <1>2 DEF Reset, Delete, Compact
<1>9. QED
  BY <1>3, <1>4, <1>5, <1>6, <1>7, <1>8 DEF Next

\* The last message of a conversation that holds the request's own is not one
\* that the conversation held when the request came in.
LEMMA LastIsNew ==
    ASSUME IInv, NEW r \in Request, NEW k \in Key, NoSlashCompact,
           <<r, "user">> \in ToSet(Transcript(k))
    PROVE  /\ Transcript(k) # <<>>
           /\ Transcript(k)[Len(Transcript(k))] \notin req[r].before
<1>1. Known(k)
  <2>1. ToSet(<<>>) = {}
    BY DEF ToSet
  <2>2. QED
    BY <2>1 DEF Transcript
<1>2. store[k] \in Sid /\ files[store[k]] \in Seq(Message)
  BY <1>1 DEF IInv, TypeOK, Store, Known
<1> DEFINE s == store[k]
           f == files[s]
<1>3. Transcript(k) = f
  BY <1>1 DEF Transcript
<1>4. DOMAIN f = 1 .. Len(f)
  BY <1>2
<1>5. PICK i \in 1 .. Len(f) : f[i] = <<r, "user">>
  BY <1>3, <1>4 DEF ToSet
<1>6. /\ <<r, "user">> \notin req[r].before
      /\ \A a, b \in 1 .. Len(f) : a < b /\ f[a] = <<r, "user">> => f[b] \notin req[r].before
  BY <1>2 DEF IInv, OwnComesAfterPast
<1>7. Len(f) \in Nat /\ Len(f) \in 1 .. Len(f) /\ (i = Len(f) \/ i < Len(f))
  BY <1>2, <1>5
<1>8. f # <<>>
  BY <1>5
<1> HIDE DEF f
<1>9. f[Len(f)] \notin req[r].before
  BY <1>5, <1>6, <1>7
<1>10. QED
  BY <1>3, <1>8, <1>9

\* The history a turn gets holds what was said before its request came in,
\* whatever the other requests append meanwhile and whichever message the
\* handlers take for the request's own.
THEOREM PastIsRememberedAlways == Spec => PastIsRemembered
<1>1. ASSUME IInv, [Next]_vars, NEW r \in Request,
             At(r, "history"), req'[r].at = "turn",
             <<r, "user">> \in ToSet(Transcript(req[r].key)),
             \A q \in Request : req[q].via # "compact"
      PROVE  ToSet(GetHistory(req[r].key, Window)) \cap req[r].before \subseteq ToSet(req'[r].hist)
  <2> DEFINE k == req[r].key
             h == GetHistory(k, Window)
  <2>1. TypeOK /\ k \in Key /\ req[r].at = "history" /\ Window \in Nat /\ Window > 0
    BY <1>1, SessionBounds DEF IInv, RequestShape, At
  <2>2. ReadHistory(r)
    BY <1>1, <2>1, OnlyByReading
  <2>3. req'[r].hist = WithoutOwn(req[r].via, h)
    BY <2>1, <2>2 DEF ReadHistory, TypeOK, RequestState
  <2>4. Transcript(k) # <<>> /\ Transcript(k)[Len(Transcript(k))] \notin req[r].before
    BY <1>1, <2>1, LastIsNew DEF NoSlashCompact
  <2>5. h \in Seq(Message) /\ Last(h) \notin req[r].before
    BY <2>1, <2>4, History
  <2> HIDE DEF h
  <2>6. ToSet(h) = {h[i] : i \in 1 .. Len(h)}
    <3>1. DOMAIN h = 1 .. Len(h)
      BY <2>5
    <3>2. QED
      BY <3>1 DEF ToSet
  <2>7. \A m \in ToSet(h) \cap req[r].before : m \in ToSet(WithoutOwn(req[r].via, h))
    BY <2>5, <2>6, WithoutOwnKeeps
  <2>8. QED
    BY <2>3, <2>7 DEF h
<1>2. IInv /\ [Next]_vars =>
        \A r \in Request :
          /\ At(r, "history") /\ req'[r].at = "turn"
          /\ <<r, "user">> \in ToSet(Transcript(req[r].key))
          /\ \A q \in Request : req[q].via # "compact"
          => ToSet(GetHistory(req[r].key, Window)) \cap req[r].before \subseteq ToSet(req'[r].hist)
  BY <1>1
<1>3. QED
  BY <1>2, Invariant, PTL DEF Spec, PastIsRemembered
=============================================================================
