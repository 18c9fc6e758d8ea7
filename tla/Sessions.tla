------------------------------ MODULE Sessions ------------------------------
(***************************************************************************)
(* Sessions and their transcripts (session/session_manager.cpp) under the  *)
(* requests that use them: execute_agent_request of the RPC handlers, the  *)
(* same sequence in the HTTP routes, and the channel and queue handlers of *)
(* gateway_commands.cpp, with sessions.reset, sessions.delete,             *)
(* sessions.compact and crashes of the process at any point.               *)
(*                                                                         *)
(* A step is one critical section of SessionManager::mutex_.  SaveStore    *)
(* truncates sessions.json and then writes it: `saving' says that the      *)
(* mutex is held in between.  IncrementCompactionCount alone saves after   *)
(* it has released the mutex.  A store is the function from session keys   *)
(* to session identifiers; the other fields of an entry are not read back  *)
(* by anything modelled here.                                              *)
(***************************************************************************)
EXTENDS Naturals, SequencesExt

CONSTANTS
    Key,            \* session keys, normalized
    Request,        \* the requests made
    Earlier,        \* a request answered before
    Window,         \* max_messages of GetHistory (50)
    Keep,           \* what /compact keeps (20)
    MaxSid,         \* bound: session identifiers generated
    MaxCompactions, \* bound: calls of sessions.compact
    MaxCrashes,     \* bound
    None

ASSUME SessionBounds ==
    /\ {Window, Keep, MaxSid, MaxCompactions, MaxCrashes} \subseteq Nat
    /\ Window > 0 /\ MaxSid > 0
ASSUME SessionNames ==
    /\ Earlier \notin Request
    /\ None \notin 1 .. MaxSid /\ None \notin Key
    /\ None \notin {"rpc", "channel", "compact"}

VARIABLES
    store,          \* store_: key -> session identifier, or None
    disk,           \* sessions.json: its state and the store it holds
    saving,         \* a thread holds mutex_ inside SaveStore
    files,          \* the transcripts, by session identifier
    sids,           \* session identifiers generated so far
    req,            \* per request: where its thread is, and its locals
    compactor,      \* the thread of a sessions.compact: None, or its position
    compactions, crashes

vars == <<store, disk, saving, files, sids, req, compactor, compactions, crashes>>

Sid == 1 .. MaxSid
Kinds == {"user", "use", "result", "answer"}
Message == (Request \cup {Earlier}) \X Kinds

\* Tool results are messages of the role user.
Role(m) == IF m[2] \in {"user", "result"} THEN "user" ELSE "assistant"

\* What a turn hands back, with or without a tool call; a streaming turn whose
\* provider fails after the tools ran hands back what there is.
Replies(r) ==
    LET use == <<r, "use">> result == <<r, "result">> answer == <<r, "answer">> IN
    {<<answer>>, <<use, result, answer>>, <<use, result>>}

\* A store without sessions, or with one that has been used.
Conversation == <<<<Earlier, "user">>, <<Earlier, "answer">>>>

Fresh == [at |-> "new", key |-> None, via |-> None, out |-> <<>>, before |-> {}, hist |-> <<>>]

Init ==
    /\ \/ /\ store = [k \in Key |-> None]
          /\ files = [s \in Sid |-> <<>>]
          /\ sids = 0
       \/ /\ \E k \in Key : store = [l \in Key |-> IF l = k THEN 1 ELSE None]
          /\ files = [s \in Sid |-> IF s = 1 THEN Conversation ELSE <<>>]
          /\ sids = 1
    /\ disk = [is |-> "whole", content |-> store]
    /\ saving = FALSE
    /\ req = [r \in Request |-> Fresh]
    /\ compactor = None
    /\ compactions = 0 /\ crashes = 0

-----------------------------------------------------------------------------
(* SessionManager *)

Known(k) == store[k] # None
Transcript(k) == IF Known(k) THEN files[store[k]] ELSE <<>>

\* mutex_ is free.
Unlocked == ~saving

Nothing == [k \in Key |-> None]
Truncated == [is |-> "truncated", content |-> Nothing]

\* SaveStore: the file is opened, and written in a step of its own.
BeginSave == saving' = TRUE /\ disk' = Truncated

\* Two saves at once write over each other: the later content may be left with
\* the end of a longer one behind it.
Written(content) ==
    \/ disk' = [is |-> "whole", content |-> content]
    \/ disk # Truncated /\ disk' = [is |-> "corrupt", content |-> Nothing]

EndSave ==
    /\ saving
    /\ saving' = FALSE
    /\ Written(store)
    /\ UNCHANGED <<store, files, sids, req, compactor, compactions, crashes>>

\* LoadStore: what does not parse is an empty store.
Loaded == disk.content

\* Mutation: identifiers are counted from the sessions there are.
NewSessionCounted(k) ==
    /\ sids < MaxSid
    /\ sids' = Cardinality({l \in Key : Known(l)})
    /\ store' = [store EXCEPT ![k] = sids + 1]
    /\ BeginSave
NewSession(k) ==
    /\ sids < MaxSid
    /\ sids' = sids + 1
    /\ store' = [store EXCEPT ![k] = sids + 1]
    /\ BeginSave

GetOrCreate(k) ==
    IF Known(k) THEN UNCHANGED <<store, sids, saving, disk>> ELSE NewSession(k)

\* Without an entry, or if the transcript cannot be opened, the message is lost.
AppendMessage(k, m) ==
    \/ UNCHANGED <<files, saving, disk>>
    \/ /\ Known(k)
       /\ files' = [files EXCEPT ![store[k]] = Append(@, m)]
       /\ BeginSave

GetHistory(k, n) ==
    LET f == Transcript(k) IN IF Len(f) > n THEN SubSeq(f, Len(f) - n + 1, Len(f)) ELSE f

\* Mutation: the new identifier is not saved.
ResetUnsaved(k) ==
    /\ Known(k) /\ sids < MaxSid
    /\ files' = [files EXCEPT ![store[k]] = <<>>]
    /\ sids' = sids + 1
    /\ store' = [store EXCEPT ![k] = sids + 1]
    /\ UNCHANGED <<saving, disk>>
\* The transcript is archived under another name and a new one begun.
ResetSession(k) ==
    /\ Known(k)
    /\ files' = [files EXCEPT ![store[k]] = <<>>]
    /\ NewSession(k)

DeleteSession(k) ==
    /\ Known(k)
    /\ files' = [files EXCEPT ![store[k]] = <<>>]
    /\ store' = [store EXCEPT ![k] = None]
    /\ BeginSave
    /\ UNCHANGED sids

-----------------------------------------------------------------------------
(* The requests *)

Goto(r, at) == req' = [req EXCEPT ![r].at = at]
Ended(r) == [Fresh EXCEPT !.at = "done", !.via = IF req[r].via = "compact" THEN "compact" ELSE None]
End(r) == req' = [req EXCEPT ![r] = Ended(r)]
At(r, at) == Unlocked /\ req[r].at = at

\* `before' is what the conversation holds when the request comes in.
Begin(r, k, via) ==
    /\ At(r, "new")
    /\ req' = [req EXCEPT ![r].at = "create", ![r].key = k, ![r].via = via,
                          ![r].before = ToSet(Transcript(k))]
    /\ UNCHANGED <<store, disk, saving, files, sids, compactor, compactions, crashes>>

\* Slash commands are recognised by the RPC handlers only.
SlashReset(r) ==
    /\ At(r, "create") /\ req[r].via = "rpc"
    /\ ResetSession(req[r].key) /\ End(r)
    /\ UNCHANGED <<compactor, compactions, crashes>>

\* /compact reads the history, resets the session, and appends what it keeps.
SlashCompact(r) ==
    /\ At(r, "create") /\ req[r].via = "rpc"
    /\ LET all == Transcript(req[r].key) IN
          IF Len(all) > Keep
          THEN req' = [req EXCEPT ![r].via = "compact", ![r].at = "reset", ![r].before = {},
                                  ![r].out = GetHistory(req[r].key, Keep)]
          ELSE End(r)
    /\ UNCHANGED <<store, disk, saving, files, sids, compactor, compactions, crashes>>

CompactReset(r) ==
    /\ At(r, "reset")
    /\ \/ ResetSession(req[r].key)
       \/ ~Known(req[r].key) /\ UNCHANGED <<store, disk, saving, files, sids>>
    /\ Goto(r, "append")
    /\ UNCHANGED <<compactor, compactions, crashes>>

Create(r) ==
    /\ At(r, "create")
    /\ GetOrCreate(req[r].key)
    /\ Goto(r, "name")
    /\ UNCHANGED <<files, compactor, compactions, crashes>>

\* UpdateDisplayName, of a session that has no name yet.
Name(r) ==
    /\ At(r, "name")
    /\ Goto(r, "user")
    /\ \/ Known(req[r].key) /\ BeginSave
       \/ UNCHANGED <<saving, disk>>
    /\ UNCHANGED <<store, files, sids, compactor, compactions, crashes>>

AppendUser(r) ==
    /\ At(r, "user")
    /\ AppendMessage(req[r].key, <<r, "user">>)
    /\ Goto(r, "history")
    /\ UNCHANGED <<store, sids, compactor, compactions, crashes>>

DropLast(s) == IF s = <<>> THEN s ELSE Front(s)

\* Mutation: an unanswered message before it is removed as well.
WithoutUnanswered(via, s) ==
    IF Len(s) > 1 /\ Role(Last(s)) = "user" /\ Role(Last(Front(s))) = "user"
    THEN DropLast(DropLast(s)) ELSE DropLast(s)
\* The last message is taken for the request's own: by the RPC handlers always,
\* by the channels if it is a user's.
WithoutOwn(via, s) ==
    IF via = "rpc" \/ (s # <<>> /\ Role(Last(s)) = "user") THEN DropLast(s) ELSE s

ReadHistory(r) ==
    /\ At(r, "history")
    /\ req' = [req EXCEPT ![r].at = "turn", ![r].before = {},
                          ![r].hist = WithoutOwn(req[r].via, GetHistory(req[r].key, Window))]
    /\ UNCHANGED <<store, disk, saving, files, sids, compactor, compactions, crashes>>

\* ProcessMessage(Stream) returns its messages, or throws and returns none.
Turn(r) ==
    /\ At(r, "turn")
    /\ \/ \E out \in Replies(r) :
             req' = [req EXCEPT ![r].at = "append", ![r].out = out, ![r].hist = <<>>]
       \/ End(r)
    /\ UNCHANGED <<store, disk, saving, files, sids, compactor, compactions, crashes>>

AppendReply(r) ==
    /\ At(r, "append")
    /\ \/ /\ req[r].out # <<>>
          /\ AppendMessage(req[r].key, Head(req[r].out))
          /\ req' = [req EXCEPT ![r].out = Tail(@)]
       \/ req[r].out = <<>> /\ End(r) /\ UNCHANGED <<files, saving, disk>>
    /\ UNCHANGED <<store, sids, compactor, compactions, crashes>>

-----------------------------------------------------------------------------
(* Other RPC methods *)

Reset(k) ==
    /\ Unlocked
    /\ ResetSession(k)
    /\ UNCHANGED <<req, compactor, compactions, crashes>>

Delete(k) ==
    /\ Unlocked
    /\ DeleteSession(k)
    /\ UNCHANGED <<req, compactor, compactions, crashes>>

\* sessions.compact counts under the mutex (its truncated history is returned to
\* nobody) ...
Compact(k) ==
    /\ Unlocked /\ Known(k)
    /\ compactor = None
    /\ compactions < MaxCompactions
    /\ compactions' = compactions + 1
    /\ compactor' = [at |-> "read", content |-> None]
    /\ UNCHANGED <<store, disk, saving, files, sids, req, crashes>>

\* ... and saves without it.
CompactSaves ==
    /\ compactor # None
    /\ \/ /\ compactor.at = "read"
          /\ compactor' = [at |-> "write", content |-> store]
          /\ disk' = Truncated
       \/ /\ compactor.at = "write"
          /\ compactor' = None
          /\ Written(compactor.content)
    /\ UNCHANGED <<store, saving, files, sids, req, compactions, crashes>>

\* The process dies and starts again.  Nobody answers the requests it worked on.
Crash ==
    /\ crashes < MaxCrashes
    /\ crashes' = crashes + 1
    /\ store' = Loaded
    /\ saving' = FALSE
    /\ compactor' = None
    /\ req' = [r \in Request |-> IF req[r].at = "new" THEN req[r] ELSE Ended(r)]
    /\ UNCHANGED <<disk, files, sids, compactions>>

RequestStep(r) ==
    \/ SlashReset(r) \/ SlashCompact(r) \/ CompactReset(r)
    \/ Create(r) \/ Name(r) \/ AppendUser(r) \/ ReadHistory(r) \/ Turn(r) \/ AppendReply(r)

Next ==
    \/ EndSave \/ CompactSaves \/ Crash
    \/ \E r \in Request : RequestStep(r)
    \/ \E r \in Request, k \in Key, via \in {"rpc", "channel"} : Begin(r, k, via)
    \/ \E k \in Key : Reset(k) \/ Delete(k) \/ Compact(k)

Spec == Init /\ [][Next]_vars

\* For TLC: requests and session keys are interchangeable.
Symmetry == Permutations(Request) \cup Permutations(Key)

-----------------------------------------------------------------------------
(* Properties *)

Store == [Key -> Sid \cup {None}]
RequestState ==
    [at : {"new", "create", "reset", "name", "user", "history", "turn", "append", "done"},
     key : Key \cup {None}, via : {"rpc", "channel", "compact", None},
     out : Seq(Message), before : SUBSET Message, hist : Seq(Message)]

\* Every variable keeps its type.
TypeOK ==
    /\ store \in Store
    /\ disk \in [is : {"whole", "truncated", "corrupt"}, content : Store]
    /\ saving \in BOOLEAN
    /\ files \in [Sid -> Seq(Message)]
    /\ sids \in 0 .. MaxSid
    /\ req \in [Request -> RequestState]
    /\ compactor \in {None} \cup [at : {"read", "write"}, content : Store \cup {None}]
    /\ compactions \in 0 .. MaxCompactions
    /\ crashes \in 0 .. MaxCrashes

\* No session identifier is in use twice, and none is generated again: in the
\* store, in the one a crash would bring back, and in the one sessions.compact
\* is about to write.
Distinct(st) ==
    /\ \A k \in Key : st[k] # None => st[k] <= sids
    /\ \A k, l \in Key : k # l /\ st[k] # None => st[k] # st[l]
SidsDistinct ==
    /\ Distinct(store) /\ Distinct(disk.content)
    /\ compactor # None /\ compactor.at = "write" =>
          compactor.content \in Store /\ Distinct(compactor.content)

\* sessions.json says what the manager knows whenever mutex_ is free, so a crash
\* then loses no session, as long as sessions.compact (which saves without the
\* mutex) was not used.
StoreDurable == compactions = 0 /\ Unlocked => Loaded = store

\* Why it does: a save of the manager's own begins and ends with the mutex.
SavedUnderMutex ==
    compactions = 0 =>
        /\ compactor = None
        /\ IF saving THEN disk = Truncated ELSE Loaded = store

\* A request that has not begun has no locals, one in progress has its key; only
\* /compact resets a session on its way.
RequestShape ==
    \A r \in Request :
        /\ req[r].at = "new" => req[r] = Fresh
        /\ req[r].at \notin {"new", "done"} => req[r].key \in Key
        /\ req[r].at = "reset" => req[r].via = "compact"

\* The messages that the thread of a request r may still append in state q, each
\* once.
MayAppend(r, q) ==
    CASE q.at \in {"new", "create", "name", "user"} -> {r} \X Kinds
      [] q.at \in {"history", "turn"} -> {r} \X {"use", "result", "answer"}
      [] q.at = "append" -> ToSet(q.out)
      [] OTHER -> {}
Ahead(r) == MayAppend(r, req[r])
NoSlashCompact == \A r \in Request : req[r].via # "compact"

\* Unless /compact puts messages back, what is in a transcript is not appended
\* again, and behind a request's own message there is nothing that the
\* conversation held when it came in.
OwnComesAfterPast ==
    NoSlashCompact =>
        /\ \A r \in Request : Ahead(r) \subseteq {r} \X Kinds
        /\ \A r \in Request : req[r].at = "append" =>
              \A i, j \in 1 .. Len(req[r].out) : i # j => req[r].out[i] # req[r].out[j]
        /\ \A s \in Sid, r \in Request : \A i \in 1 .. Len(files[s]) : files[s][i] \notin Ahead(r)
        /\ \A q, r \in Request : req[q].before \cap Ahead(r) = {}
        /\ \A r \in Request : <<r, "user">> \notin req[r].before
        /\ \A s \in Sid, r \in Request : \A i, j \in 1 .. Len(files[s]) :
              i < j /\ files[s][i] = <<r, "user">> => files[s][j] \notin req[r].before

\* The inductive invariant.
IInv == TypeOK /\ SidsDistinct /\ SavedUnderMutex /\ RequestShape /\ OwnComesAfterPast

\* A turn is told what was said before its request came in: every message that
\* the conversation held then, if it still does and it fits the window, is in
\* the history the turn gets, whatever other requests append and whichever
\* message is taken for the request's own; provided that the request's own
\* message was recorded and is still there, and that nobody uses /compact (which
\* puts messages back behind newer ones).
PastIsRemembered ==
    [][\A r \in Request :
          /\ At(r, "history") /\ req'[r].at = "turn"
          /\ <<r, "user">> \in ToSet(Transcript(req[r].key))
          /\ \A q \in Request : req[q].via # "compact"
          => ToSet(GetHistory(req[r].key, Window)) \cap req[r].before \subseteq ToSet(req'[r].hist)]_vars
=============================================================================
