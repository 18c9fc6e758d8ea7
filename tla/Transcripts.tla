---------------------------- MODULE Transcripts ----------------------------
(***************************************************************************)
(* What a session tells its listeners (session/session_manager.cpp): the   *)
(* subscriptions to a session, the events of messages and policy changes,  *)
(* and the policy itself.  Callbacks run under the shared lock of the      *)
(* subscriptions, which Subscribe and Unsubscribe take alone.              *)
(* One session key; a callback returns or throws, and calls nothing here.  *)
(***************************************************************************)
EXTENDS Naturals, Sequences

CONSTANTS
  Thread,
  Policy,
  MaxSubs, MaxEvents,  \* bounds
  None

VARIABLES
  subscribers,  \* subscribers_ of the key
  policy,       \* policies_ of the key
  thread,       \* the event each thread emits, the next subscription and whether it is called
  gone,         \* subscriptions whose Unsubscribe has returned
  counter,      \* subscription_counter_
  events

vars == <<subscribers, policy, thread, gone, counter, events>>

Rest == [event |-> None, pos |-> 0, at |-> 0, list |-> <<>>]
Sub == 1 .. MaxSubs

Emitter ==
  [event: Policy \cup {None, "message"}, pos: {0, 1}, at: Sub \cup {0}, list: Seq(Sub)]

TypeOK ==
  /\ subscribers \in Seq(Sub) /\ policy \in Policy \cup {None}
  /\ thread \in [Thread -> Emitter]
  /\ gone \subseteq Sub /\ counter \in 0 .. MaxSubs /\ events \in 0 .. MaxEvents

Init ==
  /\ subscribers = <<>> /\ policy = None /\ thread = [t \in Thread |-> Rest]
  /\ gone = {} /\ counter = 0 /\ events = 0

\* emit_event holds the shared lock from its first line to its last: the thread
\* has an event and a position.
Emitting(t) == thread[t].pos > 0

\* Subscribe and Unsubscribe wait until nobody holds the lock.
Subscribe ==
  /\ counter < MaxSubs /\ \A t \in Thread : ~Emitting(t)
  /\ counter' = counter + 1 /\ subscribers' = Append(subscribers, counter')
  /\ UNCHANGED <<policy, thread, gone, events>>

Erased(s, n) == [k \in 1 .. (Len(s) - 1) |-> s[IF k < n THEN k ELSE k + 1]]

\* An identifier is given to one subscription only: one entry is erased.
Unsubscribe(i) ==
  /\ \A t \in Thread : ~Emitting(t)
  /\ \E n \in DOMAIN subscribers :
       /\ subscribers[n] = i
       /\ subscribers' = Erased(subscribers, n)
  /\ gone' = gone \cup {i}
  /\ UNCHANGED <<policy, thread, counter, events>>

\* SetPolicy stores the policy and releases its lock; the event comes after.
SetPolicy(t, p) ==
  /\ thread[t] = Rest /\ events < MaxEvents /\ events' = events + 1
  /\ policy' = p /\ thread' = [thread EXCEPT ![t].event = p]
  /\ UNCHANGED <<subscribers, gone, counter>>

\* AppendMessage has written the message and releases the store's lock.
AppendMessage(t) ==
  /\ thread[t] = Rest /\ events < MaxEvents /\ events' = events + 1
  /\ thread' = [thread EXCEPT ![t].event = "message"]
  /\ UNCHANGED <<subscribers, policy, gone, counter>>

\* Mutant of emit_event: the callbacks are called from a copy, without the lock.
emit_event_copied(t) ==
  /\ thread[t].event # None /\ ~Emitting(t) /\ thread[t].list = <<>>
  /\ thread' = [thread EXCEPT ![t].list = subscribers, ![t].event = IF subscribers = <<>> THEN None ELSE @]
  /\ UNCHANGED <<subscribers, policy, gone, counter, events>>

emit_event(t) ==
  /\ thread[t].event # None /\ ~Emitting(t)
  /\ thread' = [thread EXCEPT ![t].pos = 1, ![t].list = subscribers]
  /\ UNCHANGED <<subscribers, policy, gone, counter, events>>

CallsBack(t) ==
  /\ thread[t].list # <<>> /\ thread[t].at = 0
  /\ thread' = [thread EXCEPT ![t].at = Head(thread[t].list)]
  /\ UNCHANGED <<subscribers, policy, gone, counter, events>>

\* A callback that throws is logged: the next one is called all the same.
CallReturns(t) ==
  /\ thread[t].at # 0
  /\ thread' = [thread EXCEPT ![t].at = 0, ![t].list = Tail(@)]
  /\ UNCHANGED <<subscribers, policy, gone, counter, events>>

EmitEnds(t) ==
  /\ Emitting(t) /\ thread[t].list = <<>>
  /\ thread' = [thread EXCEPT ![t] = Rest]
  /\ UNCHANGED <<subscribers, policy, gone, counter, events>>

Next ==
  \/ Subscribe \/ \E i \in Sub : Unsubscribe(i)
  \/ \E t \in Thread :
       \/ AppendMessage(t) \/ \E p \in Policy : SetPolicy(t, p)
       \/ emit_event(t) \/ CallsBack(t) \/ CallReturns(t) \/ EmitEnds(t)

Spec == Init /\ [][Next]_vars

-----------------------------------------------------------------------------

\* Once Unsubscribe has returned, the callback is not called any more and no
\* call of it is still under way in another thread: its owner may go away.
\* (session/session_manager.cpp, Unsubscribe and emit_event.)
UnsubscribedIsQuiet == \A t \in Thread : thread[t].at \notin gone

-----------------------------------------------------------------------------
(* What the proof of UnsubscribedIsQuiet rests on.                         *)

\* Whoever is subscribed has a number of its own, and is not gone.
Numbered ==
  /\ \A n \in DOMAIN subscribers :
       /\ subscribers[n] \in 1 .. counter
       /\ subscribers[n] \notin gone
       /\ \A m \in DOMAIN subscribers : subscribers[m] = subscribers[n] => m = n
  /\ gone \subseteq 1 .. counter

\* A thread calls somebody only while it holds the lock, and of those it has
\* yet to call nobody is gone.
Holds(e) ==
  /\ e.pos = 0 => e.at = 0 /\ e.list = <<>>
  /\ e.at # 0 => e.list # <<>>
  /\ e.at \notin gone
  /\ \A n \in DOMAIN e.list : e.list[n] \notin gone

IInv == TypeOK /\ Numbered /\ \A t \in Thread : Holds(thread[t])
=============================================================================
