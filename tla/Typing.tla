------------------------------- MODULE Typing -------------------------------
(***************************************************************************)
(* The typing notice of a Telegram message (telegram_typing_manager.cpp):  *)
(* the guard that HandleMessage keeps while the agent works on a message   *)
(* starts a manager, whose thread sends the notice at every interval, and  *)
(* stops it when the handler returns or throws.  Each message has its own, *)
(* and messages of the polling thread and of webhooks are handled at once. *)
(***************************************************************************)
EXTENDS Naturals

CONSTANTS
  Message,
  MaxRefreshes  \* bound: notices of one message

VARIABLES
  handler,    \* where HandleMessage is for each message
  isRunning,  \* running_
  thread,     \* refresh_loop of each: "none", "wait", "send" or "ended"
  sent        \* refresh_count_

vars == <<handler, isRunning, thread, sent>>

TypeOK ==
  /\ handler \in [Message -> {"new", "started", "working", "stopping", "joining", "done"}]
  /\ isRunning \in [Message -> BOOLEAN]
  /\ thread \in [Message -> {"none", "wait", "send", "ended"}]
  /\ sent \in [Message -> 0 .. MaxRefreshes]

Init ==
  /\ handler = [m \in Message |-> "new"]
  /\ isRunning = [m \in Message |-> FALSE]
  /\ thread = [m \in Message |-> "none"]
  /\ sent = [m \in Message |-> 0]

\* A notice is counted unless its callback throws; either way all goes on.
Notice(m) ==
  /\ sent[m] < MaxRefreshes
  /\ \/ sent' = [sent EXCEPT ![m] = @ + 1]
     \/ UNCHANGED sent

\* Start: the first notice, from the handler's own thread, ...
Start(m) ==
  /\ handler[m] = "new"
  /\ Notice(m)
  /\ handler' = [handler EXCEPT ![m] = "started"]
  /\ UNCHANGED <<isRunning, thread>>

\* ... then the thread.
Launch(m) ==
  /\ handler[m] = "started"
  /\ isRunning' = [isRunning EXCEPT ![m] = TRUE]
  /\ thread' = [thread EXCEPT ![m] = "wait"]
  /\ handler' = [handler EXCEPT ![m] = "working"]
  /\ UNCHANGED sent

\* message_handler_ returns or throws, and the guard is destroyed.
Answered(m) ==
  /\ handler[m] = "working"
  /\ handler' = [handler EXCEPT ![m] = "stopping"]
  /\ UNCHANGED <<isRunning, thread, sent>>

\* Stop, up to the join.
Stop(m) ==
  /\ handler[m] = "stopping"
  /\ isRunning' = [isRunning EXCEPT ![m] = FALSE]
  /\ handler' = [handler EXCEPT ![m] = "joining"]
  /\ UNCHANGED <<thread, sent>>

Join(m) ==
  /\ handler[m] = "joining" /\ thread[m] = "ended"
  /\ handler' = [handler EXCEPT ![m] = "done"]
  /\ thread' = [thread EXCEPT ![m] = "none"]
  /\ UNCHANGED <<isRunning, sent>>

\* refresh_loop: the interval is over, or running_ is seen FALSE while it lasts.
Wait(m) ==
  /\ thread[m] = "wait"
  /\ thread' = [thread EXCEPT ![m] = IF isRunning[m] THEN "send" ELSE "ended"]
  /\ UNCHANGED <<handler, isRunning, sent>>

\* The notice goes out even if Stop has come since running_ was read.
Refresh(m) ==
  /\ thread[m] = "send"
  /\ Notice(m)
  /\ thread' = [thread EXCEPT ![m] = IF isRunning[m] THEN "wait" ELSE "ended"]
  /\ UNCHANGED <<handler, isRunning>>

Next == \E m \in Message :
  Start(m) \/ Launch(m) \/ Answered(m) \/ Stop(m) \/ Join(m) \/ Wait(m) \/ Refresh(m)

Spec == Init /\ [][Next]_vars

-----------------------------------------------------------------------------

\* When the handler of a message has returned, however it ended, no thread is
\* left that could send a notice or use the channel through the callback, and
\* until then the thread that runs is the one that will be joined.
\* (telegram_channel.cpp, HandleMessage; telegram_typing_manager.cpp, Stop.)
QuietWhenDone ==
  \A m \in Message :
    /\ handler[m] = "done" => thread[m] = "none"
    /\ thread[m] \in {"wait", "send"} => isRunning[m] \/ handler[m] = "joining"

\* The inductive invariant: the thread of a message lives from Launch to Join,
\* and running_ falls only when the handler goes on to the join.
Mine(m) ==
  /\ handler[m] \in {"new", "started", "done"} => thread[m] = "none"
  /\ handler[m] \in {"working", "stopping"} => isRunning[m]

IInv == TypeOK /\ QuietWhenDone /\ \A m \in Message : Mine(m)

=============================================================================
