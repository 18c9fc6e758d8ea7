----------------------------- MODULE RateLimit -----------------------------
(***************************************************************************)
(* The rate limiter of the gateway (security/rate_limiter.cpp): for each   *)
(* connection the times of the requests it let through, a limit for the    *)
(* window and one for the last second.  A refused request is answered with *)
(* the number of seconds to wait (gateway_server.cpp, handle_request).     *)
(* Time is counted in ticks, Second of them to a second.                   *)
(***************************************************************************)
EXTENDS Integers, SequencesExt

CONSTANTS
  Conn,        \* the keys
  Limits,      \* the configurations: [max, window (in seconds), burst]
  Second,      \* ticks in a second
  MaxTime,     \* bound: ticks
  None

VARIABLES
  limits,     \* config_
  windows,    \* windows_: the times of each key; << >> for a key without one
  now,
  answer,     \* per key: the answer to its last request
  passed      \* per key: the times of all requests let through since its last reset

vars == <<limits, windows, now, answer, passed>>

Refusal == [at: Nat, wait: Nat, full: BOOLEAN]

TypeOK ==
  /\ limits \in Limits /\ now \in 0 .. MaxTime
  /\ windows \in [Conn -> Seq(Nat)] /\ passed \in [Conn -> Seq(Nat)]
  /\ answer \in [Conn -> Refusal \cup {None}]

\* How many of the times, which are in order, come before t.
Before(times, t) ==
  LET from == {i \in DOMAIN times : times[i] >= t}
  IN  IF from = {} THEN Len(times) ELSE Min(from) - 1

\* The times at the front that are older than the window are dropped.
purge_old(times, t) == SubSeq(times, Before(times, t - limits.window * Second) + 1, Len(times))

\* The times of the last second, counted from the back.
Burst(times, t) == Len(times) - Before(times, t - Second)

WindowFull(times) == Len(times) >= limits.max
BurstFull(times, t) == limits.burst > 0 /\ Burst(times, t) >= limits.burst

\* Mutant of RetryAfter: the fraction of a second is lost.
RetryAfterRoundedDown(times, t) ==
  IF ~WindowFull(times) \/ times[1] + limits.window * Second <= t THEN 0
  ELSE (times[1] + limits.window * Second - t) \div Second

\* Seconds until the oldest request leaves the window; 0 when the window is
\* not full, and so when it was the burst that refused.
RetryAfter(times, t) ==
  IF ~WindowFull(times) \/ times[1] + limits.window * Second <= t THEN 0
  ELSE (times[1] + limits.window * Second - t) \div Second + 1

Init ==
  /\ limits \in Limits
  /\ windows = [c \in Conn |-> << >>]
  /\ now = 0
  /\ answer = [c \in Conn |-> None]
  /\ passed = [c \in Conn |-> << >>]

\* Allow, and RetryAfter for a request that it refuses.
Request(c) ==
  LET times == purge_old(windows[c], now)
  IN  \/ /\ ~WindowFull(times) /\ ~BurstFull(times, now)
         /\ windows' = [windows EXCEPT ![c] = Append(times, now)]
         /\ passed' = [passed EXCEPT ![c] = Append(@, now)]
         /\ answer' = [answer EXCEPT ![c] = None]
         /\ UNCHANGED <<limits, now>>
      \/ /\ WindowFull(times) \/ BurstFull(times, now)
         /\ windows' = [windows EXCEPT ![c] = times]
         /\ answer' = [answer EXCEPT ![c] =
              [at |-> now, wait |-> RetryAfter(times, now), full |-> WindowFull(times)]]
         /\ UNCHANGED <<limits, now, passed>>

\* Reset(key); Reset() does it for every key.
Reset(c) ==
  /\ windows[c] # << >>
  /\ windows' = [windows EXCEPT ![c] = << >>] /\ passed' = [passed EXCEPT ![c] = << >>]
  /\ answer' = [answer EXCEPT ![c] = None]
  /\ UNCHANGED <<limits, now>>

\* Prune and Remaining drop what is too old.
Prune ==
  /\ windows' = [c \in Conn |-> purge_old(windows[c], now)]
  /\ UNCHANGED <<limits, now, answer, passed>>

Tick ==
  /\ now < MaxTime /\ now' = now + 1
  /\ UNCHANGED <<limits, windows, answer, passed>>

Next == Prune \/ Tick \/ \E c \in Conn : Request(c) \/ Reset(c)

Spec == Init /\ [][Next]_vars

-----------------------------------------------------------------------------

\* In no window of the configured length, and in no second, has a connection
\* had more requests let through than the limits say, however the purging of
\* old times by Allow, Prune and RetryAfter falls between them.
\* (security/rate_limiter.cpp, Allow and purge_old.)
NeverOverLimit ==
  \A c \in Conn :
    \A i \in DOMAIN passed[c] :
      LET from(d) == {j \in DOMAIN passed[c] : j <= i /\ passed[c][j] >= passed[c][i] - d}
      IN  /\ Cardinality(from(limits.window * Second)) <= limits.max
          /\ limits.burst > 0 => Cardinality(from(Second)) <= limits.burst

\* A connection that the window refused finds room there once the seconds it
\* was told to wait are over, even when the purging and the computation of the
\* wait disagree about a request that is just as old as the window.
\* (security/rate_limiter.cpp, RetryAfter.)
WaitSuffices ==
  \A c \in Conn :
    answer[c] # None /\ answer[c].full /\ now > answer[c].at + answer[c].wait * Second =>
      ~WindowFull(purge_old(windows[c], now))

\* What the proofs rest on: a window is the end of what passed, without times that
\* are too old; what passed is in order, and no time has too many just before it;
\* and a window that is still full as when it refused has its first time as the
\* wait was computed from.
WindowOK(p, w) ==
  /\ Len(w) <= Len(p) /\ Len(w) <= limits.max
  /\ \A i \in 1 .. Len(w) : w[i] = p[i + (Len(p) - Len(w))]
  /\ \A i \in 1 .. (Len(p) - Len(w)) : p[i] < now - limits.window * Second

PassedOK(p) ==
  /\ \A i \in DOMAIN p : p[i] <= now
  /\ \A i, j \in DOMAIN p : i < j => p[i] <= p[j]
  /\ \A i \in DOMAIN p : i > limits.max => p[i - limits.max] < p[i] - limits.window * Second
  /\ limits.burst > 0 => \A i \in DOMAIN p : i > limits.burst => p[i - limits.burst] < p[i] - Second

WaitOK(w, a) ==
  a # None /\ a.full /\ Len(w) >= limits.max =>
    w[1] + limits.window * Second <= a.at + a.wait * Second

IInv ==
  /\ TypeOK
  /\ \A c \in Conn :
       WindowOK(passed[c], windows[c]) /\ PassedOK(passed[c]) /\ WaitOK(windows[c], answer[c])
=============================================================================
