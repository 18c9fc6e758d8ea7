------------------------------- MODULE Hooks -------------------------------
(***************************************************************************)
(* The hook manager (hook_manager.cpp): plugins register handlers with a   *)
(* priority, any thread fires a hook, and while it does others register    *)
(* and unregister.  A void hook runs its handlers in threads of their own, *)
(* which use the firing call's local copy of the handlers by reference; a  *)
(* modifying hook runs them one by one until one asks to stop; a sync hook *)
(* runs them one by one.  Each ends with the sidecar, if that is running.  *)
(* Events, results and the merging of results are not modelled.            *)
(***************************************************************************)
EXTENDS Integers, SequencesExt

CONSTANTS
  Caller,       \* threads that fire hooks (FireAsync fires from one of its own)
  Hook,
  Mode,         \* GetHookMode of each hook: "void", "modifying" or "sync"
  Plugin,
  Priority,     \* a set of integers
  MaxRegs,      \* bound: registrations
  MaxFires      \* bound: firings

VARIABLES
  hooks,    \* hooks_: the handlers of each hook
  fire,     \* each caller's call of Fire
  threads,  \* the threads of void hooks: caller and handler
  stats,    \* how many records hook_stats_ holds
  answer,   \* what UnregisterHook last returned
  regs, fires

vars == <<hooks, fire, threads, stats, answer, regs, fires>>

Handler == [plugin: Plugin, pri: Priority, n: 1 .. MaxRegs]

Idle == [at |-> "idle", hook |-> CHOOSE h \in Hook : TRUE, snap |-> << >>,
         ran |-> << >>, stopped |-> FALSE]

Call ==
  [at: {"idle", "run", "wait", "forward", "done"}, hook: Hook, snap: Seq(Handler),
   ran: Seq(Handler), stopped: BOOLEAN]

TypeOK ==
  /\ hooks \in [Hook -> Seq(Handler)] /\ fire \in [Caller -> Call]
  /\ threads \subseteq Caller \X Handler
  /\ stats \in Nat /\ answer \in BOOLEAN
  /\ regs \in 0 .. MaxRegs /\ fires \in 0 .. MaxFires

Descending(s) == \A i, j \in DOMAIN s : i < j => s[i].pri >= s[j].pri
Once(s) == \A i, j \in DOMAIN s : i # j => s[i] # s[j]

\* What std::sort may make of a list of handlers, each of them once: it does not
\* say how those of one priority are ordered.
Sortings(s) == {t \in [DOMAIN s -> ToSet(s)] : Once(t) /\ Descending(t)}

\* What std::remove_if and erase leave of a list: the elements at the places I, in
\* the order they were in.
Left(s, I) ==
  LET n == Cardinality(I)
  IN  {[k \in 1 .. n |-> s[f[k]]] :
         f \in {g \in [1 .. n -> I] : \A j, k \in 1 .. n : j < k => g[j] < g[k]}}

-----------------------------------------------------------------------------

Init ==
  /\ hooks = [h \in Hook |-> << >>]
  /\ fire = [c \in Caller |-> Idle]
  /\ threads = {} /\ stats = 0 /\ answer = FALSE /\ regs = 0 /\ fires = 0

\* Mutant of RegisterHook: the handlers stay in the order of registration.
RegisterHookUnsorted(h, p, pri) ==
  /\ regs < MaxRegs
  /\ regs' = regs + 1
  /\ hooks' = [hooks EXCEPT ![h] = Append(@, [plugin |-> p, pri |-> pri, n |-> regs'])]
  /\ UNCHANGED <<fire, threads, stats, answer, fires>>

RegisterHook(h, p, pri) ==
  /\ regs < MaxRegs
  /\ regs' = regs + 1
  /\ \E s \in Sortings(Append(hooks[h], [plugin |-> p, pri |-> pri, n |-> regs'])) :
       hooks' = [hooks EXCEPT ![h] = s]
  /\ UNCHANGED <<fire, threads, stats, answer, fires>>

\* When the last handler goes, the entry is erased and its size is read from
\* freed memory: the answer is then arbitrary.
UnregisterHook(h, p) ==
  /\ hooks[h] # << >>
  /\ \E left \in Left(hooks[h], {i \in DOMAIN hooks[h] : hooks[h][i].plugin # p}) :
       /\ hooks' = [hooks EXCEPT ![h] = left]
       /\ answer' \in IF left = << >> THEN BOOLEAN ELSE {Len(left) < Len(hooks[h])}
  /\ UNCHANGED <<fire, threads, stats, regs, fires>>

Clear ==
  /\ \E h \in Hook : hooks[h] # << >>
  /\ hooks' = [h \in Hook |-> << >>]
  /\ UNCHANGED <<fire, threads, stats, answer, regs, fires>>

ClearHookStats ==
  /\ stats > 0 /\ stats' = 0
  /\ UNCHANGED <<hooks, fire, threads, answer, regs, fires>>

\* FireVoid starts the handlers' threads and waits for them.
FirstAt(h) == IF Mode[h] = "void" THEN "wait" ELSE "run"

\* Fire copies the handlers under the lock, and goes on by the hook's mode.
Fire(c, h) ==
  /\ fire[c].at = "idle" /\ fires < MaxFires
  /\ fires' = fires + 1
  /\ fire' = [fire EXCEPT ![c] = [at |-> FirstAt(h), hook |-> h, snap |-> hooks[h], ran |-> << >>, stopped |-> FALSE]]
  /\ threads' = threads \cup
       (IF Mode[h] = "void" THEN {<<c, r>> : r \in ToSet(hooks[h])} ELSE {})
  /\ UNCHANGED <<hooks, stats, answer, regs>>

\* A thread of a void hook: the handler returns or throws, and is recorded.
ThreadRuns(c, r) ==
  /\ <<c, r>> \in threads
  /\ threads' = threads \ {<<c, r>>}
  /\ stats' = stats + 1
  /\ fire' = [fire EXCEPT ![c].ran = Append(@, r)]
  /\ UNCHANGED <<hooks, answer, regs, fires>>

\* FireVoid goes on when every future is ready.
WaitForAll(c) ==
  /\ fire[c].at = "wait" /\ \A t \in threads : t[1] # c
  /\ fire' = [fire EXCEPT ![c].at = "forward"]
  /\ UNCHANGED <<hooks, threads, stats, answer, regs, fires>>

NextHandler(c) == fire[c].snap[Len(fire[c].ran) + 1]

Sequential(c, mode) ==
  /\ fire[c].at = "run" /\ Mode[fire[c].hook] = mode
  /\ Len(fire[c].ran) < Len(fire[c].snap)

Recorded(f, r, stops) ==
  [f EXCEPT !.ran = Append(@, r), !.stopped = stops, !.at = IF stops THEN "done" ELSE "run"]

\* FireModifying: the next handler returns or throws, and is recorded; it may
\* ask to stop, and then Fire returns.
RunModifying(c) ==
  /\ Sequential(c, "modifying")
  /\ stats' = stats + 1
  /\ \E stops \in BOOLEAN : fire' = [fire EXCEPT ![c] = Recorded(@, NextHandler(c), stops)]
  /\ UNCHANGED <<hooks, threads, answer, regs, fires>>

\* FireSync: the next handler returns or throws, and is recorded.
RunSync(c) ==
  /\ Sequential(c, "sync")
  /\ stats' = stats + 1
  /\ fire' = [fire EXCEPT ![c].ran = Append(@, NextHandler(c))]
  /\ UNCHANGED <<hooks, threads, answer, regs, fires>>

AllRan(c) ==
  /\ fire[c].at = "run" /\ Len(fire[c].ran) = Len(fire[c].snap)
  /\ fire' = [fire EXCEPT ![c].at = "forward"]
  /\ UNCHANGED <<hooks, threads, stats, answer, regs, fires>>

\* ForwardToSidecar: whether it runs and answers or not, Fire returns.
ForwardToSidecar(c) ==
  /\ fire[c].at = "forward"
  /\ fire' = [fire EXCEPT ![c].at = "done"]
  /\ UNCHANGED <<hooks, threads, stats, answer, regs, fires>>

Return(c) ==
  /\ fire[c].at = "done"
  /\ fire' = [fire EXCEPT ![c] = Idle]
  /\ UNCHANGED <<hooks, threads, stats, answer, regs, fires>>

Next ==
  \/ \E h \in Hook, p \in Plugin, pri \in Priority : RegisterHook(h, p, pri)
  \/ \E h \in Hook, p \in Plugin : UnregisterHook(h, p)
  \/ Clear \/ ClearHookStats
  \/ \E c \in Caller, h \in Hook : Fire(c, h)
  \/ \E t \in threads : ThreadRuns(t[1], t[2])
  \/ \E c \in Caller : WaitForAll(c) \/ RunModifying(c) \/ RunSync(c) \/ AllRan(c) \/ ForwardToSidecar(c) \/ Return(c)

Spec == Init /\ [][Next]_vars

-----------------------------------------------------------------------------

\* One firing calls each handler that was registered when it began once, and
\* no other; a call of a sequential hook has been preceded by every handler of
\* a higher priority, and follows none that asked to stop; when the firing
\* goes on to the sidecar it has called them all, and no thread still uses its
\* local copy.  Handlers that come and go meanwhile make no difference.
\* (hook_manager.cpp, RegisterHook, Fire, FireVoid, FireModifying, FireSync.)
FireCallsEachOnce ==
  \A c \in Caller :
    LET f == fire[c]
    IN  /\ ToSet(f.ran) \subseteq ToSet(f.snap)
        /\ \A i, j \in DOMAIN f.ran : i # j => f.ran[i] # f.ran[j]
        /\ Mode[f.hook] # "void" =>
             \A i \in DOMAIN f.ran, r \in ToSet(f.snap) :
               r.pri > f.ran[i].pri => \E j \in 1 .. (i - 1) : f.ran[j] = r
        /\ f.at \in {"forward", "done"} /\ ~f.stopped => ToSet(f.ran) = ToSet(f.snap)
        /\ f.at # "wait" => \A t \in threads : t[1] # c

\* What the proof rests on: a list holds a handler once, and by priority; the
\* handlers of a void hook have run or have a thread, and the others have run
\* from the first on.
ListOK(s) == Once(s) /\ Descending(s)

Threads(c) == {t[2] : t \in {u \in threads : u[1] = c}}

FireOK(f, T) ==
  /\ ListOK(f.snap)
  /\ IF Mode[f.hook] = "void"
     THEN /\ f.at # "run" /\ Once(f.ran) /\ ToSet(f.ran) \cup T = ToSet(f.snap)
          /\ ToSet(f.ran) \cap T = {} /\ (f.at # "wait" => T = {})
     ELSE /\ f.at # "wait" /\ T = {} /\ Len(f.ran) <= Len(f.snap)
          /\ \A i \in DOMAIN f.ran : f.ran[i] = f.snap[i]
          /\ f.at \in {"forward", "done"} /\ ~f.stopped => Len(f.ran) = Len(f.snap)

IInv ==
  /\ TypeOK
  /\ \A h \in Hook : ListOK(hooks[h]) /\ \A i \in DOMAIN hooks[h] : hooks[h][i].n <= regs
  /\ \A c \in Caller : FireOK(fire[c], Threads(c))
=============================================================================
