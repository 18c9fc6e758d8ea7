----------------------------- MODULE WorkerPool -----------------------------
(***************************************************************************)
(* What the command queue promises to the gateway: commands arrive once,   *)
(* wait, may be withdrawn while they wait, run at most once, and are       *)
(* admitted only while fewer than `limit` of them hold a run slot.  The    *)
(* module says nothing about sessions, modes or order.                     *)
(***************************************************************************)
EXTENDS Naturals, FiniteSets

CONSTANT Cmd    \* identifiers of commands

VARIABLES
    waiting,    \* submitted, not yet given a run slot
    running,    \* hold a run slot
    retired,    \* ran to completion, or withdrawn before they ran
    limit       \* the number of slots an admission may fill

poolVars == <<waiting, running, retired, limit>>

PoolTypeOK ==
    /\ waiting \in SUBSET Cmd
    /\ running \in SUBSET Cmd
    /\ retired \in SUBSET Cmd
    /\ limit \in Nat

PoolInit ==
    /\ waiting = {}
    /\ running = {}
    /\ retired = {}
    /\ limit \in Nat

\* New commands arrive, and any waiting (or just arrived) ones are withdrawn.
\* Nothing that ran, runs or was withdrawn comes back.
Exchange ==
    /\ waiting \subseteq waiting' \cup retired'
    /\ retired \subseteq retired'
    /\ waiting' \cap (running \cup retired') = {}
    /\ retired' \cap running = {}
    /\ UNCHANGED <<running, limit>>

\* Waiting commands get slots; others may be withdrawn in the same step.
Admit ==
    LET admitted == running' \ running IN
    /\ running \subseteq running'
    /\ admitted # {} => Cardinality(running') <= limit
    /\ admitted \cup waiting' \subseteq waiting
    /\ admitted \cap waiting' = {}
    /\ retired' = retired \cup (waiting \ (admitted \cup waiting'))
    /\ UNCHANGED limit

\* A command that holds a slot gives it back and never runs again.
Release(c) ==
    /\ c \in running
    /\ running' = running \ {c}
    /\ retired' = retired \cup {c}
    /\ UNCHANGED <<waiting, limit>>

\* The limit may change at any time; slots already taken are kept.
Relimit ==
    /\ limit' \in Nat
    /\ UNCHANGED <<waiting, running, retired>>

PoolNext ==
    \/ Exchange
    \/ Admit
    \/ \E c \in Cmd : Release(c)
    \/ Relimit

PoolSpec == PoolInit /\ [][PoolNext]_poolVars
=============================================================================
