-------------------------------- MODULE WorkQueue -------------------------------
(***************************************************************************)
(* What a coordinator may rely on when it keeps its work in the journal     *)
(* (collector/state.py), without leases, ledgers, owners or error codes: a  *)
(* task is granted a bounded number of times, its result is final, a task   *)
(* that waits can still be granted, an operator alone raises the bound, and *)
(* a run is published when nothing of it is left.  A published or abandoned *)
(* run never moves again.                                                   *)
(***************************************************************************)
EXTENDS Naturals

CONSTANTS
    Tasks,
    Limit       \* grants of a task before somebody has to look at it; not 0

VARIABLES
    run,        \* "none", "open", "published" or "abandoned"
    phase,      \* of every task
    grants,     \* how often a task was granted
    allowance   \* how often it may be

queueVars == <<run, phase, grants, allowance>>

Unfinished == {"todo", "doing", "stopped"}
Phases == Unfinished \cup {"absent", "done", "dropped"}

QueueInit ==
    /\ run = "none"
    /\ phase = [t \in Tasks |-> "absent"]
    /\ grants = [t \in Tasks |-> 0]
    /\ allowance = [t \in Tasks |-> Limit]

Begin == run = "none" /\ run' = "open" /\ UNCHANGED <<phase, grants, allowance>>

Submit(t) ==
    /\ run = "open" /\ phase[t] = "absent"
    /\ phase' = [phase EXCEPT ![t] = "todo"]
    /\ UNCHANGED <<run, grants, allowance>>

\* Task t waits, with a grant left, or is stopped.
WaitsOrStops(t) ==
    \/ phase'[t] = "todo" /\ grants[t] < allowance[t]
    \/ phase'[t] = "stopped"

\* Tasks whose worker is gone are taken back; a restart reconsiders the others.
Recover ==
    /\ run = "open"
    /\ phase' \in [Tasks -> Phases]
    /\ \A t \in Tasks : phase'[t] = phase[t] \/ (phase[t] \in Unfinished /\ WaitsOrStops(t))
    /\ UNCHANGED <<run, grants, allowance>>

\* A task that waits, or whose worker is gone, is given to a worker.
Grant(t) ==
    /\ run = "open" /\ phase[t] \in {"todo", "doing"}
    /\ grants[t] < allowance[t]
    /\ grants' = [grants EXCEPT ![t] = @ + 1]
    /\ phase' \in [Tasks -> Phases]
    /\ phase'[t] = "doing"
    /\ \A u \in Tasks \ {t} :
          phase'[u] = phase[u] \/ (phase[u] = "doing" /\ WaitsOrStops(u))
    /\ UNCHANGED <<run, allowance>>

Answer(t) ==
    /\ run = "open" /\ phase[t] = "doing"
    /\ \E p \in {"done", "todo", "stopped"} :
          /\ p = "todo" => grants[t] < allowance[t]
          /\ phase' = [phase EXCEPT ![t] = p]
    /\ UNCHANGED <<run, grants, allowance>>

\* The operator gives every stopped task one more grant if it has none left.
Review ==
    /\ run = "open"
    /\ phase' = [t \in Tasks |-> IF phase[t] = "stopped" THEN "todo" ELSE phase[t]]
    /\ allowance' = [t \in Tasks |->
                       IF phase[t] = "stopped" /\ allowance[t] <= grants[t]
                       THEN grants[t] + 1 ELSE allowance[t]]
    /\ UNCHANGED <<run, grants>>

Drop(dropped) ==
    /\ run = "open"
    /\ dropped \subseteq {t \in Tasks : phase[t] \in Unfinished}
    /\ phase' = [t \in Tasks |-> IF t \in dropped THEN "dropped" ELSE phase[t]]
    /\ UNCHANGED <<run, grants, allowance>>

Publish ==
    /\ run = "open"
    /\ \A t \in Tasks : phase[t] \notin Unfinished
    /\ run' = "published"
    /\ UNCHANGED <<phase, grants, allowance>>

Abandon ==
    /\ run = "open"
    /\ run' = "abandoned"
    /\ phase' = [t \in Tasks |-> IF phase[t] \in Unfinished THEN "stopped" ELSE phase[t]]
    /\ UNCHANGED <<grants, allowance>>

QueueNext ==
    \/ Begin \/ Recover \/ Review \/ Publish \/ Abandon
    \/ \E t \in Tasks : Submit(t) \/ Grant(t) \/ Answer(t)
    \/ \E dropped \in SUBSET Tasks : Drop(dropped)

QueueSpec == QueueInit /\ [][QueueNext]_queueVars

================================================================================
