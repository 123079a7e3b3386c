-------------------------------- MODULE ScanPool -------------------------------
(***************************************************************************)
(* scan_many (collector/scanner_v2.py): the coordinator's pool of scanner   *)
(* processes over the repository cache.  Repositories of unknown size run   *)
(* alone, known giants one at a time beside the normal ones.  An attempt is *)
(* opened in the journal when a task is dispatched and reported when its    *)
(* future is collected; the run deadline, an exception of a callback or a   *)
(* broken process makes the pool stop and kill what still runs.  A killed   *)
(* coordinator leaves its processes behind, and the next one reconciles the *)
(* cache while they may still be at work.                                   *)
(*                                                                         *)
(* A process is a worker of RepoCache from StartScan to "done".             *)
(***************************************************************************)
EXTENDS RepoCache, Sequences

CONSTANTS
    TotalWorkers,   \* workers
    Outcomes,       \* statuses a finished scan may have, by retention rank
    MaxPools        \* bound: calls of scan_many explored

ASSUME PoolAssumption ==
    /\ TotalWorkers \in Nat \ {0}
    /\ Outcomes \subseteq DOMAIN Ranks
    /\ MaxPools \in Nat

VARIABLES
    size,           \* estimated_size of a task, by its class; never changes
    pool,           \* what scan_many is doing
    phase,          \* index into Phases
    future,         \* process of a dispatched task
    open,           \* tasks whose journal attempt is open
    reported,       \* tasks whose outcome was given to on_result
    expired,        \* has the run deadline passed?
    cause,          \* why the pool stops
    pools,          \* calls so far
    orphaned        \* has a coordinator been killed?

poolVars == <<size, pool, phase, future, open, reported, expired, cause, pools, orphaned>>
scanVars == <<cacheVars, poolVars>>

SizeClass == {"unknown", "giant", "normal"}
Unknown == {t \in Repos : size[t] = "unknown"}
Giants == {t \in Repos : size[t] = "giant"}
Normal == {t \in Repos : size[t] = "normal"}

\* Without a mature candidate the bare tree comes first: here, the normal tasks.
BareFirst(t) == size[t] = "normal"

Lane(tasks, slots) == [tasks |-> tasks, slots |-> slots]

\* The lanes of each phase, by the sizes of the tasks and the worker count.
Phases ==
    LET alone == IF Unknown = {} THEN <<>> ELSE << {Lane(Unknown, 1)} >>
        giants == IF Giants = {} THEN <<>> ELSE << {Lane(Giants, 1)} >>
        normal == IF Normal = {} THEN <<>> ELSE << {Lane(Normal, TotalWorkers)} >>
    IN alone \o
       IF TotalWorkers > 1 /\ Giants # {} /\ Normal # {}
       THEN << {Lane(Giants, 1), Lane(Normal, TotalWorkers - 1)} >>
       ELSE giants \o normal

InFlight == {t \in Repos : future[t] # NoProcess}
Live == {w \in Processes : proc[w].at \notin {"idle", "dead"}}
Orphans == {w \in Live : \A t \in Repos : future[t] # w}

--------------------------------------------------------------------------------
(* Start and end of scan_many. *)

\* The next coordinator: its journal has closed what the last one left open,
\* and new processes take the place of dead ones.
BeginPool ==
    /\ pool \in {"none", "returned", "raised", "crashed"}
    /\ pools < MaxPools
    /\ reported # Repos
    /\ pool' = "reconciled"
    /\ pools' = pools + 1
    /\ phase' = 1
    /\ open' = {}
    /\ expired' = FALSE
    /\ cause' = "none"
    /\ proc' = [w \in Processes |-> IF proc[w].at = "dead" THEN Rest("idle") ELSE proc[w]]
    /\ ReconcileAccounting
    /\ UNCHANGED <<size, future, reported, orphaned>>

\* reconcile_accounting ends with enforce_budget, which raises when the orphans
\* of the last coordinator hold too much.
EnforceAtStart ==
    /\ pool = "reconciled"
    /\ EnforceTotal(NoProcess)
    /\ pool' = IF usage' > Hard THEN "raised" ELSE "running"
    /\ UNCHANGED <<size, held, proc, faults, exact, phase, future, open, reported, expired, cause, pools, orphaned>>

StopPool(why) ==
    /\ pool' = "stopping"
    /\ cause' = why

\* submit_next: before_task opens the attempt, then the process gets the task.
Submit(t, w) ==
    /\ pool = "running"
    /\ ~expired
    /\ phase <= Len(Phases)
    /\ \E lane \in Phases[phase] :
         /\ t \in lane.tasks \ (reported \cup open)
         /\ Cardinality(InFlight \cap lane.tasks) < lane.slots
    /\ w \notin {future[u] : u \in Repos}
    /\ StartScan(w, t, BareFirst(t))
    /\ future' = [future EXCEPT ![t] = w]
    /\ open' = open \cup {t}
    /\ UNCHANGED <<size, pool, phase, reported, expired, cause, pools, orphaned>>

\* before_task, or the submission after it, raises.
SubmitRaises(t, opened) ==
    /\ pool = "running"
    /\ ~expired
    /\ phase <= Len(Phases)
    /\ \E lane \in Phases[phase] :
         /\ t \in lane.tasks \ (reported \cup open)
         /\ Cardinality(InFlight \cap lane.tasks) < lane.slots
    /\ Fault
    /\ open' = IF opened THEN open \cup {t} ELSE open
    /\ StopPool("aborted")
    /\ UNCHANGED <<size, disk, meta, usage, held, proc, exact, phase, future, reported, expired,
                   pools, orphaned>>

\* A finished future: its priority is recorded, then on_result gets it.
Collected(t, status) ==
    LET w == future[t] IN
    /\ pool = "running"
    /\ w # NoProcess
    /\ proc[w].at = "done"
    /\ RecordOutcomePriority(t, Ranks[status])
    /\ proc' = [proc EXCEPT ![w] = Rest("idle")]
    /\ future' = [future EXCEPT ![t] = NoProcess]
    /\ UNCHANGED <<size, phase, expired, pools, orphaned>>

Collect(t, status) ==
    /\ Collected(t, status)
    /\ open' = open \ {t}
    /\ reported' = reported \cup {t}
    /\ UNCHANGED <<faults, pool, cause>>

CollectRaises(t, status) ==
    /\ Collected(t, status)
    /\ Fault
    /\ StopPool("aborted")
    /\ UNCHANGED <<open, reported>>

\* A dead process breaks its pool, and future.result raises.
CollectBroken(t) ==
    /\ pool = "running"
    /\ future[t] # NoProcess
    /\ proc[future[t]].at = "dead"
    /\ future' = [future EXCEPT ![t] = NoProcess]
    /\ StopPool("aborted")
    /\ UNCHANGED <<size, cacheVars, phase, open, reported, expired, pools, orphaned>>

NextPhase ==
    /\ pool = "running"
    /\ InFlight = {}
    /\ IF phase > Len(Phases)
       THEN pool' = "returned" /\ phase' = phase
       ELSE /\ \A lane \in Phases[phase] : lane.tasks \subseteq reported
            /\ phase' = phase + 1 /\ pool' = pool
    /\ UNCHANGED <<size, cacheVars, future, open, reported, expired, cause, pools, orphaned>>

--------------------------------------------------------------------------------
(* The run deadline, cancellation, crashes. *)

RunDeadline ==
    /\ pool = "running"
    /\ ~expired
    /\ Fault
    /\ expired' = TRUE
    /\ proc' = [w \in Processes |-> [proc[w] EXCEPT
                   !.late = proc[w].at \notin {"idle", "done", "dead"}]]
    /\ UNCHANGED <<size, disk, meta, usage, held, exact, pool, phase, future, open, reported,
                   cause, pools, orphaned>>

NoticeDeadline ==
    /\ pool = "running"
    /\ expired
    /\ StopPool("deadline")
    /\ UNCHANGED <<size, cacheVars, phase, future, open, reported, expired, pools, orphaned>>

\* SIGTERM to Git and the processes, a second to clean up, SIGKILL.
Terminate(w) ==
    /\ pool = "stopping"
    /\ \E t \in Repos : future[t] = w
    /\ DeadlinePasses(w)
    /\ UNCHANGED <<faults, poolVars>>

Reap(t) ==
    /\ pool = "stopping"
    /\ future[t] # NoProcess
    /\ IF proc[future[t]].at = "dead" THEN UNCHANGED cacheVars
       ELSE Kill(future[t]) /\ UNCHANGED faults
    /\ future' = [future EXCEPT ![t] = NoProcess]
    /\ UNCHANGED <<size, pool, phase, open, reported, expired, cause, pools, orphaned>>

ReturnStopped ==
    /\ pool = "stopping"
    /\ InFlight = {}
    /\ pool' = IF cause = "aborted" THEN "raised" ELSE "returned"
    /\ UNCHANGED <<size, cacheVars, phase, future, open, reported, expired, cause, pools, orphaned>>

CoordinatorDies ==
    /\ pool \in {"running", "stopping"}
    /\ Fault
    /\ orphaned' = (orphaned \/ Live # {})
    /\ pool' = "crashed"
    /\ future' = [t \in Repos |-> NoProcess]
    /\ UNCHANGED <<size, disk, meta, usage, held, proc, exact, phase, open, reported, expired, cause, pools>>

WorkerDies(w) ==
    /\ w \in Live
    /\ Fault
    /\ Kill(w)
    /\ UNCHANGED poolVars

RepoTimeout(w) ==
    /\ DeadlinePasses(w)
    /\ Fault
    /\ UNCHANGED poolVars

\* An orphan finds nobody to report to.
OrphanExits(w) ==
    /\ w \in Orphans
    /\ proc[w].at = "done"
    /\ Kill(w)
    /\ UNCHANGED <<faults, poolVars>>

--------------------------------------------------------------------------------
PoolInit ==
    /\ CacheInit
    /\ size \in [Repos -> SizeClass]
    /\ pool = "none"
    /\ phase = 1
    /\ future = [t \in Repos |-> NoProcess]
    /\ open = {}
    /\ reported = {}
    /\ expired = FALSE
    /\ cause = "none"
    /\ pools = 0 /\ orphaned = FALSE

ProcessStep(w) ==
    \/ CacheStep(w) /\ UNCHANGED poolVars
    \/ OrphanExits(w)

CoordinatorStep ==
    \/ EnforceAtStart
    \/ \E t \in Repos, w \in Processes : Submit(t, w)
    \/ \E t \in Repos, status \in Outcomes : Collect(t, status)
    \/ \E t \in Repos : CollectBroken(t) \/ Reap(t)
    \/ NextPhase
    \/ NoticeDeadline
    \/ ReturnStopped

PoolNext ==
    \/ BeginPool
    \/ CoordinatorStep
    \/ \E t \in Repos, opened \in BOOLEAN : SubmitRaises(t, opened)
    \/ \E t \in Repos, status \in Outcomes : CollectRaises(t, status)
    \/ RunDeadline
    \/ CoordinatorDies
    \/ \E w \in Processes :
         \/ ProcessStep(w)
         \/ RepoTimeout(w)
         \/ Terminate(w)
         \/ WorkerDies(w)

PoolSpec == PoolInit /\ [][PoolNext]_scanVars

--------------------------------------------------------------------------------
(* What the pool and the cache promise. *)

\* What scan_many finds at its start may be too much: orphans hold what it would evict.
\* enforce_budget then raises before anything is dispatched.
Overfull == pool = "reconciled" \/ (pool = "raised" /\ cause = "none")

\* The total never exceeds the hard limit once the coordinator has enforced it:
\* concurrent reservations, clones and records together stay inside, because each
\* either fits, evicts enough, or takes itself back.
WithinHardLimit == ~Overfull => usage <= Hard

\* As long as no accounting section was cut in half, the total covers what the
\* entries account for, and is exactly that unless a killed coordinator left
\* processes behind: failures, deadlines, kills and evictions neither lose nor leak
\* a byte before the next reconciliation.
UsageIsExact ==
    /\ exact => usage >= AccountedOf(Repos)
    /\ exact /\ ~orphaned => usage = AccountedOf(Repos)

\* A process that scans a repository finds it on disk: no eviction, and no other process
\* of its pool, removes a repository in use.  (An orphan that settles up after a checkout
\* of the same repository can: it does not hold the lock.)  And no process is at work
\* when scan_many has come back, whatever deadline, exception or broken process ended it.
ScansAreContained ==
    ~orphaned =>
        /\ \A w \in Processes : proc[w].at = "scanning" => disk[proc[w].repo] > 0
        /\ pool \in {"returned", "raised"} => Live = {}

\* What the next step of a process waits for, spelled out: for a lock that nobody holds, or
\* its deadline; and for a set of entries to evict, where it needs room.
Ready(w) ==
    LET r == proc[w].repo
        others == Less(usage, Accounted(meta[r]))
        Room(total, goal) == Victims(total, r, goal) # {} IN
    \/ proc[w].at = "waiting" /\ (held[r] = NoProcess \/ proc[w].late)
    \/ proc[w].at = "ensuring" /\ (disk[r] > 0 \/ Room(usage + CloneReserve, Hard))
    \/ proc[w].at = "entering" /\ Room(others + disk[r] + GrowthReserve(disk[r]), Hard)
    \/ proc[w].at = "growing" /\ disk[r] <= MaxSize
    \/ proc[w].at \in {"grown", "broken"} /\ (disk[r] = 0 \/ Room(others + disk[r], Hard))
    \/ proc[w].at = "ensured" /\ Room(others + disk[r], Hard)
    \/ proc[w].at = "measured" /\ Room(others + proc[w].size, Hard)
    \/ proc[w].at = "enforcing" /\ (usage <= Hard \/ Room(usage, Target))
    \/ proc[w].at \in {"reserved", "cloning", "present", "scanning", "unlocking", "leaving"}

ReadyIsEnabled == \A w \in Processes : Ready(w) <=> ENABLED CacheStep(w)

SomebodyIsReady ==
    pool = "running" /\ InFlight # {} =>
        \E w \in Live \cup {future[t] : t \in InFlight} :
            proc[w].at \in {"done", "dead"} \/ Ready(w)

\* No order of repository locks, reservations and evictions lets the processes
\* wait for each other: without any deadline, one of them can move.
SomebodyMoves == ReadyIsEnabled /\ SomebodyIsReady

================================================================================
