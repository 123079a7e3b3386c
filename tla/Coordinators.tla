----------------------------- MODULE Coordinators -----------------------------
(***************************************************************************)
(* Coordinator processes (PipelineRunner.run) working one after another,   *)
(* and sometimes at once, on the journal of TaskJournal.  A coordinator    *)
(* takes the network-run lock, resumes or creates the run, works through   *)
(* the discovery tasks one at a time and then the scans, verifies its lock *)
(* between the stages, and finishes the run; whatever it raises on the way *)
(* marks the run failed before the lock is released.                       *)
(*                                                                         *)
(* Each SQLite transaction is one action.  A process may die, and it may be *)
(* suspended for longer than its leases (a sleeping host, a stalled disk): *)
(* its lock and its leases then expire, another process takes over, and the *)
(* first one continues where it stopped when it wakes up.  A process that  *)
(* runs renews its lock and its leases in time.                            *)
(*                                                                         *)
(* Only the latest run is followed.  A coordinator that finds it closed    *)
(* creates another run and works elsewhere under the same lock.            *)
(***************************************************************************)
EXTENDS TaskJournal

CONSTANTS
    Coordinators,     \* one invocation each: the owner host:pid:uuid of run()
    NetWorker,        \* "coordinator:<run_id>:discovery", the same for all
    MayFail,          \* do calls and scans report failures in this instance?
    MaxCrashes,       \* bound: processes killed
    MaxSuspensions    \* bound: suspensions explored

ASSUME CoordinatorsAssumption ==
    /\ NetWorker \notin Coordinators
    /\ Workers = Coordinators \cup {NetWorker}
    /\ MayFail \in BOOLEAN
    /\ MaxCrashes \in Nat
    /\ MaxSuspensions \in Nat

VARIABLES
    lock,         \* the row of runtime_locks: its owner, and is it unexpired?
    lockLost,     \* _RunLockHeartbeat._lost, per coordinator
    leaseLost,    \* _TaskLeaseHeartbeat._lost of the network task in flight
    pc,           \* how far run() has come
    work,         \* what a coordinator is doing with a task it leased; "complete",
                  \* "retryable" and "final" are the reports of a scan
    attempt,      \* the attempt it was given with the lease
    awake,        \* FALSE while suspended
    overtaken,    \* history: has anyone else taken the lock since it did?
    crashes, suspensions

localVars == <<lockLost, leaseLost, pc, work, attempt>>
envVars == <<awake, crashes, suspensions>>
allVars == <<vars, lock, localVars, overtaken, envVars>>

Stages == {"discovery", "scan"}

ProgramSteps == Stages \cup
    {"idle", "opening", "elsewhere", "publication", "finishing",
     "unwinding", "closing", "done", "dead"}

StageTasks(stage) == IF stage = "scan" THEN ScanTasks ELSE NetTasks

\* Defect: one worker name for everything.
OneWorkerName(c, t) == NetWorker

\* Scans are leased to the process, discovery tasks to the run.
WorkerOf(c, t) == IF t \in ScanTasks THEN c ELSE NetWorker

Running(c) == awake[c] /\ pc[c] \notin {"idle", "done", "dead"}

Working(c, t) == Running(c) /\ pc[c] \in Stages /\ t \in StageTasks(pc[c])

OwnsLock(c) == lock.owner = c /\ lock.live

\* Defect: the lock is taken whoever holds it.
LockIgnored == TRUE

LockFree == ~lock.live

--------------------------------------------------------------------------------
CInit ==
    /\ Init
    /\ lock = [owner |-> NoWorker, live |-> FALSE]
    /\ lockLost = [c \in Coordinators |-> FALSE]
    /\ leaseLost = [c \in Coordinators |-> FALSE]
    /\ pc = [c \in Coordinators |-> "idle"]
    /\ work = [c \in Coordinators |-> [t \in Tasks |-> "none"]]
    /\ attempt = [c \in Coordinators |-> [t \in Tasks |-> 0]]
    /\ awake = [c \in Coordinators |-> TRUE]
    /\ overtaken = [c \in Coordinators |-> FALSE]
    /\ crashes = 0
    /\ suspensions = 0

(* The life of run(): steps that move the program counter. *)

GoTo(c, step) ==
    /\ pc' = [pc EXCEPT ![c] = step]
    /\ UNCHANGED <<lock, lockLost, leaseLost, work, attempt, overtaken, envVars>>

\* acquire_lock succeeds unless another owner's lease is unexpired; an
\* invocation it refuses raises at once, and may be started again later.
AcquireLock(c) ==
    /\ awake[c]
    /\ pc[c] = "idle"
    /\ LockFree
    /\ lock' = [owner |-> c, live |-> TRUE]
    /\ overtaken' = [d \in Coordinators |-> overtaken[d] \/ (d # c /\ pc[d] # "idle")]
    /\ pc' = [pc EXCEPT ![c] = "opening"]
    /\ UNCHANGED <<vars, lockLost, leaseLost, work, attempt, envVars>>

OpenRun(c) ==
    /\ Running(c)
    /\ pc[c] = "opening"
    /\ \/ (CreateRun \/ ResumeRun) /\ GoTo(c, "discovery")
       \/ /\ runStatus \in {"complete", "abandoned"}
          /\ UNCHANGED vars
          /\ GoTo(c, "elsewhere")

LeaveElsewhere(c) ==
    /\ Running(c)
    /\ pc[c] = "elsewhere"
    /\ UNCHANGED vars
    /\ GoTo(c, "closing")

\* Defect: the flag of the heartbeat is trusted without a renewal.
FlagOnly(c) == ~lockLost[c]

\* heartbeat.verify: the flag of the background thread, then a renewal.
Verified(c) == ~lockLost[c] /\ OwnsLock(c)

FinishStage(c) ==
    /\ Running(c)
    /\ pc[c] \in Stages
    /\ \A t \in StageTasks(pc[c]) : tasks[t].status = "complete" /\ work[c][t] = "none"
    /\ UNCHANGED vars
    /\ GoTo(c, IF ~Verified(c) THEN "unwinding"
               ELSE IF pc[c] = "discovery" THEN "scan" ELSE "publication")

\* The last check of the lock before the release becomes the live one, and the
\* run-level release gate.
EnterPublication(c) ==
    /\ Running(c)
    /\ pc[c] = "publication"
    /\ UNCHANGED vars
    /\ GoTo(c, IF Verified(c) /\ Publishable THEN "finishing" ELSE "unwinding")

FinishPublication(c) ==
    /\ Running(c)
    /\ pc[c] = "finishing"
    /\ IF Publishable
       THEN FinishRun("complete") /\ GoTo(c, "closing")
       ELSE UNCHANGED vars /\ GoTo(c, "unwinding")

\* The handler of run() looks neither at the lock nor at the run's status.
Unwind(c) ==
    /\ Running(c)
    /\ pc[c] = "unwinding"
    /\ IF runStatus # "none" THEN FinishRun("failed") ELSE UNCHANGED vars
    /\ GoTo(c, "closing")

ReleaseLock(c) ==
    /\ Running(c)
    /\ pc[c] = "closing"
    /\ lock' = IF lock.owner = c THEN [owner |-> NoWorker, live |-> FALSE] ELSE lock
    /\ pc' = [pc EXCEPT ![c] = "done"]
    /\ UNCHANGED <<vars, lockLost, leaseLost, work, attempt, overtaken, envVars>>

--------------------------------------------------------------------------------
(* Work on the tasks of the current stage. *)

Does(c, t, step) ==
    /\ work' = [work EXCEPT ![c][t] = step]
    /\ UNCHANGED <<lock, lockLost, leaseLost, pc, attempt, overtaken, envVars>>

\* run() raises: nothing in flight is worked on any more.
Raise(c) ==
    /\ pc' = [pc EXCEPT ![c] = "unwinding"]
    /\ work' = [work EXCEPT ![c] = [t \in Tasks |-> "none"]]
    /\ UNCHANGED <<lock, lockLost, leaseLost, attempt, overtaken, envVars>>

Enqueue(c, t) ==
    /\ Working(c, t)
    /\ EnqueueTask(t)
    /\ UNCHANGED <<lock, localVars, overtaken, envVars>>

\* Every task of the stage is journaled before the first is dispatched.
MayDispatch(c, t) ==
    /\ Working(c, t)
    /\ \A u \in StageTasks(pc[c]) : tasks[u].status # "absent"
    /\ tasks[t].status # "complete"
    /\ work[c][t] = "none"
    /\ t \in NetTasks => \A u \in NetTasks : work[c][u] = "none"

Dispatch(c, t) ==
    /\ MayDispatch(c, t)
    /\ LeaseTask(WorkerOf(c, t), t)
    /\ work' = [work EXCEPT ![c][t] = "running"]
    /\ attempt' = [attempt EXCEPT ![c][t] = tasks'[t].attempts]
    /\ leaseLost' = [leaseLost EXCEPT ![c] = IF t \in NetTasks THEN FALSE ELSE @]
    /\ UNCHANGED <<lock, lockLost, pc, overtaken, envVars>>

\* lease_task_by_id returns None; its sweep of expired leases stays.
DispatchRefused(c, t) ==
    /\ MayDispatch(c, t)
    /\ ~Leasable(SweptTask(t), IF t \in ScanTasks THEN SweptRows(t) ELSE <<>>)
    /\ IF \E u \in Tasks : Stale(u) THEN RecoverStaleTasks ELSE UNCHANGED vars
    /\ Raise(c)

\* Defect: the result is committed without charging the call.
VerifyWithoutCharge(c, t) ==
    /\ Working(c, t) /\ t \in NetTasks
    /\ work[c][t] = "running"
    /\ UNCHANGED vars
    /\ Does(c, t, IF Holds(NetWorker, t) THEN "charged" ELSE "failing")

\* _complete_journaled_network_task: the call has returned a document, and the
\* lease heartbeat is verified before the result is charged and committed.
VerifyLease(c, t) ==
    /\ Working(c, t) /\ t \in NetTasks
    /\ work[c][t] = "running"
    /\ UNCHANGED vars
    /\ Does(c, t, IF ~leaseLost[c] /\ Holds(NetWorker, t) THEN "verified" ELSE "failing")

\* The call itself raised; its usage is charged before the exception goes on.
CallFails(c, t) ==
    /\ MayFail
    /\ Working(c, t) /\ t \in NetTasks
    /\ work[c][t] = "running"
    /\ IF tasks[t].attempts = attempt[c][t]
       THEN RecordNetworkTaskUsage(t, attempt[c][t]) ELSE UNCHANGED vars
    /\ Does(c, t, "failing")

\* before_complete
ChargeCall(c, t) ==
    /\ Working(c, t) /\ t \in NetTasks
    /\ work[c][t] = "verified"
    /\ IF tasks[t].attempts = attempt[c][t]
       THEN RecordNetworkTaskUsage(t, attempt[c][t]) /\ Does(c, t, "charged")
       ELSE UNCHANGED vars /\ Does(c, t, "failing")

CommitCall(c, t) ==
    /\ Working(c, t) /\ t \in NetTasks
    /\ work[c][t] = "charged"
    /\ IF Holds(NetWorker, t)
       THEN CompleteTask(NetWorker, t) /\ Does(c, t, "none")
       ELSE UNCHANGED vars /\ Does(c, t, "failing")

\* fail_task for a retry; its RuntimeError for a lost lease is swallowed.
FailCall(c, t) ==
    /\ Working(c, t) /\ t \in NetTasks
    /\ work[c][t] = "failing"
    /\ IF Holds(NetWorker, t) THEN FailTask(NetWorker, t, TRUE) ELSE UNCHANGED vars
    /\ Raise(c)

ScanReport(outcome) ==
    IF outcome = "complete" THEN ClosedRow("complete", FALSE)
    ELSE ClosedRow("failed", outcome = "retryable")

\* checkpoint(): first the attempt's result and usage ...
ReportScan(c, t, outcome) ==
    /\ Working(c, t) /\ t \in ScanTasks
    /\ work[c][t] = "running"
    /\ IF Holds(WorkerOf(c, t), t) /\ MayFinishAttempt(t, ScanReport(outcome))
       THEN RecordScanAttemptResult(WorkerOf(c, t), t, ScanReport(outcome)) /\ Does(c, t, outcome)
       ELSE UNCHANGED vars /\ Raise(c)

\* ... then, in a second transaction, the verdict and the task's transition.
CommitScan(c, t) ==
    /\ Working(c, t) /\ t \in ScanTasks
    /\ work[c][t] \in {"complete", "retryable", "final"}
    /\ IF Holds(WorkerOf(c, t), t) /\ MayFinishAttempt(t, ScanReport(work[c][t]))
       THEN /\ IF work[c][t] = "complete" THEN CompleteTask(WorkerOf(c, t), t)
               ELSE FailTask(WorkerOf(c, t), t, work[c][t] = "retryable")
            /\ Does(c, t, "none")
       ELSE UNCHANGED vars /\ Raise(c)

--------------------------------------------------------------------------------
(* Heartbeats that find their lease gone; a renewal that succeeds changes      *)
(* nothing here, since leases of a running process do not expire.              *)

LockHeartbeat(c) ==
    /\ Running(c)
    /\ pc[c] # "closing"
    /\ ~OwnsLock(c) /\ ~lockLost[c]
    /\ lockLost' = [lockLost EXCEPT ![c] = TRUE]
    /\ UNCHANGED <<vars, lock, leaseLost, pc, work, attempt, overtaken, envVars>>

LeaseHeartbeat(c, t) ==
    /\ Working(c, t) /\ t \in NetTasks
    /\ work[c][t] \in {"running", "verified"}
    /\ ~Holds(NetWorker, t) /\ ~leaseLost[c]
    /\ leaseLost' = [leaseLost EXCEPT ![c] = TRUE]
    /\ UNCHANGED <<vars, lock, lockLost, pc, work, attempt, overtaken, envVars>>

\* renew_active_tasks
ScanHeartbeat(c, t) ==
    /\ Working(c, t) /\ t \in ScanTasks
    /\ work[c][t] = "running"
    /\ ~Holds(WorkerOf(c, t), t)
    /\ UNCHANGED vars
    /\ Raise(c)

--------------------------------------------------------------------------------
(* The environment: time, the operating system and the operator. *)

\* Someone runs and renews the lease of t.
Renewed(t) ==
    \E c \in Coordinators :
        Working(c, t) /\ work[c][t] # "none" /\ WorkerOf(c, t) = tasks[t].owner

ExpireLease(t) ==
    /\ ~Renewed(t)
    /\ LeaseExpires(t)
    /\ UNCHANGED <<lock, localVars, overtaken, envVars>>

ExpireLock ==
    /\ lock.live
    /\ ~Running(lock.owner)
    /\ lock' = [lock EXCEPT !.live = FALSE]
    /\ UNCHANGED <<vars, localVars, overtaken, envVars>>

Crash(c) ==
    /\ Running(c)
    /\ crashes < MaxCrashes
    /\ crashes' = crashes + 1
    /\ pc' = [pc EXCEPT ![c] = "dead"]
    /\ UNCHANGED <<vars, lock, lockLost, leaseLost, work, attempt, overtaken,
                   awake, suspensions>>

Suspend(c) ==
    /\ Running(c)
    /\ suspensions < MaxSuspensions
    /\ suspensions' = suspensions + 1
    /\ awake' = [awake EXCEPT ![c] = FALSE]
    /\ UNCHANGED <<vars, lock, localVars, overtaken, crashes>>

Wake(c) ==
    /\ ~awake[c]
    /\ awake' = [awake EXCEPT ![c] = TRUE]
    /\ UNCHANGED <<vars, lock, localVars, overtaken, crashes, suspensions>>

\* `run-abandon`: the operator's process takes the lock, closes the run and
\* releases the lock, which leaves no row behind.
OperatorAbandons ==
    /\ LockFree
    /\ AbandonRun
    /\ lock' = [owner |-> NoWorker, live |-> FALSE]
    /\ overtaken' = [d \in Coordinators |-> overtaken[d] \/ pc[d] # "idle"]
    /\ UNCHANGED <<localVars, envVars>>

--------------------------------------------------------------------------------
RunProgress(c) ==
    \/ AcquireLock(c)
    \/ OpenRun(c)
    \/ LeaveElsewhere(c)
    \/ FinishStage(c)
    \/ EnterPublication(c)
    \/ FinishPublication(c)
    \/ Unwind(c)
    \/ ReleaseLock(c)

TaskProgress(c, t) ==
    \/ Enqueue(c, t)
    \/ Dispatch(c, t)
    \/ DispatchRefused(c, t)
    \/ VerifyLease(c, t)
    \/ ChargeCall(c, t)
    \/ CommitCall(c, t)
    \/ FailCall(c, t)
    \/ ReportScan(c, t, "complete")
    \/ CommitScan(c, t)
    \/ LeaseHeartbeat(c, t)
    \/ ScanHeartbeat(c, t)

TaskFailure(c, t) ==
    \/ CallFails(c, t)
    \/ MayFail /\ \E outcome \in {"retryable", "final"} : ReportScan(c, t, outcome)

Progress(c) == RunProgress(c) \/ \E t \in Tasks : TaskProgress(c, t)

Passing == ExpireLock \/ (\E t \in Tasks : ExpireLease(t)) \/ (\E c \in Coordinators : Wake(c))

CNext ==
    \/ \E c \in Coordinators :
          \/ RunProgress(c)
          \/ \E t \in Tasks : TaskProgress(c, t) \/ TaskFailure(c, t)
          \/ LockHeartbeat(c)
          \/ Crash(c)
          \/ Suspend(c)
          \/ Wake(c)
    \/ \E t \in Tasks : ExpireLease(t)
    \/ ExpireLock
    \/ OperatorAbandons

CSpec == CInit /\ [][CNext]_allVars

\* A process that keeps running makes progress, time passes, and a host that
\* was suspended resumes.  An invocation that found the lock taken, or followed
\* a crash, is started again: the collector runs from a timer.
Fairness ==
    /\ \A c \in Coordinators : WF_allVars(Progress(c)) /\ WF_allVars(LockHeartbeat(c))
    /\ WF_allVars(Passing)

FairSpec == CSpec /\ Fairness

--------------------------------------------------------------------------------
(* What the lock and the leases promise. *)

\* A coordinator leaves a stage only if nobody has held the network-run lock
\* since it took it, however long it slept and whoever crashed or released in
\* between: acquire_lock overwrites the owner, release_lock deletes only its
\* own row, renew_lock never resurrects an expired lease.
StagesNeedTheLock ==
    [][\A c \in Coordinators :
         /\ pc[c] \in Stages \cup {"publication"}
         /\ pc'[c] \in {"scan", "publication", "finishing"} \ {pc[c]}
         => ~overtaken[c]]_allVars

\* A scan verdict is committed only by the process that was dispatched for the
\* task's latest attempt: a coordinator that lost its lease to a sweep, to a
\* resume or to another process cannot complete the task with its old result.
ScanCommitIsFenced ==
    [][\A t \in ScanTasks :
         tasks[t].outcome = "none" /\ tasks'[t].outcome = "verdict" =>
            \E c \in Coordinators :
                /\ work[c][t] = "complete"
                /\ attempt[c][t] = tasks[t].attempts]_allVars

\* A discovery result is committed only by the coordinator whose call made the
\* task's latest attempt: "A lost lease always rejects the result"
\* (_complete_journaled_network_task).
LostLeaseRejectsResult ==
    [][\A c \in Coordinators, t \in NetTasks :
         /\ work[c][t] = "charged" /\ work'[c][t] = "none"
         /\ pc'[c] = pc[c]
         => attempt[c][t] = tasks[t].attempts]_allVars

\* The attempt that completed a discovery task has its usage recorded, so that
\* a resumed run budgets with what was really spent.
CompletedCallsCharged ==
    \A t \in NetTasks :
        tasks[t].outcome = "verdict" => tasks[t].attempts \in charged[t]

\* "A later complete or explicitly abandoned run closes that recovery window"
\* (resume_compatible_run): a closed run is never open again.
ClosedRunStaysClosed ==
    [][(runStatus \in {"complete", "abandoned"}) => runStatus' = runStatus]_allVars

\* Whatever point a coordinator is killed at, the run ends complete without an
\* operator, as long as another coordinator follows and attempts are left: no
\* crash leaves the journal in a state that resume cannot finish.
CrashedRunCloses == <>(runStatus \in {"complete", "abandoned"})

================================================================================
