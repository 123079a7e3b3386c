------------------------------ MODULE TaskJournal ------------------------------
(***************************************************************************)
(* The durable work journal of one collector run: the `tasks`,             *)
(* `scan_attempts` and `network_task_usage` tables and the status of the   *)
(* run they belong to, with every operation of collector/state.py that     *)
(* changes them.  Each operation runs in one IMMEDIATE SQLite transaction, *)
(* so each is one action here.                                             *)
(*                                                                         *)
(* Repository scans and network tasks share the task table, but only a     *)
(* scan has an attempt ledger: one row per dispatch, opened in the         *)
(* transaction of the lease and closed by the worker's report, by the      *)
(* recovery of an expired lease, by a resume or by an abandonment.         *)
(*                                                                         *)
(* Wall-clock time is abstracted to the one thing the code reads from it,  *)
(* whether lease_expires_at is still in the future: `live`, which          *)
(* LeaseExpires turns off.  Error codes are abstracted to whether they     *)
(* mark an operator's reviewed retry, result documents to whether a        *)
(* complete task holds a worker's verdict or was superseded.               *)
(***************************************************************************)
EXTENDS Naturals, Sequences, FiniteSets

CONSTANTS
    ScanTasks,      \* tasks of stage 'scan'
    NetTasks,       \* tasks of stage 'discovery-query'
    Workers,        \* lease owners
    NoWorker,       \* lease_owner IS NULL
    MaxAttempts,    \* max_attempts given to enqueue_task
    MaxResets       \* bound: operator resets explored (TLC), not in the code

ASSUME JournalAssumption ==
    /\ ScanTasks \cap NetTasks = {}
    /\ NoWorker \notin Workers
    /\ MaxAttempts \in Nat \ {0}
    /\ MaxResets \in Nat

VARIABLES
    runStatus,      \* runs.status of the latest run
    tasks,          \* one record per task key
    ledger,         \* scan_attempts: attempt number -> row, per scan task
    charged,        \* network_task_usage: attempts with a usage row
    resets          \* how often an operator reset failed tasks

vars == <<runStatus, tasks, ledger, charged, resets>>

Tasks == ScanTasks \cup NetTasks

RunStatus == {"none", "running", "failed", "complete", "abandoned"}

TaskStatus == {"absent", "pending", "running", "complete", "failed"}

TaskRow ==
    [status : TaskStatus, attempts : Nat, max : Nat,
     owner : Workers \cup {NoWorker}, live : BOOLEAN,
     reviewed : BOOLEAN, outcome : {"none", "verdict", "superseded"}]

AttemptRow ==
    [status : {"running", "complete", "failed", "interrupted"},
     retryable : BOOLEAN, measured : BOOLEAN]

--------------------------------------------------------------------------------
(* Rows of the attempt ledger. *)

\* The row inserted with the lease; its usage is not known yet.
OpenRow == [status |-> "running", retryable |-> FALSE, measured |-> FALSE]

\* The row a worker's report leaves, with its exact usage.
ClosedRow(status, retryable) ==
    [status |-> status, retryable |-> retryable, measured |-> TRUE]

\* Defect: a row status the schema does not know.
AbandonedRow(retryable) ==
    [status |-> "abandoned", retryable |-> retryable, measured |-> FALSE]

\* The row of a dispatch whose usage can never be known.
InterruptedRow(retryable) ==
    [status |-> "interrupted", retryable |-> retryable, measured |-> FALSE]

\* Defect: the rows stay open.
KeepOpenRows(rows, retryable) == rows

\* UPDATE scan_attempts SET status='interrupted' ... WHERE status='running'
InterruptOpenRows(rows, retryable) ==
    [i \in DOMAIN rows |->
        IF rows[i].status = "running" THEN InterruptedRow(retryable) ELSE rows[i]]

\* An unmeasured attempt that is not an authorized retry bars every later lease.
Barred(rows) ==
    \E i \in DOMAIN rows :
        /\ ~rows[i].measured
        /\ ~(rows[i].status = "interrupted" /\ rows[i].retryable)

Leasable(row, rows) ==
    /\ row.status = "pending"
    /\ row.attempts < row.max
    /\ ~Barred(rows)

\* Defects: attempts are unlimited; a final failure is retried; an attempt of
\* unknown cost is never retried.
RetryBeyondLimit(row, rows, allowUnknown) ==
    row.attempts = 0 \/ rows[row.attempts].status # "failed"
RetryFinalFailure(row, rows, allowUnknown) == row.attempts < row.max
NeverRetryUnknown(row, rows, allowUnknown) ==
    row.attempts < row.max /\ \A i \in DOMAIN rows : rows[i].measured

\* May a scan task be dispatched again, judging by its ledger alone?
MayRetry(row, rows, allowUnknown) ==
    \/ row.attempts = 0
    \/ /\ Len(rows) = row.attempts
       /\ row.attempts < row.max
       /\ LET last == rows[row.attempts] IN
          IF \E i \in DOMAIN rows : ~rows[i].measured
          THEN allowUnknown /\ last.status = "interrupted" /\ last.retryable
          ELSE ~(last.status = "failed" /\ ~last.retryable)

\* The recovered error code is the last attempt's; only without one does the
\* task keep the marker of a reviewed retry.
KeepsReview(row, rows) ==
    /\ row.reviewed
    /\ \/ row.attempts = 0
       \/ Len(rows) = row.attempts /\ rows[row.attempts].status = "complete"

\* Defect: a released task starts counting its attempts afresh.
ReleasedAfresh(row, status) ==
    [row EXCEPT !.status = status, !.owner = NoWorker, !.live = FALSE, !.attempts = 0]

Released(row, status) ==
    [row EXCEPT !.status = status, !.owner = NoWorker, !.live = FALSE]

Leased(row, w) ==
    [row EXCEPT !.status = "running", !.attempts = @ + 1, !.owner = w, !.live = TRUE]

ScanDisposition(row, rows, allowUnknown) ==
    [Released(row, IF MayRetry(row, rows, allowUnknown) THEN "pending" ELSE "failed")
        EXCEPT !.reviewed = KeepsReview(row, rows)]

--------------------------------------------------------------------------------
(* recover_stale_tasks: what the sweep of expired leases makes of the tables. *)

\* Defect: the sweep forgets WHERE status='running'.
WithoutLease(t) == tasks[t].status # "absent" /\ ~tasks[t].live

Stale(t) == tasks[t].status = "running" /\ ~tasks[t].live

SweptRows(t) ==
    IF Stale(t) THEN InterruptOpenRows(ledger[t], TRUE) ELSE ledger[t]

SweptTask(t) ==
    IF ~Stale(t) THEN tasks[t]
    ELSE IF t \in ScanTasks THEN ScanDisposition(tasks[t], SweptRows(t), FALSE)
    ELSE IF tasks[t].attempts < tasks[t].max THEN Released(tasks[t], "pending")
    ELSE [Released(tasks[t], "failed") EXCEPT !.reviewed = FALSE]

\* A lease that its holder may still renew, complete or fail.
Holds(w, t) ==
    /\ tasks[t].status = "running"
    /\ tasks[t].owner = w
    /\ tasks[t].live

--------------------------------------------------------------------------------
Init ==
    /\ runStatus = "none"
    /\ tasks = [t \in Tasks |->
                  [status |-> "absent", attempts |-> 0, max |-> MaxAttempts,
                   owner |-> NoWorker, live |-> FALSE,
                   reviewed |-> FALSE, outcome |-> "none"]]
    /\ ledger = [t \in ScanTasks |-> <<>>]
    /\ charged = [t \in NetTasks |-> {}]
    /\ resets = 0

CreateRun ==
    /\ runStatus = "none"
    /\ runStatus' = "running"
    /\ UNCHANGED <<tasks, ledger, charged, resets>>

\* INSERT ... ON CONFLICT DO NOTHING: a key already journaled keeps its row,
\* so only the first call for a key changes anything.
EnqueueTask(t) ==
    /\ runStatus # "none"
    /\ tasks[t].status = "absent"
    /\ tasks' = [tasks EXCEPT ![t].status = "pending"]
    /\ UNCHANGED <<runStatus, ledger, charged, resets>>

RecoverStaleTasks ==
    /\ \E t \in Tasks : Stale(t)
    /\ tasks' = [t \in Tasks |-> SweptTask(t)]
    /\ ledger' = [t \in ScanTasks |-> SweptRows(t)]
    /\ UNCHANGED <<runStatus, charged, resets>>

\* lease_task_by_id: sweep first, then lease t if the swept row allows it.
LeaseTask(w, t) ==
    /\ t \in ScanTasks => Leasable(SweptTask(t), SweptRows(t))
    /\ t \in NetTasks => Leasable(SweptTask(t), <<>>)
    /\ tasks' = [u \in Tasks |->
                   IF u = t THEN Leased(SweptTask(t), w) ELSE SweptTask(u)]
    /\ ledger' = [u \in ScanTasks |->
                    IF u = t THEN Append(SweptRows(t), OpenRow) ELSE SweptRows(u)]
    /\ UNCHANGED <<runStatus, charged, resets>>

\* renew_task moves lease_expires_at of a live lease only.
RenewTask(w, t) ==
    /\ Holds(w, t)
    /\ UNCHANGED vars

LeaseExpires(t) ==
    /\ tasks[t].status = "running"
    /\ tasks[t].live
    /\ tasks' = [tasks EXCEPT ![t].live = FALSE]
    /\ UNCHANGED <<runStatus, ledger, charged, resets>>

--------------------------------------------------------------------------------
(* Reports of a worker. *)

\* Defects: a report overwrites an earlier one; the ledger is not written.
OverwriteReport(t, closed) == TRUE
LeaveAttemptOpen(t, closed) == ledger' = ledger

\* _finish_scan_attempt raises, and the transaction rolls back, when the row
\* was already closed with another result.
MayFinishAttempt(t, closed) ==
    ledger[t][tasks[t].attempts] \in {OpenRow, closed}

FinishAttempt(t, closed) ==
    ledger' = IF t \in ScanTasks
              THEN [ledger EXCEPT ![t][tasks[t].attempts] = closed]
              ELSE ledger

RecordScanAttemptResult(w, t, closed) ==
    /\ t \in ScanTasks
    /\ Holds(w, t)
    /\ MayFinishAttempt(t, closed)
    /\ FinishAttempt(t, closed)
    /\ UNCHANGED <<runStatus, tasks, charged, resets>>

CompleteTask(w, t) ==
    /\ Holds(w, t)
    /\ t \in ScanTasks => MayFinishAttempt(t, ClosedRow("complete", FALSE))
    /\ FinishAttempt(t, ClosedRow("complete", FALSE))
    /\ tasks' = [tasks EXCEPT ![t] = [Released(@, "complete") EXCEPT
                                        !.reviewed = FALSE, !.outcome = "verdict"]]
    /\ UNCHANGED <<runStatus, charged, resets>>

FailTask(w, t, retry) ==
    /\ Holds(w, t)
    /\ t \in ScanTasks => MayFinishAttempt(t, ClosedRow("failed", retry))
    /\ FinishAttempt(t, ClosedRow("failed", retry))
    /\ tasks' = [tasks EXCEPT ![t] =
                   [Released(@, IF retry /\ @.attempts < @.max
                                THEN "pending" ELSE "failed")
                      EXCEPT !.reviewed = FALSE]]
    /\ UNCHANGED <<runStatus, charged, resets>>

\* No lease is asked for: the attempt number alone must still be the task's.
RecordNetworkTaskUsage(t, attempt) ==
    /\ t \in NetTasks
    /\ attempt > 0
    /\ tasks[t].attempts = attempt
    /\ charged' = [charged EXCEPT ![t] = @ \cup {attempt}]
    /\ UNCHANGED <<runStatus, tasks, ledger, resets>>

--------------------------------------------------------------------------------
(* Operations on the whole run. *)

\* resume_compatible_run closes every open attempt as a charged interruption
\* and judges every unfinished task; leases are not consulted.
ResumeRun ==
    /\ runStatus \in {"running", "failed"}
    /\ runStatus' = "running"
    /\ ledger' = [t \in ScanTasks |-> InterruptOpenRows(ledger[t], TRUE)]
    /\ tasks' = [t \in Tasks |->
         IF t \in ScanTasks
         THEN IF tasks[t].status \in {"pending", "running", "failed"}
              THEN ScanDisposition(tasks[t], InterruptOpenRows(ledger[t], TRUE), TRUE)
              ELSE tasks[t]
         ELSE IF tasks[t].status \in {"running", "failed"}
              THEN Released(tasks[t], IF tasks[t].attempts < tasks[t].max
                                      THEN "pending" ELSE "failed")
              ELSE tasks[t]]
    /\ UNCHANGED <<charged, resets>>

AbandonRun ==
    /\ runStatus \in {"running", "failed"}
    /\ runStatus' = "abandoned"
    /\ ledger' = [t \in ScanTasks |-> InterruptOpenRows(ledger[t], FALSE)]
    /\ tasks' = [t \in Tasks |->
         IF tasks[t].status \in {"pending", "running", "failed"}
         THEN [Released(tasks[t], "failed") EXCEPT !.reviewed = FALSE]
         ELSE tasks[t]]
    /\ UNCHANGED <<charged, resets>>

ResetFailedTasks ==
    /\ runStatus \in {"running", "failed"}
    /\ resets < MaxResets
    /\ runStatus' = "running"
    /\ tasks' = [t \in Tasks |->
         IF tasks[t].status = "failed"
         THEN [Released(tasks[t], "pending") EXCEPT
                 !.max = IF tasks[t].max <= tasks[t].attempts
                         THEN tasks[t].attempts + 1 ELSE tasks[t].max,
                 !.reviewed = TRUE]
         ELSE tasks[t]]
    /\ resets' = resets + 1
    /\ UNCHANGED <<ledger, charged>>

\* A replanned run closes the unfinished work of a stage it no longer selects,
\* whatever state that work is in; the ledger keeps what was spent on it.
SupersedeTasks(stage, keep) ==
    LET dropped == {t \in stage \ keep :
                      tasks[t].status \in {"pending", "running", "failed"}} IN
    /\ dropped # {}
    /\ tasks' = [t \in Tasks |->
         IF t \in dropped
         THEN [Released(tasks[t], "complete") EXCEPT !.outcome = "superseded"]
         ELSE tasks[t]]
    /\ UNCHANGED <<runStatus, ledger, charged, resets>>

Publishable ==
    \A t \in Tasks : tasks[t].status \in {"absent", "complete"}

FinishRun(status) ==
    /\ runStatus # "none"
    /\ status = "complete" => Publishable
    /\ runStatus' = status
    /\ UNCHANGED <<tasks, ledger, charged, resets>>

--------------------------------------------------------------------------------
\* The results record_scan_attempt_result accepts.
Reports ==
    {ClosedRow("complete", FALSE), ClosedRow("failed", TRUE), ClosedRow("failed", FALSE)}

\* Calls that name the run come from a coordinator that created or resumed it
\* and holds the run lock, so the run is still open; Coordinators.tla drops
\* that assumption.  Calls that name a lease come from any worker, however late.
RunStep ==
    \/ CreateRun
    \/ ResumeRun
    \/ AbandonRun
    \/ ResetFailedTasks
    \/ /\ runStatus = "running"
       /\ \/ \E status \in {"complete", "failed"} : FinishRun(status)
          \/ \E stage \in {ScanTasks, NetTasks} :
                \E keep \in SUBSET stage : SupersedeTasks(stage, keep)
          \/ \E t \in Tasks : EnqueueTask(t)

WorkerStep(w, t) ==
    \/ LeaseTask(w, t)
    \/ RenewTask(w, t)
    \/ \E closed \in Reports : RecordScanAttemptResult(w, t, closed)
    \/ CompleteTask(w, t)
    \/ \E retry \in BOOLEAN : FailTask(w, t, retry)

Next ==
    \/ RunStep
    \/ RecoverStaleTasks
    \/ \E t \in Tasks : LeaseExpires(t)
    \/ \E t \in NetTasks : RecordNetworkTaskUsage(t, tasks[t].attempts)
    \/ \E w \in Workers, t \in Tasks : WorkerStep(w, t)

Spec == Init /\ [][Next]_vars

--------------------------------------------------------------------------------
(* What the journal promises. *)

\* The columns of the tables hold values their schema allows.
TypeOK ==
    /\ runStatus \in RunStatus
    /\ tasks \in [Tasks -> TaskRow]
    /\ ledger \in [ScanTasks -> Seq(AttemptRow)]
    /\ charged \in [NetTasks -> SUBSET Nat]
    /\ resets \in Nat

\* Every dispatch is charged exactly once: whatever sequence of crashes, expired
\* leases, resumes, retries and resets a scan task goes through, its attempt
\* counter equals the number of its ledger rows (lease_task_by_id opens the row
\* in the transaction that counts the attempt; nothing resets the counter), so
\* that the count check of scan_attempt_usage never refuses a budget.
EveryDispatchCharged ==
    \A t \in ScanTasks : Len(ledger[t]) = tasks[t].attempts

\* An open attempt row is always the latest one, and belongs to a task that is
\* running or was superseded while it ran: no recovery, retry or reset leaves
\* behind a row that still looks like a live dispatch.
OnlyLatestAttemptOpen ==
    \A t \in ScanTasks : \A i \in DOMAIN ledger[t] :
        ledger[t][i].status = "running" =>
            /\ i = tasks[t].attempts
            /\ \/ tasks[t].status = "running"
               \/ tasks[t].outcome = "superseded"

\* A pending task can be leased: recover_stale_tasks, resume_compatible_run and
\* reset_failed_tasks never requeue work that the guards of lease_task_by_id
\* then refuse for ever, which would wedge the run at "selected scan task could
\* not be leased for dispatch".
PendingIsLeasable ==
    \A t \in Tasks : tasks[t].status = "pending" =>
        Leasable(tasks[t], IF t \in ScanTasks THEN ledger[t] ELSE <<>>)

\* A scan failure reported as non-retryable is dispatched again only after an
\* operator reviewed it, even when the coordinator died between the report
\* (record_scan_attempt_result) and the task's own transition (fail_task).
NonRetryableNeedsReview ==
    \A t \in ScanTasks :
        /\ tasks[t].status = "pending"
        /\ tasks[t].attempts > 0
        /\ ledger[t][tasks[t].attempts] = ClosedRow("failed", FALSE)
        => tasks[t].reviewed

\* The verdict of a completed scan is the one its last dispatch reported: a
\* failed or interrupted attempt never carries a completed task.
VerdictMatchesLedger ==
    \A t \in ScanTasks : tasks[t].outcome = "verdict" =>
        /\ tasks[t].attempts > 0
        /\ ledger[t][tasks[t].attempts] = ClosedRow("complete", FALSE)

\* Prior attempts are never overwritten or reset: a closed ledger row keeps its
\* status, retryability and usage through every later operation, and rows are
\* never removed.
ClosedAttemptsImmutable ==
    [][\A t \in ScanTasks : \A i \in DOMAIN ledger[t] :
         /\ i \in DOMAIN ledger'[t]
         /\ ledger[t][i].status # "running" => ledger'[t][i] = ledger[t][i]]_vars

\* Completed work is final: no resume, sweep, reset, abandonment or replan takes
\* a completed task's result away or dispatches it again.
CompletedWorkIsFinal ==
    [][\A t \in Tasks : tasks[t].status = "complete" => tasks'[t] = tasks[t]]_vars

\* "Reviewed retry reset for an otherwise compatible interrupted run": the
\* resume that every later coordinator starts with must not take back the retry
\* an operator granted while the task still has attempts left.
ReviewedRetrySurvivesResume ==
    [][\A t \in ScanTasks :
         /\ ResumeRun
         /\ tasks[t].reviewed
         /\ tasks[t].status = "pending"
         /\ tasks[t].attempts < tasks[t].max
         => tasks'[t].status = "pending"]_vars

================================================================================
