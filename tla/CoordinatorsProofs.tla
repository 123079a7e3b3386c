--------------------------- MODULE CoordinatorsProofs ---------------------------
(***************************************************************************)
(* Proofs about coordinators that overlap, for any number of coordinators,  *)
(* crashes and tasks.                                                       *)
(*                                                                         *)
(* The stages: the row of runtime_locks names its last taker until that     *)
(* taker deletes it, an invocation takes the lock once, and verify()        *)
(* insists on an unexpired row that names the caller (LockInv).  The scans:  *)
(* every dispatch has a name of its own, so the owner of a task knows its   *)
(* attempt (FenceInv).  These need no assumption.                            *)
(*                                                                         *)
(* What a network call leaves behind, and the status of the run, rest on    *)
(* the lock alone, which does not fence a coordinator that sleeps past its  *)
(* leases: they are proved as long as nobody runs on after being overtaken  *)
(* (NobodyOvertakenRuns), as where processes are killed and never suspended *)
(* (CallInv, OpenInv).  Coordinators then use the journal as TaskJournal    *)
(* specifies, and what is proved of it, its queue included, holds of them.  *)
(*                                                                         *)
(* The last part needs no assumption again: which promises of the journal   *)
(* survive coordinators that overlap in any way (LateInv).                  *)
(***************************************************************************)
EXTENDS Coordinators, TaskJournalProofs

--------------------------------------------------------------------------------
(* The lock. *)

\* A coordinator the lock row names has not been overtaken; one that has not
\* taken the lock yet cannot have been.
LockInv ==
    /\ pc \in [Coordinators -> ProgramSteps]
    /\ overtaken \in [Coordinators -> BOOLEAN]
    /\ \A c \in Coordinators :
          lock.owner = c \/ pc[c] = "idle" => ~overtaken[c]

\* A step that leaves the lock and the history alone and makes nobody idle.
KeepsLock ==
    /\ UNCHANGED <<lock, overtaken>>
    /\ \/ UNCHANGED pc
       \/ \E c \in Coordinators, step \in ProgramSteps \ {"idle"} :
             pc' = [pc EXCEPT ![c] = step]

LEMMA KeptLock == LockInv /\ KeepsLock => LockInv'
<1> SUFFICES ASSUME LockInv, KeepsLock PROVE LockInv'
  OBVIOUS
<1>1. pc' \in [Coordinators -> ProgramSteps]
  BY DEF LockInv, KeepsLock
<1>2. \A c \in Coordinators : pc'[c] = "idle" => pc[c] = "idle"
  BY DEF LockInv, KeepsLock
<1> QED
  BY <1>1, <1>2 DEF LockInv, KeepsLock

LEMMA NobodyIsNoWorker == \A c \in Coordinators : c # NoWorker
  BY JournalAssumption, CoordinatorsAssumption

LEMMA InitLock == CInit => LockInv
  BY DEF CInit, LockInv, ProgramSteps

\* Work on tasks at most moves its coordinator to the handler of run().
AtMostRaises(c) ==
    /\ UNCHANGED <<lock, overtaken>>
    /\ pc' \in {pc, [pc EXCEPT ![c] = "unwinding"]}

LEMMA TaskAtMostRaises ==
  ASSUME NEW c \in Coordinators, NEW t \in Tasks, TaskProgress(c, t) \/ TaskFailure(c, t)
  PROVE  AtMostRaises(c)
<1>1. Raise(c) => AtMostRaises(c)
  BY DEF Raise, AtMostRaises
<1>2. \A step : Does(c, t, step) => AtMostRaises(c)
  BY DEF Does, AtMostRaises
<1>3. CASE Enqueue(c, t) \/ LeaseHeartbeat(c, t) \/ Dispatch(c, t)
  BY <1>3 DEF Enqueue, LeaseHeartbeat, Dispatch, localVars, AtMostRaises
<1>4. CASE DispatchRefused(c, t) \/ FailCall(c, t) \/ ScanHeartbeat(c, t)
  BY <1>1, <1>4 DEF DispatchRefused, FailCall, ScanHeartbeat
<1>5. CASE VerifyLease(c, t) \/ ChargeCall(c, t) \/ CommitCall(c, t) \/ CallFails(c, t)
  BY <1>2, <1>5 DEF VerifyLease, ChargeCall, CommitCall, CallFails
<1>6. CASE CommitScan(c, t) \/ \E outcome : ReportScan(c, t, outcome)
  BY <1>1, <1>2, <1>6 DEF CommitScan, ReportScan
<1> QED
  BY <1>3, <1>4, <1>5, <1>6 DEF TaskProgress, TaskFailure

LEMMA LockNext == LockInv /\ [CNext]_allVars => LockInv'
<1> SUFFICES ASSUME LockInv, [CNext]_allVars PROVE LockInv'
  OBVIOUS
<1> USE NobodyIsNoWorker
<1>1. ASSUME NEW c \in Coordinators, AcquireLock(c) PROVE LockInv'
  <2>1. /\ pc[c] = "idle" /\ lock' = [owner |-> c, live |-> TRUE]
        /\ overtaken' = [d \in Coordinators |-> overtaken[d] \/ (d # c /\ pc[d] # "idle")]
        /\ pc' = [pc EXCEPT ![c] = "opening"]
    BY <1>1 DEF AcquireLock
  <2>2. pc' \in [Coordinators -> ProgramSteps]
    BY <2>1 DEF LockInv, ProgramSteps
  <2>3. ASSUME NEW d \in Coordinators, lock'.owner = d \/ pc'[d] = "idle"
        PROVE  ~overtaken'[d]
    <3>1. pc[d] = "idle"
      BY <2>1, <2>3 DEF LockInv
    <3>2. ~overtaken[d]
      BY <3>1 DEF LockInv
    <3> QED
      BY <2>1, <3>1, <3>2
  <2> QED
    BY <2>1, <2>2, <2>3 DEF LockInv
<1>2. ASSUME NEW c \in Coordinators, ReleaseLock(c) PROVE LockInv'
  <2>1. pc' = [pc EXCEPT ![c] = "done"] /\ overtaken' = overtaken
    BY <1>2 DEF ReleaseLock
  <2>2. \A d \in Coordinators : lock'.owner = d => lock.owner = d
    BY <1>2 DEF ReleaseLock
  <2> QED
    BY <2>1, <2>2 DEF LockInv, ProgramSteps
<1>3. ASSUME NEW c \in Coordinators,
             \/ OpenRun(c) \/ LeaveElsewhere(c) \/ FinishStage(c)
             \/ EnterPublication(c) \/ FinishPublication(c) \/ Unwind(c)
      PROVE LockInv'
  <2>1. \E step \in ProgramSteps \ {"idle"} : GoTo(c, step)
    BY <1>3 DEF OpenRun, LeaveElsewhere, FinishStage, EnterPublication,
                FinishPublication, Unwind, ProgramSteps, Stages
  <2> QED
    BY <2>1, KeptLock DEF GoTo, KeepsLock
<1>4. ASSUME NEW c \in Coordinators, NEW t \in Tasks, TaskProgress(c, t) \/ TaskFailure(c, t)
      PROVE LockInv'
  <2>1. AtMostRaises(c)
    BY <1>4, TaskAtMostRaises
  <2> QED
    BY <2>1, KeptLock DEF AtMostRaises, KeepsLock, ProgramSteps
<1>5. ASSUME NEW c \in Coordinators, LockHeartbeat(c) \/ Suspend(c) \/ Wake(c)
      PROVE LockInv'
  BY <1>5, KeptLock DEF LockHeartbeat, Suspend, Wake, KeepsLock, localVars
<1>6. ASSUME NEW c \in Coordinators, Crash(c) PROVE LockInv'
  <2>1. KeepsLock
    BY <1>6 DEF Crash, KeepsLock, ProgramSteps
  <2> QED
    BY <2>1, KeptLock
<1>7. ASSUME NEW t \in Tasks, ExpireLease(t) PROVE LockInv'
  BY <1>7, KeptLock DEF ExpireLease, KeepsLock, localVars
<1>8. CASE ExpireLock
  BY <1>8 DEF ExpireLock, LockInv, localVars
<1>9. CASE OperatorAbandons
  BY <1>9 DEF OperatorAbandons, LockInv, localVars
<1>10. CASE UNCHANGED allVars
  BY <1>10, KeptLock DEF allVars, localVars, KeepsLock
<1> QED
  BY <1>1, <1>2, <1>3, <1>4, <1>5, <1>6, <1>7, <1>8, <1>9, <1>10
     DEF CNext, RunProgress

\* A coordinator leaves a stage only if nobody has taken the network-run lock
\* since it did, for every schedule of crashes, suspensions and takeovers.
THEOREM StagesAreFenced == CSpec => StagesNeedTheLock
<1>1. ASSUME LockInv, [CNext]_allVars, NEW c \in Coordinators,
             pc[c] \in Stages \cup {"publication"},
             pc'[c] \in {"scan", "publication", "finishing"} \ {pc[c]}
      PROVE  ~overtaken[c]
  <2> USE <1>1
  <2>1. \A d \in Coordinators : \A step :
           pc' = [pc EXCEPT ![d] = step] => d = c /\ step = pc'[c]
    BY DEF LockInv
  <2>2. CASE \E d \in Coordinators : FinishStage(d) \/ EnterPublication(d)
    <3>1. Verified(c)
      BY <2>1, <2>2 DEF FinishStage, EnterPublication, GoTo
    <3> QED
      BY <3>1 DEF Verified, OwnsLock, LockInv
  <2>3. CASE \E d \in Coordinators, t \in Tasks : TaskProgress(d, t) \/ TaskFailure(d, t)
    BY <2>1, <2>3, TaskAtMostRaises DEF AtMostRaises
  <2>4. CASE \E d \in Coordinators :
               \/ AcquireLock(d) \/ OpenRun(d) \/ LeaveElsewhere(d)
               \/ FinishPublication(d) \/ Unwind(d) \/ ReleaseLock(d) \/ Crash(d)
    BY <2>1, <2>4 DEF AcquireLock, OpenRun, LeaveElsewhere, FinishPublication, Unwind,
                      ReleaseLock, Crash, GoTo, Stages
  <2>5. CASE UNCHANGED pc
    BY <2>5
  <2>6. CASE \E d \in Coordinators : LockHeartbeat(d) \/ Suspend(d) \/ Wake(d)
    BY <2>5, <2>6 DEF LockHeartbeat, Suspend, Wake, localVars
  <2>7. CASE (\E t \in Tasks : ExpireLease(t)) \/ ExpireLock \/ OperatorAbandons
    BY <2>5, <2>7 DEF ExpireLease, ExpireLock, OperatorAbandons, localVars
  <2> QED
    BY <2>2, <2>3, <2>4, <2>5, <2>6, <2>7 DEF CNext, RunProgress, allVars, localVars
<1>2. LockInv /\ [CNext]_allVars =>
        [\A c \in Coordinators :
           /\ pc[c] \in Stages \cup {"publication"}
           /\ pc'[c] \in {"scan", "publication", "finishing"} \ {pc[c]}
           => ~overtaken[c]]_allVars
  BY <1>1
<1> QED
  BY <1>2, InitLock, LockNext, PTL DEF CSpec, StagesNeedTheLock

--------------------------------------------------------------------------------
(* What the steps of the coordinators do to the rows of the journal. *)

WorkSteps == {"none", "running", "verified", "charged", "failing", "complete", "retryable", "final"}

\* The tables and what the coordinators remember of their tasks hold such values, and a
\* task with a verdict is complete.
RowsInv ==
    /\ tasks \in [Tasks -> TaskRow]
    /\ work \in [Coordinators -> [Tasks -> WorkSteps]]
    /\ attempt \in [Coordinators -> [Tasks -> Nat]]
    /\ charged \in [NetTasks -> SUBSET Nat]
    /\ \A t \in Tasks : tasks[t].outcome = "verdict" => tasks[t].status = "complete"

\* A row that is not leased anew and gets no verdict.
RowKept(row, row2) ==
    /\ row2 \in TaskRow
    /\ row2.attempts = row.attempts
    /\ row2.owner \in {row.owner, NoWorker}
    /\ row2.outcome = row.outcome
    /\ row.status = "complete" => row2.status = "complete"

RowsKept == tasks' \in [Tasks -> TaskRow] /\ \A t \in Tasks : RowKept(tasks[t], tasks'[t])

LEMMA RowStays == ASSUME NEW row \in TaskRow PROVE RowKept(row, row)
  BY DEF RowKept

LEMMA ReleasedIsKept ==
  ASSUME NEW row \in TaskRow, NEW status \in TaskStatus,
         row.status = "complete" => status = "complete"
  PROVE  /\ RowKept(row, Released(row, status))
         /\ \A reviewed \in BOOLEAN :
               RowKept(row, [Released(row, status) EXCEPT !.reviewed = reviewed])
<1>1. /\ Released(row, status) \in TaskRow
      /\ Released(row, status).attempts = row.attempts
      /\ Released(row, status).owner = NoWorker
      /\ Released(row, status).outcome = row.outcome
      /\ Released(row, status).status = status
  BY DEF Released, TaskRow
<1> DEFINE row2 == Released(row, status)
<1>2. row2 \in TaskRow /\ row2.attempts = row.attempts /\ row2.owner = NoWorker
      /\ row2.outcome = row.outcome /\ row2.status = status
  BY <1>1
<1> HIDE DEF row2
<1>3. ASSUME NEW reviewed \in BOOLEAN PROVE RowKept(row, [row2 EXCEPT !.reviewed = reviewed])
  BY <1>2 DEF RowKept, TaskRow
<1>4. RowKept(row, row2)
  BY <1>2 DEF RowKept
<1> USE DEF row2
<1> QED
  BY <1>3, <1>4

LEMMA DispositionIsKept ==
  ASSUME NEW row \in TaskRow, NEW rows, NEW allowUnknown, row.status /= "complete"
  PROVE  RowKept(row, ScanDisposition(row, rows, allowUnknown))
<1> DEFINE status == IF MayRetry(row, rows, allowUnknown) THEN "pending" ELSE "failed"
           reviewed == KeepsReview(row, rows)
<1>1. status \in TaskStatus /\ reviewed \in BOOLEAN
  BY DEF TaskStatus, KeepsReview
<1>2. ScanDisposition(row, rows, allowUnknown)
        = [Released(row, status) EXCEPT !.reviewed = reviewed]
  BY DEF ScanDisposition
<1> HIDE DEF status, reviewed
<1> QED
  BY <1>1, <1>2, ReleasedIsKept

LEMMA SweptIsKept ==
  ASSUME tasks \in [Tasks -> TaskRow], NEW t \in Tasks PROVE RowKept(tasks[t], SweptTask(t))
<1>1. tasks[t] \in TaskRow
  OBVIOUS
<1>2. "pending" \in TaskStatus /\ "failed" \in TaskStatus
  BY DEF TaskStatus
<1>3. CASE ~Stale(t)
  BY <1>1, <1>3, RowStays DEF SweptTask
<1>4. CASE Stale(t) /\ t \in ScanTasks
  BY <1>1, <1>4, DispositionIsKept DEF SweptTask, Stale
<1>5. CASE Stale(t) /\ t \notin ScanTasks
  <2>1. SweptTask(t) \in {Released(tasks[t], "pending"),
                          [Released(tasks[t], "failed") EXCEPT !.reviewed = FALSE]}
    BY <1>5 DEF SweptTask
  <2>2. tasks[t].status /= "complete"
    BY <1>5 DEF Stale
  <2>3. RowKept(tasks[t], Released(tasks[t], "pending"))
    BY <1>1, <1>2, <2>2, ReleasedIsKept
  <2>4. RowKept(tasks[t], [Released(tasks[t], "failed") EXCEPT !.reviewed = FALSE])
    BY <1>1, <1>2, <2>2, ReleasedIsKept
  <2> QED
    BY <2>1, <2>3, <2>4
<1> QED
  BY <1>3, <1>4, <1>5

LEMMA UntouchedRows ==
  ASSUME tasks \in [Tasks -> TaskRow], tasks' = tasks PROVE RowsKept
<1>1. \A t \in Tasks : RowKept(tasks[t], tasks[t])
  BY RowStays
<1> QED
  BY <1>1 DEF RowsKept

LEMMA SweepKeepsRows ==
  ASSUME tasks \in [Tasks -> TaskRow], RecoverStaleTasks PROVE RowsKept
<1>1. tasks' = [t \in Tasks |-> SweptTask(t)]
  BY DEF RecoverStaleTasks
<1>2. \A t \in Tasks : RowKept(tasks[t], SweptTask(t)) /\ SweptTask(t) \in TaskRow
  BY SweptIsKept DEF RowKept
<1> QED
  BY <1>1, <1>2 DEF RowsKept

LEMMA ResumeKeepsRows ==
  ASSUME tasks \in [Tasks -> TaskRow], ResumeRun PROVE RowsKept
<1>1. ASSUME NEW t \in Tasks PROVE RowKept(tasks[t], tasks'[t])
  <2>1. tasks[t] \in TaskRow
    OBVIOUS
  <2>2. CASE tasks'[t] = tasks[t]
    BY <2>1, <2>2, RowStays
  <2>3. CASE t \in ScanTasks /\ tasks[t].status \in {"pending", "running", "failed"}
    <3>1. tasks'[t] = ScanDisposition(tasks[t], InterruptOpenRows(ledger[t], TRUE), TRUE)
      BY <2>3 DEF ResumeRun
    <3> QED
      BY <2>1, <2>3, <3>1, DispositionIsKept
  <2>4. CASE t \notin ScanTasks /\ tasks[t].status \in {"running", "failed"}
    <3>1. PICK status \in {"pending", "failed"} : tasks'[t] = Released(tasks[t], status)
      BY <2>4 DEF ResumeRun
    <3> QED
      BY <2>1, <2>4, <3>1, ReleasedIsKept DEF TaskStatus
  <2> QED
    BY <2>2, <2>3, <2>4 DEF ResumeRun
<1>2. tasks' = [t \in Tasks |-> tasks'[t]]
  BY DEF ResumeRun
<1>3. \A t \in Tasks : tasks'[t] \in TaskRow
  BY <1>1 DEF RowKept
<1> QED
  BY <1>1, <1>2, <1>3 DEF RowsKept

LEMMA AbandonKeepsRows ==
  ASSUME tasks \in [Tasks -> TaskRow], AbandonRun PROVE RowsKept
<1>1. ASSUME NEW t \in Tasks PROVE RowKept(tasks[t], tasks'[t])
  <2>1. tasks[t] \in TaskRow
    OBVIOUS
  <2>2. CASE tasks[t].status \in {"pending", "running", "failed"}
    <3>1. tasks'[t] = [Released(tasks[t], "failed") EXCEPT !.reviewed = FALSE]
      BY <2>2 DEF AbandonRun
    <3>2. "failed" \in TaskStatus
      BY DEF TaskStatus
    <3> QED
      BY <2>1, <2>2, <3>1, <3>2, ReleasedIsKept
  <2>3. CASE tasks[t].status \notin {"pending", "running", "failed"}
    BY <2>1, <2>3, RowStays DEF AbandonRun
  <2> QED
    BY <2>2, <2>3
<1>2. tasks' = [t \in Tasks |-> tasks'[t]]
  BY DEF AbandonRun
<1>3. \A t \in Tasks : tasks'[t] \in TaskRow
  BY <1>1 DEF RowKept
<1> QED
  BY <1>1, <1>2, <1>3 DEF RowsKept

\* A step that rewrites one row.
LEMMA OneRow ==
  ASSUME tasks \in [Tasks -> TaskRow], NEW t \in Tasks, NEW row, RowKept(tasks[t], row),
         tasks' = [tasks EXCEPT ![t] = row]
  PROVE  RowsKept
<1>1. row \in TaskRow /\ \A u \in Tasks : RowKept(tasks[u], tasks[u])
  BY RowStays DEF RowKept
<1> QED
  BY <1>1 DEF RowsKept

LEMMA FailKeepsRows ==
  ASSUME tasks \in [Tasks -> TaskRow], NEW w, NEW t \in Tasks, NEW retry, FailTask(w, t, retry)
  PROVE  RowsKept
<1> DEFINE status == IF retry /\ tasks[t].attempts < tasks[t].max THEN "pending" ELSE "failed"
           row == [Released(tasks[t], status) EXCEPT !.reviewed = FALSE]
<1>1. tasks' = [tasks EXCEPT ![t] = row] /\ tasks[t].status = "running"
  BY DEF FailTask, Holds
<1>2. status \in TaskStatus
  BY DEF TaskStatus
<1>3. RowKept(tasks[t], row)
  <2> HIDE DEF status
  <2> QED
    BY <1>1, <1>2, ReleasedIsKept
<1> HIDE DEF row
<1> QED
  BY <1>1, <1>3, OneRow

LEMMA EnqueueKeepsRows ==
  ASSUME tasks \in [Tasks -> TaskRow], NEW t \in Tasks, EnqueueTask(t) PROVE RowsKept
<1> DEFINE row == [tasks[t] EXCEPT !.status = "pending"]
<1>1. tasks' = [tasks EXCEPT ![t] = row] /\ tasks[t].status = "absent" /\ tasks[t] \in TaskRow
  BY DEF EnqueueTask
<1>2. RowKept(tasks[t], row)
  BY <1>1 DEF RowKept, TaskRow, TaskStatus
<1> HIDE DEF row
<1> QED
  BY <1>1, <1>2, OneRow

LEMMA ExpiryKeepsRows ==
  ASSUME tasks \in [Tasks -> TaskRow], NEW t \in Tasks, LeaseExpires(t) PROVE RowsKept
<1> DEFINE row == [tasks[t] EXCEPT !.live = FALSE]
<1>1. tasks' = [tasks EXCEPT ![t] = row] /\ tasks[t] \in TaskRow
  BY DEF LeaseExpires
<1>2. RowKept(tasks[t], row)
  BY <1>1 DEF RowKept, TaskRow
<1> HIDE DEF row
<1> QED
  BY <1>1, <1>2, OneRow

\* A lease counts one more attempt, for the worker that takes it.
LEMMA LeaseRows ==
  ASSUME tasks \in [Tasks -> TaskRow], NEW w \in Workers, NEW t \in Tasks, LeaseTask(w, t)
  PROVE  /\ tasks' \in [Tasks -> TaskRow]
         /\ tasks'[t].owner = w /\ tasks'[t].outcome = tasks[t].outcome
         /\ tasks[t].status /= "complete" /\ tasks'[t].status = "running"
         /\ \A u \in Tasks \ {t} : RowKept(tasks[u], tasks'[u])
<1> DEFINE row == SweptTask(t)
<1>1. tasks' = [u \in Tasks |-> IF u = t THEN Leased(row, w) ELSE SweptTask(u)]
  BY DEF LeaseTask
<1>2. \A u \in Tasks : RowKept(tasks[u], SweptTask(u)) /\ SweptTask(u) \in TaskRow
  BY SweptIsKept DEF RowKept
<1>3. row \in TaskRow /\ row.outcome = tasks[t].outcome /\ row.status = "pending"
      /\ tasks[t].status /= "complete"
  BY <1>2 DEF LeaseTask, Leasable, Tasks, RowKept
<1> HIDE DEF row
<1>4. /\ Leased(row, w) \in TaskRow /\ Leased(row, w).owner = w
      /\ Leased(row, w).outcome = row.outcome /\ Leased(row, w).status = "running"
  <2>1. PICK n \in Nat : n = row.attempts + 1
    BY <1>3 DEF TaskRow
  <2>2. Leased(row, w) = [row EXCEPT !.status = "running", !.attempts = n,
                                     !.owner = w, !.live = TRUE]
    BY <2>1 DEF Leased
  <2> QED
    BY <1>3, <2>2 DEF TaskRow, TaskStatus
<1> QED
  BY <1>1, <1>2, <1>3, <1>4

\* A completion gives the verdict and drops the lease.
LEMMA CompletedRows ==
  ASSUME tasks \in [Tasks -> TaskRow], NEW w, NEW t \in Tasks, CompleteTask(w, t)
  PROVE  /\ tasks' \in [Tasks -> TaskRow] /\ tasks[t].owner = w
         /\ tasks'[t].owner = NoWorker /\ tasks'[t].attempts = tasks[t].attempts
         /\ tasks'[t].status = "complete"
         /\ \A u \in Tasks \ {t} : tasks'[u] = tasks[u]
<1> DEFINE row == tasks[t]
           row2 == [Released(row, "complete") EXCEPT !.reviewed = FALSE, !.outcome = "verdict"]
<1>1. tasks' = [tasks EXCEPT ![t] = row2] /\ row.owner = w /\ row \in TaskRow
  BY DEF CompleteTask, Holds
<1>2. /\ row2 \in TaskRow /\ row2.owner = NoWorker /\ row2.attempts = row.attempts
      /\ row2.status = "complete"
  BY <1>1 DEF Released, TaskRow, TaskStatus
<1> HIDE DEF row2
<1> QED
  BY <1>1, <1>2

--------------------------------------------------------------------------------
(* What every step does to a row, and who gives a verdict. *)

\* The journal keeps its rows, a call may be charged, and nothing is dispatched.
Idling ==
    /\ RowsKept /\ attempt' = attempt
    /\ charged' \in [NetTasks -> SUBSET Nat] /\ \A t \in NetTasks : charged[t] \subseteq charged'[t]

\* A coordinator's step on its task.
WorkMoves(c, t) == \E step \in WorkSteps : work' = [work EXCEPT ![c][t] = step]
WorkDropped(c) == work' = [work EXCEPT ![c] = [u \in Tasks |-> "none"]]

Dispatched(c, t) ==
    /\ LeaseTask(WorkerOf(c, t), t)
    /\ attempt' = [attempt EXCEPT ![c][t] = tasks'[t].attempts]
    /\ work' = [work EXCEPT ![c][t] = "running"]

LEMMA WorkerIsKnown == \A c \in Coordinators, t \in Tasks : WorkerOf(c, t) \in Workers
  BY CoordinatorsAssumption DEF WorkerOf

LEMMA WorkStaysTyped ==
  ASSUME work \in [Coordinators -> [Tasks -> WorkSteps]],
         NEW c \in Coordinators, NEW t \in Tasks,
         work' = work \/ WorkMoves(c, t) \/ WorkDropped(c)
  PROVE  work' \in [Coordinators -> [Tasks -> WorkSteps]]
<1>1. CASE WorkMoves(c, t)
  <2>1. PICK step \in WorkSteps : work' = [work EXCEPT ![c][t] = step]
    BY <1>1 DEF WorkMoves
  <2> QED
    BY <2>1
<1>2. CASE WorkDropped(c)
  <2>1. [u \in Tasks |-> "none"] \in [Tasks -> WorkSteps]
    BY DEF WorkSteps
  <2> QED
    BY <1>2, <2>1 DEF WorkDropped
<1> QED
  BY <1>1, <1>2

LEMMA UsageRecorded ==
  ASSUME RowsInv, NEW t, NEW k, RecordNetworkTaskUsage(t, k)
  PROVE  /\ tasks' = tasks /\ t \in NetTasks /\ k = tasks[t].attempts /\ k \in charged'[t]
         /\ charged' \in [NetTasks -> SUBSET Nat]
         /\ \A u \in NetTasks : charged[u] \subseteq charged'[u]
<1>1. /\ t \in NetTasks /\ tasks[t].attempts = k /\ tasks' = tasks
      /\ charged' = [charged EXCEPT ![t] = @ \cup {k}] /\ charged \in [NetTasks -> SUBSET Nat]
  BY DEF RecordNetworkTaskUsage, RowsInv
<1>2. tasks[t] \in TaskRow
  BY <1>1 DEF RowsInv, Tasks
<1>3. k \in Nat
  BY <1>1, <1>2 DEF TaskRow
<1> QED
  BY <1>1, <1>3

LEMMA ChargeIdles ==
  ASSUME RowsInv, attempt' = attempt, tasks' = tasks, charged' = charged PROVE Idling
<1>1. RowsKept
  BY UntouchedRows DEF RowsInv
<1> QED
  BY <1>1 DEF Idling, RowsInv

\* The steps of a coordinator on one task.
LEMMA TaskSteps ==
  ASSUME RowsInv, NEW c \in Coordinators, NEW t \in Tasks, TaskProgress(c, t) \/ TaskFailure(c, t)
  PROVE  /\ work' = work \/ WorkMoves(c, t) \/ WorkDropped(c)
         /\ \/ Idling
            \/ Dispatched(c, t)
            \/ /\ CompleteTask(WorkerOf(c, t), t) /\ attempt' = attempt /\ charged' = charged
               /\ work' = [work EXCEPT ![c][t] = "none"]
               /\ work[c][t] = IF t \in ScanTasks THEN "complete" ELSE "charged"
<1>0. /\ "none" \in WorkSteps /\ "running" \in WorkSteps /\ "charged" \in WorkSteps
      /\ "verified" \in WorkSteps /\ "failing" \in WorkSteps
      /\ {"complete", "retryable", "final"} \subseteq WorkSteps
  BY DEF WorkSteps
<1>1. \A step \in WorkSteps : Does(c, t, step) => WorkMoves(c, t) /\ attempt' = attempt
  BY DEF Does, WorkMoves
<1>2. Raise(c) => WorkDropped(c) /\ attempt' = attempt
  BY DEF Raise, WorkDropped
<1>3. /\ tasks \in [Tasks -> TaskRow] /\ charged \in [NetTasks -> SUBSET Nat]
  BY DEF RowsInv
<1>4. RowsKept /\ attempt' = attempt /\ charged' = charged => Idling
  BY <1>3 DEF Idling
<1>5. UNCHANGED vars => RowsKept /\ charged' = charged
  BY <1>3, UntouchedRows DEF vars
<1>6. CASE Enqueue(c, t)
  BY <1>3, <1>4, <1>6, EnqueueKeepsRows DEF Enqueue, EnqueueTask, localVars
<1>7. CASE Dispatch(c, t)
  BY <1>0, <1>7 DEF Dispatch, Dispatched, WorkMoves
<1>8. CASE DispatchRefused(c, t)
  <2>1. RecoverStaleTasks \/ UNCHANGED vars
    BY <1>8 DEF DispatchRefused
  <2>2. RowsKept /\ charged' = charged
    BY <1>3, <1>5, <2>1, SweepKeepsRows DEF RecoverStaleTasks
  <2> QED
    BY <1>2, <1>4, <1>8, <2>2 DEF DispatchRefused
<1>9. CASE VerifyLease(c, t)
  BY <1>0, <1>1, <1>4, <1>5, <1>9 DEF VerifyLease
<1>10. CASE CallFails(c, t) \/ ChargeCall(c, t)
  <2>1. /\ UNCHANGED vars \/ RecordNetworkTaskUsage(t, attempt[c][t])
        /\ WorkMoves(c, t) /\ attempt' = attempt
    BY <1>0, <1>1, <1>10 DEF CallFails, ChargeCall
  <2>2. ASSUME RecordNetworkTaskUsage(t, attempt[c][t]) PROVE Idling
    BY <1>3, <2>1, <2>2, UsageRecorded, UntouchedRows DEF Idling
  <2> QED
    BY <1>4, <1>5, <2>1, <2>2
<1>11. CASE CommitCall(c, t)
  <2>1. t \notin ScanTasks /\ WorkerOf(c, t) = NetWorker /\ work[c][t] = "charged"
    BY <1>11, JournalAssumption DEF CommitCall, WorkerOf
  <2>2. CASE CompleteTask(NetWorker, t) /\ Does(c, t, "none")
    BY <1>0, <1>1, <2>1, <2>2 DEF CompleteTask, Does
  <2>3. CASE UNCHANGED vars /\ Does(c, t, "failing")
    BY <1>0, <1>1, <1>4, <1>5, <2>3
  <2> QED
    BY <1>11, <2>2, <2>3 DEF CommitCall
<1>12. CASE FailCall(c, t)
  <2>1. (UNCHANGED vars \/ FailTask(NetWorker, t, TRUE)) /\ Raise(c)
    BY <1>12 DEF FailCall
  <2>2. RowsKept /\ charged' = charged
    BY <1>3, <1>5, <2>1, FailKeepsRows DEF FailTask
  <2> QED
    BY <1>2, <1>4, <2>1, <2>2
<1>13. CASE \E outcome \in {"complete", "retryable", "final"} : ReportScan(c, t, outcome)
  <2>1. PICK outcome \in {"complete", "retryable", "final"} : ReportScan(c, t, outcome)
    BY <1>13
  <2>2. CASE Does(c, t, outcome) /\ tasks' = tasks /\ charged' = charged
    BY <1>0, <1>1, <1>3, <1>4, <2>2, UntouchedRows
  <2>3. CASE UNCHANGED vars /\ Raise(c)
    BY <1>2, <1>4, <1>5, <2>3
  <2> QED
    BY <2>1, <2>2, <2>3 DEF ReportScan, RecordScanAttemptResult
<1>14. CASE CommitScan(c, t)
  <2>1. t \in ScanTasks
    BY <1>14 DEF CommitScan
  <2>2. CASE UNCHANGED vars /\ Raise(c)
    BY <1>2, <1>4, <1>5, <2>2
  <2>3. CASE work[c][t] = "complete" /\ CompleteTask(WorkerOf(c, t), t) /\ Does(c, t, "none")
    BY <1>0, <1>1, <2>1, <2>3 DEF CompleteTask, Does
  <2>4. CASE (\E retry : FailTask(WorkerOf(c, t), t, retry)) /\ Does(c, t, "none")
    <3>1. RowsKept /\ charged' = charged
      BY <1>3, <2>4, FailKeepsRows DEF FailTask
    <3> QED
      BY <1>0, <1>1, <1>4, <2>4, <3>1
  <2> QED
    BY <1>14, <2>2, <2>3, <2>4 DEF CommitScan
<1>15. CASE LeaseHeartbeat(c, t)
  BY <1>4, <1>5, <1>15 DEF LeaseHeartbeat
<1>16. CASE ScanHeartbeat(c, t)
  BY <1>2, <1>4, <1>5, <1>16 DEF ScanHeartbeat
<1> QED
  BY <1>6, <1>7, <1>8, <1>9, <1>10, <1>11, <1>12, <1>13, <1>14, <1>15, <1>16
  DEF TaskProgress, TaskFailure

\* The other steps leave the work of the coordinators alone.
LEMMA OtherSteps ==
  ASSUME RowsInv, [CNext]_allVars,
         ~(\E c \in Coordinators, t \in Tasks : TaskProgress(c, t) \/ TaskFailure(c, t))
  PROVE  Idling /\ work' = work /\ charged' = charged
<1>1. tasks \in [Tasks -> TaskRow] /\ charged \in [NetTasks -> SUBSET Nat]
  BY DEF RowsInv
<1>2. RowsKept /\ attempt' = attempt /\ charged' = charged => Idling
  BY <1>1 DEF Idling
<1>3. UNCHANGED vars => RowsKept /\ charged' = charged
  BY <1>1, UntouchedRows DEF vars
<1>4. tasks' = tasks => RowsKept
  BY <1>1, UntouchedRows
<1>5. \A c, step : GoTo(c, step) => work' = work /\ attempt' = attempt
  BY DEF GoTo
<1>6. CASE \E c \in Coordinators :
              \/ AcquireLock(c) \/ LeaveElsewhere(c) \/ FinishStage(c)
              \/ EnterPublication(c) \/ ReleaseLock(c) \/ LockHeartbeat(c)
              \/ Crash(c) \/ Suspend(c) \/ Wake(c)
  BY <1>2, <1>3, <1>5, <1>6 DEF AcquireLock, LeaveElsewhere, FinishStage, EnterPublication,
     ReleaseLock, LockHeartbeat, Crash, Suspend, Wake, localVars
<1>7. CASE \E c \in Coordinators : OpenRun(c)
  <2>1. PICK c \in Coordinators : OpenRun(c)
    BY <1>7
  <2>2. work' = work /\ attempt' = attempt
    BY <1>5, <2>1 DEF OpenRun
  <2>3. CreateRun \/ ResumeRun \/ UNCHANGED vars
    BY <2>1 DEF OpenRun
  <2>4. RowsKept /\ charged' = charged
    BY <1>1, <1>3, <1>4, <2>3, ResumeKeepsRows DEF CreateRun, ResumeRun
  <2> QED
    BY <1>2, <2>2, <2>4
<1>8. CASE \E c \in Coordinators : FinishPublication(c) \/ Unwind(c)
  <2>1. PICK c \in Coordinators : FinishPublication(c) \/ Unwind(c)
    BY <1>8
  <2>2. work' = work /\ attempt' = attempt
    BY <1>5, <2>1 DEF FinishPublication, Unwind
  <2>3. tasks' = tasks /\ charged' = charged
    BY <2>1 DEF FinishPublication, Unwind, FinishRun, vars
  <2> QED
    BY <1>2, <1>4, <2>2, <2>3
<1>9. CASE \E t \in Tasks : ExpireLease(t)
  BY <1>1, <1>2, <1>9, ExpiryKeepsRows DEF ExpireLease, LeaseExpires, localVars
<1>10. CASE ExpireLock
  BY <1>2, <1>3, <1>10 DEF ExpireLock, localVars
<1>11. CASE OperatorAbandons
  <2>1. AbandonRun /\ work' = work /\ attempt' = attempt
    BY <1>11 DEF OperatorAbandons, localVars
  <2> QED
    BY <1>1, <1>2, <2>1, AbandonKeepsRows DEF AbandonRun
<1>12. CASE UNCHANGED allVars
  BY <1>2, <1>3, <1>12 DEF allVars, localVars
<1> QED
  BY <1>6, <1>7, <1>8, <1>9, <1>10, <1>11, <1>12 DEF CNext, RunProgress

\* Every step either keeps the rows, or dispatches or completes one of them.
LEMMA StepKinds ==
  ASSUME RowsInv, [CNext]_allVars
  PROVE  \/ Idling
         \/ \E c \in Coordinators, t \in Tasks :
              \/ Dispatched(c, t)
              \/ /\ CompleteTask(WorkerOf(c, t), t) /\ attempt' = attempt /\ charged' = charged
                 /\ work[c][t] = IF t \in ScanTasks THEN "complete" ELSE "charged"
BY TaskSteps, OtherSteps

LEMMA WorkTyped ==
  ASSUME RowsInv, [CNext]_allVars
  PROVE  work' \in [Coordinators -> [Tasks -> WorkSteps]]
<1>1. work \in [Coordinators -> [Tasks -> WorkSteps]]
  BY DEF RowsInv
<1>2. CASE \E c \in Coordinators, t \in Tasks : TaskProgress(c, t) \/ TaskFailure(c, t)
  BY <1>1, <1>2, TaskSteps, WorkStaysTyped
<1> QED
  BY <1>1, <1>2, OtherSteps

LEMMA DispatchFacts ==
  ASSUME RowsInv, NEW c \in Coordinators, NEW t \in Tasks, Dispatched(c, t)
  PROVE  /\ tasks' \in [Tasks -> TaskRow] /\ charged' = charged
         /\ tasks'[t].owner = WorkerOf(c, t) /\ tasks[t].status /= "complete"
         /\ tasks'[t].outcome = tasks[t].outcome
         /\ \A u \in Tasks \ {t} : RowKept(tasks[u], tasks'[u])
         /\ attempt' \in [Coordinators -> [Tasks -> Nat]]
         /\ attempt'[c][t] = tasks'[t].attempts
         /\ \A d \in Coordinators, u \in Tasks :
               (d /= c \/ u /= t) => attempt'[d][u] = attempt[d][u]
<1>1. WorkerOf(c, t) \in Workers /\ LeaseTask(WorkerOf(c, t), t)
  BY WorkerIsKnown DEF Dispatched
<1>2. tasks \in [Tasks -> TaskRow] /\ attempt \in [Coordinators -> [Tasks -> Nat]]
  BY DEF RowsInv
<1>3. /\ tasks' \in [Tasks -> TaskRow] /\ charged' = charged
      /\ tasks'[t].owner = WorkerOf(c, t) /\ tasks[t].status /= "complete"
      /\ tasks'[t].outcome = tasks[t].outcome
      /\ \A u \in Tasks \ {t} : RowKept(tasks[u], tasks'[u])
  BY <1>1, <1>2, LeaseRows DEF LeaseTask
<1>4. PICK n \in Nat : n = tasks'[t].attempts
  BY <1>3 DEF TaskRow
<1>5. attempt' = [attempt EXCEPT ![c][t] = n]
  BY <1>4 DEF Dispatched
<1> QED
  BY <1>2, <1>3, <1>4, <1>5

LEMMA RowsStep == RowsInv /\ [CNext]_allVars => RowsInv'
<1> SUFFICES ASSUME RowsInv, [CNext]_allVars PROVE RowsInv'
  OBVIOUS
<1>1. work' \in [Coordinators -> [Tasks -> WorkSteps]]
  BY WorkTyped
<1>2. CASE Idling
  <2>1. \A t \in Tasks : tasks'[t].outcome = "verdict" => tasks'[t].status = "complete"
    BY <1>2 DEF Idling, RowsKept, RowKept, RowsInv
  <2> QED
    BY <1>1, <1>2, <2>1 DEF Idling, RowsKept, RowsInv
<1>3. ASSUME NEW c \in Coordinators, NEW t \in Tasks, Dispatched(c, t) PROVE RowsInv'
  <2>1. \A u \in Tasks : tasks'[u].outcome = "verdict" => tasks'[u].status = "complete"
    BY <1>3, DispatchFacts DEF RowsInv, RowKept
  <2> QED
    BY <1>1, <1>3, <2>1, DispatchFacts DEF RowsInv
<1>4. ASSUME NEW c \in Coordinators, NEW t \in Tasks, CompleteTask(WorkerOf(c, t), t),
             attempt' = attempt, charged' = charged
      PROVE RowsInv'
  <2>1. tasks' \in [Tasks -> TaskRow] /\ tasks'[t].status = "complete"
        /\ \A u \in Tasks \ {t} : tasks'[u] = tasks[u]
    BY <1>4, CompletedRows DEF RowsInv
  <2> QED
    BY <1>1, <1>4, <2>1 DEF RowsInv
<1> QED
  BY <1>2, <1>3, <1>4, StepKinds

LEMMA InitRows == CInit => RowsInv
<1> SUFFICES ASSUME CInit PROVE RowsInv
  OBVIOUS
<1>1. tasks \in [Tasks -> TaskRow] /\ \A t \in Tasks : tasks[t].outcome = "none"
  BY JournalAssumption DEF CInit, Init, TaskRow, TaskStatus
<1> QED
  BY <1>1 DEF CInit, Init, RowsInv, WorkSteps

--------------------------------------------------------------------------------
(* Scans.  Their leases are in the name of the process, so the owner of a row is    *)
(* the last one that was dispatched for it, and remembers its latest attempt.       *)

OwnerKnowsAttempt ==
    \A c \in Coordinators, t \in ScanTasks :
        tasks[t].owner = c => attempt[c][t] = tasks[t].attempts

FenceInv == RowsInv /\ OwnerKnowsAttempt

LEMMA InitFence == CInit => FenceInv
<1>1. CInit => \A t \in ScanTasks : tasks[t].owner = NoWorker
  BY DEF CInit, Init, Tasks
<1> QED
  BY <1>1, InitRows, NobodyIsNoWorker DEF FenceInv, OwnerKnowsAttempt

LEMMA FenceNext == FenceInv /\ [CNext]_allVars => FenceInv'
<1> SUFFICES ASSUME FenceInv, [CNext]_allVars PROVE FenceInv'
  OBVIOUS
<1> USE NobodyIsNoWorker
<1>1. RowsInv /\ RowsInv' /\ OwnerKnowsAttempt /\ ScanTasks \subseteq Tasks
  BY RowsStep DEF FenceInv, Tasks
<1>2. CASE Idling
  BY <1>1, <1>2 DEF FenceInv, OwnerKnowsAttempt, Idling, RowsKept, RowKept
<1>3. ASSUME NEW c \in Coordinators, NEW t \in Tasks, Dispatched(c, t) PROVE OwnerKnowsAttempt'
  <2> SUFFICES ASSUME NEW d \in Coordinators, NEW u \in ScanTasks, tasks'[u].owner = d
               PROVE  attempt'[d][u] = tasks'[u].attempts
    BY DEF OwnerKnowsAttempt
  <2>1. CASE u = t
    <3>1. WorkerOf(c, t) = c
      BY <2>1 DEF WorkerOf
    <3> QED
      BY <1>1, <1>3, <2>1, <3>1, DispatchFacts
  <2>2. CASE u /= t
    <3>1. RowKept(tasks[u], tasks'[u]) /\ attempt'[d][u] = attempt[d][u]
      BY <1>1, <1>3, <2>2, DispatchFacts
    <3> QED
      BY <1>1, <3>1 DEF RowKept, OwnerKnowsAttempt
  <2> QED
    BY <2>1, <2>2
<1>4. ASSUME NEW c \in Coordinators, NEW t \in Tasks, CompleteTask(WorkerOf(c, t), t),
             attempt' = attempt
      PROVE OwnerKnowsAttempt'
  <2>1. /\ tasks'[t].owner = NoWorker /\ \A u \in Tasks \ {t} : tasks'[u] = tasks[u]
    BY <1>1, <1>4, CompletedRows DEF RowsInv
  <2> QED
    BY <1>1, <1>4, <2>1 DEF OwnerKnowsAttempt
<1> QED
  BY <1>1, <1>2, <1>3, <1>4, StepKinds DEF FenceInv

\* A scan verdict is committed only by the process that was dispatched for the task's
\* latest attempt, for every schedule of crashes, suspensions, sweeps and resumes.
THEOREM ScanCommitsAreFenced == CSpec => ScanCommitIsFenced
<1> DEFINE Fenced == \A t \in ScanTasks :
               tasks[t].outcome = "none" /\ tasks'[t].outcome = "verdict" =>
                  \E c \in Coordinators :
                      /\ work[c][t] = "complete"
                      /\ attempt[c][t] = tasks[t].attempts
<1>1. ASSUME FenceInv, [CNext]_allVars PROVE Fenced
  <2> SUFFICES ASSUME NEW t \in ScanTasks, tasks[t].outcome = "none",
                      tasks'[t].outcome = "verdict"
               PROVE  \E c \in Coordinators :
                        work[c][t] = "complete" /\ attempt[c][t] = tasks[t].attempts
    OBVIOUS
  <2>1. RowsInv /\ t \in Tasks
    BY <1>1 DEF FenceInv, Tasks
  <2>2. ~Idling
    BY <2>1 DEF Idling, RowsKept, RowKept
  <2>3. ASSUME NEW c \in Coordinators, NEW u \in Tasks PROVE ~Dispatched(c, u)
    BY <2>1, DispatchFacts DEF RowKept
  <2>4. PICK c \in Coordinators, u \in Tasks :
           /\ CompleteTask(WorkerOf(c, u), u)
           /\ work[c][u] = IF u \in ScanTasks THEN "complete" ELSE "charged"
    BY <1>1, <2>1, <2>2, <2>3, StepKinds
  <2>5. u = t /\ tasks[t].owner = WorkerOf(c, t)
    BY <2>1, <2>4, CompletedRows DEF RowsInv
  <2>6. WorkerOf(c, t) = c
    BY DEF WorkerOf
  <2> QED
    BY <1>1, <2>4, <2>5, <2>6 DEF FenceInv, OwnerKnowsAttempt
<1> QED
  BY <1>1, InitFence, FenceNext, PTL DEF CSpec, ScanCommitIsFenced

(* Who is current: a coordinator that took the lock and that nobody overtook.       *)

\* There is at most one, and who has not begun has no work.
CurrentInv ==
    /\ \A c, d \in Coordinators :
          pc[c] /= "idle" /\ ~overtaken[c] /\ pc[d] /= "idle" /\ ~overtaken[d] => c = d
    /\ \A c \in Coordinators, t \in Tasks : pc[c] = "idle" => work[c][t] = "none"

LEMMA TaskRunning ==
  ASSUME NEW c \in Coordinators, NEW t \in Tasks, TaskProgress(c, t) \/ TaskFailure(c, t)
  PROVE  Running(c) /\ awake' = awake /\ suspensions' = suspensions
BY DEF TaskProgress, TaskFailure, Enqueue, Dispatch, DispatchRefused, MayDispatch, VerifyLease,
       ChargeCall, CommitCall, FailCall, ReportScan, CommitScan, LeaseHeartbeat, ScanHeartbeat,
       CallFails, Working, Does, Raise, localVars, envVars


\* Nobody becomes current but who takes the lock, and then it alone is.
LEMMA CurrentSteps ==
  ASSUME LockInv, [CNext]_allVars
  PROVE  /\ \A c \in Coordinators : overtaken[c] => overtaken'[c]
         /\ \A c \in Coordinators : pc'[c] = "idle" => pc[c] = "idle"
         /\ \/ \A c \in Coordinators : pc[c] = "idle" => pc'[c] = "idle"
            \/ \E c \in Coordinators :
                  \A d \in Coordinators \ {c} : pc'[d] = "idle" \/ overtaken'[d]
<1>1. /\ pc \in [Coordinators -> ProgramSteps] /\ overtaken \in [Coordinators -> BOOLEAN]
  BY DEF LockInv
<1> DEFINE Goes(c) == /\ overtaken' = overtaken /\ pc[c] /= "idle"
                      /\ \E step \in ProgramSteps \ {"idle"} : pc' = [pc EXCEPT ![c] = step]
<1>2. ASSUME NEW c \in Coordinators, Goes(c)
      PROVE  /\ overtaken' = overtaken
             /\ \A d \in Coordinators : pc'[d] = "idle" <=> pc[d] = "idle"
  BY <1>1, <1>2
<1>3. ASSUME NEW c \in Coordinators,
             \/ OpenRun(c) \/ LeaveElsewhere(c) \/ FinishStage(c)
             \/ EnterPublication(c) \/ FinishPublication(c) \/ Unwind(c)
      PROVE  Goes(c)
  BY <1>3 DEF OpenRun, LeaveElsewhere, FinishStage, EnterPublication, FinishPublication,
     Unwind, GoTo, ProgramSteps, Stages, Running
<1>4. ASSUME NEW c \in Coordinators, ReleaseLock(c) \/ Crash(c) PROVE Goes(c)
  BY <1>4 DEF ReleaseLock, Crash, ProgramSteps, Running
<1>5. ASSUME NEW c \in Coordinators, NEW t \in Tasks, TaskProgress(c, t) \/ TaskFailure(c, t)
      PROVE  Goes(c) \/ UNCHANGED <<pc, overtaken>>
  <2>1. AtMostRaises(c) /\ pc[c] /= "idle"
    BY <1>5, TaskAtMostRaises, TaskRunning DEF Running
  <2> QED
    BY <2>1 DEF AtMostRaises, ProgramSteps
<1>6. ASSUME NEW c \in Coordinators, AcquireLock(c)
      PROVE  /\ overtaken' = [d \in Coordinators |-> overtaken[d] \/ (d /= c /\ pc[d] /= "idle")]
             /\ pc' = [pc EXCEPT ![c] = "opening"]
  BY <1>6 DEF AcquireLock
<1>7. CASE \E c \in Coordinators : AcquireLock(c)
  BY <1>1, <1>6, <1>7
<1>8. CASE OperatorAbandons
  <2>1. /\ overtaken' = [d \in Coordinators |-> overtaken[d] \/ pc[d] /= "idle"] /\ pc' = pc
    BY <1>8 DEF OperatorAbandons, localVars
  <2> QED
    BY <1>1, <2>1
<1>9. CASE UNCHANGED <<pc, overtaken>>
  BY <1>9
<1>10. ASSUME NEW c \in Coordinators, LockHeartbeat(c) \/ Suspend(c) \/ Wake(c)
       PROVE  UNCHANGED <<pc, overtaken>>
  BY <1>10 DEF LockHeartbeat, Suspend, Wake, localVars
<1>11. (\E t \in Tasks : ExpireLease(t)) \/ ExpireLock \/ UNCHANGED allVars
          => UNCHANGED <<pc, overtaken>>
  BY DEF ExpireLease, ExpireLock, allVars, localVars
<1> HIDE DEF Goes
<1>12. CASE \E c \in Coordinators : Goes(c)
  BY <1>2, <1>12
<1> QED
  BY <1>3, <1>4, <1>5, <1>7, <1>8, <1>9, <1>10, <1>11, <1>12 DEF CNext, RunProgress

LEMMA IdleWork ==
  ASSUME CurrentInv, LockInv, RowsInv, [CNext]_allVars
  PROVE  \A c \in Coordinators, t \in Tasks : pc'[c] = "idle" => work'[c][t] = "none"
<1>1. /\ work \in [Coordinators -> [Tasks -> WorkSteps]]
      /\ \A c \in Coordinators : pc'[c] = "idle" => pc[c] = "idle"
      /\ \A c \in Coordinators, t \in Tasks : pc[c] = "idle" => work[c][t] = "none"
  BY CurrentSteps DEF RowsInv, CurrentInv
<1>2. CASE \E c \in Coordinators, t \in Tasks : TaskProgress(c, t) \/ TaskFailure(c, t)
  <2>1. PICK c \in Coordinators : \E x \in Tasks : TaskProgress(c, x) \/ TaskFailure(c, x)
    BY <1>2
  <2>2. PICK x \in Tasks : TaskProgress(c, x) \/ TaskFailure(c, x)
    BY <2>1
  <2>3. pc[c] /= "idle" /\ (work' = work \/ WorkMoves(c, x) \/ WorkDropped(c))
    BY <2>2, TaskRunning, TaskSteps DEF Running
  <2>4. \A d \in Coordinators \ {c} : work'[d] = work[d]
    BY <1>1, <2>3 DEF WorkMoves, WorkDropped
  <2> QED
    BY <1>1, <2>3, <2>4
<1>3. CASE ~(\E c \in Coordinators, t \in Tasks : TaskProgress(c, t) \/ TaskFailure(c, t))
  BY <1>1, <1>3, OtherSteps
<1> QED
  BY <1>2, <1>3

LEMMA CurrentNext ==
  ASSUME CurrentInv, LockInv, RowsInv, [CNext]_allVars PROVE CurrentInv'
<1>1. ASSUME NEW c \in Coordinators, NEW d \in Coordinators,
             pc'[c] /= "idle", ~overtaken'[c], pc'[d] /= "idle", ~overtaken'[d]
      PROVE  c = d
  BY <1>1, CurrentSteps DEF CurrentInv
<1> QED
  BY <1>1, IdleWork DEF CurrentInv

--------------------------------------------------------------------------------
(* Discovery calls.  Their leases are in the name of the run, and only the lock     *)
(* keeps two coordinators apart; it does while nobody that was overtaken runs.      *)

\* Who sleeps past the end of its lock while another takes it never wakes up.
NobodyOvertakenRuns == \A c \in Coordinators : overtaken[c] => ~Running(c)

\* What the current coordinator charged is the latest attempt, and completed calls are
\* charged.
ChargedInv ==
    /\ \A c \in Coordinators, t \in NetTasks :
          ~overtaken[c] /\ work[c][t] = "charged" =>
             attempt[c][t] = tasks[t].attempts /\ tasks[t].attempts \in charged[t]
    /\ CompletedCallsCharged

CallInv == LockInv /\ RowsInv /\ CurrentInv /\ ChargedInv

\* Who runs is then the current coordinator, and the others are idle or overtaken.
LEMMA RunnerIsCurrent ==
  ASSUME CurrentInv, NobodyOvertakenRuns, NEW c \in Coordinators, Running(c)
  PROVE  /\ pc[c] /= "idle" /\ ~overtaken[c]
         /\ \A d \in Coordinators \ {c} : pc[d] = "idle" \/ overtaken[d]
BY DEF CurrentInv, NobodyOvertakenRuns, Running

\* A call is charged for the attempt its task still has.
LEMMA ChargedNow ==
  ASSUME RowsInv, NEW c \in Coordinators, NEW t \in Tasks, NEW u \in NetTasks,
         TaskProgress(c, t) \/ TaskFailure(c, t), work'[c][u] = "charged"
  PROVE  \/ work[c][u] = "charged" /\ (u /= t \/ ~Dispatched(c, t))
         \/ /\ UNCHANGED <<tasks, attempt>>
            /\ attempt[c][u] = tasks[u].attempts /\ tasks[u].attempts \in charged'[u]
<1>1. work \in [Coordinators -> [Tasks -> WorkSteps]] /\ u \in Tasks
  BY DEF RowsInv, Tasks
<1>2. CASE ChargeCall(c, t)
  <2>1. \/ /\ RecordNetworkTaskUsage(t, attempt[c][t]) /\ attempt' = attempt
           /\ work' = [work EXCEPT ![c][t] = "charged"]
        \/ work' = [work EXCEPT ![c][t] = "failing"]
    BY <1>2 DEF ChargeCall, Does
  <2>2. work[c][t] = "verified"
    BY <1>2 DEF ChargeCall
  <2>3. CASE u = t
    BY <1>1, <2>1, <2>3, UsageRecorded
  <2>4. CASE u /= t
    BY <1>1, <2>1, <2>4
  <2> QED
    BY <2>3, <2>4
<1>3. CASE ~ChargeCall(c, t)
  <2>1. \/ work' = work \/ work' = [work EXCEPT ![c] = [x \in Tasks |-> "none"]]
        \/ \E step \in WorkSteps \ {"charged"} : work' = [work EXCEPT ![c][t] = step]
    <3>0. {"none", "running", "verified", "failing", "complete", "retryable", "final"}
             \subseteq WorkSteps \ {"charged"}
      BY DEF WorkSteps
    <3>1. CASE Enqueue(c, t) \/ LeaseHeartbeat(c, t)
      BY <3>1 DEF Enqueue, LeaseHeartbeat, localVars
    <3>2. CASE Dispatch(c, t)
      BY <3>0, <3>2 DEF Dispatch
    <3>3. CASE DispatchRefused(c, t) \/ FailCall(c, t) \/ ScanHeartbeat(c, t)
      BY <3>3 DEF DispatchRefused, FailCall, ScanHeartbeat, Raise
    <3>4. CASE VerifyLease(c, t) \/ CallFails(c, t) \/ CommitCall(c, t)
      BY <3>0, <3>4 DEF VerifyLease, CallFails, CommitCall, Does
    <3>5. CASE CommitScan(c, t)
      BY <3>0, <3>5 DEF CommitScan, Does, Raise
    <3>6. CASE \E outcome \in {"complete", "retryable", "final"} : ReportScan(c, t, outcome)
      BY <3>0, <3>6 DEF ReportScan, Does, Raise
    <3> QED
      BY <1>3, <3>1, <3>2, <3>3, <3>4, <3>5, <3>6 DEF TaskProgress, TaskFailure
  <2>2. Dispatched(c, t) => work' = [work EXCEPT ![c][t] = "running"]
    BY DEF Dispatched
  <2>3. work[c][u] = "charged"
    BY <1>1, <2>1
  <2>4. u = t => ~Dispatched(c, t)
    BY <1>1, <2>2
  <2> QED
    BY <2>3, <2>4
<1> QED
  BY <1>2, <1>3

LEMMA ChargedNext ==
  ASSUME CallInv, NobodyOvertakenRuns, [CNext]_allVars PROVE ChargedInv'
<1>1. /\ RowsInv /\ CurrentInv /\ LockInv /\ ChargedInv /\ NetTasks \subseteq Tasks
      /\ work \in [Coordinators -> [Tasks -> WorkSteps]] /\ charged \in [NetTasks -> SUBSET Nat]
  BY DEF CallInv, RowsInv, Tasks
<1>2. CASE \E c \in Coordinators, t \in Tasks : TaskProgress(c, t) \/ TaskFailure(c, t)
  <2>1. PICK c \in Coordinators : \E x \in Tasks : TaskProgress(c, x) \/ TaskFailure(c, x)
    BY <1>2
  <2>2. PICK t \in Tasks : TaskProgress(c, t) \/ TaskFailure(c, t)
    BY <2>1
  <2>3. /\ Running(c) /\ ~overtaken[c] /\ overtaken' = overtaken
        /\ \A d \in Coordinators \ {c} : pc[d] = "idle" \/ overtaken[d]
    BY <1>1, <2>2, TaskRunning, TaskAtMostRaises, RunnerIsCurrent DEF AtMostRaises
  <2>4. ASSUME NEW d \in Coordinators, NEW u \in NetTasks, ~overtaken'[d],
               work'[d][u] = "charged"
        PROVE d = c
    <3>1. work' = work \/ WorkMoves(c, t) \/ WorkDropped(c)
      BY <1>1, <2>2, TaskSteps
    <3>2. d /= c => work'[d] = work[d]
      BY <1>1, <3>1 DEF WorkMoves, WorkDropped
    <3> QED
      BY <1>1, <2>3, <2>4, <3>2 DEF CurrentInv
  <2>5. \/ Idling
        \/ Dispatched(c, t)
        \/ /\ CompleteTask(WorkerOf(c, t), t) /\ UNCHANGED <<attempt, charged>>
           /\ work' = [work EXCEPT ![c][t] = "none"]
           /\ work[c][t] = IF t \in ScanTasks THEN "complete" ELSE "charged"
    BY <1>1, <2>2, TaskSteps
  <2>6. ASSUME NEW d \in Coordinators, NEW u \in NetTasks, ~overtaken'[d],
               work'[d][u] = "charged"
        PROVE  attempt'[d][u] = tasks'[u].attempts /\ tasks'[u].attempts \in charged'[u]
    <3>1. d = c
      BY <2>4, <2>6
    <3>2. CASE /\ UNCHANGED <<tasks, attempt>>
               /\ attempt[c][u] = tasks[u].attempts /\ tasks[u].attempts \in charged'[u]
      BY <3>1, <3>2
    <3>3. CASE work[c][u] = "charged" /\ (u /= t \/ ~Dispatched(c, t))
      <4>1. attempt[c][u] = tasks[u].attempts /\ tasks[u].attempts \in charged[u]
        BY <1>1, <2>3, <3>3 DEF ChargedInv
      <4>2. CASE Idling
        BY <1>1, <3>1, <4>1, <4>2 DEF Idling, RowsKept, RowKept
      <4>3. CASE Dispatched(c, t)
        <5>1. /\ charged' = charged /\ RowKept(tasks[u], tasks'[u])
              /\ attempt'[c][u] = attempt[c][u]
          BY <1>1, <3>3, <4>3, DispatchFacts
        <5> QED
          BY <3>1, <4>1, <5>1 DEF RowKept
      <4>4. CASE CompleteTask(WorkerOf(c, t), t) /\ UNCHANGED <<attempt, charged>>
        BY <1>1, <3>1, <4>1, <4>4, CompletedRows DEF RowsInv
      <4> QED
        BY <2>5, <4>2, <4>3, <4>4
    <3> QED
      BY <1>1, <2>2, <2>6, <3>1, <3>2, <3>3, ChargedNow
  <2>7. ASSUME NEW u \in NetTasks, tasks'[u].outcome = "verdict"
        PROVE  tasks'[u].attempts \in charged'[u]
    <3>1. CASE Idling
      BY <1>1, <2>7, <3>1 DEF Idling, RowsKept, RowKept, ChargedInv, CompletedCallsCharged
    <3>2. CASE Dispatched(c, t)
      <4>1. charged' = charged /\ u /= t /\ RowKept(tasks[u], tasks'[u])
        BY <1>1, <2>7, <3>2, DispatchFacts DEF RowsInv
      <4> QED
        BY <1>1, <2>7, <4>1 DEF RowKept, ChargedInv, CompletedCallsCharged
    <3>3. CASE /\ CompleteTask(WorkerOf(c, t), t) /\ charged' = charged
               /\ work[c][t] = IF t \in ScanTasks THEN "complete" ELSE "charged"
      <4>1. /\ tasks'[t].attempts = tasks[t].attempts
            /\ \A x \in Tasks \ {t} : tasks'[x] = tasks[x]
        BY <1>1, <3>3, CompletedRows DEF RowsInv
      <4>2. CASE u = t
        <5>1. work[c][u] = "charged"
          BY <3>3, <4>2, JournalAssumption
        <5> QED
          BY <1>1, <2>3, <3>3, <4>1, <4>2, <5>1 DEF ChargedInv
      <4>3. CASE u /= t
        BY <1>1, <2>7, <3>3, <4>1, <4>3 DEF ChargedInv, CompletedCallsCharged
      <4> QED
        BY <4>2, <4>3
    <3> QED
      BY <2>5, <3>1, <3>2, <3>3
  <2> QED
    BY <2>6, <2>7 DEF ChargedInv, CompletedCallsCharged
<1>3. CASE ~(\E c \in Coordinators, t \in Tasks : TaskProgress(c, t) \/ TaskFailure(c, t))
  <2>1. Idling /\ work' = work /\ attempt' = attempt /\ charged' = charged
    BY <1>1, <1>3, OtherSteps DEF Idling
  <2>2. \A d \in Coordinators : ~overtaken'[d] => ~overtaken[d]
    BY <1>1, CurrentSteps
  <2>3. \A u \in Tasks : RowKept(tasks[u], tasks'[u])
    BY <2>1 DEF Idling, RowsKept
  <2> QED
    BY <1>1, <2>1, <2>2, <2>3 DEF ChargedInv, CompletedCallsCharged, RowKept
<1> QED
  BY <1>2, <1>3

LEMMA InitCall == CInit => CallInv
<1> SUFFICES ASSUME CInit PROVE CallInv
  OBVIOUS
<1>1. CurrentInv
  BY DEF CInit, CurrentInv
<1>2. ChargedInv
  BY DEF CInit, Init, ChargedInv, CompletedCallsCharged, Tasks
<1> QED
  BY <1>1, <1>2, InitLock, InitRows DEF CallInv

LEMMA CallNext == CallInv /\ NobodyOvertakenRuns /\ [CNext]_allVars => CallInv'
<1> SUFFICES ASSUME CallInv, NobodyOvertakenRuns, [CNext]_allVars PROVE CallInv'
  OBVIOUS
<1>1. LockInv' /\ RowsInv' /\ CurrentInv'
  BY LockNext, RowsStep, CurrentNext DEF CallInv
<1> QED
  BY <1>1, ChargedNext DEF CallInv

\* The attempt that completed a discovery task is charged, wherever coordinators are
\* killed and however long they sleep, as long as none runs on after it was overtaken.
THEOREM CompletedCallsAreCharged ==
  CSpec /\ []NobodyOvertakenRuns => []CompletedCallsCharged
<1>1. CallInv => CompletedCallsCharged
  BY DEF CallInv, ChargedInv
<1> QED
  BY <1>1, InitCall, CallNext, PTL DEF CSpec

\* A result is committed only by the coordinator whose call made the latest attempt.
THEOREM LostLeasesReject == CSpec /\ []NobodyOvertakenRuns => LostLeaseRejectsResult
<1> DEFINE Rejects == \A c \in Coordinators, t \in NetTasks :
               /\ work[c][t] = "charged" /\ work'[c][t] = "none"
               /\ pc'[c] = pc[c]
               => attempt[c][t] = tasks[t].attempts
<1>1. ASSUME CallInv, NobodyOvertakenRuns, [CNext]_allVars PROVE Rejects
  <2> SUFFICES ASSUME NEW c \in Coordinators, NEW t \in NetTasks,
                      work[c][t] = "charged", work'[c][t] = "none"
               PROVE  attempt[c][t] = tasks[t].attempts
    OBVIOUS
  <2>1. RowsInv /\ ChargedInv /\ CurrentInv
    BY <1>1 DEF CallInv
  <2>2. PICK d \in Coordinators : \E x \in Tasks : TaskProgress(d, x) \/ TaskFailure(d, x)
    BY <1>1, <2>1, OtherSteps
  <2>3. PICK x \in Tasks : TaskProgress(d, x) \/ TaskFailure(d, x)
    BY <2>2
  <2>4. Running(d) /\ (work' = work \/ WorkMoves(d, x) \/ WorkDropped(d))
    BY <2>1, <2>3, TaskRunning, TaskSteps
  <2>5. d = c
    BY <2>1, <2>4 DEF WorkMoves, WorkDropped, RowsInv
  <2>6. ~overtaken[c]
    BY <1>1, <2>1, <2>4, <2>5, RunnerIsCurrent
  <2> QED
    BY <2>1, <2>6 DEF ChargedInv
<1> QED
  BY <1>1, InitCall, CallNext, PTL DEF CSpec, LostLeaseRejectsResult

--------------------------------------------------------------------------------
(* The assumption holds wherever nobody is suspended: then who runs owns the lock.  *)

\* Nobody sleeps, who runs has the lock, and the lock names nobody that was overtaken.
SoleInv ==
    /\ suspensions = 0 /\ awake = [c \in Coordinators |-> TRUE]
    /\ \A c \in Coordinators : Running(c) => OwnsLock(c)

\* A step that leaves the lock to its owner, and starts nobody.
LEMMA SoleKept ==
  ASSUME SoleInv, LockInv, UNCHANGED <<lock, awake, suspensions>>,
         NEW c \in Coordinators, Running(c), NEW step \in ProgramSteps \ {"idle"},
         pc' = [pc EXCEPT ![c] = step] \/ pc' = pc
  PROVE  SoleInv'
<1>1. pc \in [Coordinators -> ProgramSteps] /\ pc[c] /= "idle"
  BY DEF LockInv, Running
<1>2. \A d \in Coordinators : Running(d)' => Running(d)
  BY <1>1 DEF Running
<1> QED
  BY <1>2 DEF SoleInv, OwnsLock

LEMMA SoleTask ==
  ASSUME SoleInv, LockInv, NEW c \in Coordinators, NEW t \in Tasks,
         TaskProgress(c, t) \/ TaskFailure(c, t)
  PROVE  SoleInv'
<1>1. /\ Running(c) /\ UNCHANGED <<awake, suspensions, lock>>
      /\ pc' = [pc EXCEPT ![c] = "unwinding"] \/ pc' = pc
  BY TaskRunning, TaskAtMostRaises DEF AtMostRaises
<1>2. "unwinding" \in ProgramSteps \ {"idle"}
  BY DEF ProgramSteps
<1> QED
  BY <1>1, <1>2, SoleKept

LEMMA SoleNext ==
  ASSUME MaxSuspensions = 0, SoleInv, LockInv, [CNext]_allVars
  PROVE  SoleInv'
<1>1. CASE \E c \in Coordinators, t \in Tasks : TaskProgress(c, t) \/ TaskFailure(c, t)
  BY <1>1, SoleTask
<1>2. CASE ~(\E c \in Coordinators, t \in Tasks : TaskProgress(c, t) \/ TaskFailure(c, t))
  <2>1. pc \in [Coordinators -> ProgramSteps]
    BY DEF LockInv
  <2>2. ASSUME NEW c \in Coordinators, AcquireLock(c) PROVE SoleInv'
    <3>1. /\ ~lock.live /\ lock' = [owner |-> c, live |-> TRUE]
          /\ pc' = [pc EXCEPT ![c] = "opening"] /\ UNCHANGED <<awake, suspensions>>
      BY <2>2 DEF AcquireLock, LockFree, envVars
    <3>2. \A d \in Coordinators : ~Running(d)
      BY <3>1 DEF SoleInv, OwnsLock
    <3>3. \A d \in Coordinators : Running(d)' => d = c
      BY <2>1, <3>1, <3>2 DEF Running
    <3> QED
      BY <2>1, <3>1, <3>3 DEF SoleInv, OwnsLock
  <2>3. ASSUME NEW c \in Coordinators, ReleaseLock(c) PROVE SoleInv'
    <3>1. /\ Running(c) /\ pc' = [pc EXCEPT ![c] = "done"] /\ UNCHANGED <<awake, suspensions>>
      BY <2>3 DEF ReleaseLock, envVars
    <3>2. \A d \in Coordinators : Running(d) => d = c
      BY <3>1 DEF SoleInv, OwnsLock
    <3>3. \A d \in Coordinators : ~Running(d)'
      BY <2>1, <3>1, <3>2 DEF Running
    <3> QED
      BY <2>1, <3>1, <3>3 DEF SoleInv
  <2>4. ASSUME NEW c \in Coordinators,
               \/ OpenRun(c) \/ LeaveElsewhere(c) \/ FinishStage(c)
               \/ EnterPublication(c) \/ FinishPublication(c) \/ Unwind(c)
        PROVE SoleInv'
    <3>1. Running(c) /\ \E step \in ProgramSteps \ {"idle"} : GoTo(c, step)
      BY <2>4 DEF OpenRun, LeaveElsewhere, FinishStage, EnterPublication, FinishPublication,
         Unwind, ProgramSteps, Stages
    <3> QED
      BY <2>1, <3>1, SoleKept DEF GoTo, envVars
  <2>5. ASSUME NEW c \in Coordinators, Crash(c) PROVE SoleInv'
    <3>1. /\ Running(c) /\ pc' = [pc EXCEPT ![c] = "dead"]
          /\ UNCHANGED <<lock, awake, suspensions>>
      BY <2>5 DEF Crash
    <3>2. "dead" \in ProgramSteps \ {"idle"}
      BY DEF ProgramSteps
    <3> QED
      BY <2>1, <3>1, <3>2, SoleKept
  <2>6. ASSUME NEW c \in Coordinators, Suspend(c) PROVE FALSE
    BY <2>6 DEF Suspend, SoleInv
  <2>7. ASSUME NEW c \in Coordinators, Wake(c) PROVE FALSE
    BY <2>7 DEF Wake, SoleInv
  <2>8. CASE ExpireLock
    <3>1. ~Running(lock.owner) /\ UNCHANGED <<pc, awake, suspensions>>
      BY <2>8 DEF ExpireLock, localVars, envVars
    <3>2. \A d \in Coordinators : ~Running(d)
      BY <3>1 DEF SoleInv, OwnsLock
    <3> QED
      BY <2>1, <3>1, <3>2 DEF SoleInv, Running
  <2>9. CASE OperatorAbandons
    <3>1. ~lock.live /\ UNCHANGED <<pc, awake, suspensions>>
      BY <2>9 DEF OperatorAbandons, LockFree, localVars, envVars
    <3>2. \A d \in Coordinators : ~Running(d)
      BY <3>1 DEF SoleInv, OwnsLock
    <3> QED
      BY <2>1, <3>1, <3>2 DEF SoleInv, Running
  <2>10. CASE UNCHANGED <<lock, pc, awake, suspensions>>
    BY <2>1, <2>10 DEF SoleInv, Running, OwnsLock
  <2>11. ASSUME NEW c \in Coordinators, LockHeartbeat(c)
         PROVE UNCHANGED <<lock, pc, awake, suspensions>>
    BY <2>11 DEF LockHeartbeat, envVars
  <2>12. ASSUME NEW t \in Tasks, ExpireLease(t)
         PROVE UNCHANGED <<lock, pc, awake, suspensions>>
    BY <2>12 DEF ExpireLease, localVars, envVars
  <2>13. UNCHANGED allVars => UNCHANGED <<lock, pc, awake, suspensions>>
    BY DEF allVars, localVars, envVars
  <2> QED
    BY <1>2, <2>2, <2>3, <2>4, <2>5, <2>6, <2>7, <2>8, <2>9, <2>10, <2>11, <2>12, <2>13
    DEF CNext, RunProgress
<1> QED
  BY <1>1, <1>2

LEMMA InitSole == CInit => SoleInv
  BY DEF CInit, SoleInv, Running

\* Where nobody is suspended, nobody that was overtaken runs.
THEOREM NobodySleepsNobodyIsOvertaken ==
  ASSUME MaxSuspensions = 0 PROVE CSpec => []NobodyOvertakenRuns
<1>1. SoleInv /\ LockInv => NobodyOvertakenRuns
  BY DEF SoleInv, LockInv, OwnsLock, NobodyOvertakenRuns
<1> QED
  BY <1>1, InitLock, InitSole, LockNext, SoleNext, PTL DEF CSpec

--------------------------------------------------------------------------------
(* The run.  The current coordinator alone moves it, and nobody closes it meanwhile. *)

OpenSteps == Stages \cup {"publication", "finishing", "unwinding"}

OpenInv == \A c \in Coordinators : ~overtaken[c] /\ pc[c] \in OpenSteps => runStatus = "running"

\* The steps of coordinators that the journal takes whatever the status of the run.
LeaseStep ==
    \/ CreateRun
    \/ ResumeRun
    \/ AbandonRun
    \/ RecoverStaleTasks
    \/ \E t \in Tasks : LeaseExpires(t)
    \/ \E t \in NetTasks : RecordNetworkTaskUsage(t, tasks[t].attempts)
    \/ \E w \in Workers, t \in Tasks : WorkerStep(w, t)

\* Those that it takes only in an open run.
OpenRunStep ==
    \/ \E status \in {"complete", "failed"} : FinishRun(status)
    \/ \E t \in Tasks : EnqueueTask(t)

LEMMA TaskJournalSteps ==
  ASSUME NEW c \in Coordinators, NEW t \in Tasks, TaskProgress(c, t) \/ TaskFailure(c, t)
  PROVE  /\ pc[c] \in Stages
         /\ UNCHANGED vars \/ LeaseStep \/ EnqueueTask(t)
<1>1. pc[c] \in Stages
  BY DEF TaskProgress, TaskFailure, Enqueue, Dispatch, DispatchRefused, MayDispatch,
     VerifyLease, ChargeCall, CommitCall, FailCall, ReportScan, CommitScan, LeaseHeartbeat,
     ScanHeartbeat, CallFails, Working
<1>2. WorkerOf(c, t) \in Workers /\ NetWorker \in Workers
  BY WorkerIsKnown, CoordinatorsAssumption
<1>3. \A w \in Workers : WorkerStep(w, t) => LeaseStep
  BY DEF LeaseStep
<1>4. CASE Enqueue(c, t)
  BY <1>1, <1>4 DEF Enqueue
<1>5. CASE Dispatch(c, t)
  BY <1>1, <1>2, <1>3, <1>5 DEF Dispatch, WorkerStep
<1>6. CASE DispatchRefused(c, t)
  BY <1>1, <1>6 DEF DispatchRefused, LeaseStep
<1>7. CASE VerifyLease(c, t) \/ LeaseHeartbeat(c, t) \/ ScanHeartbeat(c, t)
  BY <1>1, <1>7 DEF VerifyLease, LeaseHeartbeat, ScanHeartbeat
<1>8. CASE CallFails(c, t) \/ ChargeCall(c, t)
  <2>1. \/ UNCHANGED vars
        \/ t \in NetTasks /\ RecordNetworkTaskUsage(t, tasks[t].attempts)
    BY <1>8 DEF CallFails, ChargeCall
  <2> QED
    BY <1>1, <2>1 DEF LeaseStep
<1>9. CASE CommitCall(c, t)
  BY <1>1, <1>2, <1>3, <1>9 DEF CommitCall, WorkerStep
<1>10. CASE FailCall(c, t)
  BY <1>1, <1>2, <1>3, <1>10 DEF FailCall, WorkerStep
<1>11. CASE \E outcome \in {"complete", "retryable", "final"} : ReportScan(c, t, outcome)
  <2>1. PICK outcome \in {"complete", "retryable", "final"} : ReportScan(c, t, outcome)
    BY <1>11
  <2>2. ScanReport(outcome) \in Reports
    BY <2>1 DEF ScanReport, Reports
  <2>3. UNCHANGED vars \/ RecordScanAttemptResult(WorkerOf(c, t), t, ScanReport(outcome))
    BY <2>1 DEF ReportScan
  <2> QED
    BY <1>1, <1>2, <1>3, <2>2, <2>3 DEF WorkerStep
<1>12. CASE CommitScan(c, t)
  <2>1. \/ UNCHANGED vars \/ CompleteTask(WorkerOf(c, t), t)
        \/ FailTask(WorkerOf(c, t), t, work[c][t] = "retryable")
    BY <1>12 DEF CommitScan
  <2>2. (work[c][t] = "retryable") \in BOOLEAN
    OBVIOUS
  <2> QED
    BY <1>1, <1>2, <1>3, <2>1, <2>2 DEF WorkerStep
<1> QED
  BY <1>1, <1>4, <1>5, <1>6, <1>7, <1>8, <1>9, <1>10, <1>11, <1>12 DEF TaskProgress, TaskFailure

\* Every step of a coordinator is one of the journal or leaves it alone.
LEMMA JournalSteps ==
  ASSUME [CNext]_allVars
  PROVE  \/ UNCHANGED vars
         \/ LeaseStep
         \/ OpenRunStep /\ \E c \in Coordinators : Running(c) /\ pc[c] \in OpenSteps
<1>1. CASE \E c \in Coordinators, t \in Tasks : TaskProgress(c, t) \/ TaskFailure(c, t)
  <2>1. PICK c \in Coordinators : \E t \in Tasks : TaskProgress(c, t) \/ TaskFailure(c, t)
    BY <1>1
  <2>2. PICK t \in Tasks : TaskProgress(c, t) \/ TaskFailure(c, t)
    BY <2>1
  <2>3. Running(c) /\ pc[c] \in OpenSteps /\ (UNCHANGED vars \/ LeaseStep \/ EnqueueTask(t))
    BY <2>2, TaskRunning, TaskJournalSteps DEF OpenSteps
  <2> QED
    BY <2>3 DEF OpenRunStep
<1>2. ASSUME NEW c \in Coordinators, OpenRun(c) PROVE UNCHANGED vars \/ LeaseStep
  BY <1>2 DEF OpenRun, LeaseStep
<1>3. ASSUME NEW c \in Coordinators, FinishPublication(c) \/ Unwind(c)
      PROVE  UNCHANGED vars \/ (OpenRunStep /\ Running(c) /\ pc[c] \in OpenSteps)
  BY <1>3 DEF FinishPublication, Unwind, OpenRunStep, OpenSteps
<1>4. ASSUME NEW c \in Coordinators,
             \/ AcquireLock(c) \/ LeaveElsewhere(c) \/ FinishStage(c) \/ EnterPublication(c)
             \/ ReleaseLock(c) \/ LockHeartbeat(c) \/ Crash(c) \/ Suspend(c) \/ Wake(c)
      PROVE  UNCHANGED vars
  BY <1>4 DEF AcquireLock, LeaveElsewhere, FinishStage, EnterPublication, ReleaseLock,
     LockHeartbeat, Crash, Suspend, Wake
<1>5. CASE \E t \in Tasks : ExpireLease(t)
  BY <1>5 DEF ExpireLease, LeaseStep
<1>6. CASE OperatorAbandons
  BY <1>6 DEF OperatorAbandons, LeaseStep
<1>7. CASE ExpireLock \/ UNCHANGED allVars
  BY <1>7 DEF ExpireLock, allVars
<1> QED
  BY <1>1, <1>2, <1>3, <1>4, <1>5, <1>6, <1>7 DEF CNext, RunProgress

\* What happens to the run, and where it takes the coordinators.
LEMMA RunSteps ==
  ASSUME LockInv, [CNext]_allVars
  PROVE  \/ /\ runStatus' = runStatus
            /\ \A c \in Coordinators : pc'[c] \in OpenSteps => pc[c] \in OpenSteps
         \/ runStatus \notin {"complete", "abandoned"} /\ runStatus' = "running"
         \/ \E c \in Coordinators :
               /\ Running(c) /\ pc[c] \in OpenSteps /\ overtaken' = overtaken
               /\ pc' = [pc EXCEPT ![c] = "closing"]
         \/ /\ runStatus \notin {"complete", "abandoned"}
            /\ \A c \in Coordinators : pc'[c] = "idle" \/ overtaken'[c]
<1>1. pc \in [Coordinators -> ProgramSteps] /\ overtaken \in [Coordinators -> BOOLEAN]
  BY DEF LockInv
<1>2. CASE \E c \in Coordinators, t \in Tasks : TaskProgress(c, t) \/ TaskFailure(c, t)
  <2>1. PICK c \in Coordinators : \E t \in Tasks : TaskProgress(c, t) \/ TaskFailure(c, t)
    BY <1>2
  <2>2. PICK t \in Tasks : TaskProgress(c, t) \/ TaskFailure(c, t)
    BY <2>1
  <2>3. pc[c] \in OpenSteps /\ pc' \in {pc, [pc EXCEPT ![c] = "unwinding"]}
    BY <2>2, TaskJournalSteps, TaskAtMostRaises DEF AtMostRaises, OpenSteps
  <2>4. runStatus' = runStatus
    BY <2>2 DEF TaskProgress, TaskFailure, Enqueue, Dispatch, DispatchRefused, VerifyLease,
       ChargeCall, CommitCall, FailCall, ReportScan, CommitScan, LeaseHeartbeat, ScanHeartbeat,
       CallFails, vars, EnqueueTask, LeaseTask, RecoverStaleTasks, RecordNetworkTaskUsage,
       CompleteTask, FailTask, RecordScanAttemptResult
  <2> QED
    BY <1>1, <2>3, <2>4
<1>3. ASSUME NEW c \in Coordinators, OpenRun(c)
      PROVE  \/ runStatus \notin {"complete", "abandoned"} /\ runStatus' = "running"
             \/ runStatus' = runStatus /\ pc' = [pc EXCEPT ![c] = "elsewhere"]
  BY <1>3 DEF OpenRun, CreateRun, ResumeRun, GoTo, vars
<1>4. ASSUME NEW c \in Coordinators, FinishStage(c) \/ EnterPublication(c)
      PROVE  /\ runStatus' = runStatus /\ pc[c] \in OpenSteps
             /\ \E step : pc' = [pc EXCEPT ![c] = step]
  BY <1>4 DEF FinishStage, EnterPublication, GoTo, vars, OpenSteps
<1>5. ASSUME NEW c \in Coordinators, FinishPublication(c) \/ Unwind(c)
      PROVE  \/ runStatus' = runStatus /\ pc' = [pc EXCEPT ![c] = "unwinding"]
                /\ pc[c] \in OpenSteps
             \/ /\ Running(c) /\ pc[c] \in OpenSteps /\ overtaken' = overtaken
                /\ pc' = [pc EXCEPT ![c] = "closing"]
  BY <1>5 DEF FinishPublication, Unwind, GoTo, vars, OpenSteps
<1>6. ASSUME NEW c \in Coordinators,
             AcquireLock(c) \/ LeaveElsewhere(c) \/ ReleaseLock(c) \/ Crash(c)
      PROVE  /\ runStatus' = runStatus
             /\ \E step \in {"opening", "closing", "done", "dead"} : pc' = [pc EXCEPT ![c] = step]
  BY <1>6 DEF AcquireLock, LeaveElsewhere, ReleaseLock, Crash, GoTo, vars
<1>7. ASSUME NEW c \in Coordinators, LockHeartbeat(c) \/ Suspend(c) \/ Wake(c)
      PROVE  UNCHANGED <<runStatus, pc>>
  BY <1>7 DEF LockHeartbeat, Suspend, Wake, vars, localVars
<1>8. (\E t \in Tasks : ExpireLease(t)) \/ ExpireLock \/ UNCHANGED allVars
         => UNCHANGED <<runStatus, pc>>
  BY DEF ExpireLease, LeaseExpires, ExpireLock, allVars, vars, localVars
<1>9. CASE OperatorAbandons
  <2>1. /\ runStatus \notin {"complete", "abandoned"} /\ pc' = pc
        /\ overtaken' = [d \in Coordinators |-> overtaken[d] \/ pc[d] /= "idle"]
    BY <1>9 DEF OperatorAbandons, AbandonRun, localVars
  <2> QED
    BY <2>1
<1>10. ASSUME NEW c \in Coordinators,
              NEW step, pc[c] \in OpenSteps \/ step \notin OpenSteps,
              pc' = [pc EXCEPT ![c] = step]
       PROVE  \A d \in Coordinators : pc'[d] \in OpenSteps => pc[d] \in OpenSteps
  BY <1>1, <1>10
<1>11. {"opening", "closing", "done", "dead", "elsewhere"} \cap OpenSteps = {}
  BY DEF OpenSteps, Stages
<1>12. CASE \E c \in Coordinators : OpenRun(c)
  BY <1>3, <1>10, <1>11, <1>12
<1>13. CASE \E c \in Coordinators : FinishStage(c) \/ EnterPublication(c)
  BY <1>4, <1>10, <1>13
<1>14. CASE \E c \in Coordinators : FinishPublication(c) \/ Unwind(c)
  BY <1>5, <1>10, <1>14
<1>15. CASE \E c \in Coordinators :
              AcquireLock(c) \/ LeaveElsewhere(c) \/ ReleaseLock(c) \/ Crash(c)
  BY <1>6, <1>10, <1>11, <1>15
<1> QED
  BY <1>2, <1>7, <1>8, <1>9, <1>12, <1>13, <1>14, <1>15 DEF CNext, RunProgress

LEMMA OpenNext ==
  ASSUME CallInv, OpenInv, NobodyOvertakenRuns, [CNext]_allVars
  PROVE  /\ OpenInv'
         /\ runStatus \in {"complete", "abandoned"} => runStatus' = runStatus
<1>1. LockInv /\ CurrentInv /\ \A c \in Coordinators : ~overtaken'[c] => ~overtaken[c]
  BY CurrentSteps DEF CallInv
<1>2. CASE \E c \in Coordinators :
              /\ Running(c) /\ pc[c] \in OpenSteps /\ overtaken' = overtaken
              /\ pc' = [pc EXCEPT ![c] = "closing"]
  <2>1. PICK c \in Coordinators :
              /\ Running(c) /\ pc[c] \in OpenSteps /\ overtaken' = overtaken
              /\ pc' = [pc EXCEPT ![c] = "closing"]
    BY <1>2
  <2>2. ~overtaken[c] /\ \A d \in Coordinators \ {c} : pc[d] = "idle" \/ overtaken[d]
    BY <1>1, <2>1, RunnerIsCurrent
  <2>3. runStatus = "running"
    BY <2>1, <2>2 DEF OpenInv
  <2>4. "closing" \notin OpenSteps /\ "idle" \notin OpenSteps
    BY DEF OpenSteps, Stages
  <2>5. ASSUME NEW d \in Coordinators, ~overtaken'[d] PROVE pc'[d] \notin OpenSteps
    BY <1>1, <2>1, <2>2, <2>4, <2>5 DEF LockInv
  <2> QED
    BY <2>3, <2>5 DEF OpenInv
<1>3. CASE /\ runStatus' = runStatus
           /\ \A c \in Coordinators : pc'[c] \in OpenSteps => pc[c] \in OpenSteps
  BY <1>1, <1>3 DEF OpenInv
<1>4. CASE runStatus \notin {"complete", "abandoned"} /\ runStatus' = "running"
  BY <1>4 DEF OpenInv
<1>5. CASE /\ runStatus \notin {"complete", "abandoned"}
           /\ \A c \in Coordinators : pc'[c] = "idle" \/ overtaken'[c]
  BY <1>5 DEF OpenInv, OpenSteps, Stages
<1> QED
  BY <1>1, <1>2, <1>3, <1>4, <1>5, RunSteps

LEMMA InitOpen == CInit => OpenInv
  BY DEF CInit, OpenInv, OpenSteps, Stages

\* A closed run is never open again, as long as no coordinator runs on after it was
\* overtaken.
THEOREM ClosedRunsStayClosed == CSpec /\ []NobodyOvertakenRuns => ClosedRunStaysClosed
<1>1. CallInv /\ OpenInv /\ NobodyOvertakenRuns /\ [CNext]_allVars =>
         OpenInv' /\ ((runStatus \in {"complete", "abandoned"}) => runStatus' = runStatus)
  BY OpenNext
<1> QED
  BY <1>1, InitOpen, InitCall, CallNext, PTL DEF CSpec, ClosedRunStaysClosed

\* Coordinators use the journal as its specification assumes: what they name the run in
\* finds it open, although neither the code of TaskJournal nor SQLite checks it.
THEOREM CoordinatorsUseTheJournal == CSpec /\ []NobodyOvertakenRuns => Spec
<1>1. CInit => Init
  BY DEF CInit
<1>2. ASSUME CallInv, OpenInv, NobodyOvertakenRuns, [CNext]_allVars PROVE [Next]_vars
  <2>1. CASE LeaseStep
    BY <2>1 DEF LeaseStep, Next, RunStep
  <2>2. CASE OpenRunStep /\ \E c \in Coordinators : Running(c) /\ pc[c] \in OpenSteps
    <3>1. runStatus = "running"
      BY <1>2, <2>2, RunnerIsCurrent DEF CallInv, OpenInv
    <3> QED
      BY <2>2, <3>1 DEF OpenRunStep, Next, RunStep
  <2> QED
    BY <1>2, <2>1, <2>2, JournalSteps
<1>3. CallInv /\ OpenInv /\ NobodyOvertakenRuns /\ [CNext]_allVars => OpenInv'
  BY OpenNext
<1> QED
  BY <1>1, <1>2, <1>3, InitOpen, InitCall, CallNext, PTL DEF CSpec, Spec

\* Whatever coordinators are killed, fall asleep or follow one another, the journal they
\* share is a queue with bounded grants, final results and runs that stay closed.
THEOREM CoordinatorsShareAQueue == CSpec /\ []NobodyOvertakenRuns => ImplementsQueue
BY CoordinatorsUseTheJournal, JournalImplementsQueue, PTL

\* Killed processes alone never break the queue.
THEOREM CrashesKeepTheQueue ==
  ASSUME MaxSuspensions = 0 PROVE CSpec => ImplementsQueue
<1>1. CSpec => []NobodyOvertakenRuns
  BY NobodySleepsNobodyIsOvertaken
<1> QED
  BY <1>1, CoordinatorsShareAQueue, PTL

--------------------------------------------------------------------------------
(* The journal itself, with no assumption on who runs.  A coordinator that was       *)
(* overtaken may close, fail or refill a run that an operator abandoned, and the next *)
(* invocation resumes it.  What an abandonment cut off stays cut off: the task's last *)
(* attempt is barred, and nothing a coordinator does dispatches the task again.       *)

CutOff(row, rows) ==
    /\ ScanOK(row, rows, "abandoned")
    /\ row.attempts > 0 /\ row.status \in {"failed", "complete"}
    /\ \A i \in 1..Len(rows) : rows[i] = InterruptedRow(FALSE) <=> i = row.attempts

LateOK(row, rows) == ScanOK(row, rows, "running") \/ CutOff(row, rows)

LateInv ==
    /\ runStatus \in RunStatus
    /\ DOMAIN tasks = Tasks /\ tasks = [t \in Tasks |-> tasks[t]]
    /\ DOMAIN ledger = ScanTasks /\ ledger = [t \in ScanTasks |-> ledger[t]]
    /\ charged \in [NetTasks -> SUBSET Nat]
    /\ resets \in Nat
    /\ \A t \in NetTasks : RowOK(tasks[t], "running")
    /\ \A t \in ScanTasks : LateOK(tasks[t], ledger[t])

LEMMA LateRow == ASSUME LateInv, NEW t \in Tasks PROVE RowOK(tasks[t], "running")
BY DEF LateInv, LateOK, CutOff, ScanOK, RowOK, Tasks

LEMMA LateUnfinished ==
  ASSUME NEW row, NEW rows, LateOK(row, rows), row.status \notin {"failed", "complete"}
  PROVE  ScanOK(row, rows, "running")
BY DEF LateOK, CutOff

\* The last attempt of a task that is cut off is closed, and it is not retried.
LEMMA CutOffFacts ==
  ASSUME NEW row, NEW rows, CutOff(row, rows)
  PROVE  /\ row \in TaskRow /\ row.attempts \in Nat /\ row.attempts > 0
         /\ rows \in Seq(AttemptRow) /\ Len(rows) = row.attempts
         /\ rows[row.attempts] = InterruptedRow(FALSE)
         /\ \A retryable \in BOOLEAN : InterruptOpenRows(rows, retryable) = rows
         /\ \A allow \in BOOLEAN : ~MayRetry(row, rows, allow)
<1>1. /\ row \in TaskRow /\ row.attempts \in Nat /\ row.attempts > 0
      /\ rows \in Seq(AttemptRow) /\ Len(rows) = row.attempts
      /\ rows[row.attempts] = InterruptedRow(FALSE)
      /\ \A i \in 1..Len(rows) : rows[i] \in RowShapes /\ (rows[i] = OpenRow => i = row.attempts)
  <2>1. row \in TaskRow /\ row.attempts \in Nat /\ row.attempts > 0
    BY DEF CutOff, ScanOK, RowOK, TaskRow
  <2>2. /\ rows \in Seq(AttemptRow) /\ Len(rows) = row.attempts
        /\ \A i \in 1..Len(rows) :
              rows[i] \in RowShapes /\ (rows[i] = OpenRow => i = row.attempts)
    BY DEF CutOff, ScanOK, LedgerOK
  <2>3. row.attempts \in 1..Len(rows)
    BY <2>1, <2>2
  <2>4. \A i \in 1..Len(rows) : rows[i] = InterruptedRow(FALSE) <=> i = row.attempts
    BY DEF CutOff
  <2> QED
    BY <2>1, <2>2, <2>3, <2>4
<1>2. InterruptedRow(FALSE) /= OpenRow
  BY DEF InterruptedRow, OpenRow
<1>3. DOMAIN rows = 1..Len(rows) /\ rows = [i \in 1..Len(rows) |-> rows[i]]
  BY <1>1
<1>4. \A i \in 1..Len(rows) : rows[i].status /= "running"
  BY <1>1, <1>2, ShapeFacts
<1>5. ASSUME NEW retryable \in BOOLEAN PROVE InterruptOpenRows(rows, retryable) = rows
  BY <1>3, <1>4 DEF InterruptOpenRows
<1>6. ASSUME NEW allow \in BOOLEAN PROVE ~MayRetry(row, rows, allow)
  <2>1. /\ ~rows[row.attempts].measured /\ ~rows[row.attempts].retryable
        /\ row.attempts \in DOMAIN rows /\ row.attempts /= 0
    BY <1>1, <1>3 DEF InterruptedRow
  <2> QED
    BY <2>1, Zenon DEF MayRetry
<1> QED
  BY <1>1, <1>5, <1>6

\* A row that is closed in an abandoned run and whose earlier attempts may be retried.
LEMMA AbandonedIsLate ==
  ASSUME NEW row, NEW rows, ScanOK(row, rows, "abandoned"),
         \A i \in 1..Len(rows) : rows[i] = InterruptedRow(FALSE) =>
            i = row.attempts /\ row.status \in {"failed", "complete"}
  PROVE  LateOK(row, rows)
<1>1. /\ RowOK(row, "running") /\ row.attempts \in Nat /\ Len(rows) = row.attempts
      /\ RowOK(row, "abandoned") /\ LedgerOK(row, rows, "abandoned") /\ LastRowOK(row, rows)
  BY DEF ScanOK, RowOK, LedgerOK, TaskRow
<1>2. CASE \E i \in 1..Len(rows) : rows[i] = InterruptedRow(FALSE)
  <2>1. /\ row.attempts > 0 /\ row.status \in {"failed", "complete"}
        /\ row.attempts \in 1..Len(rows)
        /\ rows[row.attempts] = InterruptedRow(FALSE)
    <3>1. PICK i \in 1..Len(rows) : rows[i] = InterruptedRow(FALSE)
      BY <1>2
    <3>2. i = row.attempts /\ row.status \in {"failed", "complete"}
      BY <3>1
    <3>3. row.attempts \in Nat /\ Len(rows) = row.attempts
      BY <1>1
    <3>4. i \in 1..row.attempts
      BY <3>1, <3>3
    <3>5. row.attempts > 0
      BY <3>3, <3>4
    <3>6. rows[row.attempts] = InterruptedRow(FALSE)
      BY <3>1, <3>2
    <3> QED
      BY <3>2, <3>3, <3>5, <3>6
  <2>2. \A i \in 1..Len(rows) : rows[i] = InterruptedRow(FALSE) <=> i = row.attempts
    BY <2>1
  <2> QED
    BY <2>1, <2>2 DEF LateOK, CutOff
<1>3. CASE ~(\E i \in 1..Len(rows) : rows[i] = InterruptedRow(FALSE))
  BY <1>1, <1>3 DEF LateOK, ScanOK, LedgerOK
<1> QED
  BY <1>2, <1>3

\* A step that rewrites the row of one task, and its ledger.
LEMMA LateOneRow ==
  ASSUME LateInv, NEW t \in Tasks, NEW row2, NEW rows2,
         tasks' = [tasks EXCEPT ![t] = row2],
         ledger' = IF t \in ScanTasks THEN [ledger EXCEPT ![t] = rows2] ELSE ledger,
         UNCHANGED <<runStatus, charged, resets>>,
         RowOK(row2, "running"), t \in ScanTasks => LateOK(row2, rows2)
  PROVE  LateInv'
<1>1. \A u \in Tasks : tasks'[u] = IF u = t THEN row2 ELSE tasks[u]
  BY DEF LateInv
<1>2. \A u \in ScanTasks : ledger'[u] = IF u = t THEN rows2 ELSE ledger[u]
  BY DEF LateInv
<1>3. /\ DOMAIN tasks' = Tasks /\ tasks' = [u \in Tasks |-> tasks'[u]]
      /\ DOMAIN ledger' = ScanTasks /\ ledger' = [u \in ScanTasks |-> ledger'[u]]
  <2>1. DOMAIN tasks = Tasks /\ DOMAIN ledger = ScanTasks
        /\ tasks = [u \in Tasks |-> tasks[u]] /\ ledger = [u \in ScanTasks |-> ledger[u]]
    BY Zenon DEF LateInv
  <2>2. tasks' = [u \in Tasks |-> IF u = t THEN row2 ELSE tasks[u]]
    BY ONLY <2>1, tasks' = [tasks EXCEPT ![t] = row2]
  <2>3. CASE t \in ScanTasks
    <3>1. ledger' = [ledger EXCEPT ![t] = rows2]
      BY <2>3
    <3>2. ledger' = [u \in ScanTasks |-> IF u = t THEN rows2 ELSE ledger[u]]
      BY ONLY <2>1, <3>1
    <3> QED
      BY ONLY <2>2, <3>2
  <2>4. CASE t \notin ScanTasks
    <3>1. ledger' = ledger
      BY <2>4
    <3> QED
      BY ONLY <2>1, <2>2, <3>1
  <2> QED
    BY <2>3, <2>4
<1>4. \A u \in NetTasks : RowOK(tasks'[u], "running")
  BY <1>1 DEF LateInv, Tasks
<1>5. \A u \in ScanTasks : LateOK(tasks'[u], ledger'[u])
  BY <1>1, <1>2 DEF LateInv, Tasks
<1> QED
  BY <1>3, <1>4, <1>5 DEF LateInv

LEMMA LateSwept ==
  ASSUME LateInv
  PROVE  /\ \A t \in NetTasks : RowOK(SweptTask(t), "running")
         /\ \A t \in ScanTasks : LateOK(SweptTask(t), SweptRows(t))
<1>1. ASSUME NEW t \in NetTasks PROVE RowOK(SweptTask(t), "running")
  <2>1. RowOK(tasks[t], "running") /\ t \notin ScanTasks
    BY JournalAssumption DEF LateInv
  <2>2. CASE ~Stale(t)
    BY <2>1, <2>2 DEF SweptTask
  <2>3. CASE Stale(t)
    <3>1. PICK status \in {"pending", "failed"}, reviewed \in BOOLEAN :
            /\ SweptTask(t) = [tasks[t] EXCEPT !.status = status, !.owner = NoWorker,
                                 !.live = FALSE, !.reviewed = reviewed]
            /\ status = "pending" => tasks[t].attempts < tasks[t].max
      BY <2>1, <2>3 DEF SweptTask, Released, RowOK, TaskRow
    <3>2. tasks[t].outcome = "none"
      BY <2>1, <2>3 DEF Stale, RowOK, TaskRow
    <3> QED
      BY <2>1, <2>3, <3>1, <3>2 DEF RowOK, TaskRow, TaskStatus
  <2> QED
    BY <2>2, <2>3
<1>2. ASSUME NEW t \in ScanTasks PROVE LateOK(SweptTask(t), SweptRows(t))
  <2>1. LateOK(tasks[t], ledger[t])
    BY DEF LateInv
  <2>2. CASE ~Stale(t)
    BY <2>1, <2>2 DEF SweptTask, SweptRows
  <2>3. CASE Stale(t)
    <3>1. ScanOK(tasks[t], ledger[t], "running") /\ tasks[t].status = "running"
      BY <2>1, <2>3, LateUnfinished DEF Stale
    <3>2. /\ SweptRows(t) = InterruptOpenRows(ledger[t], TRUE)
          /\ SweptTask(t) = ScanDisposition(tasks[t], SweptRows(t), FALSE)
      BY <2>3 DEF SweptTask, SweptRows
    <3>3. "running" \in RunStatus
      BY DEF RunStatus
    <3> QED
      BY <3>1, <3>2, <3>3, DispositionKeeps DEF LateOK
  <2> QED
    BY <2>2, <2>3
<1> QED
  BY <1>1, <1>2

LEMMA LateSweep == LateInv /\ RecoverStaleTasks => LateInv'
BY LateSwept DEF LateInv, RecoverStaleTasks, Tasks

LEMMA LateLease ==
  ASSUME LateInv, NEW w \in Workers, NEW t \in Tasks, LeaseTask(w, t)
  PROVE  LateInv'
<1>0. "running" \in RunStatus
  BY DEF RunStatus
<1>1. ASSUME NEW u \in NetTasks PROVE RowOK(tasks'[u], "running")
  <2>1. CASE u /= t
    BY <2>1, LateSwept DEF LeaseTask, Tasks
  <2>2. CASE u = t
    <3>1. RowOK(SweptTask(t), "running") /\ SweptTask(t).status = "pending"
      BY <2>2, LateSwept DEF LeaseTask, Leasable
    <3>2. tasks'[u] = Leased(SweptTask(t), w)
      BY <2>2 DEF LeaseTask, Tasks
    <3> QED
      BY <1>0, <3>1, <3>2, LeasedRow
  <2> QED
    BY <2>1, <2>2
<1>2. ASSUME NEW u \in ScanTasks PROVE LateOK(tasks'[u], ledger'[u])
  <2>1. CASE u /= t
    BY <2>1, LateSwept DEF LeaseTask, Tasks
  <2>2. CASE u = t
    <3>1. LateOK(SweptTask(t), SweptRows(t)) /\ Leasable(SweptTask(t), SweptRows(t))
      BY <2>2, LateSwept DEF LeaseTask
    <3>2. ScanOK(SweptTask(t), SweptRows(t), "running")
      BY <3>1, LateUnfinished DEF Leasable
    <3>3. /\ tasks'[u] = Leased(SweptTask(t), w)
          /\ ledger'[u] = Append(SweptRows(t), OpenRow)
      BY <2>2 DEF LeaseTask, Tasks
    <3> QED
      BY <1>0, <3>1, <3>2, <3>3, LeaseKeeps DEF LateOK
  <2> QED
    BY <2>1, <2>2
<1> QED
  BY <1>1, <1>2 DEF LateInv, LeaseTask

LEMMA LateExpiry ==
  ASSUME LateInv, NEW t \in Tasks, LeaseExpires(t) PROVE LateInv'
<1> DEFINE row2 == [tasks[t] EXCEPT !.live = FALSE]
<1>1. RowOK(tasks[t], "running") /\ tasks[t].status = "running" /\ "running" \in RunStatus
  BY LateRow DEF LeaseExpires, RunStatus
<1>2. /\ RowOK(row2, "running")
      /\ row2.attempts = tasks[t].attempts /\ row2.status = tasks[t].status
      /\ row2.outcome = tasks[t].outcome /\ row2.reviewed = tasks[t].reviewed
  BY <1>1 DEF RowOK, TaskRow
<1>3. tasks' = [tasks EXCEPT ![t] = row2] /\ UNCHANGED <<runStatus, ledger, charged, resets>>
  BY DEF LeaseExpires
<1> HIDE DEF row2
<1>4. ASSUME t \in ScanTasks PROVE LateOK(row2, ledger[t])
  <2>1. ScanOK(tasks[t], ledger[t], "running")
    BY <1>1, <1>4, LateUnfinished DEF LateInv
  <2> QED
    BY <1>1, <1>2, <2>1, RewriteKeeps DEF LateOK
<1>5. ledger' = IF t \in ScanTasks THEN [ledger EXCEPT ![t] = ledger[t]] ELSE ledger
  BY <1>3 DEF LateInv
<1> QED
  BY <1>2, <1>3, <1>4, <1>5, LateOneRow

LEMMA LateEnqueue ==
  ASSUME LateInv, NEW t \in Tasks, EnqueueTask(t) PROVE LateInv'
<1> DEFINE row2 == [tasks[t] EXCEPT !.status = "pending"]
<1>1. RowOK(tasks[t], "running") /\ tasks[t].status = "absent"
  BY LateRow DEF EnqueueTask
<1>2. /\ RowOK(row2, "running") /\ row2.attempts = 0 /\ row2.outcome = "none"
      /\ tasks[t].attempts = 0
  BY <1>1 DEF RowOK, TaskRow, TaskStatus
<1>3. tasks' = [tasks EXCEPT ![t] = row2] /\ UNCHANGED <<runStatus, ledger, charged, resets>>
  BY DEF EnqueueTask
<1> HIDE DEF row2
<1>4. ASSUME t \in ScanTasks PROVE LateOK(row2, ledger[t])
  <2>1. ScanOK(tasks[t], ledger[t], "running")
    BY <1>1, <1>4, LateUnfinished DEF LateInv
  <2>2. LedgerOK(row2, ledger[t], "running")
    BY <1>2, <2>1 DEF ScanOK, LedgerOK
  <2>3. LastRowOK(row2, ledger[t])
    BY <1>2 DEF LastRowOK
  <2> QED
    BY <1>2, <2>2, <2>3 DEF LateOK, ScanOK
<1>5. ledger' = IF t \in ScanTasks THEN [ledger EXCEPT ![t] = ledger[t]] ELSE ledger
  BY <1>3 DEF LateInv
<1> QED
  BY <1>2, <1>3, <1>4, <1>5, LateOneRow

\* A report, however late: its lease is live, so its task is still the running one.
LEMMA LateReport ==
  ASSUME LateInv, NEW w \in Workers, NEW t \in Tasks, Holds(w, t),
         NEW closed \in Reports, NEW row2,
         RowOK(row2, "running"), row2.attempts = tasks[t].attempts,
         \/ row2 = tasks[t]
         \/ row2.outcome = "verdict" /\ closed = ClosedRow("complete", FALSE)
         \/ row2.outcome = "none" /\ row2.status = "failed"
         \/ row2.outcome = "none" /\ closed = ClosedRow("failed", TRUE),
         tasks' = [tasks EXCEPT ![t] = row2],
         FinishAttempt(t, closed),
         UNCHANGED <<runStatus, charged, resets>>
  PROVE  LateInv'
<1> DEFINE rows2 == [ledger[t] EXCEPT ![tasks[t].attempts] = closed]
<1>1. tasks[t].status = "running" /\ "running" \in RunStatus
  BY DEF Holds, RunStatus
<1>2. ASSUME t \in ScanTasks PROVE LateOK(row2, rows2)
  <2>1. ScanOK(tasks[t], ledger[t], "running")
    BY <1>1, <1>2, LateUnfinished DEF LateInv
  <2> QED
    BY <1>1, <2>1, ReportKeeps DEF LateOK
<1>3. ledger' = IF t \in ScanTasks THEN [ledger EXCEPT ![t] = rows2] ELSE ledger
  BY DEF FinishAttempt
<1> HIDE DEF rows2
<1> QED
  BY <1>2, <1>3, LateOneRow

LEMMA LateHolds ==
  ASSUME LateInv, NEW w, NEW t \in Tasks, Holds(w, t)
  PROVE  /\ RowOK(tasks[t], "running")
         /\ tasks[t].status = "running" /\ tasks[t].outcome = "none"
         /\ tasks[t].attempts \in Nat /\ tasks[t].max \in Nat
<1>1. RowOK(tasks[t], "running") /\ tasks[t].status = "running"
  BY LateRow DEF Holds
<1> QED
  BY <1>1 DEF RowOK, TaskRow

LEMMA LateWorker ==
  ASSUME LateInv, NEW w \in Workers, NEW t \in Tasks, WorkerStep(w, t) PROVE LateInv'
<1>1. CASE LeaseTask(w, t)
  BY <1>1, LateLease
<1>2. CASE RenewTask(w, t)
  BY <1>2 DEF RenewTask, vars, LateInv
<1>3. ASSUME NEW closed \in Reports, RecordScanAttemptResult(w, t, closed) PROVE LateInv'
  <2>1. RowOK(tasks[t], "running") /\ Holds(w, t)
    BY <1>3, LateHolds DEF RecordScanAttemptResult
  <2>2. tasks' = [tasks EXCEPT ![t] = tasks[t]]
    BY <1>3 DEF RecordScanAttemptResult, LateInv
  <2> QED
    BY <1>3, <2>1, <2>2, LateReport DEF RecordScanAttemptResult
<1>4. CASE CompleteTask(w, t)
  <2> DEFINE row2 == [Released(tasks[t], "complete") EXCEPT
                        !.reviewed = FALSE, !.outcome = "verdict"]
  <2>1. Holds(w, t) /\ tasks' = [tasks EXCEPT ![t] = row2]
    BY <1>4 DEF CompleteTask
  <2>2. /\ RowOK(row2, "running") /\ row2.attempts = tasks[t].attempts
        /\ row2.outcome = "verdict"
    BY <2>1, LateHolds DEF Released, RowOK, TaskRow, TaskStatus
  <2>3. ClosedRow("complete", FALSE) \in Reports
    BY DEF Reports
  <2> HIDE DEF row2
  <2> QED
    BY <1>4, <2>1, <2>2, <2>3, LateReport DEF CompleteTask
<1>5. ASSUME NEW retry \in BOOLEAN, FailTask(w, t, retry) PROVE LateInv'
  <2> DEFINE status == IF retry /\ tasks[t].attempts < tasks[t].max
                       THEN "pending" ELSE "failed"
             row2 == [Released(tasks[t], status) EXCEPT !.reviewed = FALSE]
  <2>1. Holds(w, t) /\ tasks' = [tasks EXCEPT ![t] = row2]
    BY <1>5 DEF FailTask
  <2>2. status \in {"pending", "failed"}
        /\ (status = "pending" => retry /\ tasks[t].attempts < tasks[t].max)
    OBVIOUS
  <2> HIDE DEF status
  <2>3. /\ RowOK(row2, "running") /\ row2.attempts = tasks[t].attempts
        /\ row2.outcome = "none" /\ row2.status = status
    BY <2>1, <2>2, LateHolds DEF Released, RowOK, TaskRow, TaskStatus
  <2>4. ClosedRow("failed", retry) \in Reports
    BY DEF Reports
  <2>5. row2.status = "failed" \/ ClosedRow("failed", retry) = ClosedRow("failed", TRUE)
    BY <2>2, <2>3
  <2> HIDE DEF row2
  <2> QED
    BY <1>5, <2>1, <2>3, <2>4, <2>5, LateReport DEF FailTask
<1> QED
  BY <1>1, <1>2, <1>3, <1>4, <1>5 DEF WorkerStep

\* A resume requeues nothing that an abandonment cut off.
LEMMA LateResume == ASSUME LateInv, ResumeRun PROVE LateInv'
<1>0. "running" \in RunStatus
  BY DEF RunStatus
<1>1. ASSUME NEW t \in NetTasks PROVE RowOK(tasks'[t], "running")
  <2>1. RowOK(tasks[t], "running") /\ t \in Tasks /\ t \notin ScanTasks
    BY JournalAssumption DEF LateInv, Tasks
  <2>2. CASE tasks[t].status \in {"running", "failed"}
    <3>1. PICK status \in {"pending", "failed"} :
            /\ tasks'[t] = Released(tasks[t], status)
            /\ status = "pending" => tasks[t].attempts < tasks[t].max
      BY <2>1, <2>2 DEF ResumeRun
    <3> QED
      BY <2>1, <2>2, <3>1 DEF Released, RowOK, TaskRow, TaskStatus
  <2>3. CASE tasks[t].status \notin {"running", "failed"}
    BY <2>1, <2>3 DEF ResumeRun
  <2> QED
    BY <2>2, <2>3
<1>2. ASSUME NEW t \in ScanTasks PROVE LateOK(tasks'[t], ledger'[t])
  <2> DEFINE rows2 == InterruptOpenRows(ledger[t], TRUE)
  <2>1. /\ LateOK(tasks[t], ledger[t]) /\ t \in Tasks /\ ledger'[t] = rows2
        /\ tasks'[t] = IF tasks[t].status \in {"pending", "running", "failed"}
                       THEN ScanDisposition(tasks[t], rows2, TRUE) ELSE tasks[t]
    <3>1. LateOK(tasks[t], ledger[t]) /\ t \in Tasks
      BY Zenon DEF LateInv, Tasks
    <3>2. ledger'[t] = rows2
      BY DEF ResumeRun
    <3>3. tasks'[t] = IF tasks[t].status \in {"pending", "running", "failed"}
                      THEN ScanDisposition(tasks[t], rows2, TRUE) ELSE tasks[t]
      BY <3>1, Zenon DEF ResumeRun
    <3> QED
      BY <3>1, <3>2, <3>3
  <2>2. CASE ScanOK(tasks[t], ledger[t], "running")
    <3>1. CASE tasks[t].status \in {"pending", "running", "failed"}
      BY <1>0, <2>1, <2>2, <3>1, DispositionKeeps DEF LateOK
    <3>2. CASE tasks[t].status \notin {"pending", "running", "failed"}
      <4>1. tasks[t].status \in {"absent", "complete"}
        BY <2>2, <3>2 DEF ScanOK, RowOK, TaskRow, TaskStatus
      <4> QED
        BY <2>1, <2>2, <3>2, <4>1, InterruptKeepsClosed DEF LateOK
    <3> QED
      BY <3>1, <3>2
  <2>3. CASE CutOff(tasks[t], ledger[t])
    <3>1. /\ rows2 = ledger[t] /\ tasks[t] \in TaskRow /\ ~MayRetry(tasks[t], ledger[t], TRUE)
          /\ ScanOK(tasks[t], ledger[t], "abandoned")
      BY <2>3, CutOffFacts DEF CutOff
    <3>2. CASE tasks[t].status = "complete"
      BY <2>1, <2>3, <3>1, <3>2 DEF LateOK
    <3>3. CASE tasks[t].status = "failed"
      <4>1. KeepsReview(tasks[t], ledger[t]) \in BOOLEAN
        BY <3>1 DEF KeepsReview, TaskRow
      <4>2. PICK reviewed \in BOOLEAN :
              tasks'[t] = [tasks[t] EXCEPT !.status = "failed", !.owner = NoWorker,
                                           !.live = FALSE, !.reviewed = reviewed]
        BY <2>1, <3>1, <3>3, <4>1 DEF ScanDisposition, Released, TaskRow
      <4>3. /\ tasks'[t] \in TaskRow /\ tasks'[t].status = "failed"
            /\ tasks'[t].attempts = tasks[t].attempts /\ tasks'[t].max = tasks[t].max
            /\ tasks'[t].outcome = tasks[t].outcome
        BY <3>1, <4>2 DEF TaskRow, TaskStatus
      <4>4. RowOK(tasks'[t], "abandoned")
        BY <3>1, <3>3, <4>3 DEF ScanOK, RowOK
      <4>5. LedgerOK(tasks'[t], ledger[t], "abandoned")
        BY <3>1, <3>3, <4>3 DEF ScanOK, LedgerOK
      <4>6. LastRowOK(tasks'[t], ledger[t])
        BY <3>1, <3>3, <4>3 DEF ScanOK, LastRowOK
      <4> QED
        BY <2>1, <2>3, <3>1, <4>3, <4>4, <4>5, <4>6 DEF LateOK, CutOff, ScanOK
    <3> QED
      BY <2>3, <3>2, <3>3 DEF CutOff
  <2> QED
    BY <2>1, <2>2, <2>3 DEF LateOK
<1> QED
  BY <1>0, <1>1, <1>2 DEF LateInv, ResumeRun

LEMMA LateAbandon == ASSUME LateInv, AbandonRun PROVE LateInv'
<1> DEFINE row2(t) == IF tasks[t].status \in {"pending", "running", "failed"}
                      THEN [Released(tasks[t], "failed") EXCEPT !.reviewed = FALSE]
                      ELSE tasks[t]
<1>1. /\ tasks' = [t \in Tasks |-> row2(t)] /\ runStatus' = "abandoned"
      /\ ledger' = [t \in ScanTasks |-> InterruptOpenRows(ledger[t], FALSE)]
      /\ UNCHANGED <<charged, resets>> /\ "abandoned" \in RunStatus
  BY DEF AbandonRun, RunStatus
<1>2. ASSUME NEW t \in Tasks
      PROVE  /\ RowOK(row2(t), "abandoned") /\ row2(t).attempts = tasks[t].attempts
             /\ row2(t) = tasks[t] \/ (row2(t).outcome = "none" /\ row2(t).status = "failed")
             /\ tasks[t].status \in {"running", "failed", "complete"} =>
                  row2(t).status \in {"failed", "complete"}
             /\ tasks[t].outcome = row2(t).outcome
  <2>1. RowOK(tasks[t], "running")
    BY LateRow
  <2>2. CASE tasks[t].status \in {"pending", "running", "failed"}
    BY <2>1, <2>2 DEF Released, RowOK, TaskRow, TaskStatus
  <2>3. CASE tasks[t].status \notin {"pending", "running", "failed"}
    BY <2>1, <2>3 DEF RowOK, TaskRow, TaskStatus
  <2> QED
    BY <2>2, <2>3
<1> HIDE DEF row2
<1>3. ASSUME NEW t \in NetTasks PROVE RowOK(tasks'[t], "running")
  BY <1>1, <1>2 DEF Tasks, RowOK
<1>4. ASSUME NEW t \in ScanTasks PROVE LateOK(tasks'[t], ledger'[t])
  <2> DEFINE rows == ledger[t]
             rows2 == InterruptOpenRows(ledger[t], FALSE)
  <2>1. /\ LateOK(tasks[t], rows) /\ t \in Tasks /\ tasks'[t] = row2(t) /\ ledger'[t] = rows2
    BY <1>1 DEF LateInv, Tasks
  <2>2. CASE ScanOK(tasks[t], rows, "running")
    <3>1. ScanOK(row2(t), rows2, "abandoned")
      BY <1>2, <2>1, <2>2, AbandonKeeps DEF RunStatus
    <3>2. /\ Len(rows) = tasks[t].attempts /\ Len(rows2) = Len(rows)
          /\ \A i \in 1..Len(rows) :
               /\ rows2[i] = IF rows[i] = OpenRow THEN InterruptedRow(FALSE) ELSE rows[i]
               /\ rows[i] /= InterruptedRow(FALSE)
               /\ rows[i] = OpenRow => /\ i = tasks[t].attempts
                                       /\ \/ tasks[t].status = "running"
                                          \/ tasks[t].outcome = "superseded"
      <4>1. /\ rows \in Seq(AttemptRow) /\ Len(rows) = tasks[t].attempts
            /\ \A i \in 1..Len(rows) :
                  /\ rows[i] \in RowShapes /\ rows[i] /= InterruptedRow(FALSE)
                  /\ rows[i] = OpenRow => /\ i = tasks[t].attempts
                                          /\ \/ tasks[t].status = "running"
                                             \/ tasks[t].outcome = "superseded"
        BY <2>2 DEF ScanOK, LedgerOK
      <4> QED
        BY <4>1, InterruptedLedger
    <3>3. tasks[t].outcome = "superseded" => tasks[t].status = "complete"
      BY <2>2 DEF ScanOK, RowOK
    <3>4. \A i \in 1..Len(rows2) : rows2[i] = InterruptedRow(FALSE) =>
             i = row2(t).attempts /\ row2(t).status \in {"failed", "complete"}
      BY <1>2, <2>1, <3>2, <3>3
    <3> QED
      BY <2>1, <3>1, <3>4, AbandonedIsLate
  <2>3. CASE CutOff(tasks[t], rows)
    <3>1. rows2 = rows /\ ScanOK(tasks[t], rows, "abandoned") /\ "abandoned" \in RunStatus
      BY <2>3, CutOffFacts DEF CutOff, RunStatus
    <3>2. ScanOK(row2(t), rows2, "abandoned")
      BY <1>2, <2>1, <3>1, AbandonKeeps
    <3>3. row2(t).status \in {"failed", "complete"} /\ row2(t).attempts = tasks[t].attempts
      BY <1>2, <2>1, <2>3 DEF CutOff
    <3> QED
      BY <2>1, <2>3, <3>1, <3>2, <3>3 DEF CutOff, LateOK
  <2> QED
    BY <2>1, <2>2, <2>3 DEF LateOK
<1> QED
  BY <1>1, <1>3, <1>4 DEF LateInv

LEMMA LateNext == LateInv /\ [CNext]_allVars => LateInv'
<1> SUFFICES ASSUME LateInv, [CNext]_allVars PROVE LateInv'
  OBVIOUS
<1>1. CASE UNCHANGED vars
  BY <1>1 DEF vars, LateInv
<1>2. CASE CreateRun \/ \E status \in {"complete", "failed"} : FinishRun(status)
  BY <1>2 DEF CreateRun, FinishRun, LateInv, RunStatus
<1>3. CASE \E t \in Tasks : EnqueueTask(t)
  BY <1>3, LateEnqueue
<1>4. CASE RecoverStaleTasks
  BY <1>4, LateSweep
<1>5. CASE \E t \in Tasks : LeaseExpires(t)
  BY <1>5, LateExpiry
<1>6. CASE \E t \in NetTasks : RecordNetworkTaskUsage(t, tasks[t].attempts)
  <2>1. PICK t \in NetTasks : RecordNetworkTaskUsage(t, tasks[t].attempts)
    BY <1>6
  <2>2. tasks[t].attempts \in Nat
    BY DEF LateInv, RowOK, TaskRow
  <2>3. charged' \in [NetTasks -> SUBSET Nat]
    BY <2>1, <2>2 DEF RecordNetworkTaskUsage, LateInv
  <2> QED
    BY <2>1, <2>3 DEF RecordNetworkTaskUsage, LateInv
<1>7. CASE \E w \in Workers, t \in Tasks : WorkerStep(w, t)
  BY <1>7, LateWorker
<1> QED
  BY <1>1, <1>2, <1>3, <1>4, <1>5, <1>6, <1>7, LateResume, LateAbandon, JournalSteps
  DEF LeaseStep, OpenRunStep

LEMMA InitLate == CInit => LateInv
<1> SUFFICES ASSUME CInit PROVE LateInv
  OBVIOUS
<1>1. JournalInv /\ Init
  BY InitInv DEF CInit
<1>2. \A t \in Tasks : RowOK(tasks[t], "none") => RowOK(tasks[t], "running")
  BY DEF RowOK
<1>3. \A t \in ScanTasks :
        ScanOK(tasks[t], ledger[t], "none") => ScanOK(tasks[t], ledger[t], "running")
  BY <1>2 DEF ScanOK, LedgerOK, Tasks
<1> QED
  BY <1>1, <1>2, <1>3 DEF JournalInv, LateInv, LateOK, Init, Tasks

\* The journal keeps its promises to coordinators that overlap in any way: one ledger row
\* per dispatch, no stray open attempt, no task that waits but cannot be leased, no final
\* failure retried without review, no verdict that was not the last report.
THEOREM JournalSurvivesOverlap ==
  CSpec => [](/\ TypeOK
              /\ EveryDispatchCharged
              /\ OnlyLatestAttemptOpen
              /\ PendingIsLeasable
              /\ NonRetryableNeedsReview
              /\ VerdictMatchesLedger)
<1>1. ASSUME LateInv, NEW t \in ScanTasks
      PROVE  \E run \in {"running", "abandoned"} : ScanOK(tasks[t], ledger[t], run)
  BY <1>1 DEF LateInv, LateOK, CutOff
<1>2. LateInv => TypeOK
  <2> SUFFICES ASSUME LateInv PROVE TypeOK
    OBVIOUS
  <2>1. \A t \in Tasks : tasks[t] \in TaskRow
    BY LateRow DEF RowOK
  <2>2. \A t \in ScanTasks : ledger[t] \in Seq(AttemptRow)
    BY <1>1 DEF ScanOK, LedgerOK
  <2> QED
    BY <2>1, <2>2 DEF LateInv, TypeOK
<1>3. LateInv => EveryDispatchCharged
  BY <1>1 DEF ScanOK, LedgerOK, EveryDispatchCharged
<1>4. LateInv => OnlyLatestAttemptOpen
  <2> SUFFICES ASSUME LateInv, NEW t \in ScanTasks, NEW i \in DOMAIN ledger[t],
                      ledger[t][i].status = "running"
               PROVE  /\ i = tasks[t].attempts
                      /\ \/ tasks[t].status = "running"
                         \/ tasks[t].outcome = "superseded"
    BY DEF OnlyLatestAttemptOpen
  <2>1. PICK run \in {"running", "abandoned"} : LedgerOK(tasks[t], ledger[t], run)
    BY <1>1 DEF ScanOK
  <2>2. i \in 1..Len(ledger[t])
    BY <2>1 DEF LedgerOK
  <2>3. ledger[t][i] = OpenRow
    BY <2>1, <2>2, ShapeFacts DEF LedgerOK
  <2> QED
    BY <2>1, <2>2, <2>3 DEF LedgerOK
<1>5. LateInv => PendingIsLeasable
  <2> SUFFICES ASSUME LateInv, NEW t \in Tasks, tasks[t].status = "pending"
               PROVE  Leasable(tasks[t], IF t \in ScanTasks THEN ledger[t] ELSE <<>>)
    BY DEF PendingIsLeasable
  <2>1. CASE t \in ScanTasks
    <3>1. ScanOK(tasks[t], ledger[t], "running") /\ "running" \in RunStatus
      BY <2>1, LateUnfinished DEF LateInv, RunStatus
    <3> QED
      BY <2>1, <3>1, PendingLeasable
  <2>2. CASE t \notin ScanTasks
    <3>1. RowOK(tasks[t], "running") /\ ~Barred(<<>>)
      BY LateRow DEF Barred
    <3> QED
      BY <2>2, <3>1 DEF Leasable, RowOK
  <2> QED
    BY <2>1, <2>2
<1>6. LateInv => NonRetryableNeedsReview /\ VerdictMatchesLedger
  BY <1>1 DEF ScanOK, LastRowOK, NonRetryableNeedsReview, VerdictMatchesLedger
<1> QED
  BY <1>2, <1>3, <1>4, <1>5, <1>6, InitLate, LateNext, PTL DEF CSpec

LEMMA LateTables == LateInv => RowTables
<1>1. LateInv => \A t \in ScanTasks : ledger[t] \in Seq(AttemptRow)
  BY DEF LateInv, LateOK, CutOff, ScanOK, LedgerOK
<1> QED
  BY <1>1 DEF LateInv, RowTables

\* No overlap of coordinators rewrites a closed attempt or drops one.
THEOREM OverlapKeepsAttempts == CSpec => ClosedAttemptsImmutable
<1>1. ASSUME LateInv, [CNext]_allVars, NEW t \in ScanTasks
      PROVE  Extends(ledger[t], ledger'[t])
  <2>1. CASE UNCHANGED vars \/ LeaseStep
    <3>1. [Next]_vars
      BY <2>1 DEF LeaseStep, Next, RunStep
    <3> QED
      BY <1>1, <3>1, LateTables, LedgerExtends
  <2>2. CASE OpenRunStep
    BY <2>2 DEF OpenRunStep, FinishRun, EnqueueTask, Extends
  <2> QED
    BY <1>1, <2>1, <2>2, JournalSteps
<1>2. LateInv /\ [CNext]_allVars =>
        [\A t \in ScanTasks : \A i \in DOMAIN ledger[t] :
           /\ i \in DOMAIN ledger'[t]
           /\ ledger[t][i].status # "running" => ledger'[t][i] = ledger[t][i]]_vars
  BY <1>1 DEF Extends
<1> QED
  BY <1>2, InitLate, LateNext, PTL DEF CSpec, ClosedAttemptsImmutable

\* Nor does it take a completed task's result away, or dispatch the task again.
THEOREM OverlapKeepsResults == CSpec => CompletedWorkIsFinal
<1>1. ASSUME LateInv, [CNext]_allVars, NEW t \in Tasks, tasks[t].status = "complete"
      PROVE  tasks'[t] = tasks[t]
  <2>1. CASE UNCHANGED vars \/ LeaseStep
    <3>1. [Next]_vars
      BY <2>1 DEF LeaseStep, Next, RunStep
    <3> QED
      BY <1>1, <3>1, LateTables, CompletedStays
  <2>2. CASE OpenRunStep
    BY <1>1, <2>2 DEF OpenRunStep, FinishRun, EnqueueTask, LateInv
  <2> QED
    BY <1>1, <2>1, <2>2, JournalSteps
<1>2. LateInv /\ [CNext]_allVars =>
        [\A t \in Tasks : tasks[t].status = "complete" => tasks'[t] = tasks[t]]_vars
  BY <1>1
<1> QED
  BY <1>2, InitLate, LateNext, PTL DEF CSpec, CompletedWorkIsFinal

================================================================================
