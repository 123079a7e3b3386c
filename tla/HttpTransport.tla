----------------------------- MODULE HttpTransport ----------------------------
(***************************************************************************)
(* The HTTP transport of one endpoint (collector/http_transport.py) and the *)
(* durable count of its requests.  An operation is one logical request with *)
(* bounded retries; every attempt is debited before it is sent, paced, and  *)
(* subject to a circuit breaker.  A discovery task may run many operations; *)
(* its attempts are journaled when it ends (pipeline.py                     *)
(* _record_transport_task_usage), and the next process of the same run is   *)
(* charged with the journal before its first request.                       *)
(*                                                                         *)
(* Time is a small clock that sleeping advances.  Operations of an endpoint *)
(* are serialized by _operation_lock, so there is at most one.              *)
(***************************************************************************)
EXTENDS Naturals, Sequences, FiniteSetsExt

CONSTANTS
    MaxRequests,    \* budget.max_requests of the run
    MaxRetries,     \* retries of an operation
    Threshold,      \* circuit_failure_threshold
    OpenTime,       \* circuit_open_seconds
    PacingSteps,    \* secondary_pacing_steps, in ascending order
    CalmAfter,      \* deescalate_after
    RetryWaits,     \* waits a response may ask for
    MaxRetryDelay,  \* max_retry_delay
    RetryBudget,    \* budget.max_total_retry_seconds
    MaxProcesses,   \* bound: processes of the run
    MaxClock        \* bound: time explored

ASSUME TransportAssumption ==
    /\ {MaxRequests, MaxRetries, Threshold, OpenTime, CalmAfter, MaxRetryDelay, RetryBudget,
        MaxProcesses, MaxClock} \subseteq Nat
    /\ Threshold > 0
    /\ RetryWaits \subseteq Nat
    /\ PacingSteps \in Seq(Nat)

VARIABLES
    clock,
    process,        \* number of the process, and whether it is up
    budget,         \* prior_request_attempts, attempts, retry_sleep_seconds
    circuit,        \* consecutive failures, _circuit_open_until (0: closed)
    pace,           \* last attempt, _primary_not_before, pacing level, success streak
    op,             \* the operation in progress
    task,           \* the discovery task in progress: attempts when it was leased
    charged,        \* network_task_usage: attempts of the ended tasks
    \* what happened, for the properties
    sent,           \* requests on the wire
    lost,           \* attempts no journal row counts
    streak,         \* operations that failed since the last success
    failedAt        \* when the last one did

transportVars ==
    <<clock, process, budget, circuit, pace, op, task, charged, sent, lost, streak, failedAt>>

NoOp == [at |-> "idle", try |-> 0]
Unspent == [prior |-> 0, attempts |-> 0, slept |-> 0]
NoTask == [on |-> FALSE, before |-> 0]
Fresh == [failures |-> 0, until |-> 0]
Unpaced == [last |-> 0, notBefore |-> 0, level |-> 0, calm |-> 0]

Interval == IF pace.level = 0 THEN 0 ELSE PacingSteps[pace.level]
Later(a, b) == Max({a, b})

--------------------------------------------------------------------------------
(* The process. *)

\* Defect: a new process starts with the whole budget.
StartUncharged ==
    /\ ~process.up /\ process.number < MaxProcesses
    /\ process' = [number |-> process.number + 1, up |-> TRUE]
    /\ budget' = Unspent
    /\ UNCHANGED <<clock, circuit, pace, op, task, charged, sent, lost, streak, failedAt>>

\* _charge_prior_discovery_usage: a run that used up its budget does not start.
StartProcess ==
    /\ ~process.up /\ process.number < MaxProcesses
    /\ charged <= MaxRequests
    /\ process' = [number |-> process.number + 1, up |-> TRUE]
    /\ budget' = [Unspent EXCEPT !.prior = charged]
    /\ UNCHANGED <<clock, circuit, pace, op, task, charged, sent, lost, streak, failedAt>>

Crash ==
    /\ process.up
    /\ process' = [process EXCEPT !.up = FALSE]
    /\ lost' = lost + IF task.on THEN budget.attempts - task.before ELSE 0
    /\ budget' = Unspent /\ circuit' = Fresh /\ pace' = Unpaced
    /\ task' = NoTask /\ op' = NoOp
    /\ streak' = 0 /\ failedAt' = 0
    /\ UNCHANGED <<clock, charged, sent>>

--------------------------------------------------------------------------------
(* A discovery task. *)

BeginTask ==
    /\ process.up /\ ~task.on
    /\ task' = [on |-> TRUE, before |-> budget.attempts]
    /\ UNCHANGED <<clock, process, budget, circuit, pace, op, charged, sent, lost, streak, failedAt>>

\* The attempts since the snapshot, whether the task completed or failed.
EndTask ==
    /\ task.on /\ op.at = "idle"
    /\ charged' = charged + budget.attempts - task.before
    /\ task' = NoTask
    /\ UNCHANGED <<clock, process, budget, circuit, pace, op, sent, lost, streak, failedAt>>

\* The operation returned but its lease is lost: heartbeat.verify raises where
\* no handler journals the usage.
VerifyFails ==
    /\ task.on /\ op.at = "idle"
    /\ lost' = lost + budget.attempts - task.before
    /\ task' = NoTask
    /\ UNCHANGED <<clock, process, budget, circuit, pace, op, charged, sent, streak, failedAt>>

--------------------------------------------------------------------------------
(* An operation (_perform). *)

\* Defect: a half-open circuit is a closed one.
HalfOpenAfresh ==
    /\ task.on /\ op.at = "idle"
    /\ circuit.until = 0 \/ clock >= circuit.until
    /\ circuit' = IF circuit.until = 0 THEN circuit ELSE Fresh
    /\ op' = [at |-> "attempt", try |-> 0]
    /\ UNCHANGED <<clock, process, budget, pace, task, charged, sent, lost, streak, failedAt>>

\* _check_circuit: after its time, an open circuit lets one operation through,
\* and one more failure opens it again.
BeginOperation ==
    /\ task.on /\ op.at = "idle"
    /\ circuit.until = 0 \/ clock >= circuit.until
    /\ circuit' = IF circuit.until = 0 THEN circuit
                  ELSE [failures |-> Threshold - 1, until |-> 0]
    /\ op' = [at |-> "attempt", try |-> 0]
    /\ UNCHANGED <<clock, process, budget, pace, task, charged, sent, lost, streak, failedAt>>

\* _consume_attempt: an exhausted budget ends the operation, and is no failure of
\* the endpoint.
ConsumeAttempt ==
    /\ op.at = "attempt"
    /\ IF budget.prior + budget.attempts >= MaxRequests
       THEN op' = NoOp /\ UNCHANGED budget
       ELSE /\ budget' = [budget EXCEPT !.attempts = @ + 1]
            /\ op' = [op EXCEPT !.at = "pace"]
    /\ UNCHANGED <<clock, process, circuit, pace, task, charged, sent, lost, streak, failedAt>>

Due == Max({clock, pace.notBefore, pace.last + Interval})

\* _pace: sleep, unless that would cross the deadline, and send.
Pace(crosses) ==
    /\ op.at = "pace"
    /\ IF crosses
       THEN /\ Due > clock
            /\ op' = NoOp
            /\ UNCHANGED <<clock, pace, sent>>
       ELSE /\ Due <= MaxClock
            /\ clock' = Due
            /\ pace' = [pace EXCEPT !.last = Due]
            /\ sent' = sent + 1
            /\ op' = [op EXCEPT !.at = "answer"]
    /\ UNCHANGED <<process, budget, circuit, task, charged, lost, streak, failedAt>>

\* _record_failure, at time t
RecordFailure(t) ==
    /\ circuit' = [failures |-> circuit.failures + 1,
                   until |-> IF circuit.failures + 1 >= Threshold THEN t + OpenTime
                             ELSE circuit.until]
    /\ op' = NoOp
    /\ streak' = streak + 1 /\ failedAt' = t

\* _escalate_search_pacing
Escalated == [pace EXCEPT !.calm = 0,
                          !.level = IF @ < Len(PacingSteps) THEN @ + 1 ELSE @]

\* _record_search_pressure: saturated answers slow the search down, calm ones
\* speed it up again.
Pressed(saturated) ==
    IF PacingSteps = <<>> THEN pace
    ELSE IF saturated THEN Escalated
    ELSE IF pace.level = 0 THEN pace
    ELSE IF pace.calm + 1 < CalmAfter THEN [pace EXCEPT !.calm = @ + 1]
    ELSE [pace EXCEPT !.calm = 0, !.level = @ - 1]

\* A decoded answer; `reset` > 0 is a remaining quota of zero and its reset.
Succeed(saturated, reset) ==
    /\ op.at = "answer"
    /\ circuit' = Fresh
    /\ pace' = [Pressed(saturated) EXCEPT
                  !.notBefore = IF reset > 0 THEN Later(@, clock + reset) ELSE @]
    /\ op' = NoOp
    /\ streak' = 0 /\ failedAt' = 0
    /\ UNCHANGED <<clock, process, budget, task, charged, sent, lost>>

\* A final status, an answer over the byte budget or one that cannot be decoded.
FailAtOnce ==
    /\ op.at = "answer"
    /\ RecordFailure(clock)
    /\ UNCHANGED <<clock, process, budget, pace, task, charged, sent, lost>>

\* A network error or a retryable status: wait and try again, unless the retries,
\* the bound on a delay or the budget of retry seconds are used up.
RetryOrFail(wait, secondary) ==
    /\ op.at = "answer"
    /\ pace' = IF secondary /\ op.try < MaxRetries THEN Escalated ELSE pace
    /\ IF op.try < MaxRetries /\ wait <= MaxRetryDelay /\ budget.slept + wait <= RetryBudget
       THEN /\ clock + wait <= MaxClock
            /\ clock' = clock + wait
            /\ budget' = [budget EXCEPT !.slept = @ + wait]
            /\ op' = [at |-> "attempt", try |-> op.try + 1]
            /\ UNCHANGED <<circuit, streak, failedAt>>
       ELSE RecordFailure(clock) /\ UNCHANGED <<clock, budget>>
    /\ UNCHANGED <<process, task, charged, sent, lost>>

Tick ==
    /\ clock < MaxClock
    /\ clock' = clock + 1
    /\ UNCHANGED <<process, budget, circuit, pace, op, task, charged, sent, lost, streak, failedAt>>

--------------------------------------------------------------------------------
TransportInit ==
    /\ clock = 0
    /\ process = [number |-> 0, up |-> FALSE]
    /\ budget = Unspent
    /\ circuit = Fresh /\ pace = Unpaced
    /\ op = NoOp /\ task = NoTask
    /\ charged = 0 /\ sent = 0 /\ lost = 0
    /\ streak = 0 /\ failedAt = 0

TransportNext ==
    \/ StartProcess \/ Crash
    \/ BeginTask \/ EndTask \/ VerifyFails
    \/ BeginOperation \/ ConsumeAttempt
    \/ \E crosses \in BOOLEAN : Pace(crosses)
    \/ \E saturated \in BOOLEAN, reset \in {0} \cup RetryWaits : Succeed(saturated, reset)
    \/ FailAtOnce
    \/ \E wait \in RetryWaits, secondary \in BOOLEAN : RetryOrFail(wait, secondary)
    \/ Tick

TransportSpec == TransportInit /\ [][TransportNext]_transportVars

--------------------------------------------------------------------------------
(* Properties. *)

\* However often the run is restarted, failed or retried, its requests stay within
\* the budget, but for those of tasks whose end was never journaled.
SpentWithinBudget == sent <= MaxRequests + lost

\* Nothing is sent while the endpoint is considered down: after Threshold failed
\* operations in a row, and after each later one, no request leaves before the
\* circuit's time is over.
CircuitHolds ==
    [][sent' > sent => streak < Threshold \/ clock' >= failedAt + OpenTime]_transportVars

================================================================================
