------------------------------ MODULE StagesProofs ------------------------------
(***************************************************************************)
(* Proofs about what talks to GitHub.  The transport: the request budget of  *)
(* a run holds over any number of processes, and an open circuit keeps       *)
(* requests back.  The last look before a release: the points of GraphQL     *)
(* stay inside the budget, and what is released was public.  A code search:  *)
(* a complete certificate misses no repository.                              *)
(***************************************************************************)
EXTENDS HttpTransport, Visibility, CodeSearch, SumTheorems

\* What Max is worth on the sets the models take it of.
LEMMA MaxOfTwo ==
  ASSUME NEW a \in Nat, NEW b \in Nat
  PROVE  Max({a, b}) \in {a, b} /\ Max({a, b}) >= a /\ Max({a, b}) >= b
<1>1. \E x \in {a, b} : \A y \in {a, b} : x >= y
  OBVIOUS
<1>2. Max({a, b}) \in {a, b} /\ \A y \in {a, b} : Max({a, b}) >= y
  BY <1>1, Zenon DEF Max
<1> QED
  BY <1>2

LEMMA MaxOfThree ==
  ASSUME NEW a \in Nat, NEW b \in Nat, NEW c \in Nat
  PROVE  Max({a, b, c}) \in {a, b, c} /\ \A y \in {a, b, c} : Max({a, b, c}) >= y
<1>1. \E x \in {a, b, c} : \A y \in {a, b, c} : x >= y
  OBVIOUS
<1> QED
  BY <1>1, Zenon DEF Max

--------------------------------------------------------------------------------
(* The transport. *)

ProcessType == process \in [number : Nat, up : BOOLEAN]
BudgetType == budget \in [prior : Nat, attempts : Nat, slept : Nat]
CircuitType == circuit \in [failures : Nat, until : Nat]
PaceType ==
    pace \in [last : Nat, notBefore : Nat, level : 0 .. Len(PacingSteps), calm : Nat]
OpType == op \in [at : {"idle", "attempt", "pace", "answer"}, try : Nat]
TaskType == task \in [on : BOOLEAN, before : Nat]
CounterType ==
    /\ clock \in Nat /\ streak \in Nat /\ failedAt \in Nat
    /\ charged \in Nat /\ sent \in Nat /\ lost \in Nat

\* An operation runs in a task, and a task in a process.
Nesting ==
    /\ task.on => process.up /\ task.before <= budget.attempts
    /\ op.at # "idle" => task.on

\* The type of the transport.
TransportType ==
    /\ ProcessType /\ BudgetType /\ CircuitType /\ PaceType /\ OpType /\ TaskType
    /\ CounterType /\ Nesting

\* Requests that are debited and not sent yet, and the attempts of the task in
\* progress.
Debited == IF op.at = "pace" THEN 1 ELSE 0
InTask == IF task.on THEN budget.attempts - task.before ELSE 0

\* Every request sent is charged, lost with a process, or in the task in progress; one that
\* is debited and not sent yet counts as sent, and what is charged is inside the limit.
SpendInv ==
    /\ op.at = "pace" => budget.attempts > task.before
    /\ sent + Debited <= charged + lost + InTask
    /\ budget.prior + budget.attempts <= MaxRequests
    /\ process.up => charged + InTask <= budget.prior + budget.attempts
    /\ charged <= MaxRequests

\* What a run of failures has done to the circuit.
CircuitInv ==
    /\ failedAt <= clock
    /\ streak < Threshold => circuit.failures >= streak
    /\ streak >= Threshold => circuit.failures >= Threshold - 1
    /\ op.at # "idle" => circuit.until = 0
    /\ streak >= Threshold =>
         IF op.at = "idle"
         THEN circuit.until \in {0, failedAt + OpenTime}
              /\ (circuit.until = 0 => clock >= failedAt + OpenTime)
         ELSE clock >= failedAt + OpenTime

\* The inductive invariant of the transport.
TransportInv == TransportType /\ SpendInv /\ CircuitInv
--------------------------------------------------------------------------------
LEMMA TransportConstants ==
    /\ MaxRequests \in Nat /\ Threshold \in Nat \ {0} /\ OpenTime \in Nat
    /\ RetryWaits \subseteq Nat
    /\ Len(PacingSteps) \in Nat
  BY TransportAssumption

\* The next request is never due in the past.
LEMMA DueIsLater == PaceType /\ CounterType => Due \in Nat /\ Due >= clock
<1> SUFFICES ASSUME PaceType, CounterType PROVE Due \in Nat /\ Due >= clock
  OBVIOUS
<1>1. pace.level \in 0 .. Len(PacingSteps) /\ pace.last \in Nat /\ pace.notBefore \in Nat
  BY DEF PaceType
<1>2. Interval \in Nat
  BY <1>1, TransportAssumption DEF Interval
<1>3. clock \in Nat /\ pace.last + Interval \in Nat
  BY <1>1, <1>2 DEF CounterType
<1> QED
  BY <1>1, <1>3, MaxOfThree DEF Due

Paces == [last : Nat, notBefore : Nat, level : 0 .. Len(PacingSteps), calm : Nat]

\* Pacing stays within the ladder of its steps.
LEMMA EscalatedIsPace == PaceType => Escalated \in Paces
<1> SUFFICES ASSUME PaceType PROVE Escalated \in Paces
  OBVIOUS
<1>1. CASE pace.level < Len(PacingSteps)
  <2>1. Escalated = [[pace EXCEPT !.calm = 0] EXCEPT !.level = pace.level + 1]
    BY <1>1 DEF Escalated, PaceType
  <2>2. pace.level + 1 \in 0 .. Len(PacingSteps)
    BY <1>1, TransportConstants DEF PaceType
  <2> QED
    BY <2>1, <2>2 DEF PaceType, Paces
<1>2. CASE ~(pace.level < Len(PacingSteps))
  <2>1. Escalated = [[pace EXCEPT !.calm = 0] EXCEPT !.level = pace.level]
    BY <1>2 DEF Escalated, PaceType
  <2> QED
    BY <1>2, <2>1, TransportConstants DEF PaceType, Paces
<1> QED
  BY <1>1, <1>2

LEMMA PressedIsPace == ASSUME PaceType, NEW saturated \in BOOLEAN PROVE Pressed(saturated) \in Paces
<1>1. CASE PacingSteps = <<>> \/ saturated \/ pace.level = 0
  BY <1>1, EscalatedIsPace DEF PaceType, Paces, Pressed
<1>2. CASE pace.level > 0
  <2>1. pace.level - 1 \in 0 .. Len(PacingSteps) /\ pace.calm + 1 \in Nat
    BY <1>2, TransportConstants DEF PaceType
  <2>2. /\ [pace EXCEPT !.calm = pace.calm + 1] \in Paces
        /\ [[pace EXCEPT !.calm = 0] EXCEPT !.level = pace.level - 1] \in Paces
    BY <2>1 DEF PaceType, Paces
  <2>3. Pressed(saturated) \in {pace, Escalated, [pace EXCEPT !.calm = pace.calm + 1],
                               [[pace EXCEPT !.calm = 0] EXCEPT !.level = pace.level - 1]}
    BY DEF Pressed, PaceType
  <2> QED
    BY <2>2, <2>3, EscalatedIsPace DEF PaceType, Paces
<1> QED
  BY <1>1, <1>2, TransportConstants DEF PaceType

LEMMA SucceedPace ==
  ASSUME PaceType, CounterType,
         NEW saturated \in BOOLEAN, NEW reset \in {0} \cup RetryWaits, Succeed(saturated, reset)
  PROVE  PaceType'
<1>1. Pressed(saturated) \in Paces /\ clock + reset \in Nat
  BY PressedIsPace, TransportConstants DEF CounterType
<1>2. Pressed(saturated).notBefore \in Nat
  BY <1>1 DEF Paces
<1>3. Later(Pressed(saturated).notBefore, clock + reset) \in Nat
  BY <1>1, <1>2, MaxOfTwo DEF Later
<1> QED
  BY <1>1, <1>3 DEF Succeed, PaceType, Paces

\* The invariant of the transport is inductive.
LEMMA TransportInitial == TransportInit => TransportInv
<1> SUFFICES ASSUME TransportInit PROVE TransportInv
  OBVIOUS
<1> USE DEF TransportInit, Unspent, Fresh, Unpaced, NoOp, NoTask
<1>1. ProcessType /\ BudgetType /\ CircuitType /\ OpType /\ TaskType
  BY DEF ProcessType, BudgetType, CircuitType, OpType, TaskType
<1>2. PaceType /\ CounterType /\ Nesting
  BY TransportConstants DEF PaceType, CounterType, Nesting
<1>3. SpendInv
  BY TransportConstants DEF SpendInv, Debited, InTask
<1>4. CircuitInv
  BY TransportConstants DEF CircuitInv
<1> QED
  BY <1>1, <1>2, <1>3, <1>4 DEF TransportInv, TransportType

Steps == \* the steps of an operation after its answer
    \/ \E saturated \in BOOLEAN, reset \in {0} \cup RetryWaits : Succeed(saturated, reset)
    \/ FailAtOnce
    \/ \E wait \in RetryWaits, secondary \in BOOLEAN : RetryOrFail(wait, secondary)

LEMMA TransportTypeStep == TransportType /\ [TransportNext]_transportVars => TransportType'
<1> SUFFICES ASSUME TransportType, [TransportNext]_transportVars PROVE TransportType'
  OBVIOUS
<1>0. /\ ProcessType /\ BudgetType /\ CircuitType /\ PaceType /\ OpType /\ TaskType
      /\ CounterType /\ Nesting
  BY DEF TransportType
<1>1. ProcessType'
  <2>1. CASE StartProcess
    BY <1>0, <2>1 DEF StartProcess, ProcessType
  <2>2. CASE Crash
    BY <1>0, <2>2 DEF Crash, ProcessType
  <2>3. CASE UNCHANGED process
    BY <1>0, <2>3 DEF ProcessType
  <2> QED
    BY <2>1, <2>2, <2>3
       DEF TransportNext, transportVars, BeginTask, EndTask, VerifyFails, BeginOperation,
           ConsumeAttempt, Pace, Succeed, FailAtOnce, RetryOrFail, Tick
<1>2. BudgetType'
  <2>1. CASE StartProcess
    BY <1>0, <2>1 DEF StartProcess, BudgetType, CounterType, Unspent
  <2>2. CASE Crash
    BY <2>2 DEF Crash, BudgetType, Unspent
  <2>3. CASE ConsumeAttempt
    BY <1>0, <2>3 DEF ConsumeAttempt, BudgetType
  <2>4. ASSUME NEW wait \in RetryWaits, NEW secondary \in BOOLEAN, RetryOrFail(wait, secondary)
        PROVE  BudgetType'
    BY <1>0, <2>4, TransportConstants DEF RetryOrFail, BudgetType
  <2>5. CASE UNCHANGED budget
    BY <1>0, <2>5 DEF BudgetType
  <2> QED
    BY <2>1, <2>2, <2>3, <2>4, <2>5
       DEF TransportNext, transportVars, BeginTask, EndTask, VerifyFails, BeginOperation,
           Pace, Succeed, FailAtOnce, Tick
<1>3. CircuitType'
  <2>1. CASE Crash
    BY <2>1 DEF Crash, CircuitType, Fresh
  <2>2. CASE BeginOperation
    BY <1>0, <2>2, TransportConstants DEF BeginOperation, CircuitType
  <2>3. CASE circuit' = Fresh
    BY <2>3 DEF CircuitType, Fresh
  <2>4. CASE RecordFailure(clock)
    BY <1>0, <2>4, TransportConstants DEF RecordFailure, CircuitType, CounterType
  <2>5. CASE UNCHANGED circuit
    BY <1>0, <2>5 DEF CircuitType
  <2> QED
    BY <2>1, <2>2, <2>3, <2>4, <2>5
       DEF TransportNext, transportVars, StartProcess, BeginTask, EndTask, VerifyFails,
           ConsumeAttempt, Pace, Succeed, FailAtOnce, RetryOrFail, Tick
<1>4. PaceType'
  <2>1. CASE Crash
    BY <2>1, TransportConstants DEF Crash, PaceType, Unpaced
  <2>2. ASSUME NEW crosses \in BOOLEAN, Pace(crosses) PROVE PaceType'
    BY <1>0, <2>2, DueIsLater DEF Pace, PaceType
  <2>3. ASSUME NEW saturated \in BOOLEAN, NEW reset \in {0} \cup RetryWaits,
               Succeed(saturated, reset)
        PROVE  PaceType'
    BY <1>0, <2>3, SucceedPace
  <2>4. ASSUME NEW wait \in RetryWaits, NEW secondary \in BOOLEAN, RetryOrFail(wait, secondary)
        PROVE  PaceType'
    BY <1>0, <2>4, EscalatedIsPace DEF RetryOrFail, PaceType, Paces
  <2>5. CASE UNCHANGED pace
    BY <1>0, <2>5 DEF PaceType
  <2> QED
    BY <2>1, <2>2, <2>3, <2>4, <2>5
       DEF TransportNext, transportVars, StartProcess, BeginTask, EndTask, VerifyFails,
           BeginOperation, ConsumeAttempt, FailAtOnce, Tick
<1>5. OpType'
  <2>1. CASE op' \in {NoOp, op, [at |-> "attempt", try |-> 0], [op EXCEPT !.at = "pace"],
                      [op EXCEPT !.at = "answer"], [at |-> "attempt", try |-> op.try + 1]}
    BY <1>0, <2>1 DEF OpType, NoOp
  <2> QED
    BY <2>1 DEF TransportNext, transportVars, StartProcess, Crash, BeginTask, EndTask,
                VerifyFails, BeginOperation, ConsumeAttempt, Pace, Succeed, FailAtOnce,
                RetryOrFail, RecordFailure, Tick
<1>6. TaskType'
  <2>1. CASE BeginTask
    BY <1>0, <2>1 DEF BeginTask, TaskType, BudgetType
  <2>2. CASE task' = task
    BY <1>0, <2>2 DEF TaskType
  <2>3. CASE task' = NoTask
    BY <2>3 DEF TaskType, NoTask
  <2> QED
    BY <2>1, <2>2, <2>3
       DEF TransportNext, transportVars, StartProcess, Crash, EndTask, VerifyFails,
           BeginOperation, ConsumeAttempt, Pace, Succeed, FailAtOnce, RetryOrFail, Tick
<1>7. CounterType'
  <2>1. budget.attempts \in Nat /\ task.before \in Nat
    BY <1>0 DEF BudgetType, TaskType
  <2>2. task.on => budget.attempts - task.before \in Nat
    BY <1>0, <2>1 DEF Nesting
  <2>3. CASE Crash \/ EndTask \/ VerifyFails
    BY <1>0, <2>1, <2>2, <2>3 DEF Crash, EndTask, VerifyFails, CounterType
  <2>4. ASSUME NEW crosses \in BOOLEAN, Pace(crosses) PROVE CounterType'
    BY <1>0, <2>4, DueIsLater DEF Pace, CounterType
  <2>5. CASE Steps \/ Tick
    BY <1>0, <2>5, TransportConstants
       DEF Steps, Succeed, FailAtOnce, RetryOrFail, RecordFailure, Tick, CounterType
  <2>6. CASE UNCHANGED <<clock, streak, failedAt, charged, sent, lost>>
    BY <1>0, <2>6 DEF CounterType
  <2> QED
    BY <2>3, <2>4, <2>5, <2>6
       DEF TransportNext, transportVars, StartProcess, BeginTask, BeginOperation, ConsumeAttempt,
           Steps
<1>8. Nesting'
  <2> USE <1>0 DEF Nesting
  <2>1. CASE Crash
    BY <2>1 DEF Crash, NoTask, NoOp
  <2>2. CASE BeginTask
    BY <2>2 DEF BeginTask, BudgetType
  <2>3. CASE StartProcess
    BY <2>3 DEF StartProcess
  <2>4. CASE EndTask \/ VerifyFails
    BY <2>4 DEF EndTask, VerifyFails, NoTask
  <2>5. CASE BeginOperation
    BY <2>5 DEF BeginOperation
  <2>6. CASE ConsumeAttempt
    BY <2>6 DEF ConsumeAttempt, NoOp, BudgetType, TaskType
  <2>7. ASSUME op.at # "idle", UNCHANGED <<process, task>>, budget'.attempts = budget.attempts
        PROVE  Nesting'
    BY <2>7
  <2>8. ASSUME NEW crosses \in BOOLEAN, Pace(crosses) PROVE Nesting'
    BY <2>7, <2>8 DEF Pace
  <2>9. CASE Steps
    BY <2>7, <2>9 DEF Steps, Succeed, FailAtOnce, RetryOrFail, RecordFailure, BudgetType
  <2>10. CASE Tick \/ UNCHANGED transportVars
    BY <2>10 DEF Tick, transportVars
  <2> QED
    BY <2>1, <2>2, <2>3, <2>4, <2>5, <2>6, <2>8, <2>9, <2>10 DEF TransportNext, Steps
<1> QED
  BY <1>1, <1>2, <1>3, <1>4, <1>5, <1>6, <1>7, <1>8 DEF TransportType

LEMMA SpendStep == TransportType /\ SpendInv /\ [TransportNext]_transportVars => SpendInv'
<1> SUFFICES ASSUME TransportType, SpendInv, [TransportNext]_transportVars PROVE SpendInv'
  OBVIOUS
<1>0. /\ budget.prior \in Nat /\ budget.attempts \in Nat /\ task.before \in Nat
      /\ BudgetType /\ TaskType /\ OpType /\ CounterType /\ Nesting
  BY DEF TransportType, BudgetType, TaskType
<1>a. InTask \in Nat /\ Debited \in {0, 1}
  BY <1>0 DEF InTask, Debited, Nesting
<1> USE <1>0, TransportConstants DEF CounterType, Nesting, SpendInv, Debited, InTask
<1>1. CASE StartProcess
  <2>1. ~task.on /\ op.at # "pace" /\ budget'.prior = charged /\ budget'.attempts = 0
    BY <1>1 DEF StartProcess, Unspent
  <2>2. UNCHANGED <<op, task, charged, sent, lost>> /\ charged <= MaxRequests
    BY <1>1 DEF StartProcess
  <2> QED
    BY <2>1, <2>2
<1>2. CASE Crash
  <2>1. /\ ~task'.on /\ op'.at # "pace" /\ ~process'.up
        /\ budget'.prior = 0 /\ budget'.attempts = 0
    BY <1>2 DEF Crash, Unspent, NoTask, NoOp, TransportType, ProcessType
  <2>2. UNCHANGED <<charged, sent>> /\ lost' = lost + InTask
    BY <1>2 DEF Crash
  <2>3. Debited' = 0 /\ InTask' = 0
    BY <2>1
  <2> HIDE DEF Debited, InTask
  <2> QED
    BY <1>a, <2>1, <2>2, <2>3
<1>3. CASE BeginTask
  BY <1>3 DEF BeginTask
<1>4. CASE EndTask
  <2>1. ~task'.on /\ task.on /\ op.at = "idle" /\ charged' = charged + InTask
    BY <1>4 DEF EndTask, NoTask
  <2>2. UNCHANGED <<process, budget, op, sent, lost>>
    BY <1>4 DEF EndTask
  <2> QED
    BY <2>1, <2>2
<1>5. CASE VerifyFails
  <2>1. ~task'.on /\ op.at = "idle" /\ lost' = lost + InTask
    BY <1>5 DEF VerifyFails, NoTask
  <2>2. UNCHANGED <<process, budget, op, sent, charged>>
    BY <1>5 DEF VerifyFails
  <2>3. Debited' = 0 /\ InTask' = 0
    BY <2>1, <2>2
  <2> HIDE DEF Debited, InTask
  <2> QED
    BY <1>a, <2>1, <2>2, <2>3
<1>6. CASE BeginOperation
  BY <1>6 DEF BeginOperation
<1>7. CASE ConsumeAttempt
  <2>1. UNCHANGED <<process, task, charged, sent, lost>> /\ op.at = "attempt"
    BY <1>7 DEF ConsumeAttempt
  <2>2. CASE budget.prior + budget.attempts >= MaxRequests
    <3>1. op'.at = "idle" /\ budget' = budget
      BY <1>7, <2>2 DEF ConsumeAttempt, NoOp
    <3> QED
      BY <2>1, <3>1
  <2>3. CASE ~(budget.prior + budget.attempts >= MaxRequests)
    <3>1. budget' = [budget EXCEPT !.attempts = @ + 1] /\ op' = [op EXCEPT !.at = "pace"]
      BY <1>7, <2>3 DEF ConsumeAttempt
    <3>2. op'.at = "pace" /\ budget'.prior = budget.prior
      BY <3>1 DEF BudgetType, OpType
    <3>3. budget'.attempts = budget.attempts + 1
      BY <3>1 DEF BudgetType
    <3>4. task.on /\ Debited = 0 /\ Debited' = 1 /\ InTask' = InTask + 1
      BY <2>1, <3>2, <3>3
    <3>5. budget'.attempts > task'.before
      BY <2>1, <3>3, <3>4
    <3> HIDE DEF Debited, InTask
    <3> QED
      BY <1>a, <2>1, <2>3, <3>2, <3>3, <3>4, <3>5
  <2> QED
    BY <2>2, <2>3
<1>8. ASSUME NEW crosses \in BOOLEAN, Pace(crosses) PROVE SpendInv'
  <2>1. UNCHANGED <<process, budget, task, charged, lost>> /\ op.at = "pace"
    BY <1>8 DEF Pace
  <2>2. op'.at # "pace" /\ sent' \in {sent, sent + 1}
    BY <1>8 DEF Pace, NoOp, OpType
  <2> QED
    BY <2>1, <2>2
<1>9. ASSUME /\ UNCHANGED <<process, task, charged, sent, lost>>
             /\ op.at = "answer" /\ op'.at # "pace"
             /\ budget'.prior = budget.prior /\ budget'.attempts = budget.attempts
      PROVE  SpendInv'
  BY <1>9
<1>10. ASSUME NEW saturated \in BOOLEAN, NEW reset \in {0} \cup RetryWaits, Succeed(saturated, reset)
       PROVE SpendInv'
  BY <1>9, <1>10 DEF Succeed, NoOp
<1>11. CASE FailAtOnce
  BY <1>9, <1>11 DEF FailAtOnce, RecordFailure, NoOp
<1>12. ASSUME NEW wait \in RetryWaits, NEW secondary \in BOOLEAN, RetryOrFail(wait, secondary)
       PROVE SpendInv'
  <2>1. UNCHANGED <<process, task, charged, sent, lost>> /\ op.at = "answer"
    BY <1>12 DEF RetryOrFail
  <2>2. op'.at # "pace"
    BY <1>12 DEF RetryOrFail, RecordFailure, NoOp
  <2>3. budget' \in {budget, [budget EXCEPT !.slept = @ + wait]}
    BY <1>12 DEF RetryOrFail
  <2>4. budget'.prior = budget.prior /\ budget'.attempts = budget.attempts
    BY <2>3 DEF BudgetType
  <2> QED
    BY <1>9, <2>1, <2>2, <2>4
<1>13. CASE Tick \/ UNCHANGED transportVars
  BY <1>13 DEF Tick, transportVars
<1> QED
  BY <1>1, <1>2, <1>3, <1>4, <1>5, <1>6, <1>7, <1>8, <1>10, <1>11, <1>12, <1>13
     DEF TransportNext

LEMMA CircuitStep == TransportType /\ CircuitInv /\ [TransportNext]_transportVars => CircuitInv'
<1> SUFFICES ASSUME TransportType, CircuitInv, [TransportNext]_transportVars PROVE CircuitInv'
  OBVIOUS
<1> USE TransportConstants DEF TransportType, CircuitType, CounterType, CircuitInv
<1>1. CASE StartProcess \/ BeginTask \/ EndTask \/ VerifyFails
  BY <1>1 DEF StartProcess, BeginTask, EndTask, VerifyFails
<1>2. CASE Crash
  BY <1>2 DEF Crash, Fresh, NoOp
<1>3. CASE BeginOperation
  BY <1>3 DEF BeginOperation
<1>4. CASE ConsumeAttempt
  BY <1>4 DEF ConsumeAttempt, NoOp
<1>5. ASSUME NEW crosses \in BOOLEAN, Pace(crosses) PROVE CircuitInv'
  BY <1>5, DueIsLater DEF Pace, NoOp
<1>6. ASSUME NEW saturated \in BOOLEAN, NEW reset \in {0} \cup RetryWaits, Succeed(saturated, reset)
      PROVE CircuitInv'
  BY <1>6 DEF Succeed, Fresh, NoOp
<1>7. ASSUME op.at = "answer", RecordFailure(clock), clock' = clock PROVE CircuitInv'
  BY <1>7 DEF RecordFailure, NoOp
<1>8. CASE FailAtOnce
  BY <1>7, <1>8 DEF FailAtOnce
<1>9. ASSUME NEW wait \in RetryWaits, NEW secondary \in BOOLEAN, RetryOrFail(wait, secondary)
      PROVE CircuitInv'
  BY <1>7, <1>9 DEF RetryOrFail
<1>10. CASE Tick \/ UNCHANGED transportVars
  BY <1>10 DEF Tick, transportVars
<1> QED
  BY <1>1, <1>2, <1>3, <1>4, <1>5, <1>6, <1>8, <1>9, <1>10 DEF TransportNext

LEMMA TransportStep == TransportInv /\ [TransportNext]_transportVars => TransportInv'
  BY TransportTypeStep, SpendStep, CircuitStep DEF TransportInv

\* However often the process of a run dies and the next one takes up its budget, the requests
\* sent stay within the limit of the run, but for those that a process which died in a task,
\* or before it could journal the task, never charged.  For any limits and any waits.
THEOREM RequestsStayInBudget == TransportSpec => []SpentWithinBudget
<1>1. TransportInv => SpentWithinBudget
  BY TransportConstants
     DEF TransportInv, TransportType, BudgetType, TaskType, CounterType, Nesting, SpendInv, Debited,
         InTask, SpentWithinBudget
<1> QED
  BY <1>1, TransportInitial, TransportStep, PTL DEF TransportSpec

\* Nothing is sent while the endpoint is considered down: after a run of failures as long as
\* the threshold, and after each later one, no request leaves before the time of the circuit
\* is over, whichever half-open attempts, successes and restarts come between.
THEOREM CircuitKeepsRequestsBack == TransportSpec => CircuitHolds
<1>1. ASSUME TransportInv, [TransportNext]_transportVars, sent' > sent
      PROVE  streak < Threshold \/ clock' >= failedAt + OpenTime
  <2>1. ASSUME NEW crosses \in BOOLEAN, Pace(crosses)
        PROVE  streak < Threshold \/ clock' >= failedAt + OpenTime
    BY <1>1, <2>1, DueIsLater, TransportConstants 
       DEF Pace, TransportInv, TransportType, CounterType, CircuitInv
  <2>2. \/ \E crosses \in BOOLEAN : Pace(crosses)
        \/ UNCHANGED sent
    BY <1>1 DEF TransportNext, transportVars, StartProcess, Crash, BeginTask, EndTask, VerifyFails,
                BeginOperation, ConsumeAttempt, Succeed, FailAtOnce, RetryOrFail, Tick
  <2> QED
    BY <1>1, <2>1, <2>2 DEF TransportInv, TransportType, CounterType
<1>2. TransportInv /\ [TransportNext]_transportVars =>
        [sent' > sent => streak < Threshold \/ clock' >= failedAt + OpenTime]_transportVars
  BY <1>1
<1> QED
  BY <1>2, TransportInitial, TransportStep, PTL DEF TransportSpec, CircuitHolds
--------------------------------------------------------------------------------
(* The points. *)

\* Every point that was charged is in a document of the journal or in no document.
PointsType ==
    /\ journaled \in [metadata : Nat, final : Nat]
    /\ known \in Nat /\ spent \in Nat /\ uncounted \in Nat

PointsInv ==
    /\ PointsType
    /\ spent <= JournalPoints + uncounted
    /\ spent <= PointBudget + uncounted

--------------------------------------------------------------------------------
(* The last look. *)

Verdicts == {NotYet, "superseded", "ok", "rejected", "unknown"}
Epochs == [at : Nat, docs : UNION {[set -> Verdicts] : set \in SUBSET Repos}]

LookType ==
    /\ now \in Nat
    /\ visible \in [Repos -> [public : BOOLEAN, since : Nat]]
    /\ final \in Seq(Epochs)
    /\ current \in SUBSET Repos

\* What a document that accepts a repository still means.
Stands(e) ==
    /\ e.at <= now
    /\ \A r \in DOMAIN e.docs :
          e.docs[r] = "ok" => visible[r].public \/ visible[r].since >= e.at

LookInv ==
    /\ LookType
    /\ final # <<>> => Stands(Last(final))
    /\ at \in {"attesting", "attested"} =>
          final # <<>> /\ DOMAIN Last(final).docs = current
    /\ at = "attested" => \A r \in current : Last(final).docs[r] = "ok"
--------------------------------------------------------------------------------
(* The points, step by step. *)

LEMMA VisibilityConstants ==
    /\ MaxAge \in Nat /\ PointBudget \in Nat /\ MaxCost \in Nat
    /\ \A cost \in Costs : cost \in Nat /\ cost <= MaxCost
  BY VisibilityAssumption

LEMMA KnownCoversJournal ==
  PointsType => Known \in Nat /\ Known >= JournalPoints /\ JournalPoints \in Nat
<1> SUFFICES ASSUME PointsType
             PROVE  Known \in Nat /\ Known >= JournalPoints /\ JournalPoints \in Nat
  OBVIOUS
<1>1. JournalPoints \in Nat /\ known \in Nat
  BY DEF JournalPoints, PointsType
<1> QED
  BY <1>1, MaxOfTwo DEF Known

LEMMA PointsInitial == VisibilityInit => PointsInv
  BY VisibilityConstants DEF VisibilityInit, PointsInv, PointsType, JournalPoints

\* What a step does to the points: nothing; a document counts a charge, or
\* more than that; or a charge that no document counts.
LEMMA PointsKept ==
  ASSUME PointsInv, UNCHANGED <<journaled, spent, uncounted>>, known' \in {known, 0}
  PROVE  PointsInv'
  BY DEF PointsInv, PointsType, JournalPoints

LEMMA PointsCounted ==
  ASSUME PointsInv, NEW charge \in Nat, NEW counted \in Nat, charge <= counted,
         charge > 0 => ClientMayAsk, charge <= MaxCost,
         spent' = spent + charge, uncounted' = uncounted, known' \in Nat,
         \/ journaled' = [journaled EXCEPT !.metadata = @ + counted]
         \/ journaled' = [journaled EXCEPT !.final = @ + counted]
  PROVE  PointsInv'
<1>1. PointsType'
  BY DEF PointsInv, PointsType
<1>2. JournalPoints' = JournalPoints + counted
  BY DEF PointsInv, PointsType, JournalPoints
<1>3. JournalPoints \in Nat /\ spent \in Nat /\ uncounted \in Nat
  BY KnownCoversJournal DEF PointsInv, PointsType
<1>4. spent' <= JournalPoints' + uncounted'
  BY <1>2, <1>3 DEF PointsInv
<1>5. CASE charge > 0
  <2>1. JournalPoints + MaxCost <= PointBudget
    BY <1>3, <1>5, KnownCoversJournal, VisibilityConstants DEF ClientMayAsk, PointsInv
  <2> QED
    BY <1>1, <1>3, <1>4, <2>1, VisibilityConstants DEF PointsInv
<1>6. CASE charge = 0
  BY <1>1, <1>3, <1>4, <1>6, VisibilityConstants DEF PointsInv
<1> QED
  BY <1>5, <1>6

LEMMA PointsLost ==
  ASSUME PointsInv, NEW cost \in Nat, spent' = spent + cost, uncounted' = uncounted + cost,
         known' \in Nat, UNCHANGED journaled
  PROVE  PointsInv'
<1>1. JournalPoints' = JournalPoints /\ JournalPoints \in Nat
  BY KnownCoversJournal DEF PointsInv, JournalPoints
<1> QED
  BY <1>1, VisibilityConstants DEF PointsInv, PointsType

LEMMA PointsStep == PointsInv /\ [VisibilityNext]_visibilityVars => PointsInv'
<1> SUFFICES ASSUME PointsInv, [VisibilityNext]_visibilityVars PROVE PointsInv'
  OBVIOUS
<1>1. Known \in Nat /\ known \in Nat
  BY KnownCoversJournal DEF PointsInv, PointsType
<1>2. ASSUME NEW r \in Repos, NEW cost \in Costs, ResolveMetadata(r, cost) PROVE PointsInv'
  <2>1. CASE UNCHANGED <<journaled, spent, uncounted>> /\ known' = 0
    BY <2>1, PointsKept
  <2>2. CASE /\ ClientMayAsk /\ Charge(cost) /\ UNCHANGED uncounted
             /\ journaled' = [journaled EXCEPT !.metadata = @ + cost]
    <3>1. known' \in Nat /\ spent' = spent + cost
      BY <1>1, <2>2, VisibilityConstants DEF Charge
    <3>2. cost \in Nat /\ cost <= cost /\ cost <= MaxCost
      BY VisibilityConstants
    <3> QED
      BY <2>2, <3>1, <3>2, PointsCounted
  <2>3. CASE spent' = spent + cost /\ uncounted' = uncounted + cost /\ known' = 0
             /\ UNCHANGED journaled
    BY <2>3, PointsLost, VisibilityConstants
  <2> QED
    BY <1>2, <2>1, <2>2, <2>3 DEF ResolveMetadata, Raise
<1>3. ASSUME NEW r \in Repos, NEW cost \in Costs, Attest(r, cost) PROVE PointsInv'
  <2>0. cost \in Nat /\ cost <= cost /\ cost <= MaxCost /\ MaxCost \in Nat /\ MaxCost <= MaxCost
    BY VisibilityConstants
  <2>1. CASE /\ ClientMayAsk /\ spent' = spent + cost /\ known' \in Nat /\ UNCHANGED uncounted
             /\ journaled' = [journaled EXCEPT !.final = @ + cost]
    BY <2>0, <2>1, PointsCounted
  <2>2. CASE /\ spent' = spent + (IF ClientMayAsk THEN cost ELSE 0) /\ known' = 0
             /\ UNCHANGED uncounted
             /\ journaled' = [journaled EXCEPT !.final = @ + MaxCost]
    <3>1. CASE ClientMayAsk
      BY <2>0, <2>2, <3>1, PointsCounted
    <3>2. CASE ~ClientMayAsk
      <4>1. spent' = spent + 0 /\ known' \in Nat /\ 0 <= MaxCost /\ 0 \in Nat /\ ~(0 > 0)
        BY <2>0, <2>2, <3>2 DEF PointsInv, PointsType
      <4> QED
        BY <2>0, <2>2, <4>1, PointsCounted
    <3> QED
      BY <3>1, <3>2
  <2> QED
    BY <1>1, <1>3, <2>1, <2>2, VisibilityConstants DEF Attest, Raise, Charge
<1>4. ASSUME NEW cost \in Costs \cup {0}, ProcessDies(cost) PROVE PointsInv'
  <2>1. CASE UNCHANGED <<spent, uncounted>>
    BY <1>4, <2>1, PointsKept DEF ProcessDies, Raise
  <2>2. CASE spent' = spent + cost /\ uncounted' = uncounted + cost
    BY <1>4, <2>2, PointsLost, VisibilityConstants DEF ProcessDies, Raise
  <2> QED
    BY <1>4, <2>1, <2>2 DEF ProcessDies
<1>5. ASSUME NEW set \in SUBSET Repos, PrepareOutput(set) PROVE PointsInv'
  BY <1>5, PointsKept DEF PrepareOutput, Raise
<1>6. CASE Invoke \/ MetadataResolved \/ BeginFinal \/ RefuseFinal \/ AttestRefused \/ Attested
           \/ Install \/ RunAborts \/ TimePasses
  BY <1>6, PointsKept
     DEF Invoke, MetadataResolved, BeginFinal, RefuseFinal, AttestRefused, Attested, Install,
         RunAborts, TimePasses, Raise
<1>7. ASSUME NEW r \in Repos, ChangeVisibility(r) PROVE PointsInv'
  BY <1>7, PointsKept DEF ChangeVisibility
<1>8. CASE UNCHANGED visibilityVars
  BY <1>8, PointsKept DEF visibilityVars
<1> QED
  BY <1>2, <1>3, <1>4, <1>5, <1>6, <1>7, <1>8 DEF VisibilityNext

\* The GraphQL points of a run, over all its invocations and both of its stages, stay within
\* the budget but for those of calls without a document.  For any number of repositories.
THEOREM PointsStayInBudget == VisibilitySpec => []PointsWithinBudget
<1>1. PointsInv => PointsWithinBudget
  BY DEF PointsInv, PointsWithinBudget
<1> QED
  BY <1>1, PointsInitial, PointsStep, PTL DEF VisibilitySpec
--------------------------------------------------------------------------------
(* The last look, step by step. *)

LEMMA EpochFacts ==
  ASSUME NEW e \in Epochs
  PROVE  /\ e.at \in Nat /\ e.docs \in [DOMAIN e.docs -> Verdicts] /\ DOMAIN e.docs \in SUBSET Repos
         /\ e = [at |-> e.at, docs |-> e.docs]
  BY DEF Epochs

LEMMA MakeEpoch ==
  ASSUME NEW t \in Nat, NEW set \in SUBSET Repos, NEW docs \in [set -> Verdicts]
  PROVE  [at |-> t, docs |-> docs] \in Epochs
  BY DEF Epochs

LEMMA LastFacts ==
  ASSUME NEW S, NEW s \in Seq(S), s # <<>>
  PROVE  /\ Len(s) \in 1 .. Len(s) /\ Last(s) = s[Len(s)] /\ Last(s) \in S
  BY DEF Last

WithLast(s, e) == [s EXCEPT ![Len(s)] = e]

LEMMA ReplaceLast ==
  ASSUME NEW S, NEW s \in Seq(S), s # <<>>, NEW e \in S
  PROVE  WithLast(s, e) \in Seq(S) /\ WithLast(s, e) # <<>> /\ Last(WithLast(s, e)) = e
<1>1. Len(s) \in 1 .. Len(s)
  BY LastFacts
<1>2. WithLast(s, e) \in Seq(S) /\ Len(WithLast(s, e)) = Len(s)
  BY <1>1 DEF WithLast
<1> QED
  BY <1>1, <1>2 DEF Last, WithLast

LEMMA AppendLast ==
  ASSUME NEW S, NEW s \in Seq(S), NEW e \in S
  PROVE  Append(s, e) \in Seq(S) /\ Append(s, e) # <<>> /\ Last(Append(s, e)) = e
  BY DEF Last

LEMMA SupersededDocs ==
  ASSUME NEW set \in SUBSET Repos, NEW docs \in [set -> Verdicts]
  PROVE  Superseded(docs) \in [set -> Verdicts]
  BY DEF Superseded, Verdicts, NotYet
LEMMA LookInitial == VisibilityInit => LookInv
  BY DEF VisibilityInit, LookInv, LookType

\* A step that leaves the epochs alone and does not enter the last look.
LEMMA LookKept ==
  ASSUME LookInv, UNCHANGED <<now, visible, final>>,
         \/ UNCHANGED <<at, current>>
         \/ at' \notin {"attesting", "attested"} /\ current' \in SUBSET Repos
  PROVE  LookInv'
  BY DEF LookInv, LookType, Stands

LEMMA LookBegins == LookInv /\ BeginFinal => LookInv'
<1> SUFFICES ASSUME LookInv, BeginFinal PROVE LookInv'
  OBVIOUS
<1>1. /\ at' = "attesting" /\ UNCHANGED <<now, visible, current>>
      /\ now \in Nat /\ final \in Seq(Epochs) /\ current \in SUBSET Repos
  BY DEF BeginFinal, LookInv, LookType
<1>2. CASE mayResume /\ final # <<>>
  <2>1. final' = WithLast(final, Last(final)) /\ DOMAIN Last(final).docs = current
    BY <1>2 DEF BeginFinal, ResumedEpoch, WithLast
  <2>2. Last(final) \in Epochs
    BY <1>1, <1>2, LastFacts
  <2>3. final' \in Seq(Epochs) /\ final' # <<>> /\ Last(final') = Last(final)
    BY <1>1, <1>2, <2>1, <2>2, ReplaceLast
  <2>4. Stands(Last(final))'
    BY <1>1, <1>2, <2>3 DEF LookInv, Stands
  <2> QED
    BY <1>1, <2>1, <2>3, <2>4 DEF LookInv, LookType
<1>3. CASE ~(mayResume /\ final # <<>>)
  <2> DEFINE older == [i \in DOMAIN final |-> [final[i] EXCEPT !.docs = Superseded(@)]]
  <2>1. final' = Append(older, NewEpoch)
    BY <1>3 DEF BeginFinal
  <2>2. ASSUME NEW i \in DOMAIN final PROVE older[i] \in Epochs
    <3>1. final[i] \in Epochs
      BY <1>1
    <3>2. Superseded(final[i].docs) \in [DOMAIN final[i].docs -> Verdicts]
      BY <3>1, EpochFacts, SupersededDocs
    <3>3. older[i] = [at |-> final[i].at, docs |-> Superseded(final[i].docs)]
      BY <3>1, EpochFacts
    <3> QED
      BY <3>1, <3>2, <3>3, EpochFacts, MakeEpoch
  <2>3. older \in Seq(Epochs)
    <3>1. DOMAIN final = 1 .. Len(final) /\ Len(final) \in Nat
      BY <1>1
    <3> QED
      BY <2>2, <3>1
  <2>4. NewEpoch = [at |-> now, docs |-> [r \in current |-> NotYet]]
    BY DEF NewEpoch
  <2>5. NewEpoch \in Epochs
    BY <1>1, <2>4, MakeEpoch DEF Verdicts
  <2>6. final' \in Seq(Epochs) /\ final' # <<>> /\ Last(final') = NewEpoch
    BY <2>1, <2>3, <2>5, AppendLast
  <2>7. Stands(Last(final))' /\ DOMAIN Last(final').docs = current
    BY <1>1, <2>4, <2>6 DEF Stands, NotYet
  <2> QED
    BY <1>1, <2>6, <2>7 DEF LookInv, LookType
<1> QED
  BY <1>2, <1>3

LEMMA LookAttests ==
  ASSUME LookInv, NEW r \in Repos, NEW cost \in Costs, Attest(r, cost)
  PROVE  LookInv'
<1> DEFINE last == Last(final)
           set(verdict) == [last EXCEPT !.docs[r] = verdict]
<1>1. /\ now \in Nat /\ final \in Seq(Epochs) /\ current \in SUBSET Repos /\ final # <<>>
      /\ DOMAIN last.docs = current /\ r \in current /\ at = "attesting"
      /\ UNCHANGED <<now, visible>>
  BY DEF Attest, LookInv, LookType
<1>2. last \in Epochs /\ last = final[Len(final)]
  BY <1>1, LastFacts
<1>3. PICK verdict \in Verdicts :
        /\ final' = [final EXCEPT ![Len(final)].docs[r] = verdict]
        /\ verdict = "ok" => visible[r].public
  BY DEF Attest, Verdicts
<1>4. final' = WithLast(final, set(verdict))
  BY <1>2, <1>3 DEF WithLast
<1>5. set(verdict) = [at |-> last.at, docs |-> [last.docs EXCEPT ![r] = verdict]]
  BY <1>2, EpochFacts
<1>6. set(verdict) \in Epochs
  <2>1. last.at \in Nat /\ last.docs \in [current -> Verdicts]
    BY <1>1, <1>2, EpochFacts
  <2>2. [last.docs EXCEPT ![r] = verdict] \in [current -> Verdicts]
    BY <2>1
  <2> QED
    BY <1>1, <1>5, <2>1, <2>2 DEF Epochs
<1>7. final' \in Seq(Epochs) /\ final' # <<>> /\ Last(final') = set(verdict)
  BY <1>1, <1>4, <1>6, ReplaceLast
<1>8. DOMAIN Last(final').docs = current
  BY <1>1, <1>5, <1>7
<1>9. Stands(last)
  BY <1>1 DEF LookInv
<1>10. Stands(Last(final))'
  <2>1. Last(final').at = last.at /\ Last(final').docs = [last.docs EXCEPT ![r] = verdict]
    BY <1>5, <1>7
  <2>2. \A q \in current : Last(final').docs[q] = IF q = r THEN verdict ELSE last.docs[q]
    BY <1>1, <2>1
  <2> QED
    BY <1>1, <1>3, <1>8, <1>9, <2>1, <2>2 DEF Stands
<1>11. at' \in {at, "down"} /\ current' \in SUBSET Repos /\ (at' = at => current' = current)
  BY <1>1 DEF Attest, Raise, Down
<1> QED
  BY <1>1, <1>7, <1>8, <1>10, <1>11 DEF LookInv, LookType

LEMMA LookStep == LookInv /\ [VisibilityNext]_visibilityVars => LookInv'
<1> SUFFICES ASSUME LookInv, [VisibilityNext]_visibilityVars PROVE LookInv'
  OBVIOUS
<1>1. current \in SUBSET Repos
  BY DEF LookInv, LookType
<1>2. CASE Invoke \/ MetadataResolved \/ RefuseFinal \/ AttestRefused \/ Install \/ RunAborts
           \/ UNCHANGED visibilityVars
  BY <1>1, <1>2, LookKept
     DEF Invoke, MetadataResolved, RefuseFinal, AttestRefused, Install, RunAborts, visibilityVars,
         Raise, Down
<1>3. ASSUME NEW r \in Repos, NEW cost \in Costs, ResolveMetadata(r, cost) PROVE LookInv'
  BY <1>1, <1>3, LookKept DEF ResolveMetadata, Raise, Down
<1>4. ASSUME NEW set \in SUBSET Repos, PrepareOutput(set) PROVE LookInv'
  BY <1>1, <1>4, LookKept DEF PrepareOutput, Raise, Down
<1>5. ASSUME NEW cost \in Costs \cup {0}, ProcessDies(cost) PROVE LookInv'
  BY <1>1, <1>5, LookKept DEF ProcessDies, Raise, Down
<1>6. CASE Attested
  BY <1>6 DEF Attested, LookInv, LookType, Stands
<1>7. ASSUME NEW r \in Repos, ChangeVisibility(r) PROVE LookInv'
  <2>1. visible' \in [Repos -> [public : BOOLEAN, since : Nat]]
    BY <1>7 DEF ChangeVisibility, LookInv, LookType
  <2>2. \A q \in Repos : q # r => visible'[q] = visible[q]
    BY <1>7 DEF ChangeVisibility, LookInv, LookType
  <2>3. visible'[r].since = now
    BY <1>7 DEF ChangeVisibility, LookInv, LookType
  <2>4. UNCHANGED <<now, final, at, current>>
    BY <1>7 DEF ChangeVisibility
  <2>5. ASSUME final # <<>> PROVE Stands(Last(final))'
    <3>1. Last(final) \in Epochs /\ Stands(Last(final))
      BY <2>5, LastFacts DEF LookInv, LookType
    <3>2. DOMAIN Last(final).docs \in SUBSET Repos
      BY <3>1, EpochFacts
    <3> QED
      BY <2>2, <2>3, <2>4, <3>1, <3>2 DEF Stands
  <2> QED
    BY <2>1, <2>4, <2>5 DEF LookInv, LookType
<1>8. CASE TimePasses
  <2>1. /\ now' = now + 1 /\ now \in Nat /\ UNCHANGED <<visible, final, at, current>>
    BY <1>8 DEF TimePasses, LookInv, LookType
  <2>2. ASSUME final # <<>> PROVE Stands(Last(final))'
    <3>1. Last(final) \in Epochs /\ Stands(Last(final))
      BY <2>2, LastFacts DEF LookInv, LookType
    <3>2. Last(final).at \in Nat
      BY <3>1, EpochFacts
    <3> QED
      BY <2>1, <3>1, <3>2 DEF Stands
  <2> QED
    BY <2>1, <2>2 DEF LookInv, LookType
<1> QED
  BY <1>2, <1>3, <1>4, <1>5, <1>6, <1>7, <1>8, LookBegins, LookAttests DEF VisibilityNext

\* A repository is released only if it is public, or was at most MaxAge ago: the last look
\* cannot be satisfied by the documents of an epoch that is older or of other repositories,
\* however often it is rejected, repeated or interrupted.
THEOREM ReleasesWerePublic == VisibilitySpec => ReleaseWasPublic
<1>1. ASSUME LookInv, [VisibilityNext]_visibilityVars, NEW r \in released' \ released
      PROVE  visible[r].public \/ now - visible[r].since <= MaxAge
  <2>1. released' # released
    OBVIOUS
  <2>2. CASE Install
    <3>1. released' = current /\ at = "attested" /\ now - Last(final).at <= MaxAge
      BY <1>1, <2>1, <2>2 DEF Install
    <3>2. /\ final \in Seq(Epochs) /\ final # <<>> /\ DOMAIN Last(final).docs = current
          /\ Last(final).docs[r] = "ok" /\ Stands(Last(final)) /\ now \in Nat
          /\ visible \in [Repos -> [public : BOOLEAN, since : Nat]] /\ current \in SUBSET Repos
      BY <1>1, <3>1 DEF LookInv, LookType
    <3>3. Last(final).at \in Nat /\ r \in Repos
      BY <1>1, <3>1, <3>2, LastFacts, EpochFacts
    <3>4. visible[r].since \in Nat
      BY <3>2, <3>3
    <3>5. visible[r].public \/ visible[r].since >= Last(final).at
      BY <1>1, <3>1, <3>2 DEF Stands
    <3> QED
      BY <3>1, <3>2, <3>3, <3>4, <3>5, VisibilityConstants
  <2>3. CASE UNCHANGED released
    BY <2>1, <2>3
  <2> QED
    BY <1>1, <2>2, <2>3
       DEF VisibilityNext, visibilityVars, Invoke, MetadataResolved, ResolveMetadata, Attest,
           PrepareOutput, BeginFinal, RefuseFinal, AttestRefused, Attested, RunAborts,
           ProcessDies, ChangeVisibility, TimePasses
<1>2. LookInv /\ [VisibilityNext]_visibilityVars =>
        [\A r \in released' \ released :
            visible[r].public \/ now - visible[r].since <= MaxAge]_visibilityVars
  BY <1>1
<1> QED
  BY <1>2, LookInitial, LookStep, PTL DEF VisibilitySpec, ReleaseWasPublic

(***************************************************************************)
(* One code search.  Whoever has not been observed is still found by a      *)
(* partition on the stack (CoverInv).  A partition is only dropped when all *)
(* it finds was on the pages: a page that is short shows everything, an     *)
(* empty page has nothing behind it, because the places of the matches      *)
(* have no gap; and no fewer files than there are can reach a total that    *)
(* is not below the truth.                                                  *)
(***************************************************************************)

Below(H, i) == {j \in H : j <= i}

\* The places of a set of numbers have no gap.
LEMMA PlacesHaveNoGap ==
    ASSUME NEW H, H \subseteq Nat, IsFiniteSet(H), NEW n \in Nat, NEW i \in H,
           Cardinality(Below(H, i)) > n
    PROVE  \E k \in H : Cardinality(Below(H, k)) = n + 1
<1> DEFINE Late == {B \in SUBSET H : Cardinality(B) > n /\ \E k \in H : B = Below(H, k)}
<1>1. /\ Late \subseteq SUBSET H
      /\ Late # {}
  <2>1. Below(H, i) \in Late
    BY DEF Below
  <2> QED BY <2>1
<1>2. PICK A \in Late : \A B \in Late : B \subseteq A => B = A
  <2> HIDE DEF Late
  <2>1. Late \subseteq SUBSET H
    BY <1>1
  <2>2. Late # {}
    BY <1>1
  <2>3. IsFiniteSet(H)
    OBVIOUS
  <2>4. \E A \in Late : \A B \in Late : B \subseteq A => B = A
    BY ONLY <2>1, <2>2, <2>3, Smallest
  <2> QED BY <2>4
<1>3. PICK k \in H : A = Below(H, k)
  OBVIOUS
<1>8. A \subseteq H /\ A \subseteq Nat /\ k \in Nat
  BY <1>3
<1> DEFINE D == A \ {k}
<1>4. /\ IsFiniteSet(A) /\ IsFiniteSet(D) /\ k \in A
      /\ Cardinality(A) \in Nat /\ Cardinality(D) = Cardinality(A) - 1
  <2>1. k \in A /\ IsFiniteSet(A)
    BY <1>3, FS_Subset DEF Below
  <2> QED BY <2>1, FS_RemoveElement, FS_CardinalityType
<1>5. CASE Cardinality(D) <= n
  <2>1. Cardinality(A) > n
    OBVIOUS
  <2> HIDE DEF Late, D
  <2> QED BY <1>3, <1>4, <1>5, <2>1
<1>6. CASE Cardinality(D) > n
  <2> DEFINE M == {D \ Below(H, m) : m \in D}
  <2>1. D # {}
    <3>1. Cardinality(D) # 0
      BY <1>6, <1>4
    <3> QED BY <3>1, FS_EmptySet
  <2>2. M \subseteq SUBSET D /\ M # {}
    BY <2>1
  <2>3. PICK B \in M : \A C \in M : C \subseteq B => C = B
    <3> HIDE DEF M, D
    <3> QED BY <2>2, <1>4, Smallest
  <2>4. PICK m \in D : B = D \ Below(H, m)
    OBVIOUS
  <2>5. B = {}
    <3>1. SUFFICES ASSUME NEW x \in B PROVE FALSE
      OBVIOUS
    <3>2. x \in D /\ x \in Nat /\ m \in Nat /\ x > m /\ x \in H
      <4> HIDE DEF Late, M
      <4>1. x \in D /\ x \notin Below(H, m)
        BY <2>4
      <4>2. x \in H /\ m \in H
        BY <4>1, <1>8
      <4> QED BY <4>1, <4>2 DEF Below
    <3>3. Below(H, m) \subseteq Below(H, x) /\ x \in Below(H, x)
      <4> HIDE DEF Late, M, D
      <4>1. ASSUME NEW y \in Below(H, m) PROVE y \in Below(H, x)
        <5>1. y \in H /\ y \in Nat /\ y <= m
          BY DEF Below
        <5>2. y <= x
          BY <5>1, <3>2
        <5> QED BY <5>1, <5>2 DEF Below
      <4>2. x \in Below(H, x)
        BY <3>2 DEF Below
      <4> QED BY <4>1, <4>2
    <3>4. D \ Below(H, x) \in M
      BY <3>2
    <3>5. D \ Below(H, x) \subseteq B
      BY <2>4, <3>3
    <3>6. x \notin D \ Below(H, x)
      BY <3>3
    <3> HIDE DEF M, D
    <3> QED BY <2>3, <3>1, <3>4, <3>5, <3>6
  <2>6. m \in H /\ m <= k /\ m # k
    <3>1. m \in A /\ m # k
      OBVIOUS
    <3> HIDE DEF Late, M, D
    <3> QED BY <3>1, <1>3 DEF Below
  <2>7. Below(H, m) = D
    <3>1. D \subseteq Below(H, m)
      BY <2>4, <2>5
    <3>2. Below(H, m) \subseteq D
      <4>1. ASSUME NEW x \in Below(H, m) PROVE x \in A /\ x # k
        <5> HIDE DEF Late, M, D
        <5>1. x \in Nat /\ m \in Nat /\ x \in H
          BY <2>6 DEF Below
        <5> QED BY <2>6, <1>3, <1>8, <5>1 DEF Below
      <4> QED BY <4>1
    <3> QED BY <3>1, <3>2
  <2>8. D \in Late
    BY <2>7, <2>6, <1>6
  <2> HIDE DEF Late
  <2>9. D = A
    BY <2>8, <1>2
  <2> QED BY <2>9, <1>4
<1>7. Cardinality(D) \in Nat
  BY <1>4, FS_CardinalityType
<1> HIDE DEF D, Late
<1> QED BY <1>5, <1>6, <1>7

\* SetToSeq lists a set.
LEMMA Listed ==
    ASSUME NEW S, IsFiniteSet(S)
    PROVE  /\ SetToSeq(S) \in Seq(S) /\ Cardinality(S) \in Nat
           /\ DOMAIN SetToSeq(S) = 1 .. Cardinality(S)
           /\ \A x \in S : \E k \in 1 .. Cardinality(S) : SetToSeq(S)[k] = x
<1> DEFINE n == Cardinality(S)
           f == SetToSeq(S)
<1>1. n \in Nat /\ ExistsBijection(1 .. n, S)
  BY FS_CardinalityType
<1>2. \E g \in [1 .. n -> S] : IsInjective(g)
  BY <1>1 DEF ExistsBijection, Bijection, Injection, IsInjective
<1>3. f \in [1 .. n -> S] /\ IsInjective(f)
  BY <1>2 DEF SetToSeq
<1>4. f \in Injection(1 .. n, S)
  BY <1>3 DEF IsInjective, Injection
<1>5. Cardinality(1 .. n) = n
  BY <1>1, FS_Interval
<1>6. f \in Surjection(1 .. n, S)
  <2> HIDE DEF f, n
  <2>1. Cardinality(1 .. n) = Cardinality(S)
    BY <1>5 DEF n
  <2> QED BY <1>4, <2>1, FS_Injection
<1>7. \A x \in S : \E k \in 1 .. n : f[k] = x
  BY <1>6 DEF Surjection
<1> HIDE DEF f, n
<1>8. f \in Seq(S)
  BY <1>1, <1>3
<1> QED BY <1>1, <1>3, <1>7, <1>8 DEF f, n

--------------------------------------------------------------------------------
\* What a file, a query and a partition are.
AllFiles == UNION {{files[i] : i \in DOMAIN files} : files \in Corpora}
Tokens == UNION {f.tokens : f \in AllFiles}
Names == {f.repo : f \in AllFiles}
Partitions ==
    [member : Members, class : Extensions \cup {AllClasses}, low : Nat, high : Nat,
     with : SUBSET Tokens, without : SUBSET Tokens, peeled : SUBSET Names]

\* A file the certificate is about.
Wanted(f) == f.private = "no" /\ f.ext \in Extensions /\ f.members /= {}

LEMMA IndexIs ==
    ASSUME index \in Corpora
    PROVE  /\ Len(index) \in Nat /\ DOMAIN index = 1 .. Len(index)
           /\ \A i \in DOMAIN index :
                /\ index[i] \in AllFiles
                /\ index[i].tokens \subseteq Tokens /\ index[i].repo \in Names
                /\ index[i].size \in 0 .. MaxFileSize /\ index[i].members \subseteq Members
                /\ \A j \in DOMAIN index : index[i] = index[j] => i = j
<1>1. /\ Len(index) \in Nat /\ DOMAIN index = 1 .. Len(index)
      /\ \A i \in DOMAIN index :
           /\ index[i].size \in 0 .. MaxFileSize
           /\ index[i].members \subseteq Members
           /\ \A j \in DOMAIN index : index[i].id = index[j].id => i = j
  BY SearchAssumption
<1>2. \A i \in DOMAIN index : index[i] \in AllFiles
  BY DEF AllFiles
<1>3. \A f \in AllFiles : f.tokens \subseteq Tokens /\ f.repo \in Names
  BY DEF Tokens, Names
<1> QED BY <1>1, <1>2, <1>3

\* What the service may leave out of a page.
LEMMA HitsAre ==
    ASSUME index \in Corpora, NEW p
    PROVE  /\ Hits(p) \subseteq DOMAIN index /\ Hits(p) \subseteq Nat /\ IsFiniteSet(Hits(p))
           /\ Cardinality(Hits(p)) \in Nat
           /\ Matches(p) \subseteq AllFiles /\ IsFiniteSet(Matches(p))
           /\ Cardinality(Matches(p)) = Cardinality(Hits(p))
<1>1. Hits(p) \subseteq DOMAIN index
  BY DEF Hits
<1>2. /\ Len(index) \in Nat /\ DOMAIN index = 1 .. Len(index)
      /\ \A i \in DOMAIN index : index[i] \in AllFiles
      /\ \A i, j \in DOMAIN index : index[i] = index[j] => i = j
  BY IndexIs
<1>3. IsFiniteSet(Hits(p)) /\ Cardinality(Hits(p)) \in Nat
  <2>1. IsFiniteSet(1 .. Len(index))
    BY <1>2, FS_Interval
  <2> QED BY <1>1, <1>2, <2>1, FS_Subset, FS_CardinalityType
<1> DEFINE f == [i \in Hits(p) |-> index[i]]
<1>4. f \in Surjection(Hits(p), Matches(p))
  BY DEF Surjection, Matches
<1>5. f \in Injection(Hits(p), Matches(p))
  <2>1. \A i, j \in Hits(p) : f[i] = f[j] => i = j
    BY <1>1, <1>2
  <2>2. f \in [Hits(p) -> Matches(p)]
    BY DEF Matches
  <2> QED BY <2>1, <2>2 DEF Injection, IsInjective
<1>6. IsFiniteSet(Matches(p)) /\ Cardinality(Matches(p)) = Cardinality(Hits(p))
  <2> HIDE DEF f
  <2> QED BY <1>3, <1>4, <1>5, FS_Surjection
<1>7. Matches(p) \subseteq AllFiles
  BY <1>1, <1>2 DEF Matches
<1> QED BY <1>1, <1>2, <1>3, <1>6, <1>7

\* As many matches as there are are all of them.
LEMMA EnoughAreAll ==
    ASSUME index \in Corpora, NEW p, NEW items \in SUBSET Matches(p),
           Cardinality(items) >= Cardinality(Hits(p))
    PROVE  items = Matches(p)
<1>1. IsFiniteSet(Matches(p)) /\ Cardinality(Matches(p)) = Cardinality(Hits(p))
      /\ Cardinality(Hits(p)) \in Nat
  BY HitsAre
<1>2. IsFiniteSet(items) /\ Cardinality(items) <= Cardinality(Matches(p))
      /\ Cardinality(items) \in Nat
  BY <1>1, FS_Subset, FS_CardinalityType
<1> QED BY <1>1, <1>2, FS_Subset

LEMMA PlaceIs ==
    ASSUME index \in Corpora, NEW p, NEW i \in Hits(p)
    PROVE  Place(p, i) = Cardinality(Below(Hits(p), i)) /\ Place(p, i) \in Nat \ {0}
<1>1. Place(p, i) = Cardinality(Below(Hits(p), i))
  BY DEF Place, Below
<1>2. IsFiniteSet(Below(Hits(p), i)) /\ i \in Below(Hits(p), i)
  BY HitsAre, FS_Subset DEF Below
<1> QED BY <1>1, <1>2, FS_CardinalityType, FS_EmptySet

\* A short first page shows all there is.
LEMMA ShortPage ==
    ASSUME index \in Corpora, NEW p, Cardinality(PageOf(p, 1)) < PerPage
    PROVE  PageOf(p, 1) = Matches(p)
<1> DEFINE H == Hits(p)
<1>1. H \subseteq DOMAIN index /\ H \subseteq Nat /\ IsFiniteSet(H) /\ IsFiniteSet(Matches(p))
  BY HitsAre
<1>2. PerPage \in Nat /\ PerPage > 0
  BY SearchAssumption
<1>3. PageOf(p, 1) = {index[i] : i \in {j \in H : Place(p, j) > 0 /\ Place(p, j) <= PerPage}}
  BY <1>2 DEF PageOf
<1>4. \A i \in H : Place(p, i) = Cardinality(Below(H, i)) /\ Place(p, i) \in Nat /\ Place(p, i) > 0
  BY PlaceIs
<1> HIDE DEF H
<1>5. ASSUME NEW i \in H, Place(p, i) > PerPage PROVE FALSE
  <2>1. PICK k \in H : Cardinality(Below(H, k)) = PerPage - 1 + 1
    <3>1. Cardinality(Below(H, i)) > PerPage - 1 /\ PerPage - 1 \in Nat
      BY <1>2, <1>4, <1>5
    <3>2. \E k \in H : Cardinality(Below(H, k)) = PerPage - 1 + 1
      BY ONLY <3>1, <1>1, i \in H, PlacesHaveNoGap
    <3> QED BY <3>2
  <2> DEFINE S == Below(H, k)
             f == [j \in S |-> index[j]]
  <2>2. S \subseteq H /\ IsFiniteSet(S) /\ Cardinality(S) = PerPage
    BY <1>1, <1>2, <2>1, FS_Subset DEF Below
  <2>3. \A j \in S : Place(p, j) <= PerPage
    <3>1. TAKE j \in S
    <3>2. Below(H, j) \subseteq S
      BY <1>1, <2>1 DEF Below
    <3>3. Cardinality(Below(H, j)) <= Cardinality(S)
      BY <2>2, <3>2, FS_Subset
    <3> QED BY <3>3, <2>2, <1>4
  <2>4. \A j \in S : index[j] \in PageOf(p, 1)
    BY <2>2, <2>3, <1>3, <1>4
  <2>5. f \in Injection(S, PageOf(p, 1))
    <3>1. \A j, l \in S : f[j] = f[l] => j = l
      <4>1. S \subseteq DOMAIN index
        BY <2>2, <1>1
      <4>2. \A j, l \in DOMAIN index : index[j] = index[l] => j = l
        BY IndexIs
      <4> HIDE DEF S
      <4> QED BY <4>1, <4>2
    <3>2. f \in [S -> PageOf(p, 1)]
      BY <2>4
    <3> HIDE DEF S, f
    <3> QED BY <3>1, <3>2 DEF Injection, IsInjective
  <2>6. PageOf(p, 1) \subseteq Matches(p)
    BY <1>3 DEF Matches, H
  <2>7. IsFiniteSet(PageOf(p, 1)) /\ Cardinality(PageOf(p, 1)) \in Nat
    BY <2>6, <1>1, FS_Subset, FS_CardinalityType
  <2> HIDE DEF S, f
  <2>8. Cardinality(S) <= Cardinality(PageOf(p, 1))
    BY <2>5, <2>7, FS_Injection
  <2> QED BY <2>8, <2>2, <2>7, <1>2
<1>6. \A i \in H : Place(p, i) <= PerPage
  BY <1>4, <1>5, <1>2
<1> QED BY <1>3, <1>4, <1>6 DEF Matches, H

\* Nothing follows an empty page.
LEMMA EmptyPage ==
    ASSUME index \in Corpora, NEW p, NEW k \in Nat, PageOf(p, k + 1) = {}
    PROVE  \A i \in Hits(p) : Place(p, i) <= k * PerPage
<1> DEFINE H == Hits(p)
           n == k * PerPage
<1>1. H \subseteq Nat /\ IsFiniteSet(H)
  BY HitsAre
<1>2. PerPage \in Nat /\ PerPage > 0 /\ n \in Nat
  BY SearchAssumption
<1>3. (k + 1 - 1) * PerPage = n /\ (k + 1) * PerPage = n + PerPage
  BY <1>2
<1>4. \A i \in H : Place(p, i) = Cardinality(Below(H, i)) /\ Place(p, i) \in Nat
  BY PlaceIs
<1>5. \A i \in H : ~ (Place(p, i) > n /\ Place(p, i) <= n + PerPage)
  <2> HIDE DEF n
  <2>1. \A i \in H : Place(p, i) > (k + 1 - 1) * PerPage /\ Place(p, i) <= (k + 1) * PerPage => FALSE
    <3>1. TAKE i \in H
    <3>2. HAVE Place(p, i) > (k + 1 - 1) * PerPage /\ Place(p, i) <= (k + 1) * PerPage
    <3>3. index[i] \in PageOf(p, k + 1)
      BY <3>2 DEF PageOf
    <3> QED BY <3>3
  <2> QED BY <2>1, <1>3
<1> HIDE DEF H, n
<1>6. ASSUME NEW i \in H, Place(p, i) > n PROVE FALSE
  <2>1. Cardinality(Below(H, i)) > n
    BY <1>4, <1>6
  <2>2. PICK j \in H : Cardinality(Below(H, j)) = n + 1
    BY ONLY <2>1, <1>1, <1>2, i \in H, PlacesHaveNoGap
  <2>3. Place(p, j) = n + 1
    BY <2>2, <1>4
  <2> QED BY <2>3, <1>5, <1>2
<1> QED BY <1>2, <1>4, <1>6 DEF H, n

--------------------------------------------------------------------------------
\* Where a search is: paging through its next partition, or not.
Walks ==
    [on : {TRUE}, part : Partitions, sweep : Nat, page : Nat, items : SUBSET AllFiles,
     total : Nat, first : SUBSET AllFiles, firstTotal : Nat]

SearchType ==
    /\ index \in Corpora /\ honesty \in {"steady", "shuffled"}
    /\ todo \in Seq(Partitions) /\ gap \in BOOLEAN
    /\ walk \in Walks \cup {NoWalk}

\* A partition that is paged through has been split as far as sizes go.
Unsplit(p) == p.class /= AllClasses \/ Extensions = {}

WalkInv ==
    walk.on =>
        /\ todo /= <<>> /\ walk.part = Head(todo) /\ Unsplit(walk.part)
        /\ walk.items \subseteq Matches(walk.part) /\ walk.first \subseteq Matches(walk.part)
        /\ honesty = "shuffled" => walk.total >= Cardinality(Hits(walk.part))
        /\ honesty = "steady" /\ walk.page < MaxPages =>
             \A i \in Hits(walk.part) :
                Place(walk.part, i) <= walk.page * PerPage => index[i] \in walk.items

Witnessed(f, observations) == \E o \in observations : o.repo = f.repo
AwaitedIn(f, parts) == \E k \in DOMAIN parts : Found(f, parts[k])

\* No repository is lost on the way: it was observed, or some partition still finds it.
CoverInv ==
    ~gap => \A i \in DOMAIN index :
              Wanted(index[i]) => Witnessed(index[i], seen) \/ AwaitedIn(index[i], todo)

CompleteInv == certificate = "complete" => ~gap /\ todo = <<>>

SearchInv == SearchType /\ WalkInv /\ CoverInv /\ CompleteInv

LEMMA AnswersAre ==
    ASSUME SearchType, NEW p, NEW k \in Nat, NEW a \in Answers(p, k)
    PROVE  /\ a.items \subseteq Matches(p) /\ a.items \subseteq AllFiles /\ a.total \in Nat
           /\ honesty = "steady" => a.items = PageOf(p, k)
           /\ honesty = "shuffled" => a.total >= Cardinality(Hits(p))
<1>1. MaxTotal \in Nat
  BY SearchAssumption
<1>2. PageOf(p, k) \subseteq Matches(p)
  BY DEF PageOf, Matches
<1>3. Cardinality(Hits(p)) \in Nat /\ Matches(p) \subseteq AllFiles
  BY HitsAre DEF SearchType
<1>4. CASE honesty = "steady"
  BY <1>1, <1>2, <1>3, <1>4 DEF Answers
<1>5. CASE honesty = "shuffled"
  BY <1>1, <1>3, <1>5 DEF Answers
<1> QED BY <1>4, <1>5 DEF SearchType

\* A first page that is accepted as it is shows all there is.
LEMMA LeafShowsAll ==
    ASSUME SearchType, NEW p, NEW a \in Answers(p, 1), NEW next, ~RequiresSplit(a, next)
    PROVE  a.items = Matches(p)
<1>1. index \in Corpora /\ PerPage \in Nat
  BY SearchAssumption DEF SearchType
<1>2. /\ a.items \subseteq Matches(p) /\ a.total \in Nat
      /\ honesty = "steady" => a.items = PageOf(p, 1)
      /\ honesty = "shuffled" => a.total >= Cardinality(Hits(p))
  BY AnswersAre
<1>3. Cardinality(a.items) \in Nat /\ Cardinality(Hits(p)) \in Nat
  BY <1>1, <1>2, HitsAre, FS_Subset, FS_CardinalityType
<1>4. Cardinality(a.items) < PerPage /\ a.total <= Cardinality(a.items)
  BY <1>1, <1>2, <1>3 DEF RequiresSplit
<1>5. CASE honesty = "steady"
  BY <1>1, <1>2, <1>4, <1>5, ShortPage
<1>6. CASE honesty = "shuffled"
  <2>1. Cardinality(a.items) >= Cardinality(Hits(p))
    BY <1>2, <1>3, <1>4, <1>6
  <2> QED BY <1>1, <1>2, <2>1, EnoughAreAll
<1> QED BY <1>5, <1>6 DEF SearchType

\* What is consumed and wanted is observed.
LEMMA Consumed ==
    ASSUME NEW items, NEW p, Consume(items, p)
    PROVE  /\ seen \subseteq seen' /\ gap' \in BOOLEAN
           /\ \A f \in items : Wanted(f) => Witnessed(f, seen')
<1>1. seen \subseteq seen' /\ gap' \in BOOLEAN
  BY DEF Consume
<1>2. ASSUME NEW f \in items, Wanted(f) PROVE Witnessed(f, seen')
  <2>1. [repo |-> f.repo, id |-> f.id] \in seen'
    BY <1>2 DEF Consume, Observed, Wanted
  <2> QED BY <2>1 DEF Witnessed
<1> QED BY <1>1, <1>2

\* Replacing the next partition loses nobody that it found and was wanted.
LEMMA HeadReplaced ==
    ASSUME SearchType, CoverInv, ~gap, todo /= <<>>, NEW parts \in Seq(Partitions), Push(parts),
           UNCHANGED index, seen \subseteq seen',
           \A i \in Hits(Head(todo)) :
              Wanted(index[i]) => Witnessed(index[i], seen') \/ AwaitedIn(index[i], parts)
    PROVE  CoverInv' /\ todo' \in Seq(Partitions)
<1>1. todo \in Seq(Partitions) /\ Len(todo) > 0 /\ todo' = parts \o Tail(todo)
  BY DEF SearchType, Push
<1>2. Tail(todo) \in Seq(Partitions) /\ Len(Tail(todo)) = Len(todo) - 1
      /\ \A k \in 1 .. Len(todo) - 1 : Tail(todo)[k] = todo[k + 1]
  BY <1>1
<1>3. todo' \in Seq(Partitions) /\ Len(todo') = Len(parts) + Len(todo) - 1
  BY <1>1, <1>2
<1>4. \A k \in 1 .. Len(parts) : k \in DOMAIN todo' /\ todo'[k] = parts[k]
  BY <1>1, <1>2, <1>3
<1>5. \A k \in 1 .. Len(todo) - 1 :
        Len(parts) + k \in DOMAIN todo' /\ todo'[Len(parts) + k] = todo[k + 1]
  <2>1. TAKE k \in 1 .. Len(todo) - 1
  <2>2. Len(parts) \in Nat /\ Len(parts) + k \in 1 .. Len(todo')
    BY <1>1, <1>3
  <2>3. todo'[Len(parts) + k] = Tail(todo)[k]
    BY <1>1, <1>2, <2>2
  <2> QED BY <2>2, <2>3, <1>2, <1>3
<1>6. ASSUME NEW i \in DOMAIN index, Wanted(index[i])
      PROVE  Witnessed(index[i], seen') \/ AwaitedIn(index[i], todo')
  <2>1. CASE Witnessed(index[i], seen)
    BY <2>1 DEF Witnessed
  <2>2. CASE AwaitedIn(index[i], todo)
    <3>1. PICK k \in 1 .. Len(todo) : Found(index[i], todo[k])
      BY <2>2, <1>1 DEF AwaitedIn
    <3>2. CASE k = 1
      <4>1. i \in Hits(Head(todo))
        BY <3>1, <3>2, <1>1, <1>6 DEF Hits
      <4>2. CASE AwaitedIn(index[i], parts)
        <5>1. PICK l \in 1 .. Len(parts) : Found(index[i], parts[l])
          BY <4>2 DEF AwaitedIn
        <5> QED BY <5>1, <1>4 DEF AwaitedIn
      <4> QED BY <4>1, <4>2, <1>6
    <3>3. CASE k # 1
      <4>1. k - 1 \in 1 .. Len(todo) - 1 /\ k - 1 + 1 = k
        BY <3>3, <1>1
      <4>2. /\ Len(parts) + (k - 1) \in DOMAIN todo'
            /\ todo'[Len(parts) + (k - 1)] = todo[k]
        BY <4>1, <1>5
      <4> QED BY <4>2, <3>1 DEF AwaitedIn
    <3> QED BY <3>2, <3>3
  <2> QED BY <2>1, <2>2, <1>6 DEF CoverInv
<1>7. CoverInv'
  BY <1>6 DEF CoverInv
<1> QED BY <1>3, <1>7

\* The splits: together the parts find what the partition finds.
LEMMA ClassSplits ==
    ASSUME SearchType, NEW p \in Partitions, p.class = AllClasses
    PROVE  /\ ByClass(p) \in Seq(Partitions)
           /\ \A i \in Hits(p) : Wanted(index[i]) => AwaitedIn(index[i], ByClass(p))
<1> DEFINE part(c) == [p EXCEPT !.class = c]
           S == {part(c) : c \in Extensions}
           f == [c \in Extensions |-> part(c)]
<1>1. S \subseteq Partitions
  BY DEF Partitions
<1>2. IsFiniteSet(S)
  <2>1. f \in Surjection(Extensions, S)
    BY DEF Surjection
  <2> HIDE DEF f, S
  <2> QED BY <2>1, SearchAssumption, FS_Surjection
<1>3. ByClass(p) = SetToSeq(S)
  BY DEF ByClass
<1>4. ASSUME NEW i \in Hits(p), Wanted(index[i])
      PROVE  part(index[i].ext) \in S /\ Found(index[i], part(index[i].ext))
  <2>1. index[i].ext \in Extensions /\ Found(index[i], p)
    BY <1>4 DEF Wanted, Hits
  <2>2. /\ part(index[i].ext).class = index[i].ext
        /\ part(index[i].ext).member = p.member /\ part(index[i].ext).low = p.low
        /\ part(index[i].ext).high = p.high /\ part(index[i].ext).with = p.with
        /\ part(index[i].ext).without = p.without /\ part(index[i].ext).peeled = p.peeled
    BY DEF Partitions
  <2>3. Found(index[i], part(index[i].ext))
    BY <2>1, <2>2 DEF Found
  <2> QED BY <2>1, <2>3
<1> HIDE DEF S, part, f
<1>5. /\ SetToSeq(S) \in Seq(S)
      /\ \A x \in S : \E k \in DOMAIN SetToSeq(S) : SetToSeq(S)[k] = x
  BY <1>2, Listed
<1>6. SetToSeq(S) \in Seq(Partitions)
  BY <1>1, <1>5
<1>7. ASSUME NEW i \in Hits(p), Wanted(index[i]) PROVE AwaitedIn(index[i], ByClass(p))
  <2>1. PICK k \in DOMAIN SetToSeq(S) : SetToSeq(S)[k] = part(index[i].ext)
    BY <1>4, <1>5, <1>7
  <2> QED BY <2>1, <1>3, <1>4, <1>7 DEF AwaitedIn
<1> QED BY <1>3, <1>6, <1>7

\* Two parts.
LEMMA TwoParts ==
    ASSUME NEW p, NEW q \in Partitions, NEW r \in Partitions,
           \A i \in Hits(p) : Found(index[i], q) \/ Found(index[i], r)
    PROVE  /\ <<q, r>> \in Seq(Partitions)
           /\ \A i \in Hits(p) : AwaitedIn(index[i], <<q, r>>)
<1>1. DOMAIN <<q, r>> = {1, 2} /\ <<q, r>>[1] = q /\ <<q, r>>[2] = r
  OBVIOUS
<1> QED BY <1>1 DEF AwaitedIn

LEMMA SizeSplits ==
    ASSUME SearchType, NEW p \in Partitions, p.low < p.high
    PROVE  /\ BySize(p) \in Seq(Partitions)
           /\ \A i \in Hits(p) : AwaitedIn(index[i], BySize(p))
<1> DEFINE mid == (p.low + p.high) \div 2
           q == [p EXCEPT !.high = mid]
           r == [p EXCEPT !.low = mid + 1]
<1>1. p.low \in Nat /\ p.high \in Nat /\ mid \in Nat
  BY DEF Partitions
<1>2. q \in Partitions /\ r \in Partitions
  BY <1>1 DEF Partitions
<1>3. ASSUME NEW i \in Hits(p) PROVE Found(index[i], q) \/ Found(index[i], r)
  <2>1. Found(index[i], p) /\ index[i].size \in Nat
    BY SearchAssumption, IndexIs DEF Hits, SearchType
  <2>2. /\ q.member = p.member /\ q.class = p.class /\ q.low = p.low /\ q.high = mid
        /\ q.with = p.with /\ q.without = p.without /\ q.peeled = p.peeled
        /\ r.member = p.member /\ r.class = p.class /\ r.low = mid + 1 /\ r.high = p.high
        /\ r.with = p.with /\ r.without = p.without /\ r.peeled = p.peeled
    BY DEF Partitions
  <2> HIDE DEF mid, q, r
  <2>3. index[i].size \in q.low .. q.high \/ index[i].size \in r.low .. r.high
    BY <2>1, <2>2, <1>1 DEF Found
  <2> QED BY <2>1, <2>2, <2>3 DEF Found
<1>4. BySize(p) = <<q, r>>
  BY DEF BySize
<1> HIDE DEF q, r, mid
<1> QED BY <1>2, <1>3, <1>4, TwoParts

LEMMA TokenSplits ==
    ASSUME SearchType, NEW p \in Partitions, NEW t \in Tokens
    PROVE  LET parts == <<[p EXCEPT !.with = @ \cup {t}], [p EXCEPT !.without = @ \cup {t}]>>
           IN  /\ parts \in Seq(Partitions)
               /\ \A i \in Hits(p) : AwaitedIn(index[i], parts)
<1> DEFINE q == [p EXCEPT !.with = @ \cup {t}]
           r == [p EXCEPT !.without = @ \cup {t}]
<1>1. q \in Partitions /\ r \in Partitions
  BY DEF Partitions
<1>2. ASSUME NEW i \in Hits(p) PROVE Found(index[i], q) \/ Found(index[i], r)
  <2>1. Found(index[i], p)
    BY DEF Hits
  <2>2. /\ q.member = p.member /\ q.class = p.class /\ q.low = p.low /\ q.high = p.high
        /\ q.with = p.with \cup {t} /\ q.without = p.without /\ q.peeled = p.peeled
        /\ r.member = p.member /\ r.class = p.class /\ r.low = p.low /\ r.high = p.high
        /\ r.with = p.with /\ r.without = p.without \cup {t} /\ r.peeled = p.peeled
    BY DEF Partitions
  <2> HIDE DEF q, r
  <2>3. CASE t \in index[i].tokens
    BY <2>1, <2>2, <2>3 DEF Found
  <2>4. CASE t \notin index[i].tokens
    BY <2>1, <2>2, <2>4 DEF Found
  <2> QED BY <2>3, <2>4
<1> HIDE DEF q, r
<1>3. <<q, r>> \in Seq(Partitions) /\ \A i \in Hits(p) : AwaitedIn(index[i], <<q, r>>)
  BY <1>1, <1>2, TwoParts
<1> QED BY <1>3 DEF q, r

\* A repository that is excluded has a witness.
LEMMA PeelSplits ==
    ASSUME SearchType, NEW p \in Partitions, Unsplit(p), NEW f \in AllFiles, f.private = "no",
           Consume({f}, p)
    PROVE  LET parts == <<[p EXCEPT !.peeled = @ \cup {f.repo}]>>
           IN  /\ parts \in Seq(Partitions) /\ seen \subseteq seen' /\ gap' \in BOOLEAN
               /\ \A i \in Hits(p) :
                    Wanted(index[i]) => Witnessed(index[i], seen') \/ AwaitedIn(index[i], parts)
<1> DEFINE q == [p EXCEPT !.peeled = @ \cup {f.repo}]
<1>1. q \in Partitions
  BY DEF Partitions, Names
<1>2. /\ q.member = p.member /\ q.class = p.class /\ q.low = p.low /\ q.high = p.high
      /\ q.with = p.with /\ q.without = p.without /\ q.peeled = p.peeled \cup {f.repo}
  BY DEF Partitions
<1>3. seen \subseteq seen' /\ gap' \in BOOLEAN
  BY DEF Consume
<1> HIDE DEF q
<1>4. DOMAIN <<q>> = {1} /\ <<q>>[1] = q /\ <<q>> \in Seq(Partitions)
  BY <1>1
<1>5. ASSUME NEW i \in Hits(p), Wanted(index[i])
      PROVE  Witnessed(index[i], seen') \/ AwaitedIn(index[i], <<q>>)
  <2>1. Found(index[i], p)
    BY DEF Hits
  <2>2. CASE index[i].repo = f.repo
    <3>1. p.class /= AllClasses
      BY <1>5 DEF Unsplit, Wanted
    <3>2. [repo |-> f.repo, id |-> f.id] \in seen'
      BY <3>1 DEF Consume, Observed
    <3> QED BY <3>2, <2>2 DEF Witnessed
  <2>3. CASE index[i].repo # f.repo
    <3>1. Found(index[i], q)
      BY <2>1, <2>3, <1>2 DEF Found
    <3> QED BY <3>1, <1>4 DEF AwaitedIn
  <2> QED BY <2>2, <2>3
<1>6. <<q>> = <<[p EXCEPT !.peeled = @ \cup {f.repo}]>>
  BY DEF q
<1> QED BY <1>3, <1>4, <1>5, <1>6

LEMMA PageSplits ==
    ASSUME SearchType, CoverInv, ~gap, todo /= <<>>, NEW items \in SUBSET Matches(Head(todo)),
           Unsplit(Head(todo)), SplitPage(Head(todo), items), UNCHANGED index
    PROVE  CoverInv' /\ todo' \in Seq(Partitions) /\ gap' \in BOOLEAN
<1> DEFINE p == Head(todo)
<1>1. p \in Partitions /\ items \subseteq AllFiles /\ Tail(todo) \in Seq(Partitions)
  BY HitsAre DEF SearchType
<1>2. ASSUME NEW repo \in Repeated(items), NEW f \in {g \in items : g.repo = repo /\ g.private = "no"},
             Consume({f}, p), Push(<<[p EXCEPT !.peeled = @ \cup {repo}]>>)
      PROVE  CoverInv' /\ todo' \in Seq(Partitions) /\ gap' \in BOOLEAN
  <2> DEFINE parts == <<[p EXCEPT !.peeled = @ \cup {repo}]>>
  <2>1. f \in AllFiles /\ f.private = "no" /\ f.repo = repo
    BY <1>1
  <2> HIDE DEF p
  <2>2. /\ parts \in Seq(Partitions) /\ seen \subseteq seen' /\ gap' \in BOOLEAN
        /\ \A i \in Hits(p) :
             Wanted(index[i]) => Witnessed(index[i], seen') \/ AwaitedIn(index[i], parts)
    BY <1>1, <1>2, <2>1, PeelSplits DEF p
  <2> HIDE DEF parts
  <2> QED BY <2>2, <1>2, HeadReplaced DEF p, parts
<1>3. ASSUME NEW t \in UnusedTokens(items, p), UNCHANGED <<seen, gap>>,
             Push(<<[p EXCEPT !.with = @ \cup {t}], [p EXCEPT !.without = @ \cup {t}]>>)
      PROVE  CoverInv' /\ todo' \in Seq(Partitions) /\ gap' \in BOOLEAN
  <2> DEFINE parts == <<[p EXCEPT !.with = @ \cup {t}], [p EXCEPT !.without = @ \cup {t}]>>
  <2>1. t \in Tokens
    BY <1>1 DEF UnusedTokens, Tokens
  <2> HIDE DEF p
  <2>2. parts \in Seq(Partitions) /\ \A i \in Hits(p) : AwaitedIn(index[i], parts)
    BY <1>1, <2>1, TokenSplits
  <2>3. Push(parts)
    BY <1>3
  <2> HIDE DEF parts
  <2>4. CoverInv' /\ todo' \in Seq(Partitions)
    BY <2>2, <2>3, <1>3, HeadReplaced DEF p
  <2> QED BY <2>4, <1>3 DEF SearchType
<1>4. ASSUME gap' = TRUE, Push(<<>>)
      PROVE  CoverInv' /\ todo' \in Seq(Partitions) /\ gap' \in BOOLEAN
  <2>1. todo' = Tail(todo)
    BY <1>1, <1>4 DEF Push
  <2> QED BY <2>1, <1>1, <1>4 DEF CoverInv
<1> QED BY <1>2, <1>3, <1>4 DEF SplitPage

--------------------------------------------------------------------------------
\* The actions.
LEMMA SearchStarts == SearchInit => SearchInv
<1> SUFFICES ASSUME SearchInit PROVE SearchInv
  OBVIOUS
<1> DEFINE n == Cardinality(Members)
<1>1. /\ SetToSeq(Members) \in Seq(Members) /\ n \in Nat
      /\ DOMAIN SetToSeq(Members) = 1 .. n
      /\ \A x \in Members : \E k \in 1 .. n : SetToSeq(Members)[k] = x
  BY SearchAssumption, Listed
<1>2. \A m \in Members : Whole(m) \in Partitions
  BY SearchAssumption DEF Whole, Partitions
<1>3. todo = [i \in 1 .. n |-> Whole(SetToSeq(Members)[i])]
  BY DEF SearchInit
<1> HIDE DEF n
<1>4. todo \in Seq(Partitions)
  <2>1. \A i \in 1 .. n : Whole(SetToSeq(Members)[i]) \in Partitions
    BY <1>1, <1>2
  <2> QED BY <1>1, <1>3, <2>1
<1>5. SearchType
  BY <1>4 DEF SearchInit, SearchType
<1>6. ASSUME NEW i \in DOMAIN index, Wanted(index[i]) PROVE AwaitedIn(index[i], todo)
  <2>1. index[i].size \in 0 .. MaxFileSize /\ index[i].members \subseteq Members
    BY IndexIs DEF SearchInit
  <2>2. PICK m \in Members : m \in index[i].members
    BY <2>1, <1>6 DEF Wanted
  <2>3. PICK k \in 1 .. n : SetToSeq(Members)[k] = m
    BY <1>1
  <2>4. Found(index[i], Whole(m))
    BY <2>1, <2>2 DEF Found, Whole
  <2> QED BY <2>3, <2>4, <1>3 DEF AwaitedIn
<1>7. ~walk.on /\ certificate = "open"
  BY DEF SearchInit, NoWalk
<1> QED BY <1>5, <1>6, <1>7 DEF SearchInv, CoverInv, WalkInv, CompleteInv

\* All of a partition was seen.
LEMMA PartitionDone ==
    ASSUME SearchType, CoverInv, ~gap, todo /= <<>>, NEW items, items = Matches(Head(todo)),
           Consume(items, Head(todo)), Push(<<>>), UNCHANGED index
    PROVE  CoverInv' /\ todo' \in Seq(Partitions) /\ gap' \in BOOLEAN
<1>1. seen \subseteq seen' /\ gap' \in BOOLEAN
      /\ \A f \in items : Wanted(f) => Witnessed(f, seen')
  BY Consumed
<1>2. \A i \in Hits(Head(todo)) : Wanted(index[i]) => Witnessed(index[i], seen')
  BY <1>1 DEF Matches
<1>3. <<>> \in Seq(Partitions)
  OBVIOUS
<1> QED BY <1>1, <1>2, <1>3, HeadReplaced

\* What a page adds to a walk.
LEMMA PageShows ==
    ASSUME SearchType, NEW p, NEW k \in Nat, NEW i \in Hits(p),
           Place(p, i) <= (k + 1) * PerPage
    PROVE  Place(p, i) <= k * PerPage \/ index[i] \in PageOf(p, k + 1)
<1>1. PerPage \in Nat /\ k * PerPage \in Nat /\ k + 1 - 1 = k
  BY SearchAssumption
<1>2. Place(p, i) \in Nat
  BY PlaceIs DEF SearchType
<1>3. CASE Place(p, i) > k * PerPage
  BY <1>1, <1>3 DEF PageOf
<1> QED BY <1>1, <1>2, <1>3

\* The first page of a walk.
LEMMA WalkBegins ==
    ASSUME SearchType, UNCHANGED <<index, honesty, todo>>, todo /= <<>>, Unsplit(Head(todo)),
           NEW a \in Answers(Head(todo), 1), NEW first \in SUBSET Matches(Head(todo)),
           walk' \in Walks, walk'.part = Head(todo), walk'.page = 1, walk'.items = a.items,
           walk'.total = a.total, walk'.first = first
    PROVE  WalkInv'
<1> DEFINE p == Head(todo)
<1>1. /\ a.items \subseteq Matches(p) /\ a.total \in Nat
      /\ honesty = "steady" => a.items = PageOf(p, 1)
      /\ honesty = "shuffled" => a.total >= Cardinality(Hits(p))
  BY AnswersAre
<1>2. ASSUME honesty = "steady", NEW i \in Hits(p), Place(p, i) <= 1 * PerPage
      PROVE  index[i] \in a.items
  <2>1. PerPage \in Nat /\ Place(p, i) > 0 /\ Place(p, i) \in Nat
    BY SearchAssumption, PlaceIs DEF SearchType
  <2>2. Place(p, i) <= 0 * PerPage \/ index[i] \in PageOf(p, 0 + 1)
    <3>1. Place(p, i) <= (0 + 1) * PerPage
      BY <1>2
    <3> QED BY <3>1, PageShows
  <2> QED BY <2>1, <2>2, <1>1, <1>2
<1>3. Hits(p)' = Hits(p) /\ Matches(p)' = Matches(p) /\ \A i : Place(p, i)' = Place(p, i)
  BY DEF Hits, Matches, Place
<1> QED BY <1>1, <1>2, <1>3 DEF WalkInv

LEMMA VisitKeeps == ASSUME SearchInv, Visit PROVE SearchInv'
<1> DEFINE p == Head(todo)
<1>1. SearchType /\ WalkInv /\ CoverInv /\ CompleteInv
  BY DEF SearchInv
<1>2. ~gap /\ ~walk.on /\ todo /= <<>> /\ certificate = "open"
      /\ UNCHANGED <<index, honesty, certificate>>
  BY DEF Visit, Open
<1>3. p \in Partitions /\ todo \in Seq(Partitions)
  BY <1>1, <1>2 DEF SearchType
<1>4. PICK a \in Answers(p, 1), next \in BOOLEAN :
         \/ /\ ~RequiresSplit(a, next)
            /\ Consume(a.items, p)
            /\ Push(<<>>)
            /\ UNCHANGED walk
         \/ /\ RequiresSplit(a, next)
            /\ p.class = AllClasses /\ Extensions /= {}
            /\ Push(ByClass(p))
            /\ UNCHANGED <<walk, seen, gap>>
         \/ /\ RequiresSplit(a, next)
            /\ p.class /= AllClasses \/ Extensions = {}
            /\ p.low < p.high
            /\ Push(BySize(p))
            /\ UNCHANGED <<walk, seen, gap>>
         \/ /\ RequiresSplit(a, next)
            /\ p.class /= AllClasses \/ Extensions = {}
            /\ p.low >= p.high
            /\ IF a.total <= ResultCap
               THEN /\ walk' = [on |-> TRUE, part |-> p, sweep |-> 1, page |-> 1,
                                items |-> a.items, total |-> a.total,
                                first |-> a.items, firstTotal |-> a.total]
                    /\ UNCHANGED <<todo, seen, gap>>
               ELSE SplitPage(p, a.items) /\ UNCHANGED walk
  BY DEF Visit
<1>5. a.items \subseteq Matches(p) /\ a.items \subseteq AllFiles /\ a.total \in Nat
  BY <1>1, AnswersAre
<1> HIDE DEF p
<1>6. ASSUME CoverInv', todo' \in Seq(Partitions), gap' \in BOOLEAN, UNCHANGED walk
      PROVE  SearchInv'
  <2>1. SearchType'
    BY <1>1, <1>2, <1>6 DEF SearchType
  <2>2. WalkInv' /\ CompleteInv'
    BY <1>2, <1>6 DEF WalkInv, CompleteInv
  <2> QED BY <2>1, <2>2, <1>6 DEF SearchInv
<1>7. CASE ~RequiresSplit(a, next) /\ Consume(a.items, p) /\ Push(<<>>) /\ UNCHANGED walk
  <2>1. a.items = Matches(p)
    BY <1>1, <1>7, LeafShowsAll
  <2>2. CoverInv' /\ todo' \in Seq(Partitions) /\ gap' \in BOOLEAN
    BY <1>1, <1>2, <1>7, <2>1, PartitionDone DEF p
  <2> QED BY <2>2, <1>6, <1>7
<1>8. CASE p.class = AllClasses /\ Push(ByClass(p)) /\ UNCHANGED <<walk, seen, gap>>
  <2>1. ByClass(p) \in Seq(Partitions)
        /\ \A i \in Hits(p) : Wanted(index[i]) => AwaitedIn(index[i], ByClass(p))
    BY <1>1, <1>3, <1>8, ClassSplits
  <2>2. CoverInv' /\ todo' \in Seq(Partitions)
    BY <1>1, <1>2, <1>8, <2>1, HeadReplaced DEF p
  <2> QED BY <2>2, <1>1, <1>6, <1>8 DEF SearchType
<1>9. CASE p.low < p.high /\ Push(BySize(p)) /\ UNCHANGED <<walk, seen, gap>>
  <2>1. BySize(p) \in Seq(Partitions) /\ \A i \in Hits(p) : AwaitedIn(index[i], BySize(p))
    BY <1>1, <1>3, <1>9, SizeSplits
  <2>2. CoverInv' /\ todo' \in Seq(Partitions)
    BY <1>1, <1>2, <1>9, <2>1, HeadReplaced DEF p
  <2> QED BY <2>2, <1>1, <1>6, <1>9 DEF SearchType
<1>10. CASE /\ Unsplit(p)
            /\ walk' = [on |-> TRUE, part |-> p, sweep |-> 1, page |-> 1,
                         items |-> a.items, total |-> a.total,
                         first |-> a.items, firstTotal |-> a.total]
            /\ UNCHANGED <<todo, seen, gap>>
  <2>1. walk' \in Walks
    BY <1>3, <1>5, <1>10 DEF Walks
  <2>2. WalkInv'
    BY <1>1, <1>2, <1>5, <1>10, <2>1, WalkBegins DEF p
  <2>3. SearchType' /\ CoverInv' /\ CompleteInv'
    BY <1>1, <1>2, <1>10, <2>1 DEF SearchType, CoverInv, CompleteInv
  <2> QED BY <2>2, <2>3 DEF SearchInv
<1>11. CASE Unsplit(p) /\ SplitPage(p, a.items) /\ UNCHANGED walk
  <2>1. CoverInv' /\ todo' \in Seq(Partitions) /\ gap' \in BOOLEAN
    BY <1>1, <1>2, <1>5, <1>11, PageSplits DEF p
  <2> QED BY <2>1, <1>6, <1>11
<1> QED BY <1>4, <1>7, <1>8, <1>9, <1>10, <1>11 DEF Unsplit

\* What a walk that goes on has to show.
LEMMA WalkHolds ==
    ASSUME UNCHANGED <<index, honesty>>, NEW p, walk'.part = p, todo' /= <<>>, p = Head(todo'),
           Unsplit(p), walk'.items \subseteq Matches(p), walk'.first \subseteq Matches(p),
           honesty = "shuffled" => walk'.total >= Cardinality(Hits(p)),
           honesty = "steady" /\ walk'.page < MaxPages =>
             \A i \in Hits(p) : Place(p, i) <= walk'.page * PerPage => index[i] \in walk'.items
    PROVE  WalkInv'
<1>1. Hits(walk.part)' = Hits(p)
  BY DEF Hits
<1>2. Matches(walk.part)' = Matches(p)
  BY <1>1 DEF Matches
<1>3. \A i \in Hits(p) : (Place(walk.part, i))' = Place(p, i)
  BY <1>1 DEF Place
<1> QED BY <1>1, <1>2, <1>3 DEF WalkInv

LEMMA NextPageKeeps == ASSUME SearchInv, NextPage PROVE SearchInv'
<1> DEFINE p == walk.part
<1>1. SearchType /\ WalkInv /\ CoverInv /\ CompleteInv
  BY DEF SearchInv
<1>2. ~gap /\ walk.on /\ certificate = "open" /\ UNCHANGED <<index, honesty, certificate>>
  BY DEF NextPage, Open
<1>3. walk \in Walks
  BY <1>1, <1>2 DEF SearchType, NoWalk
<1>4. /\ todo /= <<>> /\ p = Head(todo) /\ Unsplit(p)
      /\ walk.items \subseteq Matches(p) /\ walk.first \subseteq Matches(p)
      /\ honesty = "shuffled" => walk.total >= Cardinality(Hits(p))
      /\ honesty = "steady" /\ walk.page < MaxPages =>
           \A i \in Hits(p) : Place(p, i) <= walk.page * PerPage => index[i] \in walk.items
  BY <1>1, <1>2 DEF WalkInv
<1>5. /\ p \in Partitions /\ walk.page \in Nat /\ walk.total \in Nat /\ walk.sweep \in Nat
      /\ walk.items \subseteq AllFiles /\ walk.page + 1 \in Nat
  BY <1>3 DEF Walks
<1>6. /\ Hits(p) \subseteq DOMAIN index /\ IsFiniteSet(Matches(p)) /\ Matches(p) \subseteq AllFiles
      /\ Cardinality(Hits(p)) \in Nat
  BY <1>1, HitsAre DEF SearchType
<1>7. \A q : Hits(q)' = Hits(q) /\ Matches(q)' = Matches(q) /\ \A i : Place(q, i)' = Place(q, i)
  BY <1>2 DEF Hits, Matches, Place
<1>8. ASSUME CoverInv', todo' \in Seq(Partitions), gap' \in BOOLEAN, walk' = NoWalk
      PROVE  SearchInv'
  <2>1. SearchType'
    BY <1>1, <1>2, <1>8 DEF SearchType
  <2>2. WalkInv' /\ CompleteInv'
    BY <1>2, <1>8 DEF WalkInv, CompleteInv, NoWalk
  <2> QED BY <2>1, <2>2, <1>8 DEF SearchInv
<1>9. ASSUME WalkInv', walk' \in Walks, UNCHANGED <<todo, seen, gap>> PROVE SearchInv'
  BY <1>1, <1>2, <1>9 DEF SearchInv, SearchType, CoverInv, CompleteInv
<1>10. CASE walk.page < MaxPages
  <2>1. PICK a \in Answers(p, walk.page + 1) :
              IF a.items /= {}
              THEN /\ walk' = [walk EXCEPT !.page = @ + 1, !.items = @ \cup a.items,
                                           !.total = Max({walk.total, a.total})]
                   /\ UNCHANGED <<todo, seen, gap>>
              ELSE IF Exhausted(TRUE, walk.items, Max({walk.total, a.total}))
                   THEN Consume(walk.items, p) /\ Push(<<>>) /\ walk' = NoWalk
                   ELSE /\ walk' = [walk EXCEPT !.page = MaxPages,
                                                !.total = Max({walk.total, a.total})]
                        /\ UNCHANGED <<todo, seen, gap>>
    BY <1>10 DEF NextPage
  <2> DEFINE total == Max({walk.total, a.total})
  <2>2. /\ a.items \subseteq Matches(p) /\ a.items \subseteq AllFiles /\ a.total \in Nat
        /\ honesty = "steady" => a.items = PageOf(p, walk.page + 1)
    BY <1>1, <1>5, AnswersAre
  <2>3. total \in Nat /\ total >= walk.total
    BY <1>5, <2>2, MaxOfTwo
  <2>4. honesty = "shuffled" => total >= Cardinality(Hits(p))
    BY <1>4, <1>5, <1>6, <2>3
  <2> HIDE DEF total
  <2>5. CASE /\ walk' = [walk EXCEPT !.page = @ + 1, !.items = @ \cup a.items, !.total = total]
             /\ UNCHANGED <<todo, seen, gap>>
    <3>1. walk' \in Walks /\ walk'.part = p /\ walk'.page = walk.page + 1
          /\ walk'.items = walk.items \cup a.items /\ walk'.total = total
          /\ walk'.first = walk.first
      BY <1>3, <1>5, <2>2, <2>3, <2>5 DEF Walks
    <3>2. ASSUME honesty = "steady", NEW i \in Hits(p), Place(p, i) <= (walk.page + 1) * PerPage
          PROVE  index[i] \in walk.items \cup a.items
      <4>1. Place(p, i) <= walk.page * PerPage \/ index[i] \in PageOf(p, walk.page + 1)
        BY <1>1, <1>5, <3>2, PageShows
      <4> QED BY <4>1, <1>4, <1>10, <2>2, <3>2
    <3>3. WalkInv'
      BY <1>2, <1>4, <2>2, <2>4, <2>5, <3>1, <3>2, WalkHolds
    <3> QED BY <3>1, <3>3, <1>9, <2>5
  <2>6. CASE /\ a.items = {} /\ Exhausted(TRUE, walk.items, total)
             /\ Consume(walk.items, p) /\ Push(<<>>) /\ walk' = NoWalk
    <3>1. Cardinality(walk.items) \in Nat /\ Cardinality(walk.items) >= total
      BY <1>4, <1>6, <2>6, FS_Subset, FS_CardinalityType DEF Exhausted
    <3>2. walk.items = Matches(p)
      <4>1. CASE honesty = "steady"
        <5>1. PageOf(p, walk.page + 1) = {}
          BY <2>2, <2>6, <4>1
        <5>2. \A i \in Hits(p) : Place(p, i) <= walk.page * PerPage
          BY <1>1, <1>5, <5>1, EmptyPage DEF SearchType
        <5> QED BY <1>4, <1>10, <4>1, <5>2 DEF Matches
      <4>2. CASE honesty = "shuffled"
        <5>1. Cardinality(walk.items) >= Cardinality(Hits(p))
          BY <1>6, <2>3, <2>4, <3>1, <4>2
        <5> QED BY <1>1, <1>4, <5>1, EnoughAreAll DEF SearchType
      <4> QED BY <1>1, <4>1, <4>2 DEF SearchType
    <3>3. CoverInv' /\ todo' \in Seq(Partitions) /\ gap' \in BOOLEAN
      BY <1>1, <1>2, <1>4, <2>6, <3>2, PartitionDone
    <3> QED BY <3>3, <2>6, <1>8
  <2>7. CASE /\ walk' = [walk EXCEPT !.page = MaxPages, !.total = total]
             /\ UNCHANGED <<todo, seen, gap>>
    <3>1. MaxPages \in Nat
      BY SearchAssumption DEF MaxPages
    <3>2. walk' \in Walks /\ walk'.part = p /\ walk'.page = MaxPages
          /\ walk'.items = walk.items /\ walk'.total = total /\ walk'.first = walk.first
      BY <1>3, <2>3, <2>7, <3>1 DEF Walks
    <3>3. ~(walk'.page < MaxPages)
      BY <3>1, <3>2
    <3>4. WalkInv'
      BY <1>2, <1>4, <2>4, <2>7, <3>2, <3>3, WalkHolds
    <3> QED BY <3>2, <3>4, <1>9, <2>7
  <2> QED BY <2>1, <2>5, <2>6, <2>7 DEF total
<1>11. CASE ~(walk.page < MaxPages) /\ walk.sweep < MaxSweeps
  <2>1. PICK a \in Answers(p, 1) :
           /\ walk' = [walk EXCEPT !.sweep = @ + 1, !.page = 1, !.items = a.items,
                                   !.total = a.total]
           /\ UNCHANGED <<todo, seen, gap>>
    BY <1>11 DEF NextPage
  <2>2. a.items \subseteq AllFiles /\ a.total \in Nat
    BY <1>1, AnswersAre
  <2>3. /\ walk' \in Walks /\ walk'.part = p /\ walk'.page = 1 /\ walk'.items = a.items
        /\ walk'.total = a.total /\ walk'.first = walk.first
    <3>1. walk.sweep + 1 \in Nat /\ 1 \in Nat
      BY <1>5
    <3>2. walk' = [walk EXCEPT !.sweep = @ + 1, !.page = 1, !.items = a.items, !.total = a.total]
      BY <2>1
    <3>3. walk' \in Walks
      BY <1>3, <2>2, <3>1, <3>2 DEF Walks
    <3> QED BY <1>3, <3>2, <3>3 DEF Walks
  <2>4. WalkInv'
    <3>1. a \in Answers(Head(todo), 1) /\ walk.first \in SUBSET Matches(Head(todo))
          /\ walk'.part = Head(todo) /\ Unsplit(Head(todo)) /\ todo /= <<>>
      BY <1>4, <2>3
    <3>2. UNCHANGED <<index, honesty, todo>>
      BY <1>2, <2>1
    <3> QED BY <1>1, <2>3, <3>1, <3>2, WalkBegins
  <2> QED BY <2>1, <2>3, <2>4, <1>9
<1>12. CASE ~(walk.page < MaxPages) /\ ~(walk.sweep < MaxSweeps)
  <2>1. SplitPage(p, walk.first) /\ walk' = NoWalk
    BY <1>12 DEF NextPage
  <2>2. CoverInv' /\ todo' \in Seq(Partitions) /\ gap' \in BOOLEAN
    BY <1>1, <1>2, <1>4, <2>1, PageSplits
  <2> QED BY <2>1, <2>2, <1>8
<1> QED BY <1>10, <1>11, <1>12

\* Every step keeps the invariant.
LEMMA SearchStep == SearchInv /\ [SearchNext]_searchVars => SearchInv'
<1> SUFFICES ASSUME SearchInv, [SearchNext]_searchVars PROVE SearchInv'
  OBVIOUS
<1>1. CASE RequestFails
  BY <1>1 DEF RequestFails, SearchInv, SearchType, WalkInv, CoverInv, CompleteInv, Open,
              Hits, Matches, Place
<1>2. CASE Certify
  <2>1. walk \in Walks \cup {NoWalk} /\ gap \in BOOLEAN
    BY DEF SearchInv, SearchType
  <2>2. certificate' = "complete" => ~gap /\ todo = <<>>
    BY <1>2 DEF Certify
  <2> QED BY <1>2, <2>2 DEF Certify, SearchInv, SearchType, WalkInv, CoverInv, CompleteInv,
              Hits, Matches, Place
<1>3. CASE UNCHANGED searchVars
  BY <1>3 DEF searchVars, SearchInv, SearchType, WalkInv, CoverInv, CompleteInv,
              Hits, Matches, Place
<1> QED BY <1>1, <1>2, <1>3, VisitKeeps, NextPageKeeps DEF SearchNext

\* A complete certificate misses no repository, for any index, queries and limits, whatever
\* totals and pages the service reports.
THEOREM CertificatesMissNobody == SearchSpec => []CertificateMissesNobody
<1>1. SearchInv => CertificateMissesNobody
  <2>1. SUFFICES ASSUME SearchInv, certificate = "complete", NEW i \in DOMAIN index,
                        Wanted(index[i])
                 PROVE  Witnessed(index[i], seen)
    BY DEF CertificateMissesNobody, Wanted, Witnessed
  <2>2. ~gap /\ todo = <<>>
    BY <2>1 DEF SearchInv, CompleteInv
  <2>3. ~AwaitedIn(index[i], todo)
    BY <2>2 DEF AwaitedIn
  <2> QED BY <2>1, <2>2, <2>3 DEF SearchInv, CoverInv
<1> QED BY <1>1, SearchStarts, SearchStep, PTL DEF SearchSpec

================================================================================
