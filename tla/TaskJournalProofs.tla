--------------------------- MODULE TaskJournalProofs ---------------------------
(***************************************************************************)
(* The journal's promises, proved for every set of tasks and workers and   *)
(* every attempt limit.                                                    *)
(*                                                                         *)
(* Each operation rewrites a task's row and its ledger as a function of    *)
(* that row, that ledger and the run's status alone.  The inductive        *)
(* invariant is therefore stated on those values, ScanOK and NetOK, one    *)
(* lemma per rewriting shows that it preserves them, and the lemma for a   *)
(* step only says which rewriting the step applies to which task.  The     *)
(* second part shows that the journal implements the queue of WorkQueue.   *)
(***************************************************************************)
EXTENDS TaskJournalRefinement, TLAPS

RowShapes ==
    {OpenRow, ClosedRow("complete", FALSE), ClosedRow("failed", TRUE),
     ClosedRow("failed", FALSE), InterruptedRow(TRUE), InterruptedRow(FALSE)}

\* What a task row satisfies at every stage, given the status of its run.
RowOK(row, run) ==
    /\ row \in TaskRow
    /\ row.max > 0
    /\ row.outcome # "none" <=> row.status = "complete"
    /\ row.status = "absent" => row.attempts = 0
    /\ row.status = "running" => row.attempts > 0
    /\ row.status = "pending" => row.attempts < row.max
    /\ run = "none" => row.status = "absent"
    /\ run = "abandoned" => row.status \in {"absent", "complete", "failed"}

\* What a ledger satisfies, given its task's row: one row per dispatch, only the
\* last one open, and no attempt cut off by an abandonment in an open run.
LedgerOK(row, rows, run) ==
    /\ rows \in Seq(AttemptRow)
    /\ Len(rows) = row.attempts
    /\ \A i \in 1..Len(rows) :
         /\ rows[i] \in RowShapes
         /\ rows[i] = InterruptedRow(FALSE) => run = "abandoned"
         /\ rows[i] = OpenRow =>
              /\ i = row.attempts
              /\ row.status = "running" \/ row.outcome = "superseded"

\* How the ledger's last row constrains the task.
LastRowOK(row, rows) ==
    /\ /\ row.status = "pending"
       /\ row.attempts > 0
       /\ rows[row.attempts] = ClosedRow("failed", FALSE)
       => row.reviewed
    /\ row.outcome = "verdict" =>
         row.attempts > 0 /\ rows[row.attempts] = ClosedRow("complete", FALSE)

ScanOK(row, rows, run) ==
    RowOK(row, run) /\ LedgerOK(row, rows, run) /\ LastRowOK(row, rows)

JournalInv ==
    /\ runStatus \in RunStatus
    /\ DOMAIN tasks = Tasks /\ tasks = [t \in Tasks |-> tasks[t]]
    /\ DOMAIN ledger = ScanTasks /\ ledger = [t \in ScanTasks |-> ledger[t]]
    /\ charged \in [NetTasks -> SUBSET Nat]
    /\ resets \in Nat
    /\ \A t \in NetTasks : RowOK(tasks[t], runStatus)
    /\ \A t \in ScanTasks : ScanOK(tasks[t], ledger[t], runStatus)

--------------------------------------------------------------------------------
(* Rewritings of one task. *)

LEMMA ShapeFacts ==
    /\ RowShapes \subseteq AttemptRow
    /\ \A r \in RowShapes :
         /\ r.status = "running" <=> r = OpenRow
         /\ ~r.measured <=> r \in {OpenRow, InterruptedRow(TRUE), InterruptedRow(FALSE)}
         /\ (r.status = "failed" /\ ~r.retryable) <=> r = ClosedRow("failed", FALSE)
         /\ (r.status = "interrupted" /\ r.retryable) <=> r = InterruptedRow(TRUE)
  BY DEF RowShapes, AttemptRow, OpenRow, ClosedRow, InterruptedRow


\* Interrupting the open rows keeps the ledger's length and its closed rows.
LEMMA InterruptedLedger ==
  ASSUME NEW rows \in Seq(AttemptRow), NEW retryable \in BOOLEAN,
         \A i \in 1..Len(rows) : rows[i] \in RowShapes
  PROVE  LET new == InterruptOpenRows(rows, retryable) IN
         /\ new \in Seq(AttemptRow)
         /\ Len(new) = Len(rows)
         /\ \A i \in 1..Len(rows) :
              new[i] = IF rows[i] = OpenRow THEN InterruptedRow(retryable) ELSE rows[i]
<1>1. DOMAIN rows = 1..Len(rows)
  OBVIOUS
<1>2. \A i \in 1..Len(rows) : rows[i].status = "running" <=> rows[i] = OpenRow
  BY ShapeFacts
<1>3. InterruptedRow(retryable) \in AttemptRow
  BY DEF InterruptedRow, AttemptRow
<1> DEFINE new == InterruptOpenRows(rows, retryable)
<1>4. new = [i \in 1..Len(rows) |->
               IF rows[i].status = "running" THEN InterruptedRow(retryable) ELSE rows[i]]
  BY <1>1 DEF InterruptOpenRows
<1>5. \A i \in 1..Len(rows) : new[i] \in AttemptRow
  BY <1>3, <1>4
<1>6. new \in Seq(AttemptRow) /\ Len(new) = Len(rows)
  BY <1>4, <1>5
<1> QED
  BY <1>2, <1>4, <1>6

\* The judgement of a resume or of a sweep: whether it requeues or fails the
\* task, the invariant holds of the result in any open run.
LEMMA DispositionKeeps ==
  ASSUME NEW row, NEW rows, NEW run \in RunStatus, NEW allow \in BOOLEAN,
         NEW run2 \in {"running", run},
         ScanOK(row, rows, run),
         row.status \in {"pending", "running", "failed"},
         run \notin {"none", "abandoned"}
  PROVE  LET rows2 == InterruptOpenRows(rows, TRUE)
         IN  ScanOK(ScanDisposition(row, rows2, allow), rows2, run2)
<1> DEFINE rows2 == InterruptOpenRows(rows, TRUE)
           row2 == ScanDisposition(row, rows2, allow)
<1>1. /\ row \in TaskRow /\ row.max > 0 /\ row.outcome = "none"
      /\ row.attempts \in Nat /\ row.max \in Nat
  BY DEF ScanOK, RowOK, TaskRow
<1>2. /\ rows \in Seq(AttemptRow) /\ Len(rows) = row.attempts
      /\ \A i \in 1..Len(rows) : /\ rows[i] \in RowShapes
                                 /\ rows[i] # InterruptedRow(FALSE)
  BY DEF ScanOK, LedgerOK
<1>3. /\ rows2 \in Seq(AttemptRow) /\ Len(rows2) = row.attempts
      /\ \A i \in 1..row.attempts :
           rows2[i] \in {ClosedRow("complete", FALSE), ClosedRow("failed", TRUE),
                         ClosedRow("failed", FALSE), InterruptedRow(TRUE)}
  <2>1. rows2 \in Seq(AttemptRow) /\ Len(rows2) = row.attempts
    BY <1>2, InterruptedLedger
  <2>2. \A i \in 1..row.attempts :
           rows2[i] = IF rows[i] = OpenRow THEN InterruptedRow(TRUE) ELSE rows[i]
    BY <1>2, InterruptedLedger
  <2>3. \A i \in 1..row.attempts :
           rows2[i] \in {ClosedRow("complete", FALSE), ClosedRow("failed", TRUE),
                         ClosedRow("failed", FALSE), InterruptedRow(TRUE)}
    BY <1>2, <2>2 DEF RowShapes
  <2> QED
    BY <2>1, <2>3
<1> HIDE DEF rows2
<1>4. /\ row2.status \in {"pending", "failed"}
      /\ row2.outcome = "none"
      /\ row2.attempts = row.attempts /\ row2.max = row.max
      /\ row2 \in TaskRow
      /\ row2.status = "pending" => MayRetry(row, rows2, allow)
  <2>1. KeepsReview(row, rows2) \in BOOLEAN
    BY <1>1 DEF KeepsReview, TaskRow
  <2>2. PICK status \in {"pending", "failed"} :
          /\ row2 = [row EXCEPT !.status = status, !.owner = NoWorker,
                                !.live = FALSE, !.reviewed = KeepsReview(row, rows2)]
          /\ status = "pending" => MayRetry(row, rows2, allow)
    BY <1>1, <2>1 DEF ScanDisposition, Released, TaskRow
  <2> QED
    BY <1>1, <2>1, <2>2 DEF TaskRow, TaskStatus
<1> HIDE DEF row2
<1>5. RowOK(row2, run2)
  BY <1>1, <1>4 DEF RowOK, MayRetry
<1>6. LedgerOK(row2, rows2, run2)
  BY <1>3, <1>4 DEF LedgerOK, RowShapes, OpenRow, ClosedRow, InterruptedRow
<1>7. LastRowOK(row2, rows2)
  <2>1. SUFFICES ASSUME row2.status = "pending", row2.attempts > 0,
                        rows2[row2.attempts] = ClosedRow("failed", FALSE)
                 PROVE  FALSE
    BY <1>4 DEF LastRowOK
  <2>2. /\ rows2[row.attempts].status # "interrupted"
        /\ rows2[row.attempts].status = "failed" /\ ~rows2[row.attempts].retryable
    BY <1>4, <2>1 DEF ClosedRow
  <2>3. row.attempts # 0 /\ MayRetry(row, rows2, allow)
    BY <1>1, <1>4, <2>1
  <2>4. \/ rows2[row.attempts].status = "interrupted"
        \/ ~(rows2[row.attempts].status = "failed" /\ ~rows2[row.attempts].retryable)
    BY <2>3, Zenon DEF MayRetry
  <2> QED
    BY <2>2, <2>4
<1> QED
  BY <1>5, <1>6, <1>7 DEF ScanOK, rows2, row2

\* A pending task of an open run can always be leased.
LEMMA PendingLeasable ==
  ASSUME NEW row, NEW rows, NEW run \in RunStatus,
         ScanOK(row, rows, run), row.status = "pending"
  PROVE  Leasable(row, rows)
<1>1. /\ row.attempts < row.max /\ row.outcome = "none"
      /\ run # "abandoned"
  BY DEF ScanOK, RowOK, TaskRow
<1>2. /\ rows \in Seq(AttemptRow)
      /\ \A i \in 1..Len(rows) : /\ rows[i] \in RowShapes
                                 /\ rows[i] # InterruptedRow(FALSE)
                                 /\ rows[i] # OpenRow
  BY <1>1 DEF ScanOK, LedgerOK
<1>3. \A i \in 1..Len(rows) :
        rows[i].measured \/ (rows[i].status = "interrupted" /\ rows[i].retryable)
  BY <1>2, ShapeFacts
<1>4. DOMAIN rows = 1..Len(rows)
  BY <1>2
<1>5. ~Barred(rows)
  BY <1>3, <1>4, Zenon DEF Barred
<1> QED
  BY <1>1, <1>5 DEF Leasable


\* Handing a pending task to a worker.
LEMMA LeasedRow ==
  ASSUME NEW row, NEW run \in RunStatus, NEW w \in Workers,
         RowOK(row, run), row.status = "pending"
  PROVE  /\ RowOK(Leased(row, w), run)
         /\ Leased(row, w).status = "running"
         /\ Leased(row, w).outcome = "none"
         /\ Leased(row, w).attempts = row.attempts + 1
<1>1. /\ row \in TaskRow /\ row.outcome = "none" /\ row.max \in Nat /\ row.max > 0
      /\ run \notin {"none", "abandoned"}
  BY DEF RowOK, TaskRow
<1>2. PICK n \in Nat : n = row.attempts + 1 /\ n > 0
  BY <1>1 DEF TaskRow
<1>3. Leased(row, w) = [row EXCEPT !.status = "running", !.attempts = n,
                                   !.owner = w, !.live = TRUE]
  BY <1>2 DEF Leased
<1>4. /\ Leased(row, w) \in TaskRow
      /\ Leased(row, w).status = "running"
      /\ Leased(row, w).outcome = "none"
      /\ Leased(row, w).max = row.max
      /\ Leased(row, w).attempts = n
  BY <1>1, <1>3 DEF TaskRow, TaskStatus
<1> QED
  BY <1>1, <1>2, <1>4 DEF RowOK

\* Opening a ledger row with the lease.
LEMMA LeaseKeeps ==
  ASSUME NEW row, NEW rows, NEW run \in RunStatus, NEW w \in Workers,
         ScanOK(row, rows, run), Leasable(row, rows)
  PROVE  ScanOK(Leased(row, w), Append(rows, OpenRow), run)
<1> DEFINE row2 == Leased(row, w)
           rows2 == Append(rows, OpenRow)
<1>1. /\ RowOK(row, run) /\ row.status = "pending" /\ row.outcome = "none"
      /\ row.attempts \in Nat /\ run \notin {"none", "abandoned"}
  BY DEF ScanOK, RowOK, Leasable, TaskRow
<1>2. /\ RowOK(row2, run) /\ row2.status = "running" /\ row2.outcome = "none"
      /\ row2.attempts = row.attempts + 1
  BY <1>1, LeasedRow
<1>3. /\ rows \in Seq(AttemptRow) /\ Len(rows) = row.attempts
      /\ \A i \in 1..Len(rows) : /\ rows[i] \in RowShapes
                                 /\ rows[i] # InterruptedRow(FALSE)
                                 /\ rows[i] # OpenRow
  BY <1>1 DEF ScanOK, LedgerOK
<1>4. OpenRow \in AttemptRow /\ OpenRow \in RowShapes /\ OpenRow # InterruptedRow(FALSE)
  BY DEF OpenRow, AttemptRow, RowShapes, InterruptedRow
<1> HIDE DEF row2
<1>5. /\ rows2 \in Seq(AttemptRow) /\ Len(rows2) = row2.attempts
      /\ \A i \in 1..Len(rows) : rows2[i] = rows[i]
      /\ rows2[row2.attempts] = OpenRow
  BY <1>1, <1>2, <1>3, <1>4
<1> HIDE DEF rows2
<1>7. LedgerOK(row2, rows2, run)
  <2>1. ASSUME NEW i \in 1..Len(rows2)
        PROVE  i \in 1..Len(rows) \/ (i = row2.attempts /\ rows2[i] = OpenRow)
    BY <2>1, <1>1, <1>2, <1>3, <1>5
  <2>2. \A i \in 1..Len(rows2) : 
          /\ rows2[i] \in RowShapes
          /\ rows2[i] # InterruptedRow(FALSE)
          /\ rows2[i] = OpenRow => i = row2.attempts
    BY <2>1, <1>3, <1>4, <1>5
  <2> QED
    BY <2>2, <1>2, <1>5 DEF LedgerOK
<1>8. LastRowOK(row2, rows2)
  BY <1>2 DEF LastRowOK
<1> QED
  BY <1>2, <1>7, <1>8 DEF ScanOK, row2, rows2

\* Closing the last row of a running task; the task itself may stay as it is,
\* complete, fail or be requeued.
LEMMA ReportKeeps ==
  ASSUME NEW row, NEW rows, NEW run \in RunStatus, NEW closed \in Reports,
         NEW row2,
         ScanOK(row, rows, run), row.status = "running",
         RowOK(row2, run), row2.attempts = row.attempts,
         \/ row2 = row
         \/ row2.outcome = "verdict" /\ closed = ClosedRow("complete", FALSE)
         \/ row2.outcome = "none" /\ row2.status = "failed"
         \/ row2.outcome = "none" /\ closed = ClosedRow("failed", TRUE)
  PROVE  LET rows2 == [rows EXCEPT ![row.attempts] = closed]
         IN  ScanOK(row2, rows2, run)
<1> DEFINE rows2 == [rows EXCEPT ![row.attempts] = closed]
<1>1. /\ row.attempts \in Nat /\ row.attempts > 0
      /\ row.outcome = "none" /\ run \notin {"none", "abandoned"}
  BY DEF ScanOK, RowOK, TaskRow
<1>2. /\ rows \in Seq(AttemptRow) /\ Len(rows) = row.attempts
      /\ \A i \in 1..Len(rows) : /\ rows[i] \in RowShapes
                                 /\ rows[i] # InterruptedRow(FALSE)
                                 /\ rows[i] = OpenRow => i = row.attempts
  BY <1>1 DEF ScanOK, LedgerOK
<1>3. /\ closed \in AttemptRow /\ closed \in RowShapes
      /\ closed \notin {OpenRow, InterruptedRow(FALSE)}
  <2>1. closed.status \in {"complete", "failed"}
    BY DEF Reports, ClosedRow
  <2>2. OpenRow.status = "running" /\ InterruptedRow(FALSE).status = "interrupted"
    BY DEF OpenRow, InterruptedRow
  <2>3. closed \in RowShapes
    BY DEF Reports, RowShapes
  <2> QED
    BY <2>1, <2>2, <2>3, ShapeFacts
<1>4. /\ rows2 \in Seq(AttemptRow) /\ Len(rows2) = row.attempts
      /\ \A i \in 1..row.attempts :
           rows2[i] = IF i = row.attempts THEN closed ELSE rows[i]
  BY <1>1, <1>2, <1>3
<1> HIDE DEF rows2
<1>5. LedgerOK(row2, rows2, run)
  BY <1>1, <1>2, <1>3, <1>4 DEF LedgerOK
<1>6. rows2[row2.attempts] = closed
  BY <1>1, <1>4
<1>7. ClosedRow("failed", TRUE) # ClosedRow("failed", FALSE)
  BY DEF ClosedRow
<1>8. LastRowOK(row2, rows2)
  <2>1. CASE row2 = row
    BY <2>1, <1>1 DEF LastRowOK
  <2>2. CASE row2.outcome = "verdict" /\ closed = ClosedRow("complete", FALSE)
    BY <2>2, <1>1, <1>6 DEF LastRowOK, RowOK
  <2>3. CASE row2.outcome = "none" /\ row2.status = "failed"
    BY <2>3 DEF LastRowOK
  <2>4. CASE row2.outcome = "none" /\ closed = ClosedRow("failed", TRUE)
    BY <2>4, <1>6, <1>7 DEF LastRowOK
  <2> QED
    BY <2>1, <2>2, <2>3, <2>4
<1> QED
  BY <1>5, <1>8 DEF ScanOK, rows2

\* A resume closes the rows a superseded task left open.
LEMMA InterruptKeepsClosed ==
  ASSUME NEW row, NEW rows, NEW run \in {"running", "failed"},
         ScanOK(row, rows, run), row.status \in {"absent", "complete"}
  PROVE  ScanOK(row, InterruptOpenRows(rows, TRUE), "running")
<1> DEFINE rows2 == InterruptOpenRows(rows, TRUE)
<1>1. /\ rows \in Seq(AttemptRow) /\ Len(rows) = row.attempts /\ row.attempts \in Nat
      /\ \A i \in 1..Len(rows) : rows[i] \in RowShapes /\ rows[i] # InterruptedRow(FALSE)
  BY DEF ScanOK, LedgerOK, RowOK, TaskRow
<1>2. /\ rows2 \in Seq(AttemptRow) /\ Len(rows2) = row.attempts
      /\ \A i \in 1..Len(rows) :
           rows2[i] = IF rows[i] = OpenRow THEN InterruptedRow(TRUE) ELSE rows[i]
  BY <1>1, InterruptedLedger
<1> HIDE DEF rows2
<1>3. /\ InterruptedRow(TRUE) \in RowShapes
      /\ InterruptedRow(TRUE) \notin {OpenRow, InterruptedRow(FALSE)}
      /\ OpenRow # ClosedRow("complete", FALSE)
  BY DEF RowShapes, InterruptedRow, OpenRow, ClosedRow
<1>4. LedgerOK(row, rows2, "running")
  BY <1>1, <1>2, <1>3 DEF LedgerOK
<1>5. row.outcome = "verdict" =>
        row.attempts > 0 /\ rows[row.attempts] = ClosedRow("complete", FALSE)
  BY DEF ScanOK, LastRowOK
<1>6. LastRowOK(row, rows2)
  <2>1. row.outcome = "verdict" => rows2[row.attempts] = rows[row.attempts]
    <3> SUFFICES ASSUME row.outcome = "verdict"
                 PROVE  rows2[row.attempts] = rows[row.attempts]
      OBVIOUS
    <3>1. row.attempts \in 1..Len(rows)
      BY <1>1, <1>5
    <3> QED
      BY <3>1, <1>2, <1>3, <1>5
  <2> QED
    BY <1>5, <2>1 DEF LastRowOK
<1>7. RowOK(row, "running")
  BY DEF ScanOK, RowOK
<1> QED
  BY <1>4, <1>6, <1>7 DEF ScanOK, rows2

\* Closing the books of an unfinished task without touching its ledger: a replan
\* supersedes it, a reset requeues a failed one, its lease expires.
LEMMA RewriteKeeps ==
  ASSUME NEW row, NEW rows, NEW run \in RunStatus, NEW run2 \in RunStatus, NEW row2,
         ScanOK(row, rows, run), RowOK(row2, run2),
         row2.attempts = row.attempts,
         run2 = run \/ (run2 # "abandoned" /\ run # "abandoned"),
         \/ /\ row2.status = row.status
            /\ row2.outcome = row.outcome
            /\ row2.reviewed = row.reviewed
         \/ row2.outcome = "superseded"
         \/ row.status = "failed" /\ row2.outcome = "none" /\ row2.reviewed
  PROVE  ScanOK(row2, rows, run2)
<1>1. LedgerOK(row2, rows, run2)
  BY DEF ScanOK, LedgerOK, RowOK
<1>2. LastRowOK(row2, rows)
  BY DEF ScanOK, LastRowOK, RowOK
<1> QED
  BY <1>1, <1>2 DEF ScanOK

\* Abandoning a run fails every unfinished task and closes every open row.
LEMMA AbandonKeeps ==
  ASSUME NEW row, NEW rows, NEW run \in RunStatus, NEW row2,
         ScanOK(row, rows, run), RowOK(row2, "abandoned"),
         row2.attempts = row.attempts,
         row2 = row \/ (row2.outcome = "none" /\ row2.status = "failed")
  PROVE  ScanOK(row2, InterruptOpenRows(rows, FALSE), "abandoned")
<1> DEFINE rows2 == InterruptOpenRows(rows, FALSE)
<1>1. /\ rows \in Seq(AttemptRow) /\ Len(rows) = row.attempts
      /\ \A i \in 1..Len(rows) : rows[i] \in RowShapes
  BY DEF ScanOK, LedgerOK
<1>2. /\ rows2 \in Seq(AttemptRow) /\ Len(rows2) = row.attempts
      /\ \A i \in 1..Len(rows) :
           rows2[i] = IF rows[i] = OpenRow THEN InterruptedRow(FALSE) ELSE rows[i]
  BY <1>1, InterruptedLedger
<1> HIDE DEF rows2
<1>3. InterruptedRow(FALSE) \in RowShapes /\ InterruptedRow(FALSE) # OpenRow
      /\ OpenRow # ClosedRow("complete", FALSE)
  BY DEF RowShapes, InterruptedRow, OpenRow, ClosedRow
<1>4. LedgerOK(row2, rows2, "abandoned")
  BY <1>1, <1>2, <1>3 DEF LedgerOK
<1>5. LastRowOK(row2, rows2)
  <2>1. CASE row2 = row
    <3>1. row.status # "pending"
      BY <2>1 DEF RowOK
    <3>2. row.attempts \in Nat
      BY DEF ScanOK, RowOK, TaskRow
    <3>3. LastRowOK(row, rows)
      BY DEF ScanOK
    <3>4. SUFFICES ASSUME row.outcome = "verdict"
                   PROVE  /\ row.attempts > 0
                          /\ rows2[row.attempts] = ClosedRow("complete", FALSE)
      BY <2>1, <3>1 DEF LastRowOK
    <3>5. row.attempts > 0 /\ rows[row.attempts] = ClosedRow("complete", FALSE)
      BY <3>3, <3>4 DEF LastRowOK
    <3>6. row.attempts \in 1..Len(rows)
      BY <1>1, <3>2, <3>5
    <3> QED
      BY <3>5, <3>6, <1>2, <1>3
  <2>2. CASE row2.outcome = "none" /\ row2.status = "failed"
    BY <2>2 DEF LastRowOK
  <2> QED
    BY <2>1, <2>2
<1> QED
  BY <1>4, <1>5 DEF ScanOK, rows2


--------------------------------------------------------------------------------
(* Steps. *)

USE JournalAssumption

LEMMA InitInv == Init => JournalInv
<1> SUFFICES ASSUME Init PROVE JournalInv
  OBVIOUS
<1>1. \A t \in Tasks : RowOK(tasks[t], runStatus) /\ tasks[t].outcome = "none"
                       /\ tasks[t].attempts = 0
  BY DEF Init, RowOK, TaskRow, TaskStatus
<1>2. \A t \in ScanTasks : ScanOK(tasks[t], ledger[t], runStatus)
  <2> SUFFICES ASSUME NEW t \in ScanTasks
               PROVE  ScanOK(tasks[t], ledger[t], runStatus)
    OBVIOUS
  <2>1. ledger[t] = <<>> /\ t \in Tasks
    BY DEF Init, Tasks
  <2>2. LedgerOK(tasks[t], <<>>, runStatus)
    BY <1>1, <2>1 DEF LedgerOK
  <2>3. ~(tasks[t].attempts > 0) /\ tasks[t].outcome = "none"
    BY <1>1, <2>1
  <2>4. LastRowOK(tasks[t], <<>>)
    BY <2>3 DEF LastRowOK
  <2> QED
    BY <1>1, <2>1, <2>2, <2>4 DEF ScanOK
<1> QED
  BY <1>1, <1>2 DEF Init, JournalInv, RunStatus, Tasks

\* What the sweep makes of every task; tasks whose lease is live are untouched.
LEMMA SweepKeeps ==
  ASSUME JournalInv
  PROVE  /\ \A t \in NetTasks : RowOK(SweptTask(t), runStatus)
         /\ \A t \in ScanTasks : ScanOK(SweptTask(t), SweptRows(t), runStatus)
<1>1. ASSUME NEW t \in NetTasks PROVE RowOK(SweptTask(t), runStatus)
  <2>1. RowOK(tasks[t], runStatus) /\ t \notin ScanTasks
    BY DEF JournalInv
  <2>2. CASE ~Stale(t)
    BY <2>1, <2>2 DEF SweptTask
  <2>3. CASE Stale(t)
    <3>1. PICK status \in {"pending", "failed"}, reviewed \in BOOLEAN :
            /\ SweptTask(t) = [tasks[t] EXCEPT !.status = status, !.owner = NoWorker,
                                 !.live = FALSE, !.reviewed = reviewed]
            /\ status = "pending" => tasks[t].attempts < tasks[t].max
      BY <2>1, <2>3 DEF SweptTask, Released, RowOK, TaskRow
    <3>2. runStatus \notin {"none", "abandoned"} /\ tasks[t].outcome = "none"
      BY <2>1, <2>3 DEF Stale, RowOK, TaskRow
    <3> QED
      BY <2>1, <2>3, <3>1, <3>2 DEF RowOK, TaskRow, TaskStatus
  <2> QED
    BY <2>2, <2>3
<1>2. ASSUME NEW t \in ScanTasks PROVE ScanOK(SweptTask(t), SweptRows(t), runStatus)
  <2>1. ScanOK(tasks[t], ledger[t], runStatus) /\ runStatus \in RunStatus
    BY DEF JournalInv
  <2>2. CASE ~Stale(t)
    BY <2>1, <2>2 DEF SweptTask, SweptRows
  <2>3. CASE Stale(t)
    <3>1. runStatus \notin {"none", "abandoned"} /\ tasks[t].status = "running"
      BY <2>1, <2>3 DEF Stale, ScanOK, RowOK
    <3>2. /\ SweptRows(t) = InterruptOpenRows(ledger[t], TRUE)
          /\ SweptTask(t) = ScanDisposition(tasks[t], SweptRows(t), FALSE)
      BY <2>3 DEF SweptTask, SweptRows
    <3> QED
      BY <2>1, <3>1, <3>2, DispositionKeeps
  <2> QED
    BY <2>2, <2>3
<1> QED
  BY <1>1, <1>2

LEMMA CreateInv == JournalInv /\ CreateRun => JournalInv'
<1> SUFFICES ASSUME JournalInv, CreateRun PROVE JournalInv'
  OBVIOUS
<1>1. \A t \in Tasks : RowOK(tasks[t], "none") => RowOK(tasks[t], "running")
  BY DEF RowOK
<1>2. \A t \in ScanTasks :
        ScanOK(tasks[t], ledger[t], "none") => ScanOK(tasks[t], ledger[t], "running")
  BY <1>1 DEF ScanOK, LedgerOK, Tasks
<1> QED
  BY <1>1, <1>2 DEF JournalInv, CreateRun, RunStatus, Tasks

LEMMA SweepInv == JournalInv /\ RecoverStaleTasks => JournalInv'
  BY SweepKeeps DEF JournalInv, RecoverStaleTasks, Tasks

LEMMA LeaseInv ==
  ASSUME JournalInv, NEW w \in Workers, NEW t \in Tasks, LeaseTask(w, t)
  PROVE  JournalInv'
<1>1. ASSUME NEW u \in NetTasks PROVE RowOK(tasks'[u], runStatus')
  <2>1. CASE u # t
    BY <2>1, SweepKeeps DEF LeaseTask, Tasks
  <2>2. CASE u = t
    <3>1. RowOK(SweptTask(t), runStatus) /\ SweptTask(t).status = "pending"
          /\ runStatus \in RunStatus
      BY <2>2, SweepKeeps DEF LeaseTask, Leasable, JournalInv
    <3>2. tasks'[u] = Leased(SweptTask(t), w) /\ runStatus' = runStatus
      BY <2>2 DEF LeaseTask, Tasks
    <3> QED
      BY <3>1, <3>2, LeasedRow
  <2> QED
    BY <2>1, <2>2
<1>2. ASSUME NEW u \in ScanTasks PROVE ScanOK(tasks'[u], ledger'[u], runStatus')
  <2>1. CASE u # t
    BY <2>1, SweepKeeps DEF LeaseTask, Tasks
  <2>2. CASE u = t
    <3>1. ScanOK(SweptTask(t), SweptRows(t), runStatus)
          /\ Leasable(SweptTask(t), SweptRows(t)) /\ runStatus \in RunStatus
      BY <2>2, SweepKeeps DEF LeaseTask, JournalInv
    <3>2. /\ tasks'[u] = Leased(SweptTask(t), w)
          /\ ledger'[u] = Append(SweptRows(t), OpenRow)
          /\ runStatus' = runStatus
      BY <2>2 DEF LeaseTask, Tasks
    <3> QED
      BY <3>1, <3>2, LeaseKeeps
  <2> QED
    BY <2>1, <2>2
<1> QED
  BY <1>1, <1>2 DEF JournalInv, LeaseTask


\* A live lease is held on a running task of an open run.
LEMMA HoldsFacts ==
  ASSUME JournalInv, NEW w, NEW t \in Tasks, Holds(w, t)
  PROVE  /\ RowOK(tasks[t], runStatus)
         /\ tasks[t].status = "running" /\ tasks[t].outcome = "none"
         /\ tasks[t].attempts \in Nat /\ tasks[t].max \in Nat
         /\ runStatus \in RunStatus \ {"none", "abandoned"}
<1>1. RowOK(tasks[t], runStatus) /\ tasks[t].status = "running"
  BY DEF JournalInv, ScanOK, Tasks, Holds
<1> QED
  BY <1>1 DEF RowOK, TaskRow, JournalInv

LEMMA ExpiryInv ==
  ASSUME JournalInv, NEW t \in Tasks, LeaseExpires(t)
  PROVE  JournalInv'
<1>1. RowOK(tasks[t], runStatus)
  BY DEF JournalInv, ScanOK, Tasks
<1> DEFINE row2 == [tasks[t] EXCEPT !.live = FALSE]
<1>2. /\ RowOK(row2, runStatus)
      /\ row2.attempts = tasks[t].attempts /\ row2.status = tasks[t].status
      /\ row2.outcome = tasks[t].outcome /\ row2.reviewed = tasks[t].reviewed
  BY <1>1 DEF RowOK, TaskRow
<1>3. \A u \in Tasks : tasks'[u] = IF u = t THEN row2 ELSE tasks[u]
  BY DEF LeaseExpires, JournalInv
<1> HIDE DEF row2
<1>4. ASSUME NEW u \in ScanTasks
      PROVE  ScanOK(tasks'[u], ledger'[u], runStatus')
  <2>1. ScanOK(tasks[u], ledger[u], runStatus) /\ runStatus \in RunStatus
    BY DEF JournalInv
  <2>2. /\ ledger'[u] = ledger[u] /\ runStatus' = runStatus
        /\ tasks'[u] = IF u = t THEN row2 ELSE tasks[u]
    BY <1>3 DEF LeaseExpires, Tasks
  <2>3. CASE u = t
    <3>1. ScanOK(row2, ledger[u], runStatus)
      BY <2>1, <2>3, <1>2, RewriteKeeps
    <3> QED
      BY <3>1, <2>2, <2>3
  <2>4. CASE u # t
    BY <2>1, <2>2, <2>4
  <2> QED
    BY <2>3, <2>4
<1>5. DOMAIN tasks' = Tasks /\ tasks' = [u \in Tasks |-> tasks'[u]]
  BY DEF JournalInv, LeaseExpires
<1>6. \A u \in NetTasks : RowOK(tasks'[u], runStatus')
  BY <1>2, <1>3 DEF JournalInv, LeaseExpires, Tasks
<1> QED
  BY <1>4, <1>5, <1>6 DEF JournalInv, LeaseExpires

\* A worker's report on the lease it holds, whatever the task becomes.
LEMMA ReportInv ==
  ASSUME JournalInv, NEW w \in Workers, NEW t \in Tasks, Holds(w, t),
         NEW closed \in Reports, NEW row2,
         RowOK(row2, runStatus), row2.attempts = tasks[t].attempts,
         \/ row2 = tasks[t]
         \/ row2.outcome = "verdict" /\ closed = ClosedRow("complete", FALSE)
         \/ row2.outcome = "none" /\ row2.status = "failed"
         \/ row2.outcome = "none" /\ closed = ClosedRow("failed", TRUE),
         tasks' = [tasks EXCEPT ![t] = row2],
         FinishAttempt(t, closed),
         UNCHANGED <<runStatus, charged, resets>>
  PROVE  JournalInv'
<1>1. \A u \in Tasks : tasks'[u] = IF u = t THEN row2 ELSE tasks[u]
  BY DEF JournalInv
<1>2. ASSUME NEW u \in ScanTasks
      PROVE  ScanOK(tasks'[u], ledger'[u], runStatus')
  <2>1. ScanOK(tasks[u], ledger[u], runStatus) /\ runStatus \in RunStatus
    BY DEF JournalInv
  <2>2. CASE u = t
    <3>1. /\ ledger'[u] = [ledger[u] EXCEPT ![tasks[u].attempts] = closed]
          /\ tasks'[u] = row2 /\ runStatus' = runStatus
      BY <1>1, <2>2 DEF FinishAttempt, JournalInv, Tasks
    <3>2. tasks[u].status = "running" /\ row2.attempts = tasks[u].attempts
      BY <2>2 DEF Holds
    <3>3. \/ row2 = tasks[u]
          \/ row2.outcome = "verdict" /\ closed = ClosedRow("complete", FALSE)
          \/ row2.outcome = "none" /\ row2.status = "failed"
          \/ row2.outcome = "none" /\ closed = ClosedRow("failed", TRUE)
      BY <2>2
    <3>4. ScanOK(row2, [ledger[u] EXCEPT ![tasks[u].attempts] = closed], runStatus)
      BY <2>1, <3>2, <3>3, ReportKeeps
    <3> QED
      BY <3>1, <3>4
  <2>3. CASE u # t
    <3>1. ledger'[u] = ledger[u] /\ tasks'[u] = tasks[u] /\ runStatus' = runStatus
      BY <1>1, <2>3 DEF FinishAttempt, JournalInv, Tasks
    <3> QED
      BY <2>1, <3>1
  <2> QED
    BY <2>2, <2>3
<1>3. DOMAIN ledger' = ScanTasks /\ ledger' = [u \in ScanTasks |-> ledger'[u]]
  BY DEF FinishAttempt, JournalInv
<1>4. DOMAIN tasks' = Tasks /\ tasks' = [u \in Tasks |-> tasks'[u]]
  BY DEF JournalInv
<1>5. \A u \in NetTasks : RowOK(tasks'[u], runStatus')
  BY <1>1 DEF JournalInv, Tasks
<1> QED
  BY <1>2, <1>3, <1>4, <1>5 DEF JournalInv

LEMMA RecordInv ==
  ASSUME JournalInv, NEW w \in Workers, NEW t \in Tasks, NEW closed \in Reports,
         RecordScanAttemptResult(w, t, closed)
  PROVE  JournalInv'
<1>1. RowOK(tasks[t], runStatus) /\ Holds(w, t)
  BY HoldsFacts DEF RecordScanAttemptResult
<1>2. tasks' = [tasks EXCEPT ![t] = tasks[t]]
  BY DEF RecordScanAttemptResult, JournalInv
<1> QED
  BY <1>1, <1>2, ReportInv DEF RecordScanAttemptResult

LEMMA CompleteInv ==
  ASSUME JournalInv, NEW w \in Workers, NEW t \in Tasks, CompleteTask(w, t)
  PROVE  JournalInv'
<1>1. Holds(w, t)
  BY DEF CompleteTask
<1> DEFINE row2 == [Released(tasks[t], "complete") EXCEPT
                      !.reviewed = FALSE, !.outcome = "verdict"]
<1>2. /\ RowOK(row2, runStatus) /\ row2.attempts = tasks[t].attempts
      /\ row2.outcome = "verdict"
  BY <1>1, HoldsFacts DEF Released, RowOK, TaskRow, TaskStatus
<1>3. tasks' = [tasks EXCEPT ![t] = row2]
  BY DEF CompleteTask
<1>4. ClosedRow("complete", FALSE) \in Reports
  BY DEF Reports
<1> HIDE DEF row2
<1> QED
  BY <1>1, <1>2, <1>3, <1>4, ReportInv DEF CompleteTask

LEMMA FailInv ==
  ASSUME JournalInv, NEW w \in Workers, NEW t \in Tasks, NEW retry \in BOOLEAN,
         FailTask(w, t, retry)
  PROVE  JournalInv'
<1>1. Holds(w, t)
  BY DEF FailTask
<1> DEFINE status == IF retry /\ tasks[t].attempts < tasks[t].max
                     THEN "pending" ELSE "failed"
           row2 == [Released(tasks[t], status) EXCEPT !.reviewed = FALSE]
<1>2. status \in {"pending", "failed"}
      /\ (status = "pending" => retry /\ tasks[t].attempts < tasks[t].max)
  OBVIOUS
<1> HIDE DEF status
<1>3. /\ RowOK(row2, runStatus) /\ row2.attempts = tasks[t].attempts
      /\ row2.outcome = "none" /\ row2.status = status
  BY <1>1, <1>2, HoldsFacts DEF Released, RowOK, TaskRow, TaskStatus
<1>4. tasks' = [tasks EXCEPT ![t] = row2]
  BY DEF FailTask, status
<1>5. ClosedRow("failed", retry) \in Reports
  BY DEF Reports
<1>6. row2.status = "failed" \/ ClosedRow("failed", retry) = ClosedRow("failed", TRUE)
  BY <1>2, <1>3
<1> HIDE DEF row2
<1> QED
  BY <1>1, <1>3, <1>4, <1>5, <1>6, ReportInv DEF FailTask


LEMMA EnqueueInv ==
  ASSUME JournalInv, NEW t \in Tasks, runStatus = "running", EnqueueTask(t)
  PROVE  JournalInv'
<1>1. RowOK(tasks[t], runStatus) /\ tasks[t].status = "absent"
  BY DEF JournalInv, ScanOK, Tasks, EnqueueTask
<1> DEFINE row2 == [tasks[t] EXCEPT !.status = "pending"]
<1>2. /\ RowOK(row2, runStatus) /\ row2.attempts = 0 /\ row2.outcome = "none"
      /\ tasks[t].attempts = 0
  BY <1>1 DEF RowOK, TaskRow, TaskStatus, EnqueueTask
<1>3. \A u \in Tasks : tasks'[u] = IF u = t THEN row2 ELSE tasks[u]
  BY DEF EnqueueTask, JournalInv
<1> HIDE DEF row2
<1>4. ASSUME NEW u \in ScanTasks
      PROVE  ScanOK(tasks'[u], ledger'[u], runStatus')
  <2>1. ScanOK(tasks[u], ledger[u], runStatus)
    BY DEF JournalInv
  <2>2. /\ ledger'[u] = ledger[u] /\ runStatus' = runStatus
        /\ tasks'[u] = IF u = t THEN row2 ELSE tasks[u]
    BY <1>3 DEF EnqueueTask, Tasks
  <2>3. CASE u = t
    <3>1. LedgerOK(row2, ledger[u], runStatus)
      BY <2>1, <2>3, <1>2 DEF ScanOK, LedgerOK
    <3>2. LastRowOK(row2, ledger[u])
      BY <1>2 DEF LastRowOK
    <3> QED
      BY <1>2, <2>2, <2>3, <3>1, <3>2 DEF ScanOK
  <2>4. CASE u # t
    BY <2>1, <2>2, <2>4
  <2> QED
    BY <2>3, <2>4
<1>5. DOMAIN tasks' = Tasks /\ tasks' = [u \in Tasks |-> tasks'[u]]
  BY DEF JournalInv, EnqueueTask
<1>6. \A u \in NetTasks : RowOK(tasks'[u], runStatus')
  BY <1>2, <1>3 DEF JournalInv, EnqueueTask, Tasks
<1> QED
  BY <1>4, <1>5, <1>6 DEF JournalInv, EnqueueTask

\* The status of the run can only get back to "running", or end, without
\* disturbing what its tasks satisfy, unless it is abandoned.
LEMMA ReopenRow ==
  ASSUME NEW row, NEW run \in {"running", "failed"},
         NEW run2 \in {"running", "failed", "complete"}, RowOK(row, run)
  PROVE  RowOK(row, run2)
  BY DEF RowOK

LEMMA ReopenScan ==
  ASSUME NEW row, NEW rows, NEW run \in {"running", "failed"},
         NEW run2 \in {"running", "failed", "complete"}, ScanOK(row, rows, run)
  PROVE  ScanOK(row, rows, run2)
  BY ReopenRow DEF ScanOK, LedgerOK

LEMMA FinishInv ==
  ASSUME JournalInv, runStatus = "running",
         NEW status \in {"complete", "failed"}, FinishRun(status)
  PROVE  JournalInv'
<1>1. \A t \in NetTasks : RowOK(tasks[t], status)
  BY ReopenRow DEF JournalInv
<1>2. \A t \in ScanTasks : ScanOK(tasks[t], ledger[t], status)
  BY ReopenScan DEF JournalInv
<1> QED
  BY <1>1, <1>2 DEF JournalInv, FinishRun, RunStatus

LEMMA ResumeInv == ASSUME JournalInv, ResumeRun PROVE JournalInv'
<1>1. ASSUME NEW t \in NetTasks PROVE RowOK(tasks'[t], runStatus')
  <2>1. /\ RowOK(tasks[t], runStatus) /\ t \in Tasks /\ t \notin ScanTasks
        /\ runStatus \in {"running", "failed"} /\ runStatus' = "running"
    BY DEF JournalInv, ResumeRun, Tasks
  <2>2. CASE tasks[t].status \in {"running", "failed"}
    <3>1. PICK status \in {"pending", "failed"} :
            /\ tasks'[t] = Released(tasks[t], status)
            /\ status = "pending" => tasks[t].attempts < tasks[t].max
      BY <2>1, <2>2 DEF ResumeRun
    <3> QED
      BY <2>1, <2>2, <3>1 DEF Released, RowOK, TaskRow, TaskStatus
  <2>3. CASE tasks[t].status \notin {"running", "failed"}
    <3>1. tasks'[t] = tasks[t]
      BY <2>1, <2>3 DEF ResumeRun
    <3> QED
      BY <2>1, <3>1, ReopenRow
  <2> QED
    BY <2>2, <2>3
<1>2. ASSUME NEW t \in ScanTasks PROVE ScanOK(tasks'[t], ledger'[t], runStatus')
  <2>1. /\ ScanOK(tasks[t], ledger[t], runStatus) /\ t \in Tasks
        /\ runStatus \in {"running", "failed"} /\ runStatus \in RunStatus
        /\ runStatus' = "running"
        /\ ledger'[t] = InterruptOpenRows(ledger[t], TRUE)
    BY DEF JournalInv, ResumeRun, Tasks
  <2>2. CASE tasks[t].status \in {"pending", "running", "failed"}
    <3>1. tasks'[t] = ScanDisposition(tasks[t], InterruptOpenRows(ledger[t], TRUE), TRUE)
      BY <2>1, <2>2 DEF ResumeRun
    <3>2. runStatus \notin {"none", "abandoned"}
      BY <2>1
    <3>3. ScanOK(ScanDisposition(tasks[t], InterruptOpenRows(ledger[t], TRUE), TRUE),
                 InterruptOpenRows(ledger[t], TRUE), "running")
      BY <2>1, <2>2, <3>2, DispositionKeeps
    <3> QED
      BY <2>1, <3>1, <3>3
  <2>3. CASE tasks[t].status \notin {"pending", "running", "failed"}
    <3>1. tasks'[t] = tasks[t]
      BY <2>1, <2>3 DEF ResumeRun
    <3>2. tasks[t].status \in {"absent", "complete"}
      BY <2>1, <2>3 DEF ScanOK, RowOK, TaskRow, TaskStatus
    <3>3. ScanOK(tasks[t], InterruptOpenRows(ledger[t], TRUE), "running")
      BY <2>1, <3>2, InterruptKeepsClosed
    <3> QED
      BY <2>1, <3>1, <3>3
  <2> QED
    BY <2>2, <2>3
<1> QED
  BY <1>1, <1>2 DEF JournalInv, ResumeRun, RunStatus

LEMMA AbandonInv == ASSUME JournalInv, AbandonRun PROVE JournalInv'
<1> DEFINE row2(t) == IF tasks[t].status \in {"pending", "running", "failed"}
                      THEN [Released(tasks[t], "failed") EXCEPT !.reviewed = FALSE]
                      ELSE tasks[t]
<1>1. /\ tasks' = [t \in Tasks |-> row2(t)] /\ runStatus' = "abandoned"
      /\ ledger' = [t \in ScanTasks |-> InterruptOpenRows(ledger[t], FALSE)]
      /\ runStatus \in {"running", "failed"} /\ UNCHANGED <<charged, resets>>
  BY DEF AbandonRun
<1>2. ASSUME NEW t \in Tasks
      PROVE  /\ RowOK(row2(t), "abandoned") /\ row2(t).attempts = tasks[t].attempts
             /\ row2(t) = tasks[t] \/ (row2(t).outcome = "none"
                                       /\ row2(t).status = "failed")
  <2>1. RowOK(tasks[t], runStatus)
    BY DEF JournalInv, ScanOK, Tasks
  <2>2. CASE tasks[t].status \in {"pending", "running", "failed"}
    BY <1>1, <2>1, <2>2 DEF Released, RowOK, TaskRow, TaskStatus
  <2>3. CASE tasks[t].status \notin {"pending", "running", "failed"}
    BY <1>1, <2>1, <2>3 DEF RowOK, TaskRow, TaskStatus
  <2> QED
    BY <2>2, <2>3
<1> HIDE DEF row2
<1>3. \A t \in NetTasks : RowOK(tasks'[t], runStatus')
  BY <1>1, <1>2 DEF Tasks
<1>4. ASSUME NEW t \in ScanTasks PROVE ScanOK(tasks'[t], ledger'[t], runStatus')
  <2>1. /\ ScanOK(tasks[t], ledger[t], runStatus) /\ t \in Tasks
        /\ tasks'[t] = row2(t) /\ runStatus \in RunStatus
        /\ ledger'[t] = InterruptOpenRows(ledger[t], FALSE)
    BY <1>1 DEF JournalInv, Tasks
  <2>2. ScanOK(row2(t), InterruptOpenRows(ledger[t], FALSE), "abandoned")
    BY <1>2, <2>1, AbandonKeeps
  <2> QED
    BY <1>1, <2>1, <2>2
<1> QED
  BY <1>1, <1>3, <1>4 DEF JournalInv, RunStatus

LEMMA ResetInv == ASSUME JournalInv, ResetFailedTasks PROVE JournalInv'
<1> DEFINE max2(t) == IF tasks[t].max <= tasks[t].attempts
                      THEN tasks[t].attempts + 1 ELSE tasks[t].max
           row2(t) == IF tasks[t].status = "failed"
                      THEN [Released(tasks[t], "pending") EXCEPT
                              !.max = max2(t), !.reviewed = TRUE]
                      ELSE tasks[t]
<1>1. /\ tasks' = [t \in Tasks |-> row2(t)] /\ runStatus' = "running"
      /\ runStatus \in {"running", "failed"} /\ UNCHANGED <<ledger, charged>>
      /\ resets' = resets + 1
  BY DEF ResetFailedTasks
<1>2. ASSUME NEW t \in Tasks
      PROVE  /\ RowOK(row2(t), "running") /\ row2(t).attempts = tasks[t].attempts
             /\ \/ row2(t) = tasks[t]
                \/ /\ tasks[t].status = "failed"
                   /\ row2(t).outcome = "none" /\ row2(t).reviewed
  <2>1. RowOK(tasks[t], runStatus)
    BY DEF JournalInv, ScanOK, Tasks
  <2>2. CASE tasks[t].status = "failed"
    <3>1. max2(t) \in Nat /\ max2(t) > 0 /\ tasks[t].attempts < max2(t)
      BY <2>1 DEF RowOK, TaskRow
    <3> HIDE DEF max2
    <3> QED
      BY <1>1, <2>1, <2>2, <3>1 DEF Released, RowOK, TaskRow, TaskStatus
  <2>3. CASE tasks[t].status # "failed"
    BY <1>1, <2>1, <2>3, ReopenRow
  <2> QED
    BY <2>2, <2>3
<1> HIDE DEF row2
<1>3. \A t \in NetTasks : RowOK(tasks'[t], runStatus')
  BY <1>1, <1>2 DEF Tasks
<1>4. ASSUME NEW t \in ScanTasks PROVE ScanOK(tasks'[t], ledger'[t], runStatus')
  <2>1. /\ ScanOK(tasks[t], ledger[t], runStatus) /\ t \in Tasks
        /\ tasks'[t] = row2(t) /\ runStatus \in RunStatus
        /\ "running" \in RunStatus /\ runStatus # "abandoned"
    BY <1>1 DEF JournalInv, Tasks, RunStatus
  <2>2. ScanOK(row2(t), ledger[t], "running")
    BY <1>2, <2>1, RewriteKeeps
  <2> QED
    BY <1>1, <2>1, <2>2
<1> QED
  BY <1>1, <1>3, <1>4 DEF JournalInv, RunStatus

LEMMA SupersedeInv ==
  ASSUME JournalInv, runStatus = "running", NEW stage \in {ScanTasks, NetTasks},
         NEW keep \in SUBSET stage, SupersedeTasks(stage, keep)
  PROVE  JournalInv'
<1> DEFINE dropped == {t \in stage \ keep :
                         tasks[t].status \in {"pending", "running", "failed"}}
           row2(t) == IF t \in dropped
                      THEN [Released(tasks[t], "complete") EXCEPT !.outcome = "superseded"]
                      ELSE tasks[t]
<1>1. /\ tasks' = [t \in Tasks |-> row2(t)]
      /\ UNCHANGED <<runStatus, ledger, charged, resets>>
  BY DEF SupersedeTasks
<1>2. ASSUME NEW t \in Tasks
      PROVE  /\ RowOK(row2(t), runStatus) /\ row2(t).attempts = tasks[t].attempts
             /\ row2(t) = tasks[t] \/ row2(t).outcome = "superseded"
  <2>1. RowOK(tasks[t], runStatus)
    BY DEF JournalInv, ScanOK, Tasks
  <2> QED
    BY <2>1 DEF Released, RowOK, TaskRow, TaskStatus
<1> HIDE DEF row2
<1>3. \A t \in NetTasks : RowOK(tasks'[t], runStatus')
  BY <1>1, <1>2 DEF Tasks
<1>4. ASSUME NEW t \in ScanTasks PROVE ScanOK(tasks'[t], ledger'[t], runStatus')
  <2>1. /\ ScanOK(tasks[t], ledger[t], runStatus) /\ t \in Tasks
        /\ tasks'[t] = row2(t) /\ runStatus \in RunStatus
    BY <1>1 DEF JournalInv, Tasks
  <2>2. ScanOK(row2(t), ledger[t], runStatus)
    BY <1>2, <2>1, RewriteKeeps
  <2> QED
    BY <1>1, <2>1, <2>2
<1> QED
  BY <1>1, <1>3, <1>4 DEF JournalInv


--------------------------------------------------------------------------------
(* Theorems. *)

LEMMA JournalNext == JournalInv /\ [Next]_vars => JournalInv'
<1> SUFFICES ASSUME JournalInv, [Next]_vars PROVE JournalInv'
  OBVIOUS
<1>1. CASE CreateRun
  BY <1>1, CreateInv
<1>2. CASE ResumeRun
  BY <1>2, ResumeInv
<1>3. CASE AbandonRun
  BY <1>3, AbandonInv
<1>4. CASE ResetFailedTasks
  BY <1>4, ResetInv
<1>5. CASE /\ runStatus = "running"
           /\ \/ \E status \in {"complete", "failed"} : FinishRun(status)
              \/ \E stage \in {ScanTasks, NetTasks} :
                    \E keep \in SUBSET stage : SupersedeTasks(stage, keep)
              \/ \E t \in Tasks : EnqueueTask(t)
  BY <1>5, FinishInv, SupersedeInv, EnqueueInv
<1>6. CASE RecoverStaleTasks
  BY <1>6, SweepInv
<1>7. CASE \E t \in Tasks : LeaseExpires(t)
  BY <1>7, ExpiryInv
<1>8. CASE \E t \in NetTasks : RecordNetworkTaskUsage(t, tasks[t].attempts)
  <2>1. PICK t \in NetTasks : RecordNetworkTaskUsage(t, tasks[t].attempts)
    BY <1>8
  <2>2. tasks[t].attempts \in Nat
    BY DEF JournalInv, RowOK, TaskRow
  <2>3. charged' \in [NetTasks -> SUBSET Nat]
    BY <2>1, <2>2 DEF RecordNetworkTaskUsage, JournalInv
  <2> QED
    BY <2>1, <2>3 DEF RecordNetworkTaskUsage, JournalInv
<1>9. CASE \E w \in Workers, t \in Tasks : WorkerStep(w, t)
  <2>1. PICK w \in Workers, t \in Tasks : WorkerStep(w, t)
    BY <1>9
  <2>2. CASE LeaseTask(w, t)
    BY <2>2, LeaseInv
  <2>3. CASE RenewTask(w, t)
    BY <2>3 DEF RenewTask, vars, JournalInv
  <2>4. CASE \E closed \in Reports : RecordScanAttemptResult(w, t, closed)
    BY <2>4, RecordInv
  <2>5. CASE CompleteTask(w, t)
    BY <2>5, CompleteInv
  <2>6. CASE \E retry \in BOOLEAN : FailTask(w, t, retry)
    BY <2>6, FailInv
  <2> QED
    BY <2>1, <2>2, <2>3, <2>4, <2>5, <2>6 DEF WorkerStep
<1>10. CASE UNCHANGED vars
  BY <1>10 DEF vars, JournalInv
<1> QED
  BY <1>1, <1>2, <1>3, <1>4, <1>5, <1>6, <1>7, <1>8, <1>9, <1>10 DEF Next, RunStep

\* The inductive invariant holds of every reachable state of the journal.
THEOREM JournalInvariant == Spec => []JournalInv
  BY InitInv, JournalNext, PTL DEF Spec

LEMMA InvType == JournalInv => TypeOK
<1> SUFFICES ASSUME JournalInv PROVE TypeOK
  OBVIOUS
<1>1. \A t \in Tasks : tasks[t] \in TaskRow
  BY DEF JournalInv, ScanOK, RowOK, Tasks
<1>2. \A t \in ScanTasks : ledger[t] \in Seq(AttemptRow)
  BY DEF JournalInv, ScanOK, LedgerOK
<1> QED
  BY <1>1, <1>2 DEF JournalInv, TypeOK

\* Type correctness of the task, attempt and usage tables.
THEOREM TypeCorrect == Spec => []TypeOK
  BY JournalInvariant, InvType, PTL

\* One ledger row per dispatch, for every history of crashes and recoveries.
THEOREM DispatchesCharged == Spec => []EveryDispatchCharged
<1>1. JournalInv => EveryDispatchCharged
  BY DEF JournalInv, ScanOK, LedgerOK, EveryDispatchCharged
<1> QED
  BY <1>1, JournalInvariant, PTL

\* No recovery leaves an open attempt row behind.
THEOREM OpenAttemptIsLatest == Spec => []OnlyLatestAttemptOpen
<1>1. JournalInv => OnlyLatestAttemptOpen
  <2> SUFFICES ASSUME JournalInv, NEW t \in ScanTasks, NEW i \in DOMAIN ledger[t],
                      ledger[t][i].status = "running"
               PROVE  /\ i = tasks[t].attempts
                      /\ \/ tasks[t].status = "running"
                         \/ tasks[t].outcome = "superseded"
    BY DEF OnlyLatestAttemptOpen
  <2>1. LedgerOK(tasks[t], ledger[t], runStatus)
    BY DEF JournalInv, ScanOK
  <2>2. i \in 1..Len(ledger[t])
    BY <2>1 DEF LedgerOK
  <2>3. ledger[t][i] = OpenRow
    BY <2>1, <2>2, ShapeFacts DEF LedgerOK
  <2> QED
    BY <2>1, <2>2, <2>3 DEF LedgerOK
<1> QED
  BY <1>1, JournalInvariant, PTL

\* A pending task is never stuck behind the guards of lease_task_by_id.
THEOREM PendingNeverStuck == Spec => []PendingIsLeasable
<1>1. JournalInv => PendingIsLeasable
  <2> SUFFICES ASSUME JournalInv, NEW t \in Tasks, tasks[t].status = "pending"
               PROVE  Leasable(tasks[t], IF t \in ScanTasks THEN ledger[t] ELSE <<>>)
    BY DEF PendingIsLeasable
  <2>1. CASE t \in ScanTasks
    <3>1. ScanOK(tasks[t], ledger[t], runStatus) /\ runStatus \in RunStatus
      BY <2>1 DEF JournalInv
    <3> QED
      BY <2>1, <3>1, PendingLeasable
  <2>2. CASE t \notin ScanTasks
    <3>1. RowOK(tasks[t], runStatus)
      BY <2>2 DEF JournalInv, Tasks
    <3>2. ~Barred(<<>>)
      BY DEF Barred
    <3> QED
      BY <2>2, <3>1, <3>2 DEF Leasable, RowOK
  <2> QED
    BY <2>1, <2>2
<1> QED
  BY <1>1, JournalInvariant, PTL

\* A non-retryable scan failure is requeued by nothing but an operator's review.
THEOREM NonRetryableStays == Spec => []NonRetryableNeedsReview
<1>1. JournalInv => NonRetryableNeedsReview
  BY DEF JournalInv, ScanOK, LastRowOK, NonRetryableNeedsReview
<1> QED
  BY <1>1, JournalInvariant, PTL

\* A completed scan's verdict is the one its last dispatch reported.
THEOREM VerdictIsReported == Spec => []VerdictMatchesLedger
<1>1. JournalInv => VerdictMatchesLedger
  BY DEF JournalInv, ScanOK, LastRowOK, VerdictMatchesLedger
<1> QED
  BY <1>1, JournalInvariant, PTL


\* The rows and the ledgers of the tables, whatever they hold.
RowTables ==
    /\ DOMAIN tasks = Tasks /\ tasks = [t \in Tasks |-> tasks[t]]
    /\ DOMAIN ledger = ScanTasks /\ ledger = [t \in ScanTasks |-> ledger[t]]
    /\ \A t \in ScanTasks : ledger[t] \in Seq(AttemptRow)

LEMMA InvTables == JournalInv => RowTables
  BY DEF JournalInv, RowTables, ScanOK, LedgerOK

LEMMA CompletedStays ==
  ASSUME RowTables, [Next]_vars, NEW t \in Tasks, tasks[t].status = "complete"
  PROVE  tasks'[t] = tasks[t]
<1>1. SweptTask(t) = tasks[t]
  BY DEF SweptTask, Stale
<1>2. CASE CreateRun
  BY <1>2 DEF CreateRun
<1>3. CASE ResumeRun
  BY <1>3 DEF ResumeRun
<1>4. CASE AbandonRun
  BY <1>4 DEF AbandonRun
<1>5. CASE ResetFailedTasks
  BY <1>5 DEF ResetFailedTasks
<1>6. CASE \E status \in {"complete", "failed"} : FinishRun(status)
  BY <1>6 DEF FinishRun
<1>7. CASE \E stage \in {ScanTasks, NetTasks} :
             \E keep \in SUBSET stage : SupersedeTasks(stage, keep)
  BY <1>7 DEF SupersedeTasks
<1>8. CASE \E u \in Tasks : EnqueueTask(u)
  BY <1>8 DEF EnqueueTask, RowTables
<1>9. CASE RecoverStaleTasks
  BY <1>1, <1>9 DEF RecoverStaleTasks
<1>10. CASE \E u \in Tasks : LeaseExpires(u)
  BY <1>10 DEF LeaseExpires, RowTables
<1>11. CASE \E u \in NetTasks : RecordNetworkTaskUsage(u, tasks[u].attempts)
  BY <1>11 DEF RecordNetworkTaskUsage
<1>12. CASE \E w \in Workers, u \in Tasks : WorkerStep(w, u)
  <2>1. PICK w \in Workers, u \in Tasks : WorkerStep(w, u)
    BY <1>12
  <2>2. CASE LeaseTask(w, u)
    <3>1. t # u
      BY <1>1, <2>2 DEF LeaseTask, Leasable, Tasks
    <3> QED
      BY <1>1, <2>2, <3>1 DEF LeaseTask
  <2>3. CASE RenewTask(w, u)
    BY <2>3 DEF RenewTask, vars
  <2>4. CASE \E closed \in Reports : RecordScanAttemptResult(w, u, closed)
    BY <2>4 DEF RecordScanAttemptResult
  <2>5. CASE CompleteTask(w, u)
    BY <2>5 DEF CompleteTask, Holds, RowTables
  <2>6. CASE \E retry \in BOOLEAN : FailTask(w, u, retry)
    BY <2>6 DEF FailTask, Holds, RowTables
  <2> QED
    BY <2>1, <2>2, <2>3, <2>4, <2>5, <2>6 DEF WorkerStep
<1>13. CASE UNCHANGED vars
  BY <1>13 DEF vars
<1> QED
  BY <1>2, <1>3, <1>4, <1>5, <1>6, <1>7, <1>8, <1>9, <1>10, <1>11, <1>12, <1>13
     DEF Next, RunStep

\* No step takes a completed task's result away.
THEOREM CompletedFinal == Spec => CompletedWorkIsFinal
<1>1. JournalInv /\ [Next]_vars =>
        [\A t \in Tasks : tasks[t].status = "complete" => tasks'[t] = tasks[t]]_vars
  BY InvTables, CompletedStays
<1> QED
  BY <1>1, JournalInvariant, PTL DEF Spec, CompletedWorkIsFinal


\* Later rows of a ledger extend the earlier ones without touching closed rows.
Extends(rows, rows2) ==
    \A i \in DOMAIN rows :
        i \in DOMAIN rows2 /\ (rows[i].status # "running" => rows2[i] = rows[i])

LEMMA InterruptExtends ==
  ASSUME NEW rows, NEW retryable
  PROVE  Extends(rows, InterruptOpenRows(rows, retryable))
  BY DEF Extends, InterruptOpenRows

LEMMA ReportExtends ==
  ASSUME NEW t \in ScanTasks, NEW closed, RowTables,
         MayFinishAttempt(t, closed), FinishAttempt(t, closed), NEW u \in ScanTasks
  PROVE  Extends(ledger[u], ledger'[u])
<1>1. CASE u # t
  BY <1>1 DEF FinishAttempt, Extends, RowTables
<1>2. CASE u = t
  <2>1. ledger'[u] = [ledger[u] EXCEPT ![tasks[u].attempts] = closed]
    BY <1>2 DEF FinishAttempt, RowTables
  <2>2. \/ ledger[u][tasks[u].attempts].status = "running"
        \/ ledger[u][tasks[u].attempts] = closed
    BY <1>2 DEF MayFinishAttempt, OpenRow
  <2> QED
    BY <2>1, <2>2 DEF Extends
<1> QED
  BY <1>1, <1>2

LEMMA SweepExtends ==
  ASSUME NEW t \in ScanTasks
  PROVE  Extends(ledger[t], SweptRows(t))
<1>1. CASE Stale(t)
  BY <1>1, InterruptExtends DEF SweptRows
<1>2. CASE ~Stale(t)
  BY <1>2 DEF SweptRows, Extends
<1> QED
  BY <1>1, <1>2

LEMMA InterruptStaysSequence ==
  ASSUME NEW rows \in Seq(AttemptRow), NEW retryable \in BOOLEAN
  PROVE  InterruptOpenRows(rows, retryable) \in Seq(AttemptRow)
<1>1. DOMAIN rows = 1..Len(rows) /\ \A i \in 1..Len(rows) : rows[i] \in AttemptRow
  OBVIOUS
<1>2. InterruptedRow(retryable) \in AttemptRow
  BY DEF InterruptedRow, AttemptRow
<1>3. InterruptOpenRows(rows, retryable)
        = [i \in 1..Len(rows) |->
             IF rows[i].status = "running" THEN InterruptedRow(retryable) ELSE rows[i]]
  BY <1>1 DEF InterruptOpenRows
<1> QED
  BY <1>1, <1>2, <1>3

LEMMA LedgerExtends ==
  ASSUME RowTables, [Next]_vars, NEW t \in ScanTasks
  PROVE  Extends(ledger[t], ledger'[t])
<1>1. CASE UNCHANGED ledger
  BY <1>1 DEF Extends
<1>2. CASE ResumeRun
  BY <1>2, InterruptExtends DEF ResumeRun
<1>3. CASE AbandonRun
  BY <1>3, InterruptExtends DEF AbandonRun
<1>4. CASE RecoverStaleTasks
  BY <1>4, SweepExtends DEF RecoverStaleTasks
<1>5. CASE \E w \in Workers, u \in Tasks : WorkerStep(w, u)
  <2>1. PICK w \in Workers, u \in Tasks : WorkerStep(w, u)
    BY <1>5
  <2>2. CASE LeaseTask(w, u)
    <3>1. Extends(ledger[t], SweptRows(t))
      BY SweepExtends
    <3>2. CASE t # u
      BY <2>2, <3>1, <3>2 DEF LeaseTask
    <3>3. CASE t = u
      <4>1. ledger'[t] = Append(SweptRows(t), OpenRow)
        BY <2>2, <3>3 DEF LeaseTask
      <4>2. SweptRows(t) \in Seq(AttemptRow)
        BY InterruptStaysSequence DEF SweptRows, RowTables
      <4>3. OpenRow \in AttemptRow
        BY DEF OpenRow, AttemptRow
      <4>4. \A i \in DOMAIN SweptRows(t) :
              i \in DOMAIN ledger'[t] /\ ledger'[t][i] = SweptRows(t)[i]
        BY <4>1, <4>2, <4>3
      <4> QED
        BY <3>1, <4>4 DEF Extends
    <3> QED
      BY <3>2, <3>3
  <2>3. CASE RenewTask(w, u)
    BY <1>1, <2>3 DEF RenewTask, vars
  <2>4. CASE \E closed \in Reports : RecordScanAttemptResult(w, u, closed)
    BY <2>4, ReportExtends DEF RecordScanAttemptResult
  <2>5. CASE CompleteTask(w, u)
    <3>1. CASE u \in ScanTasks
      BY <2>5, <3>1, ReportExtends DEF CompleteTask
    <3>2. CASE u \notin ScanTasks
      BY <1>1, <2>5, <3>2 DEF CompleteTask, FinishAttempt
    <3> QED
      BY <3>1, <3>2
  <2>6. CASE \E retry \in BOOLEAN : FailTask(w, u, retry)
    <3>1. PICK retry \in BOOLEAN : FailTask(w, u, retry)
      BY <2>6
    <3>2. CASE u \in ScanTasks
      BY <3>1, <3>2, ReportExtends DEF FailTask
    <3>3. CASE u \notin ScanTasks
      BY <1>1, <3>1, <3>3 DEF FailTask, FinishAttempt
    <3> QED
      BY <3>2, <3>3
  <2> QED
    BY <2>1, <2>2, <2>3, <2>4, <2>5, <2>6 DEF WorkerStep
<1> QED
  BY <1>1, <1>2, <1>3, <1>4, <1>5
     DEF Next, RunStep, vars, CreateRun, ResetFailedTasks, FinishRun, SupersedeTasks,
         EnqueueTask, LeaseExpires, RecordNetworkTaskUsage

\* Prior attempts are never overwritten, forgotten or reset.
THEOREM ClosedImmutable == Spec => ClosedAttemptsImmutable
<1>1. JournalInv /\ [Next]_vars =>
        [\A t \in ScanTasks : \A i \in DOMAIN ledger[t] :
           /\ i \in DOMAIN ledger'[t]
           /\ ledger[t][i].status # "running" => ledger'[t][i] = ledger[t][i]]_vars
  BY InvTables, LedgerExtends DEF Extends
<1> QED
  BY <1>1, JournalInvariant, PTL DEF Spec, ClosedAttemptsImmutable

(***************************************************************************)
(* The journal implements the queue.  Each journal operation is one action *)
(* of the queue or leaves the queue's state alone; only the last conjunct  *)
(* of QueueInv is needed beyond the journal's own invariant: a published   *)
(* run holds nothing a late lease or a sweep could still move.             *)
(***************************************************************************)
QueueInv ==
    /\ JournalInv
    /\ runStatus = "complete" => Publishable

\* A task taken back: it waits with a grant left, or is stopped.
TakenBack(row, row2) ==
    /\ row.status \in {"pending", "running", "failed"}
    /\ row2.attempts = row.attempts /\ row2.max = row.max
    /\ \/ row2.status = "pending" /\ row.attempts < row.max
       \/ row2.status = "failed"

LEMMA MappedRow ==
  ASSUME QueueInv, NEW t \in Tasks
  PROVE  /\ RowOK(tasks[t], runStatus) /\ tasks[t] \in TaskRow
         /\ tasks[t].attempts \in Nat /\ tasks[t].max \in Nat
         /\ tasks[t].status \in {"pending", "running", "failed"} <=>
              PhaseOf(tasks[t]) \in {"todo", "doing", "stopped"}
         /\ tasks[t].status \in {"pending", "running", "failed"} => runStatus # "complete"
         /\ PhaseOf(tasks[t]) \in Queue!Phases
<1>1. RowOK(tasks[t], runStatus)
  BY DEF QueueInv, JournalInv, ScanOK, Tasks
<1> QED
  BY <1>1 DEF RowOK, TaskRow, PhaseOf, TaskStatus, QueueInv, Publishable,
              Queue!Phases, Queue!Unfinished

LEMMA PhaseFacts ==
  ASSUME NEW row
  PROVE  /\ PhaseOf(row) = "todo" <=> row.status = "pending"
         /\ PhaseOf(row) = "doing" <=> row.status = "running"
         /\ PhaseOf(row) = "stopped" <=> row.status = "failed"
         /\ PhaseOf(row) \in Queue!Phases
  BY DEF PhaseOf, Queue!Phases, Queue!Unfinished

LEMMA MappedInit == Init => Queue!QueueInit
  BY DEF Init, Queue!QueueInit, RunOf, PhaseOf

\* A step that moves no row between phases is a stutter of the queue.
LEMMA Stutter ==
  ASSUME RunOf(runStatus') = RunOf(runStatus),
         \A t \in Tasks : /\ tasks'[t].status = tasks[t].status
                          /\ tasks'[t].outcome = tasks[t].outcome
                          /\ tasks'[t].attempts = tasks[t].attempts
                          /\ tasks'[t].max = tasks[t].max
  PROVE  UNCHANGED Queue!queueVars
<1>1. \A t \in Tasks : PhaseOf(tasks'[t]) = PhaseOf(tasks[t])
  BY DEF PhaseOf
<1> QED
  BY <1>1 DEF Queue!queueVars

\* What a resume and a sweep judge anew is taken back.
LEMMA DispositionTakesBack ==
  ASSUME NEW row \in TaskRow, NEW rows, NEW allow \in BOOLEAN,
         row.status \in {"pending", "running", "failed"},
         RowOK(ScanDisposition(row, rows, allow), "running")
  PROVE  TakenBack(row, ScanDisposition(row, rows, allow))
<1> DEFINE row2 == ScanDisposition(row, rows, allow)
<1>1. /\ row2.attempts = row.attempts /\ row2.max = row.max
      /\ row2.status \in {"pending", "failed"}
  BY DEF ScanDisposition, Released, TaskRow
<1>2. row2.status = "pending" => row2.attempts < row2.max
  BY DEF RowOK
<1> QED
  BY <1>1, <1>2 DEF TakenBack

LEMMA RecoverMaps ==
  ASSUME QueueInv, runStatus \in {"running", "failed"},
         runStatus' \in {"running", "failed"},
         \A t \in Tasks : tasks'[t] = tasks[t] \/ TakenBack(tasks[t], tasks'[t])
  PROVE  Queue!Recover
<1>1. ASSUME NEW t \in Tasks
      PROVE  /\ tasks'[t].attempts = tasks[t].attempts
             /\ tasks'[t].max = tasks[t].max
             /\ \/ PhaseOf(tasks'[t]) = PhaseOf(tasks[t])
                \/ /\ PhaseOf(tasks[t]) \in {"todo", "doing", "stopped"}
                   /\ \/ /\ PhaseOf(tasks'[t]) = "todo"
                         /\ tasks[t].attempts < tasks[t].max
                      \/ PhaseOf(tasks'[t]) = "stopped"
  BY <1>1, PhaseFacts DEF TakenBack
<1>2. \A t \in Tasks : PhaseOf(tasks'[t]) \in Queue!Phases
  BY PhaseFacts
<1> QED
  BY <1>1, <1>2 DEF Queue!Recover, Queue!WaitsOrStops, Queue!Unfinished, RunOf

LEMMA CreateMaps == CreateRun => Queue!Begin
  BY DEF CreateRun, Queue!Begin, RunOf

LEMMA EnqueueMaps ==
  ASSUME QueueInv, NEW t \in Tasks, runStatus = "running", EnqueueTask(t)
  PROVE  Queue!Submit(t)
<1>1. \A u \in Tasks : tasks'[u] = IF u = t THEN [tasks[t] EXCEPT !.status = "pending"]
                                   ELSE tasks[u]
  BY DEF EnqueueTask, QueueInv, JournalInv
<1>2. \A u \in Tasks : /\ tasks'[u].attempts = tasks[u].attempts
                       /\ tasks'[u].max = tasks[u].max
  BY <1>1, MappedRow DEF TaskRow
<1>3. /\ PhaseOf(tasks[t]) = "absent"
      /\ \A u \in Tasks : PhaseOf(tasks'[u]) = IF u = t THEN "todo" ELSE PhaseOf(tasks[u])
  BY <1>1, MappedRow DEF TaskRow, PhaseOf, EnqueueTask
<1> QED
  BY <1>2, <1>3 DEF Queue!Submit, EnqueueTask, RunOf

LEMMA SweptRow ==
  ASSUME QueueInv, NEW t \in Tasks
  PROVE  \/ SweptTask(t) = tasks[t]
         \/ TakenBack(tasks[t], SweptTask(t)) /\ tasks[t].status = "running"
<1> SUFFICES ASSUME Stale(t)
             PROVE  TakenBack(tasks[t], SweptTask(t)) /\ tasks[t].status = "running"
  BY DEF SweptTask
<1>1. /\ tasks[t].status = "running" /\ RowOK(tasks[t], runStatus)
      /\ tasks[t] \in TaskRow
  BY MappedRow DEF Stale
<1>2. CASE t \in ScanTasks
  <2>1. SweptTask(t) = ScanDisposition(tasks[t], SweptRows(t), FALSE)
    BY <1>2 DEF SweptTask
  <2>2. RowOK(SweptTask(t), runStatus) /\ runStatus \notin {"none", "abandoned"}
    BY <1>1, <1>2, SweepKeeps DEF QueueInv, ScanOK, RowOK
  <2>3. RowOK(SweptTask(t), "running")
    BY <2>2 DEF RowOK
  <2> QED
    BY <1>1, <2>1, <2>3, DispositionTakesBack
<1>3. CASE t \notin ScanTasks
  <2>1. \/ SweptTask(t) = Released(tasks[t], "pending") /\ tasks[t].attempts < tasks[t].max
        \/ SweptTask(t) = [Released(tasks[t], "failed") EXCEPT !.reviewed = FALSE]
    BY <1>3 DEF SweptTask
  <2> QED
    BY <1>1, <2>1 DEF TakenBack, Released, TaskRow
<1> QED
  BY <1>2, <1>3

LEMMA SweepMaps ==
  ASSUME QueueInv, RecoverStaleTasks PROVE Queue!Recover
<1>1. PICK t \in Tasks : Stale(t)
  BY DEF RecoverStaleTasks
<1>2. runStatus \in {"running", "failed"}
  BY <1>1, MappedRow DEF Stale, RowOK, QueueInv, JournalInv, RunStatus
<1>3. \A u \in Tasks : tasks'[u] = tasks[u] \/ TakenBack(tasks[u], tasks'[u])
  BY SweptRow DEF RecoverStaleTasks
<1> QED
  BY <1>2, <1>3, RecoverMaps DEF RecoverStaleTasks

LEMMA ResumeMaps ==
  ASSUME QueueInv, ResumeRun PROVE Queue!Recover
<1>1. ASSUME NEW t \in Tasks
      PROVE  tasks'[t] = tasks[t] \/ TakenBack(tasks[t], tasks'[t])
  <2>0. tasks[t] \in TaskRow
    BY MappedRow
  <2>1. CASE t \in ScanTasks /\ tasks[t].status \in {"pending", "running", "failed"}
    <3>1. tasks'[t] = ScanDisposition(tasks[t], InterruptOpenRows(ledger[t], TRUE), TRUE)
      BY <2>1 DEF ResumeRun
    <3>2. RowOK(tasks'[t], "running")
      BY <2>1, ResumeInv DEF QueueInv, JournalInv, ScanOK, ResumeRun
    <3> QED
      BY <2>0, <2>1, <3>1, <3>2, DispositionTakesBack
  <2>2. CASE t \notin ScanTasks /\ tasks[t].status \in {"running", "failed"}
    <3>1. PICK status \in {"pending", "failed"} :
            /\ tasks'[t] = Released(tasks[t], status)
            /\ status = "pending" => tasks[t].attempts < tasks[t].max
      BY <2>2 DEF ResumeRun
    <3> QED
      BY <2>0, <2>2, <3>1 DEF TakenBack, Released, TaskRow
  <2> QED
    BY <2>1, <2>2 DEF ResumeRun
<1> QED
  BY <1>1, RecoverMaps DEF ResumeRun

\* The lease of t is its grant; the sweep it starts with takes the others back.
LEMMA LeaseMaps ==
  ASSUME QueueInv, NEW w \in Workers, NEW t \in Tasks, LeaseTask(w, t)
  PROVE  Queue!Grant(t)
<1>1. SweptTask(t).status = "pending" /\ SweptTask(t).attempts < SweptTask(t).max
  BY DEF LeaseTask, Leasable, Tasks
<1>2. /\ SweptTask(t).attempts = tasks[t].attempts /\ SweptTask(t).max = tasks[t].max
      /\ tasks[t].status \in {"pending", "running"}
      /\ tasks[t] \in TaskRow /\ SweptTask(t) \in TaskRow
  BY <1>1, SweptRow, MappedRow, SweepKeeps
     DEF TakenBack, QueueInv, ScanOK, RowOK, Tasks
<1>3. runStatus \in {"running", "failed"} /\ runStatus' = runStatus
  BY <1>2, MappedRow DEF LeaseTask, RowOK, QueueInv, JournalInv, RunStatus
<1>4. ASSUME NEW u \in Tasks
      PROVE  /\ tasks'[u].attempts = IF u = t THEN tasks[t].attempts + 1
                                     ELSE tasks[u].attempts
             /\ tasks'[u].max = tasks[u].max
             /\ u = t => tasks'[u].status = "running"
             /\ u # t => tasks'[u] = tasks[u] \/
                         (TakenBack(tasks[u], tasks'[u]) /\ tasks[u].status = "running")
  <2>1. CASE u = t
    <3>1. tasks'[u] = Leased(SweptTask(t), w)
      BY <2>1 DEF LeaseTask
    <3> QED
      BY <1>2, <2>1, <3>1 DEF Leased, TaskRow
  <2>2. CASE u # t
    <3>1. tasks'[u] = SweptTask(u)
      BY <2>2 DEF LeaseTask
    <3> QED
      BY <2>2, <3>1, SweptRow DEF TakenBack
  <2> QED
    BY <2>1, <2>2
<1>5. /\ PhaseOf(tasks[t]) \in {"todo", "doing"}
      /\ PhaseOf(tasks'[t]) = "doing"
      /\ \A u \in Tasks : PhaseOf(tasks'[u]) \in Queue!Phases
      /\ \A u \in Tasks \ {t} :
           \/ PhaseOf(tasks'[u]) = PhaseOf(tasks[u])
           \/ /\ PhaseOf(tasks[u]) = "doing"
              /\ \/ PhaseOf(tasks'[u]) = "todo" /\ tasks[u].attempts < tasks[u].max
                 \/ PhaseOf(tasks'[u]) = "stopped"
  BY <1>2, <1>4, PhaseFacts DEF TakenBack
<1>6. /\ tasks[t].attempts < tasks[t].max
      /\ \A u \in Tasks : tasks'[u].max = tasks[u].max
      /\ \A u \in Tasks : tasks'[u].attempts = IF u = t THEN tasks[t].attempts + 1
                                               ELSE tasks[u].attempts
  BY <1>1, <1>2, <1>4
<1> QED
  BY <1>3, <1>5, <1>6 DEF Queue!Grant, Queue!WaitsOrStops, RunOf

\* A report that ends the lease answers the grant.
LEMMA AnswerMaps ==
  ASSUME QueueInv, NEW w, NEW t \in Tasks, Holds(w, t), NEW row2,
         tasks' = [tasks EXCEPT ![t] = row2], runStatus' = runStatus,
         row2.attempts = tasks[t].attempts, row2.max = tasks[t].max,
         \/ row2.status = "complete" /\ row2.outcome = "verdict"
         \/ row2.status = "pending" /\ tasks[t].attempts < tasks[t].max
         \/ row2.status = "failed"
  PROVE  Queue!Answer(t)
<1>1. \A u \in Tasks : tasks'[u] = IF u = t THEN row2 ELSE tasks[u]
  BY DEF QueueInv, JournalInv
<1>2. /\ \A u \in Tasks : tasks'[u].attempts = tasks[u].attempts
      /\ \A u \in Tasks : tasks'[u].max = tasks[u].max
      /\ \A u \in Tasks : PhaseOf(tasks'[u]) = IF u = t THEN PhaseOf(row2)
                                               ELSE PhaseOf(tasks[u])
  BY <1>1
<1>3. /\ PhaseOf(tasks[t]) = "doing"
      /\ PhaseOf(row2) \in {"done", "todo", "stopped"}
      /\ PhaseOf(row2) = "todo" => tasks[t].attempts < tasks[t].max
  BY DEF PhaseOf, Holds
<1>4. RunOf(runStatus) = "open"
  BY HoldsFacts, MappedRow DEF RunOf, QueueInv, Holds, RunStatus
<1> QED
  BY <1>2, <1>3, <1>4 DEF Queue!Answer

LEMMA CompleteMaps ==
  ASSUME QueueInv, NEW w \in Workers, NEW t \in Tasks, CompleteTask(w, t)
  PROVE  Queue!Answer(t)
<1> DEFINE row2 == [Released(tasks[t], "complete") EXCEPT
                      !.reviewed = FALSE, !.outcome = "verdict"]
<1>1. tasks[t] \in TaskRow
  BY MappedRow
<1>2. /\ row2.attempts = tasks[t].attempts /\ row2.max = tasks[t].max
      /\ row2.status = "complete" /\ row2.outcome = "verdict"
  BY <1>1 DEF Released, TaskRow
<1>3. Holds(w, t) /\ tasks' = [tasks EXCEPT ![t] = row2] /\ runStatus' = runStatus
  BY DEF CompleteTask
<1> HIDE DEF row2
<1> QED
  BY <1>2, <1>3, AnswerMaps

LEMMA FailMaps ==
  ASSUME QueueInv, NEW w \in Workers, NEW t \in Tasks, NEW retry \in BOOLEAN,
         FailTask(w, t, retry)
  PROVE  Queue!Answer(t)
<1> DEFINE status == IF retry /\ tasks[t].attempts < tasks[t].max
                     THEN "pending" ELSE "failed"
           row2 == [Released(tasks[t], status) EXCEPT !.reviewed = FALSE]
<1>1. tasks[t] \in TaskRow
  BY MappedRow
<1>2. \/ status = "pending" /\ tasks[t].attempts < tasks[t].max
      \/ status = "failed"
  OBVIOUS
<1>3. Holds(w, t) /\ tasks' = [tasks EXCEPT ![t] = row2] /\ runStatus' = runStatus
  BY DEF FailTask
<1> HIDE DEF status
<1>4. /\ row2.attempts = tasks[t].attempts /\ row2.max = tasks[t].max
      /\ row2.status = status
  BY <1>1 DEF Released, TaskRow
<1> HIDE DEF row2
<1> QED
  BY <1>2, <1>3, <1>4, AnswerMaps

LEMMA AbandonMaps ==
  ASSUME QueueInv, AbandonRun PROVE Queue!Abandon
<1>1. ASSUME NEW t \in Tasks
      PROVE  /\ tasks'[t].attempts = tasks[t].attempts
             /\ tasks'[t].max = tasks[t].max
             /\ PhaseOf(tasks'[t]) = IF PhaseOf(tasks[t]) \in Queue!Unfinished
                                     THEN "stopped" ELSE PhaseOf(tasks[t])
  <2>1. tasks[t] \in TaskRow
    BY MappedRow
  <2>2. CASE tasks[t].status \in {"pending", "running", "failed"}
    <3>1. tasks'[t] = [Released(tasks[t], "failed") EXCEPT !.reviewed = FALSE]
      BY <2>2 DEF AbandonRun
    <3> QED
      BY <2>1, <2>2, <3>1 DEF Released, TaskRow, PhaseOf, Queue!Unfinished
  <2>3. CASE tasks[t].status \notin {"pending", "running", "failed"}
    <3>1. tasks'[t] = tasks[t]
      BY <2>3 DEF AbandonRun
    <3> QED
      BY <2>3, <3>1 DEF PhaseOf, Queue!Unfinished
  <2> QED
    BY <2>2, <2>3
<1>2. RunOf(runStatus) = "open" /\ RunOf(runStatus') = "abandoned"
  BY DEF AbandonRun, RunOf
<1> QED
  BY <1>1, <1>2 DEF Queue!Abandon

LEMMA ResetMaps ==
  ASSUME QueueInv, ResetFailedTasks PROVE Queue!Review
<1>1. ASSUME NEW t \in Tasks
      PROVE  /\ tasks'[t].attempts = tasks[t].attempts
             /\ tasks'[t].max = IF PhaseOf(tasks[t]) = "stopped"
                                   /\ tasks[t].max <= tasks[t].attempts
                                THEN tasks[t].attempts + 1 ELSE tasks[t].max
             /\ PhaseOf(tasks'[t]) = IF PhaseOf(tasks[t]) = "stopped"
                                     THEN "todo" ELSE PhaseOf(tasks[t])
  <2>1. tasks[t] \in TaskRow
    BY MappedRow
  <2>2. CASE tasks[t].status = "failed"
    <3> DEFINE max2 == IF tasks[t].max <= tasks[t].attempts
                       THEN tasks[t].attempts + 1 ELSE tasks[t].max
    <3>1. tasks'[t] = [Released(tasks[t], "pending") EXCEPT !.max = max2, !.reviewed = TRUE]
      BY <2>2 DEF ResetFailedTasks
    <3> HIDE DEF max2
    <3>2. /\ tasks'[t].attempts = tasks[t].attempts /\ tasks'[t].max = max2
          /\ tasks'[t].status = "pending"
      BY <2>1, <3>1 DEF Released, TaskRow
    <3> QED
      BY <2>2, <3>2 DEF PhaseOf, max2
  <2>3. CASE tasks[t].status # "failed"
    <3>1. tasks'[t] = tasks[t]
      BY <2>3 DEF ResetFailedTasks
    <3> QED
      BY <2>3, <3>1 DEF PhaseOf
  <2> QED
    BY <2>2, <2>3
<1>2. RunOf(runStatus) = "open" /\ RunOf(runStatus') = "open"
  BY DEF ResetFailedTasks, RunOf
<1> QED
  BY <1>1, <1>2 DEF Queue!Review

LEMMA SupersedeMaps ==
  ASSUME QueueInv, runStatus = "running", NEW stage \in {ScanTasks, NetTasks},
         NEW keep \in SUBSET stage, SupersedeTasks(stage, keep)
  PROVE  \E dropped \in SUBSET Tasks : Queue!Drop(dropped)
<1> DEFINE dropped == {t \in stage \ keep :
                         tasks[t].status \in {"pending", "running", "failed"}}
<1>1. dropped \in SUBSET Tasks
  BY DEF Tasks
<1>2. dropped \subseteq {t \in Tasks : PhaseOf(tasks[t]) \in Queue!Unfinished}
  BY <1>1 DEF PhaseOf, Queue!Unfinished
<1>3. ASSUME NEW t \in Tasks
      PROVE  /\ tasks'[t].attempts = tasks[t].attempts
             /\ tasks'[t].max = tasks[t].max
             /\ PhaseOf(tasks'[t]) = IF t \in dropped THEN "dropped"
                                     ELSE PhaseOf(tasks[t])
  <2>1. tasks[t] \in TaskRow
    BY MappedRow
  <2>2. CASE t \in dropped
    <3>1. tasks'[t] = [Released(tasks[t], "complete") EXCEPT !.outcome = "superseded"]
      BY <2>2 DEF SupersedeTasks
    <3> QED
      BY <2>1, <2>2, <3>1 DEF Released, TaskRow, PhaseOf
  <2>3. CASE t \notin dropped
    <3>1. tasks'[t] = tasks[t]
      BY <2>3 DEF SupersedeTasks
    <3> QED
      BY <2>3, <3>1
  <2> QED
    BY <2>2, <2>3
<1>4. RunOf(runStatus) = "open" /\ runStatus' = runStatus
  BY DEF SupersedeTasks, RunOf
<1> HIDE DEF dropped
<1>5. Queue!Drop(dropped)
  BY <1>2, <1>3, <1>4 DEF Queue!Drop
<1> QED
  BY <1>1, <1>5

LEMMA PublishMaps ==
  ASSUME QueueInv, runStatus = "running", FinishRun("complete")
  PROVE  Queue!Publish
<1>1. \A t \in Tasks : PhaseOf(tasks[t]) \notin Queue!Unfinished
  BY DEF FinishRun, Publishable, PhaseOf, Queue!Unfinished
<1> QED
  BY <1>1 DEF FinishRun, Queue!Publish, RunOf

--------------------------------------------------------------------------------

\* Only FinishRun completes a run, and nothing of a complete run is unfinished.
LEMMA QueueInvNext == QueueInv /\ [Next]_vars => QueueInv'
<1> SUFFICES ASSUME QueueInv, [Next]_vars, runStatus' = "complete"
             PROVE  Publishable'
  BY JournalNext DEF QueueInv
<1>1. CASE runStatus # "complete"
  <2>1. FinishRun("complete")
    BY <1>1 DEF Next, RunStep, CreateRun, ResumeRun, AbandonRun, ResetFailedTasks, FinishRun,
                SupersedeTasks, EnqueueTask, RecoverStaleTasks, LeaseExpires,
                RecordNetworkTaskUsage, WorkerStep, LeaseTask, RenewTask,
                RecordScanAttemptResult, CompleteTask, FailTask, vars
  <2> QED
    BY <2>1 DEF FinishRun, Publishable
<1>2. CASE runStatus = "complete"
  <2>1. \A t \in Tasks : tasks[t].status \in {"absent", "complete"}
    BY <1>2 DEF QueueInv, Publishable
  <2>2. \A t \in Tasks : SweptTask(t) = tasks[t]
    BY <2>1 DEF SweptTask, Stale
  <2>3. tasks' = tasks
    BY <1>2, <2>1, <2>2
       DEF Next, RunStep, CreateRun, ResumeRun, AbandonRun, ResetFailedTasks,
           RecoverStaleTasks, Stale, LeaseExpires, RecordNetworkTaskUsage, WorkerStep,
           LeaseTask, Leasable, Holds, Tasks, RenewTask, RecordScanAttemptResult,
           CompleteTask, FailTask, vars
  <2> QED
    BY <2>1, <2>3 DEF Publishable
<1> QED
  BY <1>1, <1>2

LEMMA StepMaps ==
  ASSUME QueueInv, [Next]_vars
  PROVE  Queue!QueueNext \/ UNCHANGED Queue!queueVars
<1> USE DEF Queue!QueueNext
<1>1. CASE CreateRun
  BY <1>1, CreateMaps
<1>2. CASE ResumeRun
  BY <1>2, ResumeMaps
<1>3. CASE AbandonRun
  BY <1>3, AbandonMaps
<1>4. CASE ResetFailedTasks
  BY <1>4, ResetMaps
<1>5. CASE runStatus = "running" /\ \E status \in {"complete", "failed"} : FinishRun(status)
  <2>1. CASE FinishRun("complete")
    BY <1>5, <2>1, PublishMaps
  <2>2. CASE FinishRun("failed")
    BY <1>5, <2>2, Stutter DEF FinishRun, RunOf
  <2> QED
    BY <1>5, <2>1, <2>2
<1>6. CASE /\ runStatus = "running"
           /\ \E stage \in {ScanTasks, NetTasks} :
                \E keep \in SUBSET stage : SupersedeTasks(stage, keep)
  BY <1>6, SupersedeMaps
<1>7. CASE runStatus = "running" /\ \E t \in Tasks : EnqueueTask(t)
  BY <1>7, EnqueueMaps
<1>8. CASE RecoverStaleTasks
  BY <1>8, SweepMaps
<1>9. CASE \E t \in Tasks : LeaseExpires(t)
  <2>1. PICK u \in Tasks : LeaseExpires(u)
    BY <1>9
  <2>2. \A t \in Tasks : tasks'[t] = IF t = u THEN [tasks[u] EXCEPT !.live = FALSE]
                                     ELSE tasks[t]
    BY <2>1 DEF LeaseExpires, QueueInv, JournalInv
  <2>3. \A t \in Tasks : /\ tasks'[t].status = tasks[t].status
                         /\ tasks'[t].outcome = tasks[t].outcome
                         /\ tasks'[t].attempts = tasks[t].attempts
                         /\ tasks'[t].max = tasks[t].max
    BY <2>2, MappedRow DEF TaskRow
  <2> QED
    BY <2>1, <2>3, Stutter DEF LeaseExpires
<1>10. CASE \E t \in NetTasks : RecordNetworkTaskUsage(t, tasks[t].attempts)
  BY <1>10, Stutter DEF RecordNetworkTaskUsage
<1>11. CASE \E w \in Workers, t \in Tasks : WorkerStep(w, t)
  <2>1. PICK w \in Workers, t \in Tasks : WorkerStep(w, t)
    BY <1>11
  <2>2. CASE LeaseTask(w, t)
    BY <2>2, LeaseMaps
  <2>3. CASE RenewTask(w, t)
    BY <2>3, Stutter DEF RenewTask, vars
  <2>4. CASE \E closed \in Reports : RecordScanAttemptResult(w, t, closed)
    BY <2>4, Stutter DEF RecordScanAttemptResult
  <2>5. CASE CompleteTask(w, t)
    BY <2>5, CompleteMaps
  <2>6. CASE \E retry \in BOOLEAN : FailTask(w, t, retry)
    BY <2>6, FailMaps
  <2> QED
    BY <2>1, <2>2, <2>3, <2>4, <2>5, <2>6 DEF WorkerStep
<1>12. CASE UNCHANGED vars
  BY <1>12, Stutter DEF vars
<1> QED
  BY <1>1, <1>2, <1>3, <1>4, <1>5, <1>6, <1>7, <1>8, <1>9, <1>10, <1>11, <1>12
     DEF Next, RunStep

\* The journal implements the queue: its initial state is the queue's, and every
\* operation of collector/state.py is a step of the queue or invisible to it.
THEOREM JournalImplementsQueue == Spec => ImplementsQueue
<1>1. Init => QueueInv
  BY InitInv DEF QueueInv, Init
<1>2. QueueInv /\ [Next]_vars => [Queue!QueueNext]_(Queue!queueVars)
  BY StepMaps
<1> QED
  BY <1>1, <1>2, MappedInit, QueueInvNext, PTL
     DEF Spec, ImplementsQueue, Queue!QueueSpec

================================================================================
