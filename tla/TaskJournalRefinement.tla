------------------------- MODULE TaskJournalRefinement --------------------------
(* The journal of TaskJournal implements the queue of WorkQueue. *)
EXTENDS TaskJournal

PhaseOf(row) ==
    IF row.status = "pending" THEN "todo"
    ELSE IF row.status = "running" THEN "doing"
    ELSE IF row.status = "failed" THEN "stopped"
    ELSE IF row.status = "complete"
         THEN IF row.outcome = "verdict" THEN "done" ELSE "dropped"
    ELSE "absent"

RunOf(status) ==
    IF status \in {"running", "failed"} THEN "open"
    ELSE IF status = "complete" THEN "published"
    ELSE status

Queue == INSTANCE WorkQueue WITH
    Tasks <- Tasks, Limit <- MaxAttempts,
    run <- RunOf(runStatus),
    phase <- [t \in Tasks |-> PhaseOf(tasks[t])],
    grants <- [t \in Tasks |-> tasks[t].attempts],
    allowance <- [t \in Tasks |-> tasks[t].max]

\* Whatever leases expire, workers report late and invocations resume, the journal
\* is a queue whose grants are bounded, whose waiting tasks can be granted, whose
\* results are final, and whose closed runs never move again.
ImplementsQueue == Queue!QueueSpec

================================================================================
