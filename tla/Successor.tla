------------------------------- MODULE Successor -------------------------------
(***************************************************************************)
(* Audited successors (collector/successor.py, collector/state.py,          *)
(* collector/pipeline.py).  A run that cannot be resumed is abandoned, the  *)
(* code is repaired under review, and a successor run inherits what the     *)
(* repair left valid: certified discovery results, the metadata epoch, the  *)
(* verdicts of completed scans.  Nothing may be inherited that the repaired  *)
(* code would not produce, and whatever the lineage spent on requests and   *)
(* scans stays charged to its budgets.                                      *)
(*                                                                         *)
(* The coordinator and the preparation hold the run lock in turn and may    *)
(* die between any two transactions.  A repair is the set of surfaces it    *)
(* changes; digests, paths and AST nodes are the audit's way to compute it. *)
(* Left out: the wall clock, byte counts, disk and the candidate-policy     *)
(* repair.  The metadata epoch is one batch of one point.                   *)
(***************************************************************************)
EXTENDS Naturals, Sequences, FiniteSets, FiniteSetsExt, Functions

CONSTANTS
    Queries,        \* discovery tasks by key: [library, source, broad]
    Targets,        \* repositories the certified libraries have scanned
    Repairs,        \* sets of surfaces one reviewed commit changes
    Incident,       \* position in the lineage of the reviewed interrupted run
    NoRun,          \* no predecessor in use
    MaxRequests,    \* hard budget of requests to a source
    MaxPoints,      \* hard budget of GraphQL points
    MaxFetches,     \* hard budget of scan dispatches
    MaxTries,       \* attempts of one task
    MaxHops,        \* bound: successors
    MaxReported     \* bound: requests the operator reports for a transport successor

VARIABLES
    latest,     \* newest run: [hop, kind, open, tasks, history, past, source, ledger, seeded,
                \* early]; ledger: its attempts were recorded one by one; early (history): a cohort of the lineage was started, or followed by
                \* another, before it was seeded
    query,      \* discovery-query tasks of that run
    metadata,   \* its metadata epoch, a task as well
    attempts,   \* its scan tasks and their attempt ledger
    rows,       \* scan_results: [target, detector, verdict, at]
    forebear,   \* what the newest run may still inherit: [run, query, attempts]
    doing,      \* what the holder of the run lock does
    changed,    \* surfaces changed since the source of the newest run
    source,     \* the checkout: [task, epoch, detector, verdict]
    sent,       \* history: requests sent and points spent that the lineage answers for
    dispatched  \* history: scans dispatched that the lineage answers for

lineageVars == <<latest, query, metadata, attempts, rows, forebear, doing, changed,
                 source, sent, dispatched>>

QueryTasks == DOMAIN Queries

\* Discovery asks search services; GraphQL is the metadata stage's.
ASSUME QueriesAssumption ==
    /\ IsFiniteSet(QueryTasks) /\ QueryTasks \subseteq Nat
    /\ \A i \in QueryTasks : Queries[i].source /= "graphql"

ASSUME TargetsAssumption == IsFiniteSet(Targets)

Services == {Queries[i].source : i \in QueryTasks} \cup {"graphql"}
Limit(s) == IF s = "graphql" THEN MaxPoints ELSE MaxRequests
Required(i) == Queries[i].source = "github"
LibrariesOf(tasks) == {Queries[i].library : i \in tasks}

Recoveries == {"identity", "control", "runtime", "reuse", "budget", "checkpoint"}
Cohorts == {"partial", "metadata"} \cup Recoveries

Absent == [status |-> "absent", tries |-> 0, inherited |-> 0, exact |-> FALSE, made |-> 0]
Unscanned == [status |-> "none", exact |-> 0, unknown |-> 0]
NoCharge == [s \in Services |-> 0]
NoScans == [exact |-> 0, unknown |-> 0]

Current == [run |-> latest, query |-> query, metadata |-> metadata, attempts |-> attempts]

--------------------------------------------------------------------------------
(* What a run answers for. *)

\* Requests: its historical charge, its own attempts, and what it inherited.
ChargeOf(task) == task.tries + task.inherited

ChargedOf(p, s) ==
    p.run.history[s] +
        IF s = "graphql" THEN ChargeOf(p.metadata)
        ELSE SumFunctionOnSet([i \in QueryTasks |-> ChargeOf(p.query[i])],
                              {i \in QueryTasks : Queries[i].source = s})

Charged(s) == ChargedOf(Current, s)

\* Scan attempts: the rows of the ledger, after those its predecessors left.
HistoricalScans(run) == run.past

\* An attempt older than the ledger has its result or, without one, a conservative bound.
Conservative(p, t) == IF p.run.ledger THEN 0 ELSE p.attempts[t].unknown

DirectScans(p) ==
    [exact |-> SumFunction([t \in Targets |-> p.attempts[t].exact + Conservative(p, t)]),
     unknown |-> SumFunction([t \in Targets |-> p.attempts[t].unknown - Conservative(p, t)])]

CombinedScans(p) ==
    [usage \in {"exact", "unknown"} |-> HistoricalScans(p.run)[usage] + DirectScans(p)[usage]]

RunningScans == {t \in Targets : attempts[t].status = "running"}

WithinFetches(scans, planned) == scans.exact + scans.unknown + planned =< MaxFetches

\* Scans that have no verdict under the detectors of the checkout.
Scanned(t) == \E r \in rows : r.target = t /\ r.detector = source.detector

\* The owner's policy: attempts whose usage is unknown are charged by their number, for
\* one continuation of the reviewed interrupted run.
UnknownIsAccepted(p, kind) ==
    kind = "checkpoint" /\ p.run.hop = Incident /\ HistoricalScans(p.run).unknown = 0

\* Every dispatch of the lineage has a proof.
ProofOfUsage(p, kind) == CombinedScans(p).unknown = 0 \/ UnknownIsAccepted(p, kind)

--------------------------------------------------------------------------------
(* What the reviewed commit changed. *)

\* Surfaces each kind of successor was reviewed for.  "task" and "epoch" are the parts of
\* the pipeline that execute a discovery task and a metadata batch, "pipeline" the rest.
Surfaces ==
    [scope |-> {"packs"}, transport |-> {"transport"},
     partial |-> {"pipeline"}, metadata |-> {"github", "pipeline"},
     identity |-> {"pipeline", "scanner"}, control |-> {"pipeline"}, runtime |-> {"scanner"},
     reuse |-> {"cli"}, budget |-> {"cli"}, checkpoint |-> {"pipeline", "scanner"}]

NetworkSources == {"transport", "github", "pipeline"}

\* The files a network task depends on differ where the repair was reviewed ...
ReviewedSources(kind) ==
    changed \cap NetworkSources = Surfaces[kind] \cap NetworkSources

\* ... so do the others ...
ReviewedRest(kind) ==
    changed \ (NetworkSources \cup {"task", "epoch"}) = Surfaces[kind] \ NetworkSources

\* ... and within the pipeline the syntax nodes that execute a task are the same; those of
\* a metadata batch where the epoch is inherited.
TaskIsFrozen == "task" \notin changed
EpochIsFrozen(kind) == kind \in Recoveries => "epoch" \notin changed

SourceAudit(kind) ==
    ReviewedSources(kind) /\ ReviewedRest(kind) /\ TaskIsFrozen /\ EpochIsFrozen(kind)

\* Query packs alone; HTTP transport and pacing alone.
ScopeAudit == changed = Surfaces.scope
TransportAudit == changed = Surfaces.transport

\* The detectors follow: a recovery invalidates the scans it repairs, any other cohort
\* successor freezes them.
FingerprintsFollow(p, kind) ==
    kind \in {"identity", "runtime", "checkpoint"} <=> source.detector /= p.run.source.detector

\* Surfaces under which an interrupted run may still be resumed.
Resumable == changed \subseteq {"cli"}

--------------------------------------------------------------------------------
(* What a successor inherits. *)

\* A required result is complete, uncapped and without gaps; an advisory one ended.
Certifiable(i, task) ==
    /\ task.status = "complete"
    /\ Required(i) => task.exact

\* A scope reduction drops broad queries ...
ReducedScope(p) == {i \in p.run.tasks : ~Queries[i].broad}

\* ... and a cohort keeps the libraries whose whole discovery completed.
CompleteLibraries(p) ==
    {l \in LibrariesOf(p.run.tasks) :
        \A i \in p.run.tasks : Queries[i].library = l => p.query[i].status = "complete"}

CertifiedCohort(p) == {i \in p.run.tasks : Queries[i].library \in CompleteLibraries(p)}

CohortDerives(p) ==
    /\ \A i \in p.run.tasks : p.query[i].status /= "absent"
    /\ CertifiedCohort(p) /= {}
    /\ \A i \in CertifiedCohort(p) : Certifiable(i, p.query[i])
    /\ IF p.run.kind \in Cohorts
       THEN CertifiedCohort(p) = p.run.tasks
       ELSE CompleteLibraries(p) /= LibrariesOf(p.run.tasks)

\* Every metadata batch ended, and its results bind to the certified candidates.
BatchIsCertified(batch) == batch.status = "complete"
MetadataIsCertified(p) == BatchIsCertified(p.metadata)

\* The charge of the predecessor; the points of one that is no cohort are not asked for.
PredecessorCharge(p, kind) ==
    [s \in Services |-> IF kind = "partial" /\ s = "graphql" THEN 0 ELSE ChargedOf(p, s)]

\* Defect: the whole charge, what is inherited included.
WholeCharge(p, tasks, kind) == PredecessorCharge(p, kind)

\* The part that no inherited result carries.
ResidualCharge(p, tasks, kind) ==
    [s \in Services |->
        PredecessorCharge(p, kind)[s] -
            IF s = "graphql" THEN IF kind \in Recoveries THEN 1 ELSE 0
            ELSE Cardinality({i \in tasks : Queries[i].source = s})]

Inheritable ==
    IF latest.kind \in Cohorts THEN latest.tasks
    ELSE {i \in latest.tasks : Certifiable(i, forebear.query[i])}

\* Completed scans of the interrupted run whose verdict the repaired scanner repeats:
\* one attempt, one row under the old detector, and the same reading of every notebook.
Completed(p) == {t \in Targets : p.attempts[t].status = "complete"}
ResultRows(p, t) == {r \in rows : r.target = t /\ r.at = p.run.hop}

CheckpointOfRows(p) ==
    /\ p.run.hop = Incident
    /\ Completed(p) /= {}
    /\ \A t \in Completed(p) :
        /\ p.attempts[t].exact = 1 /\ p.attempts[t].unknown = 0
        /\ Cardinality(ResultRows(p, t)) = 1
        /\ \A r \in ResultRows(p, t) : r.detector = p.run.source.detector

SameReading(p, t) == source.verdict[t] = p.run.source.verdict[t]

CheckpointIsCertified(p) == CheckpointOfRows(p) /\ \A t \in Completed(p) : SameReading(p, t)

\* The scans the successor would plan fit the budget of the lineage.
ToScan == {t \in Targets : ~Scanned(t)}
RecoveryScans(p, kind) == ToScan \ (IF kind = "checkpoint" THEN Completed(p) ELSE {})

Preflight(p, kind) ==
    WithinFetches(CombinedScans(p),
                  Cardinality(IF kind \in Recoveries THEN RecoveryScans(p, kind) ELSE ToScan))

MayPrepareCohort(p, kind) ==
    /\ kind = "partial" <=> p.run.kind \notin Cohorts
    /\ kind \in {"control", "reuse", "budget"} => Completed(p) = {}
    /\ kind = "checkpoint" => CheckpointIsCertified(p)
    /\ SourceAudit(kind)
    /\ FingerprintsFollow(p, kind)
    /\ ProofOfUsage(p, kind)
    /\ CohortDerives(p)
    /\ kind \in Recoveries => MetadataIsCertified(p)
    /\ \A s \in Services : PredecessorCharge(p, kind)[s] =< Limit(s)
    /\ Preflight(p, kind)

--------------------------------------------------------------------------------
(* Preparation of a successor: the new run, then its inheritance, one transaction *)
(* after another.                                                                  *)

FirstStep(kind) == IF kind = "checkpoint" THEN "materializing" ELSE "enqueuing"

\* All the preparation still reads of the predecessor.
Legacy(kind, tasks) ==
    [query |-> [i \in QueryTasks |->
         IF i \in tasks /\ Certifiable(i, query[i])
         THEN [query[i] EXCEPT !.tries = 0, !.inherited = 1] ELSE Absent],
     metadata |-> IF kind \in Recoveries
                  THEN [metadata EXCEPT !.tries = 0, !.inherited = 1] ELSE Absent,
     run |-> IF kind = "checkpoint" THEN latest ELSE NoRun,
     attempts |-> IF kind = "checkpoint" THEN attempts ELSE NoRun]

\* The predecessor is abandoned and the newest run.
CreateSuccessor(kind, tasks, history, past) ==
    /\ doing = "idle" /\ ~latest.open /\ latest.hop < MaxHops
    /\ latest' = [hop |-> latest.hop + 1, kind |-> kind, open |-> TRUE, tasks |-> tasks,
                  history |-> history, past |-> past, source |-> source, ledger |-> TRUE,
                  seeded |-> FALSE,
                  early |-> kind \in Cohorts /\ (latest.early \/ ~latest.seeded)]
    /\ forebear' = Legacy(kind, tasks)
    /\ query' = [i \in QueryTasks |-> Absent]
    /\ metadata' = Absent
    /\ attempts' = [t \in Targets |-> Unscanned]
    /\ changed' = {}
    /\ doing' = FirstStep(kind)
    /\ UNCHANGED <<rows, source>>

\* Broad queries of one library are dropped; the charge of the predecessor is not kept.
PrepareScopeReduction ==
    /\ latest.kind \notin Cohorts
    /\ ScopeAudit
    /\ \A i \in latest.tasks : query[i].status /= "absent"
    /\ ReducedScope(Current) /= latest.tasks
    /\ CreateSuccessor("scope", ReducedScope(Current), NoCharge, NoScans)
    /\ sent' = NoCharge /\ dispatched' = 0

\* The charge is the one the operator reports.
PrepareTransportPolicy ==
    /\ latest.kind \notin Cohorts
    /\ TransportAudit
    /\ \A i \in latest.tasks : query[i].status /= "absent"
    /\ \E reported \in 0..MaxReported :
        LET history == [NoCharge EXCEPT !["github"] = reported]
        IN  /\ CreateSuccessor("transport", latest.tasks, history, NoScans)
            /\ sent' = history /\ dispatched' = 0

PrepareCohort ==
    \E kind \in Cohorts :
        /\ MayPrepareCohort(Current, kind)
        /\ CreateSuccessor(kind, CertifiedCohort(Current),
                           ResidualCharge(Current, CertifiedCohort(Current), kind),
                           CombinedScans(Current))
        /\ sent' = IF kind = "partial" THEN [sent EXCEPT !["graphql"] = 0] ELSE sent
    /\ UNCHANGED dispatched

\* The same command finds the run it created, as long as the audit and the preflight
\* it recorded come out the same.
RetryPreparation ==
    /\ doing = "idle" /\ latest.open /\ forebear /= NoRun
    /\ changed = {}
    /\ latest.kind \in Cohorts => attempts = [t \in Targets |-> Unscanned]
    /\ latest.kind = "checkpoint" => CheckpointIsCertified(forebear)
    /\ doing' = FirstStep(latest.kind)
    /\ UNCHANGED <<latest, query, metadata, attempts, rows, forebear, changed, source, sent,
                   dispatched>>

\* Certified rows are copied under the new detectors, all of them at once.
MaterializeRows ==
    /\ doing = "materializing"
    /\ rows' = rows \cup
         {[r EXCEPT !.detector = source.detector] :
             r \in UNION {ResultRows(forebear, t) : t \in Completed(forebear)}}
    /\ doing' = "enqueuing"
    /\ UNCHANGED <<latest, query, metadata, attempts, forebear, changed, source, sent,
                   dispatched>>

Enqueued == [i \in QueryTasks |->
    IF i \in latest.tasks /\ query[i].status = "absent"
    THEN [query[i] EXCEPT !.status = "pending"] ELSE query[i]]

EnqueueInherited ==
    /\ doing = "enqueuing"
    /\ query' = Enqueued
    /\ doing' = "inheriting"
    /\ UNCHANGED <<latest, metadata, attempts, rows, forebear, changed, source, sent,
                   dispatched>>

\* Results are inherited in the order of their keys; a task that was attempted in the
\* meantime refuses.
InheritTask ==
    /\ doing = "inheriting"
    /\ LET due == {i \in Inheritable : query[i].inherited = 0}
           i == Min(due)
           s == Queries[i].source
       IN  /\ due /= {}
           /\ query[i].status = "pending" /\ query[i].tries = 0
           /\ query' = [query EXCEPT ![i] = forebear.query[i]]
           /\ sent' = IF latest.kind \in Cohorts THEN sent ELSE [sent EXCEPT ![s] = @ + 1]
    /\ UNCHANGED <<latest, metadata, attempts, rows, forebear, doing, changed, source,
                   dispatched>>

DiscoveryInherited == \A i \in Inheritable : query[i].inherited = 1

InheritMetadata ==
    /\ doing = "inheriting"
    /\ DiscoveryInherited
    /\ latest.kind \in Recoveries /\ metadata = Absent
    /\ metadata' = forebear.metadata
    /\ UNCHANGED <<latest, query, attempts, rows, forebear, doing, changed, source, sent,
                   dispatched>>

FinishPreparation ==
    /\ doing = "inheriting"
    /\ DiscoveryInherited
    /\ latest.kind \in Recoveries => metadata.inherited = 1
    /\ \A s \in Services : Charged(s) =< Limit(s)
    /\ latest' = [latest EXCEPT !.seeded = TRUE]
    /\ forebear' = NoRun
    /\ doing' = "idle"
    /\ UNCHANGED <<query, metadata, attempts, rows, changed, source, sent, dispatched>>

Prepare ==
    \/ PrepareScopeReduction \/ PrepareTransportPolicy \/ PrepareCohort \/ RetryPreparation
    \/ MaterializeRows \/ EnqueueInherited \/ InheritTask \/ InheritMetadata
    \/ FinishPreparation

--------------------------------------------------------------------------------
(* The run. *)

\* Nothing asks whether the preparation finished: a cohort that starts before executes
\* again what it did not inherit, without its charge.  (Bound: the last run starts seeded.)
StartRun ==
    /\ doing = "idle" /\ latest.open
    /\ latest.seeded \/ latest.hop < MaxHops
    /\ Resumable
    /\ \A s \in Services : Charged(s) =< Limit(s)
    /\ query' = Enqueued
    /\ doing' = "discovering"
    /\ latest' = [latest EXCEPT !.early = @ \/ (latest.kind \in Cohorts /\ ~latest.seeded)]
    /\ UNCHANGED <<metadata, attempts, rows, forebear, changed, source, sent, dispatched>>

\* One request: the result is exact, or partial, or the attempt fails.  Nobody asks
\* whether an advisory result is exact.
Discover ==
    /\ doing = "discovering"
    /\ \E i \in latest.tasks :
        LET s == Queries[i].source
            tried == [query[i] EXCEPT !.tries = @ + 1, !.made = source.task]
        IN  /\ query[i].status = "pending" /\ Charged(s) < Limit(s)
            /\ sent' = [sent EXCEPT ![s] = @ + 1]
            /\ \/ \E exact \in BOOLEAN :
                    query' = [query EXCEPT ![i] =
                        [tried EXCEPT !.status = "complete", !.exact = exact /\ Required(i)]]
               \/ query' = [query EXCEPT ![i] =
                      IF tried.tries < MaxTries THEN tried
                      ELSE [tried EXCEPT !.status = "failed"]]
    /\ UNCHANGED <<latest, metadata, attempts, rows, forebear, doing, changed, source,
                   dispatched>>

\* The batch is asked for once more after an attempt that failed; an inherited one is not.
ResolveMetadata ==
    /\ doing = "discovering"
    /\ \A i \in latest.tasks : query[i].status /= "pending"
    /\ IF metadata.status = "complete"
       THEN doing' = "scanning" /\ UNCHANGED <<metadata, sent>>
       ELSE /\ metadata.tries < MaxTries /\ Charged("graphql") < Limit("graphql")
            /\ \E status \in {"pending", "complete"} :
                metadata' = [metadata EXCEPT !.status = status, !.tries = @ + 1,
                                             !.made = source.epoch]
            /\ sent' = [sent EXCEPT !["graphql"] = @ + 1]
            /\ UNCHANGED doing
    /\ UNCHANGED <<latest, query, attempts, rows, forebear, changed, source, dispatched>>

\* The planned scans fit what the lineage has left.
DispatchScan ==
    /\ doing = "scanning"
    /\ WithinFetches(CombinedScans(Current), Cardinality(ToScan))
    /\ \E t \in ToScan :
        /\ attempts[t].status = "none"
        /\ attempts[t].exact + attempts[t].unknown < MaxTries
        /\ attempts' = [attempts EXCEPT ![t].status = "running"]
    /\ dispatched' = dispatched + 1
    /\ UNCHANGED <<latest, query, metadata, rows, forebear, doing, changed, source, sent>>

FinishScan ==
    /\ doing = "scanning"
    /\ \E t \in RunningScans :
        \/ /\ attempts' = [attempts EXCEPT ![t].status = "complete", ![t].exact = @ + 1]
           /\ rows' = rows \cup {[target |-> t, detector |-> source.detector,
                                  verdict |-> source.verdict[t], at |-> latest.hop]}
        \/ /\ attempts' = [attempts EXCEPT ![t].status = "none", ![t].exact = @ + 1]
           /\ UNCHANGED rows
    /\ UNCHANGED <<latest, query, metadata, forebear, doing, changed, source, sent,
                   dispatched>>

\* The holder of the lock dies or refuses to go on; the usage of a running attempt
\* is unknown.
Interrupt ==
    /\ doing /= "idle"
    /\ doing' = "idle"
    /\ attempts' = [t \in Targets |->
           IF t \in RunningScans
           THEN [attempts[t] EXCEPT !.status = "none", !.unknown = @ + 1] ELSE attempts[t]]
    /\ UNCHANGED <<latest, query, metadata, rows, forebear, changed, source, sent,
                   dispatched>>

Unfinished(task) == IF task.status = "pending" THEN [task EXCEPT !.status = "failed"] ELSE task

AbandonLatest ==
    /\ doing = "idle" /\ latest.open
    /\ latest' = [latest EXCEPT !.open = FALSE]
    /\ query' = [i \in QueryTasks |-> Unfinished(query[i])]
    /\ metadata' = Unfinished(metadata)
    /\ forebear' = NoRun
    /\ UNCHANGED <<attempts, rows, doing, changed, source, sent, dispatched>>

Reconcile ==
    \/ StartRun \/ Discover \/ ResolveMetadata \/ DispatchScan \/ FinishScan \/ Interrupt
    \/ AbandonLatest

--------------------------------------------------------------------------------
(* A reviewed commit; a change of the scanner may change any verdict.  One that stops *)
(* an open run is deployed once the run is abandoned: nothing happens in between.     *)

DeployRepair ==
    /\ doing = "idle" /\ changed = {} /\ latest.hop < MaxHops
    /\ \E repair \in Repairs, disputed \in SUBSET Targets :
        /\ latest.open => repair \subseteq {"cli"}
        /\ "scanner" \notin repair => disputed = {}
        /\ changed' = repair
        /\ source' = [task |-> IF "task" \in repair THEN source.task + 1 ELSE source.task,
                      epoch |-> IF "epoch" \in repair THEN source.epoch + 1 ELSE source.epoch,
                      detector |-> IF "scanner" \in repair THEN source.detector + 1
                                   ELSE source.detector,
                      verdict |-> [t \in Targets |-> IF t \in disputed
                                                     THEN source.verdict[t] + 1
                                                     ELSE source.verdict[t]]]
    /\ UNCHANGED <<latest, query, metadata, attempts, rows, forebear, doing, sent,
                   dispatched>>

LineageInit ==
    /\ source = [task |-> 0, epoch |-> 0, detector |-> 0, verdict |-> [t \in Targets |-> 0]]
    /\ \E ledger \in BOOLEAN :
        latest = [hop |-> 0, kind |-> "first", open |-> TRUE, tasks |-> QueryTasks,
                  history |-> NoCharge, past |-> NoScans, source |-> source,
                  ledger |-> ledger, seeded |-> TRUE, early |-> FALSE]
    /\ query = [i \in QueryTasks |-> Absent]
    /\ metadata = Absent
    /\ attempts = [t \in Targets |-> Unscanned]
    /\ rows = {} /\ forebear = NoRun /\ doing = "idle" /\ changed = {}
    /\ sent = NoCharge /\ dispatched = 0

LineageNext == Prepare \/ Reconcile \/ DeployRepair

LineageSpec == LineageInit /\ [][LineageNext]_lineageVars

--------------------------------------------------------------------------------
(* Properties. *)

\* A cohort lineage answers for every request, point and scan dispatch of its runs,
\* once: what a result carried through several successors, a retried preparation or an
\* attempt of unknown usage cost is neither dropped nor charged again.
LineageIsCharged ==
    /\ \A s \in Services :
        /\ Charged(s) =< sent[s]
        /\ latest.kind \notin Cohorts \/ (latest.seeded /\ ~latest.early) =>
               Charged(s) = sent[s]
    /\ CombinedScans(Current).exact + CombinedScans(Current).unknown + Cardinality(RunningScans)
           = dispatched

\* A result that a run inherited is one its own source would certify: whatever repairs
\* were deployed and however often the preparation was interrupted, no run works on the
\* results of two different executions of a discovery task or a metadata batch.
InheritedIsCertified ==
    /\ \A i \in QueryTasks : query[i].status = "complete" =>
        /\ query[i].made = latest.source.task
        /\ (query[i].inherited = 1 /\ Required(i)) => query[i].exact
    /\ metadata.status = "complete" => metadata.made = latest.source.epoch

\* A verdict stored under the detectors of a run is the one its scanner gives: reused
\* and copied rows never outlive the repair of the scanner that made them.
ReusedVerdictsHold ==
    \A r \in rows : r.detector = latest.source.detector =>
        r.verdict = latest.source.verdict[r.target]

================================================================================
