# A TLA+ verification of the collector

The collector (`src/collector/`) is a Python program that, once a week, finds
public repositories that use a set of libraries, scans them for evidence, and
publishes the result as a tree of JSON shards which a static site serves. A run
takes hours, talks to rate-limited services and is expected to be interrupted:
everything it does is journaled in one SQLite database, and the next invocation
continues where the last one stopped. This directory models that core: the
journal, the processes that work on it, and the publication of a release.

## The system

| Component | State | Operations | What is hard | What makes it correct |
|---|---|---|---|---|
| Work journal (`state.py`, `state_migrations.py`) | `runs`, `tasks`, `scan_attempts`, `network_task_usage` | create, resume, abandon, finish a run; enqueue, lease, renew, report, complete, fail, sweep, reset, supersede tasks | late reports, expired leases, crashes between two transactions, operator resets | every dispatch counted once, no task wedged, no verdict without a report, no closed row rewritten |
| Coordinator (`pipeline.py` `run`, heartbeats, stages) | `runtime_locks`, two heartbeat flags, what is in flight | take the lock, resume, stages, verify, publish, unwind, release | two processes after a takeover, suspension, crash | a process that lost the lock or the lease commits nothing |
| Publication (`pipeline.py` 11748-12101, `publish_v2.py`) | V2 tree, checkpoint, journal file, run and release rows | install, finish, commit, unwind, recover | no atomic step covers two trees | the live tree is served; manifest and checkpoint are a pair |
| Discovery (`_discover`, `discovery/`) | coverage certificates, candidates | query partitions, split, merge, retire | incomplete coverage, retirement on stale evidence | nothing is retired on an incomplete epoch |
| Metadata, final visibility (`_resolve_metadata`, `_reattest_final_visibility`, `github_client.py`) | metadata results, GraphQL points | batches, budgets | points across restarts, freshness | never over budget, no private repository published |
| Scan pool (`scanner_v2.py`) | lanes, futures, registries | submit, heartbeat, deadline, abort | abandoned workers | every task reported once |
| Repository cache (`repo_cache.py`) | usage, reservations, locks | fetch, reserve, account, evict | concurrent growth, leaked reservations | hard limit, no lock cycle |
| HTTP transport (`http_transport.py`) | budget, circuit, pacing | attempt, retry, record | half-open circuit, prior requests | never over budget |
| Planning, reuse and catalog (`planner.py`, `fingerprints.py`, `portfolio.py`, `_persist_candidates`, `_materialize`) | candidates, verdicts, stored heads and detectors, fingerprints of runs | plan, resume, admit, retire, reuse, materialize, carry over, compact, restore | runs of several modes over one state, changed code, failed and lost runs | every row proven at its head; no adopter dropped without a reason |
| Citations (`citation_pipeline.py`, `openalex_api.py`, `_citations`) | cache of queries, papers and links; the last release | serve, reprocess, query, carry over, compact | outages, reworded queries, refreshes cut short, adopters that change under a cached record | current links; no library dropped by an outage |
| Scan-tail controls (`phase8_tail_control.py`) | certificates in the execution contract | reviewed one-off repairs of one blocked run | controls, failed resumptions and refreshes in any order | nothing is lost, nothing deferred is completed |
| Successor runs (`successor.py`) | runs, inherited tasks, copied verdicts, charges | derive a run from an abandoned one | a preparation of many transactions, repaired code, several successors | nothing inherited that the repaired code would not produce; nothing spent is forgotten |
| Detectors, artifact validation, web, legacy collector | none shared | pure functions, sequential scripts | none here | tested |

The components meet in the database. `cli.py` starts a coordinator, which holds
the row `collector-network-run` of `runtime_locks` for as long as it lives; a
background thread renews it, and `verify` renews it synchronously between the
stages. Each stage enqueues its tasks, leases them one by one (network stages)
or through the pool (scans), and writes results back through the journal. At the
end the catalog is materialized, exported and published: a checkpoint of the
database and the V2 tree are swapped in, with a journal file that a crash leaves
behind for the next invocation.

## Modules

| Module | Models | Proofs |
|---|---|---|
| `TaskJournal.tla` | the journal alone, every caller at once | `TaskJournalProofs.tla` |
| `WorkQueue.tla` | what the journal promises, without leases and ledgers | |
| `TaskJournalRefinement.tla` | how a journal row reads as a queue entry; `ImplementsQueue` | `TaskJournalProofs.tla` |
| `Coordinators.tla` (extends `TaskJournal`) | processes, lock, leases, heartbeats, crash, sleep, operator | `CoordinatorsProofs.tla` |
| `Publication.tla` | two trees, database rows, journal file, handler, recovery | `ReleaseProofs.tla` |
| `RepoCache.tla` | the shared cache: accounting, reservations, eviction, file locks | `ScanningProofs.tla` |
| `ScanPool.tla` (extends `RepoCache`) | the pool of scanner processes, its deadline, death and stop | `ScanningProofs.tla` |
| `ScanWorker.tla` | what one scan does with the content and history of its clone | `ScanningProofs.tla` |
| `CodeSearch.tla` | one logical GitHub code search against an unreliable service | `StagesProofs.tla` |
| `HttpTransport.tla` | request and retry budgets, pacing, circuit breaker, across processes | `StagesProofs.tla` |
| `Discovery.tla` | the discovery stage over several runs: rotation and certificates | `CoverageProofs.tla` |
| `Visibility.tla` | metadata epochs, GraphQL points, the last look before a release | `StagesProofs.tla` |
| `ScanTail.tla` | the certificates that close a run whose last scans cannot be completed | `CoverageProofs.tla` |
| `Successor.tla` | a run that cannot be resumed, and the audited runs that inherit from it | `LineageProofs.tla` |
| `Catalog.tla` | from candidates to the published catalog, over several runs of every mode | `ReleaseProofs.tla` |
| `Citations.tla` | the citation stage and its cache over several refreshes | `LineageProofs.tla` |
| `SumTheorems.tla` | nothing of the code: what sums over finite sets satisfy | proved there |
| `MC*.tla` | symmetry sets and choices for the model checker | |

### TaskJournal

Every method of `StateDB` runs in one `BEGIN IMMEDIATE` transaction, so every
method is one action, including the sweep of stale leases that `lease_task_by_id`
does first. `tasks[t]` is the row of a task (status, attempts, max_attempts,
owner, whether the lease is unexpired, whether the error code marks a reviewed
retry, what kind of result it holds); `ledger[t]` is the sequence of its
`scan_attempts` rows; `charged[t]` the attempts with a `network_task_usage` row.
A row keeps its status, whether its usage was measured, and whether it may be
retried. The judgement of `_scan_task_recovery_disposition` is `MayRetry` and
`KeepsReview`.

Abstracted: clock values to `live`; `available_at` to zero, because no caller
asks for a delayed retry of these tasks; usage vectors to "measured or not"; result documents and error
texts. The operations that name a run are called only for a running run, as by a
coordinator that created or resumed it under the lock; `Coordinators` drops that.

### Coordinators

A coordinator is one invocation of `PipelineRunner.run`. `pc` follows its control:
`idle`, `opening` (create or resume), `discovery`, `scan`, `publication`,
`finishing`, `unwinding` (the handler), `closing` (the `finally` clause), `done`,
or `dead`. `elsewhere` is a process that found the followed run closed and works on a
run of its own under the same lock. `work[c][t]` follows one task through the
transactions of `_complete_journaled_network_task` (call, verify, charge, commit)
or of the scan `checkpoint` callback (report, then commit), with `attempt[c][t]`
the attempt the lease gave it.

`Suspend`/`Wake` are a sleeping host or a stalled disk: a running process renews
its lock and its leases in time, a suspended or dead one does not, and
`ExpireLock`, `ExpireLease` can only then happen. `overtaken` is a history
variable: has anybody taken the lock since this process did?

Abstracted: two stages stand for all (metadata, final visibility and citations
journal their tasks the way discovery does, and `_redate` the way network tasks
do, with a worker name per process); replans and resets are in `TaskJournal`
only; process ids are distinct for each invocation; one network task is in flight
at a time, as in the code; `OperatorAbandons` takes, uses and releases the lock
in one step, because nothing else can act between while it is held.

### Publication

One rename, one unlink, one transaction is one action. `v2` says which release the
live manifest names and whose artifacts are present, `checkpoint`/`backup`/`spare`
what is in the live directory and in the two directories a swap moves aside,
`journal` whether the file exists and what it remembers, `db` the run and release
rows, `tx` which transactions the process could roll back. `Interrupt` is an exception
in any publishing step: the swap and the installation undo themselves as in their
own handlers, the rest is the `except BaseException` clause of `run`. It takes effect
between two steps. `RollbackFails` and `StateUpdateFails` are failures inside that clause
and inside the rollback of the installation (`publish_v2.py:1071`). `Kill` is a crash;
`Restart` and the recovery actions are `_recover_publication`. The history variable `slips`
keeps what no handler has an answer to: `rollback`, the rollback inside the installation
failed while the new manifest was in place; `half`, an exception between the last two
commits; `late`, one after both. A loop over files is one
step; a crash in its middle is a crash before it, since unreferenced artifacts do
no harm and the loops are idempotent. The release is either the first or replaces
`base`; both are initial states.

### The work queue and its refinement

`WorkQueue` is what a coordinator may rely on: a task is granted a bounded number
of times, a waiting task always has a grant left, a result is final, an operator
alone raises the bound, a run is published only when nothing of it is left, and a
closed run never moves again. `TaskJournalRefinement` maps `tasks.status` and
`result_json` to the queue's phases, `attempts` to grants, `max_attempts` to the
allowance and `runs.status` to the state of the run. Leases, owners, ledger rows,
usage rows and error codes disappear; an expiring lease, a renewal or a recorded
attempt is a stutter of the queue.

### RepoCache and ScanPool

A section under the accounting lock is one action, because whoever is in it waits
for nothing. Its two files (`cache-usage.json`, a repository's metadata) are written
one after the other; `Cut` is an alarm or a kill in between, just before the usage
write. A worker goes from `StartScan` to `done`: wait for the repository's lock,
reserve, clone or fetch, re-measure, materialize, record, unlock. `Evictable` skips
repositories whose lock is held (`try_lock`). `ScanPool` adds `scan_many`: the phases
(repositories of unknown size alone, giants one at a time beside the normal ones),
futures, the attempt opened on dispatch and reported on collection, the run
deadline, an exception of a callback, a broken process, the stop that terminates
and reaps, and a coordinator killed while its processes run on.

Abstracted: bytes to small numbers; `last_access` (entries of equal rank go in any
order); an orphaned metadata entry that `ReserveClone` overwrites leaves the total
too high until the next reconciliation, which is the safe side.

A killed coordinator leaves processes behind, and the promises say what they are worth then.
While orphans hold what it would evict, the reconciliation of the next `scan_many` may find
more than the hard limit; `enforce_budget` then raises before anything is dispatched
(`Overfull`). The settlement of a scan (`RecordLeft`, the `_record_metadata` in `checkout`'s
`finally`) runs without the repository's lock, so an orphan whose deadline has passed may
remove a repository that a process of the next pool is scanning; without orphans no two
processes work on one repository, and `ScansAreContained` says so. TLC shows both with two
repositories and clones of one or three units.

### ScanWorker

One cached clone of one repository, over pushes, force pushes, rewinds and a merge
of an old branch: shallow boundary, which blobs are present, sparse checkout, LFS
pointers, the size policy (own source is exempt), the metadata the cache remembers, and
the earlier verdicts that make a scan stop early. A scan is `PlanScan`, fetch, bare triage, checkout, hydration,
select, probe, deepen, date, record, evict. `VerdictIsReproducible` compares the
verdict with `ExpectedRows`, a reference definition over the current tree.

Abstracted: contents to six kinds of evidence; two paths stand for the classes of
files; one deepening step is one commit; a history is linear but for one merge;
renames and lineage proofs are left out; a fetch of `--depth=1` after deepening makes
the clone shallow again, as in the code.

### CodeSearch, Discovery, HttpTransport, Visibility

`CodeSearch` is `GitHubCodeSearch.search`: a stack of partitions (`todo`), each
visited, split by file class, size, repository or path, or paged through to an
explicit empty page (`walk`). The service either keeps an order and misreports
totals, or never reports too few and shuffles its pages.

`Discovery` is `_discover` for several runs on one database, with ages in steps of a
week. `coverage` is the table of certificates; `_carry_forward` takes the newest
complete one of an earlier run. A run can be interrupted, resumed on a later day or
abandoned.

`HttpTransport` is one endpoint and one operation at a time (`_operation_lock`): every
attempt is debited before it is sent, paced, checked against the circuit, and
journaled with the task it belongs to; a process that dies journals nothing.

`Visibility` is the metadata stage and `_reattest_final_visibility` for one run with
several invocations, while GitHub changes the visibility of repositories. A batch is
one repository.

Abstracted: one query pack per library and one search per pack and source; the
attempts of a task (that is `TaskJournal`); superseding of a stale query set cannot
happen within a run, because due libraries only become more; the reserve of remaining
quota.

### ScanTail

A run whose last repositories cannot be scanned is closed by certificates. Each
control of `phase8_tail_control.py` is an `authorize_*` function: it holds the run
lock, audits that the checkout is one reviewed commit on top of the source the
contract is bound to (`SourceAudit`), checks the boundary of stages and tasks,
repairs what the earlier commit did to them, and appends its certificate to the
execution contract, in one transaction and therefore in one action. `contract` is the
sequence of certificates, `checkout` the number of reviewed commits deployed,
`scanTask` the scan task of each repository, `row` the repositories whose stored head
is not the scanned one, `reference` a state file saved before a repair. Between two
controls a coordinator resumes, refreshes or replays the metadata epoch, applies the
pins and the deferral, plans, attests and publishes (`Coordinate`).

Two deviations of commits before this one are outside steps, because controls exist
only to repair them: `RependsDeferred` (some deferred tasks made pending again) and
`SupersedesDeferred`. `DeployReview` and `SaveReference` are the operator's.
Abstracted: digests, wording of certificates, stage rows that no control reads;
renames; one scan task per repository; the controls of the visibility epochs.
`MaxGone` bounds the repositories that turn private, `MaxMoved` the heads that move,
`SavedAt` the lengths of the contract at which a state is saved. `Interrupted` keeps
representative initial states: which repositories completed is up to their names.

### Successor

A run that cannot be resumed is abandoned, the code is repaired in a reviewed commit,
and a successor is prepared: one transaction creates the run, the next ones copy
certified scan rows (`MaterializeRows`), enqueue the discovery tasks, inherit one
result each (`InheritTask`) and the metadata epoch. The process holds the run lock,
and so does the coordinator that works on the run afterwards; each may stop between
two transactions (`Interrupt`), and the same preparation may be repeated. There are
three families: a *scope* successor drops the broad queries of one library, a
*transport* successor follows a repair of HTTP pacing, a *cohort* successor keeps the
libraries whose discovery completed; its first kind, `partial`, starts a cohort and
the others continue one.

A repair is the set of surfaces it changes, instead of paths, digests and syntax
nodes: `task` and `epoch` are the parts of the pipeline that execute a discovery task
and a metadata batch, `scanner` the detectors, and a change of the scanner may change
any verdict. `source` is the checkout; a result remembers the execution it was `made`
by. `history` and `past` are the charges of the execution contract: what the lineage
spent and no inherited result carries, and the proof rows of its scan attempts. A run
older than the attempt ledger (`ledger`) bounds an attempt without a result
conservatively. `sent` and `dispatched` are history variables, what was really spent.
Abstracted: the wall clock, bytes and disk; the candidate-policy repair; the metadata
epoch is one batch of one point. Bounds: two successors (`MaxHops`), the last of which
starts seeded; while a run is open only a repair is deployed that lets it be resumed.

What the model says besides its properties, all of it fail-closed or a matter of
accounting:

* A scope successor carries no charge beyond the results it inherits, a transport
  successor the number its operator reports, and a `partial` one does not ask for the
  GraphQL points of its predecessor. `LineageIsCharged` therefore counts from the
  first cohort (`sent` starts again there). `state.py:3886` speaks of all attempts.
* A checkpoint continuation that stops after its rows were copied cannot be repeated:
  the certificate finds a row and its copy for one scan and refuses
  (`successor.py:3811`), although a retry "returns the same still-interrupted
  successor" (`state.py:1281`). It has to be abandoned.
* `cohort-reconcile` does not ask whether the preparation finished. A cohort started
  too early, or abandoned and followed before it was seeded, loses the charge of what
  it had not inherited yet (`early`); `LineageIsCharged` then only promises that
  nothing is charged twice.

### Catalog

Runs in succession on one state. `code` is the checkout (the version of each detector,
the pairs a library refuses, the banned repositories), `tree` and `listed` are GitHub;
`stored`, `fps`, `active` and `results` are the columns `repositories.head_sha`,
`libraries.detector_fp` and the tables `candidates` and `scan_results`. A run is planned
(`PlanRun`, with the estimate that makes a refresh ask for confirmation) or resumed
(`ResumePlan`), searches (`DiscoverPairs`), looks all repositories up (`PinHeads`), groups
candidates of three origins (`PersistCandidates`), scans what no stored verdict decides
(`ScanRepository`, one transaction of the scan callback), retires (`FinishScans`) and
publishes (`PublishCatalog`: materialization, rows carried over from V1, compaction, the
checkpoint). It fails at any step, and the database may be lost with a failed run:
`RestoreState` starts from the checkpoint of the live release. A new run after a failed
one stands for an operator who abandoned it first.

The modes are `refresh`, `reconcile`, `onboard` and `cohort` (the cohort reconciliation);
they differ in the libraries asked for, in the coverage discovery has to reach, and in
what the catalog says of the rest. A verdict is what the tree of the pinned head says;
that a scan finds it is `ScanWorker`. Left out: renames, mirrors, family roll-ups, dates
and repository analysis.

What the model says besides its properties:

* Discovery meets documents. A pair is accepted when it is met in a document that is no
  reviewed false positive, and refused when it is met in reviewed ones only
  (`pipeline.py:9141-9198`): the refused pairs are the excluded ones minus the accepted ones.
  A reviewed document is at a path of one commit and says nothing of later ones, so a pair with such a
  document may be a genuine adopter, and a search may meet the one and miss the other. A
  refused pair is not scanned again, whatever verdicts earlier runs reached
  (`AdoptionsStayVisible` below). `shadowed` is the history of such refusals: pairs whose
  latest encounter was a refusal. `SelectedAdoptersSurvive` takes only those out of what was
  published, and none of what the run itself accepted. The exclusion configured in
  `collector/req14_evidence_contract.json` (`cutensor`) has this shape.
* A scan sent for one library that meets the anchors of another makes that pair a
  candidate even where the policy denies it (`pipeline.py:10174`); the next run, or the
  materialization, retires it again.
* The exclusions a library declares for itself are part of no fingerprint, so a run is
  resumed across such a change. They are applied when candidates are grouped and when the
  catalog is read, and no denied row is published.

### Citations

One action of a refresh is one iteration of the loop over libraries, which is one
transaction: `ServeSnapshot`, `ReprocessSnapshot` (the adopters changed, the papers are
cached), `QueryWorks` (an answer, complete or not) or `HardFailure` with a last-good
record. `cache` is `citation_cache`, one row per library and wording of its query:
the record, the evidence it was built from, and what is known of each paper (cached, read,
names found in it). `written[l][w]` is the place of a row in the order of `fetched_at`, the
newest first and 0 for no row: it decides which older wording is the prior one and which
rows the compaction keeps. `Fallback` is the release's own record and then that of V1.
`StartRefresh` takes whatever the scans left: any standing of repositories, any head, any
wording, any age of a row. A refresh dies between two libraries (`InterruptRefresh`).
A paper is linked to a confirmed adopter that cites it or that it names. Left out: totals,
months, growth, titles, eligibility.

Behaviour the model shows and no property forbids: names found in a paper are filtered by
the repositories known at that moment and cached as read (`citation_pipeline.py:1181`), so a
repository discovered later is not linked to that paper; a paper skipped for want of
budget is not retried while its query is fresh; a gap filled from the cache leaves its
record stale until the next query; a last-good record may name repositories that have
left since.

## Runs

| Run | Configuration | Expect | Shows |
|---|---|---|---|
| `task_journal` | 1 scan, 1 network task, 2 workers, 2 attempts, 1 reset; a lineage of 2 successors, 3 queries, 1 repository; 2 citation refreshes of 1 library, 2 repositories, 2 papers | pass | all invariants of the journal over every interleaving of operations, and that it implements `WorkQueue`; charges, inherited results and copied verdicts of a lineage; citations linked and kept |
| `task_journal_review` | 2 resets | violation | a resume takes a reviewed retry back |
| `recovery` | 2 scans, 2 network tasks, 1 crash, fair; a publication with 2 crashes, 1 exception, 2 failing unwinding steps | pass | a killed coordinator is always recovered from, calls are charged and results fenced; a release is served, paired, recorded, its journal resolved |
| `coordinators_reopened` | 1 suspension | violation | an abandoned run becomes resumable again |
| `coordinators_lease` | 1 suspension | violation | a stale network result is committed |
| `publication_unwind` | 1 crash in the handler | violation | a complete run whose release was rolled back |
| `publication_rollback` | 1 exception, 1 failing rollback step | violation | an inexact pair without a journal |
| `scanning` | 2 coordinators, 1 crash, 2 suspensions, failures; 2 workers, 2 repositories, clones of 1 or 3 units under a limit of 3, 1 fault, 2 pools; 3 pushes, 2 scans of one clone | pass | lock and fencing of scans; cache limit, accounting, lock order, somebody can move, pool stop; verdicts independent of what the cache kept |
| `stages` | each network stage by itself; a tail of 3 repositories and 2 newcomers; 3 invocations in a row over a catalog of 1 repository and 2 libraries, 1 push or closing, 1 edit | pass | certificates, budgets, circuit, rotation, last look; a release accounts for every task and publishes only scanned heads; the catalog proven row by row and keeping the adopters of the libraries asked for |
| `catalog_onboard` | the catalog of `stages` | violation | an onboarding run wipes adopters of other libraries |
| `catalog_collision` | the catalog of `stages` | violation | a reviewed false positive hides a genuine adopter |
| `stages_epoch` | 2 runs | violation | a resumed run calls old searches covered now |

The passing runs explore parts that share no variable. In `task_journal`, `scanning` and
`stages` a behavior picks one part, so the states add up and do not multiply; in `recovery`
the publication follows a run that closed without a crash (`Handover`).

Two attempts are enough for every order of interruption, failure and success, and
for the limit; the reset raises it to a third. One scan and one network task are
enough in the big runs because operations on different tasks commute except for
the whole-table ones (sweep, resume, abandon, supersede), and those act on each
row by itself; `recovery` uses two of each for the order within a stage.
Two coordinators suffice for a takeover; two suspensions let both sleep. Two
crashes reach a crash of the recovery of a crash.

The cache is two units above a clone's reservation at most, so two repositories
already compete for it and one growth forces an eviction; a clone of three units alone fills
it, so that a reservation fails or an orphan leaves more than the limit; one fault per behavior
keeps every single failure in every place. Three pushes and two scans let a history
be rewritten between two scans and again while the second dates its finds. In
`CodeSearch` a page holds two results and four can be paged, so four files reach
every kind of split. In `Discovery` a certificate is due after 2 steps and stale
after 3: only the week between matters, and an invocation ends within a step.
In `ScanTail` three repositories leave a deferred one, a completed one and one that
is either; two of them may turn private, one by the refresh and one by the last
visibility check, which is what the seven certificates describe; one head may move,
before or after its pin. A state is saved after the second, third and fifth
certificate, before each control that compares with one.
In `Successor` three queries are a required library with a broad and a narrow one and
an advisory library; two hops reach a successor of a successor of each kind that
may follow, with two attempts a task; one repository is enough, because certificates
and budgets are per repository and `MaxFetches` 2 is reached by a retry of one.
In `Catalog` one repository is enough, because pairs of different repositories meet only in
the estimate of scans and in library-wide sets, which two libraries tell apart: one has a V1
row that rests on a reviewed false positive, the other is the one onboarded. Three
invocations are a run, one that fails or is lost, and one after it, or three that complete
in different modes; one push or closing, one change of the code and any number of
failures fall between or into them. In `Citations` two repositories and two papers let a link
have either reason; two refreshes, the first served from any cache an earlier one could
leave, let a failure follow a good answer, a reworded query or an interrupted refresh.
`PointBudget` 7 with a worst batch of 2 lets a budget run out inside each stage after
a restart. `CHECK_DEADLOCK FALSE` is set because every model ends: the attempts are
used up, the release is out, or a bound is reached.

### What the violations mean

* **Reviewed retry.** `run-retry` marks a failed scan pending, with the error code
  `reviewed_retry:...`. The invocation that should execute it resumes the run
  first, and the recovery judges by the last attempt alone: non-retryable, failed
  again.
* **Reopened run.** A coordinator sleeps, the lock expires, the operator abandons
  the run, the coordinator wakes up and fails its next verification. Its handler
  sets the run to `failed`, which is resumable.
* **Stale network result.** Network tasks of one run share a worker name. A
  coordinator that sleeps between `verify` and `complete_task` finds a live lease
  in "its" name, that of its successor. Scans lease under the process id and are
  fenced (`ScanCommitIsFenced`).
* **Unwinding.** After `finish_run(complete)` an exception rolls both trees back
  and deletes the journal before the rows are rejected; a crash there is final.
* **Old epoch.** A run is interrupted after its searches and resumed weeks later. The
  journaled queries count as this run's, and `record_discovery_coverage` stamps them
  with the present; a library's newest real search is then older than 28 days while
  its certificate passes as fresh.
* **Onboarding.** `onboard` looks up every repository and stores the detectors of the whole
  checkout, but scans for the new libraries. The catalog joins verdicts at the stored heads
  and detectors, so a library measured before loses every adopter that was pushed to since,
  or all of them when its detector changed. Its card stays measured, and the rows carried
  over from V1 are only for libraries that were not. `docs/Documentation.md:114` says
  that unrelated libraries cannot be wiped. The next refresh finds them again: the
  candidates survive.

* **Rollback.** An exception interrupts the installation of the V2 tree after the new
  manifest is in place, and the rollback inside `_install_staged_tree`
  (`publish_v2.py:1071`) fails, for instance on a full disk. Its exception replaces the
  transaction, so the handler of `run` considers the V2 tree untouched, restores the
  checkpoint and deletes the journal: the new manifest is live beside the old checkpoint.
  `docs/Documentation.md:955` promises an exact pair or a preserved journal.
* **Collision.** A published adopter has a verdict that is out of date, after a push or a
  change of its detector, and discovery meets it in a reviewed false positive only. It is refused
  instead of scanned, and leaves the catalog although it still uses the library.
  `pipeline.py:4981` says "future genuine adoption cannot be hidden by an old collision".

`PairAgrees`, the promise of the documentation, has a second way to fail: an interrupt
between the last two commits (`half`) reaches a handler that can roll back only one tree.
Only an asynchronous interrupt can raise there. `PairIsExact` says what is left of the
promise: the handler keeps the pair exact unless it was misled in one of these two ways, and
a recovery ends with an exact pair even after a failed rollback.
`LiveReleaseIsRecorded` likewise names the failures after which a live release is rejected
in the database (`rollback`, `late`). Both hold of every behavior of `Publication`, and the
failures happen in the instance that checks them.

## Fairness

`FairSpec` of `Coordinators`: a running process takes its steps, its heartbeat
runs, time passes and suspended hosts wake up. Invocations are started again by
the weekly timer (`refresh.sh`). `CrashedRunCloses` is checked without
suspensions and without failures of calls, with one crash and two attempts: it
says that the crash itself needs no operator. `PublicationSpec`: the
process goes on unless killed and a journal is found by a later invocation.
`RecoverySpec` keeps both, each while its part is explored (`RecoveryFairness`); it assumes
nothing of the step from one to the other.
Nothing is assumed about exceptions, crashes or operators.

## Proofs

Proved by TLAPS for all values of the constants, from the named assumptions of the modules
(`JournalAssumption`, `CoordinatorsAssumption`, `TransportAssumption`, ...), which TLC
evaluates in every run, and from nothing else unless it is said below. Every theorem has the
shape `Init => Inv`, `Inv /\ [Next]_vars => Inv'`, `Inv => Property`; none of the properties
is inductive by itself, and the invariants below say why. Each of them was model-checked
before it was proved.

### TaskJournalProofs

Type correctness, `EveryDispatchCharged`, `OnlyLatestAttemptOpen`, `PendingIsLeasable`,
`NonRetryableNeedsReview`, `VerdictMatchesLedger`, `ClosedAttemptsImmutable`,
`CompletedWorkIsFinal`. Type correctness and `CompletedWorkIsFinal` are proved and not run:
the refinement, which is checked too, implies the second. That a requeued task is leasable
depends on which shapes its rows can have, on only the last one being open, on the counter
matching the ledger, and on abandonment being final. `JournalInv` states those facts per task
(`RowOK`, `LedgerOK`, `LastRowOK`) as a function of the row, the ledger and the run status,
so that each rewriting (lease, report, disposition, abandonment) needs one lemma whatever
step applies it. The lemmas about a step (`RowTables`, `LedgerExtends`, `CompletedStays`)
serve `CoordinatorsProofs` as well.

`JournalImplementsQueue` is the refinement. It needs one fact beyond `JournalInv`: a
published run has no unfinished task, so that no late lease or sweep moves a closed run
(`QueueInv`).

### CoordinatorsProofs

`StagesNeedTheLock`, from `LockInv`: the process the lock row names has not been overtaken,
nor has one that never took it.

`ScanCommitIsFenced`, from `FenceInv`: every dispatch of a scan has a worker name of its own,
so whoever is still named as the owner of a task remembers its latest attempt. This holds
for any schedule of suspensions and takeovers, because it does not rest on the lock.

`CompletedCallsCharged`, `LostLeaseRejectsResult` and `ClosedRunStaysClosed` do rest on the
lock, and the lock fences no coordinator that sleeps past its expiry. They are proved for
every behaviour in which nobody runs on after being overtaken (`[]NobodyOvertakenRuns`):
processes are killed by any number of crashes, suspended, woken, and their expired locks
taken, but a process whose lock was taken does not run again. That is weaker than having no
suspensions, from which it follows (`NobodySleepsNobodyIsOvertaken`, `SoleInv`), and it is
needed: `coordinators_lease` and `coordinators_reopened` refute the last two with one
overtaken coordinator. `CurrentInv` says that whoever runs owns the lock; `ChargedInv` that
what a coordinator has charged is the latest attempt; `OpenInv` that the run is open while
somebody works on it.

Under the same hypothesis the coordinators are shown to use the journal as its module
demands: every step of `Coordinators` is a step of `TaskJournal` or leaves its tables alone
(`CoordinatorsUseTheJournal`), so every theorem about the journal holds for them and they too
share a work queue (`CoordinatorsShareAQueue`). `CrashesKeepTheQueue` states it without the
hypothesis where nobody is suspended.

A woken coordinator that fails a closed run takes a step that `TaskJournal` does not have,
and part of what the journal promises survives even that, for every behaviour of
`Coordinators`: `JournalSurvivesOverlap` (every dispatch is charged, only the latest attempt
is open, and the other ledger invariants of `TaskJournal`), `OverlapKeepsAttempts` (closed
attempts do not change) and `OverlapKeepsResults` (completed work is final). The invariant is
`LateInv`: a run that is closed, failed by the late coordinator and resumed again may hold
tasks that an abandonment disposed of, and what it cut off stays barred (`CutOff`), because
no operation reopens an abandoned row. The step lemmas of `TaskJournalProofs` are used as
they are.

### ReleaseProofs

The publication, for any number of crashes, exceptions and failing rollbacks and without an
assumption on a constant. `LiveReleaseIsServed`, from `ServedInv`: what each program point
knows of the artifacts. `PairIsExact`, from `PairInv`: an existing journal leads from the live
manifest back to its checkpoint (`Recoverable`), what the handler and the recovery know
before they delete it, and, after a failed rollback, that the recovery still ends with the
exact pair (`CheckpointInv`); failures are never forgotten (`SlipsStay`).
`LiveReleaseIsRecorded` adds the database rows (`RecordInv`): whoever deletes a journal under
the new manifest has recorded the release. `CrashesKeepAgreement`, from `UnraisedInv`: a
publication that only crashes interrupt.

The catalog: `CatalogIsProven` (`ProvenInv`): verdicts are true of the tree of their head, in the
database and in the checkpoint a lost one is restored from (`FaithfulInv`); a busy run works
with the checkout it was planned for (`PlanInv`); once heads are pinned they are the stored
ones and no verdict is newer (`HeadsInv`). `SelectedAdoptersSurvive` (`SurvivalInv`, on top
of it): a pair whose newest verdict is negative is remembered as refuted (`RefutedInv`), one
with a positive verdict is a candidate or refuted since (`PositivesInv`), and what was
published is still known to the state *and* to the checkpoint (`ReleasedInv`), or excused
there (`Excused`: refuted, or refused for a reviewed false positive). While a run scans, every
adopter of the last release that is not so refused, and every pair the run accepted, is to be
scanned, proven, or withdrawn for a reason (`ShownInv`).

### StagesProofs

`SpentWithinBudget` (`SpendInv`): a request is charged, lost with a process, or in the
task in progress, and each of the three is bounded by the budget a process starts with; a
request that is debited and not yet sent already counts. `CircuitHolds` (`CircuitInv`):
the failure counter may forget one failure when the circuit half opens, so after a long run
of failures it is the threshold minus one that has to be kept, through pacing, success and
restart. `PointsWithinBudget` (`PointsInv`): what is spent is in a document of the journal
or in no document. `ReleaseWasPublic` (`LookInv`): a document that accepts a repository was
true when it was written and its epoch is no older than it says (`Stands`), and an attested
epoch is about exactly the current candidates.

`CertificateMissesNobody` (`SearchInv`, under `SearchSpec`): a repository that is to be found
and has not been observed is still found by a partition on the stack, because each split
covers the partition it replaces (`CoverInv`); and a partition that is accepted has shown all
it finds (`CompleteInv`): a short page whose total hides nothing is everything, and a sweep
that ends at an empty page has nothing behind it, either because the pages of a service that
keeps its order leave no place out, or because the totals of one that does not are never
below the truth. A split always follows the classes, then the sizes, so no partition is
replaced by fewer files than it has (`SearchType`, `WalkInv`).

### CoverageProofs

`RotationKeepsCoverage` (`RotationInv`): a library that an open run does not search had a
young certificate when the invocation began, and an invocation lasts a step at most; a
certificate of a failed or abandoned run is never the one that is counted.
`PublishedUniverseAccounted`, `PublishedHeadsWereScanned`, `QuarantineIsFinal` (`TailInv`):
the contract holds one certificate of each kind in the order of the kinds (`ContractInv`),
which is what turns "a certificate of this kind exists" into knowledge of the tasks
(`TasksInv`) and of the stored heads (`PlanInv`), in particular in which two states of the
contract the deviations of earlier commits may be visible.

### LineageProofs

`InheritedIsCertified`, `ReusedVerdictsHold` (`LineageInv`): what the newest run works on
holds for its source, what may still be inherited holds for the source of the heir while it
is inheriting (`ForebearInv`), and what the audit accepted as unchanged *is* unchanged
(`CheckoutInv`), through preparations that are cut short and repeated.
`LineageIsCharged` (`ChargeInv`, on top of `LineageInv`): a cohort successor starts with the
charge of its predecessor minus what it is to inherit, and takes that over task by task. In
between its charge is too small, so the invariant counts what is still awaited as charged
(`AnswersFor`): an inheritance then moves nothing, and a preparation ends when nothing is
awaited (`RequestsInv`). A task that is handed on carries exactly one charge, however often
it was handed on before (`HeirsInv`). A scan moves between running, exact and unknown within
one sum, and that sum becomes the history of the next run while nothing runs (`ScansInv`).
`LinksAreCurrent`, `LastGoodSurvives` (`CitationInv`): every entry of the cache is right
about the heads it was made from (`SoundInv`), so serving it without a call is sound exactly
when the evidence is the same; the rows of a library keep places without a gap
(`PlacesInv`), so that a row the compaction removes is never the last one, and a library that
was published has a row (`GoodInv`).

### ScanningProofs

`WithinHardLimit`, `UsageIsExact`, `ScansAreContained` (`PoolInv`), for any number of
processes and repositories, all limits and sizes, and any number of faults and of pools.
Three facts make them inductive. Who is inside a repository's lock holds it (`LockInv`), so
no eviction takes what is scanned. Without orphans a process works for a task in flight that
names it, and no two for one task (`TaskInv`), so no settlement of another process does
either, and nobody is left when nothing is in flight. A repository that is about to be
ensured and is not on disk accounts for nothing (`BlankInv`): a clone that fails takes back
exactly what it reserved, while an orphaned entry that `ReserveClone` overwrites is what
makes the total exceed the sum when `orphaned` holds. What a step does to the files is
stated once (`Files`, `Moves`, `Balanced`) and proved section by section.

`LocksAreExclusive`: no two processes are in one repository's lock. `SomebodyIsAlwaysReady`:
while the pool runs with tasks in flight, a process can take its next step or is finished
and waits to be collected, so locks and a full cache never stop them all; with `ReadyIsEnabled` this is `SomebodyMoves`
(`SomebodyAlwaysMoves`). Nobody waits while holding a lock: who holds one is inside it
(`HolderInv`), and inside everything goes on whatever the others do (`InsideIsReady`). The
process of a future is never idle (`FutureInv`), sizes stay bounded (`SizeInv`), and an
eviction always has something to choose: for every goal there is a set of least value that
reaches it or takes all that can go (`VictimsExist`). `Ready` states the guards of a
process's steps; that it is their `ENABLED` is `ReadyIsEnabled`, which TLC checks in every
reachable state of `scanning` as the first conjunct of `SomebodyMoves`.

`VerdictIsReproducible`, `ResultIsProven` (`WorkInv`, under `WorkSpec`), for any set of trees,
any number of pushes, scans and failures. The clone may hold anything; what a scan may rely
on is the marker, which is set only when everything within the policy is there
(`MarkerInv`), so that after pruning the index is exactly what the policy admits (`EarlyInv`)
and the rows are those of the head (`LateInv`). For the dates: commits keep their identity
(`IdsInv`); without merges two histories that share a commit share everything before it
(`PrefixInv`); so a boundary that was the first use when it was recorded is the first use in
every history that still contains its commit (`PriorInv`), and reusing it within a partial
history gives the date a search of all of it would. With merges only the weaker
`ResultIsProven` holds. The assumption on trees, that the size policy never excludes own
source, is that of `prune_missing_current_blobs_locked`; without it the triage would find a
library in a file that the search then leaves out.

### SumTheorems

The total of the cache and the charges of a lineage are sums over a set (`SumFunctionOnSet`
of the community modules). What they need, that a summand may be taken out, that a sum splits
into parts, that it changes by what one summand changes and that counting is adding ones, is
proved from its definition: the induction is a least counterexample among the subsets of a
finite set (`Smallest`), which needs no operator parameter.

### Only model-checked

* Liveness under fairness: `CrashedRunCloses`, `JournalIsResolved`.
* `ReadyIsEnabled`, the half of `SomebodyMoves` that speaks of `ENABLED`: that `Ready` is
  exactly when a process has a step. The other half, `SomebodyIsReady`, is proved.

## Not modelled

Text analysis and artifact layout are pure functions of file contents. The legacy
collector is a sequence of sequential scripts. The web front end reads what was
published. What is still to be modelled is in the plan.

Behaviour without a property: the purge of a repository that the final visibility check
missed compares its stored head with the scanned one after the pins made them equal
(`phase8_tail_control.py:6073`), so a head that moved as well cannot be told, and later
runs that replay the epoch find one pin too few and fail closed; a superseded key that a later plan selects again fails
closed when its document is read, and whether a plan should have kept it is a
question of planning; an incomplete GitHub query committed in a run that Sourcegraph
decided keeps failing the run once GitHub decides, until the run is abandoned.

## Plan

1. Done: `TaskJournal`, `Coordinators`, `Publication`, their runs and first proofs.
2. Done: `RepoCache`, `ScanPool`, `ScanWorker`.
3. Done: `CodeSearch`, `Discovery`, `Visibility`, `HttpTransport`.
4. Done: `WorkQueue` and the proof that `TaskJournal` implements it.
5. Done: `ScanTail`, `Successor`. Left: the controls of the visibility epochs,
   the issue lane of the scan tail.
6. Done: `Catalog`, `Citations`. Left: renames, mirrors, roll-ups and re-dating.
7. Done: proofs of the coordinators' fencing and of their use of the journal, of the
   publication, of transport and point budgets, of code search, coverage, tail, lineage,
   citations, catalog, of the pool, its cache and its locks, of what a scan concludes, and of
   the charges of a lineage: every safety invariant and every action property that a passing
   run checks (`SomebodyMoves` up to `ReadyIsEnabled`).
