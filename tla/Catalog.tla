-------------------------------- MODULE Catalog --------------------------------
(***************************************************************************)
(* From candidates to the catalog a run publishes (collector/pipeline.py,   *)
(* collector/planner.py, collector/state.py, collector/portfolio.py).       *)
(* Candidate pairs of repository and library come from discovery, from the   *)
(* shared state and from the V1 release; policy admits them, the scans of    *)
(* the pinned heads decide them, rejected ones are retired, and the catalog   *)
(* is read back from the verdicts of the shared state: those of this run and *)
(* those of runs before.                                                    *)
(*                                                                         *)
(* One run at a time (the run lock): it may die between any two steps and be *)
(* resumed, be lost with the database, or be followed by a run of another    *)
(* mode.  Repositories are pushed to and closed meanwhile.  A verdict is     *)
(* what the tree of the head says.                                          *)
(* Left out: names and renames, mirrors, family roll-ups, dates, analysis.    *)
(***************************************************************************)
EXTENDS Naturals, Sequences, FiniteSets, FiniteSetsExt, Functions

CONSTANTS
    Catalogued,     \* repositories
    Detectors,      \* libraries with a detector
    V1Pairs,        \* pairs of the V1 release
    V1Libraries,    \* libraries with a card in the V1 release
    Collisions,     \* pairs with a discovery document reviewed as a false positive
    Usages,         \* sets of libraries a tree may use
    Deniable,       \* pairs a library may come to refuse
    Selected,       \* sets of libraries an operator asks for
    WeeklyScans,    \* scans the weekly refresh may plan
    MaxEvents,      \* bound: pushes and closings, all repositories together
    MaxEdits,       \* bound: changes of the code
    MaxInvocations  \* bound: runs and resumptions

VARIABLES
    tree,       \* GitHub: libraries the tree of each head uses
    listed,     \* GitHub: public repositories that are neither fork nor archive
    code,       \* the checkout: [detector, denied, banned]
    stored,     \* repositories.head_sha; 0 without a public row
    fps,        \* libraries.detector_fp
    active,     \* candidates in state 'active'
    results,    \* scan_results: [repo, library, head, detector, positive]
    run,        \* the latest run
    last,       \* code of the last run that completed
    release,    \* what is published
    exported,   \* the checkpoint of that release: [stored, fps, active, results, last, refuted,
                \* shadowed]
    refuted,    \* history: pairs whose latest verdict is a rejection
    shadowed,   \* history: pairs refused for a reviewed document, and not seen otherwise since
    remaining   \* bound: [pushes, edits, invocations] left

catalogVars == <<tree, listed, code, stored, fps, active, results, run, last, release,
                 exported, refuted, shadowed, remaining>>

Pairs == Catalogued \X Detectors
RepoOf(p) == p[1]
LibraryOf(p) == p[2]

ASSUME CatalogAssumption ==
    /\ V1Pairs \cup Collisions \cup Deniable \subseteq Pairs
    /\ Usages \cup Selected \subseteq SUBSET Detectors

HeadOf(r) == Len(tree[r])
NoCode == [detector |-> [l \in Detectors |-> 0], denied |-> {}, banned |-> {}]
NoRunYet == [stage |-> "none", mode |-> "refresh", wanted |-> {}, code |-> NoCode,
             observed |-> {}, collided |-> {}, covered |-> {},
             pinned |-> [r \in Catalogued |-> 0], grouped |-> {}]
NothingPublished == [current |-> {}, carried |-> {}, collected |-> {},
                     pinned |-> [r \in Catalogued |-> 0], by |-> {}]

\* Bound: what happens after the last invocation is seen by nobody.
AnotherFollows == remaining.invocations > 0

OneCohort == run.mode = "cohort"
Selective == run.mode \in {"onboard", "cohort"}

--------------------------------------------------------------------------------
(* Planning. *)

KnownRepositories == {r \in Catalogued : stored[r] > 0}

\* The verdict of the shared state on a pair at one head under one detector.
Verdicts(p, head, detector) ==
    {v \in results : /\ <<v.repo, v.library>> = p
                     /\ v.head = head /\ v.detector = detector}

\* Repositories with a candidate nobody has decided at the stored head.
NonReusable ==
    {r \in KnownRepositories : \E p \in active :
        RepoOf(p) = r /\ Verdicts(p, stored[r], fps[LibraryOf(p)]) = {}}

Cold == last = NoCode

\* What a plan records of the checkout.  The exclusions a library declares for itself are
\* in none of the fingerprints.
Fingerprints(c) == [detector |-> c.detector, banned |-> c.banned]

\* A change of the shared filters invalidates every library.
Invalidated ==
    LET before == Fingerprints(last)
        now == Fingerprints(code)
    IN  IF before.banned /= now.banned THEN Detectors
        ELSE {l \in Detectors : before.detector[l] /= now.detector[l]}

EstimatedScans ==
    IF Cold \/ Invalidated /= {}
    THEN Max({Cardinality(KnownRepositories), Cardinality({RepoOf(p) : p \in V1Pairs})})
    ELSE Cardinality(NonReusable)

RequiresFullConfirmation == Cold \/ EstimatedScans > WeeklyScans

Selections(mode) ==
    CASE mode = "onboard" -> Selected
      [] mode = "cohort" -> Selected \ {Detectors}
      [] OTHER -> {Detectors}

\* Whatever the selection, the table of libraries takes every detector of the checkout.
UpsertLibraries == fps' = code.detector

BeginRun(record) ==
    /\ run.stage \in {"none", "failed", "complete"}
    /\ AnotherFollows
    /\ remaining' = [remaining EXCEPT !.invocations = @ - 1]
    /\ run' = record
    /\ UpsertLibraries
    /\ UNCHANGED <<tree, listed, code, stored, active, results, last, release, exported,
                   refuted, shadowed>>

PlanRun ==
    \E mode \in {"refresh", "reconcile", "onboard", "cohort"} :
        /\ mode = "refresh" => ~RequiresFullConfirmation
        /\ \E wanted \in Selections(mode) :
            BeginRun([NoRunYet EXCEPT !.stage = "discovering", !.mode = mode,
                                   !.wanted = wanted, !.code = code])

\* A run that failed is resumed if the fingerprints are still those of its plan, by the
\* checkout as it is now; its discovery and its metadata are in the journal.  Any other
\* invocation abandons it first.
ResumePlan ==
    /\ run.stage = "failed" /\ run.pinned /= NoRunYet.pinned
    /\ Fingerprints(run.code) = Fingerprints(code)
    /\ run.mode = "refresh" => ~RequiresFullConfirmation
    /\ BeginRun([run EXCEPT !.stage = "persisting", !.code = code])

--------------------------------------------------------------------------------
(* Candidates. *)

\* The pairs search can be asked for, and those of them some head ever used.
Searched == {p \in Pairs : LibraryOf(p) \in run.wanted /\ listed[RepoOf(p)]}
EverUsed == {p \in Pairs : LibraryOf(p) \in UNION Range(tree[RepoOf(p)])}

\* Search finds documents: those that use a library where some head does, late or not at
\* all, and those reviewed as false positives, whatever else the repository holds.  A
\* certificate of the authoritative source is complete.
DiscoverPairs ==
    /\ run.stage = "discovering"
    /\ \E observed \in SUBSET (Searched \cap EverUsed),
          collided \in SUBSET (Searched \cap Collisions), covered \in {{}, run.wanted} :
        /\ run.mode \in {"reconcile", "cohort"} => covered = run.wanted
        /\ run' = [run EXCEPT !.stage = "resolving", !.observed = observed,
                              !.collided = collided, !.covered = covered]
    /\ UNCHANGED <<tree, listed, code, stored, fps, active, results, last, release,
                   exported, refuted, shadowed, remaining>>

\* Whatever a document turns out to be, its repository is looked up.
Met == run.observed \cup run.collided

\* Every repository the state, the V1 release or discovery names is looked up, whatever the
\* libraries selected; a closed or banned one loses its row and all that hangs on it.
PinHeads ==
    /\ run.stage = "resolving"
    /\ LET named == KnownRepositories \cup {RepoOf(p) : p \in V1Pairs \cup Met}
           admitted == {r \in named : listed[r] /\ r \notin run.code.banned}
           pinned == [r \in Catalogued |-> IF r \in admitted THEN HeadOf(r) ELSE 0]
       IN  /\ stored' = pinned
           /\ active' = {p \in active : RepoOf(p) \in admitted}
           /\ results' = {v \in results : v.repo \in admitted}
           /\ run' = [run EXCEPT !.stage = "persisting", !.pinned = pinned]
    /\ UNCHANGED <<tree, listed, code, fps, last, release, exported, refuted, shadowed,
                   remaining>>

Resolved(p) == run.pinned[RepoOf(p)] > 0

\* A pair met in any document that was not reviewed is accepted ...
Accepted == run.observed

\* Defect: one reviewed document is enough.
BlockedOutright == run.collided

\* ... one met in reviewed false positives only is refused ...
Blocked == run.collided \ Accepted

\* ... and a library refuses its own project and copies of it.
Denied == run.code.denied

Admitted(pairs) == {p \in pairs : Resolved(p)} \ (Blocked \cup Denied)

Refused(pairs) == {p \in pairs : Resolved(p)} \cap (Blocked \cup Denied)

InScope(pairs) == IF OneCohort THEN {p \in pairs : LibraryOf(p) \in run.wanted} ELSE pairs

\* The rows of the V1 release and the active candidates of the state.
LegacyCandidates == InScope(V1Pairs)
StateCandidates == InScope(active)

\* Defect: what an earlier run found is not asked again.
OnlyObserved(pairs) == Admitted(run.observed)

Grouped(pairs) == Admitted(pairs)

PersistCandidates ==
    /\ run.stage = "persisting"
    /\ LET named == StateCandidates \cup LegacyCandidates \cup Met
           selected == {p \in Grouped(named) : Selective => LibraryOf(p) \in run.wanted}
           revived == Admitted(Accepted) \cup Admitted(LegacyCandidates)
       IN  /\ active' = (active \ Refused(named)) \cup revived
           /\ shadowed' = (shadowed \cup (Refused(named) \cap Blocked)) \ revived
           /\ run' = [run EXCEPT !.stage = "scanning", !.grouped = selected]
    /\ UNCHANGED <<tree, listed, code, stored, fps, results, last, release, exported,
                   refuted, remaining>>

--------------------------------------------------------------------------------
(* Scans. *)

\* The fingerprints are those of the plan, not of the table of libraries.
Decided(p) ==
    Verdicts(p, run.pinned[RepoOf(p)], run.code.detector[LibraryOf(p)]) /= {}

Undecided(r) == {LibraryOf(p) : p \in {q \in run.grouped : RepoOf(q) = r /\ ~Decided(q)}}
Uses(r) == tree[r][run.pinned[r]]

\* A dispatched scan reads the pinned tree: it decides the libraries it was sent for and
\* those whose anchors the triage met on the way.  Verdicts, candidates and retirements
\* are one transaction.
ScanRepository(r) ==
    /\ run.stage = "scanning"
    /\ Undecided(r) /= {}
    /\ \E triaged \in SUBSET run.wanted :
        /\ Uses(r) \cap run.wanted \subseteq triaged
        /\ LET evaluated == Undecided(r) \cup triaged
               positive == evaluated \cap Uses(r)
               rejected == {<<r, l>> : l \in evaluated \ positive}
           IN  /\ results' =
                    {v \in results : ~(/\ v.repo = r /\ v.library \in evaluated
                                       /\ v.head = run.pinned[r]
                                       /\ v.detector = run.code.detector[v.library])}
                    \cup {[repo |-> r, library |-> l, head |-> run.pinned[r],
                           detector |-> run.code.detector[l], positive |-> l \in positive]
                            : l \in evaluated}
               /\ active' = (active \cup {<<r, l>> : l \in triaged})
                                \ {p \in rejected : LibraryOf(p) \in run.covered}
               /\ refuted' = (refuted \ {<<r, l>> : l \in positive}) \cup rejected
               /\ shadowed' = shadowed \ {<<r, l>> : l \in evaluated}
    /\ UNCHANGED <<tree, listed, code, stored, fps, run, last, release, exported, remaining>>

\* With every task done, rejections that were reused retire their candidates too.
FinishScans ==
    /\ run.stage = "scanning"
    /\ \A r \in Catalogued : Undecided(r) = {}
    /\ active' = active \
        {p \in run.grouped : /\ LibraryOf(p) \in run.covered
                             /\ \E v \in Verdicts(p, run.pinned[RepoOf(p)],
                                                  run.code.detector[LibraryOf(p)]) : ~v.positive}
    /\ run' = [run EXCEPT !.stage = "aggregating", !.grouped = {}, !.covered = {}]
    /\ UNCHANGED <<tree, listed, code, stored, fps, results, last, release, exported,
                   refuted, shadowed, remaining>>

--------------------------------------------------------------------------------
(* The catalog. *)

\* Defect: the verdict of an older head counts.
PositiveAnyHead ==
    {<<v.repo, v.library>> : v \in {w \in results : /\ w.positive /\ stored[w.repo] > 0
                                                    /\ w.detector = fps[w.library]}}

\* Positive verdicts at the stored heads under the stored detectors, whoever recorded them.
Positive ==
    {<<v.repo, v.library>> : v \in {w \in results : /\ w.positive
                                                    /\ w.head = stored[w.repo]
                                                    /\ w.detector = fps[w.library]}}

Evidence == InScope(Positive) \ Denied

PreviouslyMeasured == release.collected

\* Libraries that keep their V1 rows: not selected, not measured yet, without evidence of
\* their own.  A cohort keeps them for audit even where they were measured.
CarriedLibraries ==
    IF ~Selective THEN {}
    ELSE {l \in V1Libraries \ run.wanted :
            /\ OneCohort \/ l \notin PreviouslyMeasured
            /\ l \notin {LibraryOf(p) : p \in Evidence}}

CarriedRows ==
    {p \in V1Pairs : /\ LibraryOf(p) \in CarriedLibraries
                    /\ stored[RepoOf(p)] > 0
                    /\ p \notin Denied}

\* Cards with counts: what was selected, has evidence or was measured before.  The rest
\* stays unknown, as does all a cohort leaves out.
Measured ==
    IF OneCohort THEN run.wanted
    ELSE run.wanted \cup {LibraryOf(p) : p \in Evidence} \cup CarriedLibraries
             \cup PreviouslyMeasured

\* Positive pairs the policy denies are retired on the way.
RetireDenied == active' = active \ (InScope(Positive) \cap Denied)

Materialized ==
    [current |-> Evidence, carried |-> CarriedRows, collected |-> Measured,
     pinned |-> run.pinned, by |-> run.wanted]

\* compact_operational_history: verdicts on older heads or under older detectors go.
Retained == {v \in results : v.head = stored[v.repo] /\ v.detector = fps[v.library]}

\* The tables a checkpoint carries; the journal of runs is in it too, but no run in progress.
Saved(candidates, verdicts, completed) ==
    [stored |-> stored, fps |-> fps, active |-> candidates, results |-> verdicts,
     last |-> completed, refuted |-> refuted, shadowed |-> shadowed]

\* What is about to be published is still public, then it is published.
PublishCatalog ==
    /\ run.stage = "aggregating"
    /\ \A p \in Evidence \cup CarriedRows : listed[RepoOf(p)]
    /\ release' = Materialized
    /\ RetireDenied
    /\ last' = run.code
    /\ run' = [NoRunYet EXCEPT !.stage = "complete"]
    /\ results' = Retained
    /\ exported' = Saved(active', Retained, run.code)
    /\ UNCHANGED <<tree, listed, code, stored, fps, refuted, shadowed, remaining>>

FailCatalog ==
    /\ run.stage \notin {"none", "failed", "complete"} /\ AnotherFollows
    /\ run' = IF run.pinned = NoRunYet.pinned THEN [NoRunYet EXCEPT !.stage = "failed"]
              ELSE [run EXCEPT !.stage = "failed", !.grouped = {}]
    /\ UNCHANGED <<tree, listed, code, stored, fps, active, results, last, release,
                   exported, refuted, shadowed, remaining>>

Import(saved) ==
    /\ stored' = saved.stored /\ fps' = saved.fps
    /\ active' = saved.active /\ results' = saved.results
    /\ last' = saved.last /\ refuted' = saved.refuted /\ shadowed' = saved.shadowed

\* The database is gone, and with it a run that failed: the next one starts from the
\* checkpoint of the live release, or from nothing before the first release.
RestoreState ==
    /\ run.stage = "failed" /\ AnotherFollows
    /\ Import(exported)
    /\ run' = IF last' = NoCode THEN NoRunYet ELSE [NoRunYet EXCEPT !.stage = "complete"]
    /\ UNCHANGED <<tree, listed, code, release, exported, remaining>>

--------------------------------------------------------------------------------
(* The world.  It is read when discovery searches, when heads are pinned and when the        *)
(* catalog is published: a change in between shows at the next of these.                      *)

PushTo(r) ==
    /\ run.stage \in {"discovering", "resolving"}
    /\ remaining.pushes > 0
    /\ \E uses \in Usages : tree' = [tree EXCEPT ![r] = Append(@, uses)]
    /\ remaining' = [remaining EXCEPT !.pushes = @ - 1]
    /\ UNCHANGED <<listed, code, stored, fps, active, results, run, last, release, exported,
                   refuted, shadowed>>

Withdraw(r) ==
    /\ run.stage \in {"discovering", "resolving", "aggregating"}
    /\ listed[r]
    /\ remaining.pushes > 0
    /\ listed' = [listed EXCEPT ![r] = FALSE]
    /\ remaining' = [remaining EXCEPT !.pushes = @ - 1]
    /\ UNCHANGED <<tree, code, stored, fps, active, results, run, last, release, exported,
                   refuted, shadowed>>

\* The process of a run has one code.
EditCode ==
    /\ run.stage \in {"none", "failed", "complete"} /\ AnotherFollows
    /\ remaining.edits > 0
    /\ \/ \E l \in Detectors : code' = [code EXCEPT !.detector[l] = @ + 1]
       \/ \E p \in Deniable : code' = [code EXCEPT !.denied = @ \cup {p}]
       \/ \E r \in Catalogued : code' = [code EXCEPT !.banned = @ \cup {r}]
    /\ remaining' = [remaining EXCEPT !.edits = @ - 1]
    /\ UNCHANGED <<tree, listed, stored, fps, active, results, run, last, release, exported,
                   refuted, shadowed>>

CatalogInit ==
    /\ tree \in [Catalogued -> {<<uses>> : uses \in Usages}]
    /\ listed = [r \in Catalogued |-> TRUE]
    /\ code = [NoCode EXCEPT !.detector = [l \in Detectors |-> 1]]
    /\ stored = [r \in Catalogued |-> 0]
    /\ fps = NoCode.detector
    /\ active = {} /\ results = {} /\ refuted = {} /\ shadowed = {}
    /\ run = NoRunYet /\ last = NoCode /\ release = NothingPublished
    /\ exported = Saved({}, {}, NoCode)
    /\ remaining = [pushes |-> MaxEvents, edits |-> MaxEdits, invocations |-> MaxInvocations]

CatalogNext ==
    \/ PlanRun \/ ResumePlan \/ DiscoverPairs \/ PinHeads \/ PersistCandidates
    \/ \E r \in Catalogued : ScanRepository(r)
    \/ FinishScans \/ PublishCatalog \/ FailCatalog \/ RestoreState
    \/ \E r \in Catalogued : PushTo(r) \/ Withdraw(r)
    \/ EditCode

CatalogSpec == CatalogInit /\ [][CatalogNext]_catalogVars

--------------------------------------------------------------------------------
(* Properties. *)

\* A pair has a reason to leave the catalog: its repository is closed or banned, the
\* policy denies it, or its latest verdict is a rejection.
Withdrawn(p) == ~Resolved(p) \/ p \in Denied \/ p \in refuted

Listed(r) == r.current \cup r.carried

StillUsed(p) == Resolved(p) /\ LibraryOf(p) \in Uses(RepoOf(p))

\* Whatever discovery saw or missed, whichever runs failed, were resumed or followed in
\* another mode: of the libraries a run was asked for, the catalog keeps every adopter it
\* had and shows every adopter discovery found, unless there is a reason to withdraw it.
\* An adopter it had may be lost where discovery met nothing of it but a reviewed false
\* positive, in this run or in an earlier one; that loss is AdoptionsStayVisible below.
\* One that was found stays whatever else was found.
SelectedAdoptersSurvive ==
    [][release' /= release =>
        \A p \in (Listed(release) \ shadowed) \cup {q \in Accepted : StillUsed(q)} :
            LibraryOf(p) \in run.wanted =>
                p \in release'.current \/ Withdrawn(p)]_catalogVars

\* pipeline.py:4981 of the reviewed false positives: "A changed blob, path, source, or
\* signal remains eligible, so future genuine adoption cannot be hidden by an old
\* collision".  A published adopter of a selected library that still uses it stays.
AdoptionsStayVisible ==
    [][release' /= release =>
        \A p \in {q \in release.current : StillUsed(q)} :
            LibraryOf(p) \in run.wanted =>
                p \in release'.current \/ Withdrawn(p)]_catalogVars

\* Every row that is not carried over from V1 is backed by the tree of the head that was
\* pinned for the run that published it, in a repository that run admitted; a carried row
\* never belongs to a library the run was asked for.
CatalogIsProven ==
    /\ \A p \in release.current :
        /\ release.pinned[RepoOf(p)] > 0
        /\ LibraryOf(p) \in tree[RepoOf(p)][release.pinned[RepoOf(p)]]
    /\ \A p \in release.carried :
        p \in V1Pairs /\ release.pinned[RepoOf(p)] > 0 /\ LibraryOf(p) \notin release.by

\* docs/Documentation.md:114 of `onboard`: "output is materialized from complete shared
\* state, so unrelated libraries cannot be wiped".
UnrelatedLibrariesSurvive ==
    [][release' /= release =>
        \A p \in {q \in release.current : StillUsed(q)} :
            LibraryOf(p) \in release'.collected \ run.wanted =>
                p \in release'.current \/ Withdrawn(p)]_catalogVars

================================================================================
