------------------------------- MODULE ScanWorker ------------------------------
(***************************************************************************)
(* What one scan does with the content of its cached repository             *)
(* (collector/scanner_v2.py _worker, the *_locked methods of RepoCache, the *)
(* dating of scan.py).  The cache keeps a shallow, blobless clone; a scan   *)
(* fetches what it needs of the current tree and of the history, and stops  *)
(* early where an earlier result already proves a first use.  What an       *)
(* earlier scan left behind, or failed to fetch, must not show in a verdict.*)
(*                                                                         *)
(* A history is the sequence of commits "git log --reverse" prints; a merge *)
(* of an old branch inserts a commit, a force push replaces the last ones.  *)
(* Two paths stand for the kinds of files: `src` is own source, which the   *)
(* sparse checkout contains, `doc` any other text.  Their contents are what *)
(* detectors look for: evidence of direct use ("d"), a weaker token of the  *)
(* same library ("hint"), evidence of a mature library ("m"), the same in a *)
(* version above the size policy ("large"), which exempts own source, and a *)
(* Git LFS pointer to direct use ("lfs").                                  *)
(***************************************************************************)
EXTENDS Naturals, Sequences, FiniteSets, FiniteSetsExt, SequencesExt

CONSTANTS
    Trees,          \* trees a commit may have: [src, doc -> content]
    MaxCommits,     \* bound: length of a history
    MaxPushes,      \* bound: pushes explored
    MaxScans,       \* bound: scans explored
    DeepenSteps     \* length of _HISTORY_DEEPEN_STEPS; a step is one commit here

Paths == {"src", "doc"}
Contents == {"none", "d", "hint", "m", "large", "lfs"}
Libraries == {"d", "m"}

ASSUME WorkerAssumption ==
    /\ Trees \subseteq {tree \in [Paths -> Contents] : tree["src"] # "large"}
    /\ {MaxCommits, MaxPushes, MaxScans, DeepenSteps} \subseteq Nat

VARIABLES
    remote,         \* the public repository: [id, tree] of each commit
    pushed,         \* pushes so far; they number the commits
    merged,         \* has an old branch been merged?
    clone,          \* the cached repository and its metadata
    prior,          \* _first_use_boundaries of the last positive result
    scan,           \* the scan in progress
    scans           \* scans so far

workVars == <<remote, pushed, merged, clone, prior, scan, scans>>

NoClone == [exists |-> FALSE, objects |-> {}, cut |-> {}, blobs |-> {}, marker |-> 0]

Idle == [at |-> "idle", line |-> <<>>, cands |-> {}, only |-> FALSE, bare |-> FALSE,
         index |-> {}, seen |-> {}, full |-> FALSE, late |-> FALSE, partial |-> FALSE,
         steps |-> 0, rows |-> {}, counted |-> 0, status |-> "none"]

At(place) == scan.at = place
Move(place) == scan' = [scan EXCEPT !.at = place]
End(status) == scan' = [scan EXCEPT !.at = "done", !.status = status]

Ids(line) == {line[i].id : i \in DOMAIN line}
Position(line, id) == CHOOSE i \in DOMAIN line : line[i].id = id
Tip == Last(scan.line)
Tree == Tip.tree

\* What "git log" shows of a history: back to the last cut.
Visible(line, cut) ==
    LET cuts == {i \in DOMAIN line : line[i].id \in cut} IN
    IF cuts = {} THEN DOMAIN line ELSE Max(cuts) .. Len(line)

Local == Visible(scan.line, clone.cut)
Complete == clone.cut = {}

\* A depth-one fetch cuts the history at a commit that has parents.
CutAt(line, id) == IF Position(line, id) = 1 THEN {} ELSE {id}

Initial == "m" \in scan.cands     \* initial_mature

--------------------------------------------------------------------------------
(* The public repository. *)

Commit(tree) == [id |-> pushed + 1, tree |-> tree]

Push(tree) ==
    /\ pushed < MaxPushes /\ Len(remote) < MaxCommits
    /\ remote' = Append(remote, Commit(tree))
    /\ pushed' = pushed + 1
    /\ UNCHANGED <<merged, clone, prior, scan, scans>>

ForcePush(i, tree) ==
    /\ pushed < MaxPushes
    /\ remote' = Append(SubSeq(remote, 1, i - 1), Commit(tree))
    /\ pushed' = pushed + 1
    /\ UNCHANGED <<merged, clone, prior, scan, scans>>

Rewind(i) ==
    /\ pushed < MaxPushes
    /\ remote' = SubSeq(remote, 1, i)
    /\ pushed' = pushed + 1
    /\ UNCHANGED <<merged, clone, prior, scan, scans>>

\* An old branch comes in with a merge commit whose tree is the current one.
Merge(i, tree) ==
    /\ pushed + 1 < MaxPushes /\ Len(remote) + 1 < MaxCommits
    /\ remote' = Append(InsertAt(remote, i, Commit(tree)),
                        [id |-> pushed + 2, tree |-> Last(remote).tree])
    /\ pushed' = pushed + 2
    /\ merged' = TRUE
    /\ UNCHANGED <<clone, prior, scan, scans>>

--------------------------------------------------------------------------------
(* ensure: clone or fetch the commit, nothing of its blobs. *)

\* The task names the head the planner saw.
PlanScan(cands, only) ==
    /\ At("idle")
    /\ scans < MaxScans
    /\ scan' = [Idle EXCEPT !.at = "ensure", !.line = remote, !.cands = cands, !.only = only]
    /\ scans' = scans + 1
    /\ UNCHANGED <<remote, pushed, merged, clone, prior>>

Clone ==
    /\ At("ensure")
    /\ ~clone.exists
    /\ clone' = [NoClone EXCEPT !.exists = TRUE, !.objects = {Last(remote).id},
                                !.cut = CutAt(remote, Last(remote).id)]
    /\ UNCHANGED <<remote, pushed, merged, prior, scan, scans>>

\* Only a shallow clone is fetched with a depth of one.
FetchHead ==
    /\ At("ensure")
    /\ clone.exists
    /\ clone' = IF Tip.id \in clone.objects THEN clone
                ELSE IF Complete
                THEN [clone EXCEPT !.objects = @ \cup Ids(scan.line)]
                ELSE [clone EXCEPT !.objects = @ \cup {Tip.id},
                                   !.cut = @ \cup CutAt(scan.line, Tip.id)]
    /\ Move(IF scan.only \/ Initial \/ scan.bare \/ scan.seen # {} THEN "checkout" ELSE "bare")
    /\ UNCHANGED <<remote, pushed, merged, prior, scans>>

--------------------------------------------------------------------------------
(* The current tree. *)

\* prepare_bare_current_tree_locked hydrates own source; an LFS pointer, like a
\* custom filter, is left to a worktree.
PrepareBare(filter) ==
    /\ At("bare")
    /\ clone' = [clone EXCEPT !.blobs = @ \cup {<<Tip.id, "src">>}]
    /\ scan' = [scan EXCEPT !.bare = ~filter /\ Tree["src"] # "lfs",
                            !.seen = {"src"},
                            !.at = IF ~filter /\ Tree["src"] # "lfs" THEN "bare triage" ELSE "ensure"]
    /\ UNCHANGED <<remote, pushed, merged, prior, scans>>

\* triage_tree on what is in sight: libraries that direct evidence or a token names.
Named(paths) ==
    (IF "src" \in paths /\ Tree["src"] \in {"d", "hint", "lfs"} THEN {"d"} ELSE {}) \cup
    (IF \E p \in paths : Tree[p] \in {"m", "large"} THEN {"m"} ELSE {})

Relevant == scan.cands \cup Named(scan.seen)

\* No mature library, and neither direct nor weaker evidence of the others.
BareTriage ==
    /\ At("bare triage")
    /\ IF "m" \notin Relevant /\ "d" \notin Named(scan.seen)
       THEN End("clean_reject")
       ELSE Move("ensure")
    /\ UNCHANGED <<remote, pushed, merged, clone, prior, scans>>

\* The sparse checkout materializes own source, and LFS objects that matter.
Checkout ==
    /\ At("checkout")
    /\ clone' = [clone EXCEPT !.blobs = @ \cup {<<Tip.id, "src">>}]
    /\ scan' = [scan EXCEPT !.index = Paths,
                   !.at = IF scan.only THEN "complete" ELSE IF Initial THEN "hydrate" ELSE "triage"]
    /\ UNCHANGED <<remote, pushed, merged, prior, scans>>

AllPresent == \A p \in Paths : <<Tip.id, p>> \in clone.blobs
WithinPolicy == {p \in Paths : Tree[p] # "large"}

\* ensure_current_tree_blobs_locked: nothing if the marker names this head;
\* only the marker if a complete repository misses no blob; else a depth-one
\* refetch of everything within the size policy, and then the marker.
HydrateTree(ok) ==
    /\ At("hydrate")
    /\ IF clone.marker = Tip.id THEN clone' = clone
       ELSE IF Complete /\ AllPresent THEN clone' = [clone EXCEPT !.marker = Tip.id]
       ELSE clone' = IF ok
                     THEN [clone EXCEPT !.marker = Tip.id,
                              !.blobs = @ \cup ({Tip.id} \X WithinPolicy),
                              !.cut = @ \cup CutAt(scan.line, Tip.id)]
                     ELSE clone
    /\ IF ok THEN Move("prune") ELSE End("error")
    /\ UNCHANGED <<remote, pushed, merged, prior, scans>>

Missing == {p \in Paths : <<Tip.id, p>> \notin clone.blobs}

\* Defect: only what is missing leaves the index.
PrunePromised ==
    /\ At("prune")
    /\ scan' = [scan EXCEPT !.index = @ \ Missing, !.at = "triage", !.full = TRUE]
    /\ UNCHANGED <<remote, pushed, merged, clone, prior, scans>>

\* prune_missing_current_blobs_locked: what is missing leaves the ephemeral
\* index, and so does an asset above the policy that happens to be there.
Prune ==
    /\ At("prune")
    /\ scan' = [scan EXCEPT !.index = (@ \ Missing) \cap WithinPolicy, !.at = "triage", !.full = TRUE]
    /\ UNCHANGED <<remote, pushed, merged, clone, prior, scans>>

\* triage_tree in the checkout: own source, or all of the pruned index.  A file
\* whose read the alarm interrupts counts as unreadable.
Triage(skipped) ==
    /\ At("triage")
    /\ skipped => ~scan.bare
    /\ scan' = [scan EXCEPT !.at = "select", !.late = skipped,
                   !.seen = (IF scan.full THEN scan.index ELSE {"src"})
                            \ (IF skipped THEN {"src"} ELSE {})]
    /\ UNCHANGED <<remote, pushed, merged, clone, prior, scans>>

\* The triage found a mature library: once more, with everything.
Select ==
    /\ At("select")
    /\ IF scan.late THEN End("error")
       ELSE Move(IF "m" \in Relevant /\ ~scan.full THEN "hydrate" ELSE "probe")
    /\ UNCHANGED <<remote, pushed, merged, clone, prior, scans>>

--------------------------------------------------------------------------------
(* The verdict on the current tree. *)

Row(lib, class, paths) == [lib |-> lib, class |-> class, paths |-> paths, first |-> 0]

\* Direct evidence is confirmed by itself; a weaker token goes through the
\* detectors without their "confirmed"; mature libraries search the whole index.
Positives ==
    LET mature == {p \in scan.index : Tree[p] \in {"m", "large"}} IN
    (IF "src" \in scan.seen /\ Tree["src"] \in {"d", "lfs"}
     THEN {Row("d", "confirmed", {"src"})} ELSE {}) \cup
    (IF "src" \in scan.seen /\ Tree["src"] = "hint"
     THEN {Row("d", "targeted", {"src"})} ELSE {}) \cup
    (IF "m" \in Relevant /\ mature # {} THEN {Row("m", "targeted", mature)} ELSE {})

Dated == UNION {row.paths : row \in scan.rows}

\* scan_repo may fail; _assert_lfs_history_compatible refuses to date what only
\* an LFS object shows.
Probe(ok) ==
    /\ At("probe")
    /\ LET rows == Positives IN
       scan' = IF ~ok \/ \E row \in rows : "src" \in row.paths /\ Tree["src"] = "lfs"
               THEN [scan EXCEPT !.at = "done", !.status = "error"]
               ELSE IF rows = {}
               THEN [scan EXCEPT !.at = "done", !.status = "clean_reject"]
               ELSE [scan EXCEPT !.rows = rows, !.at = "until", !.steps = 0]
    /\ UNCHANGED <<remote, pushed, merged, clone, prior, scans>>

--------------------------------------------------------------------------------
(* The history. *)

\* prior_first_use_boundaries: of the task's libraries, from other heads.
Known == {b \in prior : b.lib \in scan.cands /\ b.head # Tip.id}
PriorCommits == {b.commit : b \in Known}
Reachable == {scan.line[i].id : i \in Local}

\* One fetch --deepen: cuts that the remote still knows move back by a commit,
\* and what it has above them comes along.
Deepen ==
    /\ scan.steps < DeepenSteps
    /\ LET known == {i \in DOMAIN remote : remote[i].id \in clone.cut}
           cut == {remote[i - 1].id : i \in {j \in known : j > 2}}
                    \ {remote[i].id : i \in known}
       IN clone' = [clone EXCEPT
             !.cut = (@ \ {remote[i].id : i \in known}) \cup cut,
             !.objects = @ \cup {remote[i].id : i \in Visible(remote, cut)}]
    /\ scan' = [scan EXCEPT !.steps = @ + 1]

\* ensure_history_until_locked with the commits of earlier boundaries, or,
\* without any, ensure_full_history_locked.
Enough(required) == Complete \/ (required # {} /\ required \subseteq Reachable)

DeepenUntil ==
    /\ At("until")
    /\ ~Enough(PriorCommits)
    /\ Deepen
    /\ UNCHANGED <<remote, pushed, merged, prior, scans>>

HistoryReached ==
    /\ At("until")
    /\ Enough(PriorCommits)
    /\ scan' = [scan EXCEPT !.at = "history blobs", !.partial = ~Complete]
    /\ UNCHANGED <<remote, pushed, merged, clone, prior, scans>>

\* ensure_history_path_blobs_locked: every version of the evidence paths.
HydrateHistory ==
    /\ At("history blobs")
    /\ clone' = [clone EXCEPT !.blobs = @ \cup (Reachable \X Dated)]
    /\ Move("date")
    /\ UNCHANGED <<remote, pushed, merged, prior, scans>>

--------------------------------------------------------------------------------
(* Dating. *)

Shows(commit, lib, class, path) ==
    LET content == commit.tree[path] IN
    CASE lib = "m"             -> content \in {"m", "large"}
      [] class = "confirmed"   -> content = "d"
      [] OTHER                 -> content \in {"d", "hint"}

\* _date_first_use: the first commit in sight that has the evidence on a path of
\* the plan.
FirstIn(range, line, row) ==
    LET hits == {i \in range : \E p \in row.paths : Shows(line[i], row.lib, row.class, p)} IN
    IF hits = {} THEN 0 ELSE line[Min(hits)].id

\* _reuse_first_use_boundary: same plan, still an ancestor, evidence still there.
Reusable(row) ==
    {b \in Known :
        /\ b.lib = row.lib /\ b.class = row.class /\ b.paths = row.paths
        /\ b.commit \in Reachable
        /\ Shows(scan.line[Position(scan.line, b.commit)], row.lib, row.class, b.path)}

DatedRow(row) ==
    [row EXCEPT !.first =
        IF Reusable(row) # {} THEN (CHOOSE b \in Reusable(row) : TRUE).commit
        ELSE FirstIn(Local, scan.line, row)]

\* Within a partial history every library has to reuse its boundary.
DateRows ==
    /\ At("date")
    /\ ~scan.partial \/ \A row \in scan.rows : Reusable(row) # {}
    /\ scan' = [scan EXCEPT !.rows = {DatedRow(row) : row \in @}, !.at = "complete", !.steps = 0]
    /\ UNCHANGED <<remote, pushed, merged, clone, prior, scans>>

\* FirstUseReuseUnavailable: complete history, all blobs, and again.
ReuseUnavailable ==
    /\ At("date")
    /\ scan.partial
    /\ \E row \in scan.rows : Reusable(row) = {}
    /\ scan' = [scan EXCEPT !.at = "full", !.steps = 0]
    /\ UNCHANGED <<remote, pushed, merged, clone, prior, scans>>

\* ensure_full_history_locked, before the second dating and before counting.
DeepenFully ==
    /\ At("full") \/ At("complete")
    /\ ~Complete
    /\ Deepen
    /\ UNCHANGED <<remote, pushed, merged, prior, scans>>

FullHistory ==
    /\ At("full")
    /\ Complete
    /\ scan' = [scan EXCEPT !.at = "history blobs", !.partial = FALSE]
    /\ UNCHANGED <<remote, pushed, merged, clone, prior, scans>>

\* Defect: the counts are taken over the history in sight.
AnalyzeInSight ==
    /\ At("complete")
    /\ scan' = [scan EXCEPT !.at = "done", !.status = "match", !.counted = Cardinality(Local)]
    /\ UNCHANGED <<remote, pushed, merged, clone, prior, scans>>

\* analyze_repository counts over all commits.
Analyze ==
    /\ At("complete")
    /\ Complete
    /\ scan' = [scan EXCEPT !.at = "done", !.status = "match", !.counted = Cardinality(Local)]
    /\ UNCHANGED <<remote, pushed, merged, clone, prior, scans>>

\* Any Git command may fail, the deadline may pass, the cache may refuse to grow,
\* the remote may stay shallow: the scan ends, what it fetched stays.
Fail ==
    /\ scan.at \notin {"idle", "done"}
    /\ End("error")
    /\ UNCHANGED <<remote, pushed, merged, clone, prior, scans>>

\* The coordinator stores a result with its boundaries; the next task for this
\* repository gets them, unless the verdict is of the same head.
Boundary(row) ==
    LET commit == scan.line[Position(scan.line, row.first)] IN
    [lib |-> row.lib, class |-> row.class, paths |-> row.paths, head |-> Tip.id,
     commit |-> row.first,
     path |-> CHOOSE p \in row.paths : Shows(commit, row.lib, row.class, p)]

RecordResult ==
    /\ At("done")
    /\ prior' = IF scan.status = "match" /\ ~scan.only
                THEN {b \in prior : \A row \in scan.rows : row.lib # b.lib}
                       \cup {Boundary(row) : row \in scan.rows}
                ELSE prior
    /\ scan' = Idle
    /\ UNCHANGED <<remote, pushed, merged, clone, scans>>

\* The cache evicts an entry nobody has locked.
Evict ==
    /\ At("idle") \/ At("ensure")
    /\ clone.exists
    /\ clone' = NoClone
    /\ UNCHANGED <<remote, pushed, merged, prior, scan, scans>>

--------------------------------------------------------------------------------
WorkInit ==
    /\ \E tree \in Trees : remote = <<[id |-> 1, tree |-> tree]>>
    /\ pushed = 1
    /\ merged = FALSE
    /\ clone = NoClone
    /\ prior = {}
    /\ scan = Idle
    /\ scans = 0

WorkNext ==
    \/ \E tree \in Trees : Push(tree)
    \/ \E tree \in Trees, i \in DOMAIN remote : ForcePush(i, tree) \/ Merge(i, tree)
    \/ \E i \in 1 .. Len(remote) - 1 : Rewind(i)
    \/ \E cands \in (SUBSET Libraries) \ {{}} : PlanScan(cands, FALSE)
    \/ PlanScan({}, TRUE)
    \/ Clone \/ FetchHead
    \/ \E filter \in BOOLEAN : PrepareBare(filter)
    \/ BareTriage \/ Checkout
    \/ \E ok \in BOOLEAN : HydrateTree(ok)
    \/ Prune
    \/ \E skipped \in BOOLEAN : Triage(skipped)
    \/ Select
    \/ \E ok \in BOOLEAN : Probe(ok)
    \/ DeepenUntil \/ HistoryReached \/ HydrateHistory
    \/ DateRows \/ ReuseUnavailable \/ DeepenFully \/ FullHistory \/ Analyze
    \/ Fail
    \/ RecordResult
    \/ Evict

WorkSpec == WorkInit /\ [][WorkNext]_workVars

--------------------------------------------------------------------------------
(* What a verdict is worth. *)

\* What a scan of this head finds with an empty cache, and its dates with all of the history.
FoundRows ==
    LET mature == "m" \in scan.cands \/ Tree["src"] = "m" IN
    (IF Tree["src"] = "d" THEN {Row("d", "confirmed", {"src"})} ELSE {}) \cup
    (IF Tree["src"] = "hint" THEN {Row("d", "targeted", {"src"})} ELSE {}) \cup
    (IF mature /\ (Tree["src"] = "m" \/ Tree["doc"] = "m")
     THEN {Row("m", "targeted", {p \in {"src", "doc"} : Tree[p] = "m"})} ELSE {})

ExpectedRows ==
    {[row EXCEPT !.first = FirstIn(DOMAIN scan.line, scan.line, row)] : row \in FoundRows}

\* "So cold and warm verdicts are byte-identical": a verdict that is not an error
\* names the libraries and the first uses that a scan from scratch would, whatever
\* earlier scans fetched, failed to fetch or proved, and however the repository was
\* rewritten since.  A merge of an old branch is the exception: see the next.
VerdictIsReproducible ==
    At("done") /\ scan.status # "error" /\ ~merged /\ ~scan.only =>
        /\ scan.rows = ExpectedRows
        /\ scan.status = "match" <=> scan.rows # {}

\* Even then the first use is a commit of the scanned history that has the
\* evidence on a dated path, and the counts are over all of that history.
ResultIsProven ==
    At("done") /\ scan.status = "match" =>
        /\ scan.counted = Len(scan.line)
        /\ \A row \in scan.rows :
             \E i \in DOMAIN scan.line, p \in row.paths :
                /\ scan.line[i].id = row.first
                /\ Shows(scan.line[i], row.lib, row.class, p)

================================================================================
