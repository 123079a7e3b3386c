-------------------------------- MODULE Discovery -------------------------------
(***************************************************************************)
(* The discovery stage over several runs (collector/pipeline.py _discover). *)
(* Every run searches Sourcegraph for each library; GitHub code search is   *)
(* rotated, a library is searched again when its last complete epoch is     *)
(* older than DueAge.  A run that does not search a library carries the     *)
(* certificate of an earlier run forward; a candidate may be retired only   *)
(* on certificates that are complete and younger than StaleAge.  A run may  *)
(* be interrupted and resumed at any later day: queries it completed are    *)
(* not searched again.                                                      *)
(*                                                                         *)
(* One query pack per library; what a search finds is left to CodeSearch,   *)
(* here it is complete or not; the attempts of a task are left to           *)
(* TaskJournal.  Time advances in steps of 7 days; at most one of them ends *)
(* during an invocation (max_wall_seconds).                                 *)
(***************************************************************************)
EXTENDS Naturals, Sequences, FiniteSetsExt

CONSTANTS
    LibraryOrder,   \* the libraries, in the order of the catalog
    DueAge,         \* 21 days, in steps
    StaleAge,       \* 28 days, in steps
    MaxRuns,        \* bound: runs
    MaxDay          \* bound: days explored, in steps

Libraries == {LibraryOrder[i] : i \in DOMAIN LibraryOrder}
Sources == {"sourcegraph", "github"}
Modes == {"refresh", "reconcile"}

ASSUME DiscoveryAssumption ==
    /\ LibraryOrder \in Seq(Libraries) /\ LibraryOrder /= <<>>
    /\ {DueAge, StaleAge, MaxRuns, MaxDay} \subseteq Nat
    /\ DueAge < StaleAge    \* by more than an invocation lasts

VARIABLES
    day,
    runs,           \* the runs: [mode, status]; the last one may be resumed
    queries,        \* tasks of the last run, while it is open: [Libraries \X Sources -> task],
                    \* the day of a GitHub search in `searched`
    coverage,       \* discovery_coverage, GitHub: [run, library, complete, at, searched]
    lanes,          \* the queries this invocation has still to take
    due,            \* github_ids of this invocation
    began,          \* day the invocation began
    stage,          \* "idle", "querying" or "finished"
    certificates    \* of the finished stage: [library, stale, searched]

discoveryVars == <<day, runs, queries, coverage, lanes, due, began, stage, certificates>>

NoQuery == [status |-> "absent", complete |-> FALSE, searched |-> 0]
Enqueued == [NoQuery EXCEPT !.status = "pending"]
NoQueries == [q \in Libraries \X Sources |-> NoQuery]
Current == Len(runs)

--------------------------------------------------------------------------------
(* Coverage. *)

\* Complete rows of completed runs.
Certified(l) == {c \in coverage : c.library = l /\ c.complete /\ runs[c.run].status = "complete"}
Newest(rows) == CHOOSE c \in rows : \A d \in rows : d.at <= c.at

\* Defect: a library is searched again only when its certificate is stale.
DueWhenStale == {l \in Libraries : Certified(l) = {} \/ day - Newest(Certified(l)).at >= StaleAge}

\* _github_lane_ids
GithubLaneIds == {l \in Libraries : Certified(l) = {} \/ day - Newest(Certified(l)).at >= DueAge}

\* record_discovery_coverage: one row per run and query, stamped with the time of
\* the recording.
RecordCoverage(l, complete, searched) ==
    coverage' = {c \in coverage : c.run /= Current \/ c.library /= l}
                  \cup {[run |-> Current, library |-> l, complete |-> complete, at |-> day,
                         searched |-> searched]}

--------------------------------------------------------------------------------
(* The stage. *)

\* GitHub decides when it covers every library, otherwise Sourcegraph does.
Authoritative == runs[Current].mode = "reconcile" \/ due = Libraries
Required == IF Authoritative THEN "github" ELSE "sourcegraph"
Advisory == IF Authoritative THEN {"sourcegraph"} ELSE {}

\* Every library on Sourcegraph and, where due, on GitHub.
LanesOf(ids) ==
    LET lane(i) == <<<<LibraryOrder[i], "sourcegraph">>>>
                     \o IF LibraryOrder[i] \in ids THEN <<<<LibraryOrder[i], "github">>>>
                        ELSE <<>>
        upTo[i \in 0 .. Len(LibraryOrder)] == IF i = 0 THEN <<>> ELSE upTo[i - 1] \o lane(i)
    IN upTo[Len(LibraryOrder)]

Begin(ids, tasks) ==
    /\ due' = ids
    /\ lanes' = LanesOf(ids)
    /\ queries' = [q \in DOMAIN tasks |->
                     IF tasks[q].status = "absent" /\ (q[2] = "sourcegraph" \/ q[1] \in ids)
                     THEN Enqueued ELSE tasks[q]]
    /\ began' = day
    /\ stage' = "querying"
    /\ certificates' = {}
    /\ UNCHANGED <<day, coverage>>

LanesDue(mode) == IF mode = "reconcile" THEN Libraries ELSE GithubLaneIds

NewRun(mode) ==
    /\ stage = "idle" /\ Current < MaxRuns
    /\ Current > 0 => runs[Current].status \in {"complete", "abandoned"}
    /\ runs' = Append(runs, [mode |-> mode, status |-> "running"])
    /\ Begin(LanesDue(mode), NoQueries)

\* The lanes due are computed anew; queries of the run are kept.
ResumeRun ==
    /\ stage = "idle" /\ Current > 0
    /\ runs[Current].status \in {"running", "failed"}
    /\ runs' = [runs EXCEPT ![Current].status = "running"]
    /\ Begin(LanesDue(runs[Current].mode), queries)

Ended(status) ==
    /\ runs' = [runs EXCEPT ![Current].status = status]
    /\ stage' = "idle" /\ lanes' = <<>> /\ due' = {} /\ began' = 0 /\ certificates' = {}

Raised == Ended("failed")

\* The next query is sent unless its result is in the journal; an incomplete
\* required one is recorded and raises, leaving the task to a retry.
SearchLane ==
    /\ stage = "querying" /\ lanes /= <<>>
    /\ LET q == Head(lanes) IN
       /\ queries[q].status = "pending"
       /\ \/ \E complete \in BOOLEAN :
               /\ complete \/ q[2] /= Required
               /\ queries' = [queries EXCEPT ![q] = [NoQuery EXCEPT
                                   !.status = "complete", !.complete = complete,
                                   !.searched = IF q[2] = "github" THEN day ELSE 0]]
               /\ UNCHANGED <<runs, coverage, lanes, due, began, stage, certificates>>
          \/ /\ q[2] = Required
             /\ IF q[2] = "github" THEN RecordCoverage(q[1], FALSE, 0) ELSE UNCHANGED coverage
             /\ Raised
             /\ UNCHANGED queries
          \/ /\ Raised
             /\ UNCHANGED <<queries, coverage>>
    /\ UNCHANGED day

\* A query whose result is in the journal, from this or an earlier invocation, is
\* recorded as covered now.
RecordLane ==
    /\ stage = "querying" /\ lanes /= <<>>
    /\ LET q == Head(lanes) IN
       /\ queries[q].status = "complete"
       /\ IF q[2] = "github"
          THEN RecordCoverage(q[1], queries[q].complete, queries[q].searched)
          ELSE UNCHANGED coverage
    /\ lanes' = Tail(lanes)
    /\ UNCHANGED <<day, runs, queries, due, began, stage, certificates>>

\* combine_discovery_results: every lane this invocation took that is not advisory.
Composite ==
    \A l \in Libraries, s \in Sources :
        (s = "sourcegraph" \/ l \in due) /\ s \notin Advisory => queries[<<l, s>>].complete

\* _carry_forward_coverage_certificates
CarriedForward ==
    {[library |-> l, stale |-> day - Newest(Certified(l)).at >= StaleAge,
      searched |-> Newest(Certified(l)).searched]
        : l \in {m \in Libraries \ due : Certified(m) /= {}}}

OfThisRun ==
    {[library |-> l, stale |-> FALSE, searched |-> queries[<<l, "github">>].searched] : l \in due}

FinishDiscovery ==
    /\ stage = "querying" /\ lanes = <<>>
    /\ IF Composite
       THEN /\ stage' = "finished"
            /\ certificates' = OfThisRun \cup CarriedForward
            /\ UNCHANGED <<runs, lanes, due, began>>
       ELSE Raised
    /\ UNCHANGED <<day, queries, coverage>>

\* Whatever ends the invocation early: a deadline, a budget, the death of the process.
StageAborts ==
    /\ stage /= "idle"
    /\ Raised
    /\ UNCHANGED <<day, queries, coverage>>

\* The rest of the run succeeds.
CompleteRun ==
    /\ stage = "finished"
    /\ Ended("complete")
    /\ queries' = NoQueries
    /\ UNCHANGED <<day, coverage>>

AbandonRun ==
    /\ stage = "idle" /\ Current > 0 /\ runs[Current].status = "failed"
    /\ Ended("abandoned")
    /\ queries' = NoQueries
    /\ UNCHANGED <<day, coverage>>

NextDay ==
    /\ day < MaxDay
    /\ stage = "idle" \/ day = began
    /\ day' = day + 1
    /\ UNCHANGED <<runs, queries, coverage, lanes, due, began, stage, certificates>>

--------------------------------------------------------------------------------
DiscoveryInit ==
    /\ day = 0 /\ began = 0
    /\ runs = <<>>
    /\ queries = NoQueries
    /\ coverage = {} /\ lanes = <<>> /\ due = {}
    /\ stage = "idle" /\ certificates = {}

DiscoveryNext ==
    \/ \E mode \in Modes : NewRun(mode)
    \/ ResumeRun
    \/ SearchLane \/ RecordLane \/ FinishDiscovery
    \/ StageAborts \/ CompleteRun \/ AbandonRun
    \/ NextDay

DiscoverySpec == DiscoveryInit /\ [][DiscoveryNext]_discoveryVars

--------------------------------------------------------------------------------
(* Properties. *)

\* _retirement_eligible_library_ids
RetirementEligible == {c.library : c \in {d \in certificates : ~d.stale}}

\* Rotation never opens a gap: whenever discovery finishes, whatever runs were
\* interrupted, failed, resumed or abandoned before, every library has a complete
\* certificate that is not stale, so that its candidates may be retired.
RotationKeepsCoverage == stage = "finished" => RetirementEligible = Libraries

\* _github_lane_ids: "guaranteeing a complete epoch within 28 days".  The age is
\* that of the search, not of the row that records it.
EpochWithin28Days ==
    stage = "finished" =>
        \A l \in Libraries : \E c \in certificates : c.library = l /\ day - c.searched < StaleAge

================================================================================
