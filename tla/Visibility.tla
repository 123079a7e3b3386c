------------------------------- MODULE Visibility -------------------------------
(***************************************************************************)
(* What a run knows of the visibility of the repositories it is about to    *)
(* publish (collector/pipeline.py _resolve_metadata and                     *)
(* _reattest_final_visibility).  The metadata stage asks once; the run may  *)
(* then scan for days, fail and be resumed.  Just before the release is     *)
(* installed the exact output set is asked for again, in an epoch of        *)
(* journaled batches that an interrupted run may resume while it is young.  *)
(* Every request costs GraphQL points of one budget per run, accounted from *)
(* the journal when a process starts.                                       *)
(*                                                                         *)
(* A batch is one repository.  The remaining-quota reserve, the retries of  *)
(* a task (TaskJournal) and the reviewed controls are left out.             *)
(***************************************************************************)
EXTENDS Naturals, Sequences, FiniteSetsExt, SequencesExt

CONSTANTS
    Repos,
    MaxAge,         \* FINAL_VISIBILITY_MAX_AGE_SECONDS, in steps of time
    PointBudget,    \* budgets.max_graphql_points
    MaxCost,        \* maximum_points_per_batch
    Costs,          \* what GitHub charges for a batch
    MaxStarts,      \* bound: invocations of the run
    MaxTime,        \* bound: time explored
    MaxChanges      \* bound: changes of visibility

ASSUME VisibilityAssumption ==
    /\ {MaxAge, PointBudget, MaxCost, MaxStarts, MaxTime, MaxChanges} \subseteq Nat
    /\ Costs \subseteq 0 .. MaxCost

VARIABLES
    now,
    starts,         \* invocations so far
    visible,        \* GitHub: [public, since] of each repository
    changes,        \* changes of visibility so far
    metadata,       \* metadata epochs: the base epoch, then the fresh ones
    final,          \* final-visibility epochs: [at, docs]
    finalStage,     \* status of the stage final_visibility
    at,             \* where the invocation is: "down", "metadata", "output", "final",
                    \* "attesting", "attested" or "done"
    epoch,          \* metadata epoch of this invocation
    mayResume,      \* allow_final_visibility_resume of this invocation
    current,        \* the output set
    released,       \* the set installed
    journaled,      \* points of the complete tasks of either stage
    known,          \* points the client knows of
    spent,          \* points GitHub charged
    uncounted            \* charged points no document counts

visibilityVars == <<now, starts, visible, changes, metadata, final, finalStage, at, epoch,
                    mayResume, current, released, journaled, known, spent, uncounted>>

NotYet == "pending"
AllPending == [r \in Repos |-> NotYet]

--------------------------------------------------------------------------------
(* Points. *)

\* Defect: only the metadata batches are counted.
MetadataPoints == journaled.metadata

\* _graphql_journal_budget: every complete task of both stages, across epochs
JournalPoints == journaled.metadata + journaled.final

Known == Max({known, JournalPoints})

\* The pipeline asks for one point, the client (_resolve) for the maximum.
MayAsk == JournalPoints + 1 <= PointBudget
ClientMayAsk == Known + MaxCost <= PointBudget

Charge(cost) == spent' = spent + cost /\ known' = Known + cost

--------------------------------------------------------------------------------
(* The invocation. *)

\* The process ends: an exception, or its death; `stage` is what it leaves behind.
Down(stage) ==
    /\ at' = "down" /\ finalStage' = stage
    /\ epoch' = 0 /\ mayResume' = FALSE /\ current' = {}

Raise(stage) == Down(stage) /\ known' = 0

Answered(docs) == \A r \in DOMAIN docs : docs[r] /= NotYet
ReusableFresh == Len(metadata) > 1 /\ Answered(Last(metadata))

\* _should_force_metadata_refresh_after_final_visibility
ForceRefresh == finalStage = "failed" /\ ~ReusableFresh

\* _should_resume_final_visibility_epoch
ResumesFinal == finalStage \in {"running", "complete"}

\* supersede_tasks: what is pending is closed without a result.
Superseded(docs) ==
    [r \in DOMAIN docs |-> IF docs[r] = NotYet THEN "superseded" ELSE docs[r]]

Supersede(epochs, kept) ==
    [i \in DOMAIN epochs |-> IF i = kept THEN epochs[i] ELSE Superseded(epochs[i])]

\* run: how the last final-visibility stage ended decides whether this invocation
\* reuses the newest metadata epoch, asks again in a fresh one, or works on the
\* base epoch.
Invoke ==
    /\ at = "down" /\ released = {} /\ starts < MaxStarts
    /\ starts' = starts + 1
    /\ mayResume' = ResumesFinal
    /\ IF ResumesFinal /\ Answered(Last(metadata))
       THEN /\ at' = "output" /\ epoch' = Len(metadata)
            /\ UNCHANGED metadata
       ELSE /\ at' = "metadata"
            /\ epoch' = IF ForceRefresh THEN Len(metadata) + 1 ELSE 1
            /\ metadata' = Supersede(metadata, epoch')
                             \o IF ForceRefresh THEN <<AllPending>> ELSE <<>>
    /\ UNCHANGED <<now, visible, changes, final, finalStage, current, released, journaled, known,
                   spent, uncounted>>

\* One metadata batch is asked and its answer completes the task; when the call
\* fails, its points are in no document.
ResolveMetadata(r, cost) ==
    /\ at = "metadata" /\ metadata[epoch][r] = NotYet
    /\ \/ /\ MayAsk /\ ClientMayAsk
          /\ metadata' = [metadata EXCEPT ![epoch][r] =
                            IF visible[r].public THEN "public" ELSE "private"]
          /\ journaled' = [journaled EXCEPT !.metadata = @ + cost]
          /\ Charge(cost)
          /\ UNCHANGED <<finalStage, at, epoch, mayResume, current, uncounted>>
       \/ /\ MayAsk /\ ClientMayAsk
          /\ spent' = spent + cost /\ uncounted' = uncounted + cost
          /\ Raise(finalStage)
          /\ UNCHANGED <<metadata, journaled>>
       \/ /\ ~MayAsk \/ ~ClientMayAsk
          /\ Raise(finalStage)
          /\ UNCHANGED <<metadata, journaled, spent, uncounted>>
    /\ UNCHANGED <<now, starts, visible, changes, final, released>>

\* Every batch is answered: repositories that are not public are purged.  A batch
\* superseded by an earlier plan has no result to read.
MetadataResolved ==
    /\ at = "metadata" /\ Answered(metadata[epoch])
    /\ at' = "output"
    /\ UNCHANGED <<now, starts, visible, changes, metadata, final, finalStage, epoch, mayResume,
                   current, released, journaled, known, spent, uncounted>>

Publishable == {r \in Repos : metadata[epoch][r] = "public"}
Unreadable == \E r \in Repos : metadata[epoch][r] = "superseded"

\* Scans decide which of the publishable repositories are in the output.
PrepareOutput(set) ==
    /\ at = "output"
    /\ IF Unreadable
       THEN Raise(finalStage)
       ELSE /\ set \subseteq Publishable /\ set /= {}
            /\ current' = set
            /\ at' = "final"
            /\ UNCHANGED <<finalStage, epoch, mayResume, known>>
    /\ UNCHANGED <<now, starts, visible, changes, metadata, final, released, journaled, spent,
                   uncounted>>

--------------------------------------------------------------------------------
(* The last look (_reattest_final_visibility). *)

NewEpoch == [at |-> now, docs |-> [r \in current |-> NotYet]]

\* Defect: the epoch that is resumed is stamped with the present.
RestampedEpoch == [Last(final) EXCEPT !.at = now]

\* A resumed epoch keeps the time of its first batch.
ResumedEpoch == Last(final)

\* An interrupted epoch is resumed when it is young and about the same set.
BeginFinal ==
    /\ at = "final" /\ finalStage' = "running"
    /\ at' = "attesting"
    /\ IF mayResume /\ final /= <<>>
       THEN /\ DOMAIN Last(final).docs = current
            /\ now - Last(final).at <= MaxAge
            /\ final' = [final EXCEPT ![Len(final)] = ResumedEpoch]
       ELSE final' = Append([i \in DOMAIN final |->
                               [final[i] EXCEPT !.docs = Superseded(@)]], NewEpoch)
    /\ UNCHANGED <<now, starts, visible, changes, metadata, epoch, mayResume, current, released,
                   journaled, known, spent, uncounted>>

\* FinalVisibilityRefreshRequired
RefuseFinal ==
    /\ at = "final" /\ mayResume /\ final /= <<>>
    /\ DOMAIN Last(final).docs /= current \/ now - Last(final).at > MaxAge
    /\ Raise("failed")
    /\ UNCHANGED <<now, starts, visible, changes, metadata, final, released, journaled, spent,
                   uncounted>>

\* The document of a batch, whatever the call does: a failing one is charged the
\* maximum.  Anything but a public repository ends the stage.
Attest(r, cost) ==
    /\ at = "attesting" /\ r \in current /\ Last(final).docs[r] = NotYet /\ MayAsk
    /\ \/ /\ ClientMayAsk
          /\ final' = [final EXCEPT ![Len(final)].docs[r] =
                         IF visible[r].public THEN "ok" ELSE "rejected"]
          /\ journaled' = [journaled EXCEPT !.final = @ + cost]
          /\ IF visible[r].public
             THEN Charge(cost) /\ UNCHANGED <<finalStage, at, epoch, mayResume, current>>
             ELSE spent' = spent + cost /\ Raise("failed")
       \/ /\ final' = [final EXCEPT ![Len(final)].docs[r] = "unknown"]
          /\ journaled' = [journaled EXCEPT !.final = @ + MaxCost]
          /\ spent' = spent + IF ClientMayAsk THEN cost ELSE 0
          /\ Raise("failed")
    /\ UNCHANGED <<now, starts, visible, changes, metadata, released, uncounted>>

\* A budget that is used up, or a batch an earlier invocation rejected.
AttestRefused ==
    /\ at = "attesting"
    /\ \/ \E r \in current : Last(final).docs[r] \in {"rejected", "unknown"}
       \/ ~MayAsk /\ ~Answered(Last(final).docs)
    /\ Raise("failed")
    /\ UNCHANGED <<now, starts, visible, changes, metadata, final, released, journaled, spent,
                   uncounted>>

Attested ==
    /\ at = "attesting" /\ \A r \in current : Last(final).docs[r] = "ok"
    /\ at' = "attested" /\ finalStage' = "complete"
    /\ UNCHANGED <<now, starts, visible, changes, metadata, final, epoch, mayResume, current,
                   released, journaled, known, spent, uncounted>>

\* _assert_final_visibility_fresh, and the manifest is replaced.
Install ==
    /\ at = "attested"
    /\ IF now - Last(final).at <= MaxAge
       THEN /\ released' = current /\ at' = "done"
            /\ UNCHANGED <<finalStage, epoch, mayResume, current, known>>
       ELSE Raise(finalStage) /\ UNCHANGED released
    /\ UNCHANGED <<now, starts, visible, changes, metadata, final, journaled, spent, uncounted>>

--------------------------------------------------------------------------------
(* Faults and the world. *)

\* An exception elsewhere; within the last look it fails the stage.
RunAborts ==
    /\ at \notin {"down", "done"}
    /\ Raise(IF at = "attesting" THEN "failed" ELSE finalStage)
    /\ UNCHANGED <<now, starts, visible, changes, metadata, final, released, journaled, spent,
                   uncounted>>

\* The process dies, perhaps between an answer and its document.
ProcessDies(cost) ==
    /\ at \notin {"down", "done"}
    /\ IF at \in {"metadata", "attesting"} /\ MayAsk /\ ClientMayAsk
       THEN spent' = spent + cost /\ uncounted' = uncounted + cost
       ELSE cost = 0 /\ UNCHANGED <<spent, uncounted>>
    /\ Raise(finalStage)
    /\ UNCHANGED <<now, starts, visible, changes, metadata, final, released, journaled>>

ChangeVisibility(r) ==
    /\ changes < MaxChanges /\ at /= "done"
    /\ visible' = [visible EXCEPT ![r] = [public |-> ~ @.public, since |-> now]]
    /\ changes' = changes + 1
    /\ UNCHANGED <<now, starts, metadata, final, finalStage, at, epoch, mayResume, current,
                   released, journaled, known, spent, uncounted>>

TimePasses ==
    /\ now < MaxTime /\ at /= "done"
    /\ now' = now + 1
    /\ UNCHANGED <<starts, visible, changes, metadata, final, finalStage, at, epoch, mayResume,
                   current, released, journaled, known, spent, uncounted>>

--------------------------------------------------------------------------------
VisibilityInit ==
    /\ now = 0 /\ starts = 0 /\ changes = 0
    /\ visible = [r \in Repos |-> [public |-> TRUE, since |-> 0]]
    /\ metadata = <<AllPending>> /\ final = <<>> /\ finalStage = "none"
    /\ at = "down" /\ epoch = 0 /\ mayResume = FALSE /\ current = {} /\ released = {}
    /\ journaled = [metadata |-> 0, final |-> 0]
    /\ known = 0 /\ spent = 0 /\ uncounted = 0

VisibilityNext ==
    \/ Invoke \/ MetadataResolved
    \/ \E r \in Repos, cost \in Costs : ResolveMetadata(r, cost) \/ Attest(r, cost)
    \/ \E set \in SUBSET Repos : PrepareOutput(set)
    \/ BeginFinal \/ RefuseFinal \/ AttestRefused \/ Attested \/ Install
    \/ RunAborts
    \/ \E cost \in Costs \cup {0} : ProcessDies(cost)
    \/ \E r \in Repos : ChangeVisibility(r)
    \/ TimePasses

VisibilitySpec == VisibilityInit /\ [][VisibilityNext]_visibilityVars

--------------------------------------------------------------------------------
(* Properties. *)

\* No repository goes live that GitHub did not show as public within MaxAge before
\* the release was installed, however old the scans are and however often the run
\* was interrupted in its last look.
ReleaseWasPublic ==
    [][\A r \in released' \ released : visible[r].public \/ now - visible[r].since <= MaxAge
      ]_visibilityVars

\* The invocations of a run together spend no more than its budget, but for calls
\* that died before their document.
PointsWithinBudget == spent <= PointBudget + uncounted

================================================================================
