------------------------------ MODULE Publication ------------------------------
(***************************************************************************)
(* Publishing one release: the V2 tree, the state checkpoint beside it and *)
(* the run and release rows of the database have to change together, and   *)
(* no file system call changes more than one of them.                      *)
(*                                                                         *)
(* PipelineRunner.run first swaps a provisional checkpoint in, then        *)
(* installs the V2 artifacts with the manifest last, records the run as    *)
(* complete, and swaps the final checkpoint in.  An exception unwinds what *)
(* was installed; a crash leaves a journal, from which the next invocation *)
(* rolls the release back or forward, depending on the release the live    *)
(* manifest names.                                                         *)
(*                                                                         *)
(* One rename, unlink or transaction is one action; a loop over the files  *)
(* of a tree is one action that a crash may leave unfinished, which is the *)
(* same as not having begun it.  "base" is the release that was live       *)
(* before, "new" the one being published.  The phase written into the      *)
(* journal is never read back; what counts is whether the journal names a  *)
(* checkpoint backup yet.                                                  *)
(***************************************************************************)
EXTENDS Naturals

CONSTANTS
    MaxKills,    \* bound: crashes of the publishing or recovering process
    MaxRaises,   \* bound: exceptions raised while publishing
    MaxFaults    \* bound: calls that fail while the exception is unwound

ASSUME PublicationAssumption ==
    /\ MaxKills \in Nat
    /\ MaxRaises \in Nat
    /\ MaxFaults \in Nat

VARIABLES
    first,        \* is there no release before this one?
    v2,           \* live tree: the manifest, base's artifacts, new's artifacts
    checkpoint,   \* content of data/state-checkpoint
    backup,       \* what the first swap moved aside
    spare,        \* what the second swap moved aside
    journal,      \* the publication journal
    db,           \* status of the run and of the release
    tx,           \* transactions in memory that a handler could roll back
    ok,           \* rollback_ok of the handler
    at,           \* program point
    kills, raises, faults,
    slips         \* history: failures the handler has no answer to

files == <<first, v2, checkpoint, backup, spare, journal>>
counters == <<kills, raises, faults, slips>>
publicationVars == <<files, db, tx, ok, at, counters>>

Base == IF first THEN "none" ELSE "base"

\* The order of the steps of a publication without incident.
Installing == {"installed", "copied", "replaced", "quarantined"}

Publishing == Installing \cup
    {"attested", "recorded", "staged", "installing", "aside", "handed",
     "finished", "published", "swapping", "final", "dropping"}

\* From here on the handler has nothing left to roll the checkpoint back with.
Committed == {"checkpoint_committed", "v2_committed"}

Recovering ==
    {"recover", "restore", "restore_backup", "forward_run", "forward_release",
     "forward_aside", "forward_install", "forward_clean", "recover_clear"}

Resting == {"done", "dead"}

\* Every artifact the live manifest names is there to be served.
ManifestServed ==
    /\ v2.manifest = "new" => v2.new
    /\ v2.manifest = "base" => v2.base

--------------------------------------------------------------------------------
PublicationInit ==
    /\ first \in BOOLEAN
    /\ v2 = [manifest |-> Base, base |-> ~first, new |-> FALSE]
    /\ checkpoint = Base
    /\ backup = "none"
    /\ spare = "none"
    /\ journal = [exists |-> FALSE, backup |-> FALSE, hadLive |-> FALSE]
    /\ db = [run |-> "running", release |-> "none"]
    /\ tx = [v2 |-> FALSE, checkpoint |-> FALSE]
    /\ ok = TRUE
    /\ at = "attested"
    /\ kills = 0 /\ raises = 0 /\ faults = 0
    /\ slips = {}

\* One step from `here` to `there` that changes nothing but what is stated.
Step(here, there) ==
    /\ at = here
    /\ at' = there
    /\ UNCHANGED <<first, counters>>

SetCheckpoint(live, bak, spr) ==
    checkpoint' = live /\ backup' = bak /\ spare' = spr

KeepCheckpoint == UNCHANGED <<checkpoint, backup, spare>>

\* export_checkpoint_shards writes what the database says now.
Exported ==
    IF db = [run |-> "complete", release |-> "published"] THEN "final" ELSE "provisional"

(* Publishing. *)

\* Defect: the release is recorded as published before it is live.
RecordPublished ==
    /\ Step("attested", "recorded")
    /\ db' = [db EXCEPT !.release = "published"]
    /\ KeepCheckpoint /\ UNCHANGED <<v2, journal, tx, ok>>

RecordStaged ==
    /\ Step("attested", "recorded")
    /\ db' = [db EXCEPT !.release = "staged"]
    /\ KeepCheckpoint /\ UNCHANGED <<v2, journal, tx, ok>>

WriteStagedJournal ==
    /\ Step("recorded", "staged")
    /\ journal' = [journal EXCEPT !.exists = TRUE]
    /\ KeepCheckpoint /\ UNCHANGED <<v2, db, tx, ok>>

NameBackup ==
    /\ Step("staged", "installing")
    /\ journal' = [exists |-> TRUE, backup |-> TRUE, hadLive |-> checkpoint # "none"]
    /\ KeepCheckpoint /\ UNCHANGED <<v2, db, tx, ok>>

MoveCheckpointAside ==
    /\ Step("installing", "aside")
    /\ SetCheckpoint("none", checkpoint, spare)
    /\ UNCHANGED <<v2, journal, db, tx, ok>>

InstallCheckpoint ==
    /\ Step("aside", "installed")
    /\ SetCheckpoint(Exported, backup, spare)
    /\ tx' = [tx EXCEPT !.checkpoint = TRUE]
    /\ UNCHANGED <<v2, journal, db, ok>>

CopyArtifacts ==
    /\ Step("installed", "copied")
    /\ v2' = [v2 EXCEPT !.new = TRUE]
    /\ KeepCheckpoint /\ UNCHANGED <<journal, db, tx, ok>>

\* Defect: the manifest is installed first.
ManifestFirst ==
    /\ Step("installed", "replaced")
    /\ v2' = [v2 EXCEPT !.manifest = "new"]
    /\ KeepCheckpoint /\ UNCHANGED <<journal, db, tx, ok>>

ReplaceManifest ==
    /\ Step("copied", "replaced")
    /\ v2' = [v2 EXCEPT !.manifest = "new"]
    /\ KeepCheckpoint /\ UNCHANGED <<journal, db, tx, ok>>

QuarantineSuperseded ==
    /\ Step("replaced", "quarantined")
    /\ v2' = [v2 EXCEPT !.base = FALSE]
    /\ KeepCheckpoint /\ UNCHANGED <<journal, db, tx, ok>>

\* The closure validates and the caller gets the provisional transaction.
HandOver ==
    /\ Step("quarantined", "handed")
    /\ tx' = [tx EXCEPT !.v2 = TRUE]
    /\ KeepCheckpoint /\ UNCHANGED <<v2, journal, db, ok>>

CompleteRun ==
    /\ Step("handed", "finished")
    /\ db' = [db EXCEPT !.run = "complete"]
    /\ KeepCheckpoint /\ UNCHANGED <<v2, journal, tx, ok>>

PublishRelease ==
    /\ Step("finished", "published")
    /\ db' = [db EXCEPT !.release = "published"]
    /\ KeepCheckpoint /\ UNCHANGED <<v2, journal, tx, ok>>

MoveProvisionalAside ==
    /\ Step("published", "swapping")
    /\ SetCheckpoint("none", backup, checkpoint)
    /\ UNCHANGED <<v2, journal, db, tx, ok>>

InstallFinal ==
    /\ Step("swapping", "final")
    /\ SetCheckpoint(Exported, backup, spare)
    /\ UNCHANGED <<v2, journal, db, tx, ok>>

DropProvisional ==
    /\ Step("final", "dropping")
    /\ SetCheckpoint(checkpoint, backup, "none")
    /\ UNCHANGED <<v2, journal, db, tx, ok>>

CommitCheckpoint ==
    /\ Step("dropping", "checkpoint_committed")
    /\ SetCheckpoint(checkpoint, "none", spare)
    /\ tx' = [tx EXCEPT !.checkpoint = FALSE]
    /\ UNCHANGED <<v2, journal, db, ok>>

\* The quarantine with base's artifacts is deleted.
CommitV2 ==
    /\ Step("checkpoint_committed", "v2_committed")
    /\ tx' = [tx EXCEPT !.v2 = FALSE]
    /\ KeepCheckpoint /\ UNCHANGED <<v2, journal, db, ok>>

ClearJournal ==
    /\ Step("v2_committed", "done")
    /\ journal' = [exists |-> FALSE, backup |-> FALSE, hadLive |-> FALSE]
    /\ KeepCheckpoint /\ UNCHANGED <<v2, db, tx, ok>>

--------------------------------------------------------------------------------
(* An exception, and the handler of run().                                     *)

\* The next step fails and leaves no trace.  The swap puts back what it moved
\* aside; _install_staged_tree rolls itself back before its exception leaves.
\* The commits ignore errors, so that between them only an interrupt strikes,
\* and after them an interrupt or a failing unlink of the journal.  The handler
\* cannot undo one commit without the other ("half"), nor does it ask whether
\* the release is complete already ("late").
Interrupt ==
    /\ at \in Publishing \cup Committed
    /\ raises < MaxRaises
    /\ raises' = raises + 1
    /\ CASE at = "aside" -> SetCheckpoint(backup, "none", spare)
         [] at = "swapping" -> SetCheckpoint(spare, backup, "none")
         [] OTHER -> KeepCheckpoint
    /\ at' = IF tx.v2 \/ at \in Installing THEN "unwind_files" ELSE "unwind_checkpoint"
    /\ ok' = TRUE
    /\ slips' = slips \cup CASE at = "checkpoint_committed" -> {"half"}
                              [] at = "v2_committed" -> {"late"}
                              [] OTHER -> {}
    /\ UNCHANGED <<first, v2, journal, db, tx, kills, faults>>

\* InstalledV2Transaction.rollback: artifacts first, then the manifest.
ReturnQuarantined ==
    /\ Step("unwind_files", "unwind_manifest")
    /\ v2' = [v2 EXCEPT !.base = ~first]
    /\ KeepCheckpoint /\ UNCHANGED <<journal, db, tx, ok>>

RestoreManifest ==
    /\ Step("unwind_manifest", "unwind_new")
    /\ v2' = [v2 EXCEPT !.manifest = Base]
    /\ KeepCheckpoint /\ UNCHANGED <<journal, db, tx, ok>>

RemoveNew ==
    /\ Step("unwind_new", "unwind_checkpoint")
    /\ v2' = [v2 EXCEPT !.new = FALSE]
    /\ KeepCheckpoint /\ UNCHANGED <<journal, db, tx, ok>>

\* _DirectorySwap.rollback, if the first swap was handed to the caller.
RemoveProvisional ==
    /\ Step("unwind_checkpoint", IF tx.checkpoint THEN "unwind_backup" ELSE "unwind_validate")
    /\ IF tx.checkpoint THEN SetCheckpoint("none", backup, spare) ELSE KeepCheckpoint
    /\ UNCHANGED <<v2, journal, db, tx, ok>>

ReturnBackup ==
    /\ Step("unwind_backup", "unwind_validate")
    /\ IF backup # "none" THEN SetCheckpoint(backup, "none", spare) ELSE KeepCheckpoint
    /\ UNCHANGED <<v2, journal, db, tx, ok>>

\* A failing rollback is remembered, unless it is the one inside
\* _install_staged_tree: then the handler never learns that one was needed, and
\* takes the new manifest for the old one ("rollback").
RollbackFails ==
    /\ at \in {"unwind_files", "unwind_manifest", "unwind_new",
               "unwind_checkpoint", "unwind_backup"}
    /\ faults < MaxFaults
    /\ faults' = faults + 1
    /\ IF at \in {"unwind_checkpoint", "unwind_backup"}
       THEN at' = "unwind_validate" /\ ok' = FALSE /\ UNCHANGED slips
       ELSE /\ at' = "unwind_checkpoint"
            /\ ok' = ~tx.v2
            /\ slips' = IF ~tx.v2 /\ v2.manifest = "new" THEN slips \cup {"rollback"} ELSE slips
    /\ UNCHANGED <<files, db, tx, kills, raises>>

\* _close_and_validate_v2 also deletes what the live manifest does not name.
Pruned ==
    [v2 EXCEPT !.base = @ /\ v2.manifest # "new", !.new = @ /\ v2.manifest # "base"]

ValidateUnwound ==
    /\ Step("unwind_validate", IF ok /\ ManifestServed THEN "unwind_clear" ELSE "unwind_release")
    /\ ok' = (ok /\ ManifestServed)
    /\ v2' = IF ok /\ ManifestServed /\ v2.manifest # "none" THEN Pruned ELSE v2
    /\ KeepCheckpoint /\ UNCHANGED <<journal, db, tx>>

ClearUnwound ==
    /\ Step("unwind_clear", "unwind_release")
    /\ journal' = [exists |-> FALSE, backup |-> FALSE, hadLive |-> FALSE]
    /\ KeepCheckpoint /\ UNCHANGED <<v2, db, tx, ok>>

RejectRelease ==
    /\ Step("unwind_release", "unwind_run")
    /\ db' = [db EXCEPT !.release = "rejected"]
    /\ KeepCheckpoint /\ UNCHANGED <<v2, journal, tx, ok>>

FailRun ==
    /\ Step("unwind_run", "done")
    /\ db' = [db EXCEPT !.run = "failed"]
    /\ KeepCheckpoint /\ UNCHANGED <<v2, journal, tx, ok>>

\* "except Exception: pass"
StateUpdateFails ==
    /\ at \in {"unwind_release", "unwind_run"}
    /\ faults < MaxFaults
    /\ faults' = faults + 1
    /\ at' = "done"
    /\ UNCHANGED <<files, db, tx, ok, kills, raises, slips>>

--------------------------------------------------------------------------------
(* A crash, and _recover_publication at the start of the next invocation.      *)

Kill ==
    /\ at \notin Resting
    /\ kills < MaxKills
    /\ kills' = kills + 1
    /\ at' = "dead"
    /\ tx' = [v2 |-> FALSE, checkpoint |-> FALSE]
    /\ UNCHANGED <<files, db, ok, raises, faults, slips>>

Restart ==
    /\ at \in Resting
    /\ journal.exists
    /\ at' = "recover"
    /\ UNCHANGED <<files, db, tx, ok, counters>>

\* An invalid live tree raises: the journal stays and blocks every new run.
Recover ==
    /\ Step("recover", IF ~ManifestServed THEN "dead"
                       ELSE IF v2.manifest = "new" THEN "forward_run" ELSE "restore")
    /\ v2' = IF ManifestServed /\ v2.manifest # "none" THEN Pruned ELSE v2
    /\ KeepCheckpoint /\ UNCHANGED <<journal, db, tx, ok>>

\* Defect: the provisional checkpoint of a first release is not removed.
KeepFirstCheckpoint ==
    LET returns == journal.backup /\ backup # "none" IN
    /\ Step("restore", IF returns THEN "restore_backup" ELSE "recover_clear")
    /\ IF returns THEN SetCheckpoint("none", backup, spare) ELSE KeepCheckpoint
    /\ UNCHANGED <<v2, journal, db, tx, ok>>

\* _restore_checkpoint_from_journal
RemoveUnpublished ==
    LET returns == journal.backup /\ backup # "none"
        neverLive == journal.backup /\ ~journal.hadLive IN
    /\ Step("restore", IF returns THEN "restore_backup" ELSE "recover_clear")
    /\ IF returns \/ neverLive THEN SetCheckpoint("none", backup, spare) ELSE KeepCheckpoint
    /\ UNCHANGED <<v2, journal, db, tx, ok>>

RestoreBackup ==
    /\ Step("restore_backup", "recover_clear")
    /\ SetCheckpoint(backup, "none", spare)
    /\ UNCHANGED <<v2, journal, db, tx, ok>>

\* Defect: the recovered run is not finished.
ForwardRunForgotten ==
    /\ Step("forward_run", "forward_release")
    /\ KeepCheckpoint /\ UNCHANGED <<v2, journal, db, tx, ok>>

ForwardRun ==
    /\ Step("forward_run", "forward_release")
    /\ db' = [db EXCEPT !.run = "complete"]
    /\ KeepCheckpoint /\ UNCHANGED <<v2, journal, tx, ok>>

ForwardRelease ==
    /\ Step("forward_release", "forward_aside")
    /\ db' = [db EXCEPT !.release = "published"]
    /\ KeepCheckpoint /\ UNCHANGED <<v2, journal, tx, ok>>

ForwardAside ==
    /\ Step("forward_aside", "forward_install")
    /\ SetCheckpoint("none", backup, checkpoint)
    /\ UNCHANGED <<v2, journal, db, tx, ok>>

ForwardInstall ==
    /\ Step("forward_install", "forward_clean")
    /\ SetCheckpoint(Exported, backup, "none")
    /\ UNCHANGED <<v2, journal, db, tx, ok>>

ForwardClean ==
    /\ Step("forward_clean", "recover_clear")
    /\ SetCheckpoint(checkpoint, IF journal.backup THEN "none" ELSE backup, spare)
    /\ UNCHANGED <<v2, journal, db, tx, ok>>

\* Defect: the journal outlives its recovery.
RecoverKeepsJournal ==
    /\ Step("recover_clear", "done")
    /\ KeepCheckpoint /\ UNCHANGED <<v2, journal, db, tx, ok>>

RecoverClear ==
    /\ Step("recover_clear", "done")
    /\ journal' = [exists |-> FALSE, backup |-> FALSE, hadLive |-> FALSE]
    /\ KeepCheckpoint /\ UNCHANGED <<v2, db, tx, ok>>

--------------------------------------------------------------------------------
Publish ==
    \/ RecordStaged \/ WriteStagedJournal \/ NameBackup
    \/ MoveCheckpointAside \/ InstallCheckpoint
    \/ CopyArtifacts \/ ReplaceManifest \/ QuarantineSuperseded \/ HandOver
    \/ CompleteRun \/ PublishRelease
    \/ MoveProvisionalAside \/ InstallFinal \/ DropProvisional
    \/ CommitCheckpoint \/ CommitV2 \/ ClearJournal

UnwindStep ==
    \/ ReturnQuarantined \/ RestoreManifest \/ RemoveNew
    \/ RemoveProvisional \/ ReturnBackup
    \/ ValidateUnwound \/ ClearUnwound \/ RejectRelease \/ FailRun

Recovery ==
    \/ Restart \/ Recover
    \/ RemoveUnpublished \/ RestoreBackup
    \/ ForwardRun \/ ForwardRelease \/ ForwardAside \/ ForwardInstall \/ ForwardClean
    \/ RecoverClear

Advance == Publish \/ UnwindStep \/ Recovery

PublicationNext == Advance \/ Interrupt \/ RollbackFails \/ StateUpdateFails \/ Kill

\* A process that is not killed goes on, and the collector is invoked again.
PublicationFairness == WF_publicationVars(Advance)

PublicationSpec == PublicationInit /\ [][PublicationNext]_publicationVars /\ PublicationFairness

--------------------------------------------------------------------------------
(* What publication promises. *)

\* At no moment, crashes and failing rollbacks included, does the live manifest
\* name an artifact that is not there: artifacts are installed before the
\* manifest that names them and leave after it, in both directions.
LiveReleaseIsServed == ManifestServed

\* The V2 tree and the checkpoint belong to the same release.
Paired ==
    /\ v2.manifest = "new" => checkpoint = "final"
    /\ v2.manifest # "new" => checkpoint = Base

\* docs/Documentation.md:955: "Restart recovery either validates and finishes the
\* exact manifest/checkpoint pair or rolls the provisional pair back; an
\* unresolved recovery failure preserves the journal".  Without a journal the V2
\* tree and the checkpoint are an exact pair, whatever failed.
PairAgrees == ~journal.exists => Paired

\* What is left of it: the pair is exact unless the handler was misled, by a
\* rollback that failed inside the installation or by an interrupt between the
\* two commits.  A late exception does not harm it, and a recovery repairs even
\* what a failed rollback left, as long as the handler did not get to delete the
\* journal.
PairIsExact ==
    /\ slips \cap {"rollback", "half"} = {} => PairAgrees
    /\ at = "recover_clear" /\ "half" \notin slips => Paired

\* The database never tells of a published release that is not live, once the
\* journal is gone and the process at rest: "Otherwise the provisional
\* checkpoint is restored and the running task journal resumes."
RolledBackRunResumes ==
    ~journal.exists /\ at \in Resting /\ v2.manifest # "new" =>
        /\ db.run \in {"running", "failed"}
        /\ db.release # "published"

\* A release that stays live after the journal is gone is recorded as published
\* by a complete run, whichever process got it there: by the handler unless it
\* rejected a release it had not undone, by a recovery always.
LiveReleaseIsRecorded ==
    v2.manifest = "new" =>
        /\ ~journal.exists /\ at \in Resting /\ slips \cap {"rollback", "late"} = {} =>
            db = [run |-> "complete", release |-> "published"]
        /\ at = "recover_clear" => db = [run |-> "complete", release |-> "published"]

\* Crashes alone never separate the database from the V2 tree.
CrashesKeepAgreement == raises = 0 => RolledBackRunResumes

\* Recovery ends: however often it is killed, an invocation that is not killed
\* resolves the journal, so that publication does not block the collector.
JournalIsResolved == <>[](~journal.exists)

================================================================================
