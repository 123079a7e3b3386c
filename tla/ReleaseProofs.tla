----------------------------- MODULE ReleaseProofs -----------------------------
(***************************************************************************)
(* Proofs about a release.                                                  *)
(*                                                                         *)
(* The first part is about its publication (Publication), for any number of *)
(* crashes, exceptions and failing rollbacks.                               *)
(* ServedInv is about the V2 tree alone: what each program point knows of  *)
(* the artifacts that the manifest names.  PairInv adds the checkpoint: it *)
(* says that the journal, if there is one, still leads back to the         *)
(* checkpoint of the live manifest (Recoverable), and what the handler and *)
(* the recovery know of the checkpoint before they delete the journal; a   *)
(* step that misleads the handler (slips) is a case of its own.            *)
(* RecordInv adds the database: whoever deletes a journal under the new     *)
(* manifest has recorded the release.  UnraisedInv follows a publication    *)
(* that nothing interrupts but crashes.                                  *)
(*                                                                         *)
(* The second part is about its content, what becomes of the verdicts of    *)
(* scans (Catalog): the rows of the published catalog are proven, and its   *)
(* adopters survive.                                                        *)
(***************************************************************************)
EXTENDS Publication, Catalog, TLAPS

TypeInv ==
    /\ first \in BOOLEAN
    /\ v2 \in [manifest : {Base, "new"}, base : BOOLEAN, new : BOOLEAN]
    /\ journal \in [exists : BOOLEAN, backup : BOOLEAN, hadLive : BOOLEAN]
    /\ db \in [run : {"running", "complete", "failed"},
               release : {"none", "staged", "published", "rejected"}]
    /\ tx \in [v2 : BOOLEAN, checkpoint : BOOLEAN]
    /\ ok \in BOOLEAN
    /\ slips \subseteq {"rollback", "half", "late"}

ServedInv ==
    /\ TypeInv
    /\ ManifestServed
    /\ at = "copied" => v2.new
    /\ at = "replaced" => v2.manifest = "new"
    /\ at = "unwind_manifest" => v2.base = ~first
    /\ at = "unwind_new" => v2.manifest # "new"

--------------------------------------------------------------------------------
(* The V2 tree. *)

LEMMA TypePublish == ASSUME TypeInv, Publish PROVE TypeInv'
<1> USE DEF TypeInv, Base, Step, counters
<1>1. CASE RecordStaged
  BY <1>1 DEF RecordStaged
<1>2. CASE WriteStagedJournal
  BY <1>2 DEF WriteStagedJournal
<1>3. CASE NameBackup
  BY <1>3 DEF NameBackup
<1>4. CASE MoveCheckpointAside
  BY <1>4 DEF MoveCheckpointAside
<1>5. CASE InstallCheckpoint
  BY <1>5 DEF InstallCheckpoint
<1>6. CASE CopyArtifacts
  BY <1>6 DEF CopyArtifacts
<1>7. CASE ReplaceManifest
  BY <1>7 DEF ReplaceManifest
<1>8. CASE QuarantineSuperseded
  BY <1>8 DEF QuarantineSuperseded
<1>9. CASE HandOver
  BY <1>9 DEF HandOver
<1>10. CASE CompleteRun
  BY <1>10 DEF CompleteRun
<1>11. CASE PublishRelease
  BY <1>11 DEF PublishRelease
<1>12. CASE MoveProvisionalAside
  BY <1>12 DEF MoveProvisionalAside
<1>13. CASE InstallFinal
  BY <1>13 DEF InstallFinal
<1>14. CASE DropProvisional
  BY <1>14 DEF DropProvisional
<1>15. CASE CommitCheckpoint
  BY <1>15 DEF CommitCheckpoint
<1>16. CASE CommitV2
  BY <1>16 DEF CommitV2
<1>17. CASE ClearJournal
  BY <1>17 DEF ClearJournal
<1> QED
  BY <1>1, <1>2, <1>3, <1>4, <1>5, <1>6, <1>7, <1>8, <1>9, <1>10, <1>11, <1>12,
     <1>13, <1>14, <1>15, <1>16, <1>17 DEF Publish

LEMMA TypeUnwind == ASSUME TypeInv, UnwindStep PROVE TypeInv'
<1> USE DEF TypeInv, Base, Step, counters
<1>1. CASE ReturnQuarantined
  BY <1>1 DEF ReturnQuarantined
<1>2. CASE RestoreManifest
  BY <1>2 DEF RestoreManifest
<1>3. CASE RemoveNew
  BY <1>3 DEF RemoveNew
<1>4. CASE RemoveProvisional
  BY <1>4 DEF RemoveProvisional
<1>5. CASE ReturnBackup
  BY <1>5 DEF ReturnBackup
<1>6. CASE ValidateUnwound
  BY <1>6 DEF ValidateUnwound, Pruned
<1>7. CASE ClearUnwound
  BY <1>7 DEF ClearUnwound
<1>8. CASE RejectRelease
  BY <1>8 DEF RejectRelease
<1>9. CASE FailRun
  BY <1>9 DEF FailRun
<1> QED
  BY <1>1, <1>2, <1>3, <1>4, <1>5, <1>6, <1>7, <1>8, <1>9 DEF UnwindStep

LEMMA TypeRecovery == ASSUME TypeInv, Recovery PROVE TypeInv'
<1> USE DEF TypeInv, Base, Step, counters
<1>1. CASE Restart
  BY <1>1 DEF Restart, files, counters
<1>2. CASE Recover
  BY <1>2 DEF Recover, Pruned
<1>3. CASE RemoveUnpublished
  BY <1>3 DEF RemoveUnpublished
<1>4. CASE RestoreBackup
  BY <1>4 DEF RestoreBackup
<1>5. CASE ForwardRun
  BY <1>5 DEF ForwardRun
<1>6. CASE ForwardRelease
  BY <1>6 DEF ForwardRelease
<1>7. CASE ForwardAside
  BY <1>7 DEF ForwardAside
<1>8. CASE ForwardInstall
  BY <1>8 DEF ForwardInstall
<1>9. CASE ForwardClean
  BY <1>9 DEF ForwardClean
<1>10. CASE RecoverClear
  BY <1>10 DEF RecoverClear
<1> QED
  BY <1>1, <1>2, <1>3, <1>4, <1>5, <1>6, <1>7, <1>8, <1>9, <1>10 DEF Recovery

LEMMA TypeNext == ASSUME TypeInv, [PublicationNext]_publicationVars PROVE TypeInv'
<1> USE DEF TypeInv, Base, files, counters
<1>1. CASE Interrupt
  BY <1>1 DEF Interrupt
<1>2. CASE RollbackFails
  BY <1>2 DEF RollbackFails
<1>3. CASE StateUpdateFails
  BY <1>3 DEF StateUpdateFails
<1>4. CASE Kill
  BY <1>4 DEF Kill
<1>5. CASE UNCHANGED publicationVars
  BY <1>5 DEF publicationVars
<1> QED
  BY <1>1, <1>2, <1>3, <1>4, <1>5, TypePublish, TypeUnwind, TypeRecovery
     DEF PublicationNext, Advance

LEMMA ServedPublish == ASSUME ServedInv, Publish PROVE ServedInv'
<1>0. TypeInv'
  BY TypePublish DEF ServedInv
<1> USE <1>0 DEF ServedInv, TypeInv, ManifestServed, Base, Step, counters
<1>1. CASE RecordStaged
  BY <1>1 DEF RecordStaged
<1>2. CASE WriteStagedJournal
  BY <1>2 DEF WriteStagedJournal
<1>3. CASE NameBackup
  BY <1>3 DEF NameBackup
<1>4. CASE MoveCheckpointAside
  BY <1>4 DEF MoveCheckpointAside
<1>5. CASE InstallCheckpoint
  BY <1>5 DEF InstallCheckpoint
<1>6. CASE CopyArtifacts
  BY <1>6 DEF CopyArtifacts
<1>7. CASE ReplaceManifest
  BY <1>7 DEF ReplaceManifest
<1>8. CASE QuarantineSuperseded
  BY <1>8 DEF QuarantineSuperseded
<1>9. CASE HandOver
  BY <1>9 DEF HandOver
<1>10. CASE CompleteRun
  BY <1>10 DEF CompleteRun
<1>11. CASE PublishRelease
  BY <1>11 DEF PublishRelease
<1>12. CASE MoveProvisionalAside
  BY <1>12 DEF MoveProvisionalAside
<1>13. CASE InstallFinal
  BY <1>13 DEF InstallFinal
<1>14. CASE DropProvisional
  BY <1>14 DEF DropProvisional
<1>15. CASE CommitCheckpoint
  BY <1>15 DEF CommitCheckpoint
<1>16. CASE CommitV2
  BY <1>16 DEF CommitV2
<1>17. CASE ClearJournal
  BY <1>17 DEF ClearJournal
<1> QED
  BY <1>1, <1>2, <1>3, <1>4, <1>5, <1>6, <1>7, <1>8, <1>9, <1>10, <1>11, <1>12,
     <1>13, <1>14, <1>15, <1>16, <1>17 DEF Publish

LEMMA ServedUnwind == ASSUME ServedInv, UnwindStep PROVE ServedInv'
<1>0. TypeInv'
  BY TypeUnwind DEF ServedInv
<1> USE <1>0 DEF ServedInv, TypeInv, ManifestServed, Base, Step, counters
<1>1. CASE ReturnQuarantined
  BY <1>1 DEF ReturnQuarantined
<1>2. CASE RestoreManifest
  BY <1>2 DEF RestoreManifest
<1>3. CASE RemoveNew
  BY <1>3 DEF RemoveNew
<1>4. CASE RemoveProvisional
  BY <1>4 DEF RemoveProvisional
<1>5. CASE ReturnBackup
  BY <1>5 DEF ReturnBackup
<1>6. CASE ValidateUnwound
  BY <1>6 DEF ValidateUnwound, Pruned
<1>7. CASE ClearUnwound
  BY <1>7 DEF ClearUnwound
<1>8. CASE RejectRelease
  BY <1>8 DEF RejectRelease
<1>9. CASE FailRun
  BY <1>9 DEF FailRun
<1> QED
  BY <1>1, <1>2, <1>3, <1>4, <1>5, <1>6, <1>7, <1>8, <1>9 DEF UnwindStep

LEMMA ServedRecovery == ASSUME ServedInv, Recovery PROVE ServedInv'
<1>0. TypeInv'
  BY TypeRecovery DEF ServedInv
<1> USE <1>0 DEF ServedInv, TypeInv, ManifestServed, Base, Step, counters
<1>1. CASE Restart
  BY <1>1 DEF Restart, files, counters
<1>2. CASE Recover
  BY <1>2 DEF Recover, Pruned
<1>3. CASE RemoveUnpublished
  BY <1>3 DEF RemoveUnpublished
<1>4. CASE RestoreBackup
  BY <1>4 DEF RestoreBackup
<1>5. CASE ForwardRun
  BY <1>5 DEF ForwardRun
<1>6. CASE ForwardRelease
  BY <1>6 DEF ForwardRelease
<1>7. CASE ForwardAside
  BY <1>7 DEF ForwardAside
<1>8. CASE ForwardInstall
  BY <1>8 DEF ForwardInstall
<1>9. CASE ForwardClean
  BY <1>9 DEF ForwardClean
<1>10. CASE RecoverClear
  BY <1>10 DEF RecoverClear
<1> QED
  BY <1>1, <1>2, <1>3, <1>4, <1>5, <1>6, <1>7, <1>8, <1>9, <1>10 DEF Recovery

LEMMA ServedNext == ASSUME ServedInv, [PublicationNext]_publicationVars PROVE ServedInv'
<1>0. TypeInv'
  BY TypeNext DEF ServedInv
<1> USE <1>0 DEF ServedInv, TypeInv, ManifestServed, Base, files, counters
<1>1. CASE Interrupt
  BY <1>1 DEF Interrupt
<1>2. CASE RollbackFails
  BY <1>2 DEF RollbackFails
<1>3. CASE StateUpdateFails
  BY <1>3 DEF StateUpdateFails
<1>4. CASE Kill
  BY <1>4 DEF Kill
<1>5. CASE UNCHANGED publicationVars
  BY <1>5 DEF publicationVars
<1> QED
  BY <1>1, <1>2, <1>3, <1>4, <1>5, ServedPublish, ServedUnwind, ServedRecovery
     DEF PublicationNext, Advance

LEMMA ServedInit == PublicationInit => ServedInv
<1> SUFFICES ASSUME PublicationInit PROVE ServedInv
  OBVIOUS
<1> QED
  BY DEF PublicationInit, ServedInv, TypeInv, ManifestServed, Base

\* At no point of a publication, of its unwinding or of a recovery does the live
\* manifest name a missing artifact, whatever fails and however often.
THEOREM ReleaseAlwaysServed == PublicationSpec => []LiveReleaseIsServed
<1>1. ServedInv => LiveReleaseIsServed
  BY DEF ServedInv, LiveReleaseIsServed
<1>2. ServedInv /\ [PublicationNext]_publicationVars => ServedInv'
  BY ServedNext
<1> QED
  BY <1>1, <1>2, ServedInit, PTL DEF PublicationSpec

--------------------------------------------------------------------------------
(* The pair of the V2 tree and the checkpoint. *)

\* Before the first swap hands its transaction over, and from then on.
BeforeSwap == {"attested", "recorded", "staged", "installing"}
AfterSwap == Installing \cup
    {"handed", "finished", "published", "swapping", "final", "dropping"}

\* The journal leads from the live manifest back to its checkpoint.
Recoverable ==
    v2.manifest # "new" =>
        \/ journal.backup /\ backup = Base /\ (backup # "none" \/ ~journal.hadLive)
        \/ backup = "none" /\ checkpoint = Base

\* Nothing is installed beside the checkpoint of the previous release.
Untouched == ~tx.checkpoint /\ backup = "none" /\ checkpoint = Base

\* The previous release's checkpoint is the backup the journal names.
Swapped == tx.checkpoint /\ journal.exists /\ journal.backup /\ backup = Base

Aligned == v2.manifest # "new" /\ checkpoint = Base

\* Both commits are behind; whatever the handler does now, it undoes nothing.
Concluded == ~tx.checkpoint /\ v2.manifest = "new" /\ checkpoint = "final"

Forwarding == {"forward_run", "forward_release", "forward_aside", "forward_install",
               "forward_clean"}

\* Where the journal is, what the live manifest is, what the database says of the run.
ProgressInv ==
    /\ at \in Publishing \cup Committed => slips = {}
    /\ at \in {"attested", "recorded"} => ~journal.exists
    /\ at \in {"staged", "installing", "aside"} \cup AfterSwap \cup Committed \cup Recovering
         => journal.exists
    /\ journal.backup => journal.exists
    /\ at \in BeforeSwap \cup {"aside", "installed", "copied"} => v2.manifest # "new"
    /\ at \in {"replaced", "quarantined", "handed", "finished", "published", "swapping", "final",
               "dropping"} \cup Committed \cup Forwarding => v2.manifest = "new"
    /\ at \in {"handed", "finished", "published", "swapping", "final", "dropping",
               "checkpoint_committed"} => tx.v2
    /\ at \in BeforeSwap \cup Installing \cup {"aside", "v2_committed"} => ~tx.v2
    /\ at \in {"finished", "published", "swapping"} => db.run = "complete"
    /\ at \in {"published", "swapping"} => db.release = "published"
    /\ slips \cap {"rollback", "late"} = {} =>
         /\ at \in {"unwind_checkpoint", "unwind_backup", "unwind_validate"} /\ ok
              => v2.manifest # "new"
         /\ at = "unwind_clear" => v2.manifest # "new"
    /\ at \in {"restore", "restore_backup"} => v2.manifest # "new"
    /\ at \in {"forward_release", "forward_aside", "forward_install"} => db.run = "complete"
    /\ at \in {"forward_aside", "forward_install"} => db.release = "published"

\* Where the checkpoint is, unless one commit was undone without the other.
CheckpointInv ==
    /\ backup \in {"none", Base}
    /\ journal.backup => journal.hadLive = ~first
    /\ journal.exists => Recoverable
    /\ ~journal.exists /\ "rollback" \notin slips => Paired
    \* publishing
    /\ at \in {"installing", "aside"} => journal.backup
    /\ at \in BeforeSwap => Untouched
    /\ at = "aside" => ~tx.checkpoint /\ backup = Base
    /\ at \in AfterSwap => Swapped
    /\ at \in {"final", "dropping"} \cup Committed => checkpoint = "final"
    /\ at \in Committed => ~tx.checkpoint
    \* unwinding
    /\ at \in {"unwind_files", "unwind_manifest", "unwind_new"} =>
         Swapped /\ "late" \notin slips
    /\ at = "unwind_checkpoint" =>
         IF "late" \in slips THEN Concluded ELSE Untouched \/ Swapped
    /\ at = "unwind_backup" => Swapped /\ checkpoint = "none" /\ "late" \notin slips
    /\ at = "unwind_validate" /\ ok /\ "rollback" \notin slips => Paired
    /\ at = "unwind_clear" /\ "rollback" \notin slips => Paired
    \* recovering
    /\ at = "restore_backup" => backup = Base
    /\ at = "forward_clean" => checkpoint = "final"
    /\ at = "recover_clear" => Paired

PairInv == ServedInv /\ ProgressInv /\ ("half" \notin slips => CheckpointInv)

LEMMA ProgressPublish ==
  ASSUME ServedInv, ProgressInv, Publish PROVE ProgressInv'
<1> USE DEF ProgressInv, ServedInv, TypeInv, Base, Publishing, BeforeSwap, AfterSwap, Installing,
            Committed, Recovering, Forwarding, Step, counters
<1>1. CASE RecordStaged
  BY <1>1 DEF RecordStaged
<1>2. CASE WriteStagedJournal
  BY <1>2 DEF WriteStagedJournal
<1>3. CASE NameBackup
  BY <1>3 DEF NameBackup
<1>4. CASE MoveCheckpointAside
  BY <1>4 DEF MoveCheckpointAside
<1>5. CASE InstallCheckpoint
  BY <1>5 DEF InstallCheckpoint, Exported
<1>6. CASE CopyArtifacts
  BY <1>6 DEF CopyArtifacts
<1>7. CASE ReplaceManifest
  BY <1>7 DEF ReplaceManifest
<1>8. CASE QuarantineSuperseded
  BY <1>8 DEF QuarantineSuperseded
<1>9. CASE HandOver
  BY <1>9 DEF HandOver
<1>10. CASE CompleteRun
  BY <1>10 DEF CompleteRun
<1>11. CASE PublishRelease
  BY <1>11 DEF PublishRelease
<1>12. CASE MoveProvisionalAside
  BY <1>12 DEF MoveProvisionalAside
<1>13. CASE InstallFinal
  BY <1>13 DEF InstallFinal, Exported
<1>14. CASE DropProvisional
  BY <1>14 DEF DropProvisional
<1>15. CASE CommitCheckpoint
  BY <1>15 DEF CommitCheckpoint
<1>16. CASE CommitV2
  BY <1>16 DEF CommitV2
<1>17. CASE ClearJournal
  BY <1>17 DEF ClearJournal
<1> QED
  BY <1>1, <1>2, <1>3, <1>4, <1>5, <1>6, <1>7, <1>8, <1>9, <1>10, <1>11, <1>12, <1>13,
     <1>14, <1>15, <1>16, <1>17 DEF Publish

LEMMA ProgressUnwind ==
  ASSUME ServedInv, ProgressInv, UnwindStep PROVE ProgressInv'
<1> USE DEF ProgressInv, ServedInv, TypeInv, Base, Publishing, BeforeSwap, AfterSwap, Installing,
            Committed, Recovering, Forwarding, Step, counters
<1>1. CASE ReturnQuarantined
  BY <1>1 DEF ReturnQuarantined
<1>2. CASE RestoreManifest
  BY <1>2 DEF RestoreManifest
<1>3. CASE RemoveNew
  BY <1>3 DEF RemoveNew
<1>4. CASE RemoveProvisional
  BY <1>4 DEF RemoveProvisional
<1>5. CASE ReturnBackup
  BY <1>5 DEF ReturnBackup
<1>6. CASE ValidateUnwound
  BY <1>6 DEF ValidateUnwound, Pruned, ManifestServed
<1>7. CASE ClearUnwound
  BY <1>7 DEF ClearUnwound
<1>8. CASE RejectRelease
  BY <1>8 DEF RejectRelease
<1>9. CASE FailRun
  BY <1>9 DEF FailRun
<1> QED
  BY <1>1, <1>2, <1>3, <1>4, <1>5, <1>6, <1>7, <1>8, <1>9 DEF UnwindStep

LEMMA ProgressRecovery ==
  ASSUME ServedInv, ProgressInv, Recovery PROVE ProgressInv'
<1> USE DEF ProgressInv, ServedInv, TypeInv, Base, Publishing, BeforeSwap, AfterSwap, Installing,
            Committed, Recovering, Forwarding, Step, counters
<1>1. CASE Restart
  BY <1>1 DEF Restart, files, counters, Resting
<1>2. CASE Recover
  BY <1>2 DEF Recover, Pruned, ManifestServed
<1>3. CASE RemoveUnpublished
  BY <1>3 DEF RemoveUnpublished
<1>4. CASE RestoreBackup
  BY <1>4 DEF RestoreBackup
<1>5. CASE ForwardRun
  BY <1>5 DEF ForwardRun
<1>6. CASE ForwardRelease
  BY <1>6 DEF ForwardRelease
<1>7. CASE ForwardAside
  BY <1>7 DEF ForwardAside
<1>8. CASE ForwardInstall
  BY <1>8 DEF ForwardInstall, Exported
<1>9. CASE ForwardClean
  BY <1>9 DEF ForwardClean
<1>10. CASE RecoverClear
  BY <1>10 DEF RecoverClear
<1> QED
  BY <1>1, <1>2, <1>3, <1>4, <1>5, <1>6, <1>7, <1>8, <1>9, <1>10 DEF Recovery

LEMMA ProgressNext ==
  ASSUME ServedInv, ProgressInv, [PublicationNext]_publicationVars PROVE ProgressInv'
<1> USE DEF ProgressInv, ServedInv, TypeInv, Base, Publishing, BeforeSwap, AfterSwap, Installing,
            Committed, Recovering, Forwarding, Step, counters
<1>1. CASE Interrupt
  BY <1>1 DEF Interrupt
<1>2. CASE RollbackFails
  BY <1>2 DEF RollbackFails, files
<1>3. CASE StateUpdateFails
  BY <1>3 DEF StateUpdateFails, files
<1>4. CASE Kill
  BY <1>4 DEF Kill, files
<1>5. CASE UNCHANGED publicationVars
  BY <1>5 DEF publicationVars, files
<1> QED
  BY <1>1, <1>2, <1>3, <1>4, <1>5, ProgressPublish, ProgressUnwind, ProgressRecovery
     DEF PublicationNext, Advance

LEMMA CheckpointPublish ==
  ASSUME ServedInv, ProgressInv, CheckpointInv, Publish PROVE CheckpointInv'
<1> USE DEF CheckpointInv, ProgressInv, Paired, Recoverable, Untouched, Swapped, Concluded,
            Publishing, BeforeSwap, AfterSwap, Installing, Committed, Recovering, Forwarding,
            ServedInv, TypeInv, Base, Step, counters, KeepCheckpoint, SetCheckpoint
<1>1. CASE RecordStaged
  BY <1>1 DEF RecordStaged
<1>2. CASE WriteStagedJournal
  BY <1>2 DEF WriteStagedJournal
<1>3. CASE NameBackup
  BY <1>3 DEF NameBackup
<1>4. CASE MoveCheckpointAside
  BY <1>4 DEF MoveCheckpointAside
<1>5. CASE InstallCheckpoint
  BY <1>5 DEF InstallCheckpoint, Exported
<1>6. CASE CopyArtifacts
  BY <1>6 DEF CopyArtifacts
<1>7. CASE ReplaceManifest
  BY <1>7 DEF ReplaceManifest
<1>8. CASE QuarantineSuperseded
  BY <1>8 DEF QuarantineSuperseded
<1>9. CASE HandOver
  BY <1>9 DEF HandOver
<1>10. CASE CompleteRun
  BY <1>10 DEF CompleteRun
<1>11. CASE PublishRelease
  BY <1>11 DEF PublishRelease
<1>12. CASE MoveProvisionalAside
  BY <1>12 DEF MoveProvisionalAside
<1>13. CASE InstallFinal
  BY <1>13 DEF InstallFinal, Exported
<1>14. CASE DropProvisional
  BY <1>14 DEF DropProvisional
<1>15. CASE CommitCheckpoint
  BY <1>15 DEF CommitCheckpoint
<1>16. CASE CommitV2
  BY <1>16 DEF CommitV2
<1>17. CASE ClearJournal
  BY <1>17 DEF ClearJournal
<1> QED
  BY <1>1, <1>2, <1>3, <1>4, <1>5, <1>6, <1>7, <1>8, <1>9, <1>10, <1>11, <1>12, <1>13,
     <1>14, <1>15, <1>16, <1>17 DEF Publish

LEMMA CheckpointUnwind ==
  ASSUME ServedInv, ProgressInv, CheckpointInv, UnwindStep PROVE CheckpointInv'
<1> USE DEF CheckpointInv, ProgressInv, Paired, Recoverable, Untouched, Swapped, Concluded,
            Publishing, BeforeSwap, AfterSwap, Installing, Committed, Recovering, Forwarding,
            ServedInv, TypeInv, Base, Step, counters, KeepCheckpoint, SetCheckpoint
<1>1. CASE ReturnQuarantined
  BY <1>1 DEF ReturnQuarantined
<1>2. CASE RestoreManifest
  BY <1>2 DEF RestoreManifest
<1>3. CASE RemoveNew
  BY <1>3 DEF RemoveNew
<1>4. CASE RemoveProvisional
  BY <1>4 DEF RemoveProvisional
<1>5. CASE ReturnBackup
  BY <1>5 DEF ReturnBackup
<1>6. CASE ValidateUnwound
  BY <1>6 DEF ValidateUnwound, Pruned, ManifestServed
<1>7. CASE ClearUnwound
  BY <1>7 DEF ClearUnwound
<1>8. CASE RejectRelease
  BY <1>8 DEF RejectRelease
<1>9. CASE FailRun
  BY <1>9 DEF FailRun
<1> QED
  BY <1>1, <1>2, <1>3, <1>4, <1>5, <1>6, <1>7, <1>8, <1>9 DEF UnwindStep

LEMMA CheckpointRecovery ==
  ASSUME ServedInv, ProgressInv, CheckpointInv, Recovery PROVE CheckpointInv'
<1> USE DEF CheckpointInv, ProgressInv, Paired, Recoverable, Untouched, Swapped, Concluded,
            Publishing, BeforeSwap, AfterSwap, Installing, Committed, Recovering, Forwarding,
            ServedInv, TypeInv, Base, Step, counters, KeepCheckpoint, SetCheckpoint
<1>1. CASE Restart
  BY <1>1 DEF Restart, files, counters, Resting
<1>2. CASE Recover
  BY <1>2 DEF Recover, Pruned, ManifestServed
<1>3. CASE RemoveUnpublished
  BY <1>3 DEF RemoveUnpublished
<1>4. CASE RestoreBackup
  BY <1>4 DEF RestoreBackup
<1>5. CASE ForwardRun
  BY <1>5 DEF ForwardRun
<1>6. CASE ForwardRelease
  BY <1>6 DEF ForwardRelease
<1>7. CASE ForwardAside
  BY <1>7 DEF ForwardAside
<1>8. CASE ForwardInstall
  BY <1>8 DEF ForwardInstall, Exported
<1>9. CASE ForwardClean
  BY <1>9 DEF ForwardClean
<1>10. CASE RecoverClear
  BY <1>10 DEF RecoverClear
<1> QED
  BY <1>1, <1>2, <1>3, <1>4, <1>5, <1>6, <1>7, <1>8, <1>9, <1>10 DEF Recovery

\* From the step that misleads the handler between the commits on, nothing is claimed.
LEMMA CheckpointNext ==
  ASSUME ServedInv, ProgressInv, CheckpointInv, [PublicationNext]_publicationVars,
         "half" \notin slips'
  PROVE  CheckpointInv'
<1> USE DEF CheckpointInv, ProgressInv, Paired, Recoverable, Untouched, Swapped, Concluded,
            Publishing, BeforeSwap, AfterSwap, Installing, Committed, Recovering, Forwarding,
            ServedInv, TypeInv, Base, Step, counters, KeepCheckpoint, SetCheckpoint
<1>1. CASE Interrupt
  BY <1>1 DEF Interrupt
<1>2. CASE RollbackFails
  BY <1>2 DEF RollbackFails, files
<1>3. CASE StateUpdateFails
  BY <1>3 DEF StateUpdateFails, files
<1>4. CASE Kill
  BY <1>4 DEF Kill, files
<1>5. CASE UNCHANGED publicationVars
  BY <1>5 DEF publicationVars, files
<1> QED
  BY <1>1, <1>2, <1>3, <1>4, <1>5, CheckpointPublish, CheckpointUnwind, CheckpointRecovery
     DEF PublicationNext, Advance

\* What misled the handler once is not forgotten.
LEMMA SlipsStay == [PublicationNext]_publicationVars => slips \subseteq slips'
<1> SUFFICES ASSUME [PublicationNext]_publicationVars PROVE slips \subseteq slips'
  OBVIOUS
<1> USE DEF Step, counters
<1>1. CASE Publish
  BY <1>1 DEF Publish, RecordStaged, WriteStagedJournal, NameBackup, MoveCheckpointAside,
              InstallCheckpoint, CopyArtifacts, ReplaceManifest, QuarantineSuperseded, HandOver,
              CompleteRun, PublishRelease, MoveProvisionalAside, InstallFinal, DropProvisional,
              CommitCheckpoint, CommitV2, ClearJournal
<1>2. CASE UnwindStep
  BY <1>2 DEF UnwindStep, ReturnQuarantined, RestoreManifest, RemoveNew, RemoveProvisional,
              ReturnBackup, ValidateUnwound, ClearUnwound, RejectRelease, FailRun
<1>3. CASE Recovery
  BY <1>3 DEF Recovery, Restart, Recover, RemoveUnpublished, RestoreBackup, ForwardRun,
              ForwardRelease, ForwardAside, ForwardInstall, ForwardClean, RecoverClear
<1>4. CASE Interrupt \/ RollbackFails \/ StateUpdateFails \/ Kill \/ UNCHANGED publicationVars
  BY <1>4 DEF Interrupt, RollbackFails, StateUpdateFails, Kill, publicationVars
<1> QED
  BY <1>1, <1>2, <1>3, <1>4 DEF PublicationNext, Advance

LEMMA PairNext ==
  ASSUME PairInv, [PublicationNext]_publicationVars PROVE PairInv'
<1>1. ServedInv' /\ ProgressInv'
  BY ServedNext, ProgressNext DEF PairInv
<1>2. "half" \notin slips' => CheckpointInv'
  BY CheckpointNext, SlipsStay DEF PairInv
<1> QED
  BY <1>1, <1>2 DEF PairInv

LEMMA PairInit == PublicationInit => PairInv
<1> SUFFICES ASSUME PublicationInit PROVE PairInv
  OBVIOUS
<1>1. ServedInv
  BY ServedInit
<1> QED
  BY <1>1 DEF PublicationInit, PairInv, ProgressInv, CheckpointInv, Paired, Recoverable, Untouched,
              Base, Publishing, BeforeSwap, AfterSwap, Installing, Committed, Recovering, Forwarding

\* Once the journal is gone the live manifest and the checkpoint are an exact pair,
\* for any number of crashes, exceptions and failing rollbacks, unless a rollback
\* failed inside the installation or an interrupt struck between the two commits;
\* and a recovery always restores the pair before it deletes the journal, the
\* rollback that failed included.
THEOREM PairStaysExact == PublicationSpec => []PairIsExact
<1>1. PairInv => PairIsExact
  BY DEF PairInv, CheckpointInv, PairIsExact, PairAgrees
<1>2. PairInv /\ [PublicationNext]_publicationVars => PairInv'
  BY PairNext
<1> QED
  BY <1>1, <1>2, PairInit, PTL DEF PublicationSpec

--------------------------------------------------------------------------------
(* What the database says of a release that is live without a journal. *)

RunIsRecorded == db = [run |-> "complete", release |-> "published"]

RecordInv ==
    /\ PairInv
    /\ ~journal.exists /\ v2.manifest = "new" /\ slips \cap {"rollback", "late"} = {} =>
         at \in Resting /\ RunIsRecorded
    /\ at \in {"final", "dropping", "forward_clean"} \cup Committed => RunIsRecorded
    /\ at = "recover_clear" /\ v2.manifest = "new" => RunIsRecorded

LEMMA RecordInit == PublicationInit => RecordInv
<1> SUFFICES ASSUME PublicationInit PROVE RecordInv
  OBVIOUS
<1>1. PairInv
  BY PairInit
<1> QED
  BY <1>1 DEF PublicationInit, RecordInv, Base, Committed

LEMMA RecordNext ==
  ASSUME RecordInv, [PublicationNext]_publicationVars PROVE RecordInv'
<1>0. PairInv'
  BY PairNext DEF RecordInv
<1>1. /\ v2 \in [manifest : {Base, "new"}, base : BOOLEAN, new : BOOLEAN]
      /\ journal \in [exists : BOOLEAN, backup : BOOLEAN, hadLive : BOOLEAN]
      /\ db \in [run : {"running", "complete", "failed"},
                 release : {"none", "staged", "published", "rejected"}]
      /\ Base # "new"
  BY DEF RecordInv, PairInv, ServedInv, TypeInv, Base
<1>2. /\ at \in {"published", "swapping"} => RunIsRecorded
      /\ at \in {"forward_aside", "forward_install"} => RunIsRecorded
  BY <1>1 DEF RecordInv, PairInv, ProgressInv, RunIsRecorded
<1>3. /\ at \in BeforeSwap \cup {"aside", "installed", "copied"} => v2.manifest # "new"
      /\ at \in {"staged", "installing", "aside"} \cup AfterSwap \cup Committed \cup Recovering
           => journal.exists
      /\ at \in {"restore", "restore_backup"} => v2.manifest # "new"
      /\ at = "unwind_clear" /\ slips \cap {"rollback", "late"} = {} => v2.manifest # "new"
  BY DEF RecordInv, PairInv, ProgressInv
<1>4. slips \subseteq slips'
  BY SlipsStay
<1> USE <1>0, <1>1, <1>2, <1>3, <1>4
    DEF RecordInv, RunIsRecorded, Committed, Recovering, AfterSwap, BeforeSwap, Installing,
        Resting, Step
<1>5. CASE Publish
  <2>1. CASE RecordStaged \/ WriteStagedJournal \/ NameBackup \/ MoveCheckpointAside
             \/ InstallCheckpoint \/ CopyArtifacts
    BY <2>1 DEF RecordStaged, WriteStagedJournal, NameBackup, MoveCheckpointAside,
                InstallCheckpoint, CopyArtifacts
  <2>2. CASE ReplaceManifest \/ QuarantineSuperseded \/ HandOver \/ CompleteRun \/ PublishRelease
    BY <2>2 DEF ReplaceManifest, QuarantineSuperseded, HandOver, CompleteRun, PublishRelease
  <2>3. CASE MoveProvisionalAside \/ InstallFinal \/ DropProvisional \/ CommitCheckpoint
             \/ CommitV2
    BY <2>3 DEF MoveProvisionalAside, InstallFinal, DropProvisional, CommitCheckpoint, CommitV2
  <2>4. CASE ClearJournal
    BY <2>4 DEF ClearJournal
  <2> QED
    BY <1>5, <2>1, <2>2, <2>3, <2>4 DEF Publish
<1>6. CASE UnwindStep
  <2>1. CASE ReturnQuarantined \/ RestoreManifest \/ RemoveNew \/ RemoveProvisional
             \/ ReturnBackup
    BY <2>1 DEF ReturnQuarantined, RestoreManifest, RemoveNew, RemoveProvisional, ReturnBackup
  <2>2. CASE ValidateUnwound
    BY <2>2 DEF ValidateUnwound, Pruned
  <2>3. CASE ClearUnwound \/ RejectRelease \/ FailRun
    BY <2>3 DEF ClearUnwound, RejectRelease, FailRun
  <2> QED
    BY <1>6, <2>1, <2>2, <2>3 DEF UnwindStep
<1>7. CASE Recovery
  <2>1. CASE Restart
    BY <2>1 DEF Restart, files
  <2>2. CASE Recover
    BY <2>2 DEF Recover, Pruned
  <2>3. CASE RemoveUnpublished \/ RestoreBackup
    BY <2>3 DEF RemoveUnpublished, RestoreBackup
  <2>4. CASE ForwardRun \/ ForwardRelease \/ ForwardAside \/ ForwardInstall \/ ForwardClean
    BY <2>4 DEF ForwardRun, ForwardRelease, ForwardAside, ForwardInstall, ForwardClean
  <2>5. CASE RecoverClear
    BY <2>5 DEF RecoverClear
  <2> QED
    BY <1>7, <2>1, <2>2, <2>3, <2>4, <2>5 DEF Recovery
<1>8. CASE Interrupt
  BY <1>8 DEF Interrupt, Publishing
<1>9. CASE RollbackFails \/ StateUpdateFails \/ Kill \/ UNCHANGED publicationVars
  BY <1>9 DEF RollbackFails, StateUpdateFails, Kill, publicationVars, files
<1> QED
  BY <1>5, <1>6, <1>7, <1>8, <1>9 DEF PublicationNext, Advance

\* A release that is live once the journal is gone is recorded as published by a
\* complete run, however often the processes on the way were killed, unless the
\* handler was misled by a failed rollback or rejected what was complete already;
\* a recovery records it in any case.
THEOREM LiveReleasesAreRecorded == PublicationSpec => []LiveReleaseIsRecorded
<1>1. RecordInv => LiveReleaseIsRecorded
  BY DEF RecordInv, RunIsRecorded, LiveReleaseIsRecorded
<1>2. RecordInv /\ [PublicationNext]_publicationVars => RecordInv'
  BY RecordNext
<1> QED
  BY <1>1, <1>2, RecordInit, PTL DEF PublicationSpec

--------------------------------------------------------------------------------
(* A run without an exception. *)

Live == {"replaced", "quarantined", "handed", "finished", "published", "swapping", "final",
         "dropping"} \cup Committed
Unwinding == {"unwind_files", "unwind_manifest", "unwind_new", "unwind_checkpoint",
              "unwind_backup", "unwind_validate", "unwind_clear", "unwind_release", "unwind_run"}

\* What moves the database towards "published" comes after the manifest.
UnraisedInv ==
    /\ TypeInv
    /\ raises \in Nat
    /\ raises = 0 =>
        /\ at \notin Unwinding
        /\ at \in Live \cup Forwarding => v2.manifest = "new"
        /\ v2.manifest # "new" => db.run = "running" /\ db.release # "published"

LEMMA UnraisedInit == PublicationInit => UnraisedInv
  BY DEF PublicationInit, UnraisedInv, TypeInv, Base, Live, Forwarding, Unwinding, Committed

LEMMA UnraisedNext == UnraisedInv /\ [PublicationNext]_publicationVars => UnraisedInv'
<1> SUFFICES ASSUME UnraisedInv, [PublicationNext]_publicationVars PROVE UnraisedInv'
  OBVIOUS
<1>0. TypeInv'
  BY TypeNext DEF UnraisedInv
<1>1. /\ v2 \in [manifest : {Base, "new"}, base : BOOLEAN, new : BOOLEAN]
      /\ db \in [run : {"running", "complete", "failed"},
                 release : {"none", "staged", "published", "rejected"}]
  BY DEF UnraisedInv, TypeInv
<1> USE <1>0, <1>1 DEF UnraisedInv, Live, Forwarding, Unwinding, Committed, Step, counters
<1>2. CASE Publish
  <2>1. CASE RecordStaged \/ WriteStagedJournal \/ NameBackup \/ MoveCheckpointAside
             \/ InstallCheckpoint \/ CopyArtifacts
    BY <2>1 DEF RecordStaged, WriteStagedJournal, NameBackup, MoveCheckpointAside,
                InstallCheckpoint, CopyArtifacts
  <2>2. CASE ReplaceManifest \/ QuarantineSuperseded \/ HandOver \/ CompleteRun \/ PublishRelease
    BY <2>2 DEF ReplaceManifest, QuarantineSuperseded, HandOver, CompleteRun, PublishRelease
  <2>3. CASE MoveProvisionalAside \/ InstallFinal \/ DropProvisional \/ CommitCheckpoint
             \/ CommitV2 \/ ClearJournal
    BY <2>3 DEF MoveProvisionalAside, InstallFinal, DropProvisional, CommitCheckpoint, CommitV2,
                ClearJournal
  <2> QED
    BY <1>2, <2>1, <2>2, <2>3 DEF Publish
<1>3. CASE UnwindStep
  BY <1>3 DEF UnwindStep, ReturnQuarantined, RestoreManifest, RemoveNew, RemoveProvisional,
              ReturnBackup, ValidateUnwound, ClearUnwound, RejectRelease, FailRun
<1>4. CASE Recovery
  <2>1. CASE Restart \/ Recover
    BY <2>1 DEF Restart, Recover, Pruned, files
  <2>2. CASE RemoveUnpublished \/ RestoreBackup \/ RecoverClear
    BY <2>2 DEF RemoveUnpublished, RestoreBackup, RecoverClear
  <2>3. CASE ForwardRun \/ ForwardRelease \/ ForwardAside \/ ForwardInstall \/ ForwardClean
    BY <2>3 DEF ForwardRun, ForwardRelease, ForwardAside, ForwardInstall, ForwardClean
  <2> QED
    BY <1>4, <2>1, <2>2, <2>3 DEF Recovery
<1>5. CASE Interrupt
  BY <1>5 DEF Interrupt
<1>6. CASE RollbackFails \/ StateUpdateFails \/ Kill \/ UNCHANGED publicationVars
  BY <1>6 DEF RollbackFails, StateUpdateFails, Kill, publicationVars, files
<1> QED
  BY <1>2, <1>3, <1>4, <1>5, <1>6 DEF PublicationNext, Advance

\* However often a publication without an exception is killed, and the recovery
\* after it, the database and the V2 tree tell the same story; this one needs no
\* assumption.
THEOREM CrashesNeverDisagree == PublicationSpec => []CrashesKeepAgreement
<1>1. UnraisedInv => CrashesKeepAgreement
  BY DEF UnraisedInv, CrashesKeepAgreement, RolledBackRunResumes
<1> QED
  BY <1>1, UnraisedInit, UnraisedNext, PTL DEF PublicationSpec

--------------------------------------------------------------------------------
(* The inductive invariant of the catalog.                                         *)

\* What the fields of a run and of a verdict range over.
Stages == {"none", "discovering", "resolving", "persisting", "scanning", "aggregating",
           "failed", "complete"}
Modes == {"refresh", "reconcile", "onboard", "cohort"}
Heads == [Catalogued -> Nat]
Checkouts == [detector : [Detectors -> Nat], denied : SUBSET Pairs, banned : SUBSET Catalogued]
Runs == [stage : Stages, mode : Modes, wanted : SUBSET Detectors, code : Checkouts,
         observed : SUBSET Pairs, collided : SUBSET Pairs, covered : SUBSET Detectors,
         pinned : Heads, grouped : SUBSET Pairs]
VerdictRows == [repo : Catalogued, library : Detectors, head : Nat, detector : Nat,
                positive : BOOLEAN]

WorldType == tree \in [Catalogued -> Seq(Usages)] /\ listed \in [Catalogued -> BOOLEAN]
CodeType == code \in Checkouts
RunType == run \in Runs
StoredType == stored \in Heads /\ active \subseteq Pairs
RowsType == results \subseteq VerdictRows
SavedType ==
    exported.stored \in Heads /\ exported.active \subseteq Pairs
SavedRowsType == exported.results \subseteq VerdictRows

\* The types the proofs need.
CatalogType ==
    WorldType /\ CodeType /\ RunType /\ StoredType /\ RowsType /\ SavedType /\ SavedRowsType

\* Before any head is pinned.
NoHeads == NoRunYet.pinned

\* A process is at work.
Busy == run.stage \in {"discovering", "resolving", "persisting", "scanning", "aggregating"}

\* A run that has pinned its heads: at work, or dead and waiting to be resumed.
HasHeads ==
    \/ run.stage \in {"persisting", "scanning", "aggregating"}
    \/ run.stage = "failed" /\ run.pinned /= NoHeads

\* A verdict is what the tree of its head says.
Faithful(v) ==
    v.head \in 1 .. HeadOf(v.repo) /\ (v.positive <=> v.library \in tree[v.repo][v.head])

FaithfulInv == \A v \in results \cup exported.results : Faithful(v)

\* What a run is for, and with which checkout it works.
PlanInv ==
    /\ Busy => run.code = code /\ fps = code.detector
    /\ (Busy \/ HasHeads) /\ ~Selective => run.wanted = Detectors

\* The stored heads are the pinned ones once there are pinned ones, and nothing is newer.
HeadsInv ==
    /\ HasHeads => /\ stored = run.pinned
                   /\ \A r \in Catalogued : stored[r] <= HeadOf(r)
                   /\ \A v \in results : v.head <= stored[v.repo]
    /\ run.stage \in {"discovering", "resolving"} => run.pinned = NoHeads

\* What is to be scanned was admitted and asked for.
GroupedInv ==
    run.stage = "scanning" =>
        \A p \in run.grouped : Resolved(p) /\ LibraryOf(p) \in run.wanted

\* A published row rests on the tree of its pinned head.
ProvenRow(p) ==
    /\ p \in Pairs
    /\ release.pinned[RepoOf(p)] \in 1 .. HeadOf(RepoOf(p))
    /\ LibraryOf(p) \in tree[RepoOf(p)][release.pinned[RepoOf(p)]]

CarriedRow(p) ==
    p \in V1Pairs /\ release.pinned[RepoOf(p)] > 0 /\ LibraryOf(p) \notin release.by

ReleaseInv ==
    (\A p \in release.current : ProvenRow(p)) /\ (\A p \in release.carried : CarriedRow(p))

\* The inductive invariant: verdicts are true, heads and checkout are those of the run.
ProvenInv == CatalogType /\ FaithfulInv /\ PlanInv /\ HeadsInv /\ GroupedInv /\ ReleaseInv

--------------------------------------------------------------------------------
\* A pair is its repository and its library.
LEMMA PairParts ==
    /\ \A p \in Pairs : RepoOf(p) \in Catalogued /\ LibraryOf(p) \in Detectors
                        /\ p = <<RepoOf(p), LibraryOf(p)>>
    /\ \A r \in Catalogued, l \in Detectors : <<r, l>> \in Pairs
    /\ \A r, l : RepoOf(<<r, l>>) = r /\ LibraryOf(<<r, l>>) = l
  BY DEF Pairs, RepoOf, LibraryOf

LEMMA NoRunIsRun == NoRunYet \in Runs /\ NoRunYet.stage = "none" /\ NoHeads \in Heads
  BY DEF NoRunYet, Runs, Stages, Modes, NoCode, Checkouts, NoHeads, Heads

LEMMA RowsOfInit ==
    /\ CatalogInit => CatalogType
  <1> SUFFICES ASSUME CatalogInit PROVE CatalogType
    OBVIOUS
  <1>1. WorldType
    <2>1. \A r \in Catalogued : tree[r] \in {<<uses>> : uses \in Usages}
      BY DEF CatalogInit
    <2>2. \A uses \in Usages : <<uses>> \in Seq(Usages)
      OBVIOUS
    <2>3. \A r \in Catalogued : tree[r] \in Seq(Usages)
      BY <2>1, <2>2
    <2> QED
      BY <2>3 DEF CatalogInit, WorldType
  <1>2. CodeType
    BY DEF CatalogInit, CodeType, NoCode, Checkouts
  <1>3. RunType
    BY NoRunIsRun DEF CatalogInit, RunType
  <1>4. StoredType /\ RowsType /\ SavedType /\ SavedRowsType
    BY DEF CatalogInit, StoredType, RowsType, SavedType, SavedRowsType, Saved, Heads
  <1> QED
    BY <1>1, <1>2, <1>3, <1>4 DEF CatalogType

LEMMA CatalogStarts == CatalogInit => ProvenInv
<1> SUFFICES ASSUME CatalogInit PROVE ProvenInv
  OBVIOUS
<1>1. CatalogType
  BY RowsOfInit
<1>2. FaithfulInv /\ ReleaseInv
  BY DEF CatalogInit, FaithfulInv, Saved, ReleaseInv, NothingPublished
<1>3. run.stage = "none"
  BY NoRunIsRun DEF CatalogInit
<1>4. PlanInv /\ HeadsInv /\ GroupedInv
  BY <1>3 DEF PlanInv, HeadsInv, GroupedInv, Busy, HasHeads
<1> QED
  BY <1>1, <1>2, <1>4 DEF ProvenInv

--------------------------------------------------------------------------------
(* Types. *)

LEMMA PlanTypes ==
  ASSUME CatalogType, PlanRun \/ ResumePlan
  PROVE  CatalogType'
<1>1. UNCHANGED <<tree, listed, code, stored, active, results, exported>>
  BY DEF PlanRun, ResumePlan, BeginRun
<1>2. RunType'
  <2>1. CASE PlanRun
    <3>1. PICK mode \in Modes : \E wanted \in Selections(mode) :
            run' = [NoRunYet EXCEPT !.stage = "discovering", !.mode = mode,
                                    !.wanted = wanted, !.code = code]
      BY <2>1 DEF PlanRun, BeginRun, Modes
    <3>2. PICK wanted \in Selections(mode) :
            run' = [NoRunYet EXCEPT !.stage = "discovering", !.mode = mode,
                                    !.wanted = wanted, !.code = code]
      BY <3>1
    <3>3. wanted \subseteq Detectors
      BY CatalogAssumption DEF Selections, Modes
    <3> QED
      BY <3>2, <3>3, NoRunIsRun DEF CatalogType, RunType, CodeType, Runs, Stages
  <2>2. CASE ResumePlan
    <3>1. run' = [run EXCEPT !.stage = "persisting", !.code = code]
      BY <2>2 DEF ResumePlan, BeginRun
    <3> QED
      BY <3>1 DEF CatalogType, RunType, CodeType, Runs, Stages
  <2> QED
    BY <2>1, <2>2
<1> QED
  BY <1>1, <1>2 DEF CatalogType, WorldType, CodeType, StoredType, RowsType, SavedType, SavedRowsType

LEMMA DiscoverTypes ==
  ASSUME CatalogType, DiscoverPairs
  PROVE  CatalogType'
<1>1. UNCHANGED <<tree, listed, code, stored, active, results, exported>>
  BY DEF DiscoverPairs
<1>2. PICK observed \in SUBSET Pairs, collided \in SUBSET Pairs, covered \in {{}, run.wanted} :
        run' = [run EXCEPT !.stage = "resolving", !.observed = observed,
                           !.collided = collided, !.covered = covered]
  BY DEF DiscoverPairs, Searched, EverUsed
<1>3. RunType'
  BY <1>2 DEF CatalogType, RunType, Runs, Stages
<1> QED
  BY <1>1, <1>3 DEF CatalogType, WorldType, CodeType, StoredType, RowsType, SavedType, SavedRowsType

LEMMA PinTypes ==
  ASSUME CatalogType, PinHeads
  PROVE  CatalogType'
<1>1. UNCHANGED <<tree, listed, code, exported>>
  BY DEF PinHeads
<1>2. \A r \in Catalogued : HeadOf(r) \in Nat
  BY DEF CatalogType, WorldType, HeadOf
<1>3. PICK admitted \in SUBSET Catalogued :
        /\ stored' = [r \in Catalogued |-> IF r \in admitted THEN HeadOf(r) ELSE 0]
        /\ run' = [run EXCEPT !.stage = "persisting", !.pinned = stored']
        /\ active' \subseteq active /\ results' \subseteq results
  <2> DEFINE named == KnownRepositories \cup {RepoOf(p) : p \in V1Pairs \cup Met}
             admitted == {r \in named : listed[r] /\ r \notin run.code.banned}
  <2>1. V1Pairs \cup Met \subseteq Pairs
    BY CatalogAssumption DEF CatalogType, RunType, Runs, Met
  <2>2. admitted \subseteq Catalogued
    BY <2>1, PairParts DEF KnownRepositories
  <2> QED
    BY <2>2 DEF PinHeads
<1>4. stored' \in Heads
  BY <1>2, <1>3 DEF Heads
<1>5. RunType'
  BY <1>3, <1>4 DEF CatalogType, RunType, Runs, Stages
<1> QED
  BY <1>1, <1>3, <1>4, <1>5
  DEF CatalogType, WorldType, CodeType, StoredType, RowsType, SavedType, SavedRowsType

LEMMA PersistTypes ==
  ASSUME CatalogType, PersistCandidates
  PROVE  CatalogType'
<1>1. UNCHANGED <<tree, listed, code, stored, results, exported>>
  BY DEF PersistCandidates
<1> DEFINE named == StateCandidates \cup LegacyCandidates \cup Met
<1>2. named \subseteq Pairs
  BY CatalogAssumption
  DEF CatalogType, RunType, Runs, StoredType, StateCandidates, LegacyCandidates, InScope, Met
<1>3. active' \subseteq Pairs
  <2>1. active' = (active \ Refused(named)) \cup Admitted(Accepted) \cup Admitted(LegacyCandidates)
    BY DEF PersistCandidates
  <2>2. Admitted(Accepted) \subseteq Pairs /\ Admitted(LegacyCandidates) \subseteq Pairs
    BY CatalogAssumption
    DEF Admitted, Accepted, LegacyCandidates, InScope, CatalogType, RunType, Runs
  <2> QED
    BY <2>1, <2>2 DEF CatalogType, StoredType
<1>4. RunType'
  <2>1. PICK chosen \in SUBSET Pairs :
          run' = [run EXCEPT !.stage = "scanning", !.grouped = chosen]
    BY <1>2 DEF PersistCandidates, Grouped, Admitted
  <2> QED
    BY <2>1 DEF CatalogType, RunType, Runs, Stages
<1> QED
  BY <1>1, <1>3, <1>4
  DEF CatalogType, WorldType, CodeType, StoredType, RowsType, SavedType, SavedRowsType

\* A scan is dispatched for libraries that were asked for, at a pinned head.
LEMMA UndecidedIsAsked ==
  ASSUME CatalogType, GroupedInv, run.stage = "scanning", NEW r \in Catalogued
  PROVE  /\ Undecided(r) \subseteq run.wanted
         /\ Undecided(r) /= {} => run.pinned[r] > 0
  BY PairParts DEF Undecided, GroupedInv, Resolved, CatalogType, RunType, Runs

\* What a scan writes, and what becomes of the pairs it decided.
Recorded(r, triaged) == Undecided(r) \cup triaged

FoundIn(r, triaged) == Recorded(r, triaged) \cap Uses(r)

VerdictOf(r, l, triaged) ==
    [repo |-> r, library |-> l, head |-> run.pinned[r],
     detector |-> run.code.detector[l], positive |-> l \in FoundIn(r, triaged)]

LEMMA ScanWrites ==
  ASSUME NEW r \in Catalogued, ScanRepository(r)
  PROVE  \E triaged \in SUBSET run.wanted :
           /\ Uses(r) \cap run.wanted \subseteq triaged
           /\ results' =
                {v \in results : ~(/\ v.repo = r /\ v.library \in Recorded(r, triaged)
                                   /\ v.head = run.pinned[r]
                                   /\ v.detector = run.code.detector[v.library])}
                \cup {VerdictOf(r, l, triaged) : l \in Recorded(r, triaged)}
           /\ active' = (active \cup {<<r, l>> : l \in triaged})
                            \ {p \in {<<r, l>> : l \in Recorded(r, triaged) \ FoundIn(r, triaged)} :
                                 LibraryOf(p) \in run.covered}
           /\ refuted' = (refuted \ {<<r, l>> : l \in FoundIn(r, triaged)})
                            \cup {<<r, l>> : l \in Recorded(r, triaged) \ FoundIn(r, triaged)}
           /\ shadowed' = shadowed \ {<<r, l>> : l \in Recorded(r, triaged)}
  BY DEF ScanRepository, Recorded, FoundIn, VerdictOf

LEMMA ScanTypes ==
  ASSUME CatalogType, GroupedInv, NEW r \in Catalogued, ScanRepository(r)
  PROVE  CatalogType'
<1>1. run.stage = "scanning"
      /\ UNCHANGED <<tree, listed, code, stored, run, exported>>
  BY DEF ScanRepository
<1>2. PICK triaged \in SUBSET run.wanted :
        /\ results' =
                {v \in results : ~(/\ v.repo = r /\ v.library \in Recorded(r, triaged)
                                   /\ v.head = run.pinned[r]
                                   /\ v.detector = run.code.detector[v.library])}
                \cup {VerdictOf(r, l, triaged) : l \in Recorded(r, triaged)}
        /\ active' \subseteq active \cup {<<r, l>> : l \in triaged}
  BY ScanWrites
<1>3. run.wanted \subseteq Detectors /\ run.pinned[r] \in Nat
      /\ \A l \in Detectors : run.code.detector[l] \in Nat
  BY DEF CatalogType, RunType, Runs, Heads, Checkouts
<1>4. triaged \subseteq Detectors /\ Recorded(r, triaged) \subseteq Detectors
  BY <1>1, <1>2, <1>3, UndecidedIsAsked DEF Recorded
<1>5. RowsType'
  <2>1. \A l \in Recorded(r, triaged) : VerdictOf(r, l, triaged) \in VerdictRows
    BY <1>3, <1>4 DEF VerdictOf, VerdictRows
  <2>2. results \subseteq VerdictRows
    BY DEF CatalogType, RowsType
  <2> QED
    BY <1>2, <2>1, <2>2 DEF RowsType
<1>6. active' \subseteq Pairs
  BY <1>2, <1>4, PairParts DEF CatalogType, StoredType
<1> QED
  BY <1>1, <1>5, <1>6
  DEF CatalogType, WorldType, CodeType, RunType, StoredType, SavedType, SavedRowsType

LEMMA FinishTypes ==
  ASSUME CatalogType, FinishScans
  PROVE  CatalogType'
<1>1. UNCHANGED <<tree, listed, code, stored, results, exported>> /\ active' \subseteq active
  BY DEF FinishScans
<1>2. run' = [run EXCEPT !.stage = "aggregating", !.grouped = {}, !.covered = {}]
  BY DEF FinishScans
<1>3. RunType'
  BY <1>2 DEF CatalogType, RunType, Runs, Stages
<1> QED
  BY <1>1, <1>3
  DEF CatalogType, WorldType, CodeType, StoredType, RowsType, SavedType, SavedRowsType

LEMMA PublishTypes ==
  ASSUME CatalogType, PublishCatalog
  PROVE  CatalogType'
<1>1. UNCHANGED <<tree, listed, code, stored>>
      /\ active' \subseteq active /\ results' \subseteq results
  BY DEF PublishCatalog, RetireDenied, Retained
<1>2. exported'.stored = stored /\ exported'.active = active' /\ exported'.results = results'
  BY DEF PublishCatalog, Saved
<1>3. run' = [NoRunYet EXCEPT !.stage = "complete"]
  BY DEF PublishCatalog
<1>4. RunType'
  BY <1>3, NoRunIsRun DEF RunType, Runs, Stages
<1>5. WorldType' /\ CodeType' /\ StoredType' /\ RowsType'
  BY <1>1 DEF CatalogType, WorldType, CodeType, StoredType, RowsType
<1>6. SavedType' /\ SavedRowsType'
  BY <1>1, <1>2, <1>5 DEF StoredType, RowsType, SavedType, SavedRowsType
<1> QED
  BY <1>4, <1>5, <1>6 DEF CatalogType

LEMMA FailTypes ==
  ASSUME CatalogType, FailCatalog
  PROVE  CatalogType'
<1>1. UNCHANGED <<tree, listed, code, stored, active, results, exported>>
  BY DEF FailCatalog
<1>2. \/ run' = [NoRunYet EXCEPT !.stage = "failed"]
      \/ run' = [run EXCEPT !.stage = "failed", !.grouped = {}]
  BY DEF FailCatalog
<1>3. RunType'
  BY <1>2, NoRunIsRun DEF CatalogType, RunType, Runs, Stages
<1> QED
  BY <1>1, <1>3
  DEF CatalogType, WorldType, CodeType, StoredType, RowsType, SavedType, SavedRowsType

LEMMA RestoreTypes ==
  ASSUME CatalogType, RestoreState
  PROVE  CatalogType'
<1>1. UNCHANGED <<tree, listed, code, exported>>
      /\ stored' = exported.stored /\ active' = exported.active
      /\ results' = exported.results
  BY DEF RestoreState, Import
<1>2. run' = NoRunYet \/ run' = [NoRunYet EXCEPT !.stage = "complete"]
  BY DEF RestoreState
<1>3. RunType'
  BY <1>2, NoRunIsRun DEF RunType, Runs, Stages
<1> QED
  BY <1>1, <1>3
  DEF CatalogType, WorldType, CodeType, StoredType, RowsType, SavedType, SavedRowsType

LEMMA WorldTypes ==
  ASSUME CatalogType,
         EditCode \/ \E r \in Catalogued : PushTo(r) \/ Withdraw(r)
  PROVE  CatalogType'
<1>1. UNCHANGED <<stored, active, results, run, exported>>
  BY DEF EditCode, PushTo, Withdraw
<1>2. WorldType'
  <2>1. CASE EditCode
    BY <2>1 DEF EditCode, CatalogType, WorldType
  <2>2. ASSUME NEW r \in Catalogued, PushTo(r) PROVE WorldType'
    <3>1. PICK uses \in Usages : tree' = [tree EXCEPT ![r] = Append(@, uses)]
      BY <2>2 DEF PushTo
    <3>2. tree \in [Catalogued -> Seq(Usages)]
      BY DEF CatalogType, WorldType
    <3>3. Append(tree[r], uses) \in Seq(Usages)
      BY <3>2
    <3>4. tree' \in [Catalogued -> Seq(Usages)]
      BY <3>1, <3>2, <3>3
    <3> QED
      BY <2>2, <3>4 DEF PushTo, CatalogType, WorldType
  <2>3. ASSUME NEW r \in Catalogued, Withdraw(r) PROVE WorldType'
    BY <2>3 DEF Withdraw, CatalogType, WorldType
  <2> QED
    BY <2>1, <2>2, <2>3
<1>3. CodeType'
  <2>1. CASE EditCode
    <3>1. code \in Checkouts
      BY DEF CatalogType, CodeType
    <3>2. CASE \E l \in Detectors : code' = [code EXCEPT !.detector[l] = @ + 1]
      <4>1. PICK l \in Detectors : code' = [code EXCEPT !.detector[l] = @ + 1]
        BY <3>2
      <4>2. code.detector[l] + 1 \in Nat
        BY <3>1 DEF Checkouts
      <4> QED
        BY <3>1, <4>1, <4>2 DEF CodeType, Checkouts
    <3>3. CASE \E p \in Deniable : code' = [code EXCEPT !.denied = @ \cup {p}]
      BY <3>1, <3>3, CatalogAssumption DEF CodeType, Checkouts
    <3>4. CASE \E r \in Catalogued : code' = [code EXCEPT !.banned = @ \cup {r}]
      BY <3>1, <3>4 DEF CodeType, Checkouts
    <3> QED
      BY <2>1, <3>2, <3>3, <3>4 DEF EditCode
  <2>2. CASE \E r \in Catalogued : PushTo(r) \/ Withdraw(r)
    BY <2>2 DEF PushTo, Withdraw, CatalogType, CodeType
  <2> QED
    BY <2>1, <2>2
<1> QED
  BY <1>1, <1>2, <1>3 DEF CatalogType, StoredType, RowsType, RunType, SavedType, SavedRowsType

\* Types are kept by every step.
LEMMA TypesStep ==
  ASSUME CatalogType, GroupedInv, [CatalogNext]_catalogVars
  PROVE  CatalogType'
<1>1. CASE UNCHANGED catalogVars
  BY <1>1 DEF catalogVars, CatalogType, WorldType, CodeType, StoredType, RowsType, RunType,
              SavedType, SavedRowsType
<1> QED
  BY <1>1, PlanTypes, DiscoverTypes, PinTypes, PersistTypes, ScanTypes, FinishTypes,
     PublishTypes, FailTypes, RestoreTypes, WorldTypes DEF CatalogNext

--------------------------------------------------------------------------------
(* Verdicts and rows stay true: heads are only added to a tree. *)

LEMMA TreesGrow ==
  ASSUME CatalogType, [CatalogNext]_catalogVars
  PROVE  \A r \in Catalogued :
           /\ HeadOf(r) \in Nat /\ HeadOf(r)' \in Nat /\ HeadOf(r) <= HeadOf(r)'
           /\ \A h \in 1 .. HeadOf(r) : tree'[r][h] = tree[r][h]
<1>1. tree \in [Catalogued -> Seq(Usages)]
  BY DEF CatalogType, WorldType
<1>2. CASE tree' = tree
  BY <1>1, <1>2 DEF HeadOf
<1>3. ASSUME NEW x \in Catalogued, PushTo(x)
      PROVE  \A r \in Catalogued :
               /\ HeadOf(r) \in Nat /\ HeadOf(r)' \in Nat /\ HeadOf(r) <= HeadOf(r)'
               /\ \A h \in 1 .. HeadOf(r) : tree'[r][h] = tree[r][h]
  <2>1. PICK uses \in Usages : tree' = [tree EXCEPT ![x] = Append(@, uses)]
    BY <1>3 DEF PushTo
  <2>2. \A r \in Catalogued : tree'[r] = IF r = x THEN Append(tree[r], uses) ELSE tree[r]
    BY <1>1, <2>1
  <2> TAKE r \in Catalogued
  <2>3. tree[r] \in Seq(Usages)
    BY <1>1
  <2>4. CASE r = x
    <3>1. tree'[r] = Append(tree[r], uses)
      BY <2>2, <2>4
    <3>2. Len(tree'[r]) = Len(tree[r]) + 1
          /\ \A h \in 1 .. Len(tree[r]) : tree'[r][h] = tree[r][h]
      BY <2>3, <3>1
    <3> QED
      BY <2>3, <3>2 DEF HeadOf
  <2>5. CASE r /= x
    BY <2>2, <2>3, <2>5 DEF HeadOf
  <2> QED
    BY <2>4, <2>5
<1>4. tree' = tree \/ \E x \in Catalogued : PushTo(x)
  BY DEF CatalogNext, catalogVars, PlanRun, ResumePlan, BeginRun, DiscoverPairs, PinHeads,
         PersistCandidates, ScanRepository, FinishScans, PublishCatalog, FailCatalog,
         RestoreState, Withdraw, EditCode
<1> QED
  BY <1>2, <1>3, <1>4

LEMMA StaysFaithful ==
  ASSUME CatalogType, [CatalogNext]_catalogVars, NEW v \in VerdictRows, Faithful(v)
  PROVE  Faithful(v)'
  BY TreesGrow DEF Faithful, VerdictRows

LEMMA FaithfulStep ==
  ASSUME ProvenInv, [CatalogNext]_catalogVars
  PROVE  FaithfulInv'
<1> USE DEF ProvenInv
<1>1. \A v \in results \cup exported.results : v \in VerdictRows /\ Faithful(v)
  BY DEF CatalogType, RowsType, SavedRowsType, FaithfulInv
<1>2. CASE results' \cup exported'.results \subseteq results \cup exported.results
  BY <1>1, <1>2, StaysFaithful DEF FaithfulInv
<1>3. ASSUME NEW r \in Catalogued, ScanRepository(r) PROVE FaithfulInv'
  <2>1. UNCHANGED <<tree, exported>> /\ run.stage = "scanning" /\ Undecided(r) /= {}
    BY <1>3 DEF ScanRepository
  <2>2. PICK triaged \in SUBSET run.wanted :
          results' \subseteq results \cup {VerdictOf(r, l, triaged) : l \in Recorded(r, triaged)}
    BY <1>3, ScanWrites
  <2>3. run.pinned[r] \in 1 .. HeadOf(r)
    <3>1. run.pinned[r] \in Nat /\ run.pinned[r] > 0
      BY <2>1, UndecidedIsAsked DEF CatalogType, RunType, Runs, Heads
    <3>2. run.pinned[r] <= HeadOf(r)
      BY <2>1 DEF HeadsInv, HasHeads
    <3>3. HeadOf(r) \in Nat
      BY TreesGrow
    <3> QED
      BY <3>1, <3>2, <3>3
  <2>4. \A l \in Recorded(r, triaged) : Faithful(VerdictOf(r, l, triaged))
    BY <2>3 DEF Faithful, VerdictOf, FoundIn, Uses
  <2>5. \A v \in results' \cup exported'.results : Faithful(v)
    BY <1>1, <2>1, <2>2, <2>4
  <2>6. \A v : Faithful(v)' <=> Faithful(v)
    BY <2>1 DEF Faithful, HeadOf
  <2> QED
    BY <2>5, <2>6 DEF FaithfulInv
<1>4. ASSUME PublishCatalog PROVE FaithfulInv'
  <2>1. results' \subseteq results /\ exported'.results = results'
    BY <1>4 DEF PublishCatalog, Saved, Retained
  <2> QED
    BY <1>2, <2>1
<1>5. ASSUME RestoreState PROVE FaithfulInv'
  <2>1. results' = exported.results /\ exported' = exported
    BY <1>5 DEF RestoreState, Import
  <2> QED
    BY <1>2, <2>1
<1>6. ASSUME PinHeads PROVE FaithfulInv'
  <2>1. results' \subseteq results /\ exported' = exported
    BY <1>6 DEF PinHeads
  <2> QED
    BY <1>2, <2>1
<1>7. \/ UNCHANGED <<results, exported>>
      \/ PinHeads \/ RestoreState \/ PublishCatalog \/ \E r \in Catalogued : ScanRepository(r)
  BY DEF CatalogNext, catalogVars, PlanRun, ResumePlan, BeginRun, DiscoverPairs,
         PersistCandidates, FinishScans, FailCatalog, PushTo, Withdraw, EditCode
<1> QED
  BY <1>2, <1>3, <1>4, <1>5, <1>6, <1>7

LEMMA ReleaseStep ==
  ASSUME ProvenInv, [CatalogNext]_catalogVars
  PROVE  ReleaseInv'
<1> USE DEF ProvenInv
<1>1. CASE release' = release
  <2>1. ASSUME NEW p \in release.current PROVE ProvenRow(p)'
    <3>1. ProvenRow(p) /\ RepoOf(p) \in Catalogued
      BY PairParts DEF ReleaseInv, ProvenRow
    <3> QED
      BY <1>1, <3>1, TreesGrow DEF ProvenRow
  <2>2. ASSUME NEW p \in release.carried PROVE CarriedRow(p)'
    BY <1>1 DEF CarriedRow, ReleaseInv
  <2> QED
    BY <1>1, <2>1, <2>2 DEF ReleaseInv
<1>2. CASE PublishCatalog
  <2>1. /\ release'.current = Evidence /\ release'.carried = CarriedRows
        /\ release'.pinned = run.pinned /\ release'.by = run.wanted
        /\ tree' = tree /\ run.stage = "aggregating"
    BY <1>2 DEF PublishCatalog, Materialized
  <2>2. stored = run.pinned
    BY <2>1 DEF HeadsInv, HasHeads
  <2>3. ASSUME NEW p \in Evidence PROVE ProvenRow(p)'
    <3>1. PICK v \in results :
            v.positive /\ v.head = stored[v.repo] /\ p = <<v.repo, v.library>>
      BY DEF Evidence, InScope, Positive
    <3>2. v \in VerdictRows /\ Faithful(v)
      BY DEF CatalogType, RowsType, FaithfulInv
    <3>3. p \in Pairs /\ RepoOf(p) = v.repo /\ LibraryOf(p) = v.library
      BY <3>1, <3>2, PairParts DEF VerdictRows
    <3> QED
      BY <2>1, <2>2, <3>1, <3>2, <3>3 DEF ProvenRow, Faithful, HeadOf
  <2>4. ASSUME NEW p \in CarriedRows PROVE CarriedRow(p)'
    BY <2>1, <2>2 DEF CarriedRow, CarriedRows, CarriedLibraries
  <2> QED
    BY <2>1, <2>3, <2>4 DEF ReleaseInv
<1>3. release' = release \/ PublishCatalog
  BY DEF CatalogNext, catalogVars, PlanRun, ResumePlan, BeginRun, DiscoverPairs, PinHeads,
         PersistCandidates, ScanRepository, FinishScans, FailCatalog, RestoreState,
         PushTo, Withdraw, EditCode
<1> QED
  BY <1>1, <1>2, <1>3

--------------------------------------------------------------------------------
(* The plan, the heads and what is to be scanned. *)

\* What the steps of a run have to see to; the lemmas go through them one by one.
OwnInv == PlanInv /\ HeadsInv /\ GroupedInv

LEMMA PlanOwn ==
  ASSUME ProvenInv, PlanRun \/ ResumePlan
  PROVE  OwnInv'
<1> USE DEF ProvenInv
<1>1. UNCHANGED <<tree, code, stored, results>> /\ fps' = code.detector
  BY DEF PlanRun, ResumePlan, BeginRun, UpsertLibraries
<1>2. CASE PlanRun
  <2>1. PICK mode \in Modes : \E wanted \in Selections(mode) :
          run' = [NoRunYet EXCEPT !.stage = "discovering", !.mode = mode,
                                  !.wanted = wanted, !.code = code]
    BY <1>2 DEF PlanRun, BeginRun, Modes
  <2>2. PICK wanted \in Selections(mode) :
          run' = [NoRunYet EXCEPT !.stage = "discovering", !.mode = mode,
                                  !.wanted = wanted, !.code = code]
    BY <2>1
  <2>3. /\ run'.stage = "discovering" /\ run'.mode = mode /\ run'.wanted = wanted
        /\ run'.code = code /\ run'.pinned = NoHeads
    BY <2>2 DEF NoRunYet, NoHeads
  <2>4. mode \in {"refresh", "reconcile"} => wanted = Detectors
    BY <2>2 DEF Selections
  <2>5. PlanInv'
    BY <1>1, <2>1, <2>3, <2>4 DEF PlanInv, Selective, Modes
  <2>6. HeadsInv'
    BY <2>3 DEF HeadsInv, HasHeads, NoHeads
  <2> QED
    BY <2>3, <2>5, <2>6 DEF OwnInv, GroupedInv
<1>3. CASE ResumePlan
  <2>1. run.stage = "failed" /\ run.pinned /= NoHeads
        /\ run' = [run EXCEPT !.stage = "persisting", !.code = code]
    BY <1>3 DEF ResumePlan, BeginRun, NoHeads
  <2>2. HasHeads
    BY <2>1 DEF HasHeads
  <2>3. /\ run'.stage = "persisting" /\ run'.mode = run.mode /\ run'.wanted = run.wanted
        /\ run'.code = code /\ run'.pinned = run.pinned
    BY <2>1 DEF CatalogType, RunType, Runs
  <2>4. PlanInv'
    BY <1>1, <2>2, <2>3 DEF PlanInv, Selective
  <2>5. HeadsInv'
    BY <1>1, <2>2, <2>3 DEF HeadsInv, HasHeads, HeadOf
  <2> QED
    BY <2>3, <2>4, <2>5 DEF OwnInv, GroupedInv
<1> QED
  BY <1>2, <1>3

LEMMA DiscoverOwn ==
  ASSUME ProvenInv, DiscoverPairs
  PROVE  OwnInv'
<1> USE DEF ProvenInv
<1>1. UNCHANGED <<tree, code, fps, stored, results>> /\ run.stage = "discovering"
  BY DEF DiscoverPairs
<1>2. PICK observed \in SUBSET Pairs, collided \in SUBSET Pairs, covered \in {{}, run.wanted} :
        run' = [run EXCEPT !.stage = "resolving", !.observed = observed,
                           !.collided = collided, !.covered = covered]
  BY DEF DiscoverPairs, Searched, EverUsed
<1>3. /\ run'.stage = "resolving" /\ run'.mode = run.mode /\ run'.wanted = run.wanted
      /\ run'.code = run.code /\ run'.pinned = run.pinned
  BY <1>2 DEF CatalogType, RunType, Runs
<1>4. PlanInv'
  BY <1>1, <1>3 DEF PlanInv, Busy, Selective
<1>5. HeadsInv'
  BY <1>1, <1>3 DEF HeadsInv, HasHeads, NoHeads
<1> QED
  BY <1>3, <1>4, <1>5 DEF OwnInv, GroupedInv

LEMMA PinOwn ==
  ASSUME ProvenInv, PinHeads
  PROVE  OwnInv'
<1> USE DEF ProvenInv
<1>1. UNCHANGED <<tree, code, fps>> /\ run.stage = "resolving"
  BY DEF PinHeads
<1>2. PICK admitted :
        /\ stored' = [r \in Catalogued |-> IF r \in admitted THEN HeadOf(r) ELSE 0]
        /\ run' = [run EXCEPT !.stage = "persisting", !.pinned = stored']
        /\ results' = {v \in results : v.repo \in admitted}
  BY DEF PinHeads
<1>3. /\ run'.stage = "persisting" /\ run'.mode = run.mode /\ run'.wanted = run.wanted
      /\ run'.code = run.code /\ run'.pinned = stored'
  BY <1>2 DEF CatalogType, RunType, Runs
<1>4. PlanInv'
  BY <1>1, <1>3 DEF PlanInv, Busy, Selective
<1>5. \A r \in Catalogued : HeadOf(r) \in Nat /\ HeadOf(r)' = HeadOf(r)
  BY <1>1 DEF HeadOf, CatalogType, WorldType
<1>6. \A r \in Catalogued : stored'[r] <= HeadOf(r)'
  BY <1>2, <1>5
<1>7. \A v \in results' : v.head <= stored'[v.repo]
  BY <1>2, <1>5 DEF FaithfulInv, Faithful, CatalogType, RowsType, VerdictRows
<1>8. HeadsInv'
  BY <1>3, <1>6, <1>7 DEF HeadsInv
<1> QED
  BY <1>3, <1>4, <1>8 DEF OwnInv, GroupedInv

LEMMA PersistOwn ==
  ASSUME ProvenInv, PersistCandidates
  PROVE  OwnInv'
<1> USE DEF ProvenInv
<1>1. UNCHANGED <<tree, code, fps, stored, results>> /\ run.stage = "persisting"
  BY DEF PersistCandidates
<1> DEFINE named == StateCandidates \cup LegacyCandidates \cup Met
           selected == {p \in Grouped(named) : Selective => LibraryOf(p) \in run.wanted}
<1>2. run' = [run EXCEPT !.stage = "scanning", !.grouped = selected]
  BY DEF PersistCandidates
<1>3. /\ run'.stage = "scanning" /\ run'.mode = run.mode /\ run'.wanted = run.wanted
      /\ run'.code = run.code /\ run'.pinned = run.pinned /\ run'.grouped = selected
  BY <1>2 DEF CatalogType, RunType, Runs
<1>4. PlanInv'
  BY <1>1, <1>3 DEF PlanInv, Busy, Selective
<1>5. HeadsInv'
  BY <1>1, <1>3 DEF HeadsInv, HasHeads, HeadOf
<1>6. \A p \in selected : p \in Pairs /\ Resolved(p) /\ (Selective => LibraryOf(p) \in run.wanted)
  BY CatalogAssumption
  DEF Grouped, Admitted, CatalogType, RunType, Runs, StoredType, StateCandidates,
      LegacyCandidates, InScope, Met
<1>7. ~Selective => run.wanted = Detectors
  BY <1>1 DEF PlanInv, Busy
<1>8. GroupedInv'
  BY <1>3, <1>6, <1>7, PairParts DEF GroupedInv, Resolved
<1> QED
  BY <1>4, <1>5, <1>8 DEF OwnInv

LEMMA ScanOwn ==
  ASSUME ProvenInv, NEW r \in Catalogued, ScanRepository(r)
  PROVE  OwnInv'
<1> USE DEF ProvenInv
<1>1. UNCHANGED <<tree, code, fps, stored, run>> /\ run.stage = "scanning"
  BY DEF ScanRepository
<1>2. PICK triaged \in SUBSET run.wanted :
        results' \subseteq results \cup {VerdictOf(r, l, triaged) : l \in Recorded(r, triaged)}
  BY ScanWrites
<1>3. stored = run.pinned /\ stored[r] \in Nat
      /\ \A v \in results : v.head <= stored[v.repo]
  BY <1>1 DEF HeadsInv, HasHeads, CatalogType, StoredType, Heads
<1>4. \A l : VerdictOf(r, l, triaged).repo = r /\ VerdictOf(r, l, triaged).head = stored[r]
  BY <1>3 DEF VerdictOf
<1>5. \A v \in results' : v.head <= stored[v.repo]
  BY <1>2, <1>3, <1>4
<1>6. HeadsInv'
  BY <1>1, <1>5 DEF HeadsInv, HasHeads, HeadOf
<1>7. PlanInv' /\ GroupedInv'
  BY <1>1 DEF PlanInv, Busy, HasHeads, Selective, GroupedInv, Resolved
<1> QED
  BY <1>6, <1>7 DEF OwnInv

LEMMA FinishOwn ==
  ASSUME ProvenInv, FinishScans
  PROVE  OwnInv'
<1> USE DEF ProvenInv
<1>1. UNCHANGED <<tree, code, fps, stored, results>> /\ run.stage = "scanning"
      /\ run' = [run EXCEPT !.stage = "aggregating", !.grouped = {}, !.covered = {}]
  BY DEF FinishScans
<1>2. /\ run'.stage = "aggregating" /\ run'.mode = run.mode /\ run'.wanted = run.wanted
      /\ run'.code = run.code /\ run'.pinned = run.pinned
  BY <1>1 DEF CatalogType, RunType, Runs
<1>3. PlanInv'
  BY <1>1, <1>2 DEF PlanInv, Busy, Selective
<1>4. HeadsInv'
  BY <1>1, <1>2 DEF HeadsInv, HasHeads, HeadOf
<1> QED
  BY <1>2, <1>3, <1>4 DEF OwnInv, GroupedInv

LEMMA FailOwn ==
  ASSUME ProvenInv, FailCatalog
  PROVE  OwnInv'
<1> USE DEF ProvenInv
<1>1. UNCHANGED <<tree, code, fps, stored, results>>
      /\ run.stage \notin {"none", "failed", "complete"}
  BY DEF FailCatalog
<1>2. CASE run.pinned = NoHeads
  <2>1. run' = [NoRunYet EXCEPT !.stage = "failed"]
    BY <1>2 DEF FailCatalog, NoHeads
  <2>2. run'.stage = "failed" /\ run'.pinned = NoHeads
    BY <2>1 DEF NoRunYet, NoHeads
  <2>3. NoHeads' = NoHeads
    BY DEF NoHeads, NoRunYet, NoCode
  <2> QED
    BY <2>2, <2>3 DEF OwnInv, PlanInv, HeadsInv, GroupedInv, Busy, HasHeads
<1>3. CASE run.pinned /= NoHeads
  <2>1. run' = [run EXCEPT !.stage = "failed", !.grouped = {}]
    BY <1>3 DEF FailCatalog, NoHeads
  <2>2. /\ run'.stage = "failed" /\ run'.mode = run.mode /\ run'.wanted = run.wanted
        /\ run'.code = run.code /\ run'.pinned = run.pinned
    BY <2>1 DEF CatalogType, RunType, Runs
  <2>3. HasHeads
    BY <1>1, <1>3 DEF HeadsInv, HasHeads, CatalogType, RunType, Runs, Stages
  <2>4. PlanInv'
    BY <2>2, <2>3 DEF PlanInv, Busy, Selective
  <2>5. HeadsInv'
    BY <1>1, <2>2, <2>3 DEF HeadsInv, HeadOf
  <2> QED
    BY <2>2, <2>4, <2>5 DEF OwnInv, GroupedInv
<1> QED
  BY <1>2, <1>3

LEMMA EndOwn ==
  ASSUME PublishCatalog \/ RestoreState
  PROVE  OwnInv'
<1>1. run' = NoRunYet \/ run' = [NoRunYet EXCEPT !.stage = "complete"]
  BY DEF PublishCatalog, RestoreState
<1>2. run'.stage \in {"none", "complete"}
  BY <1>1 DEF NoRunYet
<1> QED
  BY <1>2 DEF OwnInv, PlanInv, HeadsInv, GroupedInv, Busy, HasHeads

LEMMA WorldOwn ==
  ASSUME ProvenInv, [CatalogNext]_catalogVars,
         UNCHANGED <<fps, stored, results, run>>, Busy => UNCHANGED code
  PROVE  OwnInv'
<1> USE DEF ProvenInv
<1>1. PlanInv'
  BY DEF PlanInv, Busy, HasHeads, Selective
<1>2. HasHeads' <=> HasHeads
  BY DEF HasHeads, NoHeads, NoRunYet, NoCode
<1>3. ASSUME HasHeads PROVE \A r \in Catalogued : stored[r] <= HeadOf(r)'
  <2>1. \A r \in Catalogued : stored[r] \in Nat /\ stored[r] <= HeadOf(r)
    BY <1>3 DEF HeadsInv, CatalogType, StoredType, Heads
  <2> QED
    BY <2>1, TreesGrow
<1>4. HeadsInv'
  BY <1>2, <1>3 DEF HeadsInv, NoHeads, NoRunYet, NoCode
<1>5. GroupedInv'
  BY DEF GroupedInv, Resolved
<1> QED
  BY <1>1, <1>4, <1>5 DEF OwnInv

LEMMA OwnStep ==
  ASSUME ProvenInv, [CatalogNext]_catalogVars
  PROVE  OwnInv'
<1>1. CASE UNCHANGED catalogVars
  BY <1>1, WorldOwn DEF catalogVars
<1>2. CASE EditCode \/ \E r \in Catalogued : PushTo(r) \/ Withdraw(r)
  <2>1. UNCHANGED <<fps, stored, results, run>>
    BY <1>2 DEF EditCode, PushTo, Withdraw
  <2>2. Busy => UNCHANGED code
    BY <1>2 DEF EditCode, PushTo, Withdraw, Busy
  <2> QED
    BY <2>1, <2>2, WorldOwn
<1> QED
  BY <1>1, <1>2, PlanOwn, DiscoverOwn, PinOwn, PersistOwn, ScanOwn, FinishOwn, FailOwn,
     EndOwn DEF CatalogNext

\* The invariant is inductive.
LEMMA ProvenStep == ProvenInv /\ [CatalogNext]_catalogVars => ProvenInv'
<1> SUFFICES ASSUME ProvenInv, [CatalogNext]_catalogVars PROVE ProvenInv'
  OBVIOUS
<1>1. CatalogType'
  BY TypesStep DEF ProvenInv
<1> QED
  BY <1>1, FaithfulStep, OwnStep, ReleaseStep DEF ProvenInv, OwnInv

LEMMA ProvenStays == CatalogSpec => []ProvenInv
  BY CatalogStarts, ProvenStep, PTL DEF CatalogSpec

\* Every row of the catalog that is not carried over from V1 is backed by the tree of the
\* head pinned for the run that published it, whatever that run scanned itself and whatever
\* it read back from the verdicts of earlier runs, of a database restored from a
\* checkpoint, or of another selection of libraries; and no row is carried over for a
\* library the run was asked for.  For any number of repositories and libraries, pushes,
\* changes of the code and runs.
THEOREM CatalogRowsAreProven == CatalogSpec => []CatalogIsProven
<1>1. ProvenInv => CatalogIsProven
  <2> SUFFICES ASSUME ProvenInv PROVE CatalogIsProven
    OBVIOUS
  <2>1. \A p \in release.current :
          release.pinned[RepoOf(p)] > 0
          /\ LibraryOf(p) \in tree[RepoOf(p)][release.pinned[RepoOf(p)]]
    BY PairParts DEF ProvenInv, ReleaseInv, ProvenRow, CatalogType, WorldType, HeadOf
  <2>2. \A p \in release.carried : CarriedRow(p)
    BY DEF ProvenInv, ReleaseInv
  <2> QED
    BY <2>1, <2>2 DEF CatalogIsProven, CarriedRow
<1> QED
  BY <1>1, ProvenStays, PTL

--------------------------------------------------------------------------------
(* Adopters survive.  Whatever was published or proven keeps a reason to be asked     *)
(* again, or a reason to be dropped.                                               *)

PairOf(v) == <<v.repo, v.library>>

\* Reasons no step takes away: a row of V1, the policy.
Lasting(p) == p \in V1Pairs \cup code.denied

\* Pairs that were rejected, or refused for a reviewed document, since they were last kept.
Excused == refuted \cup shadowed
ExcusedThen == exported.refuted \cup exported.shadowed

Kept(p, candidates, excused) == p \in candidates \cup excused \/ Lasting(p)

\* The next run that pins heads will not admit the repository.
Barred(p) == ~listed[RepoOf(p)] \/ RepoOf(p) \in code.banned

\* A rejection at the newest head a pair has a verdict for is what history says of it.
NewestIsKnown(verdicts, rejections) ==
    \A v \in verdicts :
        /\ ~v.positive
        /\ \A w \in verdicts : PairOf(w) = PairOf(v) => w.head <= v.head
        => PairOf(v) \in rejections

RefutedInv ==
    NewestIsKnown(results, refuted) /\ NewestIsKnown(exported.results, exported.refuted)

ProvenAreKept(verdicts, candidates, excused) ==
    \A v \in verdicts : v.positive => Kept(PairOf(v), candidates, excused)

PositivesInv ==
    /\ ProvenAreKept(results, active, Excused)
    /\ ProvenAreKept(exported.results, exported.active, ExcusedThen)

\* A published pair is still known, in the state and in the checkpoint, unless its
\* repository is gone.
ReleasedInv ==
    \A p \in release.current :
        /\ stored[RepoOf(p)] > 0 \/ Barred(p)
        /\ exported.stored[RepoOf(p)] > 0
        /\ Kept(p, exported.active, ExcusedThen)
        /\ \/ Kept(p, active, Excused)
           \/ HasHeads /\ stored[RepoOf(p)] = 0
           \/ ~HasHeads /\ Barred(p)

\* What the run has to show is about to be scanned, is proven, or is to be withdrawn.
Shown(p) == Withdrawn(p) \/ p \in Positive

ShownInv ==
    \A p \in (Listed(release) \ shadowed) \cup Accepted :
        LibraryOf(p) \in run.wanted =>
            /\ run.stage = "scanning" => p \in run.grouped \/ Shown(p)
            /\ run.stage = "aggregating" => Shown(p)

\* The inductive invariant of survival, on top of the one above.
SurvivalInv == RefutedInv /\ PositivesInv /\ ReleasedInv /\ ShownInv

LEMMA SurvivalStarts == CatalogInit => SurvivalInv
<1> SUFFICES ASSUME CatalogInit PROVE SurvivalInv
  OBVIOUS
<1>1. results = {} /\ exported.results = {} /\ release.current = {}
  BY DEF CatalogInit, Saved, NothingPublished
<1>2. run.stage = "none"
  BY NoRunIsRun DEF CatalogInit
<1> QED
  BY <1>1, <1>2 DEF SurvivalInv, RefutedInv, PositivesInv, ReleasedInv, ShownInv,
     NewestIsKnown, ProvenAreKept

\* What is gone stays gone, and what is refused stays refused.
LEMMA ReasonsLast ==
  ASSUME CatalogType, [CatalogNext]_catalogVars, NEW p \in Pairs
  PROVE  (Lasting(p) => Lasting(p)') /\ (Barred(p) => Barred(p)')
<1>1. RepoOf(p) \in Catalogued
  BY PairParts
<1>2. code \in Checkouts /\ listed \in [Catalogued -> BOOLEAN]
  BY DEF CatalogType, CodeType, WorldType
<1>3. code.denied \subseteq code'.denied /\ code.banned \subseteq code'.banned
  <2>1. CASE code' = code
    BY <2>1
  <2>2. CASE EditCode
    BY <1>2, <2>2 DEF EditCode, Checkouts
  <2>3. code' = code \/ EditCode
    BY DEF CatalogNext, catalogVars, PlanRun, ResumePlan, BeginRun, DiscoverPairs, PinHeads,
           PersistCandidates, ScanRepository, FinishScans, PublishCatalog, FailCatalog,
           RestoreState, PushTo, Withdraw
  <2> QED
    BY <2>1, <2>2, <2>3
<1>4. \A r \in Catalogued : ~listed[r] => ~listed'[r]
  <2>1. CASE listed' = listed
    BY <2>1
  <2>2. CASE \E r \in Catalogued : Withdraw(r)
    BY <1>2, <2>2 DEF Withdraw
  <2>3. listed' = listed \/ \E r \in Catalogued : Withdraw(r)
    BY DEF CatalogNext, catalogVars, PlanRun, ResumePlan, BeginRun, DiscoverPairs, PinHeads,
           PersistCandidates, ScanRepository, FinishScans, PublishCatalog, FailCatalog,
           RestoreState, PushTo, EditCode
  <2> QED
    BY <2>1, <2>2, <2>3
<1> QED
  BY <1>1, <1>3, <1>4 DEF Lasting, Barred

\* Verdicts are about pairs.
LEMMA PairsOfVerdicts ==
  ASSUME CatalogType, NEW v \in results \cup exported.results
  PROVE  v \in VerdictRows /\ PairOf(v) \in Pairs
         /\ RepoOf(PairOf(v)) = v.repo /\ LibraryOf(PairOf(v)) = v.library
  BY PairParts DEF CatalogType, RowsType, SavedRowsType, VerdictRows, PairOf

\* Steps that touch neither verdicts nor candidates.
LEMMA QuietSteps ==
  ASSUME ProvenInv, SurvivalInv, [CatalogNext]_catalogVars,
         UNCHANGED <<stored, active, results, refuted, shadowed, exported, release>>,
         HasHeads' => HasHeads
  PROVE  RefutedInv' /\ PositivesInv' /\ ReleasedInv'
<1>1. RefutedInv'
  BY DEF SurvivalInv, RefutedInv
<1>2. PositivesInv'
  <2>1. \A v \in results \cup exported.results : Lasting(PairOf(v)) => Lasting(PairOf(v))'
    BY PairsOfVerdicts, ReasonsLast DEF ProvenInv
  <2> QED
    BY <2>1 DEF SurvivalInv, PositivesInv, ProvenAreKept, Kept, Excused, ExcusedThen
<1>3. ReleasedInv'
  <2> SUFFICES ASSUME NEW p \in release.current
               PROVE  /\ stored[RepoOf(p)] > 0 \/ Barred(p)'
                      /\ exported.stored[RepoOf(p)] > 0
                      /\ Kept(p, exported.active, ExcusedThen)'
                      /\ \/ Kept(p, active, Excused)'
                         \/ HasHeads' /\ stored[RepoOf(p)] = 0
                         \/ ~HasHeads' /\ Barred(p)'
    BY DEF ReleasedInv
  <2>1. p \in Pairs /\ (Lasting(p) => Lasting(p)') /\ (Barred(p) => Barred(p)')
    BY ReasonsLast DEF ProvenInv, ReleaseInv, ProvenRow
  <2>2. /\ stored[RepoOf(p)] > 0 \/ Barred(p)
        /\ exported.stored[RepoOf(p)] > 0
        /\ Kept(p, exported.active, ExcusedThen)
        /\ \/ Kept(p, active, Excused)
           \/ HasHeads /\ stored[RepoOf(p)] = 0
           \/ ~HasHeads /\ Barred(p)
    BY DEF SurvivalInv, ReleasedInv
  <2>3. stored[RepoOf(p)] \in Nat
    BY <2>1, PairParts DEF ProvenInv, CatalogType, StoredType, Heads
  <2> QED
    BY <2>1, <2>2, <2>3 DEF Kept, Excused, ExcusedThen
<1> QED
  BY <1>1, <1>2, <1>3

LEMMA PlanSurvives ==
  ASSUME ProvenInv, SurvivalInv, PlanRun \/ ResumePlan
  PROVE  SurvivalInv'
<1>1. UNCHANGED <<stored, active, results, refuted, shadowed, exported, release>>
  BY DEF PlanRun, ResumePlan, BeginRun
<1>2. run'.stage = "discovering"
      \/ (run'.stage = "persisting" /\ run.stage = "failed" /\ run.pinned /= NoHeads)
  BY DEF PlanRun, ResumePlan, BeginRun, NoRunYet, NoHeads, ProvenInv, CatalogType, RunType, Runs
<1>3. HasHeads' => HasHeads
  BY <1>2 DEF HasHeads
<1>4. ShownInv'
  BY <1>2 DEF ShownInv
<1> QED
  BY <1>1, <1>3, <1>4, QuietSteps DEF SurvivalInv, CatalogNext

LEMMA DiscoverSurvives ==
  ASSUME ProvenInv, SurvivalInv, DiscoverPairs
  PROVE  SurvivalInv'
<1>1. UNCHANGED <<stored, active, results, refuted, shadowed, exported, release>>
  BY DEF DiscoverPairs
<1>2. run'.stage = "resolving"
  BY DEF DiscoverPairs, ProvenInv, CatalogType, RunType, Runs
<1>3. ~HasHeads'
  BY <1>2 DEF HasHeads
<1>4. ShownInv'
  BY <1>2 DEF ShownInv
<1> QED
  BY <1>1, <1>3, <1>4, QuietSteps DEF SurvivalInv, CatalogNext

LEMMA FailSurvives ==
  ASSUME ProvenInv, SurvivalInv, FailCatalog
  PROVE  SurvivalInv'
<1>1. UNCHANGED <<stored, active, results, refuted, shadowed, exported, release>>
  BY DEF FailCatalog
<1>2. run'.stage = "failed" /\ run'.pinned = run.pinned
  BY DEF FailCatalog, ProvenInv, CatalogType, RunType, Runs, NoRunYet
<1>3. HasHeads' => HasHeads
  BY <1>2 DEF HasHeads, ProvenInv, HeadsInv, CatalogType, RunType, Runs, Stages, FailCatalog,
              NoHeads, NoRunYet, NoCode
<1>4. ShownInv'
  BY <1>2 DEF ShownInv
<1> QED
  BY <1>1, <1>3, <1>4, QuietSteps DEF SurvivalInv, CatalogNext

LEMMA WorldSurvives ==
  ASSUME ProvenInv, SurvivalInv,
         \/ UNCHANGED catalogVars \/ EditCode
         \/ \E r \in Catalogued : PushTo(r) \/ Withdraw(r)
  PROVE  SurvivalInv'
<1>1. UNCHANGED <<fps, stored, active, results, refuted, shadowed, exported, release, run>>
  BY DEF EditCode, PushTo, Withdraw, catalogVars
<1>2. HasHeads' => HasHeads
  BY <1>1 DEF HasHeads, NoHeads, NoRunYet, NoCode
<1>3. ShownInv'
  <2>1. \A p : Shown(p)' <=> Shown(p)
    BY <1>1 DEF Shown, Withdrawn, Resolved, Denied, Positive
  <2>2. Accepted' = Accepted /\ Listed(release)' = Listed(release)
    BY <1>1 DEF Accepted, Listed
  <2> QED
    BY <1>1, <2>1, <2>2 DEF SurvivalInv, ShownInv
<1> QED
  BY <1>1, <1>2, <1>3, QuietSteps DEF SurvivalInv, CatalogNext

\* Pinning drops candidates and verdicts of repositories that are not admitted, no others.
LEMMA PinSurvives ==
  ASSUME ProvenInv, SurvivalInv, PinHeads
  PROVE  SurvivalInv'
<1> DEFINE named == KnownRepositories \cup {RepoOf(p) : p \in V1Pairs \cup Met}
           admitted == {r \in named : listed[r] /\ r \notin run.code.banned}
<1>1. /\ UNCHANGED <<tree, listed, code, refuted, shadowed, exported, release>>
      /\ run.stage = "resolving"
      /\ stored' = [r \in Catalogued |-> IF r \in admitted THEN HeadOf(r) ELSE 0]
      /\ active' = {p \in active : RepoOf(p) \in admitted}
      /\ results' = {v \in results : v.repo \in admitted}
      /\ run' = [run EXCEPT !.stage = "persisting", !.pinned = stored']
  BY DEF PinHeads
<1>2. \A r \in Catalogued : stored[r] > 0 => r \in named
  BY DEF KnownRepositories
<1>3. \A r \in named : r \in admitted <=> listed[r] /\ r \notin code.banned
  BY <1>1 DEF ProvenInv, PlanInv, Busy
<1> HIDE DEF admitted, named
<1>4. run'.stage = "persisting"
  BY <1>1 DEF ProvenInv, CatalogType, RunType, Runs
<1>5. HasHeads' /\ ~HasHeads
  BY <1>1, <1>4 DEF HasHeads
<1>6. \A p : Lasting(p)' <=> Lasting(p)
  BY <1>1 DEF Lasting
<1>7. RefutedInv'
  <2>1. ASSUME NEW v \in results', ~v.positive,
               \A w \in results' : PairOf(w) = PairOf(v) => w.head <= v.head
        PROVE  PairOf(v) \in refuted
    <3>1. \A w \in results : PairOf(w) = PairOf(v) => w \in results'
      BY <1>1 DEF PairOf
    <3> QED
      BY <1>1, <2>1, <3>1 DEF SurvivalInv, RefutedInv, NewestIsKnown
  <2>2. NewestIsKnown(exported.results, exported.refuted)
    BY DEF SurvivalInv, RefutedInv
  <2> QED
    BY <1>1, <2>1, <2>2 DEF RefutedInv, NewestIsKnown
<1>8. PositivesInv'
  <2>1. ASSUME NEW v \in results', v.positive PROVE Kept(PairOf(v), active', Excused)
    <3>1. v \in results /\ v.repo \in admitted
      BY <1>1, <2>1
    <3>2. RepoOf(PairOf(v)) = v.repo
      BY <3>1, PairsOfVerdicts DEF ProvenInv
    <3>3. Kept(PairOf(v), active, Excused)
      BY <2>1, <3>1 DEF SurvivalInv, PositivesInv, ProvenAreKept
    <3> QED
      BY <1>1, <3>1, <3>2, <3>3 DEF Kept, Excused, ExcusedThen
  <2>2. ProvenAreKept(exported.results, exported.active, ExcusedThen)
    BY DEF SurvivalInv, PositivesInv
  <2> QED
    BY <1>1, <1>6, <2>1, <2>2 DEF PositivesInv, ProvenAreKept, Kept, Excused, ExcusedThen
<1>9. ReleasedInv'
  <2> SUFFICES ASSUME NEW p \in release.current
               PROVE  /\ stored'[RepoOf(p)] > 0 \/ Barred(p)
                      /\ exported.stored[RepoOf(p)] > 0
                      /\ Kept(p, exported.active, ExcusedThen)
                      /\ Kept(p, active', Excused) \/ stored'[RepoOf(p)] = 0
    BY <1>1, <1>5, <1>6 DEF ReleasedInv, Barred, Kept, Excused, ExcusedThen
  <2>1. /\ stored[RepoOf(p)] > 0 \/ Barred(p)
        /\ exported.stored[RepoOf(p)] > 0
        /\ Kept(p, exported.active, ExcusedThen)
        /\ Kept(p, active, Excused) \/ Barred(p)
    BY <1>5 DEF SurvivalInv, ReleasedInv
  <2>2. p \in Pairs /\ RepoOf(p) \in Catalogued
    BY PairParts DEF ProvenInv, ReleaseInv, ProvenRow
  <2>3. HeadOf(RepoOf(p)) > 0 /\ HeadOf(RepoOf(p)) \in Nat
    BY <2>2 DEF ProvenInv, ReleaseInv, ProvenRow, CatalogType, WorldType, HeadOf
  <2>4. CASE RepoOf(p) \in admitted
    <3>1. ~Barred(p)
      BY <1>3, <2>4 DEF Barred, admitted
    <3>2. stored'[RepoOf(p)] > 0
      BY <1>1, <2>2, <2>3, <2>4
    <3>3. Kept(p, active', Excused)
      BY <1>1, <2>1, <2>4, <3>1 DEF Kept, Excused, ExcusedThen
    <3> QED
      BY <2>1, <3>2, <3>3
  <2>5. CASE RepoOf(p) \notin admitted
    <3>1. stored'[RepoOf(p)] = 0
      BY <1>1, <2>2, <2>5
    <3>2. Barred(p)
      <4>1. CASE stored[RepoOf(p)] > 0
        BY <1>2, <1>3, <2>2, <2>5, <4>1 DEF Barred
      <4>2. CASE ~(stored[RepoOf(p)] > 0)
        BY <2>1, <4>2
      <4> QED
        BY <4>1, <4>2
    <3> QED
      BY <2>1, <3>1, <3>2
  <2> QED
    BY <2>4, <2>5
<1>10. ShownInv'
  BY <1>4 DEF ShownInv
<1> QED
  BY <1>7, <1>8, <1>9, <1>10 DEF SurvivalInv

\* What a step that pins nothing, publishes nothing and restores nothing has to see to.
LEMMA KeptSteps ==
  ASSUME ProvenInv, SurvivalInv,
         UNCHANGED <<listed, code, stored, exported, release>>, HasHeads, HasHeads',
         \A p \in Pairs : Kept(p, active, Excused) => Kept(p, active, Excused)'
  PROVE  /\ ReleasedInv'
         /\ \A v \in results : v.positive => Kept(PairOf(v), active, Excused)'
         /\ ProvenAreKept(exported.results, exported.active, ExcusedThen)'
<1>1. \A p : (Lasting(p)' <=> Lasting(p)) /\ (Barred(p)' <=> Barred(p))
  BY DEF Lasting, Barred
<1>2. ReleasedInv'
  <2> SUFFICES ASSUME NEW p \in release.current
               PROVE  /\ stored[RepoOf(p)] > 0 \/ Barred(p)
                      /\ exported.stored[RepoOf(p)] > 0
                      /\ Kept(p, exported.active, ExcusedThen)'
                      /\ Kept(p, active, Excused)' \/ stored[RepoOf(p)] = 0
    BY <1>1 DEF ReleasedInv
  <2>1. p \in Pairs
    BY DEF ProvenInv, ReleaseInv, ProvenRow
  <2>2. /\ stored[RepoOf(p)] > 0 \/ Barred(p)
        /\ exported.stored[RepoOf(p)] > 0
        /\ Kept(p, exported.active, ExcusedThen)
        /\ Kept(p, active, Excused) \/ stored[RepoOf(p)] = 0
    BY DEF SurvivalInv, ReleasedInv
  <2>3. Kept(p, exported.active, ExcusedThen)'
    BY <1>1, <2>2 DEF Kept, Excused, ExcusedThen
  <2> QED
    BY <2>1, <2>2, <2>3
<1>3. \A v \in results : v.positive => Kept(PairOf(v), active, Excused)'
  BY PairsOfVerdicts DEF SurvivalInv, PositivesInv, ProvenAreKept, ProvenInv
<1>4. ProvenAreKept(exported.results, exported.active, ExcusedThen)'
  BY <1>1 DEF SurvivalInv, PositivesInv, ProvenAreKept, Kept, Excused, ExcusedThen
<1> QED
  BY <1>2, <1>3, <1>4

\* A run asks again for all it may not lose.
LEMMA PersistSurvives ==
  ASSUME ProvenInv, SurvivalInv, PersistCandidates
  PROVE  SurvivalInv'
<1> DEFINE named == StateCandidates \cup LegacyCandidates \cup Met
           selected == {p \in Grouped(named) : Selective => LibraryOf(p) \in run.wanted}
           revived == Admitted(Accepted) \cup Admitted(LegacyCandidates)
<1>1. /\ UNCHANGED <<tree, listed, code, fps, stored, results, refuted, exported, release>>
      /\ run.stage = "persisting"
      /\ active' = (active \ Refused(named)) \cup revived
      /\ shadowed' = (shadowed \cup (Refused(named) \cap Blocked)) \ revived
      /\ run' = [run EXCEPT !.stage = "scanning", !.grouped = selected]
  BY DEF PersistCandidates
<1>2. /\ run'.stage = "scanning" /\ run'.mode = run.mode /\ run'.wanted = run.wanted
      /\ run'.code = run.code /\ run'.pinned = run.pinned /\ run'.grouped = selected
      /\ run'.observed = run.observed
  BY <1>1 DEF ProvenInv, CatalogType, RunType, Runs
<1>3. HasHeads /\ HasHeads'
  BY <1>1, <1>2 DEF HasHeads
<1>4. Denied = code.denied
  BY <1>1 DEF Denied, ProvenInv, PlanInv, Busy
<1>5. \A p \in Pairs : Kept(p, active, Excused) => Kept(p, active, Excused)'
  <2>1. \A p \in Refused(named) : p \in Denied \/ p \in Blocked
    BY DEF Refused
  <2>2. \A p \in active \cup shadowed : p \in active' \/ p \in shadowed' \/ p \in Denied
    BY <1>1, <2>1
  <2> QED
    BY <1>1, <1>4, <2>2 DEF Kept, Excused, Lasting
<1>6. ReleasedInv' /\ PositivesInv'
  BY <1>1, <1>3, <1>5, KeptSteps DEF PositivesInv, ProvenAreKept
<1>7. RefutedInv'
  BY <1>1 DEF SurvivalInv, RefutedInv
<1>8. ShownInv'
  <2> SUFFICES ASSUME NEW p \in (Listed(release) \ shadowed') \cup Accepted,
                      LibraryOf(p) \in run.wanted, ~Withdrawn(p)
               PROVE  p \in selected
    <3>1. \A p : Withdrawn(p)' <=> Withdrawn(p)
      BY <1>1, <1>2 DEF Withdrawn, Resolved, Denied
    <3>2. Accepted' = Accepted /\ Listed(release)' = Listed(release)
      BY <1>1, <1>2 DEF Accepted, Listed
    <3> QED
      BY <1>2, <3>1, <3>2 DEF ShownInv, Shown
  <2>1. Resolved(p) /\ p \notin Denied /\ p \notin refuted
    BY DEF Withdrawn
  <2>2. p \in named => p \notin Blocked
    <3>1. CASE p \in Accepted
      BY <3>1 DEF Blocked
    <3>2. CASE p \in named /\ p \in Blocked /\ p \notin shadowed'
      <4>1. p \in Refused(named)
        BY <2>1, <3>2 DEF Refused
      <4>2. p \notin revived
        BY <3>2 DEF Admitted
      <4> QED
        BY <1>1, <3>2, <4>1, <4>2
    <3> QED
      BY <3>1, <3>2
  <2>3. CASE p \in Accepted
    <3>1. p \in named
      BY <2>3 DEF Accepted, Met
    <3> QED
      BY <2>1, <2>2, <3>1 DEF Grouped, Admitted
  <2>4. CASE p \in release.current /\ p \notin shadowed'
    <3>1. Kept(p, active, Excused) \/ stored[RepoOf(p)] = 0
      BY <1>3, <2>4 DEF SurvivalInv, ReleasedInv
    <3>2. stored = run.pinned
      BY <1>3 DEF ProvenInv, HeadsInv
    <3>3. p \in active \cup V1Pairs \cup shadowed
      BY <1>4, <2>1, <3>1, <3>2 DEF Kept, Excused, Lasting, Resolved
    <3>4. p \in shadowed => p \in revived
      BY <1>1, <2>4
    <3>5. revived \subseteq named
      BY DEF Admitted, Accepted, Met
    <3>6. p \in named
      BY <3>3, <3>4, <3>5 DEF StateCandidates, LegacyCandidates, InScope
    <3> QED
      BY <2>1, <2>2, <3>6 DEF Grouped, Admitted
  <2>5. CASE p \in release.carried
    <3>1. p \in named
      BY <2>5 DEF LegacyCandidates, InScope, ProvenInv, ReleaseInv, CarriedRow
    <3> QED
      BY <2>1, <2>2, <3>1 DEF Grouped, Admitted
  <2> QED
    BY <2>3, <2>4, <2>5 DEF Listed
<1> QED
  BY <1>6, <1>7, <1>8 DEF SurvivalInv

\* A scan that rejects a pair says so in the history; one that confirms it keeps it a candidate.
LEMMA ScanSurvives ==
  ASSUME ProvenInv, SurvivalInv, NEW r \in Catalogued, ScanRepository(r)
  PROVE  SurvivalInv'
<1>1. /\ UNCHANGED <<tree, listed, code, fps, stored, run, exported, release>>
      /\ run.stage = "scanning"
  BY DEF ScanRepository
<1>2. PICK triaged \in SUBSET run.wanted :
        /\ Uses(r) \cap run.wanted \subseteq triaged
        /\ results' =
             {v \in results : ~(/\ v.repo = r /\ v.library \in Recorded(r, triaged)
                                /\ v.head = run.pinned[r]
                                /\ v.detector = run.code.detector[v.library])}
             \cup {VerdictOf(r, l, triaged) : l \in Recorded(r, triaged)}
        /\ active' = (active \cup {<<r, l>> : l \in triaged})
                         \ {p \in {<<r, l>> : l \in Recorded(r, triaged) \ FoundIn(r, triaged)} :
                              LibraryOf(p) \in run.covered}
        /\ refuted' = (refuted \ {<<r, l>> : l \in FoundIn(r, triaged)})
                         \cup {<<r, l>> : l \in Recorded(r, triaged) \ FoundIn(r, triaged)}
        /\ shadowed' = shadowed \ {<<r, l>> : l \in Recorded(r, triaged)}
  BY ScanWrites
<1> DEFINE decided == Recorded(r, triaged)
           found == FoundIn(r, triaged)
<1>3. decided \subseteq run.wanted /\ run.wanted \subseteq Detectors
  BY <1>1, UndecidedIsAsked DEF Recorded, ProvenInv, CatalogType, RunType, Runs
<1>4. found \subseteq decided /\ found \subseteq triaged /\ found = decided \cap Uses(r)
  BY <1>2, <1>3 DEF FoundIn
<1>5. stored = run.pinned /\ run.code = code /\ fps = code.detector
      /\ \A v \in results : v.head <= stored[v.repo]
  BY <1>1 DEF ProvenInv, HeadsInv, HasHeads, PlanInv, Busy
<1>6. \A l : /\ VerdictOf(r, l, triaged).repo = r /\ VerdictOf(r, l, triaged).library = l
             /\ VerdictOf(r, l, triaged).head = stored[r]
             /\ VerdictOf(r, l, triaged).detector = fps[l]
             /\ VerdictOf(r, l, triaged).positive = (l \in found)
  BY <1>5 DEF VerdictOf
<1>7. \A l \in decided : VerdictOf(r, l, triaged) \in results'
  BY <1>2
<1>8. \A v \in results' : v \in results \/ \E l \in decided : v = VerdictOf(r, l, triaged)
  BY <1>2
<1>9. \A v \in results : v \in results' \/ (v.repo = r /\ v.library \in decided)
  <2> DEFINE stay == {v \in results : ~(/\ v.repo = r /\ v.library \in decided
                                       /\ v.head = run.pinned[r]
                                       /\ v.detector = run.code.detector[v.library])}
  <2>1. stay \subseteq results'
    BY <1>2
  <2>2. \A v \in results : v \in stay \/ (v.repo = r /\ v.library \in decided)
    OBVIOUS
  <2> HIDE DEF stay
  <2> QED
    BY <2>1, <2>2
<1>10. \A l \in found : <<r, l>> \in active'
  <2> DEFINE rejected == {<<r, l>> : l \in decided \ found}
  <2>1. \A l \in triaged : <<r, l>> \notin rejected => <<r, l>> \in active'
    BY <1>2
  <2>2. \A l \in found : <<r, l>> \notin rejected
    OBVIOUS
  <2> HIDE DEF rejected
  <2> QED
    BY <1>4, <2>1, <2>2
<1>11. \A p \in Pairs : /\ p \in active => p \in active' \/ p \in refuted'
                        /\ p \in refuted => p \in refuted'
                                           \/ \E l \in found : p = <<r, l>>
  <2> DEFINE rejected == {<<r, l>> : l \in decided \ found}
             confirmed == {<<r, l>> : l \in found}
  <2>1. active \subseteq active' \cup rejected
    BY <1>2
  <2>2. rejected \subseteq refuted' /\ refuted \subseteq refuted' \cup confirmed
    BY <1>2
  <2>3. \A p \in confirmed : \E l \in found : p = <<r, l>>
    OBVIOUS
  <2> HIDE DEF rejected, confirmed
  <2> QED
    BY <2>1, <2>2, <2>3
<1>12. /\ \A l \in decided \ found : <<r, l>> \in refuted'
       /\ \A p \in shadowed \ shadowed' : \E l \in decided : p = <<r, l>>
       /\ shadowed' \subseteq shadowed
  BY <1>2
<1> HIDE DEF decided, found
<1>13. \A p : Lasting(p)' <=> Lasting(p)
  BY <1>1 DEF Lasting
<1>14. \A p \in Pairs : Kept(p, active, Excused) => Kept(p, active, Excused)'
  BY <1>10, <1>11, <1>12, <1>13 DEF Kept, Excused, ExcusedThen
<1>15. HasHeads /\ HasHeads'
  BY <1>1 DEF HasHeads
<1>16. /\ ReleasedInv'
       /\ \A v \in results : v.positive => Kept(PairOf(v), active, Excused)'
       /\ ProvenAreKept(exported.results, exported.active, ExcusedThen)'
  BY <1>1, <1>14, <1>15, KeptSteps
<1>17. PositivesInv'
  <2>1. ASSUME NEW v \in results', v.positive PROVE Kept(PairOf(v), active, Excused)'
    <3>1. CASE v \in results
      BY <1>16, <2>1, <3>1
    <3>2. CASE \E l \in decided : v = VerdictOf(r, l, triaged)
      <4>1. PICK l \in decided : v = VerdictOf(r, l, triaged)
        BY <3>2
      <4>2. l \in found /\ PairOf(v) = <<r, l>>
        BY <1>6, <2>1, <4>1 DEF PairOf
      <4> QED
        BY <1>10, <4>2 DEF Kept, Excused, ExcusedThen
    <3> QED
      BY <1>8, <3>1, <3>2
  <2> QED
    BY <1>16, <2>1 DEF PositivesInv, ProvenAreKept
<1>18. RefutedInv'
  <2>1. ASSUME NEW v \in results', ~v.positive,
               \A w \in results' : PairOf(w) = PairOf(v) => w.head <= v.head
        PROVE  PairOf(v) \in refuted'
    <3>1. CASE \E l \in decided : v = VerdictOf(r, l, triaged)
      <4>1. PICK l \in decided : v = VerdictOf(r, l, triaged)
        BY <3>1
      <4>2. PairOf(v) = <<r, l>> /\ l \notin found
        BY <1>6, <2>1, <4>1 DEF PairOf
      <4> QED
        BY <1>12, <4>1, <4>2
    <3>2. CASE v \in results /\ v.repo = r /\ v.library \in decided
      <4>1. stored[r] <= v.head /\ v.head <= stored[r]
        BY <1>5, <1>6, <1>7, <2>1, <3>2 DEF PairOf
      <4>2. v.head \in Nat /\ stored[r] \in Nat
        BY <3>2 DEF ProvenInv, CatalogType, RowsType, VerdictRows, StoredType, Heads
      <4>3. v.library \notin Uses(r)
        BY <1>5, <2>1, <3>2, <4>1, <4>2 DEF ProvenInv, FaithfulInv, Faithful, Uses
      <4> QED
        BY <1>4, <1>12, <3>2, <4>3 DEF PairOf
    <3>3. CASE v \in results /\ ~(v.repo = r /\ v.library \in decided)
      <4>1. \A w \in results : PairOf(w) = PairOf(v) => w \in results'
        BY <1>9, <3>3 DEF PairOf
      <4>2. PairOf(v) \in refuted /\ PairOf(v) \in Pairs
        BY <2>1, <3>3, <4>1, PairsOfVerdicts
        DEF SurvivalInv, RefutedInv, NewestIsKnown, ProvenInv
      <4>3. \A l \in found : PairOf(v) /= <<r, l>>
        BY <1>4, <3>3 DEF PairOf
      <4> QED
        BY <1>11, <4>2, <4>3
    <3> QED
      BY <1>8, <3>1, <3>2, <3>3
  <2>2. NewestIsKnown(exported.results, exported.refuted)
    BY DEF SurvivalInv, RefutedInv
  <2> QED
    BY <1>1, <2>1, <2>2 DEF RefutedInv, NewestIsKnown
<1>19. \A l \in found : <<r, l>> \in Positive'
  <2> TAKE l \in found
  <2>1. VerdictOf(r, l, triaged) \in results'
    BY <1>4, <1>7
  <2> DEFINE w == VerdictOf(r, l, triaged)
  <2>2. w.repo = r /\ w.library = l /\ w.head = stored[r] /\ w.detector = fps[l] /\ w.positive
    BY <1>6
  <2> HIDE DEF w
  <2>3. w \in results'
    BY <2>1 DEF w
  <2> QED
    BY <1>1, <2>2, <2>3 DEF Positive
<1>20. ASSUME NEW p \in Pairs, Shown(p) PROVE Shown(p)'
  <2>1. CASE Withdrawn(p)
    <3>1. Withdrawn(p)' \/ (p \in refuted /\ p \notin refuted')
      BY <1>1, <2>1 DEF Withdrawn, Resolved, Denied
    <3> QED
      BY <1>11, <1>19, <3>1 DEF Shown
  <2>2. CASE p \in Positive
    <3>1. PICK v \in results : /\ v.positive /\ v.head = stored[v.repo]
                               /\ v.detector = fps[v.library] /\ p = <<v.repo, v.library>>
      BY <2>2 DEF Positive
    <3>2. CASE v \in results'
      BY <1>1, <3>1, <3>2 DEF Positive, Shown
    <3>3. CASE v.repo = r /\ v.library \in decided
      <4>1. p \in refuted' \/ p \in Positive'
        BY <1>12, <1>19, <3>1, <3>3
      <4> QED
        BY <4>1 DEF Shown, Withdrawn
    <3> QED
      BY <1>9, <3>2, <3>3
  <2> QED
    BY <1>20, <2>1, <2>2 DEF Shown
<1>21. ShownInv'
  <2>1. Accepted' = Accepted /\ Listed(release)' = Listed(release)
    BY <1>1 DEF Accepted, Listed
  <2>2. Listed(release) \cup Accepted \subseteq Pairs
    BY CatalogAssumption
    DEF Listed, Accepted, ProvenInv, ReleaseInv, ProvenRow, CarriedRow, CatalogType, RunType, Runs
  <2>3. \A p \in shadowed \ shadowed' : Shown(p)'
    BY <1>12, <1>19 DEF Shown, Withdrawn
  <2> QED
    BY <1>1, <1>20, <2>1, <2>2, <2>3 DEF SurvivalInv, ShownInv
<1> QED
  BY <1>16, <1>17, <1>18, <1>21 DEF SurvivalInv

\* A candidate that a reused rejection retires was rejected at its newest head.
LEMMA FinishSurvives ==
  ASSUME ProvenInv, SurvivalInv, FinishScans
  PROVE  SurvivalInv'
<1>1. /\ UNCHANGED <<tree, listed, code, fps, stored, results, refuted, shadowed, exported,
                     release>>
      /\ run.stage = "scanning"
      /\ run' = [run EXCEPT !.stage = "aggregating", !.grouped = {}, !.covered = {}]
      /\ \A p \in active \ active' :
           p \in run.grouped /\ \E v \in Verdicts(p, run.pinned[RepoOf(p)],
                                              run.code.detector[LibraryOf(p)]) : ~v.positive
      /\ \A r \in Catalogued : Undecided(r) = {}
  BY DEF FinishScans
<1>2. /\ run'.stage = "aggregating" /\ run'.wanted = run.wanted
      /\ run'.code = run.code /\ run'.pinned = run.pinned /\ run'.observed = run.observed
  BY <1>1 DEF ProvenInv, CatalogType, RunType, Runs
<1>3. HasHeads /\ HasHeads'
  BY <1>1, <1>2 DEF HasHeads
<1>4. stored = run.pinned /\ run.code = code /\ fps = code.detector
      /\ \A v \in results : v.head <= stored[v.repo]
  BY <1>1 DEF ProvenInv, HeadsInv, HasHeads, PlanInv, Busy
<1>5. ASSUME NEW p \in run.grouped,
             NEW v \in Verdicts(p, run.pinned[RepoOf(p)], run.code.detector[LibraryOf(p)])
      PROVE  IF v.positive THEN p \in Positive ELSE p \in refuted
  <2>1. /\ v \in results /\ <<v.repo, v.library>> = p
        /\ v.head = run.pinned[RepoOf(p)] /\ v.detector = run.code.detector[LibraryOf(p)]
    BY DEF Verdicts
  <2>2. RepoOf(p) = v.repo /\ LibraryOf(p) = v.library
    BY <2>1, PairParts
  <2>3. CASE v.positive
    BY <1>4, <2>1, <2>2, <2>3 DEF Positive
  <2>4. CASE ~v.positive
    <3>1. \A w \in results : PairOf(w) = PairOf(v) => w.head <= v.head
      BY <1>4, <2>1, <2>2 DEF PairOf
    <3>2. PairOf(v) \in refuted
      BY <2>1, <2>4, <3>1 DEF SurvivalInv, RefutedInv, NewestIsKnown
    <3> QED
      BY <2>1, <2>4, <3>2 DEF PairOf
  <2> QED
    BY <2>3, <2>4
<1>6. \A p \in active \ active' : p \in refuted
  BY <1>1, <1>5
<1>7. \A p : Lasting(p)' <=> Lasting(p)
  BY <1>1 DEF Lasting
<1>8. \A p \in Pairs : Kept(p, active, Excused) => Kept(p, active, Excused)'
  BY <1>1, <1>6, <1>7 DEF Kept, Excused, ExcusedThen
<1>9. ReleasedInv' /\ PositivesInv'
  BY <1>1, <1>3, <1>8, KeptSteps DEF PositivesInv, ProvenAreKept
<1>10. RefutedInv'
  BY <1>1 DEF SurvivalInv, RefutedInv
<1>11. ASSUME NEW p \in run.grouped PROVE Shown(p)
  <2>1. p \in Pairs /\ RepoOf(p) \in Catalogued
    BY PairParts DEF ProvenInv, CatalogType, RunType, Runs
  <2>2. Decided(p)
    <3>1. ~Decided(p) => LibraryOf(p) \in Undecided(RepoOf(p))
      BY DEF Undecided
    <3> QED
      BY <1>1, <2>1, <3>1
  <2> QED
    BY <1>5, <2>2 DEF Decided, Shown, Withdrawn
<1>12. ShownInv'
  <2>1. \A p : Shown(p)' <=> Shown(p)
    BY <1>1, <1>2 DEF Shown, Withdrawn, Resolved, Denied, Positive
  <2>2. Accepted' = Accepted /\ Listed(release)' = Listed(release)
    BY <1>1, <1>2 DEF Accepted, Listed
  <2>3. \A p \in (Listed(release) \ shadowed) \cup Accepted :
          LibraryOf(p) \in run.wanted => Shown(p)
    BY <1>1, <1>11 DEF SurvivalInv, ShownInv
  <2> QED
    BY <1>1, <1>2, <2>1, <2>2, <2>3 DEF ShownInv
<1> QED
  BY <1>9, <1>10, <1>12 DEF SurvivalInv

\* A published pair is a candidate, in the state and in the checkpoint.
LEMMA PublishSurvives ==
  ASSUME ProvenInv, SurvivalInv, PublishCatalog
  PROVE  SurvivalInv'
<1>1. /\ UNCHANGED <<tree, listed, code, stored, fps, refuted, shadowed>>
      /\ run.stage = "aggregating"
      /\ active' = active \ (InScope(Positive) \cap Denied)
      /\ results' = Retained
      /\ run' = [NoRunYet EXCEPT !.stage = "complete"]
      /\ release'.current = Evidence
      /\ exported'.stored = stored /\ exported'.active = active'
      /\ exported'.results = Retained
      /\ exported'.refuted = refuted /\ exported'.shadowed = shadowed
  BY DEF PublishCatalog, RetireDenied, Materialized, Saved
<1>2. run'.stage = "complete"
  BY <1>1 DEF NoRunYet
<1>3. ~HasHeads'
  BY <1>2 DEF HasHeads
<1>4. run.code = code /\ \A v \in results : v.head <= stored[v.repo]
  BY <1>1 DEF ProvenInv, HeadsInv, HasHeads, PlanInv, Busy
<1>5. \A p : Lasting(p)' <=> Lasting(p)
  BY <1>1 DEF Lasting
<1>6. \A p : Kept(p, active, Excused) => Kept(p, active, Excused)'
  BY <1>1, <1>4, <1>5 DEF Kept, Excused, ExcusedThen, Lasting, Denied
<1>7. Retained \subseteq results /\ \A v \in Retained : v.head = stored[v.repo]
  BY DEF Retained
<1>8. NewestIsKnown(Retained, refuted)
  <2> SUFFICES ASSUME NEW v \in Retained, ~v.positive PROVE PairOf(v) \in refuted
    BY DEF NewestIsKnown
  <2>1. \A w \in results : PairOf(w) = PairOf(v) => w.head <= v.head
    BY <1>4, <1>7 DEF PairOf
  <2> QED
    BY <1>7, <2>1 DEF SurvivalInv, RefutedInv, NewestIsKnown
<1>9. RefutedInv'
  BY <1>1, <1>8 DEF RefutedInv, NewestIsKnown
<1>10. \A v \in results : v.positive => Kept(PairOf(v), active, Excused)'
  BY <1>6 DEF SurvivalInv, PositivesInv, ProvenAreKept
<1>11. PositivesInv'
  BY <1>1, <1>7, <1>10 DEF PositivesInv, ProvenAreKept, Kept, Excused, ExcusedThen
<1>12. ReleasedInv'
  <2> SUFFICES ASSUME NEW p \in Evidence
               PROVE  stored[RepoOf(p)] > 0 /\ Kept(p, active, Excused)'
    BY <1>1 DEF ReleasedInv, Kept, Excused, ExcusedThen
  <2>1. PICK v \in results :
          v.positive /\ v.head = stored[v.repo] /\ p = <<v.repo, v.library>>
    BY DEF Evidence, InScope, Positive
  <2>2. Faithful(v) /\ RepoOf(p) = v.repo
    BY <2>1, PairParts DEF ProvenInv, FaithfulInv
  <2>3. HeadOf(v.repo) \in Nat
    BY <2>1 DEF ProvenInv, CatalogType, WorldType, HeadOf, RowsType, VerdictRows
  <2>4. stored[RepoOf(p)] > 0
    BY <2>1, <2>2, <2>3 DEF Faithful
  <2> QED
    BY <1>10, <2>1, <2>4 DEF PairOf
<1>13. ShownInv'
  BY <1>2 DEF ShownInv
<1> QED
  BY <1>9, <1>11, <1>12, <1>13 DEF SurvivalInv

\* The checkpoint falls back to a state that satisfies the invariant.
LEMMA RestoreSurvives ==
  ASSUME ProvenInv, SurvivalInv, RestoreState
  PROVE  SurvivalInv'
<1>1. /\ UNCHANGED <<listed, code, release, exported>>
      /\ stored' = exported.stored /\ active' = exported.active
      /\ results' = exported.results
      /\ refuted' = exported.refuted /\ shadowed' = exported.shadowed
  BY DEF RestoreState, Import
<1>2. run'.stage \in {"none", "complete"}
  BY DEF RestoreState, NoRunYet
<1>3. ~HasHeads'
  BY <1>2 DEF HasHeads
<1>4. \A p : Lasting(p)' <=> Lasting(p)
  BY <1>1 DEF Lasting
<1>5. RefutedInv' /\ PositivesInv'
  BY <1>1, <1>4 DEF SurvivalInv, RefutedInv, PositivesInv, NewestIsKnown, ProvenAreKept, Kept, Excused, ExcusedThen
<1>6. ReleasedInv'
  BY <1>1, <1>4 DEF SurvivalInv, ReleasedInv, Kept, Excused, ExcusedThen
<1>7. ShownInv'
  BY <1>2 DEF ShownInv
<1> QED
  BY <1>5, <1>6, <1>7 DEF SurvivalInv

LEMMA SurvivalStep == ProvenInv /\ SurvivalInv /\ [CatalogNext]_catalogVars => SurvivalInv'
  BY PlanSurvives, DiscoverSurvives, PinSurvives, PersistSurvives, ScanSurvives, FinishSurvives,
     PublishSurvives, FailSurvives, RestoreSurvives, WorldSurvives DEF CatalogNext

\* Of the libraries a run was asked for, the catalog keeps every adopter it had and shows
\* every adopter discovery found, unless the repository is gone, the policy denies it or
\* its newest verdict is a rejection: whatever search missed, whichever runs failed, were
\* resumed, or were followed in another mode, whatever a restored checkpoint had
\* forgotten.  The one other way to lose an adopter is a run that met nothing of it but a
\* reviewed false positive; one that was found any other way is never lost to it.  For any
\* number of repositories and libraries, pushes, changes of the code and runs.
THEOREM AdoptersSurvive == CatalogSpec => SelectedAdoptersSurvive
<1>1. ProvenInv /\ SurvivalInv /\ [CatalogNext]_catalogVars =>
        [release' /= release =>
           \A p \in (Listed(release) \ shadowed) \cup {q \in Accepted : StillUsed(q)} :
             LibraryOf(p) \in run.wanted =>
               p \in release'.current \/ Withdrawn(p)]_catalogVars
  <2> SUFFICES ASSUME ProvenInv, SurvivalInv, CatalogNext, release' /= release,
                      NEW p \in (Listed(release) \ shadowed) \cup Accepted,
                      LibraryOf(p) \in run.wanted, ~Withdrawn(p)
               PROVE  p \in release'.current
    BY DEF catalogVars
  <2>1. PublishCatalog
    BY DEF CatalogNext, PlanRun, ResumePlan, BeginRun, DiscoverPairs, PinHeads,
           PersistCandidates, ScanRepository, FinishScans, FailCatalog, RestoreState,
           PushTo, Withdraw, EditCode
  <2>2. run.stage = "aggregating" /\ release'.current = Evidence
    BY <2>1 DEF PublishCatalog, Materialized
  <2>3. p \in Positive /\ p \notin Denied
    BY <2>2 DEF SurvivalInv, ShownInv, Shown, Withdrawn
  <2> QED
    BY <2>2, <2>3 DEF Evidence, InScope
<1>3. CatalogSpec => [](ProvenInv /\ SurvivalInv)
  BY CatalogStarts, SurvivalStarts, ProvenStep, SurvivalStep, PTL DEF CatalogSpec
<1> QED
  BY <1>1, <1>3, PTL DEF SelectedAdoptersSurvive, CatalogSpec

================================================================================
