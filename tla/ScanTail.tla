-------------------------------- MODULE ScanTail --------------------------------
(***************************************************************************)
(* The owner-deferred scan tail of the cohort run                           *)
(* (collector/phase8_tail_control.py, collector/state.py                    *)
(* _phase8_deferred_scan_task_keys, collector/pipeline.py).  A run whose    *)
(* last repositories cannot be scanned is closed by certificates: the       *)
(* deferral quarantines the exact unresolved tasks, later controls repair   *)
(* what an earlier revision did to them, adopt the repositories that a      *)
(* fresh metadata epoch purged, defer the candidates it discovered, and     *)
(* purge one repository that the final visibility check misses.  Every      *)
(* control binds the contract of the run to the source of one more commit.  *)
(* The run between two controls takes the steps of the code in the          *)
(* repository, and the two deviations of earlier commits that the controls  *)
(* repair (RependsDeferred, SupersedesDeferred).                            *)
(*                                                                         *)
(* A control holds the run lock (collector/cli.py), writes in one           *)
(* transaction, and is one step.  Digests, stage rows, renames and the      *)
(* controls of the visibility epochs are left out; a repository has one     *)
(* scan task, and the model starts at the interrupted run.                  *)
(***************************************************************************)
EXTENDS Naturals, Sequences, FiniteSets, SequencesExt

CONSTANTS
    Universe,       \* repositories with a scan task
    Newcomers,      \* repositories the metadata stage may still discover
    NoReference,    \* no reference state file
    MaxGone,        \* bound: repositories that turn private
    MaxMoved,       \* bound: repositories whose head moves
    SavedAt         \* bound: lengths of the contract at which the state is saved

ASSUME ScanTailAssumption == Universe \cap Newcomers = {}

VARIABLES
    contract,       \* certificates in the execution contract, oldest first
    checkout,       \* reviewed commits on top of the interrupted run's source
    tailStatus,     \* runs.status
    step,           \* where the coordinator is; "down" when nobody runs
    stages,         \* status of the stages the controls read
    scanTask,           \* scan task of each repository
    row,            \* repositories whose stored head is not the scanned one
    discovered,     \* newcomers with a repository row
    metaEpoch,      \* newest metadata epoch: [fresh, moved, named]
    rejected,       \* repositories the last final visibility check missed
    private,        \* GitHub: repositories no longer public
    heads,          \* GitHub: repositories whose head moved since the scan
    reference       \* saved copy of the state: [task, contract]

tailVars == <<contract, checkout, tailStatus, step, stages, scanTask, row, discovered, metaEpoch,
              rejected, private, heads, reference>>

Kinds == <<"deferral", "tail", "downstream", "privacy", "candidates", "postRefresh",
           "finalVisibility">>

\* A superseded task is complete with a result that holds no verdict; the task of a
\* purged repository goes with its row.
Closed == {"complete", "superseded"}

--------------------------------------------------------------------------------
(* The contract and what the tasks say of it. *)

Live == {r \in Universe : scanTask[r] /= "purged"}
With(statuses) == {r \in Universe : scanTask[r] \in statuses}
Unresolved == With({"pending", "running", "failed"})
Completed == Cardinality(With(Closed))

HasCertificate(kind) == \E i \in DOMAIN contract : contract[i].kind = kind
Certificate(kind) == contract[CHOOSE i \in DOMAIN contract : contract[i].kind = kind]

\* The source the contract is bound to.
Network == Len(contract)

\* The unresolved tasks are the given ones and all failed.
Partition(keys, complete) ==
    /\ Unresolved = keys
    /\ With({"failed"}) = keys
    /\ Completed = complete

\* The owner's decision: the deferred tasks of the newest certificate that narrows them.
PrivacyControl ==
    IF HasCertificate("finalVisibility") THEN Certificate("finalVisibility")
    ELSE IF HasCertificate("postRefresh") THEN Certificate("postRefresh")
    ELSE IF HasCertificate("privacy") THEN Certificate("privacy")
    ELSE Certificate("deferral")

Deferred == IF HasCertificate("deferral") THEN PrivacyControl.keys ELSE {}

\* A narrowing certificate follows from the one before it ...
Narrows(c, prior) ==
    /\ c.keys \subseteq prior.keys
    /\ c.complete + Cardinality(c.keys) + c.purged
           = prior.complete + Cardinality(prior.keys)
    /\ Cardinality(prior.keys \ c.keys) =< c.purged

\* ... a purge by exactly one completed task ...
PurgesOne(c, prior) == c.keys = prior.keys /\ c.complete = prior.complete - 1

\* ... and the newest purge must still describe the tasks.
DeferredKeysHold ==
    /\ HasCertificate("privacy") => Narrows(Certificate("privacy"), Certificate("deferral"))
    /\ HasCertificate("postRefresh") =>
        /\ PurgesOne(Certificate("postRefresh"), Certificate("privacy"))
        /\ With({"failed"} \cup Closed) = Live
        /\ Cardinality(With({"failed"})) = Cardinality(PrivacyControl.keys)
        /\ Completed = PrivacyControl.complete
    /\ HasCertificate("finalVisibility") =>
        PurgesOne(Certificate("finalVisibility"), Certificate("postRefresh"))

AssertPublishable ==
    Unresolved /= {} => DeferredKeysHold /\ Partition(Deferred, Completed)

--------------------------------------------------------------------------------
(* A coordinator of the reviewed commit. *)

FailRun == tailStatus' = "failed" /\ step' = "down"

\* Defect: deferred tasks are requeued like other unresolved work.
ResumeRequeuing ==
    /\ step = "down" /\ tailStatus /= "complete"
    /\ HasCertificate("deferral") /\ checkout = Network
    /\ DeferredKeysHold
    /\ Unresolved = Deferred
    /\ tailStatus' = "running" /\ step' = "metadata"
    /\ scanTask' = [r \in Universe |-> IF r \in Deferred THEN "pending" ELSE scanTask[r]]
    /\ UNCHANGED <<contract, checkout, stages, row, discovered, metaEpoch, rejected, private,
                   heads, reference>>

\* The recovered run keeps its deferred tasks failed; anything else left open
\* refuses the resumption.
ResumeDeferredRun ==
    /\ step = "down" /\ tailStatus /= "complete"
    /\ HasCertificate("deferral") /\ checkout = Network
    /\ DeferredKeysHold
    /\ Unresolved = Deferred
    /\ tailStatus' = "running" /\ step' = "metadata"
    /\ scanTask' = [r \in Universe |-> IF r \in Deferred THEN "failed" ELSE scanTask[r]]
    /\ UNCHANGED <<contract, checkout, stages, row, discovered, metaEpoch, rejected, private,
                   heads, reference>>

\* A failed final visibility check asks for fresh metadata, once, and again after
\* the certified rejection (a control between the candidates and the next refresh).
MayRefresh ==
    /\ stages["final"] = "failed"
    /\ ~metaEpoch.fresh \/ HasCertificate("candidates")
    /\ ~HasCertificate("postRefresh")

\* A fresh epoch purges what is no longer public; the row's tasks go with it.
RefreshMetadata ==
    /\ step = "metadata" /\ MayRefresh
    /\ \E names \in SUBSET (Newcomers \ discovered) :
        /\ discovered' = discovered \cup names
        /\ metaEpoch' = [fresh |-> TRUE, moved |-> heads \ private, named |-> names]
    /\ scanTask' = [r \in Universe |-> IF r \in private THEN "purged" ELSE scanTask[r]]
    /\ row' = (heads \cap Live) \ private
    /\ step' = "apply"
    /\ UNCHANGED <<contract, checkout, tailStatus, stages, rejected, private, heads, reference>>

\* A completed epoch is replayed: the stored heads become the ones it recorded.
ReplayMetadata ==
    /\ step = "metadata"
    /\ stages["final"] = "failed" => metaEpoch.fresh
    /\ row' = metaEpoch.moved \cap Live
    /\ step' = "apply"
    /\ UNCHANGED <<contract, checkout, tailStatus, stages, scanTask, discovered, metaEpoch, rejected,
                   private, heads, reference>>

\* Survivors of a privacy purge keep the head they were scanned at.  The rows are
\* written one by one before the number of pins is compared.
UniverseIsCertified ==
    Cardinality(Live) = PrivacyControl.complete + Cardinality(PrivacyControl.keys)

\* Only the certified repositories leave the release.
DeferralApplies(moved) ==
    /\ Deferred \subseteq With({"failed"})
    /\ Deferred \cap moved = {}

ApplyControls ==
    /\ step = "apply"
    /\ IF ~HasCertificate("privacy")
       THEN /\ UNCHANGED row
            /\ IF DeferralApplies(row) THEN step' = "scan" /\ UNCHANGED tailStatus ELSE FailRun
       ELSE IF ~UniverseIsCertified
            THEN UNCHANGED row /\ FailRun
            ELSE /\ row' = {}
                 /\ IF Cardinality(row) = PrivacyControl.pins /\ DeferralApplies({})
                    THEN step' = "scan" /\ UNCHANGED tailStatus
                    ELSE FailRun
    /\ UNCHANGED <<contract, checkout, stages, scanTask, discovered, metaEpoch, rejected,
                   private, heads, reference>>

\* Newcomers the owner deferred.
Candidates == IF HasCertificate("candidates") THEN Certificate("candidates").found ELSE {}

\* Defect: a task of the plan is matched by its repository, whatever its head.
PlanByRepository ==
    LET promoted == discovered \ Candidates
    IN  /\ Candidates \subseteq discovered
        /\ promoted \subseteq metaEpoch.named
        /\ Cardinality(promoted) = IF HasCertificate("postRefresh") THEN 1 ELSE 0

\* The tasks of the plan are those of the certified universe; a newcomer has its
\* certificate, or is the one the certified epoch named.
PlanIsCertified ==
    LET promoted == discovered \ Candidates
    IN  /\ row \cap (Live \ Deferred) = {}
        /\ Candidates \subseteq discovered
        /\ promoted \subseteq metaEpoch.named
        /\ Cardinality(promoted) = IF HasCertificate("postRefresh") THEN 1 ELSE 0

\* Defect: what the plan omits is superseded, as in an ordinary run.
PlanSuperseding ==
    /\ step = "scan"
    /\ stages' = [stages EXCEPT !["scan"] = "complete"]
    /\ step' = "attest" /\ UNCHANGED tailStatus
    /\ scanTask' = [r \in Universe |->
                       IF r \in Unresolved THEN "superseded" ELSE scanTask[r]]
    /\ UNCHANGED <<contract, checkout, row, discovered, metaEpoch, rejected, private, heads,
                   reference>>

\* The tasks outside the plan are not superseded: the universe is preserved.
PlanScan ==
    /\ step = "scan"
    /\ IF PlanIsCertified
       THEN /\ stages' = [stages EXCEPT !["scan"] = "complete"]
            /\ step' = "attest" /\ UNCHANGED tailStatus
       ELSE /\ stages' = [stages EXCEPT !["scan"] = "failed"]
            /\ FailRun
    /\ UNCHANGED <<contract, checkout, scanTask, row, discovered, metaEpoch, rejected, private,
                   heads, reference>>

Output == With({"complete"})

\* Staging may fail before the last visibility check, and the check may miss
\* repositories or fail by itself.
AttestOutput ==
    /\ step = "attest"
    /\ \/ /\ private \cap Output = {}
          /\ stages' = [stages EXCEPT !["final"] = "complete"]
          /\ step' = "publish"
          /\ UNCHANGED <<tailStatus, rejected>>
       \/ /\ stages' = [stages EXCEPT !["publication"] = "failed"]
          /\ FailRun /\ UNCHANGED rejected
       \/ /\ stages' = [stages EXCEPT !["final"] = "failed", !["publication"] = "failed"]
          /\ rejected' \in SUBSET (private \cap Output)
          /\ FailRun
    /\ UNCHANGED <<contract, checkout, scanTask, row, discovered, metaEpoch, private, heads,
                   reference>>

PublishRun ==
    /\ step = "publish"
    /\ IF AssertPublishable
       THEN tailStatus' = "complete" /\ step' = "down" /\ UNCHANGED stages
       ELSE FailRun /\ stages' = [stages EXCEPT !["publication"] = "failed"]
    /\ UNCHANGED <<contract, checkout, scanTask, row, discovered, metaEpoch, rejected, private,
                   heads, reference>>

CrashRun ==
    /\ step /= "down"
    /\ step' = "down"
    /\ UNCHANGED <<contract, checkout, tailStatus, stages, scanTask, row, discovered, metaEpoch,
                   rejected, private, heads, reference>>

Coordinate ==
    \/ ResumeDeferredRun \/ RefreshMetadata \/ ReplayMetadata \/ ApplyControls \/ PlanScan
    \/ AttestOutput \/ PublishRun \/ CrashRun

--------------------------------------------------------------------------------
(* The controls: the failed run, a clean checkout of the one reviewed commit on top *)
(* of the source of the contract, and the certificate appended to the contract.     *)

SourceAudit(kind) == checkout = Network + 1 /\ kind = Kinds[checkout]

MayControl(kind) == step = "down" /\ tailStatus = "failed" /\ SourceAudit(kind)

Cert(kind, keys, complete, purged, pins, found) ==
    [kind |-> kind, keys |-> keys, complete |-> complete, purged |-> purged,
     pins |-> pins, found |-> found]

StageBoundary(status) == \A stage \in DOMAIN status : stages[stage] = status[stage]

\* Everything unresolved is failed and recorded as the owner's deferral.
AuthorizeDeferral ==
    /\ step = "down" /\ SourceAudit("deferral")
    /\ Live = Universe
    /\ Completed > 0 /\ Unresolved /= {}
    /\ scanTask' = [r \in Universe |-> IF r \in Unresolved THEN "failed" ELSE scanTask[r]]
    /\ tailStatus' = "failed"
    /\ stages' = [stages EXCEPT !["scan"] = "failed"]
    /\ contract' = Append(contract, Cert("deferral", Unresolved, Completed, 0, 0, {}))
    /\ UNCHANGED <<checkout, step, row, discovered, metaEpoch, rejected, private, heads,
                   reference>>

\* Deferred tasks that were made pending again are failed again.
AuthorizeTailResume ==
    LET deferral == Certificate("deferral")
    IN  /\ MayControl("tail")
        /\ With({"running"}) = {}
        /\ Completed = deferral.complete
        /\ Unresolved = deferral.keys
        /\ scanTask' = [r \in Universe |->
                           IF scanTask[r] = "pending" THEN "failed" ELSE scanTask[r]]
        /\ contract' = Append(contract,
                              Cert("tail", deferral.keys, deferral.complete, 0, 0, {}))
        /\ UNCHANGED <<checkout, tailStatus, step, stages, row, discovered, metaEpoch, rejected,
                       private, heads, reference>>

\* Deferred tasks that were superseded are restored from a state saved before.
Repairable(deferral) ==
    /\ Completed = Cardinality(Universe)
    /\ reference /= NoReference
    /\ Certificate("deferral") \in ToSet(reference.contract)
    /\ \A r \in deferral.keys : reference.task[r] = "failed" /\ scanTask[r] = "superseded"

AuthorizeDownstreamResume ==
    LET deferral == Certificate("deferral")
        restored == [r \in Universe |-> IF r \in deferral.keys THEN "failed" ELSE scanTask[r]]
    IN  /\ MayControl("downstream")
        /\ StageBoundary([scan |-> "complete", publication |-> "failed"])
        /\ \/ /\ Completed = deferral.complete
              /\ Cardinality(With({"failed"})) = Cardinality(deferral.keys)
              /\ Unresolved = deferral.keys
              /\ UNCHANGED scanTask
           \/ Repairable(deferral) /\ scanTask' = restored
        /\ contract' = Append(contract,
                              Cert("downstream", deferral.keys, deferral.complete, 0, 0, {}))
        /\ UNCHANGED <<checkout, tailStatus, step, stages, row, discovered, metaEpoch, rejected,
                       private, heads, reference>>

\* What the reference still had and the state lost.
Missing == {r \in Universe : reference.task[r] /= "purged"} \ Live

\* The repositories a fresh metadata epoch purged leave the universe, the owner's
\* deferral with them.
AuthorizePrivacyResume ==
    LET deferral == Certificate("deferral")
        gone == {r \in Missing : reference.task[r] = "failed"}
    IN  /\ MayControl("privacy")
        /\ reference /= NoReference
        /\ metaEpoch.fresh
        /\ \A r \in Missing : reference.task[r] \in Closed \cup {"failed"}
        /\ deferral.keys \ Live = gone
        /\ deferral.keys \cap Live \subseteq With({"failed"})
        /\ With({"failed"}) /= {} /\ With(Closed) /= {}
        /\ With({"pending", "running"}) = {}
        /\ LET c == Cert("privacy", deferral.keys \cap Live, Completed, Cardinality(Missing),
                         Cardinality(row), {})
           IN  Narrows(c, deferral) /\ contract' = Append(contract, c)
        /\ UNCHANGED <<checkout, tailStatus, step, stages, scanTask, row, discovered, metaEpoch,
                       rejected, private, heads, reference>>

\* The owner defers newcomers that have a row and no scan task.
CandidateProofs == SUBSET discovered \ {{}}

CandidateCertificate(proof) ==
    LET privacy == Certificate("privacy")
    IN  Cert("candidates", privacy.keys, privacy.complete, 0, privacy.pins, proof)

CandidatesMayBeDeferred ==
    /\ With({"pending", "running"}) = {}
    /\ Completed = Certificate("privacy").complete
    /\ Cardinality(With({"failed"})) = Cardinality(Certificate("privacy").keys)

AuthorizeCandidateDeferral ==
    /\ MayControl("candidates")
    /\ CandidatesMayBeDeferred
    /\ \E proof \in CandidateProofs : contract' = Append(contract, CandidateCertificate(proof))
    /\ UNCHANGED <<checkout, tailStatus, step, stages, scanTask, row, discovered, metaEpoch, rejected,
                   private, heads, reference>>

\* The same commit may renew its proof while no later certificate depends on it.
ReauthorizeCandidateDeferral ==
    /\ step = "down" /\ tailStatus = "failed"
    /\ checkout = Network /\ Network > 0 /\ Last(contract).kind = "candidates"
    /\ CandidatesMayBeDeferred
    /\ \E proof \in CandidateProofs :
         contract' = Append(Front(contract), CandidateCertificate(proof))
    /\ UNCHANGED <<checkout, tailStatus, step, stages, scanTask, row, discovered, metaEpoch, rejected,
                   private, heads, reference>>

\* One more completed repository is gone since the reference; the epoch that missed it
\* is certified and will be replayed.
AuthorizePostRefreshPrivacy ==
    LET privacy == Certificate("privacy")
        survivors == Live \ Missing
    IN  /\ MayControl("postRefresh")
        /\ reference /= NoReference
        /\ reference.contract = contract
        /\ metaEpoch.fresh
        /\ Cardinality(Missing) = 1
        /\ \A r \in Missing : reference.task[r] = "complete"
        /\ \A r \in survivors : scanTask[r] = reference.task[r]
        /\ privacy.keys \subseteq With({"failed"})
        /\ Partition(privacy.keys, privacy.complete - 1)
        /\ contract' = Append(contract, Cert("postRefresh", privacy.keys, privacy.complete - 1,
                                             1, Cardinality(row), {}))
        /\ UNCHANGED <<checkout, tailStatus, step, stages, scanTask, row, discovered, metaEpoch,
                       rejected, private, heads, reference>>

\* The one repository the final visibility check missed is purged with its evidence.
\* Its stored head equals the scanned one, which the pins made so.
AuthorizeFinalVisibilityPrivacy ==
    LET post == Certificate("postRefresh")
    IN  /\ MayControl("finalVisibility")
        /\ StageBoundary([scan |-> "complete", final |-> "failed", publication |-> "failed"])
        /\ Cardinality(rejected) = 1
        /\ rejected \subseteq With({"complete"})
        /\ rejected \cap row = {}
        /\ Partition(post.keys, post.complete)
        /\ scanTask' = [r \in Universe |-> IF r \in rejected THEN "purged" ELSE scanTask[r]]
        /\ row' = row \ rejected
        /\ contract' = Append(contract, Cert("finalVisibility", post.keys, post.complete - 1,
                                             1, post.pins, {}))
        /\ UNCHANGED <<checkout, tailStatus, step, stages, discovered, metaEpoch, rejected, private,
                       heads, reference>>

Authorize ==
    \/ AuthorizeDeferral \/ AuthorizeTailResume \/ AuthorizeDownstreamResume
    \/ AuthorizePrivacyResume \/ AuthorizeCandidateDeferral \/ ReauthorizeCandidateDeferral
    \/ AuthorizePostRefreshPrivacy \/ AuthorizeFinalVisibilityPrivacy

--------------------------------------------------------------------------------
(* What happens to the run from outside this code. *)

DeployReview ==
    /\ step = "down" /\ tailStatus /= "complete"
    /\ checkout = Network /\ checkout < Len(Kinds)
    /\ checkout' = checkout + 1
    /\ UNCHANGED <<contract, tailStatus, step, stages, scanTask, row, discovered, metaEpoch, rejected,
                   private, heads, reference>>

SaveReference ==
    /\ step = "down" /\ tailStatus = "failed" /\ Network \in SavedAt
    /\ reference' = [task |-> scanTask, contract |-> contract]
    /\ UNCHANGED <<contract, checkout, tailStatus, step, stages, scanTask, row, discovered, metaEpoch,
                   rejected, private, heads>>

\* The commit of the deferral made deferred tasks pending when it recovered the run.
RependsDeferred ==
    /\ step = "down" /\ tailStatus = "failed" /\ Network = 1
    /\ \E reopened \in SUBSET (Deferred \cap Live) :
         scanTask' = [r \in Universe |-> IF r \in reopened THEN "pending" ELSE scanTask[r]]
    /\ UNCHANGED <<contract, checkout, tailStatus, step, stages, row, discovered, metaEpoch, rejected,
                   private, heads, reference>>

\* The commit of the tail resumption superseded them when it planned the scan.
SupersedesDeferred ==
    /\ step = "down" /\ tailStatus = "failed" /\ Network = 2
    /\ Unresolved = Deferred
    /\ scanTask' = [r \in Universe |-> IF r \in Deferred THEN "superseded" ELSE scanTask[r]]
    /\ stages' = [stages EXCEPT !["scan"] = "complete", !["publication"] = "failed"]
    /\ UNCHANGED <<contract, checkout, tailStatus, step, row, discovered, metaEpoch, rejected, private,
                   heads, reference>>

TurnPrivate ==
    /\ Cardinality(private) < MaxGone
    /\ \E r \in Universe \ private : private' = private \cup {r}
    /\ UNCHANGED <<contract, checkout, tailStatus, step, stages, scanTask, row, discovered, metaEpoch,
                   rejected, heads, reference>>

MoveHead ==
    /\ Cardinality(heads) < MaxMoved
    /\ \E r \in Universe \ heads : heads' = heads \cup {r}
    /\ UNCHANGED <<contract, checkout, tailStatus, step, stages, scanTask, row, discovered, metaEpoch,
                   rejected, private, reference>>

Outside ==
    \/ DeployReview \/ SaveReference \/ RependsDeferred \/ SupersedesDeferred
    \/ TurnPrivate \/ MoveHead

--------------------------------------------------------------------------------
TailInit ==
    /\ contract = <<>> /\ checkout = 0
    /\ tailStatus \in {"running", "failed"} /\ step = "down"
    /\ stages = [scan |-> "failed", final |-> "none", publication |-> "none"]
    /\ scanTask \in [Universe -> {"complete", "pending", "running", "failed"}]
    /\ row = {} /\ discovered = {} /\ rejected = {}
    /\ metaEpoch = [fresh |-> FALSE, moved |-> {}, named |-> {}]
    /\ private = {} /\ heads = {}
    /\ reference = NoReference

TailNext == Coordinate \/ Authorize \/ Outside

TailSpec == TailInit /\ [][TailNext]_tailVars

--------------------------------------------------------------------------------
(* Properties. *)

\* A published release accounts for the whole task universe: what the owner deferred
\* is still a failure or purged, never a completion; the rest was scanned or purged;
\* and a repository without a scan task is one the owner deferred or the one the
\* certified epoch named.  No sequence of failed runs, controls and refreshes between
\* the deferral and the release loses a repository.
PublishedUniverseAccounted ==
    tailStatus = "complete" =>
        /\ \A r \in Universe :
             scanTask[r] \in (IF r \in Certificate("deferral").keys THEN {"failed"}
                          ELSE {"complete"}) \cup {"purged"}
        /\ Cardinality(discovered \ Candidates) =<
             IF HasCertificate("postRefresh") THEN 1 ELSE 0

\* The evidence of a release was scanned at the heads it publishes, whatever a fresh
\* metadata epoch stored meanwhile.
PublishedHeadsWereScanned == tailStatus = "complete" => row = {}

\* Once the supersession is repaired, a deferred task stays failed until the purge of
\* its repository removes it: no resumption, plan or later control reopens or
\* completes it.
QuarantineIsFinal ==
    [][HasCertificate("downstream") =>
        \A r \in Deferred :
            scanTask[r] = "failed" => scanTask'[r] \in {"failed", "purged"}]_tailVars

================================================================================
