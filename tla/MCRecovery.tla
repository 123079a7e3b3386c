------------------------------- MODULE MCRecovery ------------------------------
(* Bounded instances of recovery: a run that is resumed after a crash, and the    *)
(* publication of a release that is resumed after crashes.  They share no         *)
(* variable: a behavior explores the first, and where that run closed without a   *)
(* crash it may go on with the second.                                           *)
EXTENDS MCCoordinators, MCPublication

VARIABLE part

Handover ==
    /\ part = "run" /\ part' = "publication"
    /\ runStatus = "complete" /\ crashes = 0
    /\ \A c \in Coordinators : pc[c] \in {"idle", "done"}
    /\ UNCHANGED <<allVars, publicationVars>>

RecoveryInit == CInit /\ PublicationInit /\ part = "run"

RecoveryNext ==
    \/ part = "run" /\ CNext /\ UNCHANGED <<publicationVars, part>>
    \/ Handover
    \/ part = "publication" /\ PublicationNext /\ UNCHANGED <<allVars, part>>

\* The fairness of both parts, each while it is explored.
RecoveryFairness ==
    /\ \A c \in Coordinators :
        /\ WF_allVars(part = "run" /\ Progress(c))
        /\ WF_allVars(part = "run" /\ LockHeartbeat(c))
    /\ WF_allVars(part = "run" /\ Passing)
    /\ WF_publicationVars(part = "publication" /\ Advance)

RecoverySpec ==
    /\ RecoveryInit /\ [][RecoveryNext]_<<allVars, publicationVars, part>>
    /\ RecoveryFairness

================================================================================
