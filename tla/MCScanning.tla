------------------------------- MODULE MCScanning ------------------------------
(* Bounded instances of scanning: the coordinators that lease the scans, the pool *)
(* of processes over the cache, and the content of one cached repository.  They   *)
(* share no variable, so a behavior explores one of them and leaves the others    *)
(* where they started.                                                           *)
EXTENDS MCCoordinators, ScanPool, ScanWorker

CONSTANTS repo1, repo2, proc1, proc2

VARIABLE part

Symmetric ==
    Interchangeable \cup Permutations({repo1, repo2}) \cup Permutations({proc1, proc2})

Content(s, d) == [p \in Paths |-> IF p = "src" THEN s ELSE d]

MCTrees == {Content("d", "m"), Content("m", "large"), Content("lfs", "none"),
            Content("hint", "large")}

ScanningInit ==
    /\ CInit /\ PoolInit /\ WorkInit
    /\ part \in {"coordinators", "pool", "work"}
    /\ part /= "work" => Last(remote).tree = Content("d", "m")
    /\ part /= "pool" => size = [t \in Repos |-> "normal"]

ScanningNext ==
    \/ part = "coordinators" /\ CNext /\ UNCHANGED <<scanVars, workVars, part>>
    \/ part = "pool" /\ PoolNext /\ UNCHANGED <<allVars, workVars, part>>
    \/ part = "work" /\ WorkNext /\ UNCHANGED <<allVars, scanVars, part>>

ScanningSpec == ScanningInit /\ [][ScanningNext]_<<allVars, scanVars, workVars, part>>

================================================================================
