---------------------------- MODULE MCCoordinators ----------------------------
(* Bounded instances of Coordinators: two processes, one discovery task, one scan. *)
EXTENDS Coordinators, TLC

CONSTANTS scan1, scan2, net1, net2, c1, c2, net

MCWorkers == {c1, c2, net}

Interchangeable == Permutations({c1, c2})

================================================================================
