----------------------------- MODULE MCTaskJournal -----------------------------
(* Bounded instances of TaskJournal, and plausible defects of its operations. *)
EXTENDS TaskJournalRefinement, TLC

CONSTANTS scan1, net1, w1, w2

MCWorkers == {w1, w2}

Symmetric == Permutations(MCWorkers)

================================================================================
