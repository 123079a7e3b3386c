------------------------------- MODULE MCLineage -------------------------------
(* Bounded instances of what runs hand on: the journal of one run, the journals   *)
(* of a lineage of runs, and the citations that successive runs refresh.  They    *)
(* share no variable, so a behavior explores one and leaves the others alone.     *)
EXTENDS MCTaskJournal, Successor, MCCitations

CONSTANT target1

VARIABLE part

\* A required library with a broad query besides a narrow one, and an advisory library.
MCQueries == <<[library |-> "a", source |-> "github", broad |-> FALSE],
               [library |-> "a", source |-> "github", broad |-> TRUE],
               [library |-> "b", source |-> "sourcegraph", broad |-> FALSE]>>

\* The reviewed surfaces, one of them with a change of the discovery task hidden in it.
MCRepairs == {{"packs"}, {"transport"}, {"pipeline"}, {"pipeline", "task"}, {"pipeline", "epoch"},
              {"github", "pipeline"}, {"pipeline", "scanner"}, {"scanner"}, {"cli"}}

RunsInit ==
    /\ Init /\ LineageInit /\ CitationInit
    /\ part \in {"journal", "lineage", "citations"}
    /\ part /= "lineage" => latest.ledger

RunsNext ==
    \/ part = "journal" /\ Next /\ UNCHANGED <<lineageVars, citationVars, part>>
    \/ part = "lineage" /\ LineageNext /\ UNCHANGED <<vars, citationVars, part>>
    \/ part = "citations" /\ CitationNext /\ UNCHANGED <<vars, lineageVars, part>>

RunsSpec == RunsInit /\ [][RunsNext]_<<vars, lineageVars, citationVars, part>>

================================================================================
