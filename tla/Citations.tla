-------------------------------- MODULE Citations ------------------------------
(***************************************************************************)
(* The citation stage (collector/citation_pipeline.py and `_citations` of   *)
(* collector/pipeline.py): papers of a library found by a search service,   *)
(* linked to the repositories that confirmed adoption in this run, either   *)
(* because the repository cites the paper or because the paper names the     *)
(* repository.  Queries, papers and links are cached across runs; a service  *)
(* that fails is covered by the last record that was good.                  *)
(*                                                                         *)
(* A refresh works library by library, each in one transaction, and may die  *)
(* between two of them.  Between refreshes repositories come, go and change, *)
(* a library changes its query, and a cached query grows old.               *)
(* Left out: totals, months, growth, titles and eligibility of papers.       *)
(***************************************************************************)
EXTENDS Naturals, Sequences, FiniteSets, FiniteSetsExt, SequencesExt

CONSTANTS
    Researched,     \* libraries with a citation query
    Labs,           \* repositories
    Papers,
    Named,          \* [Papers -> SUBSET Labs]: repositories a paper names
    Cites,          \* [Labs -> Seq(SUBSET Papers)]: CITATION.cff of each head
    Standings,      \* [visible, confirmed]: what the scans of a run may have left
    V1Researched,   \* libraries with a record in the V1 release
    Wordings,       \* versions of the query of a library
    KeptWordings,   \* citation_versions of compact_operational_history
    MaxRefreshes    \* bound: refreshes

ASSUME CitationAssumption ==
    /\ KeptWordings \in Nat \ {0}
    /\ Wordings /= {}
    /\ Named \in [Papers -> SUBSET Labs]
    /\ Cites \in [Labs -> Seq(SUBSET Papers)] /\ \A r \in Labs : Cites[r] /= <<>>
    /\ Standings \subseteq [visible : SUBSET Labs, confirmed : [Researched -> SUBSET Labs]]

VARIABLES
    visible,    \* repositories with a public row
    confirmed,  \* [Researched -> SUBSET visible]: adopters this run confirmed
    tip,        \* [Labs -> Nat]: repositories.head_sha
    wording,    \* [Researched -> Wordings]: the query each library declares
    cache,      \* citation_cache: [Researched -> [Wordings -> entry]]
    written,    \* [Researched -> [Wordings -> Nat]]: place of the row by fetched_at, the
                \* newest first; 0 without a row
    refresh,    \* the refresh in progress: [stage, todo, output]
    research,   \* published: [Researched -> record]
    refreshes   \* bound: refreshes left

citationVars == <<visible, confirmed, tip, wording, cache, written, refresh, research, refreshes>>

Unlinked == [p \in Papers |-> {}]
NoRecord == [papers |-> {}, links |-> Unlinked, complete |-> FALSE, gaps |-> FALSE,
             origin |-> "none"]
NoEvidence == [l \in {} |-> 0]
NoPaper == [cached |-> FALSE, done |-> FALSE, names |-> {}]
NoEntry == [record |-> NoRecord, fresh |-> FALSE, works |-> {}, evidence |-> NoEvidence,
            rows |-> [p \in Papers |-> NoPaper]]

\* The last-good record of a library: explicitly stale, whatever it said of itself.
LastGood(record) == [record EXCEPT !.complete = FALSE, !.origin = "carried"]

V1Record(l) == IF l \in V1Researched THEN LastGood(NoRecord) ELSE NoRecord

--------------------------------------------------------------------------------
(* Evidence and cache. *)

\* local_fp: the confirmed adopters and the heads their CITATION.cff was read at.
LocalEvidence(l) == [r \in confirmed[l] |-> tip[r]]

CitedBy(r) == Cites[r][tip[r]]
CitedFor(l) == UNION {CitedBy(r) : r \in confirmed[l]}

Entry(l) == cache[l][wording[l]]
HasSnapshot(e) == e.record.origin /= "none"
CachedPapers(l) == {p \in Papers : Entry(l).rows[p].cached}

\* _latest_snapshot: under another wording, the one written last.
LatestSnapshot(l) ==
    LET others == {w \in Wordings : w /= wording[l] /\ written[l][w] > 0}
    IN  IF others = {} THEN NoEntry
        ELSE cache[l][CHOOSE w \in others : \A v \in others : written[l][w] =< written[l][v]]

\* Defect: a changed query has no past.
NoSnapshot(l) == NoEntry

PriorSnapshot(l) == LatestSnapshot(l)

Prior(l) == IF HasSnapshot(Entry(l)) THEN Entry(l) ELSE PriorSnapshot(l)

\* Defect: the query is still fresh, so the record is.
AnyEvidence(l) == TRUE

SameEvidence(l) == Entry(l).evidence = LocalEvidence(l)

Reprocess(l) == ~SameEvidence(l) \/ Entry(l).record.gaps

\* The row of `w` becomes the newest, those that were newer follow it.
Foremost(places, w) ==
    [v \in Wordings |->
        IF v = w THEN 1
        ELSE IF places[v] > 0 /\ (places[w] = 0 \/ places[v] < places[w]) THEN places[v] + 1
        ELSE places[v]]

Store(l, entry) ==
    /\ cache' = [cache EXCEPT ![l][wording[l]] = entry]
    /\ written' = [written EXCEPT ![l] = Foremost(@, wording[l])]

Output(l, record) ==
    refresh' = [refresh EXCEPT !.todo = @ \ {l}, !.output[l] = record]

Refreshing(l) == refresh.stage = "refreshing" /\ l \in refresh.todo

--------------------------------------------------------------------------------
(* One library. *)

\* A fresh query with the same evidence and no gap left: nothing is done again.
ServeSnapshot(l) ==
    /\ Refreshing(l)
    /\ Entry(l).fresh /\ ~Reprocess(l)
    /\ Output(l, Entry(l).record)
    /\ UNCHANGED <<visible, confirmed, tip, wording, cache, written, research, refreshes>>

\* Papers the adopters cite and the query does not name, but an earlier refresh did.
Recalled(l, works) == (CitedFor(l) \ works) \cap CachedPapers(l)

\* Papers to read for the repositories they name: new, revised, or not read to the end.
Unread(l, papers, revised) == {p \in papers : p \in revised \/ ~Entry(l).rows[p].done}

\* A name without a public row is not kept; a paper that could not be read names nobody.
NamesFound(l, papers, unread, lost) ==
    [p \in papers |-> IF p \in lost THEN {}
                      ELSE (IF p \in unread THEN Named[p] ELSE Entry(l).rows[p].names)
                               \cap visible]

LinksOf(l, names) ==
    [p \in Papers |-> IF p \in DOMAIN names
                      THEN {r \in confirmed[l] : p \in CitedBy(r) \/ r \in names[p]}
                      ELSE {}]

\* A full answer drops the papers that are no longer in it.
RowsLeft(l, names, lost, answered) ==
    [p \in Papers |-> IF p \in DOMAIN names
                      THEN [cached |-> TRUE, done |-> p \notin lost, names |-> names[p]]
                      ELSE IF answered THEN NoPaper ELSE Entry(l).rows[p]]

\* Papers from the query or the cache, and those the adopters cite, are read and linked.
\* A citation may fail to resolve or lead to no eligible paper, a paper may fail to load or
\* exceed the budget of the stage.
BuildRecord(l, works, answered, revised) ==
    LET recalled == Recalled(l, works)
        unknown == CitedFor(l) \ (works \cup recalled)
    IN  \E unresolved \in SUBSET unknown : \E unheard \in SUBSET (unknown \ unresolved) :
        LET papers == works \cup recalled \cup (unknown \ (unresolved \cup unheard))
            unread == Unread(l, papers, revised)
        IN  \E failed \in SUBSET unread : \E skipped \in SUBSET (unread \ failed) :
            LET lost == failed \cup skipped
                names == NamesFound(l, papers, unread, lost)
                gaps == unresolved \cup failed /= {}
                record == [papers |-> papers, links |-> LinksOf(l, names),
                           complete |-> answered /\ ~gaps /\ skipped = {},
                           gaps |-> gaps, origin |-> "refreshed"]
            IN  /\ Store(l, [record |-> record, fresh |-> answered, works |-> papers,
                             evidence |-> LocalEvidence(l),
                             rows |-> RowsLeft(l, names, lost, answered)])
                /\ Output(l, record)

\* The cached answer, with what was wrong with it.  Papers a repository once cited are part
\* of it.
ReprocessSnapshot(l) ==
    /\ Refreshing(l)
    /\ Entry(l).fresh /\ Reprocess(l)
    /\ LET works == Entry(l).works \cap CachedPapers(l)
       IN  /\ works /= {} \/ Entry(l).record.complete
           /\ BuildRecord(l, works, Entry(l).record.complete, {})
    /\ UNCHANGED <<visible, confirmed, tip, wording, research, refreshes>>

\* The service answers in full, or with a part of what it has.
QueryWorks(l) ==
    /\ Refreshing(l)
    /\ ~Entry(l).fresh
    /\ \E works \in SUBSET Papers, answered \in BOOLEAN :
        /\ works /= {} \/ answered
        /\ \E revised \in SUBSET (works \cap CachedPapers(l)) :
            BuildRecord(l, works, answered, revised)
    /\ UNCHANGED <<visible, confirmed, tip, wording, research, refreshes>>

\* Nothing but errors: from the service, or from the cache of a query without papers whose
\* references could not be resolved.
HardFailure(l) ==
    /\ Refreshing(l)
    /\ IF Entry(l).fresh
       THEN /\ Reprocess(l) /\ ~Entry(l).record.complete
            /\ Entry(l).works \cap CachedPapers(l) = {}
       ELSE TRUE
    /\ IF HasSnapshot(Prior(l))
       THEN LET record == LastGood(Prior(l).record)
            IN  /\ Store(l, [Entry(l) EXCEPT !.record = record, !.fresh = FALSE,
                                             !.works = Prior(l).works,
                                             !.evidence = LocalEvidence(l)])
                /\ Output(l, record)
       ELSE Output(l, NoRecord) /\ UNCHANGED <<cache, written>>
    /\ UNCHANGED <<visible, confirmed, tip, wording, research, refreshes>>

--------------------------------------------------------------------------------
(* The stage. *)

Fallback == [l \in Researched |-> V1Record(l)]

\* V1 is the safety net of a library without a record of its own; a first stage that failed
\* throughout has nothing to publish.
Document ==
    [l \in Researched |-> IF refresh.output[l].origin /= "none" THEN refresh.output[l]
                          ELSE Fallback[l]]

\* The rows of the last wordings of a library.
Kept(l) == {w \in Wordings : written[l][w] \in 1 .. KeptWordings}
Compacted(l) == [w \in Wordings |-> IF w \in Kept(l) THEN cache[l][w] ELSE NoEntry]

PublishCitations ==
    /\ refresh.stage = "refreshing" /\ refresh.todo = {}
    /\ \E l \in Researched : Document[l].origin /= "none"
    /\ research' = Document
    /\ refresh' = [refresh EXCEPT !.stage = "published"]
    /\ cache' = [l \in Researched |-> Compacted(l)]
    /\ written' = [l \in Researched |->
                    [w \in Wordings |-> IF w \in Kept(l) THEN written[l][w] ELSE 0]]
    /\ UNCHANGED <<visible, confirmed, tip, wording, refreshes>>

\* A deadline, a crash, or a first stage without a single record.
InterruptRefresh ==
    /\ refresh.stage = "refreshing"
    /\ refresh' = [refresh EXCEPT !.stage = "failed"]
    /\ UNCHANGED <<visible, confirmed, tip, wording, cache, written, research, refreshes>>

\* The run up to this stage, a week or a moment after the previous one.
StartRefresh ==
    /\ refresh.stage /= "refreshing"
    /\ refreshes > 0
    /\ refreshes' = refreshes - 1
    /\ \E standing \in Standings :
        visible' = standing.visible /\ confirmed' = standing.confirmed
    /\ \E moved \in SUBSET {r \in Labs : tip[r] < Len(Cites[r])} :
        tip' = [r \in Labs |-> IF r \in moved THEN tip[r] + 1 ELSE tip[r]]
    /\ wording' \in [Researched -> Wordings]
    /\ \E old \in BOOLEAN :
        cache' = IF old
                 THEN [l \in Researched |-> [w \in Wordings |->
                          [cache[l][w] EXCEPT !.fresh = FALSE]]]
                 ELSE cache
    /\ refresh' = [stage |-> "refreshing", todo |-> Researched,
                   output |-> [l \in Researched |-> NoRecord]]
    /\ UNCHANGED <<written, research>>

CitationInit ==
    /\ visible = {} /\ confirmed = [l \in Researched |-> {}]
    /\ tip = [r \in Labs |-> 1]
    /\ wording = [l \in Researched |-> CHOOSE w \in Wordings : TRUE]
    /\ cache = [l \in Researched |-> [w \in Wordings |-> NoEntry]]
    /\ written = [l \in Researched |-> [w \in Wordings |-> 0]]
    /\ refresh = [stage |-> "none", todo |-> {}, output |-> [l \in Researched |-> NoRecord]]
    /\ research = Fallback
    /\ refreshes = MaxRefreshes

CitationNext ==
    \/ StartRefresh \/ PublishCitations \/ InterruptRefresh
    \/ \E l \in Researched : \/ ServeSnapshot(l) \/ ReprocessSnapshot(l)
                             \/ QueryWorks(l) \/ HardFailure(l)

CitationSpec == CitationInit /\ [][CitationNext]_citationVars

--------------------------------------------------------------------------------
(* Properties. *)

\* Whatever was served from which cache: a record of this run that was not carried over links
\* a paper only to repositories this run confirmed, for a reason that still holds, and one
\* that calls itself complete links each of its papers to every adopter that cites it.
LinksAreCurrent ==
    refresh.stage = "published" =>
        \A l \in Researched : research[l].origin = "refreshed" =>
            /\ \A p \in Papers : \A r \in research[l].links[p] :
                r \in confirmed[l] /\ (p \in CitedBy(r) \/ r \in Named[p])
            /\ research[l].complete =>
                \A r \in confirmed[l] : \A p \in CitedBy(r) \cap research[l].papers :
                    r \in research[l].links[p]

\* docs/Documentation.md:924: whichever service calls fail, whichever refreshes die, however a
\* library rewords its query: the stage has a record, if an old one, for every library that
\* was ever published, so that an outage neither drops one nor holds back the release.
LastGoodSurvives ==
    refresh.stage = "refreshing" =>
        \A l \in Researched \ refresh.todo :
            research[l].origin /= "none" => Document[l].origin /= "none"

================================================================================
