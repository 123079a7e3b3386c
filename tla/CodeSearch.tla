------------------------------- MODULE CodeSearch ------------------------------
(***************************************************************************)
(* One logical GitHub code search (collector/discovery/github_search.py     *)
(* GitHubCodeSearch.search).  The service answers a query with pages, but   *)
(* neither its total_count nor its last page says where the results end, so *)
(* a response that may not be all of a partition is never accepted: the     *)
(* partition is split, by file class, then by size, then by repository or   *)
(* path, until each leaf is one short page or, at one exact size, was paged *)
(* to an explicit empty page.  The certificate of a complete search is what *)
(* the retirement of candidates later relies on.                            *)
(*                                                                         *)
(* The service is external.  It either keeps its order and reports any      *)
(* total at all ("steady"), or reports no total below the truth and returns *)
(* any page of what matches ("shuffled").  The index does not change while  *)
(* a search runs.                                                           *)
(***************************************************************************)
EXTENDS Naturals, Sequences, FiniteSets, FiniteSetsExt, SequencesExt

CONSTANTS
    Corpora,        \* possible indexes: sequences of files [id, repo, private, tokens, ext, size, members]
    Extensions,     \* the declared file classes of the query pack
    Members,        \* the member queries the OR pack decomposes into, or {"pack"}
    MaxFileSize,    \* largest size the service indexes
    PerPage,        \* results on a full page
    ResultCap,      \* rows the service lets a query page through
    MaxPathSplits,  \* DEFAULT_MAX_PATH_SPLITS
    MaxSweeps,      \* DEFAULT_MAX_PAGINATION_SWEEPS
    MaxTotal        \* bound: largest total_count reported

\* Files differ by their ids.
ASSUME SearchAssumption ==
    /\ \A files \in Corpora :
         /\ Len(files) \in Nat /\ DOMAIN files = 1 .. Len(files)
         /\ \A i \in DOMAIN files :
              /\ files[i].size \in 0 .. MaxFileSize
              /\ files[i].members \subseteq Members
              /\ \A j \in DOMAIN files : files[i].id = files[j].id => i = j
    /\ IsFiniteSet(Extensions) /\ IsFiniteSet(Members)
    /\ {MaxFileSize, PerPage, ResultCap, MaxPathSplits, MaxSweeps, MaxTotal} \subseteq Nat
    /\ PerPage > 0 /\ ResultCap >= PerPage

VARIABLES
    index,          \* the files the service has, in the order it lists them
    honesty,        \* "steady" or "shuffled"
    todo,           \* stack of the partitions still to visit
    walk,           \* paging through a one-size partition, or NoWalk
    seen,           \* observations: [repo, id]
    gap,            \* has a coverage gap been recorded?
    certificate     \* "open", "complete" or "incomplete"

searchVars == <<index, honesty, todo, walk, seen, gap, certificate>>

NoWalk == [on |-> FALSE, part |-> <<>>, sweep |-> 0, page |-> 0, items |-> {},
           total |-> 0, first |-> {}, firstTotal |-> 0]

AllClasses == "all"

\* The query of one member before any split.
Whole(member) == [member |-> member, class |-> AllClasses, low |-> 0, high |-> MaxFileSize,
                  with |-> {}, without |-> {}, peeled |-> {}]

SearchInit ==
    /\ index \in Corpora
    /\ honesty \in {"steady", "shuffled"}
    /\ todo = [i \in 1 .. Cardinality(Members) |-> Whole(SetToSeq(Members)[i])]
    /\ walk = NoWalk /\ seen = {} /\ gap = FALSE /\ certificate = "open"

--------------------------------------------------------------------------------
(* The service. *)

Found(f, p) ==
    /\ p.member \in f.members
    /\ p.class \in {AllClasses, f.ext}
    /\ f.size \in p.low .. p.high
    /\ p.with \subseteq f.tokens
    /\ p.without \cap f.tokens = {}
    /\ f.repo \notin p.peeled

\* What a query matches, by position in the index, and its place among the matches.
Hits(p) == {i \in DOMAIN index : Found(index[i], p)}
Place(p, i) == Cardinality({j \in Hits(p) : j <= i})
Matches(p) == {index[i] : i \in Hits(p)}

\* The files of page k in the service's order.
PageOf(p, k) ==
    {index[i] : i \in {j \in Hits(p) : Place(p, j) > (k - 1) * PerPage /\ Place(p, j) <= k * PerPage}}

\* An answer: the items of a page and the reported total.
Answers(p, k) ==
    IF honesty = "steady"
    THEN [items : {PageOf(p, k)}, total : 0 .. MaxTotal]
    ELSE [items : {s \in SUBSET Matches(p) : Cardinality(s) <= PerPage},
          total : Cardinality(Hits(p)) .. MaxTotal]

--------------------------------------------------------------------------------
(* The search. *)

Open == certificate = "open" /\ ~gap
Observed(items) == {[repo |-> f.repo, id |-> f.id] : f \in {g \in items : g.private = "no"}}

\* Items of unverified visibility leave a gap; private ones are dropped, and an
\* unsplit query drops the files of undeclared classes.
Consume(items, p) ==
    LET kept == {f \in items : p.class /= AllClasses \/ f.ext \in Extensions} IN
    /\ seen' = seen \cup Observed(kept)
    /\ gap' = \E f \in kept : f.private = "unknown"

\* Defect: the advertised total is trusted, a full page is not suspected.
RequiresSplitByTotal(a, next) == next \/ a.total > Cardinality(a.items)

\* May there be more than this page shows?
RequiresSplit(a, next) ==
    Cardinality(a.items) >= PerPage \/ next \/ a.total > Cardinality(a.items)

Push(parts) == todo' = parts \o Tail(todo)

ByClass(p) == SetToSeq({[p EXCEPT !.class = c] : c \in Extensions})

BySize(p) ==
    LET mid == (p.low + p.high) \div 2 IN
    <<[p EXCEPT !.high = mid], [p EXCEPT !.low = mid + 1]>>

Splits(p) == Cardinality(p.with) + Cardinality(p.without) + Cardinality(p.peeled)

\* Public repositories with several files on the page.
Repeated(items) == {f.repo : f \in {g \in items : g.private = "no" /\
                                      \E h \in items : h.id /= g.id /\ h.repo = g.repo
                                                       /\ h.private = "no"}}
UnusedTokens(items, p) == UNION {f.tokens : f \in items} \ (p.with \cup p.without)

\* A repository seen twice is accepted with one witness and excluded; otherwise
\* a path token splits the partition; otherwise the page cannot be split.
SplitPage(p, items) ==
    \/ /\ Splits(p) < MaxPathSplits
       /\ \E repo \in Repeated(items) :
            \E f \in {g \in items : g.repo = repo /\ g.private = "no"} :
                /\ Consume({f}, p)
                /\ Push(<<[p EXCEPT !.peeled = @ \cup {repo}]>>)
    \/ /\ Splits(p) < MaxPathSplits /\ Repeated(items) = {}
       /\ \E t \in UnusedTokens(items, p) :
            Push(<<[p EXCEPT !.with = @ \cup {t}], [p EXCEPT !.without = @ \cup {t}]>>)
       /\ UNCHANGED <<seen, gap>>
    \/ /\ Splits(p) >= MaxPathSplits \/ (Repeated(items) = {} /\ UnusedTokens(items, p) = {})
       /\ gap' = TRUE
       /\ Push(<<>>)
       /\ UNCHANGED seen

\* visit: one request for the first page of the next partition.
Visit ==
    /\ Open /\ ~walk.on /\ todo /= <<>>
    /\ LET p == Head(todo) IN
       \E a \in Answers(p, 1), next \in BOOLEAN :
         \/ /\ ~RequiresSplit(a, next)
            /\ Consume(a.items, p)
            /\ Push(<<>>)
            /\ UNCHANGED walk
         \/ /\ RequiresSplit(a, next)
            /\ p.class = AllClasses /\ Extensions /= {}
            /\ Push(ByClass(p))
            /\ UNCHANGED <<walk, seen, gap>>
         \/ /\ RequiresSplit(a, next)
            /\ p.class /= AllClasses \/ Extensions = {}
            /\ p.low < p.high
            /\ Push(BySize(p))
            /\ UNCHANGED <<walk, seen, gap>>
         \/ /\ RequiresSplit(a, next)
            /\ p.class /= AllClasses \/ Extensions = {}
            /\ p.low >= p.high
            /\ IF a.total <= ResultCap
               THEN /\ walk' = [on |-> TRUE, part |-> p, sweep |-> 1, page |-> 1,
                                items |-> a.items, total |-> a.total,
                                first |-> a.items, firstTotal |-> a.total]
                    /\ UNCHANGED <<todo, seen, gap>>
               ELSE SplitPage(p, a.items) /\ UNCHANGED walk
    /\ UNCHANGED <<index, honesty, certificate>>

MaxPages == ResultCap \div PerPage

\* A sweep is accepted when it reached an empty page and saw at least as many
\* files as any page reported.
Exhausted(empty, items, total) == empty /\ Cardinality(items) >= total

\* The next page of a sweep; the last page of it decides, and a sweep that is
\* not accepted starts again or gives up paging.
NextPage ==
    /\ Open /\ walk.on
    /\ LET p == walk.part IN
       IF walk.page < MaxPages
       THEN \E a \in Answers(p, walk.page + 1) :
              LET total == Max({walk.total, a.total}) IN
              IF a.items /= {}
              THEN /\ walk' = [walk EXCEPT !.page = @ + 1, !.items = @ \cup a.items,
                                           !.total = total]
                   /\ UNCHANGED <<todo, seen, gap>>
              ELSE IF Exhausted(TRUE, walk.items, total)
                   THEN Consume(walk.items, p) /\ Push(<<>>) /\ walk' = NoWalk
                   ELSE /\ walk' = [walk EXCEPT !.page = MaxPages, !.total = total]
                        /\ UNCHANGED <<todo, seen, gap>>
       ELSE IF walk.sweep < MaxSweeps
            THEN \E a \in Answers(p, 1) :
                   /\ walk' = [walk EXCEPT !.sweep = @ + 1, !.page = 1, !.items = a.items,
                                           !.total = a.total]
                   /\ UNCHANGED <<todo, seen, gap>>
            ELSE SplitPage(p, walk.first) /\ walk' = NoWalk
    /\ UNCHANGED <<index, honesty, certificate>>

\* A transport failure, an incomplete or malformed response, or the deadline.
RequestFails ==
    /\ Open /\ (walk.on \/ todo /= <<>>)
    /\ gap' = TRUE
    /\ UNCHANGED <<index, honesty, todo, walk, seen, certificate>>

Certify ==
    /\ certificate = "open"
    /\ gap \/ (todo = <<>> /\ ~walk.on)
    /\ certificate' = IF gap THEN "incomplete" ELSE "complete"
    /\ UNCHANGED <<index, honesty, todo, walk, seen, gap>>

SearchNext == Visit \/ NextPage \/ RequestFails \/ Certify

SearchSpec == SearchInit /\ [][SearchNext]_searchVars

--------------------------------------------------------------------------------
(* Properties. *)

\* A complete certificate misses no repository: every public repository with a
\* file of a declared class that the query finds was observed, whatever totals
\* and pages the service reported on the way.
CertificateMissesNobody ==
    certificate = "complete" =>
        \A i \in DOMAIN index :
            (index[i].private = "no" /\ index[i].ext \in Extensions /\ index[i].members /= {})
                => \E o \in seen : o.repo = index[i].repo

================================================================================
