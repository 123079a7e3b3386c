------------------------------ MODULE CoverageProofs ----------------------------
(***************************************************************************)
(* Proofs about what a release covers: the rotation of GitHub code search   *)
(* over the runs (Discovery), and the owner-deferred scan tail of the       *)
(* cohort run (ScanTail).                                                   *)
(***************************************************************************)
EXTENDS Discovery, ScanTail, SequenceTheorems, WellFoundedInduction, TLAPS

--------------------------------------------------------------------------------
(* The rotation.  A run that ends in discovery carries the certificates of the      *)
(* libraries it did not search; they were younger than DueAge when it began.        *)

RunStatuses == {"running", "failed", "complete", "abandoned"}
Runs == [mode : Modes, status : RunStatuses]

\* A row of coverage is of a run and was recorded by today.
RowsInv ==
    /\ day \in Nat /\ began \in Nat /\ runs \in Seq(Runs)
    /\ \A c \in coverage : c.run \in 1 .. Current /\ c.at \in 0 .. day

\* While a run is open, a library it does not search has a certificate that was young when
\* the invocation began, and the invocation lasts a step at most.
LanesInv ==
    stage /= "idle" =>
        /\ Current > 0 /\ runs[Current].status = "running"
        /\ day \in began .. began + 1 /\ due \subseteq Libraries
        /\ \A l \in Libraries \ due :
              Certified(l) /= {} /\ began < Newest(Certified(l)).at + DueAge

\* Every library has a certificate, none of them stale.
CertificatesInv ==
    stage = "finished" =>
        /\ \A l \in Libraries : \E c \in certificates : c.library = l
        /\ \A c \in certificates : c.library \in Libraries /\ ~c.stale

\* The inductive invariant of the rotation.
RotationInv == RowsInv /\ LanesInv /\ CertificatesInv
\* A set of numbers with an upper bound has a greatest one.
LEMMA NewestExists ==
  ASSUME NEW S \in SUBSET Nat, S /= {}, NEW d \in Nat, \A x \in S : x =< d
  PROVE  \E x \in S : \A y \in S : y =< x
<1> DEFINE T == {d - x : x \in S}
           R == OpToRel(<, Nat)
<1>0. PICK z \in S : TRUE
  OBVIOUS
<1>1. T \subseteq Nat /\ T /= {}
  <2>1. d - z \in T
    BY <1>0
  <2>2. \A x \in S : d - x \in Nat
    OBVIOUS
  <2> QED
    BY <2>1, <2>2
<1>2. IsWellFoundedOn(R, Nat)
  BY NatLessThanWellFounded
<1>3. \A a \in T : \A b \in T : a < b => <<a, b>> \in R
  BY <1>1 DEF OpToRel
<1> HIDE DEF R
<1>4. \E x \in T : \A y \in T : ~(<<y, x>> \in R)
  BY <1>1, <1>2, WFMin
<1>5. PICK a \in T : \A b \in T : ~(b < a)
  BY <1>3, <1>4
<1>6. PICK x \in S : a = d - x
  BY <1>5
<1>7. ASSUME NEW y \in S PROVE y =< x
  <2>1. ~(d - y < d - x)
    BY <1>5, <1>6
  <2> QED
    BY <2>1
<1> QED
  BY <1>7

\* A run changes its status.
WithStatus(seq, i, status) == [seq EXCEPT ![i].status = status]

LEMMA StatusSet ==
  ASSUME NEW seq \in Seq(Runs), NEW i \in 1 .. Len(seq),
         NEW status \in RunStatuses
  PROVE  /\ WithStatus(seq, i, status) \in Seq(Runs)
         /\ Len(WithStatus(seq, i, status)) = Len(seq)
         /\ WithStatus(seq, i, status)[i].status = status
         /\ \A j \in 1 .. Len(seq) : j /= i => WithStatus(seq, i, status)[j] = seq[j]
<1> DEFINE entry == [seq[i] EXCEPT !.status = status]
<1>1. seq[i] \in Runs
  OBVIOUS
<1>2. entry \in Runs /\ entry.status = status
  BY <1>1 DEF Runs, RunStatuses
<1>3. WithStatus(seq, i, status) = [seq EXCEPT ![i] = entry]
  BY DEF WithStatus
<1> HIDE DEF entry
<1> QED
  BY <1>2, <1>3

LEMMA DiscoveryConstants ==
    DueAge \in Nat /\ StaleAge \in Nat /\ DueAge < StaleAge
  BY DiscoveryAssumption

\* The newest of rows that were recorded by today is one of them.
LEMMA NewestIsRow ==
  ASSUME NEW rows, rows /= {}, NEW d \in Nat, \A c \in rows : c.at \in 0 .. d
  PROVE  Newest(rows) \in rows
<1> DEFINE S == {c.at : c \in rows}
<1>1. S \in SUBSET Nat /\ S /= {} /\ \A x \in S : x =< d
  OBVIOUS
<1>2. PICK x \in S : \A y \in S : y =< x
  BY <1>1, NewestExists
<1>3. \E c \in rows : \A e \in rows : e.at =< c.at
  BY <1>2
<1> QED
  BY <1>3 DEF Newest

LEMMA NewestCertified ==
  ASSUME RowsInv, NEW l \in Libraries, Certified(l) /= {}
  PROVE  Newest(Certified(l)).at \in Nat /\ Newest(Certified(l)).at =< day
<1>1. \A c \in Certified(l) : c.at \in 0 .. day
  BY DEF RowsInv, Certified
<1>2. Newest(Certified(l)) \in Certified(l)
  BY <1>1, NewestIsRow DEF RowsInv
<1> QED
  BY <1>1, <1>2 DEF RowsInv

\* Certificates are as complete as they were, whatever happens to rows of open runs.
LEMMA CertifiedStays ==
  ASSUME RowsInv, NEW l,
         \A i \in 1 .. Current : runs'[i].status = "complete" <=> runs[i].status = "complete",
         \A c : (c.run \in 1 .. Current /\ runs[c.run].status = "complete") =>
                   (c \in coverage <=> c \in coverage'),
         \A c \in coverage' : c.run \in 1 .. Current
  PROVE  Certified(l)' = Certified(l)
BY DEF Certified, RowsInv

LEMMA DueLanes ==
  ASSUME RowsInv, NEW mode
  PROVE  /\ LanesDue(mode) \subseteq Libraries
         /\ \A l \in Libraries \ LanesDue(mode) :
               Certified(l) /= {} /\ day < Newest(Certified(l)).at + DueAge
<1>1. ASSUME NEW l \in Libraries \ LanesDue(mode)
      PROVE  Certified(l) /= {} /\ day < Newest(Certified(l)).at + DueAge
  <2>1. Certified(l) /= {} /\ ~(day - Newest(Certified(l)).at >= DueAge)
    BY <1>1 DEF LanesDue, GithubLaneIds
  <2>2. Newest(Certified(l)).at \in Nat
    BY <2>1, NewestCertified
  <2> QED
    BY <2>1, <2>2, DiscoveryConstants DEF RowsInv
<1> QED
  BY <1>1 DEF LanesDue, GithubLaneIds

LEMMA RecordedRows ==
  ASSUME RowsInv, Current > 0, NEW l, NEW complete, NEW searched,
         RecordCoverage(l, complete, searched)
  PROVE  /\ \A c \in coverage' : c.run \in 1 .. Current /\ c.at \in 0 .. day
         /\ \A c : c.run /= Current => (c \in coverage <=> c \in coverage')
<1> DEFINE new == [run |-> Current, library |-> l, complete |-> complete, at |-> day,
                   searched |-> searched]
<1>1. coverage' = {c \in coverage : c.run /= Current \/ c.library /= l} \cup {new}
  BY DEF RecordCoverage
<1>2. new.run = Current /\ new.at = day /\ Current \in Nat
  BY DEF Current, RowsInv
<1> HIDE DEF new
<1> QED
  BY <1>1, <1>2 DEF RowsInv

\* An invocation begins with the lanes that are due.
LEMMA BeginKeeps ==
  ASSUME RotationInv, NEW mode, NEW tasks, Begin(LanesDue(mode), tasks),
         runs' \in Seq(Runs), Current' >= Current, Current' > 0,
         runs'[Current'].status = "running",
         \A i \in 1 .. Current : runs'[i].status = "complete" <=> runs[i].status = "complete"
  PROVE  RotationInv'
<1>1. /\ due' = LanesDue(mode) /\ began' = day /\ stage' = "querying" /\ certificates' = {}
      /\ day' = day /\ coverage' = coverage
  BY DEF Begin
<1>2. RowsInv /\ Current \in Nat /\ Current' \in Nat
  BY DEF RotationInv, RowsInv, Current
<1>3. RowsInv'
  BY <1>1, <1>2 DEF RowsInv
<1>4. \A l : Certified(l)' = Certified(l)
  <2>1. \A c \in coverage' : c.run \in 1 .. Current
    BY <1>1, <1>2 DEF RowsInv
  <2> QED
    BY <1>1, <1>2, <2>1, CertifiedStays
<1>5. LanesInv'
  BY <1>1, <1>2, <1>4, DueLanes DEF LanesInv, RowsInv
<1>6. CertificatesInv'
  BY <1>1 DEF CertificatesInv
<1> QED
  BY <1>3, <1>5, <1>6 DEF RotationInv

\* Whatever ends an invocation leaves rows that are recorded by today.
LEMMA EndedKeeps ==
  ASSUME RotationInv, NEW status \in {"failed", "complete", "abandoned"}, Current > 0,
         Ended(status), day' = day,
         \A c \in coverage' : c.run \in 1 .. Current /\ c.at \in 0 .. day
  PROVE  RotationInv'
<1>1. /\ runs' = WithStatus(runs, Current, status) /\ stage' = "idle" /\ began' = 0
  BY DEF Ended, WithStatus
<1>2. RowsInv /\ Current \in 1 .. Len(runs)
  BY DEF RotationInv, RowsInv, Current
<1>3. runs' \in Seq(Runs) /\ Len(runs') = Len(runs)
  <2>1. runs \in Seq(Runs)
    BY <1>2 DEF RowsInv
  <2>2. status \in RunStatuses
    BY DEF RunStatuses
  <2>3. /\ WithStatus(runs, Current, status) \in Seq(Runs)
        /\ Len(WithStatus(runs, Current, status)) = Len(runs)
    BY <1>2, <2>1, <2>2, StatusSet
  <2> QED
    BY <1>1, <2>3
<1>4. RowsInv'
  BY <1>1, <1>2, <1>3 DEF RowsInv, Current
<1>5. LanesInv' /\ CertificatesInv'
  BY <1>1 DEF LanesInv, CertificatesInv
<1> QED
  BY <1>4, <1>5 DEF RotationInv

\* A step within an invocation.
LEMMA QueryKeeps ==
  ASSUME RotationInv, stage = "querying",
         UNCHANGED <<day, runs, due, began>>, stage' \in {"querying", "finished"},
         \/ coverage' = coverage
         \/ \E l, complete, searched : RecordCoverage(l, complete, searched),
         CertificatesInv'
  PROVE  RotationInv'
<1>1. RowsInv /\ LanesInv /\ Current > 0 /\ runs[Current].status = "running"
  BY DEF RotationInv, LanesInv
<1>2. /\ \A c \in coverage' : c.run \in 1 .. Current /\ c.at \in 0 .. day
      /\ \A c : c.run /= Current => (c \in coverage <=> c \in coverage')
  BY <1>1, RecordedRows DEF RowsInv
<1>3. RowsInv'
  BY <1>1, <1>2 DEF RowsInv, Current
<1>4. \A l : Certified(l)' = Certified(l)
  BY <1>1, <1>2, CertifiedStays
<1>5. LanesInv'
  BY <1>1, <1>4 DEF LanesInv, Current
<1> QED
  BY <1>3, <1>5 DEF RotationInv

LEMMA NewRunKeeps ==
  ASSUME RotationInv, NEW mode \in Modes, NewRun(mode) PROVE RotationInv'
<1> DEFINE entry == [mode |-> mode, status |-> "running"]
<1>1. runs' = Append(runs, entry) /\ entry \in Runs /\ entry.status = "running"
  BY DEF NewRun, Runs, RunStatuses
<1>2. Begin(LanesDue(mode), NoQueries)
  BY DEF NewRun
<1>3. runs \in Seq(Runs)
  BY DEF RotationInv, RowsInv
<1> HIDE DEF entry
<1>4. /\ runs' \in Seq(Runs) /\ Len(runs') = Len(runs) + 1 /\ runs'[Len(runs) + 1] = entry
      /\ \A i \in 1 .. Len(runs) : runs'[i] = runs[i]
  BY <1>1, <1>3
<1> QED
  BY <1>1, <1>2, <1>3, <1>4, BeginKeeps DEF Current

LEMMA ResumeRunKeeps ==
  ASSUME RotationInv, ResumeRun PROVE RotationInv'
<1>1. /\ Current \in 1 .. Len(runs) /\ runs \in Seq(Runs)
      /\ runs[Current].status \in {"running", "failed"}
      /\ runs' = WithStatus(runs, Current, "running")
      /\ Begin(LanesDue(runs[Current].mode), queries)
  BY DEF ResumeRun, RotationInv, RowsInv, Current, WithStatus
<1>2. /\ runs' \in Seq(Runs) /\ Len(runs') = Len(runs) /\ runs'[Current].status = "running"
      /\ \A j \in 1 .. Len(runs) : j /= Current => runs'[j] = runs[j]
  <2>1. "running" \in RunStatuses
    BY DEF RunStatuses
  <2> QED
    BY <1>1, <2>1, StatusSet
<1> QED
  BY <1>1, <1>2, BeginKeeps DEF Current

LEMMA RaisedKeeps ==
  ASSUME RotationInv, stage /= "idle", Raised, day' = day,
         \/ coverage' = coverage
         \/ \E l, complete, searched : RecordCoverage(l, complete, searched)
  PROVE  RotationInv'
<1>1. RowsInv /\ Current > 0
  BY DEF RotationInv, LanesInv
<1>2. \A c \in coverage' : c.run \in 1 .. Current /\ c.at \in 0 .. day
  BY <1>1, RecordedRows DEF RowsInv
<1> QED
  BY <1>1, <1>2, EndedKeeps DEF Raised

LEMMA FinishKeeps ==
  ASSUME RotationInv, FinishDiscovery PROVE RotationInv'
<1>1. CASE Composite
  <2>1. /\ stage = "querying" /\ stage' = "finished"
        /\ certificates' = OfThisRun \cup CarriedForward
        /\ UNCHANGED <<day, runs, due, began, coverage>>
    BY <1>1 DEF FinishDiscovery
  <2>2. /\ RowsInv /\ due \subseteq Libraries /\ day \in began .. began + 1 /\ began \in Nat
        /\ \A l \in Libraries \ due :
              Certified(l) /= {} /\ began < Newest(Certified(l)).at + DueAge
    BY <2>1 DEF RotationInv, LanesInv, RowsInv
  <2>3. ASSUME NEW l \in Libraries \ due
        PROVE  ~(day - Newest(Certified(l)).at >= StaleAge)
    <3>1. Newest(Certified(l)).at \in Nat /\ began < Newest(Certified(l)).at + DueAge
      BY <2>2, NewestCertified
    <3> QED
      BY <2>2, <3>1, DiscoveryConstants
  <2> DEFINE own(l) == [library |-> l, stale |-> FALSE,
                        searched |-> queries[<<l, "github">>].searched]
             old(l) == [library |-> l, stale |-> day - Newest(Certified(l)).at >= StaleAge,
                        searched |-> Newest(Certified(l)).searched]
  <2>4. /\ \A l \in Libraries : own(l).library = l /\ ~own(l).stale
        /\ \A l \in Libraries \ due : old(l).library = l /\ ~old(l).stale
    <3>1. ASSUME NEW l \in Libraries \ due PROVE ~old(l).stale
      <4>1. old(l).stale = (day - Newest(Certified(l)).at >= StaleAge)
        OBVIOUS
      <4> HIDE DEF old
      <4> QED
        BY <2>3, <4>1, Zenon
    <3>2. \A l \in Libraries \ due : old(l).library = l
      OBVIOUS
    <3>3. \A l \in Libraries : own(l).library = l /\ ~own(l).stale
      OBVIOUS
    <3> HIDE DEF own, old
    <3> QED
      BY <3>1, <3>2, <3>3
  <2>5. /\ \A c \in OfThisRun : \E l \in due : c = own(l)
        /\ \A l \in due : own(l) \in OfThisRun
    BY DEF OfThisRun
  <2>6. /\ \A c \in CarriedForward : \E l \in Libraries \ due : c = old(l)
        /\ \A l \in Libraries \ due : old(l) \in CarriedForward
    BY <2>2 DEF CarriedForward
  <2> HIDE DEF own, old
  <2>7. /\ \A c \in certificates' : c.library \in Libraries /\ ~c.stale
        /\ \A l \in Libraries : \E c \in certificates' : c.library = l
    BY <2>1, <2>2, <2>4, <2>5, <2>6
  <2>8. CertificatesInv'
    BY <2>7 DEF CertificatesInv
  <2> QED
    BY <2>1, <2>8, QueryKeeps
<1>2. CASE ~Composite
  BY <1>2, RaisedKeeps DEF FinishDiscovery
<1> QED
  BY <1>1, <1>2

LEMMA SearchKeeps ==
  ASSUME RotationInv, SearchLane PROVE RotationInv'
<1>1. day' = day /\ stage = "querying"
  BY DEF SearchLane
<1>2. \/ UNCHANGED <<runs, coverage, lanes, due, began, stage, certificates>>
      \/ /\ Raised
         /\ \/ coverage' = coverage
            \/ \E l, complete, searched : RecordCoverage(l, complete, searched)
  BY DEF SearchLane
<1>3. CASE UNCHANGED <<runs, coverage, lanes, due, began, stage, certificates>>
  BY <1>1, <1>3, QueryKeeps DEF CertificatesInv
<1> QED
  BY <1>1, <1>2, <1>3, RaisedKeeps

LEMMA RecordLaneKeeps ==
  ASSUME RotationInv, RecordLane PROVE RotationInv'
<1>1. /\ stage = "querying" /\ UNCHANGED <<day, runs, due, began, stage, certificates>>
      /\ \/ coverage' = coverage
         \/ \E l, complete, searched : RecordCoverage(l, complete, searched)
  BY DEF RecordLane
<1> QED
  BY <1>1, QueryKeeps DEF CertificatesInv

LEMMA CloseKeeps ==
  ASSUME RotationInv, CompleteRun \/ AbandonRun PROVE RotationInv'
<1>1. Current > 0 /\ day' = day /\ coverage' = coverage
  BY DEF CompleteRun, AbandonRun, RotationInv, LanesInv
<1> QED
  BY <1>1, EndedKeeps DEF CompleteRun, AbandonRun, RotationInv, RowsInv

LEMMA DayKeeps ==
  ASSUME RotationInv, NextDay PROVE RotationInv'
<1>1. /\ day' = day + 1 /\ (stage = "idle" \/ day = began)
      /\ UNCHANGED <<runs, queries, coverage, lanes, due, began, stage, certificates>>
  BY DEF NextDay
<1>2. RowsInv'
  BY <1>1 DEF RotationInv, RowsInv, Current
<1>3. \A l : Certified(l)' = Certified(l)
  BY <1>1 DEF Certified
<1>4. LanesInv' /\ CertificatesInv'
  BY <1>1, <1>3 DEF RotationInv, RowsInv, LanesInv, CertificatesInv, Current
<1> QED
  BY <1>2, <1>4 DEF RotationInv

LEMMA RotationStarts == DiscoveryInit => RotationInv
  BY DEF DiscoveryInit, RotationInv, RowsInv, LanesInv, CertificatesInv

LEMMA RotationStep == RotationInv /\ [DiscoveryNext]_discoveryVars => RotationInv'
<1> SUFFICES ASSUME RotationInv, [DiscoveryNext]_discoveryVars PROVE RotationInv'
  OBVIOUS
<1>1. CASE UNCHANGED discoveryVars
  BY <1>1 DEF discoveryVars, RotationInv, RowsInv, LanesInv, CertificatesInv, Current, Certified
<1>2. CASE StageAborts
  BY <1>2, RaisedKeeps DEF StageAborts
<1> QED
  BY <1>1, <1>2, NewRunKeeps, ResumeRunKeeps, SearchKeeps, RecordLaneKeeps, FinishKeeps, CloseKeeps,
     DayKeeps
  DEF DiscoveryNext

\* Whenever discovery finishes, every library has a complete certificate that is not stale:
\* those it did not search have one of an earlier run, whichever lanes were due, however many
\* runs failed, were resumed or abandoned in between.  For any number of libraries and runs.
THEOREM CoverageRotates == DiscoverySpec => []RotationKeepsCoverage
<1>1. ASSUME RotationInv PROVE RotationKeepsCoverage
  <2> SUFFICES ASSUME stage = "finished" PROVE RetirementEligible = Libraries
    BY DEF RotationKeepsCoverage
  <2>1. /\ \A l \in Libraries : \E c \in certificates : c.library = l
        /\ \A c \in certificates : c.library \in Libraries /\ ~c.stale
    BY <1>1 DEF RotationInv, CertificatesInv
  <2> QED
    BY <2>1 DEF RetirementEligible
<1> QED
  BY <1>1, RotationStarts, RotationStep, PTL DEF DiscoverySpec

--------------------------------------------------------------------------------
(* The deferred tail.  The certificates of the contract tell what a task may be:    *)
(* what the first of them deferred is a failure or gone whenever a coordinator      *)
(* runs, so that no plan or publication can complete it.                            *)


Keys == contract[1].keys
Statuses == {"complete", "pending", "running", "failed", "superseded", "purged"}

\* The contract holds one certificate of each kind so far, in the order of the kinds, and
\* none of them defers what the deferral did not.  Only a contract with a deferral is run.
ContractInv ==
    /\ \E certs : contract \in Seq(certs)
    /\ Network \in 0 .. 7 /\ checkout \in 0 .. 7
    /\ \A i \in 1 .. Network : contract[i].kind = Kinds[i] /\ contract[i].keys \subseteq Keys
    /\ Network >= 1 => Keys \subseteq Universe
    /\ step /= "down" => Network >= 1 /\ tailStatus /= "complete"
    /\ tailStatus = "complete" => Network >= 1

\* What was deferred is a failure until it is purged, but for what the deviations of the
\* first two commits made of it, which no run uses.
TasksInv ==
    /\ scanTask \in [Universe -> Statuses]
    /\ Network = 0 =>
         \A r \in Universe : scanTask[r] \in {"complete", "pending", "running", "failed"}
    /\ Network >= 1 =>
        /\ \A r \in Universe \ Keys : scanTask[r] \in {"complete", "purged"}
        /\ \A r \in Keys :
              \/ scanTask[r] \in {"failed", "purged"}
              \/ /\ step = "down" /\ tailStatus /= "complete"
                 /\ \/ Network = 1 /\ scanTask[r] = "pending"
                    \/ Network = 2 /\ scanTask[r] = "superseded"

\* From the plan on, the stored heads are the scanned ones and no newcomer is left out.
PlanInv ==
    /\ step \in {"apply", "scan"} => row \subseteq Live
    /\ step = "scan" => row \cap Deferred = {}
    /\ (step \in {"attest", "publish"} \/ tailStatus = "complete") =>
        /\ row = {}
        /\ Cardinality(discovered \ Candidates) = IF HasCertificate("postRefresh") THEN 1 ELSE 0

\* The inductive invariant of the tail.
TailInv == ContractInv /\ TasksInv /\ PlanInv

LEMMA KindsAre ==
    /\ Len(Kinds) = 7
    /\ Kinds[1] = "deferral" /\ Kinds[2] = "tail" /\ Kinds[3] = "downstream"
    /\ Kinds[4] = "privacy" /\ Kinds[5] = "candidates" /\ Kinds[6] = "postRefresh"
    /\ Kinds[7] = "finalVisibility"
  BY DEF Kinds

LEMMA KindsDiffer == \A i, j \in 1 .. 7 : Kinds[i] = Kinds[j] => i = j
  BY KindsAre

\* The certificate of the k-th kind is the k-th of the contract.
LEMMA CertificateOfKind ==
  ASSUME ContractInv, NEW k \in 1 .. 7
  PROVE  /\ HasCertificate(Kinds[k]) <=> k =< Network
         /\ k =< Network => Certificate(Kinds[k]) = contract[k]
<1>1. /\ DOMAIN contract = 1 .. Network /\ Network \in 0 .. 7
      /\ \A i \in 1 .. Network : contract[i].kind = Kinds[i]
  BY DEF ContractInv, Network
<1>2. \A i \in DOMAIN contract : contract[i].kind = Kinds[k] <=> i = k
  BY <1>1, KindsDiffer
<1>3. HasCertificate(Kinds[k]) <=> k =< Network
  BY <1>1, <1>2 DEF HasCertificate
<1>4. ASSUME k =< Network PROVE Certificate(Kinds[k]) = contract[k]
  <2>1. k \in DOMAIN contract
    BY <1>1, <1>4
  <2> QED
    BY <1>2, <2>1 DEF Certificate
<1> QED
  BY <1>3, <1>4

LEMMA CertificatesAre ==
  ASSUME ContractInv
  PROVE  /\ HasCertificate("deferral") <=> Network >= 1
         /\ HasCertificate("downstream") <=> Network >= 3
         /\ HasCertificate("privacy") <=> Network >= 4
         /\ Network >= 1 => Certificate("deferral") = contract[1]
         /\ Network >= 4 => Certificate("privacy") = contract[4]
         /\ Network >= 6 => Certificate("postRefresh") = contract[6]
         /\ Network \in 1 .. 3 => Deferred = Keys
         /\ Network >= 1 => Deferred \subseteq Keys
<1>1. /\ HasCertificate("deferral") <=> Network >= 1
      /\ Network >= 1 => Certificate("deferral") = contract[1]
  BY CertificateOfKind, KindsAre DEF ContractInv
<1>2. HasCertificate("downstream") <=> Network >= 3
  BY CertificateOfKind, KindsAre DEF ContractInv
<1>3. /\ HasCertificate("privacy") <=> Network >= 4
      /\ Network >= 4 => Certificate("privacy") = contract[4]
  BY CertificateOfKind, KindsAre DEF ContractInv
<1>4. /\ HasCertificate("postRefresh") <=> Network >= 6
      /\ Network >= 6 => Certificate("postRefresh") = contract[6]
  BY CertificateOfKind, KindsAre DEF ContractInv
<1>5. /\ HasCertificate("finalVisibility") <=> Network >= 7
      /\ Network >= 7 => Certificate("finalVisibility") = contract[7]
  BY CertificateOfKind, KindsAre DEF ContractInv
<1>6. Network \in 1 .. 3 => Deferred = Keys
  BY <1>1, <1>3, <1>4, <1>5 DEF Deferred, PrivacyControl, Keys
<1>7. Network >= 1 => \E i \in 1 .. Network : Deferred = contract[i].keys
  BY <1>1, <1>3, <1>4, <1>5 DEF Deferred, PrivacyControl, ContractInv
<1>8. Network >= 1 => Deferred \subseteq Keys
  BY <1>7 DEF ContractInv
<1> QED
  BY <1>1, <1>2, <1>3, <1>4, <1>6, <1>8

\* A control appends the certificate of the next kind.
LEMMA ContractGrows ==
  ASSUME ContractInv, NEW c, contract' = Append(contract, c),
         UNCHANGED <<checkout, step>>, step = "down", tailStatus' = "failed",
         SourceAudit(c.kind), c.keys \subseteq Universe,
         Network >= 1 => c.keys \subseteq Keys
  PROVE  /\ ContractInv' /\ Network' = Network + 1
         /\ Network >= 1 => Keys' = Keys
         /\ Network = 0 => Keys' = c.keys
<1>1. PICK certs : contract \in Seq(certs)
  BY DEF ContractInv
<1>2. Network \in Nat /\ checkout \in 0 .. 7 /\ checkout = Network + 1 /\ c.kind = Kinds[checkout]
  BY DEF ContractInv, SourceAudit
<1>3. /\ contract' \in Seq(certs \cup {c}) /\ Len(contract') = Len(contract) + 1
      /\ contract'[Len(contract) + 1] = c
      /\ \A i \in 1 .. Len(contract) : contract'[i] = contract[i]
  BY <1>1
<1>4. Network' = Network + 1
  BY <1>3 DEF Network
<1>5. /\ Network >= 1 => Keys' = Keys
      /\ Network = 0 => Keys' = c.keys
  BY <1>2, <1>3 DEF Network, Keys
<1>6. \A i \in 1 .. Network' : contract'[i].kind = Kinds[i] /\ contract'[i].keys \subseteq Keys'
  <2> SUFFICES ASSUME NEW i \in 1 .. Network'
               PROVE  contract'[i].kind = Kinds[i] /\ contract'[i].keys \subseteq Keys'
    OBVIOUS
  <2>1. CASE i \in 1 .. Network
    BY <1>2, <1>3, <1>5, <2>1 DEF Network, ContractInv
  <2>2. CASE i = Network + 1
    BY <1>2, <1>3, <1>5, <2>2 DEF Network
  <2>3. i \in 1 .. Network \/ i = Network + 1
    BY <1>2, <1>4
  <2> QED
    BY <2>1, <2>2, <2>3
<1>7. \E certs2 : contract' \in Seq(certs2)
  BY <1>3
<1>8. Network' \in 0 .. 7 /\ checkout' \in 0 .. 7 /\ Keys' \subseteq Universe
  BY <1>2, <1>4, <1>5 DEF ContractInv
<1> QED
  BY <1>2, <1>4, <1>5, <1>6, <1>7, <1>8 DEF ContractInv

\* The candidates' certificate is renewed in place.
LEMMA ContractRenewed ==
  ASSUME ContractInv, Network = 5, NEW c, contract' = Append(Front(contract), c),
         UNCHANGED <<checkout, step>>, step = "down", tailStatus' = "failed",
         c.kind = Kinds[5], c.keys \subseteq Keys
  PROVE  ContractInv' /\ Network' = Network /\ Keys' = Keys
<1>1. PICK certs : contract \in Seq(certs)
  BY DEF ContractInv
<1>2. Len(contract) = 5
  BY DEF Network
<1>3. /\ Front(contract) \in Seq(certs) /\ Len(Front(contract)) = 4
      /\ \A i \in 1 .. 4 : Front(contract)[i] = contract[i]
  <2>1. ASSUME NEW i \in 1 .. 4 PROVE contract[i] \in certs
    <3>1. i \in 1 .. Len(contract)
      BY <1>2
    <3> QED
      BY <1>1, <3>1, ElementOfSeq
  <2>2. /\ SubSeq(contract, 1, 4) \in Seq(certs) /\ Len(SubSeq(contract, 1, 4)) = 4
        /\ \A i \in 1 .. 4 : SubSeq(contract, 1, 4)[i] = contract[i]
    BY <2>1, SubSeqProperties
  <2> QED
    BY <1>2, <2>2 DEF Front
<1>4. /\ contract' \in Seq(certs \cup {c}) /\ Len(contract') = 5 /\ contract'[5] = c
      /\ \A i \in 1 .. 4 : contract'[i] = contract[i]
  <2> DEFINE front == Front(contract)
  <2>1. front \in Seq(certs \cup {c})
    BY <1>3
  <2> HIDE DEF front
  <2>2. /\ Append(front, c) \in Seq(certs \cup {c}) /\ Len(Append(front, c)) = Len(front) + 1
        /\ Append(front, c)[Len(front) + 1] = c
        /\ \A i \in 1 .. Len(front) : Append(front, c)[i] = front[i]
    BY <2>1
  <2> USE DEF front
  <2> QED
    BY <1>3, <2>2
<1>5. Network' = 5 /\ Keys' = Keys
  BY <1>4 DEF Network, Keys
<1>6. \A i \in 1 .. 5 : contract'[i].kind = Kinds[i] /\ contract'[i].keys \subseteq Keys'
  <2>1. \A i \in 1 .. 4 : contract'[i].kind = Kinds[i] /\ contract'[i].keys \subseteq Keys'
    BY <1>4, <1>5 DEF ContractInv
  <2> QED
    BY <1>4, <1>5, <2>1
<1>7. \E certs2 : contract' \in Seq(certs2)
  BY <1>4
<1> QED
  BY <1>5, <1>6, <1>7 DEF ContractInv

LEMMA TailStarts == TailInit => TailInv
<1> SUFFICES ASSUME TailInit PROVE TailInv
  OBVIOUS
<1>1. Network = 0 /\ contract = <<>>
  BY DEF TailInit, Network
<1>2. ContractInv
  <2>1. contract \in Seq({})
    BY <1>1
  <2> QED
    BY <1>1, <2>1 DEF ContractInv, TailInit
<1>3. TasksInv
  BY <1>1 DEF TailInit, TasksInv, Statuses
<1>4. PlanInv
  BY DEF TailInit, PlanInv
<1> QED
  BY <1>2, <1>3, <1>4 DEF TailInv

\* A step that leaves the contract alone.
LEMMA ContractStays ==
  ASSUME ContractInv, contract' = contract, checkout' \in 0 .. 7,
         step' /= "down" => Network >= 1 /\ tailStatus' /= "complete",
         tailStatus' = "complete" => Network >= 1
  PROVE  ContractInv' /\ Network' = Network /\ Keys' = Keys
BY DEF ContractInv, Network, Keys

\* A step that neither the plan nor the tasks notice.
LEMMA TasksStay ==
  ASSUME TasksInv, contract' = contract, scanTask' = scanTask,
         \/ UNCHANGED <<step, tailStatus>>
         \/ \A r \in Keys : scanTask[r] \in {"failed", "purged"}
  PROVE  TasksInv'
BY DEF TasksInv, Network, Keys

LEMMA DeferredStays ==
  ASSUME contract' = contract
  PROVE  /\ Deferred' = Deferred /\ Candidates' = Candidates
         /\ \A kind : HasCertificate(kind)' = HasCertificate(kind)
BY DEF Deferred, Candidates, HasCertificate, Certificate, PrivacyControl

\* While a coordinator runs, what was deferred is a failure or gone.
LEMMA RunningTasks ==
  ASSUME TailInv, step /= "down"
  PROVE  /\ Network >= 1
         /\ \A r \in Universe \ Keys : scanTask[r] \in {"complete", "purged"}
         /\ \A r \in Keys : scanTask[r] \in {"failed", "purged"}
BY DEF TailInv, ContractInv, TasksInv

LEMMA ResumeKeeps ==
  ASSUME TailInv, ResumeDeferredRun PROVE TailInv'
<1>1. /\ step' = "metadata" /\ tailStatus' = "running" /\ contract' = contract /\ checkout' = checkout
      /\ HasCertificate("deferral") /\ Unresolved = Deferred
      /\ scanTask' = [r \in Universe |-> IF r \in Deferred THEN "failed" ELSE scanTask[r]]
  BY DEF ResumeDeferredRun
<1>2. ContractInv /\ TasksInv
  BY DEF TailInv
<1>3. Network >= 1 /\ Deferred \subseteq Keys /\ Network \in 0 .. 7
  BY <1>1, <1>2, CertificatesAre DEF ContractInv
<1>4. ContractInv' /\ Network' = Network /\ Keys' = Keys
  BY <1>1, <1>2, <1>3, ContractStays DEF ContractInv
<1>5. \A r \in Keys : scanTask'[r] \in {"failed", "purged"}
  <2> SUFFICES ASSUME NEW r \in Keys PROVE scanTask'[r] \in {"failed", "purged"}
    OBVIOUS
  <2>1. r \in Universe
    BY <1>2, <1>3 DEF ContractInv
  <2>2. CASE r \in Deferred
    BY <1>1, <2>1, <2>2
  <2>3. CASE r \notin Deferred
    <3>1. scanTask[r] \notin {"pending", "running", "failed"}
      BY <1>1, <2>1, <2>3 DEF Unresolved, With
    <3>2. Network = 2 => Deferred = Keys
      BY <1>2, CertificatesAre
    <3>3. scanTask[r] \in {"failed", "purged"}
      BY <1>2, <1>3, <2>3, <3>1, <3>2 DEF TasksInv
    <3> QED
      BY <1>1, <2>1, <2>3, <3>3
  <2> QED
    BY <2>2, <2>3
<1>6. TasksInv'
  <2>1. scanTask' \in [Universe -> Statuses]
    BY <1>1, <1>2 DEF TasksInv, Statuses
  <2>2. \A r \in Universe \ Keys : scanTask'[r] \in {"complete", "purged"}
    BY <1>1, <1>2, <1>3 DEF TasksInv
  <2> QED
    BY <1>3, <1>4, <1>5, <2>1, <2>2 DEF TasksInv
<1>7. PlanInv'
  BY <1>1 DEF PlanInv
<1> QED
  BY <1>4, <1>6, <1>7 DEF TailInv

LEMMA RefreshKeeps ==
  ASSUME TailInv, RefreshMetadata PROVE TailInv'
<1>1. /\ step = "metadata" /\ step' = "apply" /\ tailStatus' = tailStatus
      /\ contract' = contract /\ checkout' = checkout
      /\ scanTask' = [r \in Universe |-> IF r \in private THEN "purged" ELSE scanTask[r]]
      /\ row' = (heads \cap Live) \ private
  BY DEF RefreshMetadata
<1>2. ContractInv /\ TasksInv /\ Network \in 0 .. 7 /\ Keys \subseteq Universe /\ tailStatus /= "complete"
  BY <1>1, RunningTasks DEF TailInv, ContractInv
<1>3. Network >= 1
  BY <1>1, RunningTasks
<1>4. ContractInv' /\ Network' = Network /\ Keys' = Keys
  BY <1>1, <1>2, <1>3, ContractStays DEF ContractInv
<1>5. /\ scanTask' \in [Universe -> Statuses]
      /\ \A r \in Universe \ Keys : scanTask'[r] \in {"complete", "purged"}
      /\ \A r \in Keys : scanTask'[r] \in {"failed", "purged"}
  BY <1>1, <1>2, RunningTasks DEF TasksInv, Statuses
<1>6. TasksInv'
  BY <1>3, <1>4, <1>5 DEF TasksInv
<1>7. row' \subseteq Live'
  BY <1>1 DEF Live
<1>8. PlanInv'
  BY <1>1, <1>2, <1>7 DEF PlanInv
<1> QED
  BY <1>4, <1>6, <1>8 DEF TailInv

\* The other steps of a coordinator leave the contract and the tasks alone.
LEMMA StepKeeps ==
  ASSUME TailInv, step /= "down", UNCHANGED <<contract, checkout, scanTask>>,
         step' = "down" \/ tailStatus' = tailStatus
  PROVE  /\ ContractInv' /\ TasksInv' /\ Live' = Live
         /\ Deferred' = Deferred /\ Candidates' = Candidates
         /\ \A kind : HasCertificate(kind)' = HasCertificate(kind)
         /\ tailStatus /= "complete"
<1>1. ContractInv /\ TasksInv /\ Network >= 1 /\ tailStatus /= "complete"
  BY RunningTasks DEF TailInv, ContractInv
<1>2. ContractInv'
  BY <1>1, ContractStays DEF ContractInv
<1>3. TasksInv'
  BY <1>1, RunningTasks, TasksStay
<1> QED
  BY <1>1, <1>2, <1>3, DeferredStays DEF Live

LEMMA ReplayKeeps ==
  ASSUME TailInv, ReplayMetadata PROVE TailInv'
<1>1. /\ step = "metadata" /\ step' = "apply" /\ UNCHANGED <<contract, checkout, scanTask, tailStatus>>
      /\ row' = metaEpoch.moved \cap Live
  BY DEF ReplayMetadata
<1>2. ContractInv' /\ TasksInv' /\ Live' = Live /\ tailStatus /= "complete"
  BY <1>1, StepKeeps
<1>3. PlanInv'
  BY <1>1, <1>2 DEF PlanInv
<1> QED
  BY <1>2, <1>3 DEF TailInv

LEMMA ApplyKeeps ==
  ASSUME TailInv, ApplyControls PROVE TailInv'
<1>1. /\ step = "apply" /\ UNCHANGED <<contract, checkout, scanTask>>
      /\ \/ step' = "down" /\ tailStatus' = "failed"
         \/ step' = "scan" /\ tailStatus' = tailStatus /\ row' = row /\ Deferred \cap row = {}
         \/ step' = "scan" /\ tailStatus' = tailStatus /\ row' = {}
  BY DEF ApplyControls, FailRun, DeferralApplies
<1>2. /\ ContractInv' /\ TasksInv' /\ Live' = Live /\ Deferred' = Deferred
      /\ tailStatus /= "complete" /\ row \subseteq Live
  BY <1>1, StepKeeps DEF TailInv, PlanInv
<1>3. PlanInv'
  BY <1>1, <1>2 DEF PlanInv
<1> QED
  BY <1>2, <1>3 DEF TailInv

LEMMA PlanKeeps ==
  ASSUME TailInv, PlanScan PROVE TailInv'
<1>1. /\ step = "scan" /\ UNCHANGED <<contract, checkout, scanTask, row, discovered>>
      /\ \/ step' = "down" /\ tailStatus' = "failed"
         \/ step' = "attest" /\ tailStatus' = tailStatus /\ PlanIsCertified
  BY DEF PlanScan, FailRun
<1>2. /\ ContractInv' /\ TasksInv' /\ Candidates' = Candidates
      /\ HasCertificate("postRefresh")' = HasCertificate("postRefresh")
      /\ tailStatus /= "complete" /\ row \subseteq Live /\ row \cap Deferred = {}
  BY <1>1, StepKeeps DEF TailInv, PlanInv
<1>3. ASSUME PlanIsCertified
      PROVE  /\ row = {}
             /\ Cardinality(discovered \ Candidates)
                  = IF HasCertificate("postRefresh") THEN 1 ELSE 0
  BY <1>2, <1>3 DEF PlanIsCertified
<1>4. PlanInv'
  BY <1>1, <1>2, <1>3 DEF PlanInv
<1> QED
  BY <1>2, <1>4 DEF TailInv

\* Neither the attestation nor the publication nor a crash changes what was planned.
LEMMA LateKeeps ==
  ASSUME TailInv, AttestOutput \/ PublishRun \/ CrashRun PROVE TailInv'
<1>1. /\ step /= "down" /\ UNCHANGED <<contract, checkout, scanTask, row, discovered>>
      /\ \/ step' = "down" /\ tailStatus' \in {"failed", tailStatus}
         \/ step = "attest" /\ step' = "publish" /\ tailStatus' = tailStatus
         \/ step = "publish" /\ step' = "down" /\ tailStatus' = "complete"
  BY DEF AttestOutput, PublishRun, CrashRun, FailRun
<1>2. /\ ContractInv' /\ TasksInv' /\ Candidates' = Candidates
      /\ HasCertificate("postRefresh")' = HasCertificate("postRefresh") /\ tailStatus /= "complete"
  BY <1>1, StepKeeps
<1>3. PlanInv'
  BY <1>1, <1>2 DEF TailInv, PlanInv
<1> QED
  BY <1>2, <1>3 DEF TailInv

\* A control leaves a failed run that nobody executes.
LEMMA ControlledPlan ==
  ASSUME step' = "down", tailStatus' = "failed" PROVE PlanInv'
BY DEF PlanInv

\* A control that appends a certificate and leaves what it defers a failure or purged.
LEMMA ControlKeeps ==
  ASSUME TailInv, NEW c, contract' = Append(contract, c), c.keys \subseteq Universe,
         SourceAudit(c.kind), Network >= 1 => c.keys \subseteq Keys,
         UNCHANGED <<checkout, step>>, step = "down", tailStatus' = "failed",
         scanTask' \in [Universe -> Statuses],
         \A r \in Universe \ Keys' : scanTask'[r] \in {"complete", "purged"},
         \A r \in Keys' : \/ scanTask'[r] \in {"failed", "purged"}
                          \/ Network = 1 /\ scanTask'[r] = "superseded"
  PROVE  TailInv'
<1>1. ContractInv' /\ Network' = Network + 1 /\ Network \in Nat
  <2>1. ContractInv' /\ Network' = Network + 1
    BY ContractGrows DEF TailInv
  <2>2. Network \in Nat
    BY DEF TailInv, ContractInv
  <2> QED
    BY <2>1, <2>2
<1>2. TasksInv'
  BY <1>1 DEF TasksInv
<1> QED
  BY <1>1, <1>2, ControlledPlan DEF TailInv

LEMMA DeferralKeeps ==
  ASSUME TailInv, AuthorizeDeferral PROVE TailInv'
<1> DEFINE c == Cert("deferral", Unresolved, Completed, 0, 0, {})
<1>1. /\ contract' = Append(contract, c) /\ SourceAudit("deferral") /\ tailStatus' = "failed"
      /\ UNCHANGED <<checkout, step>> /\ step = "down"
      /\ scanTask' = [r \in Universe |-> IF r \in Unresolved THEN "failed" ELSE scanTask[r]]
  BY DEF AuthorizeDeferral
<1>2. c.kind = "deferral" /\ c.keys = Unresolved /\ Unresolved \subseteq Universe
  BY DEF Cert, Unresolved, With
<1> HIDE DEF c
<1>3. Network = 0
  BY <1>1, KindsAre, KindsDiffer DEF SourceAudit, TailInv, ContractInv
<1>4. Keys' = Unresolved
  BY <1>1, <1>2, <1>3, ContractGrows DEF TailInv
<1>5. \A r \in Universe : scanTask[r] \in {"complete", "pending", "running", "failed"}
  BY <1>3 DEF TailInv, TasksInv
<1>6. /\ scanTask' \in [Universe -> Statuses]
      /\ \A r \in Universe \ Keys' : scanTask'[r] \in {"complete", "purged"}
      /\ \A r \in Keys' : scanTask'[r] \in {"failed", "purged"}
  BY <1>1, <1>2, <1>4, <1>5 DEF Statuses, Unresolved, With
<1> QED
  BY <1>1, <1>2, <1>3, <1>6, ControlKeeps

\* The later controls find the deferral at the head of the contract.
LEMMA LaterControl ==
  ASSUME TailInv, NEW k \in 2 .. 7, MayControl(Kinds[k])
  PROVE  /\ Network = k - 1 /\ step = "down" /\ tailStatus = "failed"
         /\ scanTask \in [Universe -> Statuses] /\ Keys \subseteq Universe
         /\ \A r \in Universe \ Keys : scanTask[r] \in {"complete", "purged"}
         /\ \A r \in Keys : \/ scanTask[r] \in {"failed", "purged"}
                            \/ Network = 1 /\ scanTask[r] = "pending"
                            \/ Network = 2 /\ scanTask[r] = "superseded"
<1>1. checkout = Network + 1 /\ checkout \in 0 .. 7 /\ Network \in 0 .. 7 /\ Kinds[k] = Kinds[checkout]
  BY DEF MayControl, SourceAudit, TailInv, ContractInv
<1>2. Network = k - 1
  BY <1>1, KindsDiffer
<1> QED
  BY <1>2 DEF MayControl, TailInv, ContractInv, TasksInv

\* What a later control does to the tasks.
LEMMA LaterKeeps ==
  ASSUME TailInv, NEW k \in 2 .. 7, MayControl(Kinds[k]), NEW c, c.kind = Kinds[k],
         contract' = Append(contract, c), c.keys \subseteq Keys,
         UNCHANGED <<checkout, step, tailStatus>>,
         scanTask' \in [Universe -> Statuses],
         \A r \in Universe \ Keys : scanTask'[r] \in {"complete", "purged"},
         \A r \in Keys : \/ scanTask'[r] \in {"failed", "purged"}
                         \/ Network = 1 /\ scanTask'[r] = "superseded"
  PROVE  TailInv'
<1>1. /\ Network = k - 1 /\ step = "down" /\ tailStatus = "failed" /\ Keys \subseteq Universe
  BY LaterControl
<1>2. SourceAudit(c.kind)
  BY DEF MayControl
<1>3. Keys' = Keys
  BY <1>1, <1>2, ContractGrows DEF TailInv
<1> QED
  BY <1>1, <1>2, <1>3, ControlKeeps

LEMMA TailResumeKeeps ==
  ASSUME TailInv, AuthorizeTailResume PROVE TailInv'
<1> DEFINE deferral == Certificate("deferral")
           c == Cert("tail", deferral.keys, deferral.complete, 0, 0, {})
<1>1. /\ MayControl("tail") /\ UNCHANGED <<checkout, tailStatus, step>>
      /\ contract' = Append(contract, c)
      /\ scanTask' = [r \in Universe |-> IF scanTask[r] = "pending" THEN "failed" ELSE scanTask[r]]
  BY DEF AuthorizeTailResume
<1>2. MayControl(Kinds[2]) /\ c.kind = Kinds[2]
  BY <1>1, KindsAre DEF Cert
<1>3. /\ Network = 1
      /\ scanTask \in [Universe -> Statuses] /\ Keys \subseteq Universe
      /\ \A r \in Universe \ Keys : scanTask[r] \in {"complete", "purged"}
      /\ \A r \in Keys : scanTask[r] \in {"failed", "purged", "pending"}
  BY <1>2, LaterControl
<1>4. c.keys = Keys
  BY <1>3, CertificatesAre DEF TailInv, Cert, Keys
<1> HIDE DEF c
<1>5. /\ scanTask' \in [Universe -> Statuses]
      /\ \A r \in Universe \ Keys : scanTask'[r] \in {"complete", "purged"}
      /\ \A r \in Keys : scanTask'[r] \in {"failed", "purged"}
  BY <1>1, <1>3 DEF Statuses
<1> QED
  BY <1>1, <1>2, <1>4, <1>5, LaterKeeps

LEMMA DownstreamKeeps ==
  ASSUME TailInv, AuthorizeDownstreamResume PROVE TailInv'
<1> DEFINE deferral == Certificate("deferral")
           restored == [r \in Universe |->
                           IF r \in deferral.keys THEN "failed" ELSE scanTask[r]]
           c == Cert("downstream", deferral.keys, deferral.complete, 0, 0, {})
<1>1. /\ MayControl("downstream") /\ UNCHANGED <<checkout, tailStatus, step>>
      /\ contract' = Append(contract, c)
      /\ \/ Unresolved = deferral.keys /\ scanTask' = scanTask
         \/ scanTask' = restored
  BY DEF AuthorizeDownstreamResume
<1>2. MayControl(Kinds[3]) /\ c.kind = Kinds[3]
  BY <1>1, KindsAre DEF Cert
<1>3. /\ Network = 2
      /\ scanTask \in [Universe -> Statuses] /\ Keys \subseteq Universe
      /\ \A r \in Universe \ Keys : scanTask[r] \in {"complete", "purged"}
      /\ \A r \in Keys : scanTask[r] \in {"failed", "purged", "superseded"}
  BY <1>2, LaterControl
<1>4. c.keys = Keys /\ deferral.keys = Keys
  BY <1>3, CertificatesAre DEF TailInv, Cert, Keys
<1> HIDE DEF c
<1>5. CASE scanTask' = restored
  <2>1. /\ scanTask' \in [Universe -> Statuses]
        /\ \A r \in Universe \ Keys : scanTask'[r] \in {"complete", "purged"}
        /\ \A r \in Keys : scanTask'[r] \in {"failed", "purged"}
    BY <1>3, <1>4, <1>5 DEF Statuses
  <2> QED
    BY <1>1, <1>2, <1>4, <2>1, LaterKeeps
<1>6. CASE Unresolved = deferral.keys /\ scanTask' = scanTask
  <2>1. \A r \in Keys : scanTask[r] = "failed"
    BY <1>3, <1>4, <1>6 DEF Unresolved, With
  <2> QED
    BY <1>1, <1>2, <1>3, <1>4, <1>6, <2>1, LaterKeeps
<1> QED
  BY <1>1, <1>5, <1>6

Purged(gone) == [r \in Universe |-> IF r \in gone THEN "purged" ELSE scanTask[r]]

\* From the fourth certificate on, a control changes the tasks by purges only.
LEMMA PurgeKeeps ==
  ASSUME TailInv, NEW k \in 4 .. 7, MayControl(Kinds[k]), NEW c, c.kind = Kinds[k],
         contract' = Append(contract, c), c.keys \subseteq Keys,
         UNCHANGED <<checkout, step, tailStatus>>,
         scanTask' = scanTask \/ \E gone : scanTask' = Purged(gone)
  PROVE  TailInv'
<1>1. /\ Network = k - 1
      /\ scanTask \in [Universe -> Statuses] /\ Keys \subseteq Universe
      /\ \A r \in Universe \ Keys : scanTask[r] \in {"complete", "purged"}
      /\ \A r \in Keys : scanTask[r] \in {"failed", "purged"}
  BY LaterControl
<1>2. /\ scanTask' \in [Universe -> Statuses]
      /\ \A r \in Universe \ Keys : scanTask'[r] \in {"complete", "purged"}
      /\ \A r \in Keys : scanTask'[r] \in {"failed", "purged"}
  BY <1>1 DEF Statuses, Purged
<1> QED
  BY <1>2, LaterKeeps

LEMMA PrivacyKeeps ==
  ASSUME TailInv, AuthorizePrivacyResume PROVE TailInv'
<1> DEFINE deferral == Certificate("deferral")
           c == Cert("privacy", deferral.keys \cap Live, Completed, Cardinality(Missing),
                     Cardinality(row), {})
<1>1. /\ MayControl("privacy") /\ UNCHANGED <<checkout, tailStatus, step, scanTask>>
      /\ contract' = Append(contract, c)
  BY DEF AuthorizePrivacyResume
<1>2. MayControl(Kinds[4]) /\ c.kind = Kinds[4]
  BY <1>1, KindsAre DEF Cert
<1>3. c.keys \subseteq Keys
  BY <1>2, LaterControl, CertificatesAre DEF TailInv, Cert, Keys
<1> HIDE DEF c
<1> QED
  BY <1>1, <1>2, <1>3, PurgeKeeps

\* The keys of a certificate of the contract.
LEMMA CertifiedKeys ==
  ASSUME TailInv
  PROVE  /\ Network >= 4 => Certificate("privacy").keys \subseteq Keys
         /\ Network >= 6 => Certificate("postRefresh").keys \subseteq Keys
BY CertificatesAre DEF TailInv, ContractInv

LEMMA CandidatesKeep ==
  ASSUME TailInv, AuthorizeCandidateDeferral PROVE TailInv'
<1>1. PICK proof : contract' = Append(contract, CandidateCertificate(proof))
  BY DEF AuthorizeCandidateDeferral
<1> DEFINE c == CandidateCertificate(proof)
<1>2. MayControl("candidates") /\ UNCHANGED <<checkout, tailStatus, step, scanTask>>
  BY DEF AuthorizeCandidateDeferral
<1>3. MayControl(Kinds[5]) /\ c.kind = Kinds[5] /\ c.keys = Certificate("privacy").keys
  BY <1>2, KindsAre DEF CandidateCertificate, Cert
<1>4. c.keys \subseteq Keys
  BY <1>3, LaterControl, CertifiedKeys
<1> HIDE DEF c
<1>5. contract' = Append(contract, c)
  BY <1>1 DEF c
<1> QED
  BY <1>2, <1>3, <1>4, <1>5, PurgeKeeps

LEMMA RenewalKeeps ==
  ASSUME TailInv, ReauthorizeCandidateDeferral PROVE TailInv'
<1>1. PICK proof : contract' = Append(Front(contract), CandidateCertificate(proof))
  BY DEF ReauthorizeCandidateDeferral
<1> DEFINE c == CandidateCertificate(proof)
<1>2. /\ UNCHANGED <<checkout, tailStatus, step, scanTask>> /\ tailStatus = "failed" /\ step = "down"
      /\ Network > 0 /\ Last(contract).kind = "candidates" /\ TasksInv
  BY DEF ReauthorizeCandidateDeferral, TailInv
<1>3. Network = 5
  <2>1. contract[Network].kind = Kinds[Network] /\ Network \in 1 .. 7
    BY <1>2 DEF TailInv, ContractInv
  <2>2. Kinds[Network] = Kinds[5]
    BY <1>2, <2>1, KindsAre DEF Last, Network
  <2> QED
    BY <2>1, <2>2, KindsDiffer
<1>4. c.kind = Kinds[5] /\ c.keys = Certificate("privacy").keys
  BY KindsAre DEF CandidateCertificate, Cert
<1>5. c.keys \subseteq Keys
  BY <1>3, <1>4, CertifiedKeys
<1> HIDE DEF c
<1>6. contract' = Append(Front(contract), c)
  BY <1>1 DEF c
<1>7. ContractInv' /\ Network' = Network /\ Keys' = Keys
  BY <1>2, <1>3, <1>4, <1>5, <1>6, ContractRenewed DEF TailInv
<1>8. TasksInv'
  BY <1>2, <1>7 DEF TasksInv
<1> QED
  BY <1>2, <1>7, <1>8, ControlledPlan DEF TailInv

LEMMA PostRefreshKeeps ==
  ASSUME TailInv, AuthorizePostRefreshPrivacy PROVE TailInv'
<1> DEFINE privacy == Certificate("privacy")
           c == Cert("postRefresh", privacy.keys, privacy.complete - 1, 1, Cardinality(row), {})
<1>1. /\ MayControl("postRefresh") /\ UNCHANGED <<checkout, tailStatus, step, scanTask>>
      /\ contract' = Append(contract, c)
  BY DEF AuthorizePostRefreshPrivacy
<1>2. MayControl(Kinds[6]) /\ c.kind = Kinds[6] /\ c.keys = privacy.keys
  BY <1>1, KindsAre DEF Cert
<1>3. c.keys \subseteq Keys
  BY <1>2, LaterControl, CertifiedKeys
<1> HIDE DEF c
<1> QED
  BY <1>1, <1>2, <1>3, PurgeKeeps

LEMMA FinalVisibilityKeeps ==
  ASSUME TailInv, AuthorizeFinalVisibilityPrivacy PROVE TailInv'
<1> DEFINE post == Certificate("postRefresh")
           c == Cert("finalVisibility", post.keys, post.complete - 1, 1, post.pins, {})
<1>1. /\ MayControl("finalVisibility") /\ UNCHANGED <<checkout, tailStatus, step>>
      /\ contract' = Append(contract, c)
      /\ scanTask' = Purged(rejected)
  BY DEF Purged, AuthorizeFinalVisibilityPrivacy
<1>2. MayControl(Kinds[7]) /\ c.kind = Kinds[7] /\ c.keys = post.keys
  BY <1>1, KindsAre DEF Cert
<1>3. c.keys \subseteq Keys
  BY <1>2, LaterControl, CertifiedKeys
<1> HIDE DEF c
<1> QED
  BY <1>1, <1>2, <1>3, PurgeKeeps

LEMMA OutsideKeeps ==
  ASSUME TailInv, Outside PROVE TailInv'
<1>1. ContractInv /\ TasksInv /\ PlanInv
  BY DEF TailInv
<1>2. CASE DeployReview
  <2>1. /\ UNCHANGED <<contract, tailStatus, step, scanTask, row, discovered>>
        /\ step = "down" /\ tailStatus /= "complete" /\ checkout < 7 /\ checkout' = checkout + 1
    BY <1>2, KindsAre DEF DeployReview
  <2>2. ContractInv'
    BY <1>1, <2>1, ContractStays DEF ContractInv
  <2>3. TasksInv'
    BY <1>1, <2>1, TasksStay
  <2> QED
    BY <2>1, <2>2, <2>3 DEF TailInv, PlanInv
<1>3. CASE SaveReference \/ TurnPrivate \/ MoveHead
  <2>1. UNCHANGED <<contract, checkout, tailStatus, step, scanTask, row, discovered>>
    BY <1>3 DEF SaveReference, TurnPrivate, MoveHead
  <2>2. ContractInv'
    BY <1>1, <2>1, ContractStays DEF ContractInv
  <2>3. TasksInv'
    BY <1>1, <2>1, TasksStay
  <2>4. PlanInv'
    BY <1>1, <2>1, DeferredStays DEF PlanInv, Live
  <2> QED
    BY <2>2, <2>3, <2>4 DEF TailInv
<1>4. CASE RependsDeferred
  <2>1. /\ UNCHANGED <<contract, checkout, tailStatus, step>> /\ step = "down" /\ tailStatus = "failed"
        /\ Network = 1
    BY <1>4 DEF RependsDeferred
  <2>2. PICK reopened \in SUBSET (Deferred \cap Live) :
            scanTask' = [r \in Universe |-> IF r \in reopened THEN "pending" ELSE scanTask[r]]
    BY <1>4 DEF RependsDeferred
  <2>3. Deferred = Keys /\ Keys \subseteq Universe
    BY <1>1, <2>1, CertificatesAre DEF ContractInv
  <2>4. ContractInv' /\ Network' = Network /\ Keys' = Keys
    BY <1>1, <2>1, ContractStays DEF ContractInv
  <2>5. /\ \A r \in Universe \ Keys : scanTask[r] \in {"complete", "purged"}
        /\ \A r \in Keys : scanTask[r] \in {"failed", "purged", "pending"}
        /\ scanTask \in [Universe -> Statuses]
    BY <1>1, <2>1 DEF TasksInv
  <2>6. /\ scanTask' \in [Universe -> Statuses]
        /\ \A r \in Universe \ Keys : scanTask'[r] \in {"complete", "purged"}
        /\ \A r \in Keys : scanTask'[r] \in {"failed", "purged", "pending"}
    BY <2>2, <2>3, <2>5 DEF Statuses
  <2>7. TasksInv'
    BY <2>1, <2>4, <2>6 DEF TasksInv
  <2> QED
    BY <2>1, <2>4, <2>7, ControlledPlan DEF TailInv
<1>5. CASE SupersedesDeferred
  <2>1. /\ UNCHANGED <<contract, checkout, tailStatus, step>> /\ step = "down" /\ tailStatus = "failed"
        /\ Network = 2
        /\ scanTask' = [r \in Universe |-> IF r \in Deferred THEN "superseded" ELSE scanTask[r]]
    BY <1>5 DEF SupersedesDeferred
  <2>2. Deferred = Keys /\ Keys \subseteq Universe
    BY <1>1, <2>1, CertificatesAre DEF ContractInv
  <2>3. ContractInv' /\ Network' = Network /\ Keys' = Keys
    BY <1>1, <2>1, ContractStays DEF ContractInv
  <2>4. /\ scanTask' \in [Universe -> Statuses]
        /\ \A r \in Universe \ Keys : scanTask'[r] \in {"complete", "purged"}
        /\ \A r \in Keys : scanTask'[r] = "superseded"
    BY <1>1, <2>1, <2>2 DEF TasksInv, Statuses
  <2>5. TasksInv'
    BY <2>1, <2>3, <2>4 DEF TasksInv
  <2> QED
    BY <2>1, <2>3, <2>5, ControlledPlan DEF TailInv
<1> QED
  BY <1>2, <1>3, <1>4, <1>5 DEF Outside

LEMMA TailStep == TailInv /\ [TailNext]_tailVars => TailInv'
<1> SUFFICES ASSUME TailInv, [TailNext]_tailVars PROVE TailInv'
  OBVIOUS
<1>1. CASE UNCHANGED tailVars
  <2>1. UNCHANGED <<contract, checkout, tailStatus, step, scanTask, row, discovered>>
    BY <1>1 DEF tailVars
  <2>2. ContractInv'
    BY <2>1, ContractStays DEF ContractInv, TailInv
  <2>3. TasksInv'
    BY <2>1, TasksStay DEF TailInv
  <2>4. PlanInv'
    BY <2>1, DeferredStays DEF PlanInv, Live, TailInv
  <2> QED
    BY <2>2, <2>3, <2>4 DEF TailInv
<1>2. CASE Coordinate
  BY <1>2, ResumeKeeps, RefreshKeeps, ReplayKeeps, ApplyKeeps, PlanKeeps, LateKeeps DEF Coordinate
<1>3. CASE Authorize
  BY <1>3, DeferralKeeps, TailResumeKeeps, DownstreamKeeps, PrivacyKeeps, CandidatesKeep,
     RenewalKeeps, PostRefreshKeeps, FinalVisibilityKeeps DEF Authorize
<1> QED
  BY <1>1, <1>2, <1>3, OutsideKeeps DEF TailNext

\* A release accounts for every repository of the task universe: scanned, purged, or deferred
\* by the owner and still a failure; and at most the one the certified epoch named has no
\* task.  For any number of repositories and any order of failures, controls and refreshes.
THEOREM ReleaseAccountsForAll == TailSpec => []PublishedUniverseAccounted
<1>1. ASSUME TailInv PROVE PublishedUniverseAccounted
  <2> SUFFICES ASSUME tailStatus = "complete"
               PROVE  /\ \A r \in Universe :
                           scanTask[r] \in (IF r \in Certificate("deferral").keys THEN {"failed"}
                                            ELSE {"complete"}) \cup {"purged"}
                      /\ Cardinality(discovered \ Candidates) =<
                            IF HasCertificate("postRefresh") THEN 1 ELSE 0
    BY DEF PublishedUniverseAccounted
  <2>1. Network >= 1 /\ Certificate("deferral").keys = Keys
    BY <1>1, CertificatesAre DEF TailInv, ContractInv, Keys
  <2>2. /\ \A r \in Universe \ Keys : scanTask[r] \in {"complete", "purged"}
        /\ \A r \in Keys : scanTask[r] \in {"failed", "purged"}
    BY <1>1, <2>1 DEF TailInv, TasksInv
  <2>3. Cardinality(discovered \ Candidates) = IF HasCertificate("postRefresh") THEN 1 ELSE 0
    BY <1>1 DEF TailInv, PlanInv
  <2> QED
    BY <2>1, <2>2, <2>3
<1> QED
  BY <1>1, TailStarts, TailStep, PTL DEF TailSpec

\* The heads a release publishes are those its evidence was scanned at, whatever a fresh
\* metadata epoch stored meanwhile.
THEOREM ReleaseHeadsWereScanned == TailSpec => []PublishedHeadsWereScanned
<1>1. TailInv => PublishedHeadsWereScanned
  BY DEF TailInv, PlanInv, PublishedHeadsWereScanned
<1> QED
  BY <1>1, TailStarts, TailStep, PTL DEF TailSpec

\* Once the supersession is repaired, a deferred task that failed stays failed until the purge
\* of its repository removes it, whatever resumes, replans or controls the run afterwards.
THEOREM QuarantineLasts == TailSpec => QuarantineIsFinal
<1> DEFINE Lasts == HasCertificate("downstream") =>
               \A r \in Deferred : scanTask[r] = "failed" => scanTask'[r] \in {"failed", "purged"}
<1>1. ASSUME TailInv, [TailNext]_tailVars PROVE Lasts
  <2> SUFFICES ASSUME HasCertificate("downstream"), NEW r \in Deferred, scanTask[r] = "failed"
               PROVE  scanTask'[r] \in {"failed", "purged"}
    OBVIOUS
  <2>1. Network >= 3 /\ Network \in 0 .. 7 /\ r \in Universe
    BY <1>1, CertificatesAre DEF TailInv, ContractInv
  <2>2. ASSUME NEW k \in 1 .. 3 PROVE ~SourceAudit(Kinds[k])
    <3>1. checkout \in 0 .. 7
      BY <1>1 DEF TailInv, ContractInv
    <3> QED
      BY <2>1, <3>1, KindsDiffer DEF SourceAudit
  <2>3. CASE UNCHANGED scanTask
    BY <2>3
  <2>4. CASE ResumeDeferredRun
    BY <2>1, <2>4 DEF ResumeDeferredRun
  <2>5. CASE RefreshMetadata
    BY <2>1, <2>5 DEF RefreshMetadata
  <2>6. CASE AuthorizeFinalVisibilityPrivacy
    BY <2>1, <2>6 DEF AuthorizeFinalVisibilityPrivacy
  <2>7. ~AuthorizeDeferral /\ ~AuthorizeTailResume /\ ~AuthorizeDownstreamResume
    BY <2>2, KindsAre DEF AuthorizeDeferral, AuthorizeTailResume, AuthorizeDownstreamResume,
       MayControl
  <2>8. ~RependsDeferred /\ ~SupersedesDeferred
    BY <2>1 DEF RependsDeferred, SupersedesDeferred
  <2>9. Coordinate =>
          UNCHANGED scanTask \/ ResumeDeferredRun \/ RefreshMetadata
    BY DEF Coordinate, ReplayMetadata, ApplyControls, PlanScan, AttestOutput, PublishRun, CrashRun
  <2>10. Authorize => UNCHANGED scanTask \/ AuthorizeFinalVisibilityPrivacy
    BY <2>7 DEF Authorize, AuthorizePrivacyResume, AuthorizeCandidateDeferral,
       ReauthorizeCandidateDeferral, AuthorizePostRefreshPrivacy
  <2>11. Outside => UNCHANGED scanTask
    BY <2>8 DEF Outside, DeployReview, SaveReference, TurnPrivate, MoveHead
  <2> QED
    BY <1>1, <2>3, <2>4, <2>5, <2>6, <2>9, <2>10, <2>11 DEF TailNext, tailVars
<1> QED
  BY <1>1, TailStarts, TailStep, PTL DEF TailSpec, QuarantineIsFinal

================================================================================
