------------------------------ MODULE LineageProofs -----------------------------
(***************************************************************************)
(* Proofs about what one run takes over from another: the results that a    *)
(* repaired successor inherits, and the charges of its predecessors          *)
(* (Successor); and citation records that are served again (Citations).      *)
(***************************************************************************)
EXTENDS Successor, Citations, SumTheorems

--------------------------------------------------------------------------------
(* The lineage. *)

\* The sources of a checkout, the tasks of a run and the rows of the state, as types.
Sources == [task : Nat, epoch : Nat, detector : Nat, verdict : [Targets -> Nat]]
Works == [status : {"absent", "pending", "complete", "failed"}, tries : Nat,
          inherited : {0, 1}, exact : BOOLEAN, made : Nat]
Rows == [target : Targets, detector : Nat, verdict : Nat, at : Nat]

\* A completed task was executed by the source of the run, and exactly if it was inherited.
\* One that is still to be executed was not inherited.
TaskHolds(i, task) ==
    /\ task.status = "complete" =>
          /\ task.made = latest.source.task
          /\ task.inherited = 1 /\ Required(i) => task.exact
    /\ task.status \in {"absent", "pending"} => task.inherited = 0
\* So was a metadata batch.
BatchHolds(batch) == batch.status = "complete" => batch.made = latest.source.epoch

\* The newest run has the fields it was created with.
RunType ==
    /\ {"hop", "kind", "open", "source", "seeded", "early"} \subseteq DOMAIN latest
    /\ latest.hop \in Nat /\ latest.source \in Sources

\* The work of the newest run holds for its source.
WorkInv ==
    /\ query \in [QueryTasks -> Works] /\ metadata \in Works
    /\ \A i \in QueryTasks : TaskHolds(i, query[i])
    /\ BatchHolds(metadata)

\* What the checkout still shares with the source of the newest run; nobody holds the run
\* lock under a repair of more than the command line.
CheckoutInv ==
    /\ source \in Sources
    /\ "task" \notin changed => source.task = latest.source.task
    /\ "epoch" \notin changed => source.epoch = latest.source.epoch
    /\ "scanner" \notin changed => /\ source.detector = latest.source.detector
                                   /\ source.verdict = latest.source.verdict
    /\ "scanner" \in changed => source.detector > latest.source.detector
    /\ doing /= "idle" => changed \subseteq {"cli"}

\* No row has detectors that are newer than those of the newest run.
RowInv ==
    /\ rows \subseteq Rows
    /\ \A r \in rows : r.detector =< latest.source.detector
    /\ ReusedVerdictsHold

\* What may still be inherited holds for the source of the heir.
ForebearHolds ==
    /\ \A i \in QueryTasks : forebear.query[i] \in Works /\ TaskHolds(i, forebear.query[i])
    /\ forebear.metadata \in Works /\ BatchHolds(forebear.metadata)
    /\ latest.kind = "checkpoint" =>
          /\ forebear.run.hop \in Nat /\ forebear.run.hop < latest.hop
          /\ \A t \in Completed(forebear) : \A r \in ResultRows(forebear, t) :
                r.verdict = latest.source.verdict[t]
\* While a successor takes its inheritance, and as long as there is something to take.
ForebearInv ==
    /\ doing \in {"materializing", "enqueuing", "inheriting"} \/ forebear /= NoRun =>
          ForebearHolds
    /\ doing = "materializing" => latest.kind = "checkpoint"

\* The inductive invariant of the lineage.
LineageInv == RunType /\ WorkInv /\ CheckoutInv /\ RowInv /\ ForebearInv

\* Steps of the newest run, with the checkout it was started from.
LEMMA SourceFacts ==
  ASSUME NEW s \in Sources
  PROVE  /\ s.task \in Nat /\ s.epoch \in Nat /\ s.detector \in Nat
         /\ s.verdict \in [Targets -> Nat]
  BY DEF Sources

LEMMA AbsentFacts ==
  /\ Absent \in Works /\ Absent.status = "absent" /\ Absent.inherited = 0
  BY DEF Absent, Works

LEMMA InheritedFacts ==
  ASSUME NEW task \in Works, NEW heir, heir = [task EXCEPT !.tries = 0, !.inherited = 1]
  PROVE  /\ heir \in Works /\ heir.status = task.status
         /\ heir.made = task.made /\ heir.exact = task.exact
<1>1. /\ heir.status = task.status /\ heir.tries = 0 /\ heir.inherited = 1
      /\ heir.made = task.made /\ heir.exact = task.exact
  BY DEF Works
<1>2. heir = [status |-> heir.status, tries |-> heir.tries, inherited |-> heir.inherited,
              exact |-> heir.exact, made |-> heir.made]
  BY DEF Works
<1> QED
  BY <1>1, <1>2 DEF Works

\* A successor may be created: what it may inherit was executed by what it was made from,
\* unless the repair touched it.
LEMMA CreateKeeps ==
  ASSUME LineageInv, NEW kind, NEW tasks, NEW history, NEW past,
         CreateSuccessor(kind, tasks, history, past),
         "task" \notin changed, kind \in Recoveries => "epoch" \notin changed,
         kind = "checkpoint" => CheckpointIsCertified(Current)
  PROVE  LineageInv'
<1>1. /\ latest'.hop = latest.hop + 1 /\ latest'.kind = kind /\ latest'.source = source
      /\ {"hop", "kind", "open", "source", "seeded", "early"} \subseteq DOMAIN latest'
  BY DEF CreateSuccessor
<1>2. /\ forebear' = Legacy(kind, tasks) /\ query' = [i \in QueryTasks |-> Absent]
      /\ metadata' = Absent /\ changed' = {} /\ doing' = FirstStep(kind)
      /\ rows' = rows /\ source' = source
  BY DEF CreateSuccessor
<1>3. RunType'
  BY <1>1 DEF LineageInv, RunType, CheckoutInv
<1>4. WorkInv'
  BY <1>2, AbsentFacts DEF WorkInv, TaskHolds, BatchHolds
<1>5. CheckoutInv'
  BY <1>1, <1>2 DEF LineageInv, CheckoutInv
<1>6. RowInv'
  <2>1. \A r \in rows : r.detector \in Nat /\ r.target \in Targets
    BY DEF LineageInv, RowInv, Rows
  <2>2. source.detector \in Nat /\ latest.source.detector \in Nat
    BY SourceFacts DEF LineageInv, RunType, CheckoutInv
  <2>3. CASE "scanner" \in changed
    <3>1. \A r \in rows : r.detector < source.detector
      BY <2>1, <2>2, <2>3 DEF LineageInv, CheckoutInv, RowInv
    <3> QED
      BY <1>1, <1>2, <2>1, <2>2, <3>1 DEF LineageInv, RowInv, ReusedVerdictsHold
  <2>4. CASE "scanner" \notin changed
    BY <1>1, <1>2, <2>4 DEF LineageInv, CheckoutInv, RowInv, ReusedVerdictsHold
  <2> QED
    BY <2>3, <2>4
<1>7. ASSUME NEW i \in QueryTasks
      PROVE  forebear'.query[i] \in Works /\ TaskHolds(i, forebear.query[i])'
  <2>1. forebear'.query[i] = IF i \in tasks /\ Certifiable(i, query[i])
                             THEN [query[i] EXCEPT !.tries = 0, !.inherited = 1] ELSE Absent
    BY <1>2 DEF Legacy
  <2>2. CASE i \in tasks /\ Certifiable(i, query[i])
    <3>1. query[i] \in Works /\ TaskHolds(i, query[i])
      BY DEF LineageInv, WorkInv
    <3>2. /\ forebear'.query[i] \in Works /\ forebear'.query[i].status = query[i].status
          /\ forebear'.query[i].made = query[i].made /\ forebear'.query[i].exact = query[i].exact
      BY <2>1, <2>2, <3>1, InheritedFacts
    <3>3. source.task = latest.source.task
      BY DEF LineageInv, CheckoutInv
    <3> QED
      BY <1>1, <2>2, <3>1, <3>2, <3>3 DEF TaskHolds, Certifiable
  <2>3. CASE ~(i \in tasks /\ Certifiable(i, query[i]))
    BY <2>1, <2>3, AbsentFacts DEF TaskHolds
  <2> QED
    BY <2>2, <2>3
<1>8. forebear'.metadata \in Works /\ BatchHolds(forebear.metadata)'
  <2>1. forebear'.metadata = IF kind \in Recoveries
                             THEN [metadata EXCEPT !.tries = 0, !.inherited = 1] ELSE Absent
    BY <1>2 DEF Legacy
  <2>2. CASE kind \in Recoveries
    <3>1. metadata \in Works /\ BatchHolds(metadata) /\ source.epoch = latest.source.epoch
      BY <2>2 DEF LineageInv, WorkInv, CheckoutInv
    <3>2. /\ forebear'.metadata \in Works /\ forebear'.metadata.status = metadata.status
          /\ forebear'.metadata.made = metadata.made
      BY <2>1, <2>2, <3>1, InheritedFacts
    <3> QED
      BY <1>1, <3>1, <3>2 DEF BatchHolds
  <2>3. CASE kind \notin Recoveries
    BY <2>1, <2>3, AbsentFacts DEF BatchHolds
  <2> QED
    BY <2>2, <2>3
<1>9. ASSUME kind = "checkpoint"
      PROVE  /\ forebear'.run.hop \in Nat /\ forebear'.run.hop < latest'.hop
             /\ \A t \in Completed(forebear)' : \A r \in ResultRows(forebear, t)' :
                   r.verdict = latest'.source.verdict[t]
  <2>1. forebear'.run = latest /\ forebear'.attempts = attempts
    BY <1>2, <1>9 DEF Legacy
  <2>2. forebear'.run.hop \in Nat /\ forebear'.run.hop < latest'.hop
    BY <1>1, <2>1 DEF LineageInv, RunType
  <2>3. ASSUME NEW t \in Completed(forebear)', NEW r \in ResultRows(forebear, t)'
        PROVE  r.verdict = latest'.source.verdict[t]
    <3>1. t \in Targets /\ t \in Completed(Current)
      BY <2>1, <2>3 DEF Completed, Current
    <3>2. r \in rows /\ r.target = t /\ r.at = latest.hop /\ r \in ResultRows(Current, t)
      BY <1>2, <2>1, <2>3 DEF ResultRows, Current
    <3>3. /\ r.detector = latest.source.detector
          /\ source.verdict[t] = latest.source.verdict[t]
      BY <1>9, <3>1, <3>2 DEF CheckpointIsCertified, CheckpointOfRows, SameReading, Current
    <3>4. r.verdict = latest.source.verdict[t]
      BY <3>2, <3>3 DEF LineageInv, RowInv, ReusedVerdictsHold
    <3> QED
      BY <1>1, <3>3, <3>4
  <2> QED
    BY <2>2, <2>3
<1>10. ForebearHolds'
  BY <1>1, <1>7, <1>8, <1>9 DEF ForebearHolds
<1>11. ForebearInv'
  BY <1>1, <1>2, <1>10 DEF ForebearInv, FirstStep
<1> QED
  BY <1>3, <1>4, <1>5, <1>6, <1>11 DEF LineageInv

LEMMA PreparedKeeps ==
  ASSUME LineageInv, PrepareScopeReduction \/ PrepareTransportPolicy \/ PrepareCohort
  PROVE  LineageInv'
<1>1. CASE PrepareScopeReduction
  BY <1>1, CreateKeeps DEF PrepareScopeReduction, ScopeAudit, Surfaces, Recoveries
<1>2. CASE PrepareTransportPolicy
  <2>1. "task" \notin changed
    BY <1>2 DEF PrepareTransportPolicy, TransportAudit, Surfaces
  <2>2. PICK history : CreateSuccessor("transport", latest.tasks, history, NoScans)
    BY <1>2 DEF PrepareTransportPolicy
  <2> QED
    BY <2>1, <2>2, CreateKeeps DEF Recoveries
<1>3. CASE PrepareCohort
  <2>1. PICK kind \in Cohorts :
          /\ MayPrepareCohort(Current, kind)
          /\ CreateSuccessor(kind, CertifiedCohort(Current),
                             ResidualCharge(Current, CertifiedCohort(Current), kind),
                             CombinedScans(Current))
    BY <1>3 DEF PrepareCohort
  <2>2. /\ "task" \notin changed /\ (kind \in Recoveries => "epoch" \notin changed)
        /\ kind = "checkpoint" => CheckpointIsCertified(Current)
    BY <2>1 DEF MayPrepareCohort, SourceAudit, TaskIsFrozen, EpochIsFrozen
  <2>3. \E tasks, history, past : CreateSuccessor(kind, tasks, history, past)
    BY <2>1
  <2> QED
    BY <2>2, <2>3, CreateKeeps
<1> QED
  BY <1>1, <1>2, <1>3

\* Steps that leave the results, the rows and the checkout alone.
LEMMA IdleKeeps ==
  ASSUME LineageInv,
         latest' = latest \/ latest' = [latest EXCEPT !.seeded = TRUE],
         UNCHANGED <<query, metadata, rows, changed, source>>,
         doing' = "idle", forebear' = forebear \/ forebear' = NoRun
  PROVE  LineageInv'
<1>1. /\ latest'.hop = latest.hop /\ latest'.kind = latest.kind
      /\ latest'.source = latest.source /\ DOMAIN latest' = DOMAIN latest
  BY DEF LineageInv, RunType
<1>2. RunType' /\ WorkInv' /\ CheckoutInv' /\ RowInv'
  BY <1>1 DEF LineageInv, RunType, WorkInv, TaskHolds, BatchHolds, CheckoutInv, RowInv,
     ReusedVerdictsHold
<1>3. ForebearInv'
  BY <1>1 DEF LineageInv, ForebearInv, ForebearHolds, TaskHolds, BatchHolds, Completed,
     ResultRows
<1> QED
  BY <1>2, <1>3 DEF LineageInv

\* Steps that change what a run works on, and neither the run nor the checkout.
LEMMA WorkKeeps ==
  ASSUME LineageInv, WorkInv', RowInv', ForebearInv',
         latest'.hop = latest.hop, latest'.source = latest.source, DOMAIN latest' = DOMAIN latest,
         UNCHANGED <<changed, source>>, doing' /= "idle" => changed \subseteq {"cli"}
  PROVE  LineageInv'
BY DEF LineageInv, RunType, CheckoutInv

\* Rows that are copied under the detectors of the successor have its verdicts.
LEMMA MaterializeKeeps ==
  ASSUME LineageInv, MaterializeRows PROVE LineageInv'
<1> DEFINE copied == UNION {ResultRows(forebear, t) : t \in Completed(forebear)}
           copy(r) == [r EXCEPT !.detector = source.detector]
<1>1. /\ rows' = rows \cup {copy(r) : r \in copied}
      /\ doing = "materializing" /\ doing' = "enqueuing"
      /\ UNCHANGED <<latest, query, metadata, attempts, forebear, changed, source>>
  BY DEF MaterializeRows
<1>2. ForebearHolds /\ latest.kind = "checkpoint"
      /\ source.detector = latest.source.detector /\ source.detector \in Nat
  <2>1. "scanner" \notin changed
    BY <1>1 DEF LineageInv, CheckoutInv
  <2> QED
    BY <1>1, <2>1, SourceFacts DEF LineageInv, ForebearInv, CheckoutInv
<1>3. ASSUME NEW r \in copied
      PROVE  /\ copy(r) \in Rows /\ copy(r).detector = source.detector
             /\ copy(r).target = r.target /\ copy(r).at = r.at /\ copy(r).verdict = r.verdict
             /\ r.verdict = latest.source.verdict[r.target]
  <2>1. r \in rows /\ \E t \in Completed(forebear) : r \in ResultRows(forebear, t) /\ r.target = t
    BY <1>3 DEF ResultRows
  <2>2. r \in Rows
    BY <2>1 DEF LineageInv, RowInv
  <2> QED
    BY <1>2, <2>1, <2>2 DEF Rows, ForebearHolds
<1>4. \A q \in rows' : q \in rows \/ \E r \in copied : q = copy(r)
  BY <1>1
<1> HIDE DEF copied, copy
<1>5. RowInv'
  <2>1. rows' \subseteq Rows
    BY <1>3, <1>4 DEF LineageInv, RowInv
  <2>2. \A q \in rows' : q.detector =< latest.source.detector
    BY <1>2, <1>3, <1>4 DEF LineageInv, RowInv
  <2>3. \A q \in rows' : q.detector = latest.source.detector =>
            q.verdict = latest.source.verdict[q.target]
    BY <1>3, <1>4 DEF LineageInv, RowInv, ReusedVerdictsHold
  <2> QED
    BY <1>1, <2>1, <2>2, <2>3 DEF RowInv, ReusedVerdictsHold
<1>6. ForebearHolds'
  <2>1. ASSUME NEW t \in Completed(forebear), NEW q \in rows', q.target = t,
               q.at = forebear.run.hop
        PROVE  q.verdict = latest.source.verdict[t]
    BY <1>2, <1>3, <1>4, <2>1 DEF ForebearHolds, ResultRows
  <2> QED
    BY <1>1, <1>2, <2>1 DEF ForebearHolds, TaskHolds, BatchHolds, Completed, ResultRows
<1>7. WorkInv' /\ ForebearInv'
  BY <1>1, <1>6 DEF LineageInv, WorkInv, TaskHolds, BatchHolds, ForebearInv
<1> QED
  BY <1>1, <1>5, <1>7, WorkKeeps DEF LineageInv, CheckoutInv

\* The tasks of the newest run after one of its steps.
LEMMA TasksKeep ==
  ASSUME LineageInv, query' \in [QueryTasks -> Works], metadata' \in Works,
         \A i \in QueryTasks : TaskHolds(i, query'[i]), BatchHolds(metadata'),
         UNCHANGED <<rows, forebear, changed, source>>,
         latest' = latest \/ \E early \in BOOLEAN : latest' = [latest EXCEPT !.early = early],
         doing' \in {doing, "discovering", "scanning"}
           \/ (doing = "enqueuing" /\ doing' = "inheriting"),
         doing' /= "idle" => changed \subseteq {"cli"}
  PROVE  LineageInv'
<1>1. /\ latest'.hop = latest.hop /\ latest'.kind = latest.kind
      /\ latest'.source = latest.source /\ DOMAIN latest' = DOMAIN latest
  BY DEF LineageInv, RunType
<1>2. WorkInv' /\ RowInv'
  BY <1>1 DEF LineageInv, WorkInv, TaskHolds, BatchHolds, RowInv, ReusedVerdictsHold
<1>3. ForebearInv'
  BY <1>1 DEF LineageInv, ForebearInv, ForebearHolds, TaskHolds, BatchHolds, Completed,
     ResultRows
<1> QED
  BY <1>1, <1>2, <1>3, WorkKeeps

LEMMA StatusFacts ==
  ASSUME NEW task \in Works, NEW status \in {"absent", "pending", "complete", "failed"},
         NEW next, next = [task EXCEPT !.status = status]
  PROVE  /\ next \in Works /\ next.status = status /\ next.inherited = task.inherited
         /\ next.made = task.made /\ next.exact = task.exact
  BY DEF Works

\* A task after one more attempt, and after an answer.
Tried(task, made) == [task EXCEPT !.tries = @ + 1, !.made = made]
Answered(task, exact) == [task EXCEPT !.status = "complete", !.exact = exact]

LEMMA TriedFacts ==
  ASSUME NEW task \in Works, NEW made \in Nat
  PROVE  /\ Tried(task, made) \in Works /\ Tried(task, made).status = task.status
         /\ Tried(task, made).made = made /\ Tried(task, made).inherited = task.inherited
<1>0. PICK next : next = Tried(task, made)
  OBVIOUS
<1>1. /\ next.status = task.status /\ next.tries = task.tries + 1 /\ next.made = made
      /\ next.inherited = task.inherited /\ next.exact = task.exact
  BY <1>0 DEF Works, Tried
<1>2. next = [status |-> next.status, tries |-> next.tries, inherited |-> next.inherited,
              exact |-> next.exact, made |-> next.made]
  BY <1>0 DEF Works, Tried
<1> QED
  BY <1>0, <1>1, <1>2 DEF Works

LEMMA AnsweredFacts ==
  ASSUME NEW task \in Works, NEW exact \in BOOLEAN
  PROVE  /\ Answered(task, exact) \in Works /\ Answered(task, exact).made = task.made
         /\ Answered(task, exact).inherited = task.inherited
<1>0. PICK next : next = Answered(task, exact)
  OBVIOUS
<1>1. /\ next.status = "complete" /\ next.tries = task.tries /\ next.made = task.made
      /\ next.inherited = task.inherited /\ next.exact = exact
  BY <1>0 DEF Works, Answered
<1>2. next = [status |-> next.status, tries |-> next.tries, inherited |-> next.inherited,
              exact |-> next.exact, made |-> next.made]
  BY <1>0 DEF Works, Answered
<1> QED
  BY <1>0, <1>1, <1>2 DEF Works

LEMMA EnqueuedFacts ==
  ASSUME LineageInv
  PROVE  Enqueued \in [QueryTasks -> Works] /\ \A i \in QueryTasks : TaskHolds(i, Enqueued[i])
<1>1. ASSUME NEW i \in QueryTasks PROVE Enqueued[i] \in Works /\ TaskHolds(i, Enqueued[i])
  <2>1. query[i] \in Works /\ TaskHolds(i, query[i])
    BY DEF LineageInv, WorkInv
  <2>2. CASE i \in latest.tasks /\ query[i].status = "absent"
    <3>1. Enqueued[i] = [query[i] EXCEPT !.status = "pending"]
      BY <2>2 DEF Enqueued
    <3> QED
      BY <2>1, <2>2, <3>1, StatusFacts DEF TaskHolds
  <2>3. CASE ~(i \in latest.tasks /\ query[i].status = "absent")
    BY <2>1, <2>3 DEF Enqueued
  <2> QED
    BY <2>2, <2>3
<1> QED
  BY <1>1 DEF Enqueued

LEMMA InheritKeeps ==
  ASSUME LineageInv, InheritTask PROVE LineageInv'
<1>1. PICK j : query' = [query EXCEPT ![j] = forebear.query[j]]
  BY DEF InheritTask
<1>2. /\ ForebearHolds /\ doing = "inheriting"
      /\ UNCHANGED <<latest, metadata, rows, forebear, doing, changed, source>>
  BY DEF LineageInv, ForebearInv, InheritTask
<1>3. ASSUME NEW i \in QueryTasks PROVE query'[i] \in Works /\ TaskHolds(i, query'[i])
  <2>1. query'[i] = query[i] \/ query'[i] = forebear.query[i]
    BY <1>1 DEF LineageInv, WorkInv
  <2> QED
    BY <1>2, <2>1 DEF LineageInv, WorkInv, ForebearHolds
<1>4. query' \in [QueryTasks -> Works]
  BY <1>1, <1>3 DEF LineageInv, WorkInv
<1>5. WorkInv' /\ RowInv' /\ ForebearInv'
  BY <1>2, <1>3, <1>4 DEF LineageInv, WorkInv, RowInv, ReusedVerdictsHold, ForebearInv,
     ForebearHolds, TaskHolds, BatchHolds, Completed, ResultRows
<1> QED
  BY <1>2, <1>5, WorkKeeps DEF LineageInv, CheckoutInv

LEMMA InheritMetadataKeeps ==
  ASSUME LineageInv, InheritMetadata PROVE LineageInv'
<1>1. /\ ForebearHolds /\ doing = "inheriting" /\ metadata' = forebear.metadata
      /\ UNCHANGED <<latest, query, rows, forebear, doing, changed, source>>
  BY DEF LineageInv, ForebearInv, InheritMetadata
<1>2. WorkInv'
  BY <1>1 DEF LineageInv, WorkInv, ForebearHolds, TaskHolds, BatchHolds
<1>3. RowInv' /\ ForebearInv'
  BY <1>1 DEF LineageInv, RowInv, ReusedVerdictsHold, ForebearInv, ForebearHolds, TaskHolds,
     BatchHolds, Completed, ResultRows
<1> QED
  BY <1>1, <1>2, <1>3, WorkKeeps DEF LineageInv, CheckoutInv

LEMMA PreparationKeeps ==
  ASSUME LineageInv, Prepare PROVE LineageInv'
<1>1. CASE RetryPreparation
  <2>1. /\ ForebearHolds /\ changed = {} /\ doing' = FirstStep(latest.kind)
        /\ UNCHANGED <<latest, query, metadata, rows, forebear, changed, source>>
    BY <1>1 DEF RetryPreparation, LineageInv, ForebearInv
  <2>2. WorkInv' /\ RowInv'
    BY <2>1 DEF LineageInv, WorkInv, RowInv, ReusedVerdictsHold, TaskHolds, BatchHolds
  <2>3. ForebearInv'
    BY <2>1 DEF ForebearInv, ForebearHolds, TaskHolds, BatchHolds, Completed, ResultRows,
       FirstStep
  <2> QED
    BY <2>1, <2>2, <2>3, WorkKeeps
<1>2. CASE EnqueueInherited
  <2>1. /\ doing = "enqueuing" /\ doing' = "inheriting" /\ query' = Enqueued
        /\ UNCHANGED <<latest, metadata, rows, forebear, changed, source>>
    BY <1>2 DEF EnqueueInherited
  <2>2. changed \subseteq {"cli"} /\ metadata \in Works /\ BatchHolds(metadata)
    BY <2>1 DEF LineageInv, CheckoutInv, WorkInv
  <2> QED
    BY <2>1, <2>2, EnqueuedFacts, TasksKeep
<1>3. CASE FinishPreparation
  BY <1>3, IdleKeeps DEF FinishPreparation
<1> QED
  BY <1>1, <1>2, <1>3, PreparedKeeps, MaterializeKeeps, InheritKeeps, InheritMetadataKeeps
  DEF Prepare

LEMMA StartRunKeeps ==
  ASSUME LineageInv, StartRun PROVE LineageInv'
<1>1. /\ query' = Enqueued /\ doing' = "discovering" /\ changed \subseteq {"cli"}
      /\ UNCHANGED <<metadata, rows, forebear, changed, source>>
  BY DEF StartRun, Resumable
<1>2. \E early \in BOOLEAN : latest' = [latest EXCEPT !.early = early]
  <2>1. latest' = [latest EXCEPT !.early = latest.early \/ (latest.kind \in Cohorts /\ ~latest.seeded)]
    BY DEF StartRun
  <2> QED
    BY <2>1
<1>3. metadata \in Works /\ BatchHolds(metadata)
  BY DEF LineageInv, WorkInv
<1> QED
  BY <1>1, <1>2, <1>3, EnqueuedFacts, TasksKeep

LEMMA DiscoverKeeps ==
  ASSUME LineageInv, Discover PROVE LineageInv'
<1>1. /\ doing = "discovering" /\ doing' = doing /\ changed \subseteq {"cli"}
      /\ UNCHANGED <<latest, metadata, rows, forebear, changed, source>>
  BY DEF Discover, LineageInv, CheckoutInv
<1>2. PICK j, next :
        /\ query[j].status = "pending" /\ query' = [query EXCEPT ![j] = next]
        /\ LET tried == [query[j] EXCEPT !.tries = @ + 1, !.made = source.task]
           IN  \/ \E exact \in BOOLEAN :
                      next = [tried EXCEPT !.status = "complete", !.exact = exact /\ Required(j)]
               \/ next = tried
               \/ next = [tried EXCEPT !.status = "failed"]
  BY DEF Discover
<1>3. ASSUME j \in QueryTasks PROVE next \in Works /\ TaskHolds(j, next)
  <2>1. query[j] \in Works /\ TaskHolds(j, query[j]) /\ source.task \in Nat
        /\ source.task = latest.source.task
    BY <1>1, <1>3, SourceFacts DEF LineageInv, WorkInv, CheckoutInv
  <2> DEFINE tried == Tried(query[j], source.task)
  <2>2. \/ \E exact \in BOOLEAN : next = Answered(tried, exact)
        \/ next = tried \/ next = [tried EXCEPT !.status = "failed"]
    <3>1. \A exact \in BOOLEAN : (exact /\ Required(j)) \in BOOLEAN
      OBVIOUS
    <3> QED
      BY <1>2, <3>1 DEF Tried, Answered
  <2>3. /\ tried \in Works /\ tried.made = source.task /\ tried.inherited = 0
        /\ tried.status = "pending"
    BY <1>2, <2>1, TriedFacts DEF TaskHolds
  <2> HIDE DEF tried
  <2>4. CASE \E exact \in BOOLEAN : next = Answered(tried, exact)
    BY <2>1, <2>3, <2>4, AnsweredFacts DEF TaskHolds
  <2>5. CASE next = tried
    BY <2>1, <2>3, <2>5 DEF TaskHolds
  <2>6. CASE next = [tried EXCEPT !.status = "failed"]
    <3>1. next \in Works /\ next.status = "failed"
      BY <2>3, <2>6, StatusFacts
    <3> QED
      BY <3>1 DEF TaskHolds
  <2> QED
    BY <2>2, <2>4, <2>5, <2>6
<1>4. query' \in [QueryTasks -> Works] /\ \A i \in QueryTasks : TaskHolds(i, query'[i])
  BY <1>2, <1>3 DEF LineageInv, WorkInv
<1>5. metadata' \in Works /\ BatchHolds(metadata')
  BY <1>1 DEF LineageInv, WorkInv
<1> QED
  BY <1>1, <1>4, <1>5, TasksKeep

LEMMA ResolveKeeps ==
  ASSUME LineageInv, ResolveMetadata PROVE LineageInv'
<1>1. /\ doing = "discovering" /\ doing' \in {doing, "scanning"} /\ changed \subseteq {"cli"}
      /\ UNCHANGED <<latest, query, rows, forebear, changed, source>>
  BY DEF ResolveMetadata, LineageInv, CheckoutInv
<1>2. metadata' \in Works /\ BatchHolds(metadata')
  <2>1. metadata \in Works /\ BatchHolds(metadata) /\ source.epoch \in Nat
        /\ source.epoch = latest.source.epoch
    BY <1>1, SourceFacts DEF LineageInv, WorkInv, CheckoutInv
  <2>2. \/ metadata' = metadata
        \/ \E status \in {"pending", "complete"} :
              metadata' = [metadata EXCEPT !.status = status, !.tries = @ + 1,
                                           !.made = source.epoch]
    BY DEF ResolveMetadata
  <2>3. ASSUME NEW status \in {"pending", "complete"},
               metadata' = [metadata EXCEPT !.status = status, !.tries = @ + 1,
                                            !.made = source.epoch]
        PROVE  metadata' \in Works /\ metadata'.made = source.epoch
    <3>1. /\ metadata'.status = status /\ metadata'.tries = metadata.tries + 1
          /\ metadata'.made = source.epoch /\ metadata'.inherited = metadata.inherited
          /\ metadata'.exact = metadata.exact
      BY <2>1, <2>3 DEF Works
    <3>2. metadata' = [status |-> metadata'.status, tries |-> metadata'.tries,
                       inherited |-> metadata'.inherited, exact |-> metadata'.exact,
                       made |-> metadata'.made]
      BY <2>1, <2>3 DEF Works
    <3> QED
      BY <2>1, <3>1, <3>2 DEF Works
  <2> QED
    BY <1>1, <2>1, <2>2, <2>3 DEF BatchHolds
<1>3. query' \in [QueryTasks -> Works] /\ \A i \in QueryTasks : TaskHolds(i, query'[i])
  BY <1>1 DEF LineageInv, WorkInv
<1> QED
  BY <1>1, <1>2, <1>3, TasksKeep

LEMMA FinishScanKeeps ==
  ASSUME LineageInv, FinishScan PROVE LineageInv'
<1>1. /\ doing = "scanning" /\ doing' = doing
      /\ UNCHANGED <<latest, query, metadata, forebear, changed, source>>
  BY DEF FinishScan
<1>2. source.detector = latest.source.detector /\ source.verdict = latest.source.verdict
      /\ latest.source.detector \in Nat /\ latest.source.verdict \in [Targets -> Nat]
      /\ latest.hop \in Nat
  BY <1>1, SourceFacts DEF LineageInv, CheckoutInv, RunType
<1>3. \/ rows' = rows
      \/ \E t \in Targets :
            rows' = rows \cup {[target |-> t, detector |-> source.detector,
                               verdict |-> source.verdict[t], at |-> latest.hop]}
  BY DEF FinishScan, RunningScans
<1>4. ASSUME NEW r \in rows', r \notin rows
      PROVE  /\ r \in Rows /\ r.detector = latest.source.detector /\ r.at = latest.hop
             /\ r.verdict = latest.source.verdict[r.target]
  BY <1>2, <1>3, <1>4 DEF Rows
<1>5. RowInv'
  <2>1. rows' \subseteq Rows /\ \A r \in rows' : r.detector =< latest.source.detector
    BY <1>2, <1>4 DEF LineageInv, RowInv
  <2>2. \A r \in rows' : r.detector = latest.source.detector =>
            r.verdict = latest.source.verdict[r.target]
    BY <1>4 DEF LineageInv, RowInv, ReusedVerdictsHold
  <2> QED
    BY <1>1, <2>1, <2>2 DEF RowInv, ReusedVerdictsHold
<1>6. ASSUME ForebearHolds PROVE ForebearHolds'
  <2>1. ASSUME latest.kind = "checkpoint", NEW t \in Completed(forebear), NEW r \in rows',
               r.target = t, r.at = forebear.run.hop
        PROVE  r.verdict = latest.source.verdict[t]
    BY <1>2, <1>4, <1>6, <2>1 DEF ForebearHolds, ResultRows
  <2> QED
    BY <1>1, <1>6, <2>1 DEF ForebearHolds, TaskHolds, BatchHolds, Completed, ResultRows
<1>7. WorkInv' /\ ForebearInv'
  BY <1>1, <1>6 DEF LineageInv, WorkInv, ForebearInv, TaskHolds, BatchHolds
<1> QED
  BY <1>1, <1>5, <1>7, WorkKeeps DEF LineageInv, CheckoutInv

LEMMA AbandonKeeps ==
  ASSUME LineageInv, AbandonLatest PROVE LineageInv'
<1>1. /\ latest' = [latest EXCEPT !.open = FALSE] /\ metadata' = Unfinished(metadata)
      /\ query' = [i \in QueryTasks |-> Unfinished(query[i])] /\ forebear' = NoRun
      /\ doing = "idle" /\ UNCHANGED <<rows, doing, changed, source>>
  BY DEF AbandonLatest
<1>2. /\ latest'.hop = latest.hop /\ latest'.source = latest.source
      /\ DOMAIN latest' = DOMAIN latest
  BY <1>1 DEF LineageInv, RunType
<1>3. ASSUME NEW task \in Works
      PROVE  /\ Unfinished(task) \in Works
             /\ \A i : TaskHolds(i, task) => TaskHolds(i, Unfinished(task))
             /\ BatchHolds(task) => BatchHolds(Unfinished(task))
  <2>1. CASE task.status = "pending"
    <3>1. Unfinished(task) = [task EXCEPT !.status = "failed"]
      BY <2>1 DEF Unfinished
    <3>2. Unfinished(task) \in Works /\ Unfinished(task).status = "failed"
      BY <3>1, StatusFacts
    <3> QED
      BY <3>2 DEF TaskHolds, BatchHolds
  <2>2. CASE task.status /= "pending"
    BY <2>2 DEF Unfinished
  <2> QED
    BY <2>1, <2>2
<1>4. /\ query' \in [QueryTasks -> Works] /\ metadata' \in Works
      /\ \A i \in QueryTasks : TaskHolds(i, query'[i])
      /\ BatchHolds(metadata')
  BY <1>1, <1>3 DEF LineageInv, WorkInv
<1>5. WorkInv' /\ RowInv' /\ ForebearInv'
  BY <1>1, <1>2, <1>4 DEF LineageInv, WorkInv, TaskHolds, BatchHolds, RowInv,
     ReusedVerdictsHold, ForebearInv
<1> QED
  BY <1>1, <1>2, <1>5, WorkKeeps

LEMMA DeployKeeps ==
  ASSUME LineageInv, DeployRepair PROVE LineageInv'
<1>1. PICK repair \in Repairs, disputed \in SUBSET Targets :
        /\ "scanner" \notin repair => disputed = {}
        /\ changed' = repair
        /\ source' = [task |-> IF "task" \in repair THEN source.task + 1 ELSE source.task,
                      epoch |-> IF "epoch" \in repair THEN source.epoch + 1 ELSE source.epoch,
                      detector |-> IF "scanner" \in repair THEN source.detector + 1
                                   ELSE source.detector,
                      verdict |-> [t \in Targets |-> IF t \in disputed
                                                     THEN source.verdict[t] + 1
                                                     ELSE source.verdict[t]]]
  BY DEF DeployRepair
<1>2. /\ doing = "idle" /\ changed = {}
      /\ UNCHANGED <<latest, query, metadata, rows, forebear, doing>>
  BY DEF DeployRepair
<1>3. /\ source.task \in Nat /\ source.epoch \in Nat /\ source.detector \in Nat
      /\ source.verdict \in [Targets -> Nat]
      /\ source.task = latest.source.task /\ source.epoch = latest.source.epoch
      /\ source.detector = latest.source.detector /\ source.verdict = latest.source.verdict
  BY <1>2, SourceFacts DEF LineageInv, CheckoutInv
<1>4. source' \in Sources
  BY <1>1, <1>3 DEF Sources
<1>5. "scanner" \notin repair => source'.verdict = source.verdict
  BY <1>1, <1>3
<1>6. CheckoutInv'
  BY <1>1, <1>2, <1>3, <1>4, <1>5 DEF CheckoutInv
<1>7. RunType' /\ WorkInv' /\ RowInv' /\ ForebearInv'
  BY <1>2 DEF LineageInv, RunType, WorkInv, RowInv, ReusedVerdictsHold, ForebearInv,
     ForebearHolds, TaskHolds, BatchHolds, Completed, ResultRows
<1> QED
  BY <1>6, <1>7 DEF LineageInv

LEMMA LineageStarts == LineageInit => LineageInv
<1> SUFFICES ASSUME LineageInit PROVE LineageInv
  OBVIOUS
<1>1. source \in Sources
  BY DEF LineageInit, Sources
<1>2. RunType /\ latest.source = source /\ latest.kind = "first"
  BY <1>1 DEF LineageInit, RunType
<1>3. WorkInv
  BY AbsentFacts DEF LineageInit, WorkInv, TaskHolds, BatchHolds
<1>4. CheckoutInv
  BY <1>1, <1>2, SourceFacts DEF LineageInit, CheckoutInv
<1>5. RowInv
  BY DEF LineageInit, RowInv, ReusedVerdictsHold
<1>6. ForebearInv
  BY DEF LineageInit, ForebearInv
<1> QED
  BY <1>2, <1>3, <1>4, <1>5, <1>6 DEF LineageInv

\* The invariant is inductive.
LEMMA LineageStep == LineageInv /\ [LineageNext]_lineageVars => LineageInv'
<1> SUFFICES ASSUME LineageInv, [LineageNext]_lineageVars PROVE LineageInv'
  OBVIOUS
<1>1. CASE UNCHANGED <<latest, query, metadata, rows, forebear, changed, source, doing>>
  BY <1>1 DEF LineageInv, RunType, CheckoutInv, WorkInv, RowInv, ReusedVerdictsHold, ForebearInv,
     ForebearHolds, TaskHolds, BatchHolds, Completed, ResultRows
<1>2. CASE Interrupt
  BY <1>2, IdleKeeps DEF Interrupt
<1>3. CASE DispatchScan
  BY <1>1, <1>3 DEF DispatchScan
<1> QED
  BY <1>1, <1>2, <1>3, PreparationKeeps, StartRunKeeps, DiscoverKeeps, ResolveKeeps,
     FinishScanKeeps, AbandonKeeps, DeployKeeps
  DEF LineageNext, Reconcile, lineageVars

LEMMA LineageStays == LineageSpec => []LineageInv
  BY LineageStarts, LineageStep, PTL DEF LineageSpec

\* No successor works on a result its source would not have produced: whatever repairs
\* followed each other, whichever preparations were cut short and retried, a completed
\* discovery task or metadata batch of the newest run is one its own source executes the
\* same way.  For any number of tasks, targets, repairs and successors.
THEOREM InheritanceIsCertified == LineageSpec => []InheritedIsCertified
<1>1. ASSUME LineageInv PROVE InheritedIsCertified
  BY <1>1 DEF LineageInv, WorkInv, TaskHolds, BatchHolds, InheritedIsCertified
<1> QED
  BY <1>1, LineageStays, PTL

\* No verdict that is read under the detectors of the newest run differs from what they say,
\* however rows were copied from run to run.
THEOREM ReusedVerdictsAlwaysHold == LineageSpec => []ReusedVerdictsHold
<1>1. ASSUME LineageInv PROVE ReusedVerdictsHold
  BY <1>1 DEF LineageInv, RowInv
<1> QED
  BY <1>1, LineageStays, PTL

--------------------------------------------------------------------------------
(* What the lineage answers for.  A cohort successor starts with the charge its     *)
(* predecessor left minus what it is to inherit, and takes that over one by one:     *)
(* the invariant counts what is still to come (Awaited) as charged.                 *)

\* Tasks of a source.
AskedOf(s) == {i \in QueryTasks : Queries[i].source = s}

\* A cohort successor answers for a result it is to inherit before it has it.
Awaited(i) ==
    IF latest.kind \in Cohorts /\ i \in latest.tasks /\ query[i].inherited = 0 THEN 1 ELSE 0
AwaitedBatch == IF latest.kind \in Recoveries /\ metadata.inherited = 0 THEN 1 ELSE 0

\* The charge of the newest run, and of what it is to inherit.
Owed == [i \in QueryTasks |-> ChargeOf(query[i]) + Awaited(i)]
AnswersFor(s) ==
    latest.history[s] + IF s = "graphql" THEN ChargeOf(metadata) + AwaitedBatch
                        ELSE SumFunctionOnSet(Owed, AskedOf(s))

\* Scans of a target that were dispatched by the newest run.
Attempts == [status : {"none", "running", "complete"}, exact : Nat, unknown : Nat]
Scans == [t \in Targets |-> attempts[t].exact + attempts[t].unknown
                               + IF attempts[t].status = "running" THEN 1 ELSE 0]

\* What is counted are numbers.
BudgetType ==
    /\ {"hop", "kind", "open", "tasks", "history", "past", "seeded", "early", "ledger"}
           \subseteq DOMAIN latest
    /\ latest.tasks \subseteq QueryTasks
    /\ latest.seeded \in BOOLEAN /\ latest.early \in BOOLEAN
    /\ latest.history \in [Services -> Int] /\ sent \in [Services -> Int]
    /\ latest.past.exact \in Nat /\ latest.past.unknown \in Nat /\ dispatched \in Int
    /\ attempts \in [Targets -> Attempts]

\* Somebody prepares the newest run.
Preparing == {"materializing", "enqueuing", "inheriting"}

\* What a successor takes was charged once: every task of a cohort, whatever ended of others.
HeirsInv ==
    doing \in Preparing \/ forebear /= NoRun =>
        /\ \A i \in QueryTasks :
              forebear.query[i].status /= "absent" \/ (latest.kind \in Cohorts /\ i \in latest.tasks)
                 => forebear.query[i].tries = 0 /\ forebear.query[i].inherited = 1
        /\ latest.kind \in Recoveries =>
              forebear.metadata.tries = 0 /\ forebear.metadata.inherited = 1

\* The newest run answers for no more than was sent, and for all of it unless a run of the
\* lineage went on without what it was to inherit.
RequestsInv ==
    /\ \A s \in Services :
          /\ AnswersFor(s) =< sent[s]
          /\ latest.kind \notin Cohorts \/ ~latest.early => AnswersFor(s) = sent[s]
    /\ latest.seeded =>
          /\ \A i \in QueryTasks : Awaited(i) = 0
          /\ AwaitedBatch = 0

\* Every dispatch was counted by a predecessor or is in the ledger of the newest run, whose
\* scans run under its coordinator alone.
ScansInv ==
    /\ latest.past.exact + latest.past.unknown + SumFunctionOnSet(Scans, Targets)
           = dispatched
    /\ doing /= "scanning" => RunningScans = {}

ChargeInv == BudgetType /\ HeirsInv /\ RequestsInv /\ ScansInv

LEMMA AskedFacts == ASSUME NEW s PROVE AskedOf(s) \subseteq QueryTasks /\ IsFiniteSet(AskedOf(s))
<1>1. AskedOf(s) \subseteq QueryTasks
  BY DEF AskedOf
<1> QED
  BY <1>1, QueriesAssumption, FS_Subset

LEMMA OwedFacts ==
  ASSUME LineageInv
  PROVE  /\ \A i \in QueryTasks :
               /\ Owed[i] = ChargeOf(query[i]) + Awaited(i)
               /\ ChargeOf(query[i]) \in Nat /\ Awaited(i) \in {0, 1} /\ Owed[i] \in Nat
         /\ ChargeOf(metadata) \in Nat /\ AwaitedBatch \in {0, 1}
<1>1. \A task \in Works : ChargeOf(task) \in Nat
  BY DEF Works, ChargeOf
<1>2. \A i : Awaited(i) \in {0, 1}
  BY DEF Awaited
<1>3. \A i \in QueryTasks : query[i] \in Works
  BY DEF LineageInv, WorkInv
<1>4. metadata \in Works /\ AwaitedBatch \in {0, 1}
  BY DEF LineageInv, WorkInv, AwaitedBatch
<1>5. \A i \in QueryTasks : Owed[i] = ChargeOf(query[i]) + Awaited(i)
  BY DEF Owed
<1> QED
  BY <1>1, <1>2, <1>3, <1>4, <1>5

\* What the newest run spent, what it will inherit and what it answers for altogether.
LEMMA AnswersFacts ==
  ASSUME LineageInv, BudgetType, NEW s \in Services
  PROVE  /\ Charged(s) \in Int /\ AnswersFor(s) \in Int /\ Charged(s) =< AnswersFor(s)
         /\ (\A i \in QueryTasks : Awaited(i) = 0) /\ AwaitedBatch = 0 =>
                Charged(s) = AnswersFor(s)
<1> DEFINE f == [i \in QueryTasks |-> ChargeOf(query[i])]
           g == [i \in QueryTasks |-> Awaited(i)]
           S == AskedOf(s)
<1>1. latest.history[s] \in Int
  BY DEF BudgetType
<1>2. CASE s = "graphql"
  <2>1. /\ Charged(s) = latest.history[s] + ChargeOf(metadata)
        /\ AnswersFor(s) = latest.history[s] + (ChargeOf(metadata) + AwaitedBatch)
    BY <1>2 DEF Charged, ChargedOf, Current, AnswersFor
  <2> QED
    BY <1>1, <2>1, OwedFacts
<1>3. CASE s /= "graphql"
  <2>1. /\ Charged(s) = latest.history[s] + SumFunctionOnSet(f, S)
        /\ AnswersFor(s) = latest.history[s] + SumFunctionOnSet(Owed, S)
    BY <1>3 DEF Charged, ChargedOf, Current, AnswersFor, AskedOf
  <2>2. S \subseteq QueryTasks /\ IsFiniteSet(S)
    BY AskedFacts
  <2>3. \A i \in QueryTasks : f[i] \in Nat /\ g[i] \in Nat /\ Owed[i] = f[i] + g[i] /\ Owed[i] \in Nat
    BY OwedFacts
  <2>4. (\A i \in QueryTasks : Awaited(i) = 0) => \A i \in QueryTasks : g[i] = 0
    OBVIOUS
  <2> HIDE DEF f, g, S
  <2>5. SumFunctionOnSet(Owed, S) = SumFunctionOnSet(f, S) + SumFunctionOnSet(g, S)
    BY <2>2, <2>3, SumOfBoth
  <2>6. SumFunctionOnSet(f, S) \in Nat /\ SumFunctionOnSet(g, S) \in Nat
    BY <2>2, <2>3, SumIsNat
  <2>7. (\A i \in QueryTasks : g[i] = 0) => SumFunctionOnSet(g, S) = 0
    BY <2>2, SumOfZeros
  <2> QED
    BY <1>1, <2>1, <2>4, <2>5, <2>6, <2>7
<1> QED
  BY <1>2, <1>3

\* One task of the newest run becomes another: what is answered for changes with it.
LEMMA AnswersMove ==
  ASSUME LineageInv, LineageInv', BudgetType, NEW j \in QueryTasks,
         \A i \in QueryTasks \ {j} : Owed'[i] = Owed[i],
         latest'.history = latest.history,
         ChargeOf(metadata)' + AwaitedBatch' = ChargeOf(metadata) + AwaitedBatch
  PROVE  \A s \in Services :
            /\ AnswersFor(s) \in Int
            /\ AnswersFor(s)' = AnswersFor(s) +
                  (IF s = Queries[j].source THEN Owed'[j] - Owed[j] ELSE 0)
<1> SUFFICES ASSUME NEW s \in Services
             PROVE  /\ AnswersFor(s) \in Int
                    /\ AnswersFor(s)' = AnswersFor(s) +
                          (IF s = Queries[j].source THEN Owed'[j] - Owed[j] ELSE 0)
  OBVIOUS
<1>0. \A i \in QueryTasks : Owed[i] \in Nat /\ Owed'[i] \in Nat
  <2>1. ASSUME NEW i \in QueryTasks PROVE Owed'[i] \in Nat
    <3>1. query'[i] \in Works
      BY DEF LineageInv, WorkInv
    <3>2. query'[i].tries \in Nat /\ query'[i].inherited \in Nat
      BY <3>1 DEF Works
    <3>3. Awaited(i)' \in {0, 1}
      BY DEF Awaited
    <3> QED
      BY <3>2, <3>3 DEF Owed, ChargeOf
  <2> QED
    BY <2>1, OwedFacts
<1>1. latest.history[s] \in Int /\ AnswersFor(s) \in Int
  BY AnswersFacts DEF BudgetType
<1>2. CASE s = "graphql"
  BY <1>1, <1>2, QueriesAssumption DEF AnswersFor
<1>3. CASE s /= "graphql"
  <2> DEFINE S == AskedOf(s)
  <2>1. /\ AnswersFor(s) = latest.history[s] + SumFunctionOnSet(Owed, S)
        /\ AnswersFor(s)' = latest.history[s] + SumFunctionOnSet(Owed', S)
    BY <1>3 DEF AnswersFor, AskedOf
  <2>2. S \subseteq QueryTasks /\ IsFiniteSet(S)
    BY AskedFacts
  <2>3. j \in S <=> s = Queries[j].source
    BY DEF AskedOf
  <2> HIDE DEF S
  <2>4. PICK h : h = Owed'
    OBVIOUS
  <2>5. PICK f : f = Owed
    OBVIOUS
  <2>6. /\ SumFunctionOnSet(h, S)
             = SumFunctionOnSet(f, S) + (IF j \in S THEN h[j] - f[j] ELSE 0)
        /\ SumFunctionOnSet(f, S) \in Nat
    BY <1>0, <2>2, <2>4, <2>5, SumMoves
  <2> QED
    BY <1>0, <1>1, <2>1, <2>3, <2>4, <2>5, <2>6
<1> QED
  BY <1>2, <1>3

\* Steps that neither request nor inherit anything.
LEMMA RequestsStand ==
  ASSUME LineageInv, LineageInv', BudgetType, BudgetType', RequestsInv,
         latest'.history = latest.history, latest'.kind = latest.kind,
         latest'.tasks = latest.tasks,
         latest.early => latest'.early, latest'.seeded => latest.seeded,
         sent' = sent,
         \A i \in QueryTasks : /\ query'[i].tries = query[i].tries
                               /\ query'[i].inherited = query[i].inherited,
         metadata'.tries = metadata.tries, metadata'.inherited = metadata.inherited
  PROVE  RequestsInv'
<1>1. \A i \in QueryTasks : Awaited(i)' = Awaited(i) /\ Owed'[i] = Owed[i]
  BY DEF Awaited, Owed, ChargeOf
<1>2. ChargeOf(metadata)' = ChargeOf(metadata) /\ AwaitedBatch' = AwaitedBatch
  BY DEF ChargeOf, AwaitedBatch
<1>3. Owed' = Owed
  BY <1>1 DEF Owed
<1>4. \A s : AnswersFor(s)' = AnswersFor(s)
  BY <1>2, <1>3 DEF AnswersFor, AskedOf
<1> QED
  BY <1>1, <1>2, <1>4 DEF RequestsInv, BudgetType

\* The scans of the newest run, finished or not.
LEMMA ScansFacts ==
  ASSUME BudgetType
  PROVE  /\ CombinedScans(Current).exact \in Nat /\ CombinedScans(Current).unknown \in Nat
         /\ CombinedScans(Current).exact + CombinedScans(Current).unknown
               + Cardinality(RunningScans)
             = latest.past.exact + latest.past.unknown + SumFunctionOnSet(Scans, Targets)
         /\ Cardinality(RunningScans) \in Nat
<1> DEFINE c(t) == IF latest.ledger THEN 0 ELSE attempts[t].unknown
           f == [t \in Targets |-> attempts[t].exact + c(t)]
           g == [t \in Targets |-> attempts[t].unknown - c(t)]
           h == [t \in Targets |-> attempts[t].exact + attempts[t].unknown]
           r == [t \in Targets |-> IF t \in RunningScans THEN 1 ELSE 0]
<1>1. \A t \in Targets : attempts[t].exact \in Nat /\ attempts[t].unknown \in Nat
  BY DEF BudgetType, Attempts
<1>2. /\ DirectScans(Current).exact = SumFunctionOnSet(f, Targets)
      /\ DirectScans(Current).unknown = SumFunctionOnSet(g, Targets)
  BY DEF DirectScans, SumFunction, Conservative, Current
<1>3. \A t \in Targets : c(t) \in Nat /\ attempts[t].unknown - c(t) \in Nat
  BY <1>1
<1>4. \A t \in Targets :
        /\ f[t] \in Nat /\ g[t] \in Nat /\ h[t] \in Nat /\ h[t] = f[t] + g[t]
        /\ r[t] \in Nat /\ Scans[t] = h[t] + r[t]
        /\ r[t] = IF t \in RunningScans THEN 1 ELSE 0
  <2>1. ASSUME NEW t \in Targets
        PROVE  /\ f[t] = attempts[t].exact + c(t) /\ g[t] = attempts[t].unknown - c(t)
               /\ h[t] = attempts[t].exact + attempts[t].unknown
               /\ r[t] = IF t \in RunningScans THEN 1 ELSE 0
               /\ Scans[t] = attempts[t].exact + attempts[t].unknown
                                + IF t \in RunningScans THEN 1 ELSE 0
    BY DEF Scans, RunningScans
  <2> HIDE DEF c, f, g, h, r
  <2> QED
    BY <1>1, <1>3, <2>1
<1>5. RunningScans \subseteq Targets
  BY DEF RunningScans
<1> HIDE DEF f, g, h, r, c
<1>6. SumFunctionOnSet(h, Targets)
        = SumFunctionOnSet(f, Targets) + SumFunctionOnSet(g, Targets)
  BY <1>4, TargetsAssumption, SumOfBoth
<1>7. SumFunctionOnSet(Scans, Targets)
        = SumFunctionOnSet(h, Targets) + SumFunctionOnSet(r, Targets)
  BY <1>4, TargetsAssumption, SumOfBoth
<1>8. /\ SumFunctionOnSet(r, Targets) = Cardinality(RunningScans)
      /\ Cardinality(RunningScans) \in Nat
  BY <1>4, <1>5, TargetsAssumption, SumCounts
<1>9. SumFunctionOnSet(f, Targets) \in Nat /\ SumFunctionOnSet(g, Targets) \in Nat
  BY <1>4, TargetsAssumption, SumIsNat
<1>10. /\ CombinedScans(Current).exact = latest.past.exact + DirectScans(Current).exact
       /\ CombinedScans(Current).unknown = latest.past.unknown + DirectScans(Current).unknown
       /\ latest.past.exact \in Nat /\ latest.past.unknown \in Nat
  BY DEF CombinedScans, HistoricalScans, Current, BudgetType
<1> QED
  BY <1>2, <1>6, <1>7, <1>8, <1>9, <1>10

\* The invariant says what has to be shown.
LEMMA ChargesAreKept == LineageInv /\ ChargeInv => LineageIsCharged
<1> SUFFICES ASSUME LineageInv, ChargeInv PROVE LineageIsCharged
  OBVIOUS
<1>1. ASSUME NEW s \in Services
      PROVE  /\ Charged(s) =< sent[s]
             /\ latest.kind \notin Cohorts \/ (latest.seeded /\ ~latest.early) =>
                    Charged(s) = sent[s]
  <2>1. /\ Charged(s) \in Int /\ AnswersFor(s) \in Int /\ sent[s] \in Int
        /\ Charged(s) =< AnswersFor(s) /\ AnswersFor(s) =< sent[s]
        /\ latest.kind \notin Cohorts \/ ~latest.early => AnswersFor(s) = sent[s]
        /\ (\A i \in QueryTasks : Awaited(i) = 0) /\ AwaitedBatch = 0 =>
                Charged(s) = AnswersFor(s)
    BY AnswersFacts DEF ChargeInv, RequestsInv, BudgetType
  <2>2. latest.kind \notin Cohorts \/ latest.seeded =>
            (\A i \in QueryTasks : Awaited(i) = 0) /\ AwaitedBatch = 0
    BY DEF ChargeInv, RequestsInv, Awaited, AwaitedBatch, Cohorts
  <2> QED
    BY <2>1, <2>2
<1>2. CombinedScans(Current).exact + CombinedScans(Current).unknown
          + Cardinality(RunningScans) = dispatched
  BY ScansFacts DEF ChargeInv, ScansInv
<1> QED
  BY <1>1, <1>2 DEF LineageIsCharged

\* Steps that dispatch and end no scan.
LEMMA ScansStand ==
  ASSUME ScansInv, attempts' = attempts, dispatched' = dispatched, latest'.past = latest.past,
         doing' = "scanning" \/ doing /= "scanning"
  PROVE  ScansInv'
BY DEF ScansInv, Scans, RunningScans

\* A run that was just created.
LEMMA FreshScans ==
  ASSUME LineageInv, BudgetType, ScansInv, doing = "idle", doing' /= "scanning",
         attempts' = [t \in Targets |-> Unscanned],
         \/ latest'.past = NoScans /\ dispatched' = 0
         \/ latest'.past = CombinedScans(Current) /\ dispatched' = dispatched
  PROVE  /\ ScansInv' /\ latest'.past.exact \in Nat /\ latest'.past.unknown \in Nat
         /\ dispatched' \in Int /\ attempts' \in [Targets -> Attempts]
<1>1. /\ RunningScans = {} /\ Cardinality(RunningScans) = 0
  BY FS_EmptySet DEF ScansInv
<1>2. latest'.past.exact + latest'.past.unknown = dispatched'
      /\ latest'.past.exact \in Nat /\ latest'.past.unknown \in Nat /\ dispatched' \in Int
  <2>1. CASE latest'.past = NoScans /\ dispatched' = 0
    BY <2>1 DEF NoScans
  <2>2. CASE latest'.past = CombinedScans(Current) /\ dispatched' = dispatched
    BY <1>1, <2>2, ScansFacts DEF ScansInv, BudgetType
  <2> QED
    BY <2>1, <2>2
<1>3. \A t \in Targets : Scans'[t] = 0
  BY DEF Scans, Unscanned
<1>4. SumFunctionOnSet(Scans', Targets) = 0
  <2>1. PICK h : h = Scans'
    OBVIOUS
  <2> QED
    BY <1>3, <2>1, TargetsAssumption, SumOfZeros
<1>5. RunningScans' = {}
  BY DEF RunningScans, Unscanned
<1>6. attempts' \in [Targets -> Attempts]
  BY DEF Attempts, Unscanned
<1>7. ScansInv'
  BY <1>2, <1>4, <1>5 DEF ScansInv
<1> QED
  BY <1>2, <1>6, <1>7

\* What the heir of `tasks` is to inherit, which the charge of its predecessor holds.
Bequest(kind, tasks, s) ==
    IF s = "graphql" THEN IF kind \in Recoveries THEN 1 ELSE 0
    ELSE Cardinality({i \in tasks : Queries[i].source = s})

LEMMA BequestFacts ==
  ASSUME NEW kind, NEW tasks, tasks \subseteq QueryTasks, NEW s
  PROVE  /\ {i \in tasks : Queries[i].source = s} \subseteq AskedOf(s)
         /\ Bequest(kind, tasks, s) \in Nat
<1> DEFINE T == {i \in tasks : Queries[i].source = s}
<1>1. T \subseteq AskedOf(s)
  BY DEF AskedOf
<1>2. IsFiniteSet(T)
  BY <1>1, AskedFacts, FS_Subset
<1>3. Cardinality(T) \in Nat
  BY <1>2, FS_CardinalityType
<1> QED
  BY <1>1, <1>3 DEF Bequest

\* A run that was just created answers for its history and its inheritance.
LEMMA FreshRequests ==
  ASSUME NEW kind, NEW tasks, NEW history, NEW past,
         CreateSuccessor(kind, tasks, history, past),
         tasks \subseteq QueryTasks, history \in [Services -> Int], NEW s \in Services
  PROVE  AnswersFor(s)'
           = history[s] + (IF kind \in Cohorts THEN Bequest(kind, tasks, s) ELSE 0)
<1>1. /\ latest'.kind = kind /\ latest'.tasks = tasks /\ latest'.history = history
      /\ query' = [i \in QueryTasks |-> Absent] /\ metadata' = Absent
  BY DEF CreateSuccessor
<1>2. Absent.tries = 0 /\ Absent.inherited = 0 /\ ChargeOf(Absent) = 0
  BY DEF Absent, ChargeOf
<1>3. CASE s = "graphql"
  <2>1. AnswersFor(s)' = history[s] + (ChargeOf(metadata)' + AwaitedBatch')
    BY <1>1, <1>3 DEF AnswersFor
  <2>2. ChargeOf(metadata)' = 0
    BY <1>1, <1>2 DEF ChargeOf
  <2>3. AwaitedBatch' = IF kind \in Recoveries THEN 1 ELSE 0
    BY <1>1, <1>2 DEF AwaitedBatch
  <2> QED
    BY <1>3, <2>1, <2>2, <2>3 DEF Bequest, Cohorts
<1>4. CASE s /= "graphql"
  <2> DEFINE S == AskedOf(s)
             T == IF kind \in Cohorts THEN {i \in tasks : Queries[i].source = s} ELSE {}
  <2>1. PICK h : h = Owed'
    OBVIOUS
  <2>2. AnswersFor(s)' = history[s] + SumFunctionOnSet(h, S)
    BY <1>1, <1>4, <2>1 DEF AnswersFor, AskedOf
  <2>3. \A i \in S : h[i] = IF i \in T THEN 1 ELSE 0
    <3>1. ASSUME NEW i \in S PROVE h[i] = IF kind \in Cohorts /\ i \in tasks THEN 1 ELSE 0
      <4>1. i \in QueryTasks /\ query'[i].tries = 0 /\ query'[i].inherited = 0
        BY <1>1, <1>2 DEF AskedOf
      <4>2. Awaited(i)' = IF kind \in Cohorts /\ i \in tasks THEN 1 ELSE 0
        BY <1>1, <4>1 DEF Awaited
      <4> QED
        BY <2>1, <4>1, <4>2 DEF Owed, ChargeOf
    <3>2. \A i \in S : i \in T <=> kind \in Cohorts /\ i \in tasks
      BY DEF AskedOf
    <3> HIDE DEF S, T
    <3> QED
      BY <3>1, <3>2
  <2>4. T \in SUBSET S /\ IsFiniteSet(S)
    BY AskedFacts, BequestFacts
  <2>5. kind \notin Cohorts => Cardinality(T) = 0
    BY FS_EmptySet
  <2>6. kind \in Cohorts => Cardinality(T) = Bequest(kind, tasks, s)
    BY <1>4 DEF Bequest
  <2> HIDE DEF S, T
  <2>7. SumFunctionOnSet(h, S) = Cardinality(T)
    BY <2>3, <2>4, SumCounts
  <2> QED
    BY <2>2, <2>5, <2>6, <2>7
<1> QED
  BY <1>3, <1>4

\* The residual charge is the charge without the inheritance.
LEMMA ResidualFacts ==
  ASSUME LineageInv, BudgetType, NEW kind, NEW tasks, tasks \subseteq QueryTasks
  PROVE  LET residual == ResidualCharge(Current, tasks, kind)
         IN  /\ residual \in [Services -> Int]
             /\ \A s \in Services :
                   residual[s] + Bequest(kind, tasks, s) = PredecessorCharge(Current, kind)[s]
<1>1. ASSUME NEW s \in Services
      PROVE  /\ PredecessorCharge(Current, kind)[s] \in Int
             /\ ResidualCharge(Current, tasks, kind)[s]
                  = PredecessorCharge(Current, kind)[s] - Bequest(kind, tasks, s)
             /\ Bequest(kind, tasks, s) \in Nat
  <2>1. Charged(s) \in Int
    BY AnswersFacts
  <2>2. PredecessorCharge(Current, kind)[s] \in Int
    BY <2>1 DEF PredecessorCharge, Charged
  <2>3. ResidualCharge(Current, tasks, kind)[s]
          = PredecessorCharge(Current, kind)[s] - Bequest(kind, tasks, s)
    BY DEF ResidualCharge, Bequest
  <2> QED
    BY <2>2, <2>3, BequestFacts
<1>2. ResidualCharge(Current, tasks, kind)
        = [s \in Services |-> ResidualCharge(Current, tasks, kind)[s]]
  BY DEF ResidualCharge
<1>3. \A s \in Services : ResidualCharge(Current, tasks, kind)[s] \in Int
  BY <1>1
<1>4. ResidualCharge(Current, tasks, kind) \in [Services -> Int]
  BY <1>2, <1>3
<1> QED
  BY <1>1, <1>4

LEMMA HeirFacts ==
  ASSUME NEW task \in Works, NEW heir, heir = [task EXCEPT !.tries = 0, !.inherited = 1]
  PROVE  heir.tries = 0 /\ heir.inherited = 1
BY DEF Works

\* A successor was created.
LEMMA CreatedHolds ==
  ASSUME LineageInv, ChargeInv, NEW kind, NEW tasks, NEW history, NEW past,
         CreateSuccessor(kind, tasks, history, past),
         tasks \subseteq QueryTasks, history \in [Services -> Int], sent' \in [Services -> Int],
         kind \in Cohorts => \A i \in tasks : Certifiable(i, query[i]),
         \/ past = NoScans /\ dispatched' = 0
         \/ past = CombinedScans(Current) /\ dispatched' = dispatched,
         \A s \in Services :
            LET answer == history[s] + (IF kind \in Cohorts THEN Bequest(kind, tasks, s) ELSE 0)
            IN  /\ answer =< sent'[s]
                /\ kind \notin Cohorts \/ ~latest'.early => answer = sent'[s]
  PROVE  ChargeInv'
<1>1. /\ latest'.kind = kind /\ latest'.tasks = tasks /\ latest'.history = history
      /\ latest'.past = past /\ latest'.seeded = FALSE
      /\ latest'.early = (kind \in Cohorts /\ (latest.early \/ ~latest.seeded))
      /\ {"hop", "kind", "open", "tasks", "history", "past", "seeded", "early", "ledger"}
             \subseteq DOMAIN latest'
  BY DEF CreateSuccessor
<1>2. /\ doing = "idle" /\ doing' = FirstStep(kind) /\ forebear' = Legacy(kind, tasks)
      /\ attempts' = [t \in Targets |-> Unscanned]
  BY DEF CreateSuccessor
<1>3. /\ ScansInv' /\ latest'.past.exact \in Nat /\ latest'.past.unknown \in Nat
      /\ dispatched' \in Int /\ attempts' \in [Targets -> Attempts]
  <2>1. doing' /= "scanning"
    BY <1>2 DEF FirstStep
  <2>2. \/ latest'.past = NoScans /\ dispatched' = 0
        \/ latest'.past = CombinedScans(Current) /\ dispatched' = dispatched
    BY <1>1
  <2> QED
    BY <1>2, <2>1, <2>2, FreshScans DEF ChargeInv
<1>4. BudgetType'
  BY <1>1, <1>3 DEF BudgetType, ChargeInv
<1>5. HeirsInv'
  <2>1. ASSUME NEW i \in QueryTasks,
               forebear'.query[i].status /= "absent" \/ (kind \in Cohorts /\ i \in tasks)
        PROVE  forebear'.query[i].tries = 0 /\ forebear'.query[i].inherited = 1
    <3>1. forebear'.query[i] = IF i \in tasks /\ Certifiable(i, query[i])
                               THEN [query[i] EXCEPT !.tries = 0, !.inherited = 1] ELSE Absent
      BY <1>2 DEF Legacy
    <3>2. i \in tasks /\ Certifiable(i, query[i])
      BY <2>1, <3>1, AbsentFacts
    <3>3. query[i] \in Works
      BY DEF LineageInv, WorkInv
    <3> QED
      BY <3>1, <3>2, <3>3, HeirFacts
  <2>2. ASSUME kind \in Recoveries
        PROVE  forebear'.metadata.tries = 0 /\ forebear'.metadata.inherited = 1
    <3>1. forebear'.metadata = [metadata EXCEPT !.tries = 0, !.inherited = 1]
      BY <1>2, <2>2 DEF Legacy
    <3> QED
      BY <3>1, HeirFacts DEF LineageInv, WorkInv
  <2> QED
    BY <1>1, <2>1, <2>2 DEF HeirsInv, Preparing
<1>6. RequestsInv'
  <2>1. ASSUME NEW s \in Services
        PROVE  /\ AnswersFor(s)' =< sent'[s]
               /\ kind \notin Cohorts \/ ~latest'.early => AnswersFor(s)' = sent'[s]
    <3>1. AnswersFor(s)'
            = history[s] + (IF kind \in Cohorts THEN Bequest(kind, tasks, s) ELSE 0)
      BY FreshRequests
    <3> QED
      BY <3>1
  <2> QED
    BY <1>1, <2>1 DEF RequestsInv
<1> QED
  BY <1>3, <1>4, <1>5, <1>6 DEF ChargeInv

LEMMA NoChargeFacts ==
  NoCharge \in [Services -> Int] /\ \A s \in Services : NoCharge[s] = 0
BY DEF NoCharge

LEMMA ScopeIsCharged ==
  ASSUME LineageInv, ChargeInv, PrepareScopeReduction PROVE ChargeInv'
<1> DEFINE tasks == ReducedScope(Current)
<1>1. /\ CreateSuccessor("scope", tasks, NoCharge, NoScans)
      /\ sent' = NoCharge /\ dispatched' = 0
  BY DEF PrepareScopeReduction
<1>2. tasks \subseteq QueryTasks
  BY DEF ReducedScope, Current, ChargeInv, BudgetType
<1>3. "scope" \notin Cohorts
  BY DEF Cohorts, Recoveries
<1>4. \A s \in Services :
         LET answer == NoCharge[s] + (IF "scope" \in Cohorts THEN Bequest("scope", tasks, s) ELSE 0)
         IN  /\ answer =< sent'[s]
             /\ "scope" \notin Cohorts \/ ~latest'.early => answer = sent'[s]
  BY <1>1, <1>3, NoChargeFacts
<1> HIDE DEF tasks
<1> QED
  BY <1>1, <1>2, <1>3, <1>4, NoChargeFacts, CreatedHolds

LEMMA TransportIsCharged ==
  ASSUME LineageInv, ChargeInv, PrepareTransportPolicy PROVE ChargeInv'
<1>1. PICK reported \in 0..MaxReported :
        /\ CreateSuccessor("transport", latest.tasks, [NoCharge EXCEPT !["github"] = reported],
                           NoScans)
        /\ sent' = [NoCharge EXCEPT !["github"] = reported] /\ dispatched' = 0
  BY DEF PrepareTransportPolicy
<1> DEFINE history == [NoCharge EXCEPT !["github"] = reported]
           tasks == latest.tasks
<1>2. history \in [Services -> Int]
  <2>1. reported \in Int
    OBVIOUS
  <2> QED
    BY <2>1, NoChargeFacts
<1>3. tasks \subseteq QueryTasks
  BY DEF ChargeInv, BudgetType
<1>4. "transport" \notin Cohorts
  BY DEF Cohorts, Recoveries
<1>5. /\ CreateSuccessor("transport", tasks, history, NoScans)
      /\ sent' = history /\ dispatched' = 0
  BY <1>1
<1> HIDE DEF history, tasks
<1>6. \A s \in Services :
         LET answer == history[s] + (IF "transport" \in Cohorts
                                     THEN Bequest("transport", tasks, s) ELSE 0)
         IN  /\ answer =< sent'[s]
             /\ "transport" \notin Cohorts \/ ~latest'.early => answer = sent'[s]
  BY <1>2, <1>4, <1>5
<1> QED
  BY <1>2, <1>3, <1>4, <1>5, <1>6, CreatedHolds

LEMMA CohortIsCharged ==
  ASSUME LineageInv, ChargeInv, PrepareCohort PROVE ChargeInv'
<1> DEFINE tasks == CertifiedCohort(Current)
<1>1. PICK kind \in Cohorts :
        /\ MayPrepareCohort(Current, kind)
        /\ CreateSuccessor(kind, tasks, ResidualCharge(Current, tasks, kind),
                           CombinedScans(Current))
        /\ sent' = IF kind = "partial" THEN [sent EXCEPT !["graphql"] = 0] ELSE sent
  BY DEF PrepareCohort
<1>2. dispatched' = dispatched
  BY DEF PrepareCohort
<1>3. tasks \subseteq QueryTasks
  BY DEF CertifiedCohort, Current, ChargeInv, BudgetType
<1>4. \A i \in tasks : Certifiable(i, query[i])
  BY <1>1 DEF MayPrepareCohort, CohortDerives, Current
<1>5. sent \in [Services -> Int] /\ sent' \in [Services -> Int]
  <2>1. sent \in [Services -> Int]
    BY DEF ChargeInv, BudgetType
  <2>2. sent' = sent \/ sent' = [sent EXCEPT !["graphql"] = 0]
    BY <1>1
  <2> QED
    BY <2>1, <2>2
<1>6. latest'.early = (latest.early \/ ~latest.seeded)
  BY <1>1 DEF CreateSuccessor
<1>7. ASSUME NEW s \in Services
      PROVE  /\ PredecessorCharge(Current, kind)[s] =< sent'[s]
             /\ ~latest'.early => PredecessorCharge(Current, kind)[s] = sent'[s]
  <2>1. CASE kind = "partial" /\ s = "graphql"
    BY <1>1, <1>5, <2>1 DEF PredecessorCharge
  <2>2. CASE ~(kind = "partial" /\ s = "graphql")
    <3>1. PredecessorCharge(Current, kind)[s] = Charged(s) /\ sent'[s] = sent[s]
      BY <1>1, <1>5, <2>2 DEF PredecessorCharge, Charged
    <3>2. LineageIsCharged
      BY ChargesAreKept
    <3>3. Charged(s) =< sent[s] /\ (latest.seeded /\ ~latest.early => Charged(s) = sent[s])
      BY <3>2 DEF LineageIsCharged
    <3> QED
      BY <1>6, <3>1, <3>3
  <2> QED
    BY <2>1, <2>2
<1> HIDE DEF tasks
<1> DEFINE history == ResidualCharge(Current, tasks, kind)
<1>8. /\ history \in [Services -> Int]
      /\ \A s \in Services :
            history[s] + Bequest(kind, tasks, s) = PredecessorCharge(Current, kind)[s]
  BY <1>3, ResidualFacts DEF ChargeInv
<1>9. CreateSuccessor(kind, tasks, history, CombinedScans(Current))
  BY <1>1
<1> HIDE DEF history
<1>10. \A s \in Services :
         LET answer == history[s] + (IF kind \in Cohorts THEN Bequest(kind, tasks, s) ELSE 0)
         IN  /\ answer =< sent'[s]
             /\ kind \notin Cohorts \/ ~latest'.early => answer = sent'[s]
  BY <1>7, <1>8
<1> QED
  BY <1>2, <1>3, <1>4, <1>5, <1>8, <1>9, <1>10, CreatedHolds

\* Steps that charge nothing.
LEMMA QuietHolds ==
  ASSUME LineageInv, LineageInv', ChargeInv,
         \/ latest' = latest
         \/ latest' = [latest EXCEPT !.open = FALSE]
         \/ \E early \in BOOLEAN :
               (latest.early => early) /\ latest' = [latest EXCEPT !.early = early],
         UNCHANGED <<attempts, sent, dispatched>>,
         \A i \in QueryTasks : /\ query'[i].tries = query[i].tries
                               /\ query'[i].inherited = query[i].inherited,
         metadata'.tries = metadata.tries, metadata'.inherited = metadata.inherited,
         doing' \in Preparing \/ forebear' /= NoRun =>
            (doing \in Preparing \/ forebear /= NoRun) /\ forebear' = forebear,
         doing' = "scanning" \/ doing /= "scanning"
  PROVE  ChargeInv'
<1>1. /\ latest'.history = latest.history /\ latest'.kind = latest.kind
      /\ latest'.tasks = latest.tasks /\ latest'.past = latest.past
      /\ latest'.seeded = latest.seeded /\ DOMAIN latest' = DOMAIN latest
      /\ latest.early => latest'.early
      /\ latest'.early \in BOOLEAN
  BY DEF ChargeInv, BudgetType
<1>2. BudgetType'
  BY <1>1 DEF ChargeInv, BudgetType
<1>3. RequestsInv'
  BY <1>1, <1>2, RequestsStand DEF ChargeInv
<1>4. ScansInv'
  BY <1>1, ScansStand DEF ChargeInv
<1>5. HeirsInv'
  BY <1>1 DEF ChargeInv, HeirsInv, Preparing
<1> QED
  BY <1>2, <1>3, <1>4, <1>5 DEF ChargeInv

\* Steps that charge as much as the lineage spends.
LEMMA RequestsMove ==
  ASSUME BudgetType, RequestsInv, latest' = latest, NEW d,
         \A s \in Services : /\ AnswersFor(s) \in Int /\ d[s] \in Int
                             /\ AnswersFor(s)' = AnswersFor(s) + d[s]
                             /\ sent'[s] = sent[s] + d[s],
         latest.seeded => (\A i \in QueryTasks : Awaited(i)' = 0) /\ AwaitedBatch' = 0
  PROVE  RequestsInv'
<1>1. \A s \in Services : sent[s] \in Int
  BY DEF BudgetType
<1>2. ASSUME NEW s \in Services
      PROVE  /\ AnswersFor(s)' =< sent'[s]
             /\ latest.kind \notin Cohorts \/ ~latest.early => AnswersFor(s)' = sent'[s]
  BY <1>1 DEF RequestsInv
<1> QED
  BY <1>2 DEF RequestsInv

\* The batch of the newest run becomes another.
LEMMA BatchMoves ==
  ASSUME LineageInv, LineageInv', BudgetType, latest' = latest, query' = query
  PROVE  \A s \in Services :
            /\ AnswersFor(s) \in Int
            /\ AnswersFor(s)' = AnswersFor(s) +
                  (IF s = "graphql" THEN (ChargeOf(metadata)' + AwaitedBatch')
                                            - (ChargeOf(metadata) + AwaitedBatch)
                   ELSE 0)
<1>1. Owed' = Owed
  BY DEF Owed, Awaited
<1>2. ChargeOf(metadata)' \in Nat /\ AwaitedBatch' \in {0, 1}
  BY DEF LineageInv, WorkInv, Works, ChargeOf, AwaitedBatch
<1>3. ASSUME NEW s \in Services
      PROVE  /\ AnswersFor(s) \in Int
             /\ AnswersFor(s)' = AnswersFor(s) +
                  (IF s = "graphql" THEN (ChargeOf(metadata)' + AwaitedBatch')
                                            - (ChargeOf(metadata) + AwaitedBatch)
                   ELSE 0)
  <2>1. AnswersFor(s) \in Int /\ latest.history[s] \in Int
    BY AnswersFacts DEF BudgetType
  <2>2. CASE s = "graphql"
    <3>1. /\ AnswersFor(s) = latest.history[s] + (ChargeOf(metadata) + AwaitedBatch)
          /\ AnswersFor(s)' = latest.history[s] + (ChargeOf(metadata)' + AwaitedBatch')
      BY <2>2 DEF AnswersFor
    <3> QED
      BY <1>2, <2>1, <2>2, <3>1, OwedFacts
  <2>3. CASE s /= "graphql"
    <3>1. AnswersFor(s)' = AnswersFor(s)
      BY <1>1, <2>3 DEF AnswersFor, AskedOf
    <3> QED
      BY <2>1, <2>3, <3>1
  <2> QED
    BY <2>2, <2>3
<1> QED
  BY <1>3

\* A set of numbers has a least one.
LEMMA LeastTask == ASSUME NEW S, S \subseteq Nat, S /= {} PROVE Min(S) \in S
<1> DEFINE R == OpToRel(<, Nat)
<1>1. IsWellFoundedOn(R, Nat)
  BY NatLessThanWellFounded
<1>2. \A a \in Nat : \A b \in Nat : a < b => <<a, b>> \in R
  BY DEF OpToRel
<1> HIDE DEF R
<1>3. \E x \in S : \A y \in S : ~(<<y, x>> \in R)
  BY <1>1, WFMin
<1>4. PICK x \in S : \A y \in S : ~(y < x)
  BY <1>2, <1>3
<1>5. \A y \in S : x =< y
  BY <1>4
<1> QED
  BY <1>5 DEF Min

LEMMA CountedUp ==
  ASSUME NEW S, NEW f \in [S -> Int], NEW s \in S, NEW g, g = [f EXCEPT ![s] = f[s] + 1]
  PROVE  g \in [S -> Int] /\ \A u \in S : g[u] = f[u] + (IF u = s THEN 1 ELSE 0)
<1>1. f[s] \in Int /\ f[s] + 1 \in Int
  OBVIOUS
<1>2. g \in [S -> Int]
  BY <1>1
<1>3. ASSUME NEW u \in S PROVE g[u] = f[u] + (IF u = s THEN 1 ELSE 0)
  <2>1. CASE u = s
    BY <1>1, <2>1
  <2>2. CASE u /= s
    BY <2>2
  <2> QED
    BY <2>1, <2>2
<1> QED
  BY <1>2, <1>3

LEMMA InheritIsCharged ==
  ASSUME LineageInv, LineageInv', ChargeInv, InheritTask PROVE ChargeInv'
<1> DEFINE due == {i \in Inheritable : query[i].inherited = 0}
<1>0. PICK j : j = Min(due)
  OBVIOUS
<1> DEFINE s == Queries[j].source
<1>1. /\ due /= {} /\ query[j].status = "pending" /\ query[j].tries = 0
      /\ query' = [query EXCEPT ![j] = forebear.query[j]]
      /\ sent' = IF latest.kind \in Cohorts THEN sent ELSE [sent EXCEPT ![s] = @ + 1]
      /\ doing = "inheriting"
      /\ UNCHANGED <<latest, metadata, attempts, forebear, doing, dispatched>>
  BY <1>0 DEF InheritTask
<1>2. due \subseteq latest.tasks /\ latest.tasks \subseteq QueryTasks
  BY DEF Inheritable, ChargeInv, BudgetType
<1>3. j \in due
  <2>1. due \subseteq Nat
    BY <1>2, QueriesAssumption
  <2> HIDE DEF due
  <2> QED
    BY <1>0, <1>1, <2>1, LeastTask
<1>4. /\ j \in QueryTasks /\ j \in latest.tasks /\ j \in Inheritable
      /\ query[j].inherited = 0
  BY <1>2, <1>3
<1> HIDE DEF due
<1>5. forebear.query[j].tries = 0 /\ forebear.query[j].inherited = 1
  <2>1. latest.kind \notin Cohorts => forebear.query[j].status /= "absent"
    BY <1>4 DEF Inheritable, Certifiable
  <2> QED
    BY <1>1, <1>4, <2>1 DEF ChargeInv, HeirsInv, Preparing
<1>6. query \in [QueryTasks -> Works]
  BY DEF LineageInv, WorkInv
<1>7. /\ query'[j] = forebear.query[j]
      /\ \A i \in QueryTasks \ {j} : query'[i] = query[i]
  BY <1>1, <1>4, <1>6
<1>8. \A i \in QueryTasks \ {j} : Awaited(i)' = Awaited(i) /\ Owed'[i] = Owed[i]
  BY <1>1, <1>7 DEF Awaited, Owed, ChargeOf
<1>9. /\ Awaited(j)' = 0
      /\ Owed'[j] = 1
      /\ Owed[j] = IF latest.kind \in Cohorts THEN 1 ELSE 0
  <2>1. Awaited(j)' = 0
    BY <1>5, <1>7 DEF Awaited
  <2>2. Awaited(j) = IF latest.kind \in Cohorts THEN 1 ELSE 0
    BY <1>4 DEF Awaited
  <2>3. Owed'[j] = query'[j].tries + query'[j].inherited + Awaited(j)'
    BY <1>4 DEF Owed, ChargeOf
  <2>4. Owed[j] = query[j].tries + query[j].inherited + Awaited(j)
    BY <1>4 DEF Owed, ChargeOf
  <2> QED
    BY <1>1, <1>4, <1>5, <1>7, <2>1, <2>2, <2>3, <2>4
<1>10. AwaitedBatch' = AwaitedBatch /\ ChargeOf(metadata)' = ChargeOf(metadata)
  BY <1>1 DEF AwaitedBatch
<1> DEFINE d == [u \in Services |->
                   IF latest.kind \notin Cohorts /\ u = s THEN 1 ELSE 0]
<1>11. \A u \in Services : /\ AnswersFor(u) \in Int /\ d[u] \in Int
                           /\ AnswersFor(u)' = AnswersFor(u) + d[u]
  <2>1. \A u \in Services :
            /\ AnswersFor(u) \in Int
            /\ AnswersFor(u)' = AnswersFor(u) +
                  (IF u = Queries[j].source THEN Owed'[j] - Owed[j] ELSE 0)
    BY <1>1, <1>4, <1>8, <1>10, AnswersMove DEF ChargeInv
  <2> QED
    BY <1>9, <2>1
<1>12. sent' \in [Services -> Int] /\ \A u \in Services : sent'[u] = sent[u] + d[u]
  <2>1. sent \in [Services -> Int]
    BY DEF ChargeInv, BudgetType
  <2>2. CASE latest.kind \in Cohorts
    BY <1>1, <2>1, <2>2
  <2>3. CASE latest.kind \notin Cohorts
    <3>1. sent' = [sent EXCEPT ![s] = sent[s] + 1]
      BY <1>1, <2>3
    <3>2. \A u \in Services : d[u] = IF u = s THEN 1 ELSE 0
      BY <2>3
    <3>3. s \in Services
      BY <1>4 DEF Services
    <3> HIDE DEF s, d
    <3> QED
      BY <2>1, <3>1, <3>2, <3>3, CountedUp
  <2> QED
    BY <2>2, <2>3
<1>13. latest.seeded => (\A i \in QueryTasks : Awaited(i)' = 0) /\ AwaitedBatch' = 0
  BY <1>8, <1>9, <1>10 DEF ChargeInv, RequestsInv
<1> HIDE DEF d
<1>14. RequestsInv'
  BY <1>1, <1>11, <1>12, <1>13, RequestsMove DEF ChargeInv
<1>15. BudgetType'
  BY <1>1, <1>12 DEF ChargeInv, BudgetType
<1>16. ScansInv'
  BY <1>1, ScansStand DEF ChargeInv
<1>17. HeirsInv'
  BY <1>1 DEF ChargeInv, HeirsInv, Preparing
<1> QED
  BY <1>14, <1>15, <1>16, <1>17 DEF ChargeInv

LEMMA InheritedBatchIsCharged ==
  ASSUME LineageInv, LineageInv', ChargeInv, InheritMetadata PROVE ChargeInv'
<1>1. /\ latest.kind \in Recoveries /\ metadata = Absent /\ metadata' = forebear.metadata
      /\ doing = "inheriting"
      /\ UNCHANGED <<latest, query, attempts, forebear, doing, sent, dispatched>>
  BY DEF InheritMetadata
<1>2. forebear.metadata.tries = 0 /\ forebear.metadata.inherited = 1
  BY <1>1 DEF ChargeInv, HeirsInv, Preparing
<1>3. /\ ChargeOf(metadata) = 0 /\ AwaitedBatch = 1
      /\ ChargeOf(metadata)' = 1 /\ AwaitedBatch' = 0
  BY <1>1, <1>2 DEF ChargeOf, AwaitedBatch, Absent
<1> DEFINE d == [u \in Services |-> 0]
<1>4. \A u \in Services : /\ AnswersFor(u) \in Int /\ d[u] \in Int
                          /\ AnswersFor(u)' = AnswersFor(u) + d[u]
                          /\ sent'[u] = sent[u] + d[u]
  <2>1. \A u \in Services : sent[u] \in Int
    BY DEF ChargeInv, BudgetType
  <2>2. \A u \in Services :
            /\ AnswersFor(u) \in Int
            /\ AnswersFor(u)' = AnswersFor(u) +
                  (IF u = "graphql" THEN (ChargeOf(metadata)' + AwaitedBatch')
                                            - (ChargeOf(metadata) + AwaitedBatch)
                   ELSE 0)
    BY <1>1, BatchMoves DEF ChargeInv
  <2> QED
    BY <1>1, <1>3, <2>1, <2>2
<1>5. latest.seeded => (\A i \in QueryTasks : Awaited(i)' = 0) /\ AwaitedBatch' = 0
  BY <1>1, <1>3 DEF ChargeInv, RequestsInv, Awaited
<1> HIDE DEF d
<1>6. RequestsInv'
  BY <1>1, <1>4, <1>5, RequestsMove DEF ChargeInv
<1>7. BudgetType' /\ HeirsInv'
  BY <1>1 DEF ChargeInv, BudgetType, HeirsInv, Preparing
<1>8. ScansInv'
  BY <1>1, ScansStand DEF ChargeInv
<1> QED
  BY <1>6, <1>7, <1>8 DEF ChargeInv

\* A preparation that ends has inherited all there was.
LEMMA FinishIsCharged ==
  ASSUME LineageInv, LineageInv', ChargeInv, FinishPreparation PROVE ChargeInv'
<1>1. /\ latest' = [latest EXCEPT !.seeded = TRUE] /\ forebear' = NoRun /\ doing' = "idle"
      /\ doing = "inheriting" /\ DiscoveryInherited
      /\ latest.kind \in Recoveries => metadata.inherited = 1
      /\ UNCHANGED <<query, metadata, attempts, sent, dispatched>>
  BY DEF FinishPreparation
<1>2. /\ latest'.history = latest.history /\ latest'.kind = latest.kind
      /\ latest'.tasks = latest.tasks /\ latest'.past = latest.past
      /\ latest'.early = latest.early /\ DOMAIN latest' = DOMAIN latest
      /\ latest'.seeded = TRUE
  BY <1>1 DEF ChargeInv, BudgetType
<1>3. \A i \in QueryTasks : Awaited(i) = 0 /\ Awaited(i)' = 0
  <2>1. latest.kind \in Cohorts => \A i \in latest.tasks : query[i].inherited = 1
    BY <1>1 DEF DiscoveryInherited, Inheritable
  <2> QED
    BY <1>1, <1>2, <2>1 DEF Awaited
<1>4. AwaitedBatch = 0 /\ AwaitedBatch' = 0
  BY <1>1, <1>2 DEF AwaitedBatch
<1>5. Owed' = Owed
  BY <1>1, <1>3 DEF Owed
<1>6. \A s : AnswersFor(s)' = AnswersFor(s)
  BY <1>1, <1>2, <1>4, <1>5 DEF AnswersFor, AskedOf
<1>7. RequestsInv'
  BY <1>1, <1>2, <1>3, <1>4, <1>6 DEF ChargeInv, RequestsInv
<1>8. BudgetType' /\ HeirsInv'
  BY <1>1, <1>2 DEF ChargeInv, BudgetType, HeirsInv, Preparing
<1>9. ScansInv'
  BY <1>1, <1>2, ScansStand DEF ChargeInv
<1> QED
  BY <1>7, <1>8, <1>9 DEF ChargeInv

\* One request more is one task that was tried once more.
LEMMA DiscoverIsCharged ==
  ASSUME LineageInv, LineageInv', ChargeInv, Discover PROVE ChargeInv'
<1>1. PICK j \in latest.tasks :
        /\ sent' = [sent EXCEPT ![Queries[j].source] = sent[Queries[j].source] + 1]
        /\ LET tried == [query[j] EXCEPT !.tries = @ + 1, !.made = source.task]
           IN  \E next :
                  /\ query' = [query EXCEPT ![j] = next]
                  /\ \/ \E exact \in BOOLEAN :
                           next = [tried EXCEPT !.status = "complete",
                                                !.exact = exact /\ Required(j)]
                     \/ next = tried
                     \/ next = [tried EXCEPT !.status = "failed"]
  BY DEF Discover
<1>2. UNCHANGED <<latest, metadata, attempts, forebear, doing, dispatched>>
  BY DEF Discover
<1>3. j \in QueryTasks /\ query \in [QueryTasks -> Works] /\ query[j] \in Works
  BY DEF ChargeInv, BudgetType, LineageInv, WorkInv
<1>4. /\ query'[j].tries = query[j].tries + 1 /\ query'[j].inherited = query[j].inherited
      /\ \A i \in QueryTasks \ {j} : query'[i] = query[i]
  <2>1. PICK tried : tried = [query[j] EXCEPT !.tries = @ + 1, !.made = source.task]
    OBVIOUS
  <2>2. /\ tried.tries = query[j].tries + 1 /\ tried.inherited = query[j].inherited
        /\ DOMAIN tried = DOMAIN query[j]
    BY <1>3, <2>1 DEF Works
  <2>3. PICK next :
           /\ query' = [query EXCEPT ![j] = next]
           /\ \/ \E exact \in BOOLEAN :
                    next = [tried EXCEPT !.status = "complete", !.exact = exact /\ Required(j)]
              \/ next = tried
              \/ next = [tried EXCEPT !.status = "failed"]
    BY <1>1, <2>1
  <2>4. next.tries = tried.tries /\ next.inherited = tried.inherited
    BY <1>3, <2>2, <2>3 DEF Works
  <2> QED
    BY <1>3, <2>2, <2>3, <2>4
<1>5. \A i \in QueryTasks \ {j} : Owed'[i] = Owed[i]
  BY <1>2, <1>4 DEF Owed, ChargeOf, Awaited
<1>6. \A i \in QueryTasks : Awaited(i)' = Awaited(i)
  BY <1>2, <1>4 DEF Awaited
<1>7. Owed'[j] = Owed[j] + 1
  <2>1. /\ Owed'[j] = query'[j].tries + query'[j].inherited + Awaited(j)'
        /\ Owed[j] = query[j].tries + query[j].inherited + Awaited(j)
    BY <1>3 DEF Owed, ChargeOf
  <2>2. query[j].tries \in Nat /\ query[j].inherited \in Nat /\ Awaited(j) \in Nat
    BY <1>3 DEF Works, Awaited
  <2> QED
    BY <1>3, <1>4, <1>6, <2>1, <2>2
<1>8. AwaitedBatch' = AwaitedBatch /\ ChargeOf(metadata)' = ChargeOf(metadata)
  BY <1>2 DEF AwaitedBatch
<1> DEFINE s == Queries[j].source
           d == [u \in Services |-> IF u = s THEN 1 ELSE 0]
<1>9. Owed[j] \in Nat
  BY <1>3, OwedFacts
<1>10. \A u \in Services : /\ AnswersFor(u) \in Int /\ d[u] \in Int
                           /\ AnswersFor(u)' = AnswersFor(u) + d[u]
  <2>1. \A u \in Services :
            /\ AnswersFor(u) \in Int
            /\ AnswersFor(u)' = AnswersFor(u) +
                  (IF u = Queries[j].source THEN Owed'[j] - Owed[j] ELSE 0)
    BY <1>2, <1>3, <1>5, <1>8, AnswersMove DEF ChargeInv
  <2> QED
    BY <1>7, <1>9, <2>1
<1>11. sent' \in [Services -> Int] /\ \A u \in Services : sent'[u] = sent[u] + d[u]
  <2>1. sent \in [Services -> Int] /\ sent' = [sent EXCEPT ![s] = sent[s] + 1]
    BY <1>1 DEF ChargeInv, BudgetType
  <2>2. \A u \in Services : d[u] = IF u = s THEN 1 ELSE 0
    OBVIOUS
  <2>3. s \in Services
    BY <1>3 DEF Services
  <2> HIDE DEF s, d
  <2> QED
    BY <2>1, <2>2, <2>3, CountedUp
<1>12. latest.seeded => (\A i \in QueryTasks : Awaited(i)' = 0) /\ AwaitedBatch' = 0
  BY <1>6, <1>8 DEF ChargeInv, RequestsInv
<1> HIDE DEF s, d
<1>13. RequestsInv'
  BY <1>2, <1>10, <1>11, <1>12, RequestsMove DEF ChargeInv
<1>14. BudgetType' /\ HeirsInv'
  BY <1>2, <1>11 DEF ChargeInv, BudgetType, HeirsInv, Preparing
<1>15. ScansInv'
  BY <1>2, ScansStand DEF ChargeInv
<1> QED
  BY <1>13, <1>14, <1>15 DEF ChargeInv

\* One attempt more at the batch is one point more.
LEMMA ResolveIsCharged ==
  ASSUME LineageInv, LineageInv', ChargeInv, ResolveMetadata PROVE ChargeInv'
<1>1. /\ doing = "discovering"
      /\ UNCHANGED <<latest, query, attempts, forebear, dispatched>>
  BY DEF ResolveMetadata
<1>2. CASE metadata.status = "complete"
  <2>1. doing' = "scanning" /\ metadata' = metadata /\ sent' = sent
    BY <1>2 DEF ResolveMetadata
  <2> QED
    BY <1>1, <2>1, QuietHolds DEF Preparing
<1>3. CASE metadata.status /= "complete"
  <2>1. PICK status \in {"pending", "complete"} :
           /\ metadata' = [metadata EXCEPT !.status = status, !.tries = @ + 1,
                                           !.made = source.epoch]
           /\ sent' = [sent EXCEPT !["graphql"] = sent["graphql"] + 1] /\ doing' = doing
    BY <1>3 DEF ResolveMetadata
  <2>2. /\ metadata'.tries = metadata.tries + 1 /\ metadata'.inherited = metadata.inherited
        /\ metadata.tries \in Nat /\ metadata.inherited \in Nat
    BY <2>1 DEF LineageInv, WorkInv, Works
  <2>3. AwaitedBatch' = AwaitedBatch /\ AwaitedBatch \in {0, 1}
    BY <1>1, <2>2 DEF AwaitedBatch
  <2>4. ChargeOf(metadata)' = ChargeOf(metadata) + 1 /\ ChargeOf(metadata) \in Nat
    BY <2>2 DEF ChargeOf
  <2> DEFINE s == "graphql"
             d == [u \in Services |-> IF u = s THEN 1 ELSE 0]
  <2>5. \A u \in Services : /\ AnswersFor(u) \in Int /\ d[u] \in Int
                            /\ AnswersFor(u)' = AnswersFor(u) + d[u]
    <3>1. \A u \in Services :
            /\ AnswersFor(u) \in Int
            /\ AnswersFor(u)' = AnswersFor(u) +
                  (IF u = "graphql" THEN (ChargeOf(metadata)' + AwaitedBatch')
                                            - (ChargeOf(metadata) + AwaitedBatch)
                   ELSE 0)
      BY <1>1, BatchMoves DEF ChargeInv
    <3> QED
      BY <2>3, <2>4, <3>1
  <2>6. sent' \in [Services -> Int] /\ \A u \in Services : sent'[u] = sent[u] + d[u]
    <3>1. sent \in [Services -> Int] /\ sent' = [sent EXCEPT ![s] = sent[s] + 1]
      BY <2>1 DEF ChargeInv, BudgetType
    <3>2. \A u \in Services : d[u] = IF u = s THEN 1 ELSE 0
      OBVIOUS
    <3>3. s \in Services
      BY DEF Services
    <3> HIDE DEF s, d
    <3> QED
      BY <3>1, <3>2, <3>3, CountedUp
  <2>7. latest.seeded => (\A i \in QueryTasks : Awaited(i)' = 0) /\ AwaitedBatch' = 0
    BY <1>1, <2>3 DEF ChargeInv, RequestsInv, Awaited
  <2> HIDE DEF d, s
  <2>8. RequestsInv'
    BY <1>1, <2>5, <2>6, <2>7, RequestsMove DEF ChargeInv
  <2>9. BudgetType' /\ HeirsInv'
    BY <1>1, <2>1, <2>6 DEF ChargeInv, BudgetType, HeirsInv, Preparing
  <2>10. ScansInv'
    BY <1>1, <2>1, ScansStand DEF ChargeInv
  <2> QED
    BY <2>8, <2>9, <2>10 DEF ChargeInv
<1> QED
  BY <1>2, <1>3

\* Steps of the scans.
LEMMA ScanStepHolds ==
  ASSUME LineageInv, LineageInv', ChargeInv, ScansInv', attempts' \in [Targets -> Attempts],
         dispatched' \in Int,
         UNCHANGED <<latest, query, metadata, forebear, sent>>,
         doing' = doing \/ doing' = "idle"
  PROVE  ChargeInv'
<1>1. BudgetType' /\ HeirsInv'
  BY DEF ChargeInv, BudgetType, HeirsInv, Preparing
<1>2. RequestsInv'
  BY <1>1, RequestsStand DEF ChargeInv
<1> QED
  BY <1>1, <1>2 DEF ChargeInv

LEMMA AttemptFacts ==
  ASSUME BudgetType, NEW t \in Targets
  PROVE  /\ attempts[t] \in Attempts
         /\ Scans[t] = attempts[t].exact + attempts[t].unknown
                          + (IF attempts[t].status = "running" THEN 1 ELSE 0)
         /\ Scans[t] \in Nat
BY DEF BudgetType, Attempts, Scans

LEMMA DispatchIsCharged ==
  ASSUME LineageInv, LineageInv', ChargeInv, DispatchScan PROVE ChargeInv'
<1>1. PICK r \in ToScan :
        attempts[r].status = "none" /\ attempts' = [attempts EXCEPT ![r].status = "running"]
  BY DEF DispatchScan
<1>2. /\ doing = "scanning" /\ dispatched' = dispatched + 1
      /\ UNCHANGED <<latest, query, metadata, rows, forebear, doing, changed, source, sent>>
  BY DEF DispatchScan
<1>3. r \in Targets /\ BudgetType /\ attempts \in [Targets -> Attempts] /\ dispatched \in Int
  BY DEF ToScan, ChargeInv, BudgetType
<1>4. /\ attempts'[r].status = "running" /\ attempts'[r].exact = attempts[r].exact
      /\ attempts'[r].unknown = attempts[r].unknown
      /\ \A t \in Targets \ {r} : attempts'[t] = attempts[t]
      /\ attempts' \in [Targets -> Attempts]
  BY <1>1, <1>3 DEF Attempts
<1>5. PICK f, h : f = Scans /\ h = Scans'
  OBVIOUS
<1>6. /\ h[r] = f[r] + 1
      /\ \A t \in Targets \ {r} : h[t] = f[t]
      /\ \A t \in Targets : f[t] \in Nat /\ h[t] \in Nat
  <2>1. \A t \in Targets :
           h[t] = attempts'[t].exact + attempts'[t].unknown
                     + (IF attempts'[t].status = "running" THEN 1 ELSE 0)
    BY <1>5 DEF Scans
  <2>2. attempts[r].exact \in Nat /\ attempts[r].unknown \in Nat
    BY <1>3 DEF Attempts
  <2>3. h[r] = f[r] + 1
    BY <1>1, <1>3, <1>4, <1>5, <2>1, <2>2, AttemptFacts
  <2>4. \A t \in Targets \ {r} : h[t] = f[t]
    BY <1>3, <1>4, <1>5, <2>1, AttemptFacts
  <2> QED
    BY <1>3, <1>5, <2>3, <2>4, AttemptFacts
<1>7. /\ SumFunctionOnSet(h, Targets) = SumFunctionOnSet(f, Targets) + 1
      /\ SumFunctionOnSet(f, Targets) \in Nat
  <2>1. /\ SumFunctionOnSet(h, Targets)
             = SumFunctionOnSet(f, Targets) + (IF r \in Targets THEN h[r] - f[r] ELSE 0)
        /\ SumFunctionOnSet(f, Targets) \in Nat
    BY <1>6, TargetsAssumption, SumMoves
  <2> QED
    BY <1>3, <1>6, <2>1
<1>8. ScansInv'
  <2>1. latest.past.exact \in Nat /\ latest.past.unknown \in Nat
    BY DEF ChargeInv, BudgetType
  <2> QED
    BY <1>2, <1>5, <1>7, <2>1 DEF ChargeInv, ScansInv
<1> QED
  BY <1>2, <1>3, <1>4, <1>8, ScanStepHolds

\* A scan that ends, with a result or without, stays charged.
LEMMA EndedScansStayCharged ==
  ASSUME LineageInv, LineageInv', ChargeInv,
         UNCHANGED <<latest, query, metadata, forebear, sent, dispatched>>,
         attempts' \in [Targets -> Attempts],
         \A t \in Targets : Scans'[t] = Scans[t],
         \/ doing' = doing /\ doing = "scanning"
         \/ doing' = "idle" /\ RunningScans' = {}
  PROVE  ChargeInv'
<1>1. Scans' = Scans
  BY DEF Scans
<1>2. ScansInv'
  BY <1>1 DEF ChargeInv, ScansInv
<1>3. dispatched' \in Int
  BY DEF ChargeInv, BudgetType
<1> QED
  BY <1>2, <1>3, ScanStepHolds

LEMMA FinishScanIsCharged ==
  ASSUME LineageInv, LineageInv', ChargeInv, FinishScan PROVE ChargeInv'
<1>1. PICK r \in RunningScans, status \in {"complete", "none"} :
        attempts' = [attempts EXCEPT ![r].status = status, ![r].exact = @ + 1]
  BY DEF FinishScan
<1>2. /\ doing = "scanning"
      /\ UNCHANGED <<latest, query, metadata, forebear, doing, changed, source, sent, dispatched>>
  BY DEF FinishScan
<1>3. /\ r \in Targets /\ BudgetType /\ attempts \in [Targets -> Attempts]
      /\ attempts[r].status = "running"
  BY DEF RunningScans, ChargeInv, BudgetType
<1>4. /\ attempts'[r].status = status /\ attempts'[r].exact = attempts[r].exact + 1
      /\ attempts'[r].unknown = attempts[r].unknown
      /\ \A t \in Targets \ {r} : attempts'[t] = attempts[t]
      /\ attempts' \in [Targets -> Attempts]
  BY <1>1, <1>3 DEF Attempts
<1>5. \A t \in Targets :
         Scans'[t] = attempts'[t].exact + attempts'[t].unknown
                        + (IF attempts'[t].status = "running" THEN 1 ELSE 0)
  BY DEF Scans
<1>6. attempts[r].exact \in Nat /\ attempts[r].unknown \in Nat
  BY <1>3 DEF Attempts
<1>7. ASSUME NEW t \in Targets PROVE Scans'[t] = Scans[t]
  <2>1. CASE t = r
    BY <1>3, <1>4, <1>5, <1>6, <2>1, AttemptFacts
  <2>2. CASE t /= r
    BY <1>3, <1>4, <1>5, <2>2, AttemptFacts
  <2> QED
    BY <2>1, <2>2
<1>8. /\ \A t \in Targets : Scans'[t] = Scans[t]
      /\ attempts' \in [Targets -> Attempts]
      /\ UNCHANGED <<latest, query, metadata, forebear, sent, dispatched>>
      /\ doing' = doing /\ doing = "scanning"
  BY <1>2, <1>4, <1>7
<1> QED
  BY ONLY <1>8, LineageInv, LineageInv', ChargeInv, EndedScansStayCharged

LEMMA InterruptIsCharged ==
  ASSUME LineageInv, LineageInv', ChargeInv, Interrupt PROVE ChargeInv'
<1>1. /\ doing' = "idle"
      /\ attempts' = [t \in Targets |->
             IF t \in RunningScans
             THEN [attempts[t] EXCEPT !.status = "none", !.unknown = @ + 1] ELSE attempts[t]]
      /\ UNCHANGED <<latest, query, metadata, forebear, changed, source, sent, dispatched>>
  BY DEF Interrupt
<1>2. BudgetType
  BY DEF ChargeInv
<1>3. ASSUME NEW t \in Targets
      PROVE  /\ attempts'[t] \in Attempts /\ attempts'[t].status /= "running"
             /\ Scans'[t] = Scans[t]
  <2>1. attempts[t] \in Attempts
    BY <1>2, AttemptFacts
  <2>2. Scans'[t] = attempts'[t].exact + attempts'[t].unknown
                       + (IF attempts'[t].status = "running" THEN 1 ELSE 0)
    BY DEF Scans
  <2>3. CASE t \in RunningScans
    <3>1. attempts'[t] = [attempts[t] EXCEPT !.status = "none", !.unknown = @ + 1]
      BY <1>1, <2>3
    <3>2. /\ attempts'[t].status = "none" /\ attempts'[t].exact = attempts[t].exact
          /\ attempts'[t].unknown = attempts[t].unknown + 1
      BY <2>1, <3>1 DEF Attempts
    <3>3. attempts[t].status = "running" /\ attempts[t].exact \in Nat /\ attempts[t].unknown \in Nat
      BY <2>1, <2>3 DEF RunningScans, Attempts
    <3>4. attempts'[t] \in Attempts
      <4>1. attempts'[t] = [status |-> attempts'[t].status, exact |-> attempts'[t].exact,
                            unknown |-> attempts'[t].unknown]
        BY <2>1, <3>1 DEF Attempts
      <4> QED
        BY <3>2, <3>3, <4>1 DEF Attempts
    <3> QED
      BY <1>2, <2>2, <3>2, <3>3, <3>4, AttemptFacts
  <2>4. CASE t \notin RunningScans
    <3>1. attempts'[t] = attempts[t] /\ attempts[t].status /= "running"
      BY <1>1, <2>4 DEF RunningScans
    <3> QED
      BY <1>2, <2>1, <2>2, <3>1, AttemptFacts
  <2> QED
    BY <2>3, <2>4
<1>4. attempts' \in [Targets -> Attempts] /\ RunningScans' = {}
  BY <1>1, <1>3 DEF RunningScans
<1> QED
  BY <1>1, <1>3, <1>4, EndedScansStayCharged

\* Steps that charge nothing, the remaining ones.
LEMMA EnqueuedIsCharged ==
  ASSUME LineageInv, NEW i \in QueryTasks
  PROVE  Enqueued[i].tries = query[i].tries /\ Enqueued[i].inherited = query[i].inherited
<1>1. query[i] \in Works
  BY DEF LineageInv, WorkInv
<1>2. \/ Enqueued[i] = query[i] \/ Enqueued[i] = [query[i] EXCEPT !.status = "pending"]
  BY DEF Enqueued
<1> QED
  BY <1>1, <1>2 DEF Works

LEMMA QuietStepsHold ==
  ASSUME LineageInv, LineageInv', ChargeInv,
         \/ RetryPreparation \/ MaterializeRows \/ EnqueueInherited \/ StartRun
         \/ AbandonLatest \/ DeployRepair \/ UNCHANGED lineageVars
  PROVE  ChargeInv'
<1>1. CASE RetryPreparation
  BY <1>1, QuietHolds DEF RetryPreparation, FirstStep, Preparing
<1>2. CASE MaterializeRows
  BY <1>2, QuietHolds DEF MaterializeRows, Preparing
<1>3. CASE EnqueueInherited
  <2>1. /\ query' = Enqueued /\ doing = "enqueuing" /\ doing' = "inheriting"
        /\ UNCHANGED <<latest, metadata, attempts, forebear, sent, dispatched>>
    BY <1>3 DEF EnqueueInherited
  <2> QED
    BY <2>1, EnqueuedIsCharged, QuietHolds DEF Preparing
<1>4. CASE StartRun
  <2>1. /\ query' = Enqueued /\ doing = "idle" /\ doing' = "discovering"
        /\ UNCHANGED <<metadata, attempts, forebear, sent, dispatched>>
        /\ latest' = [latest EXCEPT !.early = latest.early \/
                                       (latest.kind \in Cohorts /\ ~latest.seeded)]
    BY <1>4 DEF StartRun
  <2>2. \E early \in BOOLEAN :
           (latest.early => early) /\ latest' = [latest EXCEPT !.early = early]
    BY <2>1
  <2> QED
    BY <2>1, <2>2, EnqueuedIsCharged, QuietHolds DEF Preparing
<1>5. CASE AbandonLatest
  <2>1. /\ latest' = [latest EXCEPT !.open = FALSE] /\ doing = "idle" /\ doing' = doing
        /\ query' = [i \in QueryTasks |-> Unfinished(query[i])]
        /\ metadata' = Unfinished(metadata) /\ forebear' = NoRun
        /\ UNCHANGED <<attempts, sent, dispatched>>
    BY <1>5 DEF AbandonLatest
  <2>2. \A task \in Works : /\ Unfinished(task).tries = task.tries
                            /\ Unfinished(task).inherited = task.inherited
    BY DEF Works, Unfinished
  <2>3. (\A i \in QueryTasks : query[i] \in Works) /\ metadata \in Works
    BY DEF LineageInv, WorkInv
  <2> QED
    BY <2>1, <2>2, <2>3, QuietHolds DEF Preparing
<1>6. CASE DeployRepair
  BY <1>6, QuietHolds DEF DeployRepair
<1>7. CASE UNCHANGED lineageVars
  BY <1>7, QuietHolds DEF lineageVars
<1> QED
  BY <1>1, <1>2, <1>3, <1>4, <1>5, <1>6, <1>7

LEMMA ChargesStart == LineageInit => ChargeInv
<1> SUFFICES ASSUME LineageInit PROVE ChargeInv
  OBVIOUS
<1>0. LineageInv
  BY LineageStarts
<1>1. /\ latest.kind = "first" /\ latest.tasks = QueryTasks /\ latest.history = NoCharge
      /\ latest.past = NoScans /\ latest.seeded = TRUE /\ latest.early = FALSE
      /\ {"hop", "kind", "open", "tasks", "history", "past", "seeded", "early", "ledger"}
             \subseteq DOMAIN latest
  BY DEF LineageInit
<1>2. /\ query = [i \in QueryTasks |-> Absent] /\ metadata = Absent
      /\ attempts = [t \in Targets |-> Unscanned] /\ forebear = NoRun /\ doing = "idle"
      /\ sent = NoCharge /\ dispatched = 0
  BY DEF LineageInit
<1>3. "first" \notin Cohorts /\ "first" \notin Recoveries
  BY DEF Cohorts, Recoveries
<1>4. BudgetType
  <2>1. attempts \in [Targets -> Attempts]
    BY <1>2 DEF Attempts, Unscanned
  <2>2. latest.past.exact \in Nat /\ latest.past.unknown \in Nat
    BY <1>1 DEF NoScans
  <2>3. latest.history \in [Services -> Int] /\ sent \in [Services -> Int]
    BY <1>1, <1>2, NoChargeFacts
  <2>4. latest.tasks \subseteq QueryTasks
    BY <1>1
  <2>5. latest.seeded \in BOOLEAN /\ latest.early \in BOOLEAN
    BY <1>1
  <2>6. dispatched \in Int
    BY <1>2
  <2> QED
    BY <1>1, <2>1, <2>2, <2>3, <2>4, <2>5, <2>6 DEF BudgetType
<1>5. HeirsInv
  BY <1>2 DEF HeirsInv, Preparing
<1>6. (\A i \in QueryTasks : Awaited(i) = 0 /\ Owed[i] = 0) /\ AwaitedBatch = 0
      /\ ChargeOf(metadata) = 0
  BY <1>1, <1>2, <1>3 DEF Awaited, AwaitedBatch, Owed, ChargeOf, Absent
<1>7. ASSUME NEW s \in Services PROVE AnswersFor(s) = 0 /\ sent[s] = 0
  <2>1. SumFunctionOnSet(Owed, AskedOf(s)) = 0
    BY <1>6, AskedFacts, SumOfZeros
  <2>2. latest.history[s] = 0 /\ sent[s] = 0
    BY <1>1, <1>2, NoChargeFacts
  <2> QED
    BY <1>6, <2>1, <2>2 DEF AnswersFor
<1>8. RequestsInv
  BY <1>6, <1>7 DEF RequestsInv
<1>9. ScansInv
  <2>1. \A t \in Targets : Scans[t] = 0
    BY <1>2 DEF Scans, Unscanned
  <2>2. SumFunctionOnSet(Scans, Targets) = 0
    BY <2>1, TargetsAssumption, SumOfZeros
  <2>3. RunningScans = {}
    BY <1>2 DEF RunningScans, Unscanned
  <2> QED
    BY <1>1, <1>2, <2>2, <2>3 DEF ScansInv, NoScans
<1> QED
  BY <1>4, <1>5, <1>8, <1>9 DEF ChargeInv

LEMMA ChargesStep ==
  LineageInv /\ LineageInv' /\ ChargeInv /\ [LineageNext]_lineageVars => ChargeInv'
<1> SUFFICES ASSUME LineageInv, LineageInv', ChargeInv, [LineageNext]_lineageVars
             PROVE  ChargeInv'
  OBVIOUS
<1> QED
  BY ScopeIsCharged, TransportIsCharged, CohortIsCharged, InheritIsCharged,
     InheritedBatchIsCharged, FinishIsCharged, DiscoverIsCharged, ResolveIsCharged,
     DispatchIsCharged, FinishScanIsCharged, InterruptIsCharged, QuietStepsHold
  DEF LineageNext, Prepare, Reconcile

\* A lineage answers for what it spent: however many successors hand results on, however
\* often a preparation is cut short and repeated, every request, point and scan dispatch is
\* charged to the newest run, and charged once.  For any number of discovery tasks, targets
\* and successors.
THEOREM LineagesAreCharged == LineageSpec => []LineageIsCharged
<1>1. LineageInv /\ ChargeInv /\ [LineageNext]_lineageVars => ChargeInv'
  BY LineageStep, ChargesStep
<1>2. LineageSpec => [](LineageInv /\ ChargeInv)
  BY <1>1, ChargesStart, LineageStarts, LineageStep, PTL DEF LineageSpec
<1> QED
  BY <1>2, ChargesAreKept, PTL

--------------------------------------------------------------------------------
(* The citation stage. *)

Records == [papers : SUBSET Papers, links : [Papers -> SUBSET Labs], complete : BOOLEAN,
            gaps : BOOLEAN, origin : {"none", "refreshed", "carried"}]
Evidences == UNION {[set -> Nat] : set \in SUBSET Labs}
PaperRows == [Papers -> [cached : BOOLEAN, done : BOOLEAN, names : SUBSET Labs]]
Entries == [record : Records, fresh : BOOLEAN, works : SUBSET Papers, evidence : Evidences,
            rows : PaperRows]

\* A record is right about the heads in `evidence`.
HoldsFor(record, evidence) ==
    /\ \A p \in Papers : \A r \in record.links[p] :
          r \in DOMAIN evidence /\ (p \in Cites[r][evidence[r]] \/ r \in Named[p])
    /\ record.complete =>
          \A r \in DOMAIN evidence : \A p \in Cites[r][evidence[r]] \cap record.papers :
             r \in record.links[p]

\* A cached entry is right about the heads it was made from.
EntryHolds(e) ==
    /\ e.record.origin = "refreshed" => HoldsFor(e.record, e.evidence)
    /\ \A p \in Papers : e.rows[p].names \subseteq Named[p]

StandingType ==
    /\ visible \in SUBSET Labs
    /\ confirmed \in [Researched -> SUBSET Labs]
    /\ tip \in [Labs -> Nat] /\ \A r \in Labs : tip[r] \in 1 .. Len(Cites[r])
    /\ wording \in [Researched -> Wordings]
CacheType == cache \in [Researched -> [Wordings -> Entries]]
RefreshType ==
    refresh \in [stage : {"none", "refreshing", "published", "failed"},
                 todo : SUBSET Researched, output : [Researched -> Records]]
ResearchType == research \in [Researched -> Records]

\* Every entry of the cache is right about the heads it was made from, every record of this
\* run about the heads that are confirmed now.
SoundInv ==
    /\ StandingType /\ CacheType /\ RefreshType /\ ResearchType
    /\ \A l \in Researched : \A w \in Wordings : EntryHolds(cache[l][w])
    /\ refresh.stage = "refreshing" =>
          \A l \in Researched \ refresh.todo :
             refresh.output[l].origin = "refreshed" =>
                HoldsFor(refresh.output[l], LocalEvidence(l))
    /\ refresh.stage = "published" =>
          \A l \in Researched :
             research[l].origin = "refreshed" => HoldsFor(research[l], LocalEvidence(l))

\* The rows of a library are numbered from the newest one on, without a gap.
Contiguous(places) ==
    \A w \in Wordings : \A m \in 1 .. places[w] : \E v \in Wordings : places[v] = m
\* The library has a row.
Ever(l) == \E w \in Wordings : written[l][w] > 0
PlaceType == written \in [Researched -> [Wordings -> Nat]]
\* The wordings with a snapshot, and only they, have a place, and places have no gap.
PlacesInv ==
    /\ PlaceType
    /\ \A l \in Researched : Contiguous(written[l])
    /\ \A l \in Researched : \A w \in Wordings :
          /\ written[l][w] > 0 <=> HasSnapshot(cache[l][w])
          /\ cache[l][w].fresh => HasSnapshot(cache[l][w])

\* A library outside V1 that was published has a row, and is not passed over while it has one.
GoodInv ==
    /\ \A l \in Researched \ V1Researched : research[l].origin /= "none" => Ever(l)
    /\ refresh.stage = "refreshing" =>
          /\ \A l \in Researched : refresh.output[l].origin /= "none" => Ever(l)
          /\ \A l \in Researched \ (refresh.todo \cup V1Researched) :
                research[l].origin /= "none" => refresh.output[l].origin /= "none"

\* The inductive invariant of the citations.
CitationInv == SoundInv /\ PlacesInv /\ GoodInv

LEMMA CitationConstants ==
    /\ KeptWordings \in Nat \ {0}
    /\ \E w \in Wordings : TRUE
    /\ \A p \in Papers : Named[p] \in SUBSET Labs
    /\ \A r \in Labs : Cites[r] \in Seq(SUBSET Papers) /\ Len(Cites[r]) \in Nat \ {0}
  BY CitationAssumption

LEMMA CitedArePapers ==
  ASSUME StandingType, NEW r \in Labs PROVE CitedBy(r) \in SUBSET Papers
  BY CitationConstants DEF StandingType, CitedBy

LEMMA EvidenceIsTyped ==
  ASSUME StandingType, NEW l \in Researched
  PROVE  /\ LocalEvidence(l) \in Evidences
         /\ DOMAIN LocalEvidence(l) = confirmed[l]
         /\ \A r \in confirmed[l] : LocalEvidence(l)[r] = tip[r]
         /\ confirmed[l] \in SUBSET Labs
<1>1. confirmed[l] \in SUBSET Labs /\ \A r \in confirmed[l] : tip[r] \in Nat
  BY DEF StandingType
<1>2. LocalEvidence(l) \in [confirmed[l] -> Nat]
  BY <1>1 DEF LocalEvidence
<1> QED
  BY <1>1, <1>2 DEF LocalEvidence, Evidences

LEMMA NoRecordIsRecord == NoRecord \in Records /\ NoRecord.origin = "none"
  BY DEF NoRecord, Records, Unlinked

LEMMA LastGoodIsRecord ==
  ASSUME NEW record \in Records
  PROVE  LastGood(record) \in Records /\ LastGood(record).origin = "carried"
  BY DEF LastGood, Records

LEMMA NoEntryIsEntry == NoEntry \in Entries /\ EntryHolds(NoEntry) /\ ~HasSnapshot(NoEntry)
<1>1. NoEvidence \in Evidences
  <2>1. NoEvidence \in [{} -> Nat]
    BY DEF NoEvidence
  <2> QED
    BY <2>1 DEF Evidences
<1>2. [p \in Papers |-> NoPaper] \in PaperRows
  BY DEF PaperRows, NoPaper
<1>3. NoEntry \in Entries
  BY <1>1, <1>2, NoRecordIsRecord DEF NoEntry, Entries
<1>4. EntryHolds(NoEntry) /\ ~HasSnapshot(NoEntry)
  BY NoRecordIsRecord DEF NoEntry, EntryHolds, HasSnapshot, NoPaper
<1> QED
  BY <1>3, <1>4

LEMMA EntryFacts ==
  ASSUME NEW e \in Entries
  PROVE  /\ e.record \in Records /\ e.fresh \in BOOLEAN /\ e.works \in SUBSET Papers
         /\ e.evidence \in Evidences
         /\ \A p \in Papers : e.rows[p].names \in SUBSET Labs /\ e.rows[p] \in
               [cached : BOOLEAN, done : BOOLEAN, names : SUBSET Labs]
  BY DEF Entries, PaperRows

\* A record that is built is right about the heads it was built from.
LEMMA RecordBuilt ==
  ASSUME SoundInv, NEW l \in Researched, NEW works \in SUBSET Papers, NEW answered \in BOOLEAN,
         NEW revised, BuildRecord(l, works, answered, revised)
  PROVE  \E e \in Entries :
            /\ EntryHolds(e) /\ e.record.origin = "refreshed" /\ e.evidence = LocalEvidence(l)
            /\ Store(l, e) /\ Output(l, e.record)
<1> DEFINE recalled == Recalled(l, works)
           unknown == CitedFor(l) \ (works \cup recalled)
<1> DEFINE Built(unresolved, unheard) ==
        LET papers == works \cup recalled \cup (unknown \ (unresolved \cup unheard))
            unread == Unread(l, papers, revised)
        IN  \E failed \in SUBSET unread : \E skipped \in SUBSET (unread \ failed) :
            LET lost == failed \cup skipped
                names == NamesFound(l, papers, unread, lost)
                gaps == unresolved \cup failed /= {}
                record == [papers |-> papers, links |-> LinksOf(l, names),
                           complete |-> answered /\ ~gaps /\ skipped = {},
                           gaps |-> gaps, origin |-> "refreshed"]
            IN  /\ Store(l, [record |-> record, fresh |-> answered, works |-> papers,
                             evidence |-> LocalEvidence(l),
                             rows |-> RowsLeft(l, names, lost, answered)])
                /\ Output(l, record)
<1>0. \E unresolved \in SUBSET unknown : \E unheard \in SUBSET (unknown \ unresolved) :
          Built(unresolved, unheard)
  BY DEF BuildRecord
<1> HIDE DEF Built
<1>a. PICK unresolved \in SUBSET unknown : \E unheard \in SUBSET (unknown \ unresolved) :
          Built(unresolved, unheard)
  BY <1>0
<1>b. PICK unheard \in SUBSET (unknown \ unresolved) : Built(unresolved, unheard)
  BY <1>a
<1> USE DEF Built
<1>1. Built(unresolved, unheard)
  BY <1>b
<1> DEFINE papers == works \cup recalled \cup (unknown \ (unresolved \cup unheard))
           unread == Unread(l, papers, revised)
<1> DEFINE Read(failed, skipped) ==
        LET lost == failed \cup skipped
            names == NamesFound(l, papers, unread, lost)
            gaps == unresolved \cup failed /= {}
            record == [papers |-> papers, links |-> LinksOf(l, names),
                       complete |-> answered /\ ~gaps /\ skipped = {},
                       gaps |-> gaps, origin |-> "refreshed"]
        IN  /\ Store(l, [record |-> record, fresh |-> answered, works |-> papers,
                         evidence |-> LocalEvidence(l),
                         rows |-> RowsLeft(l, names, lost, answered)])
            /\ Output(l, record)
<1>c. \E failed \in SUBSET unread : \E skipped \in SUBSET (unread \ failed) :
          Read(failed, skipped)
  BY <1>1
<1> HIDE DEF Read
<1>d. PICK failed \in SUBSET unread : \E skipped \in SUBSET (unread \ failed) :
          Read(failed, skipped)
  BY <1>c
<1>e. PICK skipped \in SUBSET (unread \ failed) : Read(failed, skipped)
  BY <1>d
<1> USE DEF Read
<1>2. Read(failed, skipped)
  BY <1>e
<1> DEFINE lost == failed \cup skipped
           names == NamesFound(l, papers, unread, lost)
           gaps == unresolved \cup failed /= {}
           record == [papers |-> papers, links |-> LinksOf(l, names),
                      complete |-> answered /\ ~gaps /\ skipped = {},
                      gaps |-> gaps, origin |-> "refreshed"]
           entry == [record |-> record, fresh |-> answered, works |-> papers,
                     evidence |-> LocalEvidence(l), rows |-> RowsLeft(l, names, lost, answered)]
<1>3. Entry(l) \in Entries /\ EntryHolds(Entry(l))
  BY DEF SoundInv, StandingType, CacheType, Entry
<1>4. papers \in SUBSET Papers
  <2>1. CitedFor(l) \in SUBSET Papers
    BY CitedArePapers, EvidenceIsTyped DEF CitedFor, SoundInv
  <2> QED
    BY <2>1 DEF Recalled
<1>5. /\ DOMAIN names = papers
      /\ \A p \in papers : names[p] \in SUBSET Labs /\ names[p] \subseteq Named[p]
  <2>1. \A p \in papers : Entry(l).rows[p].names \subseteq Named[p] /\ Named[p] \in SUBSET Labs
    BY <1>3, <1>4, CitationConstants DEF EntryHolds
  <2> QED
    BY <2>1 DEF NamesFound
<1>6. confirmed[l] \in SUBSET Labs
  BY EvidenceIsTyped DEF SoundInv
<1>7. LinksOf(l, names) \in [Papers -> SUBSET Labs]
  BY <1>6 DEF LinksOf
<1>8. record \in Records
  BY <1>4, <1>7 DEF Records
<1>9. RowsLeft(l, names, lost, answered) \in PaperRows
      /\ \A p \in Papers : RowsLeft(l, names, lost, answered)[p].names \subseteq Named[p]
  <2> DEFINE row(p) == IF p \in DOMAIN names
                       THEN [cached |-> TRUE, done |-> p \notin lost, names |-> names[p]]
                       ELSE IF answered THEN NoPaper ELSE Entry(l).rows[p]
  <2>1. ASSUME NEW p \in Papers
        PROVE  /\ row(p) \in [cached : BOOLEAN, done : BOOLEAN, names : SUBSET Labs]
               /\ row(p).names \subseteq Named[p]
    <3>1. CASE p \in papers
      BY <1>5, <3>1
    <3>2. CASE p \notin papers
      BY <1>3, <1>5, <3>2, EntryFacts DEF EntryHolds, NoPaper
    <3> QED
      BY <3>1, <3>2
  <2>2. RowsLeft(l, names, lost, answered) = [p \in Papers |-> row(p)]
    BY DEF RowsLeft
  <2> QED
    BY <2>1, <2>2 DEF PaperRows
<1>10. entry \in Entries
  BY <1>4, <1>8, <1>9, EvidenceIsTyped DEF Entries, SoundInv
<1>11. HoldsFor(record, LocalEvidence(l))
  <2>1. \A r \in confirmed[l] : CitedBy(r) = Cites[r][LocalEvidence(l)[r]]
    BY EvidenceIsTyped DEF CitedBy, SoundInv
  <2>2. \A p \in Papers : \A r \in LinksOf(l, names)[p] :
           r \in confirmed[l] /\ (p \in CitedBy(r) \/ r \in Named[p])
    BY <1>5 DEF LinksOf
  <2>3. \A p \in papers : \A r \in confirmed[l] : p \in CitedBy(r) => r \in LinksOf(l, names)[p]
    BY <1>4, <1>5 DEF LinksOf
  <2>4. record.links = LinksOf(l, names) /\ record.papers = papers
    OBVIOUS
  <2>5. DOMAIN LocalEvidence(l) = confirmed[l]
    BY EvidenceIsTyped DEF SoundInv
  <2> HIDE DEF record, names, papers
  <2>6. \A p \in Papers : \A r \in record.links[p] :
           /\ r \in DOMAIN LocalEvidence(l)
           /\ p \in Cites[r][LocalEvidence(l)[r]] \/ r \in Named[p]
    BY <2>1, <2>2, <2>4, <2>5
  <2>7. \A r \in DOMAIN LocalEvidence(l) :
           \A p \in Cites[r][LocalEvidence(l)[r]] \cap record.papers : r \in record.links[p]
    BY <2>1, <2>3, <2>4, <2>5
  <2> QED
    BY <2>6, <2>7 DEF HoldsFor
<1>12. EntryHolds(entry)
  BY <1>9, <1>11 DEF EntryHolds
<1> QED
  BY <1>2, <1>10, <1>12

\* What a library is served or refreshed with.
LEMMA OutputFacts ==
  ASSUME RefreshType, NEW l \in Researched, NEW record \in Records, Output(l, record)
  PROVE  /\ RefreshType' /\ refresh'.stage = refresh.stage /\ refresh'.todo = refresh.todo \ {l}
         /\ refresh'.output[l] = record
         /\ \A m \in Researched : m /= l => refresh'.output[m] = refresh.output[m]
  BY DEF RefreshType, Output

LEMMA StoreFacts ==
  ASSUME CacheType, StandingType, NEW l \in Researched, NEW e \in Entries, Store(l, e)
  PROVE  /\ CacheType' /\ cache'[l][wording[l]] = e
         /\ \A m \in Researched : \A w \in Wordings :
               m /= l \/ w /= wording[l] => cache'[m][w] = cache[m][w]
  BY DEF CacheType, StandingType, Store

LEMMA LeastPlace ==
  ASSUME NEW places \in [Wordings -> Nat], Contiguous(places), NEW u \in Wordings,
         NEW w \in Wordings, w /= u, places[w] > 0
  PROVE  \E x \in {v \in Wordings : v /= u /\ places[v] > 0} :
            \A y \in {v \in Wordings : v /= u /\ places[v] > 0} : places[x] =< places[y]
<1>1. CASE \E x \in Wordings : x /= u /\ places[x] = 1
  BY <1>1
<1>2. CASE \A x \in Wordings : x /= u => places[x] /= 1
  <2>1. places[w] >= 2 /\ 1 \in 1 .. places[w] /\ 2 \in 1 .. places[w]
    BY <1>2
  <2>2. PICK x \in Wordings : places[x] = 1
    BY <2>1 DEF Contiguous
  <2>3. PICK y \in Wordings : places[y] = 2
    BY <2>1 DEF Contiguous
  <2>4. x = u /\ y /= u
    BY <1>2, <2>2, <2>3
  <2>5. \A z \in Wordings : z /= u /\ places[z] > 0 => places[y] =< places[z]
    BY <1>2, <2>3
  <2> QED
    BY <2>3, <2>4, <2>5
<1> QED
  BY <1>1, <1>2

LEMMA ForemostFacts ==
  ASSUME NEW places \in [Wordings -> Nat], Contiguous(places), NEW w \in Wordings
  PROVE  /\ Foremost(places, w) \in [Wordings -> Nat]
         /\ Contiguous(Foremost(places, w))
         /\ Foremost(places, w)[w] > 0
         /\ \A v \in Wordings : v /= w => (Foremost(places, w)[v] > 0 <=> places[v] > 0)
<1> DEFINE next == Foremost(places, w)
<1>1. /\ next \in [Wordings -> Nat] /\ next[w] = 1
      /\ \A v \in Wordings : v /= w =>
            next[v] = IF places[v] > 0 /\ (places[w] = 0 \/ places[v] < places[w])
                      THEN places[v] + 1 ELSE places[v]
  BY DEF Foremost
<1> HIDE DEF next
<1>2. ASSUME NEW v \in Wordings, NEW m \in 1 .. next[v] PROVE \E x \in Wordings : next[x] = m
  <2>1. CASE m = 1
    BY <1>1, <2>1
  <2>2. CASE m > 1 /\ places[w] = 0
    <3>1. v /= w /\ next[v] = places[v] + 1
      BY <1>1, <1>2, <2>2
    <3>2. m - 1 \in 1 .. places[v]
      BY <1>2, <2>2, <3>1
    <3>3. PICK x \in Wordings : places[x] = m - 1
      BY <3>2 DEF Contiguous
    <3> QED
      BY <1>1, <1>2, <2>2, <3>3
  <2>3. CASE m > 1 /\ places[w] > 0 /\ m =< places[w]
    <3>1. m - 1 \in 1 .. places[w]
      BY <2>3
    <3>2. PICK x \in Wordings : places[x] = m - 1
      BY <3>1 DEF Contiguous
    <3> QED
      BY <1>1, <1>2, <2>3, <3>2
  <2>4. CASE m > 1 /\ places[w] > 0 /\ m > places[w]
    <3>1. v /= w /\ m \in 1 .. places[v]
      BY <1>1, <1>2, <2>4
    <3>2. PICK x \in Wordings : places[x] = m
      BY <3>1 DEF Contiguous
    <3> QED
      BY <1>1, <1>2, <2>4, <3>2
  <2> QED
    BY <1>2, <2>1, <2>2, <2>3, <2>4
<1>3. Contiguous(next)
  BY <1>2 DEF Contiguous
<1>4. next[w] > 0 /\ \A v \in Wordings : v /= w => (next[v] > 0 <=> places[v] > 0)
  BY <1>1
<1> QED
  BY <1>1, <1>3, <1>4 DEF next

\* The entry a library falls back on is one of its own, and there is one if there ever was.
LEMMA PriorIsEntry ==
  ASSUME CitationInv, NEW l \in Researched
  PROVE  Prior(l) \in Entries /\ EntryHolds(Prior(l)) /\ (HasSnapshot(Prior(l)) <=> Ever(l))
<1>0. /\ written[l] \in [Wordings -> Nat] /\ Contiguous(written[l]) /\ wording[l] \in Wordings
      /\ \A w \in Wordings : cache[l][w] \in Entries /\ EntryHolds(cache[l][w])
      /\ \A w \in Wordings : written[l][w] > 0 <=> HasSnapshot(cache[l][w])
  BY DEF CitationInv, SoundInv, PlacesInv, PlaceType, StandingType, CacheType
<1> DEFINE others == {w \in Wordings : w /= wording[l] /\ written[l][w] > 0}
           Least(w) == \A v \in others : written[l][w] =< written[l][v]
<1>1. CASE HasSnapshot(Entry(l))
  BY <1>0, <1>1 DEF Prior, Entry, Ever
<1>2. CASE ~HasSnapshot(Entry(l)) /\ others = {}
  <2>1. Prior(l) = NoEntry
    BY <1>2 DEF Prior, PriorSnapshot, LatestSnapshot
  <2>2. ~Ever(l)
    BY <1>0, <1>2 DEF Ever, Entry
  <2> QED
    BY <2>1, <2>2, NoEntryIsEntry
<1>3. CASE ~HasSnapshot(Entry(l)) /\ others /= {}
  <2>1. \E w \in others : Least(w)
    BY <1>0, <1>3, LeastPlace
  <2>2. (CHOOSE w \in others : Least(w)) \in others
    BY <2>1
  <2>3. Prior(l) = cache[l][CHOOSE w \in others : Least(w)]
    BY <1>3 DEF Prior, PriorSnapshot, LatestSnapshot
  <2> HIDE DEF Least
  <2> QED
    BY <1>0, <2>2, <2>3 DEF Ever
<1> QED
  BY <1>1, <1>2, <1>3

--------------------------------------------------------------------------------
(* What is done for a library: a record for this run, with or without a row of its own. *)

Done(l, record) ==
    /\ refresh.stage = "refreshing" /\ l \in Researched
    /\ record \in Records
    /\ record.origin = "refreshed" => HoldsFor(record, LocalEvidence(l))
    /\ record.origin /= "none" => Ever(l)'
    /\ Ever(l) => record.origin /= "none"
    /\ \/ UNCHANGED <<cache, written>>
       \/ \E e \in Entries : EntryHolds(e) /\ HasSnapshot(e) /\ Store(l, e)
    /\ Output(l, record)
    /\ UNCHANGED <<visible, confirmed, tip, wording, research, refreshes>>

LEMMA StoredPlaces ==
  ASSUME CitationInv, NEW l \in Researched, NEW e \in Entries, HasSnapshot(e), Store(l, e)
  PROVE  PlacesInv' /\ Ever(l)' /\ \A m \in Researched : Ever(m) => Ever(m)'
<1>1. /\ CacheType /\ StandingType /\ PlaceType /\ wording[l] \in Wordings
      /\ written[l] \in [Wordings -> Nat] /\ Contiguous(written[l])
  BY DEF CitationInv, SoundInv, PlacesInv, PlaceType, StandingType
<1>2. PlaceType' /\ written'[l] = Foremost(written[l], wording[l])
      /\ \A m \in Researched : m /= l => written'[m] = written[m]
  BY <1>1, ForemostFacts DEF Store, PlaceType
<1>3. \A m \in Researched : Contiguous(written'[m])
  BY <1>1, <1>2, ForemostFacts DEF CitationInv, PlacesInv
<1>4. ASSUME NEW m \in Researched, NEW w \in Wordings
      PROVE  /\ written'[m][w] > 0 <=> HasSnapshot(cache'[m][w])
             /\ cache'[m][w].fresh => HasSnapshot(cache'[m][w])
             /\ written[m][w] > 0 => written'[m][w] > 0
  <2>1. CASE m = l /\ w = wording[l]
    BY <1>1, <1>2, <2>1, ForemostFacts, StoreFacts
  <2>2. CASE m = l /\ w /= wording[l]
    <3>1. cache'[m][w] = cache[m][w]
      BY <1>1, <2>2, StoreFacts
    <3>2. written'[m][w] > 0 <=> written[m][w] > 0
      BY <1>1, <1>2, <2>2, ForemostFacts
    <3> QED
      BY <3>1, <3>2 DEF CitationInv, PlacesInv
  <2>3. CASE m /= l
    <3>1. cache'[m][w] = cache[m][w] /\ written'[m][w] = written[m][w]
      BY <1>1, <1>2, <2>3, StoreFacts
    <3> QED
      BY <3>1 DEF CitationInv, PlacesInv
  <2> QED
    BY <2>1, <2>2, <2>3
<1>5. Ever(l)'
  BY <1>1, <1>2, ForemostFacts DEF Ever
<1>6. \A m \in Researched : Ever(m) => Ever(m)'
  BY <1>4 DEF Ever
<1> QED
  BY <1>2, <1>3, <1>4, <1>5, <1>6 DEF PlacesInv, HasSnapshot

\* Whatever way the record of a library is produced, it is sound.
LEMMA DoneIsSound ==
  ASSUME CitationInv, NEW l, NEW record, Done(l, record)
  PROVE  CitationInv'
<1>0. /\ l \in Researched /\ record \in Records /\ refresh.stage = "refreshing"
      /\ Output(l, record)
  BY DEF Done
<1>1. StandingType' /\ ResearchType'
  BY DEF CitationInv, SoundInv, StandingType, ResearchType, Done
<1>2. \A m \in Researched : LocalEvidence(m)' = LocalEvidence(m)
  BY DEF LocalEvidence, Done
<1>3. RefreshType' /\ refresh'.stage = "refreshing"
  BY <1>0, OutputFacts DEF CitationInv, SoundInv
<1>4. ASSUME NEW m \in Researched \ refresh'.todo, refresh'.output[m].origin = "refreshed"
      PROVE  HoldsFor(refresh'.output[m], LocalEvidence(m))
  <2>1. CASE m = l
    BY <1>0, <1>4, <2>1, OutputFacts DEF CitationInv, SoundInv, Done
  <2>2. CASE m /= l
    BY <1>0, <1>4, <2>2, OutputFacts DEF CitationInv, SoundInv
  <2> QED
    BY <2>1, <2>2
<1>5. CacheType' /\ \A m \in Researched : \A w \in Wordings : EntryHolds(cache'[m][w])
  <2>1. CASE UNCHANGED <<cache, written>>
    BY <2>1 DEF CitationInv, SoundInv, CacheType
  <2>2. CASE \E e \in Entries : EntryHolds(e) /\ HasSnapshot(e) /\ Store(l, e)
    BY <1>0, <2>2, StoreFacts DEF CitationInv, SoundInv
  <2> QED
    BY <2>1, <2>2 DEF Done
<1>6. SoundInv'
  BY <1>1, <1>2, <1>3, <1>4, <1>5 DEF SoundInv, EntryHolds, HoldsFor
<1>7. PlacesInv' /\ \A m \in Researched : Ever(m) => Ever(m)'
  <2>1. CASE UNCHANGED <<cache, written>>
    BY <2>1 DEF CitationInv, PlacesInv, PlaceType, HasSnapshot, Ever
  <2>2. CASE \E e \in Entries : EntryHolds(e) /\ HasSnapshot(e) /\ Store(l, e)
    BY <1>0, <2>2, StoredPlaces
  <2> QED
    BY <2>1, <2>2 DEF Done
<1>8. GoodInv'
  <2>1. \A m \in Researched \ V1Researched : research'[m].origin /= "none" => Ever(m)'
    BY <1>7 DEF CitationInv, GoodInv, Done
  <2>2. ASSUME NEW m \in Researched, refresh'.output[m].origin /= "none" PROVE Ever(m)'
    <3>1. CASE m = l
      BY <1>0, <2>2, <3>1, OutputFacts DEF CitationInv, SoundInv, Done
    <3>2. CASE m /= l
      BY <1>0, <1>7, <2>2, <3>2, OutputFacts DEF CitationInv, SoundInv, GoodInv
    <3> QED
      BY <3>1, <3>2
  <2>3. ASSUME NEW m \in Researched \ (refresh'.todo \cup V1Researched),
               research'[m].origin /= "none"
        PROVE  refresh'.output[m].origin /= "none"
    <3>1. research' = research
      BY DEF Done
    <3>2. CASE m = l
      BY <1>0, <2>3, <3>1, <3>2, OutputFacts DEF CitationInv, SoundInv, GoodInv, Done
    <3>3. CASE m /= l
      BY <1>0, <2>3, <3>1, <3>3, OutputFacts DEF CitationInv, SoundInv, GoodInv
    <3> QED
      BY <3>2, <3>3
  <2> QED
    BY <1>3, <2>1, <2>2, <2>3 DEF GoodInv
<1> QED
  BY <1>6, <1>7, <1>8 DEF CitationInv

LEMMA EntryHere ==
  ASSUME CitationInv, NEW l \in Researched
  PROVE  /\ Entry(l) \in Entries /\ EntryHolds(Entry(l))
         /\ Entry(l).fresh => HasSnapshot(Entry(l)) /\ (HasSnapshot(Entry(l)) => Ever(l))
  BY DEF CitationInv, SoundInv, PlacesInv, StandingType, CacheType, Entry, Ever

LEMMA ServeIsDone ==
  ASSUME CitationInv, NEW l \in Researched, ServeSnapshot(l) PROVE Done(l, Entry(l).record)
<1>1. Entry(l) \in Entries /\ EntryHolds(Entry(l)) /\ HasSnapshot(Entry(l)) /\ Ever(l)
  BY EntryHere DEF ServeSnapshot
<1>2. Entry(l).record \in Records
  BY <1>1, EntryFacts
<1>3. Entry(l).record.origin = "refreshed" => HoldsFor(Entry(l).record, LocalEvidence(l))
  BY <1>1 DEF ServeSnapshot, Reprocess, SameEvidence, EntryHolds
<1>4. UNCHANGED <<visible, confirmed, tip, wording, cache, written, research, refreshes>>
  BY DEF ServeSnapshot
<1>5. Ever(l)'
  BY <1>1, <1>4 DEF Ever
<1> QED
  BY <1>1, <1>2, <1>3, <1>4, <1>5 DEF Done, ServeSnapshot, Refreshing, HasSnapshot

LEMMA BuildIsDone ==
  ASSUME CitationInv, NEW l \in Researched, NEW works \in SUBSET Papers,
         NEW answered \in BOOLEAN, NEW revised, BuildRecord(l, works, answered, revised),
         refresh.stage = "refreshing",
         UNCHANGED <<visible, confirmed, tip, wording, research, refreshes>>
  PROVE  \E record : Done(l, record)
<1>1. PICK e \in Entries :
        /\ EntryHolds(e) /\ e.record.origin = "refreshed" /\ e.evidence = LocalEvidence(l)
        /\ Store(l, e) /\ Output(l, e.record)
  BY RecordBuilt DEF CitationInv
<1>2. e.record \in Records /\ HoldsFor(e.record, LocalEvidence(l)) /\ HasSnapshot(e)
  BY <1>1, EntryFacts DEF EntryHolds, HasSnapshot
<1>3. Ever(l)'
  BY <1>1, <1>2, StoredPlaces
<1> QED
  BY <1>1, <1>2, <1>3 DEF Done

LEMMA FailureIsDone ==
  ASSUME CitationInv, NEW l \in Researched, HardFailure(l)
  PROVE  \E record : Done(l, record)
<1>1. CASE HasSnapshot(Prior(l))
  <2> DEFINE record == LastGood(Prior(l).record)
             e == [Entry(l) EXCEPT !.record = record, !.fresh = FALSE,
                                   !.works = Prior(l).works, !.evidence = LocalEvidence(l)]
  <2>1. Prior(l).record \in Records /\ Prior(l).works \in SUBSET Papers
    BY PriorIsEntry, EntryFacts
  <2>2. record \in Records /\ record.origin = "carried"
    BY <2>1, LastGoodIsRecord
  <2>3. Entry(l) \in Entries /\ EntryHolds(Entry(l)) /\ LocalEvidence(l) \in Evidences
    BY EntryHere, EvidenceIsTyped DEF CitationInv, SoundInv
  <2>4. e \in Entries /\ e.record = record /\ e.rows = Entry(l).rows
    BY <2>1, <2>2, <2>3 DEF Entries
  <2>5. EntryHolds(e) /\ HasSnapshot(e)
    BY <2>2, <2>3, <2>4 DEF EntryHolds, HasSnapshot
  <2>6. Store(l, e) /\ Output(l, record)
    BY <1>1 DEF HardFailure
  <2>7. Ever(l)'
    BY <2>4, <2>5, <2>6, StoredPlaces
  <2> QED
    BY <2>2, <2>4, <2>5, <2>6, <2>7 DEF Done, HardFailure, Refreshing
<1>2. CASE ~HasSnapshot(Prior(l))
  <2>1. ~Ever(l)
    BY <1>2, PriorIsEntry
  <2> QED
    BY <1>2, <2>1, NoRecordIsRecord DEF Done, HardFailure, Refreshing
<1> QED
  BY <1>1, <1>2

LEMMA WorkIsDone ==
  ASSUME CitationInv, NEW l \in Researched,
         ServeSnapshot(l) \/ ReprocessSnapshot(l) \/ QueryWorks(l) \/ HardFailure(l)
  PROVE  \E record : Done(l, record)
<1>1. CASE ReprocessSnapshot(l)
  <2>1. Entry(l) \in Entries
    BY EntryHere
  <2>2. Entry(l).record.complete \in BOOLEAN
        /\ Entry(l).works \cap CachedPapers(l) \in SUBSET Papers
    BY <2>1, EntryFacts DEF Records
  <2> QED
    BY <1>1, <2>2, BuildIsDone DEF ReprocessSnapshot, Refreshing
<1>2. CASE QueryWorks(l)
  <2>1. PICK works \in SUBSET Papers, answered \in BOOLEAN :
          \E revised \in SUBSET (works \cap CachedPapers(l)) :
              BuildRecord(l, works, answered, revised)
    BY <1>2 DEF QueryWorks
  <2>2. PICK revised \in SUBSET (works \cap CachedPapers(l)) :
          BuildRecord(l, works, answered, revised)
    BY <2>1
  <2> QED
    BY <1>2, <2>2, BuildIsDone DEF QueryWorks, Refreshing
<1> QED
  BY <1>1, <1>2, ServeIsDone, FailureIsDone

--------------------------------------------------------------------------------
(* The steps of the stage. *)

LEMMA DocumentFacts ==
  ASSUME RefreshType
  PROVE  /\ Document \in [Researched -> Records]
         /\ \A l \in Researched :
               /\ refresh.output[l].origin /= "none" => Document[l] = refresh.output[l]
               /\ refresh.output[l].origin = "none" => Document[l] = V1Record(l)
               /\ l \notin V1Researched => V1Record(l).origin = "none"
               /\ l \in V1Researched => V1Record(l).origin = "carried"
<1>1. \A l \in Researched : refresh.output[l] \in Records
  BY DEF RefreshType
<1>2. ASSUME NEW l \in Researched
      PROVE  /\ V1Record(l) \in Records
             /\ l \notin V1Researched => V1Record(l).origin = "none"
             /\ l \in V1Researched => V1Record(l).origin = "carried"
  BY NoRecordIsRecord, LastGoodIsRecord DEF V1Record
<1> QED
  BY <1>1, <1>2 DEF Document, Fallback

LEMMA PublishKeeps ==
  ASSUME CitationInv, PublishCitations PROVE CitationInv'
<1>1. /\ refresh.stage = "refreshing" /\ refresh.todo = {} /\ research' = Document
      /\ refresh' = [refresh EXCEPT !.stage = "published"]
      /\ cache' = [l \in Researched |-> Compacted(l)]
      /\ written' = [l \in Researched |->
                       [w \in Wordings |-> IF w \in Kept(l) THEN written[l][w] ELSE 0]]
      /\ UNCHANGED <<visible, confirmed, tip, wording, refreshes>>
  BY DEF PublishCitations
<1>2. StandingType' /\ RefreshType' /\ ResearchType' /\ refresh'.stage = "published"
  BY <1>1, DocumentFacts
  DEF CitationInv, SoundInv, StandingType, RefreshType, ResearchType
<1>3. ASSUME NEW l \in Researched, NEW w \in Wordings
      PROVE  /\ w \in Kept(l) => cache'[l][w] = cache[l][w] /\ written'[l][w] = written[l][w]
             /\ w \notin Kept(l) => cache'[l][w] = NoEntry /\ written'[l][w] = 0
             /\ w \in Kept(l) <=> written[l][w] \in 1 .. KeptWordings
  BY <1>1 DEF Compacted, Kept
<1>4. PlaceType /\ CacheType /\ KeptWordings \in Nat \ {0}
  BY CitationConstants DEF CitationInv, SoundInv, PlacesInv
<1>5. \A l \in Researched : \A w \in Wordings : cache'[l][w] \in Entries /\ EntryHolds(cache'[l][w])
  BY <1>3, NoEntryIsEntry DEF CitationInv, SoundInv, CacheType
<1>6. CacheType'
  BY <1>1, <1>5 DEF CacheType, Compacted
<1>7. ASSUME NEW l \in Researched, research'[l].origin = "refreshed"
      PROVE  HoldsFor(research'[l], LocalEvidence(l)')
  <2>1. LocalEvidence(l)' = LocalEvidence(l)
    BY <1>1 DEF LocalEvidence
  <2>2. Document[l] = refresh.output[l]
    BY <1>1, <1>7, DocumentFacts DEF CitationInv, SoundInv
  <2> QED
    BY <1>1, <1>7, <2>1, <2>2 DEF CitationInv, SoundInv
<1>8. SoundInv'
  BY <1>2, <1>5, <1>6, <1>7 DEF SoundInv, EntryHolds, HoldsFor
<1>9. PlaceType'
  BY <1>1, <1>4 DEF PlaceType
<1>10. ASSUME NEW l \in Researched PROVE Contiguous(written'[l])
  <2>1. ASSUME NEW w \in Wordings, NEW m \in 1 .. written'[l][w]
        PROVE  \E v \in Wordings : written'[l][v] = m
    <3>0. written[l] \in [Wordings -> Nat]
      BY <1>4 DEF PlaceType
    <3>1. w \in Kept(l)
      BY <1>3, <2>1
    <3>2. m \in 1 .. written[l][w] /\ m \in 1 .. KeptWordings
      BY <1>3, <1>4, <2>1, <3>0, <3>1
    <3>3. PICK v \in Wordings : written[l][v] = m
      BY <3>2 DEF CitationInv, PlacesInv, Contiguous
    <3> QED
      BY <1>3, <3>2, <3>3
  <2> QED
    BY <2>1 DEF Contiguous
<1>11. ASSUME NEW l \in Researched, NEW w \in Wordings
       PROVE  /\ written'[l][w] > 0 <=> HasSnapshot(cache'[l][w])
              /\ cache'[l][w].fresh => HasSnapshot(cache'[l][w])
  <2>1. CASE w \in Kept(l)
    BY <1>3, <2>1 DEF CitationInv, PlacesInv
  <2>2. CASE w \notin Kept(l)
    BY <1>3, <2>2, NoEntryIsEntry DEF NoEntry
  <2> QED
    BY <2>1, <2>2
<1>12. PlacesInv'
  BY <1>9, <1>10, <1>11 DEF PlacesInv, HasSnapshot, Contiguous
<1>13. ASSUME NEW l \in Researched, Ever(l) PROVE Ever(l)'
  <2>0. written[l] \in [Wordings -> Nat]
    BY <1>4 DEF PlaceType
  <2>1. PICK w \in Wordings : written[l][w] > 0
    BY <1>13 DEF Ever
  <2>2. PICK v \in Wordings : written[l][v] = 1
    BY <2>0, <2>1 DEF CitationInv, PlacesInv, Contiguous
  <2>3. written'[l][v] = 1
    BY <1>3, <1>4, <2>2
  <2> QED
    BY <2>3 DEF Ever
<1>14. ASSUME NEW l \in Researched \ V1Researched, research'[l].origin /= "none"
       PROVE  Ever(l)'
  BY <1>1, <1>13, <1>14, DocumentFacts DEF CitationInv, SoundInv, GoodInv
<1>15. GoodInv'
  BY <1>2, <1>14 DEF GoodInv
<1> QED
  BY <1>8, <1>12, <1>15 DEF CitationInv

LEMMA InterruptKeeps ==
  ASSUME CitationInv, InterruptRefresh PROVE CitationInv'
<1>1. refresh'.stage = "failed" /\ RefreshType'
  BY DEF CitationInv, SoundInv, RefreshType, InterruptRefresh
<1>2. UNCHANGED <<visible, confirmed, tip, wording, cache, written, research>>
  BY DEF InterruptRefresh
<1>3. SoundInv'
  BY <1>1, <1>2 DEF CitationInv, SoundInv, StandingType, CacheType, ResearchType, EntryHolds,
     HoldsFor
<1>4. PlacesInv' /\ GoodInv'
  BY <1>1, <1>2 DEF CitationInv, PlacesInv, PlaceType, GoodInv, HasSnapshot, Contiguous, Ever
<1> QED
  BY <1>3, <1>4 DEF CitationInv

LEMMA StartKeeps ==
  ASSUME CitationInv, StartRefresh PROVE CitationInv'
<1>1. /\ refresh' = [stage |-> "refreshing", todo |-> Researched,
                      output |-> [l \in Researched |-> NoRecord]]
      /\ UNCHANGED <<written, research>>
  BY DEF StartRefresh
<1>2. RefreshType'
  BY <1>1, NoRecordIsRecord DEF RefreshType
<1>3. StandingType'
  <2>1. visible' \in SUBSET Labs /\ confirmed' \in [Researched -> SUBSET Labs]
    BY CitationAssumption DEF StartRefresh
  <2>2. tip' \in [Labs -> Nat] /\ \A r \in Labs : tip'[r] \in 1 .. Len(Cites[r])
    <3>1. tip \in [Labs -> Nat] /\ \A r \in Labs : tip[r] \in 1 .. Len(Cites[r])
      BY DEF CitationInv, SoundInv, StandingType
    <3>2. PICK moved \in SUBSET {r \in Labs : tip[r] < Len(Cites[r])} :
            tip' = [r \in Labs |-> IF r \in moved THEN tip[r] + 1 ELSE tip[r]]
      BY DEF StartRefresh
    <3>3. \A r \in Labs : Len(Cites[r]) \in Nat
      BY CitationConstants
    <3> QED
      BY <3>1, <3>2, <3>3
  <2>3. wording' \in [Researched -> Wordings]
    BY DEF StartRefresh
  <2> QED
    BY <2>1, <2>2, <2>3 DEF StandingType
<1>4. ASSUME NEW l \in Researched, NEW w \in Wordings
      PROVE  /\ cache'[l][w] \in Entries /\ cache'[l][w].record = cache[l][w].record
             /\ cache'[l][w].evidence = cache[l][w].evidence
             /\ cache'[l][w].rows = cache[l][w].rows
             /\ cache'[l][w].fresh => cache[l][w].fresh
  <2>1. cache[l][w] \in Entries
    BY DEF CitationInv, SoundInv, CacheType
  <2>2. cache'[l][w] = cache[l][w] \/ cache'[l][w] = [cache[l][w] EXCEPT !.fresh = FALSE]
    BY DEF StartRefresh
  <2> QED
    BY <2>1, <2>2 DEF Entries
<1>5. CacheType'
  <2>1. DOMAIN cache' = Researched /\ cache' = [l \in Researched |-> cache'[l]]
        /\ \A l \in Researched : cache'[l] = [w \in Wordings |-> cache'[l][w]]
    BY DEF StartRefresh, CitationInv, SoundInv, CacheType
  <2> QED
    BY <1>4, <2>1 DEF CacheType
<1>6. SoundInv'
  <2>1. \A l \in Researched : \A w \in Wordings : EntryHolds(cache'[l][w])
    BY <1>4 DEF CitationInv, SoundInv, EntryHolds
  <2>2. ResearchType'
    BY <1>1 DEF CitationInv, SoundInv, ResearchType
  <2> QED
    BY <1>1, <1>2, <1>3, <1>5, <2>1, <2>2 DEF SoundInv, EntryHolds, HoldsFor
<1>7. PlacesInv'
  BY <1>1, <1>4 DEF CitationInv, PlacesInv, PlaceType, HasSnapshot, Contiguous
<1>8. GoodInv'
  BY <1>1, NoRecordIsRecord DEF CitationInv, GoodInv, Ever
<1> QED
  BY <1>6, <1>7, <1>8 DEF CitationInv

LEMMA CitationsStart == CitationInit => CitationInv
<1> SUFFICES ASSUME CitationInit PROVE CitationInv
  OBVIOUS
<1>1. StandingType
  <2>1. (CHOOSE w \in Wordings : TRUE) \in Wordings
    BY CitationConstants
  <2> QED
    BY <2>1, CitationConstants DEF CitationInit, StandingType
<1>2. CacheType /\ \A l \in Researched : \A w \in Wordings : EntryHolds(cache[l][w])
  BY NoEntryIsEntry DEF CitationInit, CacheType
<1>3. RefreshType /\ refresh.stage = "none"
  BY NoRecordIsRecord DEF CitationInit, RefreshType
<1>4. /\ ResearchType
      /\ \A l \in Researched : l \notin V1Researched => research[l].origin = "none"
  BY NoRecordIsRecord, LastGoodIsRecord DEF CitationInit, ResearchType, Fallback, V1Record
<1>5. SoundInv
  BY <1>1, <1>2, <1>3, <1>4 DEF SoundInv
<1>6. PlacesInv
  BY NoEntryIsEntry DEF CitationInit, PlacesInv, PlaceType, Contiguous, NoEntry
<1>7. GoodInv
  BY <1>3, <1>4 DEF GoodInv
<1> QED
  BY <1>5, <1>6, <1>7 DEF CitationInv

\* The invariant is inductive.
LEMMA CitationsStep == CitationInv /\ [CitationNext]_citationVars => CitationInv'
<1> SUFFICES ASSUME CitationInv, [CitationNext]_citationVars PROVE CitationInv'
  OBVIOUS
<1>1. CASE UNCHANGED citationVars
  <2>1. UNCHANGED <<visible, confirmed, tip, wording, cache, written, refresh, research>>
    BY <1>1 DEF citationVars
  <2>2. SoundInv'
    <3>1. StandingType' /\ CacheType' /\ RefreshType' /\ ResearchType'
      BY <2>1 DEF CitationInv, SoundInv, StandingType, CacheType, RefreshType, ResearchType
    <3>2. \A l \in Researched : LocalEvidence(l)' = LocalEvidence(l)
      BY <2>1 DEF LocalEvidence
    <3> QED
      BY <2>1, <3>1, <3>2 DEF CitationInv, SoundInv, EntryHolds, HoldsFor
  <2>3. PlacesInv'
    BY <2>1 DEF CitationInv, PlacesInv, PlaceType, Contiguous, HasSnapshot
  <2>4. GoodInv'
    BY <2>1 DEF CitationInv, GoodInv, Ever
  <2> QED
    BY <2>2, <2>3, <2>4 DEF CitationInv
<1>2. CASE \E l \in Researched :
            ServeSnapshot(l) \/ ReprocessSnapshot(l) \/ QueryWorks(l) \/ HardFailure(l)
  BY <1>2, WorkIsDone, DoneIsSound
<1> QED
  BY <1>1, <1>2, StartKeeps, PublishKeeps, InterruptKeeps DEF CitationNext

LEMMA CitationsStay == CitationSpec => []CitationInv
  BY CitationsStart, CitationsStep, PTL DEF CitationSpec

\* No published citation link rests on an adopter that is gone or on a citation file that
\* has changed, be it served from the cache without a call, rebuilt from it, or fetched.
\* For any number of libraries, papers, adopters, wordings and refreshes.
THEOREM PublishedLinksHold == CitationSpec => []LinksAreCurrent
<1>1. ASSUME CitationInv PROVE LinksAreCurrent
  <2> SUFFICES ASSUME refresh.stage = "published", NEW l \in Researched,
                      research[l].origin = "refreshed"
               PROVE  /\ \A p \in Papers : \A r \in research[l].links[p] :
                           r \in confirmed[l] /\ (p \in CitedBy(r) \/ r \in Named[p])
                      /\ research[l].complete =>
                           \A r \in confirmed[l] : \A p \in CitedBy(r) \cap research[l].papers :
                              r \in research[l].links[p]
    BY DEF LinksAreCurrent
  <2>1. HoldsFor(research[l], LocalEvidence(l)) /\ research[l] \in Records /\ StandingType
    BY <1>1 DEF CitationInv, SoundInv, ResearchType
  <2>2. DOMAIN LocalEvidence(l) = confirmed[l]
        /\ \A r \in confirmed[l] : CitedBy(r) = Cites[r][LocalEvidence(l)[r]]
    BY <2>1, EvidenceIsTyped DEF CitedBy
  <2> QED
    BY <2>1, <2>2 DEF HoldsFor, Records
<1> QED
  BY <1>1, CitationsStay, PTL

\* While a refresh runs, every library it is done with that was ever published has a record,
\* if an old one: no failing service, rewording of its query, dead refresh or compaction of
\* the cache makes it forget the last good one.
THEOREM RecordsOutliveFailures == CitationSpec => []LastGoodSurvives
<1>1. ASSUME CitationInv PROVE LastGoodSurvives
  BY <1>1, DocumentFacts DEF LastGoodSurvives, CitationInv, SoundInv, GoodInv
<1> QED
  BY <1>1, CitationsStay, PTL

===============================================================================
