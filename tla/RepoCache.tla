------------------------------- MODULE RepoCache -------------------------------
(***************************************************************************)
(* The bounded cache of bare repositories (collector/repo_cache.py) that    *)
(* the scanner's worker processes share.  Every repository has an           *)
(* exclusive file lock and a metadata file; one more lock guards the total  *)
(* in cache-usage.json.  A worker reserves room under the accounting lock   *)
(* before it lets Git write, and replaces the reservation with the measured *)
(* size afterwards; when the limit would be exceeded it evicts other        *)
(* repositories, least valuable first, whose lock nobody holds.             *)
(*                                                                         *)
(* A section under the accounting lock is one action: whoever is in it      *)
(* never waits for anything.  Its two files are written one after the       *)
(* other, though, and an alarm or a kill can come between (`Cut`).  Bytes  *)
(* are small numbers, disk[r] = 0 is a repository that is not there, and    *)
(* last_access is left out: entries of equal rank go in any order.          *)
(***************************************************************************)
EXTENDS Naturals, FiniteSets, Functions

CONSTANTS
    Repos,          \* repositories, by cache key
    Processes,        \* scanner processes
    NoProcess,       \* nobody holds the lock
    NoRepo,         \* the worker has no task
    Hard,           \* hard_bytes
    Target,         \* target_bytes
    CloneReserve,   \* max(reservation_bytes, 64 MiB)
    Reservation,    \* reservation_bytes of a worker
    MinGrowth,      \* _MIN_GROWTH_RESERVATION
    CloneSizes,     \* sizes a clone may have
    MaxSize,        \* bound: largest repository explored
    MaxFaults       \* bound: kills, crashes, cut sections, timeouts, exceptions

ASSUME CacheAssumption ==
    /\ IsFiniteSet(Repos)
    /\ NoProcess \notin Processes /\ NoRepo \notin Repos
    /\ {Hard, Target, CloneReserve, Reservation, MinGrowth, MaxSize, MaxFaults} \subseteq Nat
    /\ CloneSizes \subseteq 1 .. MaxSize
    /\ 0 < Target /\ Target <= Hard

VARIABLES
    disk,           \* measured bytes of <key>.git
    meta,           \* <key>.json
    usage,          \* total_bytes of cache-usage.json
    held,           \* owner of a repository's lock
    proc,           \* per worker: where it is, in which part of which scan,
                    \* whether its deadline has passed, the size it measured
    faults,         \* faults so far
    exact           \* none since the last reconciliation

cacheVars == <<disk, meta, usage, held, proc, faults, exact>>

\* _RETENTION_PRIORITY_RANK
Ranks == [cold_clean_reject |-> 0, clean_reject |-> 1, error |-> 1,
          unclassified |-> 2, positive_history |-> 3]

NoMeta == [known |-> FALSE, bytes |-> 0, reserved |-> 0, rank |-> Ranks["unclassified"]]

\* A scan ensures the repository and looks at the bare tree, if the task allows it,
\* then ensures it again and checks out.
Fetching(w) == proc[w].stage \in {"inspect", "ensure"}

\* max(0, a - b)
Less(a, b) == IF a > b THEN a - b ELSE 0
Larger(a, b) == IF a > b THEN a ELSE b
Smaller(a, b) == IF a < b THEN a ELSE b

Accounted(m) == m.bytes + m.reserved
AccountedOf(S) == SumFunctionOnSet([r \in Repos |-> Accounted(meta[r])], S)

--------------------------------------------------------------------------------
(* Eviction. *)

\* Defect: eviction does not ask for the lock.
EvictableUnasked(own) == {r \in Repos \ {own} : meta[r].known /\ disk[r] > 0}

\* Entries that try_lock can acquire.
Evictable(own) ==
    {r \in Repos \ {own} : meta[r].known /\ disk[r] > 0 /\ held[r] = NoProcess}

\* Defect: eviction waits for the lock of an entry in use.
VictimsWaiting(total, own, goal) ==
    {V \in {Evictable(own)} :
        total <= goal \/ \A r \in Repos \ {own} : disk[r] > 0 => held[r] = NoProcess}

\* The sets _evict_locked may remove: in order of rank, until the goal is
\* reached or nothing is left.
Victims(total, own, goal) ==
    {V \in SUBSET Evictable(own) :
        /\ \A v \in V, u \in Evictable(own) \ V : meta[v].rank <= meta[u].rank
        /\ V = Evictable(own) \/ Less(total, AccountedOf(V)) <= goal
        /\ V = {} \/ \E v \in V :
                       /\ \A u \in V : meta[u].rank <= meta[v].rank
                       /\ Less(total, AccountedOf(V \ {v})) > goal}

Without(S) == [r \in Repos |-> IF r \in S THEN 0 ELSE disk[r]]

\* One accounting section: entries leave, r's metadata is rewritten, and then
\* the total, unless the process is interrupted between the two writes.
Account(gone, r, entry, total) ==
    /\ meta' = [x \in Repos |-> IF x = r THEN entry
                                ELSE IF x \in gone THEN NoMeta ELSE meta[x]]
    /\ \/ usage' = total /\ UNCHANGED <<faults, exact>>
       \/ /\ faults < MaxFaults
          /\ usage' = usage
          /\ faults' = faults + 1
          /\ exact' = FALSE

Cut == faults' # faults

\* Defect: the reservation is not replaced but stays next to the measured size.
RecordOverReservation(r, size, ok) ==
    LET proposed == usage + size IN
    \E gone \in Victims(proposed, r, Hard) :
        LET total == Less(proposed, AccountedOf(gone)) IN
        /\ ok = (total <= Hard)
        /\ disk' = Without(IF ok THEN gone ELSE gone \cup {r})
        /\ Account(gone, r,
             IF ok THEN [meta[r] EXCEPT !.known = TRUE, !.bytes = size, !.reserved = 0]
             ELSE NoMeta,
             IF ok THEN total ELSE Less(total, size))

\* _record_metadata: the measured size replaces what the entry accounted for;
\* an entry that does not fit even now is deleted, and the call raises.
RecordMetadata(r, size, ok) ==
    LET proposed == Less(usage, Accounted(meta[r])) + size IN
    \E gone \in Victims(proposed, r, Hard) :
        LET total == Less(proposed, AccountedOf(gone)) IN
        /\ ok = (total <= Hard)
        /\ disk' = Without(IF ok THEN gone ELSE gone \cup {r})
        /\ Account(gone, r,
             IF ok THEN [meta[r] EXCEPT !.known = TRUE, !.bytes = size, !.reserved = 0]
             ELSE NoMeta,
             IF ok THEN total ELSE Less(total, size))

\* Removing an entry whose repository does not exist.
ForgetEntry(r) ==
    /\ disk' = disk
    /\ Account({}, r, NoMeta, Less(usage, Accounted(meta[r])))

--------------------------------------------------------------------------------
Rest(place) == [at |-> place, stage |-> "ensure", repo |-> NoRepo,
                late |-> FALSE, size |-> 0]

Goto(w, place) ==
    proc' = [proc EXCEPT ![w] = IF place \in {"done", "dead"} THEN Rest(place)
                                ELSE [@ EXCEPT !.at = place]]

StartScan(w, r, bare) ==
    /\ proc[w].at = "idle"
    /\ proc' = [proc EXCEPT ![w] = [@ EXCEPT !.at = "waiting", !.repo = r,
                    !.stage = IF bare THEN "inspect" ELSE "ensure"]]
    /\ UNCHANGED <<disk, meta, usage, held, faults, exact>>

TakeRepoLock(w) ==
    /\ proc[w].at = "waiting"
    /\ held[proc[w].repo] = NoProcess
    /\ held' = [held EXCEPT ![proc[w].repo] = w]
    /\ Goto(w, IF Fetching(w) THEN "ensuring" ELSE "entering")
    /\ UNCHANGED <<disk, meta, usage, faults, exact>>

\* The wait for a lock gives up at the deadline; a checkout still settles up.
LockTimesOut(w) ==
    /\ proc[w].at = "waiting"
    /\ proc[w].late
    /\ held[proc[w].repo] # NoProcess
    /\ Goto(w, IF proc[w].stage = "checkout" THEN "leaving" ELSE "done")
    /\ UNCHANGED <<disk, meta, usage, held, faults, exact>>

\* ensure: a missing repository is cloned into reserved room.  What an earlier
\* entry without a repository accounted for is not given back.
ReserveClone(w) ==
    LET r == proc[w].repo
        proposed == usage + CloneReserve IN
    /\ proc[w].at = "ensuring"
    /\ disk[r] = 0
    /\ \E gone \in Victims(proposed, r, Hard) :
         LET total == Less(proposed, AccountedOf(gone))
             fits == total <= Hard IN
         /\ disk' = Without(gone)
         /\ Account(gone, r,
              IF fits THEN [NoMeta EXCEPT !.known = TRUE, !.reserved = CloneReserve]
              ELSE meta[r],
              IF fits THEN total ELSE Less(total, CloneReserve))
         /\ Goto(w, IF fits /\ ~Cut THEN "reserved" ELSE "unlocking")
    /\ UNCHANGED held

UseExisting(w) ==
    /\ proc[w].at = "ensuring"
    /\ disk[proc[w].repo] > 0
    /\ Goto(w, "present")
    /\ UNCHANGED <<disk, meta, usage, held, faults, exact>>

\* The timeout of the clone is computed outside the handler that gives the
\* reservation back.
StartClone(w) ==
    /\ proc[w].at = "reserved"
    /\ Goto(w, IF proc[w].late THEN "unlocking" ELSE "cloning")
    /\ UNCHANGED <<disk, meta, usage, held, faults, exact>>

FinishClone(w, size) ==
    /\ proc[w].at = "cloning"
    /\ disk' = [disk EXCEPT ![proc[w].repo] = size]
    /\ Goto(w, "present")
    /\ UNCHANGED <<meta, usage, held, faults, exact>>

FailClone(w) ==
    /\ proc[w].at = "cloning"
    /\ ForgetEntry(proc[w].repo)
    /\ Goto(w, "unlocking")
    /\ UNCHANGED held

\* The head is already there: nothing is fetched.
SkipFetch(w) ==
    /\ proc[w].at = "present"
    /\ Goto(w, IF proc[w].late THEN "unlocking" ELSE "ensured")
    /\ UNCHANGED <<disk, meta, usage, held, faults, exact>>

--------------------------------------------------------------------------------
(* _growth_reservation_locked around every Git command that may write. *)

GrowthReserve(size) ==
    Larger(Less(Reservation, size), Smaller(MinGrowth, Less(Hard, size)))

\* Defect: a reservation that does not fit is kept.
BeginGrowthUnchecked(w) ==
    LET r == proc[w].repo
        size == disk[r]
        reserve == GrowthReserve(size) IN
    /\ proc[w].at \in {"present", "entering", "scanning"}
    /\ disk' = disk
    /\ Account({}, r, [meta[r] EXCEPT !.known = TRUE, !.bytes = size, !.reserved = reserve],
               Less(usage, Accounted(meta[r])) + size + reserve)
    /\ Goto(w, IF Cut THEN "unlocking" ELSE "growing")
    /\ UNCHANGED held

BeginGrowth(w) ==
    LET r == proc[w].repo
        size == disk[r]
        reserve == GrowthReserve(size)
        proposed == Less(usage, Accounted(meta[r])) + size + reserve
        entry == [meta[r] EXCEPT !.known = TRUE, !.bytes = size, !.reserved = 0] IN
    /\ proc[w].at \in {"present", "entering", "scanning"}
    /\ \E gone \in Victims(proposed, r, Hard) :
         LET total == Less(proposed, AccountedOf(gone))
             bare == Less(total, reserve) IN
         IF total <= Hard
         THEN /\ disk' = Without(gone)
              /\ Account(gone, r, [entry EXCEPT !.reserved = reserve], total)
              /\ Goto(w, IF Cut THEN "unlocking" ELSE "growing")
         ELSE /\ disk' = Without(IF bare > Hard THEN gone \cup {r} ELSE gone)
              /\ Account(gone, r, IF bare > Hard THEN NoMeta ELSE entry,
                         IF bare > Hard THEN Less(bare, size) ELSE bare)
              /\ Goto(w, "unlocking")
    /\ UNCHANGED held

\* Git writes, succeeds or fails; a repository that is not there fails it.
Grow(w, more, ok) ==
    /\ proc[w].at = "growing"
    /\ disk[proc[w].repo] = 0 => ~ok /\ more = 0
    /\ disk[proc[w].repo] + more <= MaxSize
    /\ disk' = [disk EXCEPT ![proc[w].repo] = @ + more]
    /\ Goto(w, IF ok /\ ~proc[w].late THEN "grown" ELSE "broken")
    /\ UNCHANGED <<meta, usage, held, faults, exact>>

\* The finally clause: measure what is there, or forget the entry.
EndGrowth(w) ==
    LET r == proc[w].repo IN
    /\ proc[w].at \in {"grown", "broken"}
    /\ \/ /\ disk[r] = 0
          /\ ForgetEntry(r)
          /\ Goto(w, "unlocking")
       \/ /\ disk[r] > 0
          /\ \E ok \in BOOLEAN :
               /\ RecordMetadata(r, disk[r], ok)
               /\ Goto(w, IF ~ok \/ Cut \/ proc[w].at = "broken" THEN "unlocking"
                          ELSE IF Fetching(w) THEN "ensured"
                          ELSE "scanning")
    /\ UNCHANGED held

--------------------------------------------------------------------------------
(* The end of ensure, the gap between its lock and that of checkout, and the
   settlement after a checkout, which no longer holds the lock. *)

RecordEnsured(w) ==
    /\ proc[w].at = "ensured"
    /\ \E ok \in BOOLEAN :
         /\ RecordMetadata(proc[w].repo, disk[proc[w].repo], ok)
         /\ held' = [held EXCEPT ![proc[w].repo] = NoProcess]
         /\ IF ok /\ ~Cut
            THEN proc' = [proc EXCEPT ![w].at = "waiting",
                    ![w].stage = IF @ = "inspect" THEN "bare" ELSE "checkout"]
            ELSE Goto(w, "done")

\* The bare tree rules every library out, or a checkout follows; it needs no
\* growth when the blobs are there.
EndBare(w, reject) ==
    /\ proc[w].stage = "bare"
    /\ \/ proc[w].at = "scanning"
       \/ proc[w].at = "entering" /\ disk[proc[w].repo] > 0
    /\ held' = [held EXCEPT ![proc[w].repo] = NoProcess]
    /\ IF reject THEN Goto(w, "enforcing")
       ELSE proc' = [proc EXCEPT ![w].at = "waiting", ![w].stage = "ensure"]
    /\ UNCHANGED <<disk, meta, usage, faults, exact>>

\* checkout yields, and the scan ends with or without a result; Git fails on a
\* repository that is gone, and everything fails after the deadline.
EndScan(w) ==
    /\ \/ proc[w].at = "scanning"
       \/ proc[w].at = "entering" /\ (proc[w].late \/ disk[proc[w].repo] = 0)
    /\ Goto(w, "unlocking")
    /\ UNCHANGED <<disk, meta, usage, held, faults, exact>>

Unlock(w) ==
    /\ proc[w].at = "unlocking"
    /\ held' = [held EXCEPT ![proc[w].repo] = NoProcess]
    /\ Goto(w, IF proc[w].stage = "checkout" THEN "leaving" ELSE "done")
    /\ UNCHANGED <<disk, meta, usage, faults, exact>>

Measure(w) ==
    /\ proc[w].at = "leaving"
    /\ IF disk[proc[w].repo] > 0 /\ ~proc[w].late
       THEN proc' = [proc EXCEPT ![w].at = "measured", ![w].size = disk[proc[w].repo]]
       ELSE Goto(w, "done")
    /\ UNCHANGED <<disk, meta, usage, held, faults, exact>>

RecordLeft(w) ==
    /\ proc[w].at = "measured"
    /\ \E ok \in BOOLEAN :
         /\ RecordMetadata(proc[w].repo, proc[w].size, ok)
         /\ Goto(w, IF ok /\ ~Cut THEN "enforcing" ELSE "done")
    /\ UNCHANGED held

\* enforce_budget: only above the hard limit, and then down to the target.
EnforceTotal(own) ==
    IF usage <= Hard THEN UNCHANGED <<disk, meta, usage>>
    ELSE \E gone \in Victims(usage, own, Target) :
           /\ disk' = Without(gone)
           /\ meta' = [r \in Repos |-> IF r \in gone THEN NoMeta ELSE meta[r]]
           /\ usage' = Less(usage, AccountedOf(gone))

EnforceBudget(w) ==
    /\ proc[w].at = "enforcing"
    /\ EnforceTotal(proc[w].repo)
    /\ Goto(w, "done")
    /\ UNCHANGED <<held, faults, exact>>

--------------------------------------------------------------------------------
(* What the coordinator does with the cache, and what may befall a worker. *)

\* record_outcome_priority
RecordOutcomePriority(r, rank) ==
    /\ meta' = IF disk[r] > 0 /\ meta[r].known
               THEN [meta EXCEPT ![r].rank = rank] ELSE meta
    /\ UNCHANGED <<disk, usage, held, exact>>

\* reconcile_accounting: repositories without an owner go, sizes are measured,
\* reservations dropped.  Only the accounting lock is taken.
ReconcileAccounting ==
    LET owned(r) == meta[r].known /\ disk[r] > 0 IN
    /\ disk' = [r \in Repos |-> IF owned(r) THEN disk[r] ELSE 0]
    /\ meta' = [r \in Repos |->
                  IF owned(r) THEN [meta[r] EXCEPT !.bytes = disk[r], !.reserved = 0]
                  ELSE NoMeta]
    /\ usage' = SumFunctionOnSet(disk', Repos)
    /\ exact' = TRUE
    /\ UNCHANGED <<held, faults>>

\* The repository deadline: its alarm, or a cancelled future.
DeadlinePasses(w) ==
    /\ proc[w].at \notin {"idle", "done", "dead"}
    /\ ~proc[w].late
    /\ proc' = [proc EXCEPT ![w].late = TRUE]
    /\ UNCHANGED <<disk, meta, usage, held, exact>>

Fault ==
    /\ faults < MaxFaults
    /\ faults' = faults + 1

\* The kernel drops the locks of a process that dies; its files stay.
Kill(w) ==
    /\ proc[w].at # "dead"
    /\ Goto(w, "dead")
    /\ held' = [r \in Repos |-> IF held[r] = w THEN NoProcess ELSE held[r]]
    /\ UNCHANGED <<disk, meta, usage, exact>>

CacheInit ==
    /\ disk = [r \in Repos |-> 0]
    /\ meta = [r \in Repos |-> NoMeta]
    /\ usage = 0
    /\ held = [r \in Repos |-> NoProcess]
    /\ proc = [w \in Processes |-> Rest("idle")]
    /\ faults = 0
    /\ exact = TRUE

\* Everything a process that has a task does by itself.
CacheStep(w) ==
    \/ TakeRepoLock(w)
    \/ LockTimesOut(w)
    \/ ReserveClone(w)
    \/ UseExisting(w)
    \/ StartClone(w)
    \/ \E size \in CloneSizes : FinishClone(w, size)
    \/ FailClone(w)
    \/ SkipFetch(w)
    \/ BeginGrowth(w)
    \/ \E more \in {0, 1}, ok \in BOOLEAN : Grow(w, more, ok)
    \/ EndGrowth(w)
    \/ RecordEnsured(w)
    \/ \E reject \in BOOLEAN : EndBare(w, reject)
    \/ EndScan(w)
    \/ Unlock(w)
    \/ Measure(w)
    \/ RecordLeft(w)
    \/ EnforceBudget(w)

================================================================================
