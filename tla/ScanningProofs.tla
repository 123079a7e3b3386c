----------------------------- MODULE ScanningProofs ----------------------------
(***************************************************************************)
(* What the pool of processes and its cache promise, proved for every set  *)
(* of repositories and processes, all limits and sizes, and any number of  *)
(* faults and of calls of scan_many.                                       *)
(*                                                                         *)
(* A step of a process changes the files of its own repository, and those  *)
(* of others only by evicting them (Files), moves that process and no      *)
(* other (Moves), and keeps the total in step with the entries (Balanced). *)
(* One lemma per section shows that; the invariant is then preserved by    *)
(* that alone.  The coordinator's steps mostly leave the files alone       *)
(* (Standing).                                                             *)
(***************************************************************************)
EXTENDS ScanPool, ScanWorker, SumTheorems

--------------------------------------------------------------------------------
\* What the variables hold.
Places == {"idle", "waiting", "ensuring", "reserved", "cloning", "present", "growing",
           "grown", "broken", "ensured", "entering", "scanning", "unlocking", "leaving",
           "measured", "enforcing", "done", "dead"}
Entries == [known : BOOLEAN, bytes : Nat, reserved : Nat, rank : Nat]
Procs == [at : Places, stage : {"inspect", "bare", "ensure", "checkout"},
          repo : Repos \cup {NoRepo}, late : BOOLEAN, size : Nat]
PoolStates == {"none", "reconciled", "running", "stopping", "returned", "raised", "crashed"}

CacheType ==
    /\ disk \in [Repos -> Nat] /\ meta \in [Repos -> Entries] /\ usage \in Nat
    /\ held \in [Repos -> Processes \cup {NoProcess}] /\ proc \in [Processes -> Procs]
    /\ faults \in Nat /\ exact \in BOOLEAN
PoolType ==
    /\ pool \in PoolStates /\ cause \in {"none", "deadline", "aborted"}
    /\ future \in [Repos -> Processes \cup {NoProcess}]
    /\ open \subseteq Repos /\ reported \subseteq Repos /\ orphaned \in BOOLEAN

\* Where a process has a task, and where it holds the lock of its repository.
Inside == {"ensuring", "reserved", "cloning", "present", "growing", "grown", "broken",
           "ensured", "entering", "scanning", "unlocking"}
Busy(w) == proc[w].at \notin {"idle", "done", "dead"}

\* Whoever is inside the lock of a repository holds it; an orphan that settles up is not.
LockInv ==
    \A w \in Processes :
        /\ Busy(w) => proc[w].repo \in Repos
        /\ proc[w].at \in Inside => held[proc[w].repo] = w

\* Without orphans a process works for the task that the pool gave it.
Dispatched == pool \in {"running", "stopping"}
TaskInv ==
    /\ pool = "reconciled" => cause = "none"
    /\ ~Dispatched => InFlight = {}
    /\ InFlight \subseteq open
    /\ \A t, u \in InFlight : future[t] = future[u] => t = u
    /\ ~orphaned =>
         \A w \in Live : \E t \in InFlight : future[t] = w /\ (Busy(w) => proc[w].repo = t)

\* A repository that is about to be ensured accounts for nothing if it is not there.
Blank(r) == disk[r] = 0 => Accounted(meta[r]) = 0
\* Such a process: it waits for that lock, or has just taken it.
About(w) == proc[w].at = "ensuring" \/ (proc[w].at = "waiting" /\ Fetching(w))
BlankInv ==
    ~orphaned /\ pool \in {"reconciled", "running", "stopping"} =>
        /\ \A t \in Repos \ (open \cup reported) : Blank(t)
        /\ \A w \in Processes :
             About(w) => Blank(proc[w].repo)

\* The inductive invariant.  The promises need the rest: a repository that is scanned is not
\* evicted because its lock is held (LockInv), no other process removes it because no other
\* process works for its task (TaskInv), and a clone that fails takes back what it reserved
\* and nothing else because the entry was empty before (BlankInv).
PoolInv ==
    /\ CacheType /\ PoolType /\ LockInv /\ TaskInv /\ BlankInv
    /\ WithinHardLimit /\ ScansAreContained /\ UsageIsExact

LEMMA Numbers ==
    ASSUME NEW a \in Nat, NEW b \in Nat
    PROVE  /\ Less(a, b) \in Nat /\ Larger(a, b) \in Nat /\ Smaller(a, b) \in Nat
           /\ Less(a, b) <= a
           /\ b <= a => Less(a, b) = a - b
BY DEF Less, Larger, Smaller

LEMMA Entry == NoMeta \in Entries /\ Accounted(NoMeta) = 0
  BY DEF NoMeta, Entries, Accounted, Ranks

LEMMA EntryWith ==
    ASSUME NEW m \in Entries, NEW a \in Nat, NEW b \in Nat
    PROVE  /\ [m EXCEPT !.known = TRUE, !.bytes = a, !.reserved = b] \in Entries
           /\ Accounted([m EXCEPT !.known = TRUE, !.bytes = a, !.reserved = b]) = a + b
BY DEF Entries, Accounted

LEMMA AccountedIsNat ==
    ASSUME CacheType, NEW S \in SUBSET Repos
    PROVE  AccountedOf(S) \in Nat
<1> DEFINE f == [r \in Repos |-> Accounted(meta[r])]
<1>1. \A x \in S : f[x] \in Nat
  BY DEF CacheType, Entries, Accounted
<1>2. IsFiniteSet(S)
  BY CacheAssumption, FS_Subset
<1> HIDE DEF f
<1>3. SumFunctionOnSet(f, S) \in Nat
  BY <1>1, <1>2, SumIsNat
<1> QED BY <1>3 DEF AccountedOf, f

\* What an eviction may take.
LEMMA VictimsAre ==
    ASSUME NEW total, NEW own, NEW goal, NEW gone \in Victims(total, own, goal)
    PROVE  gone \subseteq Repos /\ own \notin gone /\ \A v \in gone : held[v] = NoProcess
BY DEF Victims, Evictable

\* What one step does to the files: r's may change, others' only by eviction.
Same(x) == disk'[x] = disk[x] /\ Accounted(meta'[x]) = Accounted(meta[x])
Evicted(x) == held[x] = NoProcess /\ disk'[x] = 0 /\ Accounted(meta'[x]) = 0
Files(r) ==
    /\ disk' \in [Repos -> Nat] /\ meta' \in [Repos -> Entries] /\ usage' \in Nat
    /\ faults' \in Nat /\ exact' \in BOOLEAN
    /\ \A x \in Repos \ {r} : Same(x) \/ Evicted(x)
    /\ usage' <= Hard \/ usage' <= usage
    /\ AccountedOf(Repos) \in Nat /\ AccountedOf(Repos)' \in Nat
    /\ exact' => exact
    /\ exact' /\ usage >= AccountedOf(Repos) =>
         usage' + AccountedOf(Repos) >= usage + AccountedOf(Repos)'

\* The total changes by what the entries change.
Balanced ==
    exact' /\ usage >= AccountedOf(Repos) =>
        usage' + AccountedOf(Repos) = usage + AccountedOf(Repos)'

\* Account evicts, writes the entry of one repository, and sets the total.
LEMMA AccountTypes ==
    ASSUME CacheType, NEW gone \in SUBSET Repos, NEW r \in Repos, NEW entry \in Entries,
           NEW total \in Nat, Account(gone, r, entry, total)
    PROVE  /\ meta' \in [Repos -> Entries] /\ usage' \in Nat
           /\ faults' \in Nat /\ exact' \in BOOLEAN
           /\ exact' => exact /\ usage' = total
           /\ usage' = usage \/ usage' = total
           /\ \A x \in Repos \ (gone \cup {r}) : meta'[x] = meta[x]
           /\ \A x \in gone \ {r} : meta'[x] = NoMeta
           /\ meta'[r] = entry
<1>1. meta' = [x \in Repos |-> IF x = r THEN entry
                                ELSE IF x \in gone THEN NoMeta ELSE meta[x]]
  BY DEF Account
<1>2. meta \in [Repos -> Entries] /\ NoMeta \in Entries
  BY Entry DEF CacheType
<1>3. meta' \in [Repos -> Entries]
  BY <1>1, <1>2
<1>4. CASE usage' = total /\ UNCHANGED <<faults, exact>>
  <2>1. faults' \in Nat /\ exact' \in BOOLEAN /\ exact' = exact
    BY <1>4 DEF CacheType
  <2> QED BY <2>1, <1>1, <1>3, <1>4
<1>5. CASE usage' = usage /\ faults' = faults + 1 /\ exact' = FALSE
  <2>1. faults' \in Nat /\ usage' \in Nat
    BY <1>5 DEF CacheType
  <2> QED BY <2>1, <1>1, <1>3, <1>5
<1> QED BY <1>4, <1>5 DEF Account

\* The entries add up to what they were, less the evicted ones, plus the change of one.
LEMMA AccountSums ==
    ASSUME CacheType, NEW gone \in SUBSET Repos, NEW r \in Repos \ gone, NEW entry \in Entries,
           NEW total \in Nat, Account(gone, r, entry, total)
    PROVE  /\ AccountedOf(Repos)' + Accounted(meta[r]) + AccountedOf(gone)
                = AccountedOf(Repos) + Accounted(entry)
           /\ Accounted(meta[r]) + AccountedOf(gone) <= AccountedOf(Repos)
           /\ AccountedOf(gone) \in Nat /\ Accounted(meta[r]) \in Nat
           /\ AccountedOf(Repos) \in Nat /\ AccountedOf(Repos)' \in Nat
<1> DEFINE f == [x \in Repos |-> Accounted(meta[x])]
           h == [x \in Repos |-> Accounted(meta'[x])]
<1>1. /\ meta' \in [Repos -> Entries]
      /\ \A x \in Repos \ (gone \cup {r}) : meta'[x] = meta[x]
      /\ \A x \in gone \ {r} : meta'[x] = NoMeta
      /\ meta'[r] = entry
  BY AccountTypes
<1>2. \A x \in Repos : f[x] \in Nat /\ h[x] \in Nat
  BY <1>1 DEF CacheType, Entries, Accounted
<1>3. \A x \in gone : h[x] = 0
  BY <1>1, Entry
<1>4. \A x \in Repos \ (gone \cup {r}) : h[x] = f[x]
  BY <1>1
<1>5. f[r] = Accounted(meta[r]) /\ h[r] = Accounted(entry)
  BY <1>1
<1>6. /\ AccountedOf(Repos) = SumFunctionOnSet(f, Repos)
      /\ AccountedOf(gone) = SumFunctionOnSet(f, gone)
      /\ AccountedOf(Repos)' = SumFunctionOnSet(h, Repos)
  BY DEF AccountedOf
<1> HIDE DEF f, h
<1>7. /\ SumFunctionOnSet(h, Repos) + f[r] + SumFunctionOnSet(f, gone)
                = SumFunctionOnSet(f, Repos) + h[r]
      /\ f[r] + SumFunctionOnSet(f, gone) <= SumFunctionOnSet(f, Repos)
      /\ SumFunctionOnSet(f, gone) \in Nat
      /\ SumFunctionOnSet(f, Repos) \in Nat /\ SumFunctionOnSet(h, Repos) \in Nat
  BY <1>2, <1>3, <1>4, SumAfter, CacheAssumption
<1>8. f[r] \in Nat /\ h[r] \in Nat
  BY <1>2
<1> QED BY <1>5, <1>6, <1>7, <1>8

LEMMA WithoutIs ==
    ASSUME CacheType, NEW S \in SUBSET Repos
    PROVE  /\ Without(S) \in [Repos -> Nat]
           /\ \A x \in Repos \ S : Without(S)[x] = disk[x]
           /\ \A x \in S : Without(S)[x] = 0
BY DEF Without, CacheType

LEMMA NothingAccounted == AccountedOf({}) = 0
  BY SumOfNone DEF AccountedOf

\* A summand on both sides.
LEMMA Cancel ==
    ASSUME NEW u \in Nat, NEW v \in Nat, NEW a \in Nat, NEW b \in Nat, u = a, v + a = u + b
    PROVE  v = b
OBVIOUS

LEMMA Balance ==
    ASSUME NEW t \in Nat, NEW u \in Nat, NEW m \in Nat, NEW g \in Nat, NEW e \in Nat,
           NEW a \in Nat, NEW b \in Nat, b + m + g = a + e
    PROVE  /\ t + m + g = u + e => t + a = u + b
           /\ t + m + g >= u + e => t + a >= u + b
OBVIOUS

\* One accounting section: what it is worth to r and to the total.
LEMMA AccountFiles ==
    ASSUME CacheType, NEW gone \in SUBSET Repos, NEW r \in Repos \ gone, NEW entry \in Entries,
           NEW total \in Nat, Account(gone, r, entry, total),
           \A v \in gone : held[v] = NoProcess,
           disk' \in [Repos -> Nat],
           \A x \in Repos \ {r} : disk'[x] = IF x \in gone THEN 0 ELSE disk[x],
           total <= Hard \/ total <= usage,
           usage >= Accounted(meta[r]) + AccountedOf(gone) =>
             total + Accounted(meta[r]) + AccountedOf(gone) >= usage + Accounted(entry)
    PROVE  /\ Files(r)
           /\ (usage >= Accounted(meta[r]) + AccountedOf(gone) =>
                 total + Accounted(meta[r]) + AccountedOf(gone) = usage + Accounted(entry))
              => Balanced
<1>1. /\ meta' \in [Repos -> Entries] /\ usage' \in Nat
      /\ faults' \in Nat /\ exact' \in BOOLEAN
      /\ exact' => exact /\ usage' = total
      /\ usage' = usage \/ usage' = total
      /\ \A x \in Repos \ (gone \cup {r}) : meta'[x] = meta[x]
      /\ \A x \in gone \ {r} : meta'[x] = NoMeta
  BY AccountTypes
<1>2. /\ AccountedOf(Repos)' + Accounted(meta[r]) + AccountedOf(gone)
                = AccountedOf(Repos) + Accounted(entry)
      /\ Accounted(meta[r]) + AccountedOf(gone) <= AccountedOf(Repos)
      /\ AccountedOf(gone) \in Nat /\ Accounted(meta[r]) \in Nat
      /\ AccountedOf(Repos) \in Nat /\ AccountedOf(Repos)' \in Nat
  BY AccountSums
<1>3. Accounted(entry) \in Nat /\ usage \in Nat
  BY DEF CacheType, Entries, Accounted
<1>4. \A x \in Repos \ {r} : Same(x) \/ Evicted(x)
  BY <1>1, Entry DEF Same, Evicted
<1>5. usage' <= Hard \/ usage' <= usage
  BY <1>1, <1>3
<1>6. ASSUME exact', usage >= AccountedOf(Repos)
      PROVE  usage' = total /\ usage >= Accounted(meta[r]) + AccountedOf(gone)
  BY <1>1, <1>2, <1>3, <1>6
<1>7. ASSUME exact', usage >= AccountedOf(Repos)
      PROVE  usage' + AccountedOf(Repos) >= usage + AccountedOf(Repos)'
  <2>1. total + Accounted(meta[r]) + AccountedOf(gone) >= usage + Accounted(entry)
    BY <1>6, <1>7
  <2> QED BY <1>2, <1>3, <1>6, <1>7, <2>1, Balance
<1>8. ASSUME usage >= Accounted(meta[r]) + AccountedOf(gone) =>
               total + Accounted(meta[r]) + AccountedOf(gone) = usage + Accounted(entry)
      PROVE  Balanced
  <2>1. SUFFICES ASSUME exact', usage >= AccountedOf(Repos)
                 PROVE  usage' + AccountedOf(Repos) = usage + AccountedOf(Repos)'
    BY DEF Balanced
  <2>2. total + Accounted(meta[r]) + AccountedOf(gone) = usage + Accounted(entry)
    BY <1>6, <1>8, <2>1
  <2>3. total + AccountedOf(Repos) = usage + AccountedOf(Repos)'
    <3>1. /\ total \in Nat /\ usage \in Nat /\ Accounted(meta[r]) \in Nat
          /\ AccountedOf(gone) \in Nat /\ Accounted(entry) \in Nat
          /\ AccountedOf(Repos) \in Nat /\ AccountedOf(Repos)' \in Nat
      BY <1>2, <1>3
    <3>2. AccountedOf(Repos)' + Accounted(meta[r]) + AccountedOf(gone)
            = AccountedOf(Repos) + Accounted(entry)
      BY <1>2
    <3> QED BY <2>2, <3>1, <3>2, Balance
  <2> QED BY <1>6, <2>1, <2>3
<1>9. Files(r)
  BY <1>1, <1>2, <1>4, <1>5, <1>7 DEF Files
<1> QED BY <1>8, <1>9

\* The sections that write an entry: each keeps the total in step with the entries and,
\* unless it lowers the total, inside the hard limit.
LEMMA RecordFiles ==
    ASSUME CacheType, NEW r \in Repos, NEW bytes \in Nat, NEW ok \in BOOLEAN,
           RecordMetadata(r, bytes, ok)
    PROVE  Files(r) /\ Balanced /\ (ok => disk'[r] = disk[r])
<1> DEFINE proposed == Less(usage, Accounted(meta[r])) + bytes
<1>1. PICK gone \in Victims(proposed, r, Hard) :
         LET total == Less(proposed, AccountedOf(gone)) IN
         /\ ok = (total <= Hard)
         /\ disk' = Without(IF ok THEN gone ELSE gone \cup {r})
         /\ Account(gone, r,
             IF ok THEN [meta[r] EXCEPT !.known = TRUE, !.bytes = bytes, !.reserved = 0]
             ELSE NoMeta,
             IF ok THEN total ELSE Less(total, bytes))
  BY DEF RecordMetadata
<1> DEFINE total == Less(proposed, AccountedOf(gone))
           entry == IF ok THEN [meta[r] EXCEPT !.known = TRUE, !.bytes = bytes, !.reserved = 0]
                    ELSE NoMeta
           after == IF ok THEN total ELSE Less(total, bytes)
<1>2. gone \subseteq Repos /\ r \notin gone /\ \A v \in gone : held[v] = NoProcess
  BY <1>1, VictimsAre
<1>3. meta[r] \in Entries /\ usage \in Nat /\ Accounted(meta[r]) \in Nat
  BY DEF CacheType, Entries, Accounted
<1>4. entry \in Entries /\ Accounted(entry) = IF ok THEN bytes ELSE 0
  <2>1. CASE ok
    <3> DEFINE rec == [meta[r] EXCEPT !.known = TRUE, !.bytes = bytes, !.reserved = 0]
    <3>1. rec \in Entries /\ Accounted(rec) = bytes + 0
      BY <1>3, EntryWith
    <3>2. entry = rec
      BY <2>1
    <3> HIDE DEF rec, entry
    <3> QED BY <3>1, <3>2, <2>1
  <2>2. CASE ~ok
    BY <2>2, Entry
  <2> QED BY <2>1, <2>2
<1>5. AccountedOf(gone) \in Nat
  BY <1>2, AccountedIsNat
<1>6. proposed \in Nat /\ total \in Nat /\ after \in Nat /\ total <= proposed
      /\ after <= total
  <2>1. Less(usage, Accounted(meta[r])) \in Nat
    BY <1>3, Numbers
  <2>2. proposed \in Nat
    BY <2>1
  <2> HIDE DEF proposed
  <2>3. total \in Nat /\ total <= proposed
    BY <2>2, <1>5, Numbers
  <2> HIDE DEF total
  <2>4. Less(total, bytes) \in Nat /\ Less(total, bytes) <= total
    BY <2>3, Numbers
  <2> QED BY <2>2, <2>3, <2>4
<1>7. Account(gone, r, entry, after) /\ ok = (total <= Hard)
      /\ disk' = Without(IF ok THEN gone ELSE gone \cup {r})
  BY <1>1
<1>8. disk' \in [Repos -> Nat] /\ (ok => disk'[r] = disk[r])
      /\ \A x \in Repos \ {r} : disk'[x] = IF x \in gone THEN 0 ELSE disk[x]
  <2>1. CASE ok
    BY <2>1, <1>7, <1>2, WithoutIs
  <2>2. CASE ~ok
    BY <2>2, <1>7, <1>2, WithoutIs
  <2> QED BY <2>1, <2>2
<1> HIDE DEF entry, after
<1>9. after <= Hard \/ after <= usage
  <2>1. CASE ok
    BY <2>1, <1>7 DEF after
  <2>2. CASE ~ok
    <3>1. after = Less(total, bytes)
      BY <2>2 DEF after
    <3> QED BY <3>1, <1>3, <1>5 DEF Less
  <2> QED BY <2>1, <2>2
<1>10. ASSUME usage >= Accounted(meta[r]) + AccountedOf(gone)
       PROVE  after + Accounted(meta[r]) + AccountedOf(gone) = usage + Accounted(entry)
  <2>1. CASE ok
    <3>1. after = total /\ Accounted(entry) = bytes
      BY <2>1, <1>4 DEF after
    <3> QED BY <3>1, <1>3, <1>5, <1>10 DEF Less
  <2>2. CASE ~ok
    <3>1. after = Less(total, bytes) /\ Accounted(entry) = 0
      BY <2>2, <1>4 DEF after
    <3> QED BY <3>1, <1>3, <1>5, <1>10 DEF Less
  <2> QED BY <2>1, <2>2
<1>11. Accounted(entry) \in Nat
  BY <1>4
<1>12. Files(r) /\ Balanced
  <2> HIDE DEF proposed, total
  <2>1. gone \in SUBSET Repos /\ r \in Repos \ gone
    BY <1>2
  <2>2. usage >= Accounted(meta[r]) + AccountedOf(gone) =>
          /\ after + Accounted(meta[r]) + AccountedOf(gone) >= usage + Accounted(entry)
          /\ after + Accounted(meta[r]) + AccountedOf(gone) = usage + Accounted(entry)
    BY <1>3, <1>5, <1>6, <1>10, <1>11
  <2>3. entry \in Entries /\ after \in Nat
    BY <1>4, <1>6
  <2> QED BY <1>2, <1>7, <1>8, <1>9, <2>1, <2>2, <2>3, AccountFiles
<1> QED BY <1>8, <1>12

LEMMA ForgetFiles ==
    ASSUME CacheType, NEW r \in Repos, ForgetEntry(r)
    PROVE  Files(r) /\ Balanced /\ disk' = disk
<1> DEFINE total == Less(usage, Accounted(meta[r]))
<1>1. usage \in Nat /\ Accounted(meta[r]) \in Nat /\ disk \in [Repos -> Nat]
  BY DEF CacheType, Entries, Accounted
<1>2. total \in Nat /\ total <= usage
  BY <1>1, Numbers
<1>3. disk' = disk /\ Account({}, r, NoMeta, total)
  BY DEF ForgetEntry
<1>4. usage >= Accounted(meta[r]) + AccountedOf({}) =>
        total + Accounted(meta[r]) + AccountedOf({}) = usage + Accounted(NoMeta)
  BY <1>1, NothingAccounted, Entry DEF Less
<1>5. total + Accounted(meta[r]) + AccountedOf({}) \in Nat
  BY <1>1, <1>2, NothingAccounted
<1> HIDE DEF total
<1>6. usage >= Accounted(meta[r]) + AccountedOf({}) =>
        /\ total + Accounted(meta[r]) + AccountedOf({}) >= usage + Accounted(NoMeta)
        /\ total + Accounted(meta[r]) + AccountedOf({}) = usage + Accounted(NoMeta)
  BY <1>4, <1>5
<1>7. r \in Repos \ {}
  OBVIOUS
<1>8. \A x \in Repos \ {r} : disk'[x] = IF x \in {} THEN 0 ELSE disk[x]
  BY <1>3
<1>9. Files(r) /\ Balanced
  BY <1>1, <1>2, <1>3, <1>6, <1>7, <1>8, Entry, AccountFiles
<1> QED BY <1>3, <1>9

LEMMA Bytes ==
    /\ Hard \in Nat /\ Target \in Nat /\ CloneReserve \in Nat /\ Reservation \in Nat
    /\ MinGrowth \in Nat /\ MaxSize \in Nat /\ MaxFaults \in Nat /\ Target <= Hard
  BY CacheAssumption

LEMMA CloneFiles ==
    ASSUME CacheType, NEW w \in Processes, proc[w].repo \in Repos, ReserveClone(w)
    PROVE  Files(proc[w].repo) /\ (Blank(proc[w].repo) => Balanced) /\ disk'[proc[w].repo] = disk[proc[w].repo]
<1> DEFINE r == proc[w].repo
           proposed == usage + CloneReserve
<1>1. PICK gone \in Victims(proposed, r, Hard) :
         LET total == Less(proposed, AccountedOf(gone))
             fits == total <= Hard IN
         /\ disk' = Without(gone)
         /\ Account(gone, r,
              IF fits THEN [NoMeta EXCEPT !.known = TRUE, !.reserved = CloneReserve]
              ELSE meta[r],
              IF fits THEN total ELSE Less(total, CloneReserve))
  BY DEF ReserveClone
<1> DEFINE total == Less(proposed, AccountedOf(gone))
           fits == total <= Hard
           entry == IF fits THEN [NoMeta EXCEPT !.known = TRUE, !.reserved = CloneReserve]
                    ELSE meta[r]
           after == IF fits THEN total ELSE Less(total, CloneReserve)
<1>2. gone \subseteq Repos /\ r \notin gone /\ \A v \in gone : held[v] = NoProcess
  BY <1>1, VictimsAre
<1>3. meta[r] \in Entries /\ usage \in Nat /\ Accounted(meta[r]) \in Nat
  BY DEF CacheType, Entries, Accounted
<1>4. entry \in Entries /\ Accounted(entry) = IF fits THEN CloneReserve ELSE Accounted(meta[r])
  <2>1. CASE fits
    <3> DEFINE rec == [NoMeta EXCEPT !.known = TRUE, !.reserved = CloneReserve]
    <3>1. rec \in Entries /\ Accounted(rec) = CloneReserve
      <4>1. NoMeta.bytes = 0
        BY DEF NoMeta
      <4>2. rec \in Entries /\ rec.bytes = 0 /\ rec.reserved = CloneReserve
        BY <4>1, Entry, Bytes DEF Entries
      <4> HIDE DEF rec
      <4> QED BY <4>2, Bytes DEF Accounted
    <3>2. entry = rec
      BY <2>1
    <3> HIDE DEF rec, entry
    <3> QED BY <3>1, <3>2, <2>1
  <2>2. CASE ~fits
    BY <2>2, <1>3
  <2> QED BY <2>1, <2>2
<1>5. AccountedOf(gone) \in Nat
  BY <1>2, AccountedIsNat
<1>6. proposed \in Nat /\ total \in Nat /\ after \in Nat
  <2>1. proposed \in Nat
    BY <1>3, Bytes
  <2> HIDE DEF proposed
  <2>2. total \in Nat
    BY <2>1, <1>5, Numbers
  <2> HIDE DEF total
  <2> QED BY <2>1, <2>2, Numbers, Bytes
<1>7. Account(gone, r, entry, after) /\ disk' = Without(gone)
  BY <1>1
<1>8. disk' \in [Repos -> Nat] /\ disk'[r] = disk[r]
      /\ \A x \in Repos \ {r} : disk'[x] = IF x \in gone THEN 0 ELSE disk[x]
  BY <1>7, <1>2, WithoutIs
<1>9. disk[r] = 0
  BY DEF ReserveClone
<1> HIDE DEF entry, after
<1>10. after <= Hard \/ after <= usage
  <2>1. CASE fits
    BY <2>1 DEF after
  <2>2. CASE ~fits
    <3>1. after = Less(total, CloneReserve)
      BY <2>2 DEF after
    <3> QED BY <3>1, <1>3, <1>5, Bytes DEF Less
  <2> QED BY <2>1, <2>2
<1>11. ASSUME usage >= Accounted(meta[r]) + AccountedOf(gone)
       PROVE  /\ after + Accounted(meta[r]) + AccountedOf(gone) >= usage + Accounted(entry)
              /\ Accounted(meta[r]) = 0 =>
                   after + Accounted(meta[r]) + AccountedOf(gone) = usage + Accounted(entry)
  <2>1. CASE fits
    <3>1. after = total /\ Accounted(entry) = CloneReserve
      BY <2>1, <1>4 DEF after
    <3> QED BY <3>1, <1>3, <1>5, <1>11, Bytes DEF Less
  <2>2. CASE ~fits
    <3>1. after = Less(total, CloneReserve) /\ Accounted(entry) = Accounted(meta[r])
      BY <2>2, <1>4 DEF after
    <3> QED BY <3>1, <1>3, <1>5, <1>11, Bytes DEF Less
  <2> QED BY <2>1, <2>2
<1>12. Files(r) /\ (Blank(r) => Balanced)
  <2> HIDE DEF proposed, total, fits
  <2>1. gone \in SUBSET Repos /\ r \in Repos \ gone
    BY <1>2
  <2>2. usage >= Accounted(meta[r]) + AccountedOf(gone) =>
          /\ after + Accounted(meta[r]) + AccountedOf(gone) >= usage + Accounted(entry)
          /\ Blank(r) =>
               after + Accounted(meta[r]) + AccountedOf(gone) = usage + Accounted(entry)
    BY <1>9, <1>11 DEF Blank
  <2>3. entry \in Entries /\ after \in Nat
    BY <1>4, <1>6
  <2> HIDE DEF r
  <2> QED BY <1>2, <1>7, <1>8, <1>10, <2>1, <2>2, <2>3, AccountFiles
<1> QED BY <1>8, <1>12

\* The subtractions of a growth that fits never reach zero early.
LEMMA GrowthSums ==
    ASSUME NEW u \in Nat, NEW a \in Nat, NEW b \in Nat, NEW g \in Nat, NEW v \in Nat, u >= a + g
    PROVE  /\ Less(Less(u, a) + b + v, g) = u - a - g + b + v
           /\ Less(Less(Less(u, a) + b + v, g), v) = u - a - g + b
           /\ Less(Less(Less(Less(u, a) + b + v, g), v), b) = u - a - g
<1>1. Less(u, a) + b + v = u - a + b + v
  BY DEF Less
<1>2. Less(Less(u, a) + b + v, g) = u - a - g + b + v
  BY <1>1 DEF Less
<1>3. Less(Less(Less(u, a) + b + v, g), v) = u - a - g + b
  BY <1>2 DEF Less
<1>4. Less(Less(Less(Less(u, a) + b + v, g), v), b) = u - a - g
  BY <1>3 DEF Less
<1> QED BY <1>2, <1>3, <1>4

LEMMA GrowthFiles ==
    ASSUME CacheType, NEW w \in Processes, proc[w].repo \in Repos, BeginGrowth(w)
    PROVE  Files(proc[w].repo) /\ Balanced
<1> DEFINE r == proc[w].repo
           bytes == disk[r]
           reserve == GrowthReserve(bytes)
           proposed == Less(usage, Accounted(meta[r])) + bytes + reserve
           rest == [meta[r] EXCEPT !.known = TRUE, !.bytes = bytes, !.reserved = 0]
<1>1. PICK gone \in Victims(proposed, r, Hard) :
         LET total == Less(proposed, AccountedOf(gone))
             bare == Less(total, reserve) IN
         IF total <= Hard
         THEN /\ disk' = Without(gone)
              /\ Account(gone, r, [rest EXCEPT !.reserved = reserve], total)
         ELSE /\ disk' = Without(IF bare > Hard THEN gone \cup {r} ELSE gone)
              /\ Account(gone, r, IF bare > Hard THEN NoMeta ELSE rest,
                         IF bare > Hard THEN Less(bare, bytes) ELSE bare)
  BY DEF BeginGrowth
<1> DEFINE total == Less(proposed, AccountedOf(gone))
           bare == Less(total, reserve)
           fits == total <= Hard
           empty == bare > Hard
           entry == IF fits THEN [rest EXCEPT !.reserved = reserve]
                    ELSE IF empty THEN NoMeta ELSE rest
           after == IF fits THEN total ELSE IF empty THEN Less(bare, bytes) ELSE bare
<1>2. gone \subseteq Repos /\ r \notin gone /\ \A v \in gone : held[v] = NoProcess
  BY <1>1, VictimsAre
<1>3. /\ meta[r] \in Entries /\ usage \in Nat /\ Accounted(meta[r]) \in Nat
      /\ bytes \in Nat /\ reserve \in Nat
  <2>1. meta[r] \in Entries /\ usage \in Nat /\ Accounted(meta[r]) \in Nat /\ bytes \in Nat
    BY DEF CacheType, Entries, Accounted
  <2> HIDE DEF bytes
  <2>2. Less(Reservation, bytes) \in Nat /\ Less(Hard, bytes) \in Nat
    BY <2>1, Bytes, Numbers
  <2>3. Smaller(MinGrowth, Less(Hard, bytes)) \in Nat
    BY <2>2, Bytes, Numbers
  <2>4. reserve \in Nat
    BY <2>2, <2>3, Numbers DEF GrowthReserve
  <2> QED BY <2>1, <2>4
<1>4. AccountedOf(gone) \in Nat
  BY <1>2, AccountedIsNat
<1> HIDE DEF bytes, reserve
<1>5. rest \in Entries /\ Accounted(rest) = bytes
  <2>1. rest \in Entries /\ Accounted(rest) = bytes + 0
    BY <1>3, EntryWith
  <2> QED BY <2>1, <1>3
<1>6. /\ entry \in Entries
      /\ Accounted(entry) = IF fits THEN bytes + reserve ELSE IF empty THEN 0 ELSE bytes
  <2>1. CASE fits
    <3> DEFINE rec == [rest EXCEPT !.reserved = reserve]
    <3>1. rest.bytes = bytes
      BY <1>3 DEF Entries
    <3> HIDE DEF rest
    <3>2. rec \in Entries /\ rec.bytes = bytes /\ rec.reserved = reserve
      BY <3>1, <1>3, <1>5 DEF Entries
    <3>3. entry = rec
      BY <2>1
    <3> HIDE DEF rec, entry
    <3> QED BY <3>2, <3>3, <2>1 DEF Accounted
  <2>2. CASE ~fits
    BY <2>2, <1>5, Entry
  <2> QED BY <2>1, <2>2
<1>7. proposed \in Nat /\ total \in Nat /\ bare \in Nat /\ after \in Nat
  <2>1. Less(usage, Accounted(meta[r])) \in Nat
    BY <1>3, Numbers
  <2>2. proposed \in Nat
    BY <1>3, <2>1
  <2> HIDE DEF proposed
  <2>3. total \in Nat
    BY <2>2, <1>4, Numbers
  <2> HIDE DEF total
  <2>4. bare \in Nat
    BY <2>3, <1>3, Numbers
  <2> HIDE DEF bare
  <2>5. Less(bare, bytes) \in Nat
    BY <2>4, <1>3, Numbers
  <2> QED BY <2>2, <2>3, <2>4, <2>5
<1>8. /\ Account(gone, r, entry, after)
      /\ disk' = Without(IF ~fits /\ empty THEN gone \cup {r} ELSE gone)
  <2>1. CASE fits
    BY <2>1, <1>1
  <2>2. CASE ~fits
    BY <2>2, <1>1
  <2> QED BY <2>1, <2>2
<1> HIDE DEF entry, after, rest
<1>9. /\ disk' \in [Repos -> Nat]
      /\ \A x \in Repos \ {r} : disk'[x] = IF x \in gone THEN 0 ELSE disk[x]
  <2>1. CASE ~fits /\ empty
    BY <2>1, <1>8, <1>2, WithoutIs
  <2>2. CASE ~(~fits /\ empty)
    BY <2>2, <1>8, <1>2, WithoutIs
  <2> QED BY <2>1, <2>2
<1>10. after <= Hard \/ after <= usage
  <2>1. CASE fits
    BY <2>1 DEF after
  <2>2. CASE ~fits /\ empty
    <3>1. after = Less(bare, bytes)
      BY <2>2 DEF after
    <3> QED BY <3>1, <1>3, <1>4, Bytes DEF Less
  <2>3. CASE ~fits /\ ~empty
    <3>1. after = bare /\ ~(bare > Hard)
      BY <2>3 DEF after
    <3> QED BY <3>1, <1>7, Bytes
  <2> QED BY <2>1, <2>2, <2>3
<1>11. ASSUME usage >= Accounted(meta[r]) + AccountedOf(gone)
       PROVE  after + Accounted(meta[r]) + AccountedOf(gone) = usage + Accounted(entry)
  <2>4. /\ total = usage - Accounted(meta[r]) - AccountedOf(gone) + bytes + reserve
        /\ bare = usage - Accounted(meta[r]) - AccountedOf(gone) + bytes
        /\ Less(bare, bytes) = usage - Accounted(meta[r]) - AccountedOf(gone)
    <3> DEFINE counted == Accounted(meta[r])
               freed == AccountedOf(gone)
    <3>1. /\ usage \in Nat /\ counted \in Nat /\ bytes \in Nat /\ freed \in Nat
          /\ reserve \in Nat /\ usage >= counted + freed
      BY <1>3, <1>4, <1>11
    <3>2. /\ total = Less(Less(usage, counted) + bytes + reserve, freed)
          /\ bare = Less(Less(Less(usage, counted) + bytes + reserve, freed), reserve)
      OBVIOUS
    <3> HIDE DEF counted, freed, total, bare
    <3>3. /\ total = usage - counted - freed + bytes + reserve
          /\ bare = usage - counted - freed + bytes
          /\ Less(bare, bytes) = usage - counted - freed
      <4> HIDE DEF reserve, bytes
      <4>1. /\ Less(Less(usage, counted) + bytes + reserve, freed)
                 = usage - counted - freed + bytes + reserve
            /\ Less(Less(Less(usage, counted) + bytes + reserve, freed), reserve)
                 = usage - counted - freed + bytes
            /\ Less(Less(Less(Less(usage, counted) + bytes + reserve, freed), reserve), bytes)
                 = usage - counted - freed
        BY ONLY <3>1, GrowthSums
      <4> QED BY ONLY <3>2, <4>1
    <3> QED BY <3>3 DEF counted, freed
  <2> HIDE DEF total, bare, proposed
  <2>1. CASE fits
    <3>1. after = total /\ Accounted(entry) = bytes + reserve
      BY <2>1, <1>6 DEF after
    <3> QED BY <3>1, <2>4, <1>3, <1>4
  <2>2. CASE ~fits /\ empty
    <3>1. after = Less(bare, bytes) /\ Accounted(entry) = 0
      BY <2>2, <1>6 DEF after
    <3> QED BY <3>1, <2>4, <1>3, <1>4
  <2>3. CASE ~fits /\ ~empty
    <3>1. after = bare /\ Accounted(entry) = bytes
      BY <2>3, <1>6 DEF after
    <3> QED BY <3>1, <2>4, <1>3, <1>4
  <2> QED BY <2>1, <2>2, <2>3
<1>12. Accounted(entry) \in Nat /\ entry \in Entries /\ after \in Nat
  BY <1>3, <1>6, <1>7
<1> HIDE DEF proposed, total, bare, fits, empty
<1>13. gone \in SUBSET Repos /\ r \in Repos \ gone
  BY <1>2
<1>14. usage >= Accounted(meta[r]) + AccountedOf(gone) =>
         /\ after + Accounted(meta[r]) + AccountedOf(gone) >= usage + Accounted(entry)
         /\ after + Accounted(meta[r]) + AccountedOf(gone) = usage + Accounted(entry)
  BY <1>3, <1>4, <1>11, <1>12
<1> HIDE DEF r
<1>15. Files(r) /\ Balanced
  BY <1>2, <1>8, <1>9, <1>10, <1>12, <1>13, <1>14, AccountFiles
<1> QED BY <1>15 DEF r

LEMMA EnforceFiles ==
    ASSUME CacheType, NEW own, EnforceTotal(own), UNCHANGED <<faults, exact>>
    PROVE  /\ Files(own) /\ Balanced
           /\ \A x \in Repos : Same(x) \/ Evicted(x)
           /\ own \in Repos => Same(own)
<1> DEFINE sum == AccountedOf(Repos)
<1>1. sum \in Nat /\ usage \in Nat /\ faults \in Nat /\ exact \in BOOLEAN
      /\ disk \in [Repos -> Nat] /\ meta \in [Repos -> Entries]
  BY AccountedIsNat DEF CacheType
<1>2. CASE usage <= Hard
  <2>1. UNCHANGED <<disk, meta, usage>>
    BY <1>2 DEF EnforceTotal
  <2>2. AccountedOf(Repos)' = AccountedOf(Repos)
    BY <2>1 DEF AccountedOf
  <2>3. \A x \in Repos : Same(x)
    BY <2>1 DEF Same
  <2> QED BY <1>1, <2>1, <2>2, <2>3 DEF Files, Balanced
<1>3. CASE ~(usage <= Hard)
  <2>1. PICK gone \in Victims(usage, own, Target) :
           /\ disk' = Without(gone)
           /\ meta' = [r \in Repos |-> IF r \in gone THEN NoMeta ELSE meta[r]]
           /\ usage' = Less(usage, AccountedOf(gone))
    BY <1>3 DEF EnforceTotal
  <2>2. gone \subseteq Repos /\ own \notin gone /\ \A v \in gone : held[v] = NoProcess
    BY <2>1, VictimsAre
  <2> DEFINE f == [x \in Repos |-> Accounted(meta[x])]
             h == [x \in Repos |-> Accounted(meta'[x])]
  <2>3. meta' \in [Repos -> Entries] /\ disk' \in [Repos -> Nat]
        /\ \A x \in Repos : disk'[x] = IF x \in gone THEN 0 ELSE disk[x]
    BY <2>1, <2>2, <1>1, Entry, WithoutIs
  <2>4. \A x \in Repos : f[x] \in Nat
    BY <1>1 DEF Entries, Accounted
  <2>5. \A x \in gone : h[x] = 0
    BY <2>1, <2>2, Entry
  <2>6. \A x \in Repos \ gone : h[x] = f[x]
    BY <2>1
  <2>7. /\ AccountedOf(Repos) = SumFunctionOnSet(f, Repos)
        /\ AccountedOf(gone) = SumFunctionOnSet(f, gone)
        /\ AccountedOf(Repos)' = SumFunctionOnSet(h, Repos)
    BY DEF AccountedOf
  <2> HIDE DEF f, h
  <2>8. /\ SumFunctionOnSet(h, Repos) + SumFunctionOnSet(f, gone) = SumFunctionOnSet(f, Repos)
        /\ SumFunctionOnSet(f, gone) \in Nat
        /\ SumFunctionOnSet(f, Repos) \in Nat /\ SumFunctionOnSet(h, Repos) \in Nat
    BY <2>2, <2>4, <2>5, <2>6, SumAfterLoss, CacheAssumption
  <2>9. /\ AccountedOf(Repos)' + AccountedOf(gone) = AccountedOf(Repos)
        /\ AccountedOf(gone) \in Nat /\ AccountedOf(Repos)' \in Nat
    BY <2>7, <2>8
  <2>10. usage' \in Nat /\ usage' <= usage
    BY <2>1, <2>9, <1>1, Numbers
  <2>11. usage >= AccountedOf(Repos) =>
           usage' + AccountedOf(Repos) = usage + AccountedOf(Repos)'
    BY <2>1, <2>9, <1>1 DEF Less
  <2>12. usage >= AccountedOf(Repos) =>
           /\ usage' + AccountedOf(Repos) >= usage + AccountedOf(Repos)'
           /\ usage' + AccountedOf(Repos) = usage + AccountedOf(Repos)'
    BY <2>9, <2>10, <2>11, <1>1
  <2>13. \A x \in Repos : IF x \in gone THEN Evicted(x) ELSE Same(x)
    BY <2>1, <2>2, <2>3, Entry DEF Same, Evicted
  <2> QED BY <1>1, <2>2, <2>3, <2>9, <2>10, <2>12, <2>13 DEF Files, Balanced
<1> QED BY <1>2, <1>3

LEMMA DiskFiles ==
    ASSUME CacheType, NEW r \in Repos, disk' \in [Repos -> Nat],
           \A x \in Repos \ {r} : disk'[x] = disk[x], UNCHANGED <<meta, usage, faults, exact>>
    PROVE  Files(r) /\ Balanced
<1>1. AccountedOf(Repos) \in Nat
  BY AccountedIsNat
<1>2. AccountedOf(Repos)' = AccountedOf(Repos)
  BY DEF AccountedOf
<1>3. meta' \in [Repos -> Entries] /\ usage' \in Nat /\ faults' \in Nat
  BY DEF CacheType
<1>4. exact' \in BOOLEAN /\ (exact' => exact)
  BY DEF CacheType
<1>5. \A x \in Repos \ {r} : Same(x)
  BY DEF Same
<1>6. usage' = usage /\ usage \in Nat
  BY DEF CacheType
<1> QED BY <1>1, <1>2, <1>3, <1>4, <1>5, <1>6 DEF Files, Balanced

\* What one step of a process does to the processes and the locks.
Moves(w) ==
    /\ Busy(w)
    /\ proc' \in [Processes -> Procs] /\ held' \in [Repos -> Processes \cup {NoProcess}]
    /\ \A v \in Processes \ {w} : proc'[v] = proc[v]
    /\ proc'[w].at \notin {"idle", "dead"}
    /\ Busy(w)' => proc'[w].repo = proc[w].repo
    /\ proc'[w].at \in Inside => held'[proc[w].repo] = w
    /\ \A r \in Repos : held'[r] # held[r] => r = proc[w].repo /\ held[r] \in {w, NoProcess}

\* The whole step: it leaves nothing to scan that is not on disk, and sends no process to
\* ensure a repository that is gone while its entry still accounts for something.
Effect(w) ==
    /\ Moves(w)
    /\ Files(proc[w].repo) /\ ((About(w) => Blank(proc[w].repo)) => Balanced)
    /\ proc'[w].at = "scanning" => disk'[proc[w].repo] > 0
    /\ About(w)' => \/ disk'[proc[w].repo] > 0
                    \/ About(w) /\ Same(proc[w].repo)
                    \/ proc[w].at = "scanning" /\ Same(proc[w].repo)

\* A process that moves on.
LEMMA GotoIs ==
    ASSUME CacheType, NEW w \in Processes, NEW place \in Places, Goto(w, place)
    PROVE  /\ proc' \in [Processes -> Procs]
           /\ \A v \in Processes \ {w} : proc'[v] = proc[v]
           /\ proc'[w].at = place
           /\ place \notin {"done", "dead"} =>
                proc'[w].repo = proc[w].repo /\ proc'[w].stage = proc[w].stage
           /\ place \in {"done", "dead"} => proc'[w].repo = NoRepo
<1>1. proc \in [Processes -> Procs]
  BY DEF CacheType
<1>2. CASE place \in {"done", "dead"}
  <2>1. Rest(place) \in Procs /\ Rest(place).at = place /\ Rest(place).repo = NoRepo
    BY DEF Rest, Procs
  <2>2. proc' = [proc EXCEPT ![w] = Rest(place)]
    BY <1>2 DEF Goto
  <2> QED BY <1>1, <1>2, <2>1, <2>2
<1>3. CASE place \notin {"done", "dead"}
  <2>1. proc' = [proc EXCEPT ![w] = [@ EXCEPT !.at = place]]
    BY <1>3 DEF Goto
  <2> QED BY <1>1, <1>3, <2>1 DEF Procs
<1> QED BY <1>2, <1>3

\* A process that queues for the lock again.
LEMMA Requeued ==
    ASSUME CacheType, NEW w \in Processes, NEW s \in {"inspect", "bare", "ensure", "checkout"},
           proc' = [proc EXCEPT ![w].at = "waiting", ![w].stage = s]
    PROVE  /\ proc' \in [Processes -> Procs]
           /\ \A v \in Processes \ {w} : proc'[v] = proc[v]
           /\ proc'[w].at = "waiting" /\ proc'[w].repo = proc[w].repo /\ proc'[w].stage = s
<1> DEFINE p == [[proc[w] EXCEPT !.at = "waiting"] EXCEPT !.stage = s]
<1>1. proc \in [Processes -> Procs] /\ proc[w] \in Procs
  BY DEF CacheType
<1>2. proc' = [proc EXCEPT ![w] = p]
  BY <1>1
<1>3. p \in Procs /\ p.at = "waiting" /\ p.repo = proc[w].repo /\ p.stage = s
  BY <1>1 DEF Procs, Places
<1> HIDE DEF p
<1> QED BY <1>1, <1>2, <1>3

LEMMA GotoMoves ==
    ASSUME CacheType, LockInv, NEW w \in Processes, NEW place \in Places \ {"idle", "dead"},
           Goto(w, place), Busy(w), UNCHANGED held,
           place \in Inside => proc[w].at \in Inside
    PROVE  Moves(w) /\ proc'[w].at = place /\ proc[w].repo \in Repos
<1>1. proc' \in [Processes -> Procs] /\ (\A v \in Processes \ {w} : proc'[v] = proc[v])
      /\ proc'[w].at = place
      /\ (place \notin {"done", "dead"} => proc'[w].repo = proc[w].repo)
  BY GotoIs
<1>2. held' \in [Repos -> Processes \cup {NoProcess}]
  BY DEF CacheType
<1>3. proc[w].repo \in Repos
  BY DEF LockInv
<1>4. Busy(w)' => proc'[w].repo = proc[w].repo
  BY <1>1 DEF Busy
<1>5. proc'[w].at \in Inside => held'[proc[w].repo] = w
  BY <1>1 DEF LockInv
<1> QED BY <1>1, <1>2, <1>3, <1>4, <1>5 DEF Moves

\* A step that leaves the files alone.
LEMMA QuietMoves ==
    ASSUME CacheType, NEW w \in Processes, proc[w].repo \in Repos, Moves(w),
           UNCHANGED <<disk, meta, usage, faults, exact>>
    PROVE  Files(proc[w].repo) /\ Balanced /\ Same(proc[w].repo)
<1>1. disk' \in [Repos -> Nat] /\ \A x \in Repos \ {proc[w].repo} : disk'[x] = disk[x]
  BY DEF CacheType
<1> QED BY <1>1, DiskFiles DEF Same

\* The steps of a process, by what they touch.
LEMMA QuietEffects ==
    ASSUME CacheType, LockInv, NEW w \in Processes,
           \/ LockTimesOut(w) \/ UseExisting(w) \/ StartClone(w) \/ SkipFetch(w) \/ EndScan(w)
    PROVE  Effect(w)
<1> DEFINE Next == Places \ {"idle", "dead", "waiting", "ensuring", "scanning"}
<1>1. /\ Busy(w) /\ UNCHANGED <<disk, meta, usage, held, faults, exact>>
      /\ \E place \in Next : Goto(w, place) /\ (place \in Inside => proc[w].at \in Inside)
  <2>1. CASE LockTimesOut(w)
    <3> DEFINE place == IF proc[w].stage = "checkout" THEN "leaving" ELSE "done"
    <3>1. place \in Next /\ (place \in Inside => proc[w].at \in Inside) /\ Busy(w)
      BY <2>1 DEF LockTimesOut, Places, Inside, Busy
    <3>2. Goto(w, place)
      BY <2>1 DEF LockTimesOut
    <3>3. UNCHANGED <<disk, meta, usage, held, faults, exact>>
      BY <2>1 DEF LockTimesOut
    <3> HIDE DEF place
    <3> QED BY <3>1, <3>2, <3>3
  <2>2. CASE UseExisting(w)
    <3> DEFINE place == "present"
    <3>1. place \in Next /\ (place \in Inside => proc[w].at \in Inside) /\ Busy(w)
      BY <2>2 DEF UseExisting, Places, Inside, Busy
    <3>2. Goto(w, place)
      BY <2>2 DEF UseExisting
    <3>3. UNCHANGED <<disk, meta, usage, held, faults, exact>>
      BY <2>2 DEF UseExisting
    <3> HIDE DEF place
    <3> QED BY <3>1, <3>2, <3>3
  <2>3. CASE StartClone(w)
    <3> DEFINE place == IF proc[w].late THEN "unlocking" ELSE "cloning"
    <3>1. place \in Next /\ (place \in Inside => proc[w].at \in Inside) /\ Busy(w)
      BY <2>3 DEF StartClone, Places, Inside, Busy
    <3>2. Goto(w, place)
      BY <2>3 DEF StartClone
    <3>3. UNCHANGED <<disk, meta, usage, held, faults, exact>>
      BY <2>3 DEF StartClone
    <3> HIDE DEF place
    <3> QED BY <3>1, <3>2, <3>3
  <2>4. CASE SkipFetch(w)
    <3> DEFINE place == IF proc[w].late THEN "unlocking" ELSE "ensured"
    <3>1. place \in Next /\ (place \in Inside => proc[w].at \in Inside) /\ Busy(w)
      BY <2>4 DEF SkipFetch, Places, Inside, Busy
    <3>2. Goto(w, place)
      BY <2>4 DEF SkipFetch
    <3>3. UNCHANGED <<disk, meta, usage, held, faults, exact>>
      BY <2>4 DEF SkipFetch
    <3> HIDE DEF place
    <3> QED BY <3>1, <3>2, <3>3
  <2>5. CASE EndScan(w)
    <3> DEFINE place == "unlocking"
    <3>1. place \in Next /\ (place \in Inside => proc[w].at \in Inside) /\ Busy(w)
      BY <2>5 DEF EndScan, Places, Inside, Busy
    <3>2. Goto(w, place)
      BY <2>5 DEF EndScan
    <3>3. UNCHANGED <<disk, meta, usage, held, faults, exact>>
      BY <2>5 DEF EndScan
    <3> HIDE DEF place
    <3> QED BY <3>1, <3>2, <3>3
  <2> QED BY <2>1, <2>2, <2>3, <2>4, <2>5
<1>2. PICK place \in Next : Goto(w, place) /\ (place \in Inside => proc[w].at \in Inside)
  BY <1>1
<1>3. Moves(w) /\ proc'[w].at = place /\ proc[w].repo \in Repos
  BY <1>1, <1>2, GotoMoves
<1>4. Files(proc[w].repo) /\ Balanced
  BY <1>1, <1>3, QuietMoves
<1> QED BY <1>3, <1>4 DEF Effect, About

LEMMA AcquireEffect ==
    ASSUME CacheType, LockInv, NEW w \in Processes, TakeRepoLock(w)
    PROVE  Effect(w)
<1> DEFINE place == IF Fetching(w) THEN "ensuring" ELSE "entering"
           r == proc[w].repo
<1>1. /\ proc[w].at = "waiting" /\ held[r] = NoProcess /\ held' = [held EXCEPT ![r] = w]
      /\ Goto(w, place) /\ UNCHANGED <<disk, meta, usage, faults, exact>>
  BY DEF TakeRepoLock
<1>2. place \in Places
  BY DEF Places
<1>3. proc' \in [Processes -> Procs] /\ (\A v \in Processes \ {w} : proc'[v] = proc[v])
      /\ proc'[w].at = place
      /\ proc'[w].repo = proc[w].repo /\ proc'[w].stage = proc[w].stage
  BY <1>1, <1>2, GotoIs
<1>4. Busy(w) /\ r \in Repos
  BY <1>1 DEF Busy, LockInv
<1>5. held \in [Repos -> Processes \cup {NoProcess}]
  BY DEF CacheType
<1>6. /\ held' \in [Repos -> Processes \cup {NoProcess}] /\ held'[r] = w
      /\ \A x \in Repos : held'[x] # held[x] => x = r
  BY <1>1, <1>4, <1>5
<1>7. Moves(w)
  BY <1>1, <1>3, <1>4, <1>6 DEF Moves
<1>8. Files(r) /\ Balanced /\ Same(r)
  BY <1>1, <1>4, <1>7, QuietMoves
<1>9. About(w)' => About(w)
  BY <1>1, <1>3 DEF About, Fetching
<1> QED BY <1>3, <1>7, <1>8, <1>9 DEF Effect

LEMMA CloneEffects ==
    ASSUME CacheType, LockInv, NEW w \in Processes,
           \/ ReserveClone(w) \/ (\E bytes \in CloneSizes : FinishClone(w, bytes))
           \/ FailClone(w) \/ BeginGrowth(w)
           \/ \E more \in {0, 1}, ok \in BOOLEAN : Grow(w, more, ok)
    PROVE  Effect(w)
<1> DEFINE Next == Inside \ {"ensuring", "scanning"}
<1>1. /\ Busy(w) /\ proc[w].at \in Inside
      /\ UNCHANGED held /\ Files(proc[w].repo)
      /\ (About(w) => Blank(proc[w].repo)) => Balanced
      /\ \E place \in Next : Goto(w, place)
  <2>0. Busy(w) => proc[w].repo \in Repos
    BY DEF LockInv
  <2>1. CASE ReserveClone(w)
    <3>1. Busy(w) /\ proc[w].at \in Inside
      BY <2>1 DEF ReserveClone, Busy, Inside
    <3>2. UNCHANGED held /\ (Goto(w, "reserved") \/ Goto(w, "unlocking"))
      BY <2>1 DEF ReserveClone
    <3>3. Files(proc[w].repo) /\ (Blank(proc[w].repo) => Balanced)
      BY <2>0, <2>1, <3>1, CloneFiles
    <3>4. About(w)
      BY <2>1 DEF ReserveClone, About
    <3> QED BY <3>1, <3>2, <3>3, <3>4 DEF Inside
  <2>2. CASE \E bytes \in CloneSizes : FinishClone(w, bytes)
    <3>1. PICK bytes \in CloneSizes : FinishClone(w, bytes)
      BY <2>2
    <3>2. Busy(w) /\ proc[w].at \in Inside
      BY <3>1 DEF FinishClone, Busy, Inside
    <3>3. UNCHANGED <<meta, usage, held, faults, exact>> /\ Goto(w, "present")
      BY <3>1 DEF FinishClone
    <3>4. bytes \in Nat
      BY CacheAssumption
    <3>5. /\ disk' \in [Repos -> Nat]
          /\ \A x \in Repos \ {proc[w].repo} : disk'[x] = disk[x]
      BY <3>1, <3>4 DEF FinishClone, CacheType
    <3>6. Files(proc[w].repo) /\ Balanced
      BY <2>0, <3>2, <3>3, <3>5, DiskFiles
    <3> QED BY <3>2, <3>3, <3>6 DEF Inside
  <2>3. CASE FailClone(w)
    <3>1. Busy(w) /\ proc[w].at \in Inside
      BY <2>3 DEF FailClone, Busy, Inside
    <3>2. UNCHANGED held /\ Goto(w, "unlocking") /\ ForgetEntry(proc[w].repo)
      BY <2>3 DEF FailClone
    <3>3. Files(proc[w].repo) /\ Balanced
      BY <2>0, <3>1, <3>2, ForgetFiles
    <3> QED BY <3>1, <3>2, <3>3 DEF Inside
  <2>4. CASE BeginGrowth(w)
    <3>1. Busy(w) /\ proc[w].at \in Inside
      BY <2>4 DEF BeginGrowth, Busy, Inside
    <3>2. UNCHANGED held /\ (Goto(w, "growing") \/ Goto(w, "unlocking"))
      BY <2>4 DEF BeginGrowth
    <3>3. Files(proc[w].repo) /\ Balanced
      BY <2>0, <2>4, <3>1, GrowthFiles
    <3> QED BY <3>1, <3>2, <3>3 DEF Inside
  <2>5. CASE \E more \in {0, 1}, ok \in BOOLEAN : Grow(w, more, ok)
    <3>1. PICK more \in {0, 1}, ok \in BOOLEAN : Grow(w, more, ok)
      BY <2>5
    <3>2. Busy(w) /\ proc[w].at \in Inside
      BY <3>1 DEF Grow, Busy, Inside
    <3>3. UNCHANGED <<meta, usage, held, faults, exact>>
          /\ (Goto(w, "grown") \/ Goto(w, "broken"))
      BY <3>1 DEF Grow
    <3>4. /\ disk' \in [Repos -> Nat]
          /\ \A x \in Repos \ {proc[w].repo} : disk'[x] = disk[x]
      <4>1. disk \in [Repos -> Nat] /\ proc[w].repo \in Repos /\ more \in Nat
        BY <2>0, <3>2 DEF CacheType
      <4>2. disk' = [disk EXCEPT ![proc[w].repo] = disk[proc[w].repo] + more]
        BY <3>1 DEF Grow
      <4>3. disk[proc[w].repo] + more \in Nat
        BY <4>1
      <4> QED BY <4>1, <4>2, <4>3
    <3>5. Files(proc[w].repo) /\ Balanced
      BY <2>0, <3>2, <3>3, <3>4, DiskFiles
    <3> QED BY <3>2, <3>3, <3>5 DEF Inside
  <2> QED BY <2>1, <2>2, <2>3, <2>4, <2>5
<1>2. PICK place \in Next : Goto(w, place)
  BY <1>1
<1>3. place \in Places \ {"idle", "dead", "waiting", "ensuring", "scanning"}
  BY DEF Inside, Places
<1>4. proc[w].at \in Inside /\ Busy(w)
  BY <1>1 DEF Inside, Busy
<1>5. Moves(w) /\ proc'[w].at = place
  BY <1>1, <1>2, <1>3, <1>4, GotoMoves
<1> QED BY <1>1, <1>3, <1>5 DEF Effect, About

LEMMA EndGrowthEffect ==
    ASSUME CacheType, LockInv, NEW w \in Processes, EndGrowth(w)
    PROVE  Effect(w)
<1> DEFINE r == proc[w].repo
<1>1. Busy(w) /\ proc[w].at \in Inside /\ UNCHANGED held /\ r \in Repos
  BY DEF EndGrowth, Busy, Inside, LockInv
<1>2. disk[r] \in Nat
  BY <1>1 DEF CacheType
<1>3. CASE disk[r] = 0 /\ ForgetEntry(r) /\ Goto(w, "unlocking")
  <2>1. Moves(w) /\ proc'[w].at = "unlocking"
    BY <1>1, <1>3, GotoMoves DEF Places
  <2>2. Files(r) /\ Balanced
    BY <1>1, <1>3, ForgetFiles
  <2> QED BY <2>1, <2>2 DEF Effect, About
<1>4. CASE /\ disk[r] > 0
           /\ \E ok \in BOOLEAN :
               /\ RecordMetadata(r, disk[r], ok)
               /\ Goto(w, IF ~ok \/ Cut \/ proc[w].at = "broken" THEN "unlocking"
                          ELSE IF Fetching(w) THEN "ensured"
                          ELSE "scanning")
  <2>1. PICK ok \in BOOLEAN :
               /\ RecordMetadata(r, disk[r], ok)
               /\ Goto(w, IF ~ok \/ Cut \/ proc[w].at = "broken" THEN "unlocking"
                          ELSE IF Fetching(w) THEN "ensured"
                          ELSE "scanning")
    BY <1>4
  <2> DEFINE place == IF ~ok \/ Cut \/ proc[w].at = "broken" THEN "unlocking"
                      ELSE IF Fetching(w) THEN "ensured" ELSE "scanning"
  <2>2. place \in {"unlocking", "ensured", "scanning"} /\ (place = "scanning" => ok)
    OBVIOUS
  <2>3. Goto(w, place)
    BY <2>1
  <2> HIDE DEF place
  <2>4. place \in Places \ {"idle", "dead"}
    BY <2>2 DEF Places
  <2>5. Moves(w) /\ proc'[w].at = place
    BY <1>1, <2>3, <2>4, GotoMoves
  <2>6. Files(r) /\ Balanced /\ (ok => disk'[r] = disk[r])
    BY <1>1, <1>2, <2>1, RecordFiles
  <2> QED BY <1>4, <2>2, <2>5, <2>6 DEF Effect, About
<1> QED BY <1>3, <1>4 DEF EndGrowth

LEMMA RecordEnsuredEffect ==
    ASSUME CacheType, LockInv, NEW w \in Processes, RecordEnsured(w)
    PROVE  Effect(w)
<1> DEFINE r == proc[w].repo
<1>1. /\ Busy(w) /\ proc[w].at \in Inside /\ r \in Repos
      /\ held' = [held EXCEPT ![r] = NoProcess]
  BY DEF RecordEnsured, Busy, Inside, LockInv
<1>2. disk[r] \in Nat /\ held[r] = w /\ proc \in [Processes -> Procs]
      /\ held \in [Repos -> Processes \cup {NoProcess}]
  BY <1>1 DEF CacheType, LockInv
<1>3. PICK ok \in BOOLEAN :
         /\ RecordMetadata(r, disk[r], ok)
         /\ IF ok /\ ~Cut
            THEN proc' = [proc EXCEPT ![w].at = "waiting",
                    ![w].stage = IF @ = "inspect" THEN "bare" ELSE "checkout"]
            ELSE Goto(w, "done")
  BY DEF RecordEnsured
<1>4. Files(r) /\ Balanced
  BY <1>1, <1>2, <1>3, RecordFiles
<1>5. /\ held' \in [Repos -> Processes \cup {NoProcess}]
      /\ \A x \in Repos : held'[x] # held[x] => x = r
  BY <1>1, <1>2
<1>6. CASE ok /\ ~Cut
  <2>1. proc' = [proc EXCEPT ![w].at = "waiting",
                    ![w].stage = IF @ = "inspect" THEN "bare" ELSE "checkout"]
    BY <1>3, <1>6
  <2>2. /\ proc' \in [Processes -> Procs] /\ \A v \in Processes \ {w} : proc'[v] = proc[v]
        /\ proc'[w].at = "waiting" /\ proc'[w].repo = r
        /\ proc'[w].stage \in {"bare", "checkout"}
    <3> DEFINE s == IF proc[w].stage = "inspect" THEN "bare" ELSE "checkout"
    <3>1. s \in {"bare", "checkout"}
      OBVIOUS
    <3>2. proc' = [proc EXCEPT ![w].at = "waiting", ![w].stage = s]
      BY <1>2, <2>1 DEF Procs
    <3> HIDE DEF s
    <3> QED BY <3>1, <3>2, Requeued
  <2>3. Moves(w)
    BY <1>1, <1>2, <1>5, <2>2 DEF Moves, Inside
  <2>4. ~About(w)'
    BY <2>2 DEF About, Fetching
  <2> QED BY <1>4, <2>2, <2>3, <2>4 DEF Effect
<1>7. CASE Goto(w, "done")
  <2>1. /\ proc' \in [Processes -> Procs] /\ \A v \in Processes \ {w} : proc'[v] = proc[v]
        /\ proc'[w].at = "done"
    BY <1>7, GotoIs DEF Places
  <2>2. Moves(w) /\ ~Busy(w)'
    BY <1>1, <1>2, <1>5, <2>1 DEF Moves, Inside, Busy
  <2> QED BY <1>4, <2>1, <2>2 DEF Effect, About
<1> QED BY <1>3, <1>6, <1>7

LEMMA EndBareEffect ==
    ASSUME CacheType, LockInv, NEW w \in Processes, NEW reject \in BOOLEAN, EndBare(w, reject)
    PROVE  Effect(w)
<1> DEFINE r == proc[w].repo
<1>1. /\ Busy(w) /\ proc[w].at \in Inside /\ r \in Repos
      /\ held' = [held EXCEPT ![r] = NoProcess]
      /\ proc[w].at = "scanning" \/ disk[r] > 0
      /\ UNCHANGED <<disk, meta, usage, faults, exact>>
  BY DEF EndBare, Busy, Inside, LockInv
<1>2. held[r] = w /\ proc \in [Processes -> Procs]
      /\ held \in [Repos -> Processes \cup {NoProcess}]
  BY <1>1 DEF CacheType, LockInv
<1>3. /\ held' \in [Repos -> Processes \cup {NoProcess}]
      /\ \A x \in Repos : held'[x] # held[x] => x = r
  BY <1>1, <1>2
<1>4. /\ proc' \in [Processes -> Procs] /\ \A v \in Processes \ {w} : proc'[v] = proc[v]
      /\ proc'[w].at \in {"enforcing", "waiting"} /\ proc'[w].repo = r
  <2>1. CASE reject
    <3>1. Goto(w, "enforcing")
      BY <2>1 DEF EndBare
    <3> QED BY <3>1, GotoIs DEF Places
  <2>2. CASE ~reject
    <3>1. proc' = [proc EXCEPT ![w].at = "waiting", ![w].stage = "ensure"]
      BY <2>2 DEF EndBare
    <3> QED BY <3>1, Requeued
  <2> QED BY <2>1, <2>2
<1>5. Moves(w)
  BY <1>1, <1>2, <1>3, <1>4 DEF Moves, Inside
<1>6. Files(r) /\ Balanced /\ Same(r)
  BY <1>1, <1>5, QuietMoves
<1> QED BY <1>1, <1>4, <1>5, <1>6 DEF Effect

LEMMA LeavingEffects ==
    ASSUME CacheType, LockInv, NEW w \in Processes,
           Unlock(w) \/ Measure(w) \/ RecordLeft(w) \/ EnforceBudget(w)
    PROVE  Effect(w)
<1> DEFINE r == proc[w].repo
<1>1. Busy(w) /\ r \in Repos
  BY DEF Unlock, Measure, RecordLeft, EnforceBudget, Busy, LockInv
<1>2. proc \in [Processes -> Procs] /\ held \in [Repos -> Processes \cup {NoProcess}]
      /\ disk \in [Repos -> Nat]
  BY DEF CacheType
<1>3. CASE Unlock(w)
  <2> DEFINE place == IF proc[w].stage = "checkout" THEN "leaving" ELSE "done"
  <2>1. /\ held' = [held EXCEPT ![r] = NoProcess] /\ Goto(w, place) /\ held[r] = w
        /\ UNCHANGED <<disk, meta, usage, faults, exact>>
    BY <1>3 DEF Unlock, LockInv, Inside
  <2>2. place \in {"leaving", "done"}
    OBVIOUS
  <2> HIDE DEF place
  <2>3. place \in Places
    BY <2>2 DEF Places
  <2>4. proc' \in [Processes -> Procs] /\ (\A v \in Processes \ {w} : proc'[v] = proc[v])
        /\ proc'[w].at = place
        /\ (place # "done" => proc'[w].repo = r)
    BY <2>1, <2>2, <2>3, GotoIs
  <2>5. /\ held' \in [Repos -> Processes \cup {NoProcess}]
        /\ \A x \in Repos : held'[x] # held[x] => x = r
    BY <1>1, <1>2, <2>1
  <2>6. Moves(w)
    BY <1>1, <2>1, <2>2, <2>4, <2>5 DEF Moves, Inside, Busy
  <2>7. Files(r) /\ Balanced
    BY <1>1, <2>1, <2>6, QuietMoves
  <2> QED BY <2>2, <2>4, <2>6, <2>7 DEF Effect, About
<1>4. CASE Measure(w)
  <2>1. UNCHANGED <<disk, meta, usage, held, faults, exact>> /\ proc[w].at = "leaving"
    BY <1>4 DEF Measure
  <2>2. CASE Goto(w, "done")
    <3>1. Moves(w) /\ proc'[w].at = "done"
      BY <1>1, <2>1, <2>2, GotoMoves DEF Places, Inside
    <3>2. Files(r) /\ Balanced
      BY <1>1, <2>1, <3>1, QuietMoves
    <3> QED BY <3>1, <3>2 DEF Effect, About
  <2>3. CASE proc' = [proc EXCEPT ![w] = [@ EXCEPT !.at = "measured", !.size = disk[r]]]
    <3>1. disk[r] \in Nat
      BY <1>1, <1>2
    <3>2. /\ proc' \in [Processes -> Procs] /\ \A v \in Processes \ {w} : proc'[v] = proc[v]
          /\ proc'[w].at = "measured" /\ proc'[w].repo = r
      BY <1>2, <2>3, <3>1 DEF Procs, Places
    <3>3. Moves(w)
      BY <1>1, <1>2, <2>1, <3>2 DEF Moves, Inside
    <3>4. Files(r) /\ Balanced
      BY <1>1, <2>1, <3>3, QuietMoves
    <3> QED BY <3>2, <3>3, <3>4 DEF Effect, About
  <2>4. \/ Goto(w, "done")
        \/ proc' = [proc EXCEPT ![w] = [@ EXCEPT !.at = "measured", !.size = disk[r]]]
    BY <1>4, <1>2 DEF Measure
  <2> QED BY <2>2, <2>3, <2>4
<1>5. CASE RecordLeft(w)
  <2>1. PICK ok \in BOOLEAN :
         /\ RecordMetadata(r, proc[w].size, ok)
         /\ Goto(w, IF ok /\ ~Cut THEN "enforcing" ELSE "done")
    BY <1>5 DEF RecordLeft
  <2>2. proc[w].size \in Nat /\ UNCHANGED held /\ proc[w].at = "measured"
    BY <1>2, <1>5 DEF Procs, RecordLeft
  <2>3. Files(r) /\ Balanced
    BY <1>1, <2>1, <2>2, RecordFiles
  <2> DEFINE place == IF ok /\ ~Cut THEN "enforcing" ELSE "done"
  <2>4. Goto(w, place) /\ place \in {"enforcing", "done"}
    BY <2>1
  <2> HIDE DEF place
  <2>5. Moves(w) /\ proc'[w].at = place
    BY <1>1, <2>2, <2>4, GotoMoves DEF Places, Inside
  <2> QED BY <2>3, <2>4, <2>5 DEF Effect, About
<1>6. CASE EnforceBudget(w)
  <2>1. EnforceTotal(r) /\ Goto(w, "done") /\ UNCHANGED <<held, faults, exact>>
    BY <1>6 DEF EnforceBudget
  <2>2. Moves(w) /\ proc'[w].at = "done"
    BY <1>1, <2>1, GotoMoves DEF Places, Inside
  <2>3. Files(r) /\ Balanced
    BY <2>1, EnforceFiles
  <2> QED BY <2>2, <2>3 DEF Effect, About
<1> QED BY <1>3, <1>4, <1>5, <1>6

\* Every step of a process is one of these, and each part of the invariant survives it.
LEMMA StepEffects ==
    ASSUME CacheType, LockInv, NEW w \in Processes, CacheStep(w)
    PROVE  Effect(w)
BY QuietEffects, AcquireEffect, CloneEffects, EndGrowthEffect, RecordEnsuredEffect,
   EndBareEffect, LeavingEffects DEF CacheStep

LEMMA StepTypes ==
    ASSUME CacheType, NEW w \in Processes, Effect(w)
    PROVE  CacheType'
BY DEF Effect, Moves, Files, CacheType

LEMMA StepLocks ==
    ASSUME CacheType, LockInv, NEW w \in Processes, Effect(w)
    PROVE  LockInv'
<1> SUFFICES ASSUME NEW v \in Processes
             PROVE  /\ Busy(v)' => proc'[v].repo \in Repos
                    /\ proc'[v].at \in Inside => held'[proc'[v].repo] = v
  BY DEF LockInv
<1>1. Moves(w) /\ proc[w].repo \in Repos
  BY DEF Effect, Moves, LockInv
<1>2. CASE v = w
  <2>1. proc'[w].at \in Inside => Busy(w)'
    BY DEF Inside, Busy
  <2> QED BY <1>1, <1>2, <2>1 DEF Moves
<1>3. CASE v # w
  <2>1. proc'[v] = proc[v]
    BY <1>1, <1>3 DEF Moves
  <2>2. Busy(v)' => proc'[v].repo \in Repos
    BY <2>1 DEF LockInv, Busy
  <2>3. ASSUME proc'[v].at \in Inside PROVE held'[proc'[v].repo] = v
    <3>1. held[proc[v].repo] = v /\ proc[v].repo \in Repos
      BY <2>1, <2>3 DEF LockInv, Inside, Busy
    <3>2. v # NoProcess
      BY CacheAssumption
    <3>3. held'[proc[v].repo] = held[proc[v].repo]
      BY <1>1, <1>3, <3>1, <3>2 DEF Moves
    <3> QED BY <2>1, <3>1, <3>3
  <2> QED BY <2>2, <2>3
<1> QED BY <1>2, <1>3

LEMMA StepTasks ==
    ASSUME CacheType, TaskInv, NEW w \in Processes, Effect(w), UNCHANGED poolVars
    PROVE  TaskInv'
<1>1. Moves(w)
  BY DEF Effect
<1>2. InFlight' = InFlight /\ Dispatched' = Dispatched
  BY DEF poolVars, InFlight, Dispatched
<1>3. \A v \in Processes : (v \in Live' => v \in Live)
                         /\ (Busy(v)' => Busy(v) /\ proc'[v].repo = proc[v].repo)
  BY <1>1 DEF Moves, Live, Busy
<1>4. Live' \subseteq Processes
  BY DEF Live
<1> QED BY <1>2, <1>3, <1>4 DEF TaskInv, poolVars

\* Without orphans no two processes work on one repository, and none on a task that is
\* not in flight.
LEMMA OwnRepository ==
    ASSUME TaskInv, ~orphaned, NEW w \in Processes, Busy(w)
    PROVE  /\ proc[w].repo \in open /\ proc[w].repo \in Repos
           /\ \A v \in Processes : Busy(v) /\ v # w => proc[v].repo # proc[w].repo
<1>1. \A v \in Processes : Busy(v) =>
        proc[v].repo \in InFlight /\ future[proc[v].repo] = v
  BY DEF TaskInv, Live, Busy
<1> QED BY <1>1 DEF TaskInv, InFlight

\* Blank after the step.
BlankNext(r) == disk'[r] = 0 => Accounted(meta'[r]) = 0

LEMMA StepBlanks ==
    ASSUME CacheType, LockInv, TaskInv, BlankInv, ScansAreContained,
           NEW w \in Processes, Effect(w), UNCHANGED poolVars
    PROVE  BlankInv'
<1> SUFFICES ASSUME ~orphaned, pool \in {"reconciled", "running", "stopping"}
             PROVE  /\ \A t \in Repos \ (open \cup reported) : BlankNext(t)
                    /\ \A v \in Processes : About(v)' => BlankNext(proc'[v].repo)
  BY DEF BlankInv, poolVars, Blank, BlankNext
<1> DEFINE r == proc[w].repo
<1>1. Moves(w) /\ Files(r) /\ Busy(w)
  BY DEF Effect, Moves
<1>2. r \in open /\ r \in Repos /\ \A v \in Processes : Busy(v) /\ v # w => proc[v].repo # r
  BY <1>1, OwnRepository
<1>3. \A x \in Repos \ {r} : Blank(x) => BlankNext(x)
  BY <1>1 DEF Files, Same, Evicted, Blank, BlankNext
<1>4. ASSUME NEW t \in Repos \ (open \cup reported) PROVE BlankNext(t)
  BY <1>2, <1>3, <1>4 DEF BlankInv
<1>5. ASSUME NEW v \in Processes, About(v)' PROVE BlankNext(proc'[v].repo)
  <2>1. CASE v # w
    <3>1. proc'[v] = proc[v]
      BY <1>1, <2>1 DEF Moves
    <3>2. About(v) /\ Busy(v)
      BY <1>5, <3>1 DEF About, Busy, Fetching
    <3>3. proc[v].repo \in Repos \ {r} /\ Blank(proc[v].repo)
      BY <1>2, <2>1, <3>2, OwnRepository DEF BlankInv
    <3>4. BlankNext(proc[v].repo)
      BY <1>3, <3>3
    <3> QED BY <3>1, <3>4
  <2>2. CASE v = w
    <3>1. Busy(w)'
      BY <1>5, <2>2 DEF About, Busy
    <3>2. proc'[w].repo = r
      BY <1>1, <3>1 DEF Moves
    <3>3. \/ disk'[r] > 0
          \/ About(w) /\ Same(r)
          \/ proc[w].at = "scanning" /\ Same(r)
      BY <1>5, <2>2 DEF Effect
    <3>4. CASE disk'[r] > 0
      BY <2>2, <3>2, <3>4 DEF BlankNext
    <3>5. CASE About(w) /\ Same(r)
      <4>1. Blank(r)
        BY <3>5 DEF BlankInv
      <4> QED BY <2>2, <3>2, <3>5, <4>1 DEF Blank, BlankNext, Same
    <3>6. CASE proc[w].at = "scanning" /\ Same(r)
      <4>1. disk[r] > 0
        BY <3>6 DEF ScansAreContained
      <4> QED BY <2>2, <3>2, <3>6, <4>1 DEF Blank, BlankNext, Same
    <3> QED BY <3>3, <3>4, <3>5, <3>6
  <2> QED BY <2>1, <2>2
<1> QED BY <1>4, <1>5

LEMMA StepLimit ==
    ASSUME CacheType, WithinHardLimit, NEW w \in Processes, Effect(w), UNCHANGED poolVars
    PROVE  WithinHardLimit'
<1>1. usage \in Nat /\ usage' \in Nat /\ (usage' <= Hard \/ usage' <= usage)
  BY DEF Effect, Files, CacheType
<1>2. Overfull' = Overfull
  BY DEF Overfull, poolVars
<1> QED BY <1>1, <1>2, Bytes DEF WithinHardLimit

LEMMA StepContained ==
    ASSUME CacheType, LockInv, TaskInv, ScansAreContained,
           NEW w \in Processes, Effect(w), UNCHANGED poolVars
    PROVE  ScansAreContained'
<1> SUFFICES ASSUME ~orphaned
             PROVE  /\ \A v \in Processes : proc'[v].at = "scanning" => disk'[proc'[v].repo] > 0
                    /\ pool \in {"returned", "raised"} => Live' = {}
  BY DEF ScansAreContained, poolVars
<1> DEFINE r == proc[w].repo
<1>1. Moves(w) /\ Files(r) /\ Busy(w)
  BY DEF Effect, Moves
<1>2. r \in Repos /\ \A v \in Processes : Busy(v) /\ v # w => proc[v].repo # r
  BY <1>1, OwnRepository
<1>3. ASSUME NEW v \in Processes, proc'[v].at = "scanning" PROVE disk'[proc'[v].repo] > 0
  <2>1. CASE v # w
    <3>1. proc'[v] = proc[v]
      BY <1>1, <2>1 DEF Moves
    <3>2. proc[v].at = "scanning" /\ Busy(v)
      BY <1>3, <3>1 DEF Busy
    <3>3. /\ disk[proc[v].repo] > 0 /\ held[proc[v].repo] = v /\ v # NoProcess
          /\ proc[v].repo \in Repos \ {r}
      BY <1>2, <2>1, <3>2, CacheAssumption DEF ScansAreContained, LockInv, Inside
    <3>4. disk'[proc[v].repo] = disk[proc[v].repo]
      BY <1>1, <3>3 DEF Files, Same, Evicted
    <3> QED BY <3>1, <3>3, <3>4
  <2>2. CASE v = w
    <3>1. Busy(w)'
      BY <1>3, <2>2 DEF Busy
    <3>2. proc'[w].repo = r
      BY <1>1, <3>1 DEF Moves
    <3> QED BY <1>3, <2>2, <3>2 DEF Effect
  <2> QED BY <2>1, <2>2
<1>4. pool \in {"returned", "raised"} => Live' = {}
  BY <1>1 DEF ScansAreContained, Live, Busy
<1> QED BY <1>3, <1>4

LEMMA StepUsage ==
    ASSUME CacheType, TaskInv, BlankInv, UsageIsExact,
           NEW w \in Processes, Effect(w), UNCHANGED poolVars
    PROVE  UsageIsExact'
<1>1. /\ Files(proc[w].repo) /\ Busy(w)
      /\ (About(w) => Blank(proc[w].repo)) => Balanced
  BY DEF Effect, Moves
<1>2. /\ usage \in Nat /\ usage' \in Nat
      /\ AccountedOf(Repos) \in Nat /\ AccountedOf(Repos)' \in Nat
      /\ exact' => exact
  BY <1>1 DEF Files, CacheType
<1>3. ASSUME exact' PROVE usage' >= AccountedOf(Repos)'
  <2>1. usage >= AccountedOf(Repos)
    BY <1>2, <1>3 DEF UsageIsExact
  <2>2. usage' + AccountedOf(Repos) >= usage + AccountedOf(Repos)'
    BY <1>1, <1>3, <2>1 DEF Files
  <2> QED BY <1>2, <2>1, <2>2
<1>4. ASSUME exact', ~orphaned PROVE usage' = AccountedOf(Repos)'
  <2>1. usage = AccountedOf(Repos)
    BY <1>2, <1>4 DEF UsageIsExact
  <2>2. pool \in {"reconciled", "running", "stopping"}
    BY <1>1, <1>4, OwnRepository DEF TaskInv, Dispatched, Live, Busy
  <2>3. About(w) => Blank(proc[w].repo)
    BY <1>4, <2>2 DEF BlankInv
  <2>4. usage' + AccountedOf(Repos) = usage + AccountedOf(Repos)'
    BY <1>1, <1>2, <1>4, <2>1, <2>3 DEF Balanced
  <2>5. /\ usage \in Nat /\ usage' \in Nat
        /\ AccountedOf(Repos) \in Nat /\ AccountedOf(Repos)' \in Nat
    BY <1>2
  <2> QED BY <2>1, <2>4, <2>5, Cancel
<1>5. orphaned' = orphaned
  BY DEF poolVars
<1> QED BY <1>3, <1>4, <1>5 DEF UsageIsExact

LEMMA StepPool ==
    ASSUME PoolInv, NEW w \in Processes, CacheStep(w), UNCHANGED poolVars
    PROVE  PoolInv'
<1>1. CacheType /\ PoolType /\ LockInv /\ TaskInv /\ BlankInv
      /\ WithinHardLimit /\ ScansAreContained /\ UsageIsExact
  BY DEF PoolInv
<1>2. Effect(w)
  BY <1>1, StepEffects
<1>3. PoolType'
  BY <1>1 DEF PoolType, poolVars
<1> QED BY <1>1, <1>2, <1>3, StepTypes, StepLocks, StepTasks, StepBlanks, StepLimit,
           StepContained, StepUsage DEF PoolInv

--------------------------------------------------------------------------------
\* The coordinator.

\* The invariant at the start.
LEMMA PoolStarts == PoolInit => PoolInv
<1> SUFFICES ASSUME PoolInit PROVE PoolInv
  OBVIOUS
<1>1. CacheType
  BY Entry DEF PoolInit, CacheInit, CacheType, Procs, Rest, Places
<1>2. PoolType
  BY DEF PoolInit, PoolType, PoolStates
<1>3. Live = {} /\ \A w \in Processes : proc[w].at = "idle"
  BY DEF PoolInit, CacheInit, Rest, Live
<1>4. InFlight = {} /\ ~Dispatched
  BY DEF PoolInit, InFlight, Dispatched
<1>5. LockInv /\ TaskInv
  BY <1>3, <1>4 DEF LockInv, TaskInv, Busy, Inside, PoolInit
<1>6. BlankInv /\ ScansAreContained
  BY <1>3 DEF PoolInit, BlankInv, ScansAreContained
<1>7. AccountedOf(Repos) = 0
  <2> DEFINE f == [r \in Repos |-> Accounted(meta[r])]
  <2>1. \A r \in Repos : f[r] = 0
    BY Entry DEF PoolInit, CacheInit
  <2> HIDE DEF f
  <2>2. SumFunctionOnSet(f, Repos) = 0
    BY <2>1, SumOfZeros, CacheAssumption
  <2> QED BY <2>2 DEF AccountedOf, f
<1>8. usage = 0
  BY DEF PoolInit, CacheInit
<1>9. WithinHardLimit /\ UsageIsExact
  BY <1>7, <1>8, Bytes DEF WithinHardLimit, UsageIsExact
<1> QED BY <1>1, <1>2, <1>5, <1>6, <1>9 DEF PoolInv

\* What a step that changes no size owes to the totals.
LEMMA TotalsStay ==
    ASSUME CacheType, WithinHardLimit, UsageIsExact, UNCHANGED <<usage, exact>>,
           \A r \in Repos : Accounted(meta'[r]) = Accounted(meta[r]),
           ~Overfull' => ~Overfull, ~orphaned' => ~orphaned
    PROVE  WithinHardLimit' /\ UsageIsExact'
<1> DEFINE f == [r \in Repos |-> Accounted(meta[r])]
           h == [r \in Repos |-> Accounted(meta'[r])]
<1>1. f = h
  OBVIOUS
<1>2. AccountedOf(Repos) = SumFunctionOnSet(f, Repos)
      /\ AccountedOf(Repos)' = SumFunctionOnSet(h, Repos)
  BY DEF AccountedOf
<1> HIDE DEF f, h
<1>3. AccountedOf(Repos)' = AccountedOf(Repos)
  BY <1>1, <1>2
<1> QED BY <1>3 DEF WithinHardLimit, UsageIsExact

\* A step of the coordinator that leaves the processes where they are.
Standing ==
    /\ UNCHANGED <<disk, meta, usage, held, exact>>
    /\ faults' \in Nat /\ proc' \in [Processes -> Procs]
    /\ \A w \in Processes : /\ proc'[w].at = proc[w].at /\ proc'[w].repo = proc[w].repo
                          /\ proc'[w].stage = proc[w].stage

Prepared == pool \in {"reconciled", "running", "stopping"}

\* Such a step keeps the invariant when it keeps the types and the tasks.
LEMMA StandingPool ==
    ASSUME PoolInv, Standing, PoolType', TaskInv', ~Overfull' => ~Overfull,
           ~orphaned' => ~orphaned,
           ~orphaned' /\ Prepared' => Prepared /\ open \cup reported \subseteq open' \cup reported',
           ~orphaned' /\ pool' \in {"returned", "raised"} => Live = {}
    PROVE  PoolInv'
<1>1. CacheType /\ LockInv /\ BlankInv /\ WithinHardLimit /\ ScansAreContained /\ UsageIsExact
  BY DEF PoolInv
<1>2. CacheType'
  <2>1. disk' \in [Repos -> Nat] /\ meta' \in [Repos -> Entries] /\ usage' \in Nat
        /\ held' \in [Repos -> Processes \cup {NoProcess}] /\ proc' \in [Processes -> Procs]
        /\ faults' \in Nat
    BY <1>1 DEF Standing, CacheType
  <2>2. exact' \in BOOLEAN
    BY <1>1 DEF Standing, CacheType
  <2> QED BY <2>1, <2>2 DEF CacheType
<1>3. LockInv'
  BY <1>1 DEF LockInv, Standing, Busy
<1>4. BlankInv'
  <2> SUFFICES ASSUME ~orphaned', Prepared'
               PROVE  /\ \A t \in Repos \ (open' \cup reported') : BlankNext(t)
                      /\ \A v \in Processes : About(v)' => BlankNext(proc'[v].repo)
    BY DEF BlankInv, Prepared, Blank, BlankNext
  <2>1. \A x : Blank(x) => BlankNext(x)
    BY DEF Blank, BlankNext, Standing
  <2>2. \A v \in Processes : About(v)' => About(v) /\ proc'[v].repo = proc[v].repo
    BY DEF About, Fetching, Standing
  <2>3. /\ \A t \in Repos \ (open \cup reported) : Blank(t)
        /\ \A v \in Processes : About(v) => Blank(proc[v].repo)
    BY <1>1 DEF BlankInv, Prepared
  <2> QED BY <2>1, <2>2, <2>3
<1>5. WithinHardLimit' /\ UsageIsExact'
  BY <1>1, TotalsStay DEF Standing
<1>6. ScansAreContained'
  <2>1. Live' = Live
    BY DEF Live, Standing
  <2> QED BY <1>1, <2>1 DEF ScansAreContained, Standing
<1> QED BY <1>2, <1>3, <1>4, <1>5, <1>6 DEF PoolInv

LEMMA CacheStands == ASSUME CacheType, UNCHANGED cacheVars PROVE Standing
  BY DEF CacheType, cacheVars, Standing

LEMMA FaultStands ==
    ASSUME CacheType, Fault, UNCHANGED <<disk, meta, usage, held, proc, exact>>
    PROVE  Standing
  BY DEF CacheType, Fault, Standing

LEMMA NobodyLeft ==
    ASSUME TaskInv, ~orphaned, InFlight = {}
    PROVE  Live = {}
  BY DEF TaskInv, Live

\* Tasks that are given up: their processes are dead, or nobody counts them any more.
LEMMA TasksStand ==
    ASSUME CacheType, TaskInv, Standing, pool' # "reconciled", orphaned' = orphaned,
           \/ UNCHANGED future /\ (Dispatched' \/ InFlight = {})
           \/ /\ Dispatched'
              /\ \E t \in Repos : /\ future' = [future EXCEPT ![t] = NoProcess]
                                  /\ future \in [Repos -> Processes \cup {NoProcess}]
                                  /\ future[t] # NoProcess
                                  /\ proc[future[t]].at = "dead",
           open \subseteq open'
    PROVE  TaskInv'
<1>1. \A w \in Processes : (Busy(w)' <=> Busy(w)) /\ proc'[w].repo = proc[w].repo
  BY DEF Busy, Standing
<1>2. Live' = Live
  BY DEF Live, Standing
<1>3. CASE UNCHANGED future /\ (Dispatched' \/ InFlight = {})
  <2>1. InFlight' = InFlight
    BY <1>3 DEF InFlight
  <2> QED BY <1>1, <1>2, <1>3, <2>1 DEF TaskInv, Live
<1>4. ASSUME Dispatched', NEW t \in Repos, future' = [future EXCEPT ![t] = NoProcess],
             future \in [Repos -> Processes \cup {NoProcess}],
             future[t] # NoProcess, proc[future[t]].at = "dead"
      PROVE  TaskInv'
  <2>1. InFlight' = InFlight \ {t} /\ \A u \in InFlight' : future'[u] = future[u]
    BY <1>4 DEF InFlight
  <2>2. \A w \in Live : w # future[t] /\ w \in Processes
    BY <1>4 DEF Live
  <2>3. ASSUME ~orphaned, NEW w \in Live
        PROVE  \E u \in InFlight' : future'[u] = w /\ (Busy(w) => proc[w].repo = u)
    <3>1. PICK u \in InFlight : future[u] = w /\ (Busy(w) => proc[w].repo = u)
      BY <2>3 DEF TaskInv
    <3>2. u # t
      BY <2>2, <3>1
    <3> QED BY <2>1, <3>1, <3>2
  <2> QED BY <1>1, <1>2, <1>4, <2>1, <2>2, <2>3 DEF TaskInv
<1> QED BY <1>3, <1>4

LEMMA StopTypes ==
    ASSUME PoolType, NEW why \in {"deadline", "aborted"}, StopPool(why)
    PROVE  /\ pool' \in PoolStates /\ cause' \in {"none", "deadline", "aborted"}
           /\ pool' = "stopping" /\ Dispatched' /\ Prepared'
BY DEF StopPool, PoolStates, Dispatched, Prepared

\* The steps that stop the pool, and those that end it.
LEMMA StoppingPool ==
    ASSUME PoolInv,
           \/ (\E t \in Repos : CollectBroken(t)) \/ NoticeDeadline
           \/ \E t \in Repos, opened \in BOOLEAN : SubmitRaises(t, opened)
    PROVE  PoolInv'
<1>1. CacheType /\ PoolType /\ TaskInv
  BY DEF PoolInv
<1>2. CASE \E t \in Repos : CollectBroken(t)
  <2>1. PICK t \in Repos : CollectBroken(t)
    BY <1>2
  <2>2. /\ pool = "running" /\ future[t] # NoProcess /\ proc[future[t]].at = "dead"
        /\ future' = [future EXCEPT ![t] = NoProcess] /\ StopPool("aborted")
        /\ UNCHANGED <<cacheVars, open, reported, orphaned>>
    BY <2>1 DEF CollectBroken
  <2>3. Standing
    BY <1>1, <2>2, CacheStands
  <2>4. pool' = "stopping" /\ Dispatched' /\ Prepared' /\ PoolType'
    BY <1>1, <2>2, StopTypes DEF PoolType
  <2>5. future \in [Repos -> Processes \cup {NoProcess}]
    BY <1>1 DEF PoolType
  <2>6. TaskInv'
    BY <1>1, <2>2, <2>3, <2>4, <2>5, TasksStand
  <2> QED BY <2>2, <2>3, <2>4, <2>6, StandingPool DEF Prepared, Overfull
<1>3. CASE NoticeDeadline
  <2>1. /\ pool = "running" /\ StopPool("deadline")
        /\ UNCHANGED <<cacheVars, future, open, reported, orphaned>>
    BY <1>3 DEF NoticeDeadline
  <2>2. Standing
    BY <1>1, <2>1, CacheStands
  <2>3. pool' = "stopping" /\ Dispatched' /\ Prepared' /\ PoolType'
    BY <1>1, <2>1, StopTypes DEF PoolType
  <2>4. TaskInv'
    BY <1>1, <2>1, <2>2, <2>3, TasksStand
  <2> QED BY <2>1, <2>2, <2>3, <2>4, StandingPool DEF Prepared, Overfull
<1>4. CASE \E t \in Repos, opened \in BOOLEAN : SubmitRaises(t, opened)
  <2>1. PICK t \in Repos, opened \in BOOLEAN : SubmitRaises(t, opened)
    BY <1>4
  <2>2. /\ pool = "running" /\ Fault /\ StopPool("aborted")
        /\ open' = IF opened THEN open \cup {t} ELSE open
        /\ UNCHANGED <<disk, meta, usage, held, proc, exact, future, reported, orphaned>>
    BY <2>1 DEF SubmitRaises
  <2>3. Standing
    BY <1>1, <2>2, FaultStands
  <2>4. open \subseteq open' /\ open' \subseteq Repos
    BY <1>1, <2>2 DEF PoolType
  <2>5. pool' = "stopping" /\ Dispatched' /\ Prepared' /\ PoolType'
    BY <1>1, <2>2, <2>4, StopTypes DEF PoolType
  <2>6. TaskInv'
    BY <1>1, <2>2, <2>3, <2>4, <2>5, TasksStand
  <2> QED BY <2>2, <2>3, <2>4, <2>5, <2>6, StandingPool DEF Prepared, Overfull
<1> QED BY <1>2, <1>3, <1>4

LEMMA EndingPool ==
    ASSUME PoolInv, NextPhase \/ ReturnStopped
    PROVE  PoolInv'
<1>1. CacheType /\ PoolType /\ TaskInv
  BY DEF PoolInv
<1>2. /\ InFlight = {} /\ Dispatched /\ Prepared
      /\ pool' \in {"running", "returned", "raised"}
      /\ pool' = "raised" => cause = "aborted"
      /\ UNCHANGED <<cacheVars, future, open, reported, cause, orphaned>>
  BY DEF NextPhase, ReturnStopped, Dispatched, Prepared
<1>3. Standing
  BY <1>1, <1>2, CacheStands
<1>4. PoolType'
  BY <1>1, <1>2 DEF PoolType, PoolStates
<1>5. pool' # "reconciled"
  BY <1>2
<1>6. TaskInv'
  BY <1>1, <1>2, <1>3, <1>5, TasksStand
<1>7. ~Overfull
  BY <1>2 DEF Overfull, Dispatched
<1> QED BY <1>1, <1>2, <1>3, <1>4, <1>6, <1>7, NobodyLeft, StandingPool

\* A deadline passes, for a process or for the pool.
LEMMA LatePool ==
    ASSUME PoolInv,
           \/ RunDeadline \/ \E w \in Processes : Terminate(w) \/ RepoTimeout(w)
    PROVE  PoolInv'
<1>1. CacheType /\ PoolType /\ TaskInv /\ ScansAreContained
  BY DEF PoolInv
<1>2. UNCHANGED <<disk, meta, usage, held, exact, pool, future, open, reported, cause, orphaned>>
  BY DEF RunDeadline, Terminate, RepoTimeout, DeadlinePasses, poolVars
<1>3. proc \in [Processes -> Procs] /\ faults \in Nat
  BY <1>1 DEF CacheType
<1>4. faults' \in Nat
  BY <1>3 DEF RunDeadline, Terminate, RepoTimeout, DeadlinePasses, Fault
<1>5. \E late \in [Processes -> BOOLEAN] :
         proc' = [w \in Processes |-> [proc[w] EXCEPT !.late = late[w]]]
  <2>1. CASE RunDeadline
    <3> DEFINE late == [w \in Processes |-> proc[w].at \notin {"idle", "done", "dead"}]
    <3>1. proc' = [w \in Processes |-> [proc[w] EXCEPT !.late = late[w]]]
      BY <2>1 DEF RunDeadline
    <3>2. late \in [Processes -> BOOLEAN]
      OBVIOUS
    <3> QED BY <3>1, <3>2
  <2>2. CASE \E w \in Processes : Terminate(w) \/ RepoTimeout(w)
    <3>1. PICK w \in Processes : DeadlinePasses(w)
      BY <2>2 DEF Terminate, RepoTimeout
    <3> DEFINE late == [v \in Processes |-> v = w \/ proc[v].late]
    <3>2. \A v \in Processes : proc[v].late \in BOOLEAN
      BY <1>3 DEF Procs
    <3>3. late \in [Processes -> BOOLEAN] /\ late[w] = TRUE
          /\ \A v \in Processes \ {w} : late[v] = proc[v].late
      BY <3>2
    <3>4. proc' = [proc EXCEPT ![w] = [proc[w] EXCEPT !.late = TRUE]]
      BY <3>1, <1>3 DEF DeadlinePasses
    <3>5. \A v \in Processes : [proc[v] EXCEPT !.late = proc[v].late] = proc[v]
      BY <1>3 DEF Procs
    <3>6. \A v \in Processes : proc'[v] = [proc[v] EXCEPT !.late = late[v]]
      <4> HIDE DEF late
      <4> QED BY <1>3, <3>3, <3>4, <3>5
    <3>7. proc' = [v \in Processes |-> proc'[v]]
      BY <1>3, <3>4
    <3>8. proc' = [v \in Processes |-> [proc[v] EXCEPT !.late = late[v]]]
      <4> HIDE DEF late
      <4> QED BY <3>6, <3>7
    <3> QED BY <3>3, <3>8
  <2> QED BY <2>1, <2>2
<1>6. Standing
  BY <1>2, <1>3, <1>4, <1>5 DEF Standing, Procs
<1>7. PoolType' /\ (pool' = "reconciled" => cause' = "none")
  BY <1>1, <1>2 DEF PoolType, TaskInv
<1>8. TaskInv'
  <2>1. Live' = Live /\ InFlight' = InFlight /\ Dispatched' = Dispatched
    BY <1>2, <1>6 DEF Live, InFlight, Dispatched, Standing
  <2>2. \A w \in Processes : (Busy(w)' <=> Busy(w)) /\ proc'[w].repo = proc[w].repo
    BY <1>6 DEF Busy, Standing
  <2> QED BY <1>1, <1>2, <1>7, <2>1, <2>2 DEF TaskInv, Live
<1>9. Overfull' = Overfull /\ Prepared' = Prepared
  BY <1>2 DEF Overfull, Prepared
<1> QED BY <1>1, <1>2, <1>6, <1>7, <1>8, <1>9, StandingPool DEF ScansAreContained

\* The coordinator is killed: what it dispatched goes on without it.
LEMMA CrashPool == ASSUME PoolInv, CoordinatorDies PROVE PoolInv'
<1>1. CacheType /\ PoolType /\ TaskInv
  BY DEF PoolInv
<1>2. /\ Dispatched /\ Fault /\ orphaned' = (orphaned \/ Live # {}) /\ pool' = "crashed"
      /\ future' = [t \in Repos |-> NoProcess]
      /\ UNCHANGED <<disk, meta, usage, held, proc, exact, open, reported, cause>>
  BY DEF CoordinatorDies, Dispatched
<1>3. Standing
  BY <1>1, <1>2, FaultStands
<1>4. PoolType'
  <2>1. orphaned' \in BOOLEAN
    BY <1>1, <1>2 DEF PoolType
  <2>2. future' \in [Repos -> Processes \cup {NoProcess}]
    BY <1>2
  <2> QED BY <1>1, <1>2, <2>1, <2>2 DEF PoolType, PoolStates
<1>5. ~orphaned' => ~orphaned /\ Live = {}
  BY <1>2
<1>6. InFlight' = {} /\ Live' = Live
  BY <1>2 DEF InFlight, Live
<1>7. TaskInv'
  BY <1>2, <1>5, <1>6 DEF TaskInv
<1>8. ~Overfull /\ ~Prepared' /\ pool' \notin {"returned", "raised"}
  BY <1>2 DEF Overfull, Dispatched, Prepared
<1> QED BY <1>3, <1>4, <1>5, <1>7, <1>8, StandingPool

\* A task goes to a process, which starts by queueing for its lock.
LEMMA SubmitPool ==
    ASSUME PoolInv, NEW t \in Repos, NEW w \in Processes, Submit(t, w)
    PROVE  PoolInv'
<1>1. /\ CacheType /\ PoolType /\ LockInv /\ TaskInv /\ BlankInv
      /\ WithinHardLimit /\ ScansAreContained /\ UsageIsExact
  BY DEF PoolInv
<1> DEFINE stage == IF BareFirst(t) THEN "inspect" ELSE "ensure"
<1>2. /\ pool = "running" /\ t \notin reported /\ t \notin open
      /\ \A u \in Repos : future[u] # w
      /\ proc[w].at = "idle"
      /\ proc' = [proc EXCEPT ![w] = [@ EXCEPT !.at = "waiting", !.repo = t, !.stage = stage]]
      /\ future' = [future EXCEPT ![t] = w] /\ open' = open \cup {t}
      /\ UNCHANGED <<disk, meta, usage, held, faults, exact, pool, reported, cause, orphaned>>
  BY DEF Submit, StartScan
<1>3. /\ proc' \in [Processes -> Procs] /\ \A v \in Processes \ {w} : proc'[v] = proc[v]
      /\ proc'[w].at = "waiting" /\ proc'[w].repo = t
  <2>1. proc \in [Processes -> Procs] /\ stage \in {"inspect", "ensure"}
    BY <1>1 DEF CacheType
  <2> HIDE DEF stage
  <2>2. [proc[w] EXCEPT !.at = "waiting", !.repo = t, !.stage = stage] \in Procs
    BY <2>1 DEF Procs, Places
  <2> QED BY <1>2, <2>1, <2>2 DEF Procs
<1>4. future[t] = NoProcess /\ future \in [Repos -> Processes \cup {NoProcess}] /\ w # NoProcess
  BY <1>1, <1>2, CacheAssumption DEF TaskInv, InFlight, PoolType
<1>5. CacheType'
  <2>1. exact' \in BOOLEAN
    BY <1>1, <1>2 DEF CacheType
  <2>2. disk' \in [Repos -> Nat] /\ meta' \in [Repos -> Entries] /\ usage' \in Nat
        /\ held' \in [Repos -> Processes \cup {NoProcess}] /\ faults' \in Nat
    BY <1>1, <1>2 DEF CacheType
  <2> QED BY <1>3, <2>1, <2>2 DEF CacheType
<1>6. PoolType'
  <2>1. orphaned' \in BOOLEAN
    BY <1>1, <1>2 DEF PoolType
  <2>2. future' \in [Repos -> Processes \cup {NoProcess}]
    BY <1>2, <1>4
  <2> QED BY <1>1, <1>2, <2>1, <2>2 DEF PoolType
<1>7. LockInv'
  BY <1>1, <1>2, <1>3 DEF LockInv, Busy, Inside
<1>8. InFlight' = InFlight \cup {t} /\ t \notin InFlight /\ future'[t] = w
      /\ \A u \in InFlight : future'[u] = future[u] /\ future[u] # w
  BY <1>2, <1>4 DEF InFlight
<1>9. TaskInv'
  <2>1. Dispatched'
    BY <1>2 DEF Dispatched
  <2>2. InFlight' \subseteq open'
    BY <1>1, <1>2, <1>8 DEF TaskInv
  <2>3. \A u, v \in InFlight' : future'[u] = future'[v] => u = v
    BY <1>1, <1>8 DEF TaskInv
  <2>4. ASSUME ~orphaned, NEW v \in Live'
        PROVE  \E u \in InFlight' : future'[u] = v /\ (Busy(v)' => proc'[v].repo = u)
    <3>1. CASE v = w
      BY <1>3, <1>8, <3>1
    <3>2. CASE v # w
      <4>1. v \in Processes /\ v \in Live /\ proc'[v] = proc[v]
        BY <1>3, <2>4, <3>2 DEF Live
      <4>2. PICK u \in InFlight : future[u] = v /\ (Busy(v) => proc[v].repo = u)
        BY <1>1, <2>4, <4>1 DEF TaskInv
      <4> QED BY <1>8, <4>1, <4>2 DEF Busy
    <3> QED BY <3>1, <3>2
  <2> QED BY <1>2, <2>1, <2>2, <2>3, <2>4 DEF TaskInv
<1>10. BlankInv'
  <2> SUFFICES ASSUME ~orphaned
               PROVE  /\ \A u \in Repos \ (open' \cup reported') : BlankNext(u)
                      /\ \A v \in Processes : About(v)' => BlankNext(proc'[v].repo)
    BY <1>2 DEF BlankInv, Blank, BlankNext
  <2>1. \A x : Blank(x) => BlankNext(x)
    BY <1>2 DEF Blank, BlankNext
  <2>2. /\ \A u \in Repos \ (open \cup reported) : Blank(u)
        /\ \A v \in Processes : About(v) => Blank(proc[v].repo)
    BY <1>1, <1>2 DEF BlankInv
  <2>3. \A v \in Processes \ {w} : About(v)' => About(v)
    BY <1>3 DEF About, Fetching
  <2> QED BY <1>2, <1>3, <2>1, <2>2, <2>3
<1>11. WithinHardLimit' /\ UsageIsExact'
  BY <1>1, <1>2, TotalsStay DEF Overfull
<1>12. ScansAreContained'
  BY <1>1, <1>2, <1>3 DEF ScansAreContained
<1> QED BY <1>5, <1>6, <1>7, <1>9, <1>10, <1>11, <1>12 DEF PoolInv

\* A result is recorded, and the process is free again.
LEMMA CollectPool ==
    ASSUME PoolInv, NEW t \in Repos, NEW status \in Outcomes,
           Collect(t, status) \/ CollectRaises(t, status)
    PROVE  PoolInv'
<1>1. /\ CacheType /\ PoolType /\ LockInv /\ TaskInv /\ BlankInv
      /\ WithinHardLimit /\ ScansAreContained /\ UsageIsExact
  BY DEF PoolInv
<1> DEFINE w == future[t]
<1>2. /\ Collected(t, status)
      /\ pool = "running" /\ w # NoProcess /\ proc[w].at = "done"
      /\ RecordOutcomePriority(t, Ranks[status])
      /\ proc' = [proc EXCEPT ![w] = Rest("idle")]
      /\ future' = [future EXCEPT ![t] = NoProcess]
      /\ UNCHANGED <<disk, usage, held, exact, orphaned>>
      /\ pool' \in {"running", "stopping"}
  BY DEF Collect, CollectRaises, Collected, RecordOutcomePriority, StopPool
<1>3. /\ open \ {t} \subseteq open' /\ open' \subseteq open /\ open' \subseteq Repos
      /\ reported' \subseteq Repos /\ reported \subseteq reported'
      /\ faults' \in Nat /\ cause' \in {"none", "deadline", "aborted"}
      /\ (t \in open' \/ t \in reported')
  <2>1. CASE Collect(t, status)
    BY <1>1, <2>1 DEF Collect, PoolType, CacheType
  <2>2. CASE CollectRaises(t, status)
    <3>1. t \in open
      BY <1>1, <1>2 DEF TaskInv, InFlight
    <3> QED BY <1>1, <2>2, <3>1 DEF CollectRaises, PoolType, CacheType, Fault, StopPool
  <2> QED BY <2>1, <2>2
<1>4. w \in Processes /\ future \in [Repos -> Processes \cup {NoProcess}] /\ proc \in [Processes -> Procs]
  BY <1>1, <1>2 DEF PoolType, CacheType
<1>5. /\ proc' \in [Processes -> Procs] /\ \A v \in Processes \ {w} : proc'[v] = proc[v]
      /\ proc'[w].at = "idle"
  <2>1. Rest("idle") \in Procs /\ Rest("idle").at = "idle"
    BY DEF Rest, Procs, Places
  <2> HIDE DEF w
  <2> QED BY <1>2, <1>4, <2>1
<1>6. /\ meta' \in [Repos -> Entries]
      /\ \A r \in Repos : Accounted(meta'[r]) = Accounted(meta[r])
  <2>1. meta \in [Repos -> Entries] /\ Ranks[status] \in Nat
    BY <1>1, PoolAssumption DEF CacheType, Ranks
  <2>2. CASE UNCHANGED meta
    BY <2>1, <2>2
  <2>3. CASE meta' = [meta EXCEPT ![t].rank = Ranks[status]]
    <3> DEFINE m == [meta[t] EXCEPT !.rank = Ranks[status]]
    <3>1. m \in Entries /\ m.bytes = meta[t].bytes /\ m.reserved = meta[t].reserved
      BY <2>1 DEF Entries
    <3>2. meta' = [meta EXCEPT ![t] = m]
      BY <2>3
    <3> HIDE DEF m
    <3> QED BY <2>1, <3>1, <3>2 DEF Accounted
  <2> QED BY <1>2, <2>2, <2>3 DEF RecordOutcomePriority
<1> HIDE DEF w
<1>7. CacheType'
  <2>1. exact' \in BOOLEAN
    BY <1>1, <1>2 DEF CacheType
  <2>2. disk' \in [Repos -> Nat] /\ usage' \in Nat
        /\ held' \in [Repos -> Processes \cup {NoProcess}]
    BY <1>1, <1>2 DEF CacheType
  <2> QED BY <1>3, <1>5, <1>6, <2>1, <2>2 DEF CacheType
<1>8. PoolType'
  <2>1. orphaned' \in BOOLEAN
    BY <1>1, <1>2 DEF PoolType
  <2>2. future' \in [Repos -> Processes \cup {NoProcess}]
    BY <1>2, <1>4
  <2> QED BY <1>2, <1>3, <2>1, <2>2 DEF PoolType, PoolStates
<1>9. LockInv'
  BY <1>1, <1>2, <1>5 DEF LockInv, Busy, Inside
<1>10. InFlight' = InFlight \ {t} /\ \A u \in InFlight' : future'[u] = future[u]
  BY <1>2, <1>4 DEF InFlight
<1>11. TaskInv'
  <2>1. Dispatched'
    BY <1>2 DEF Dispatched
  <2>2. InFlight' \subseteq open'
    BY <1>1, <1>3, <1>10 DEF TaskInv
  <2>3. \A u, v \in InFlight' : future'[u] = future'[v] => u = v
    BY <1>1, <1>10 DEF TaskInv
  <2>4. ASSUME ~orphaned, NEW v \in Live'
        PROVE  \E u \in InFlight' : future'[u] = v /\ (Busy(v)' => proc'[v].repo = u)
    <3>1. v \in Processes /\ v # w /\ v \in Live /\ proc'[v] = proc[v]
      BY <1>5, <2>4 DEF Live
    <3>2. PICK u \in InFlight : future[u] = v /\ (Busy(v) => proc[v].repo = u)
      BY <1>1, <2>4, <3>1 DEF TaskInv
    <3>3. u # t
      BY <3>1, <3>2 DEF w
    <3> QED BY <1>10, <3>1, <3>2, <3>3 DEF Busy
  <2> QED BY <1>2, <2>1, <2>2, <2>3, <2>4 DEF TaskInv
<1>12. BlankInv'
  <2> SUFFICES ASSUME ~orphaned
               PROVE  /\ \A u \in Repos \ (open' \cup reported') : BlankNext(u)
                      /\ \A v \in Processes : About(v)' => BlankNext(proc'[v].repo)
    BY <1>2 DEF BlankInv, Blank, BlankNext
  <2>1. \A x \in Repos : Blank(x) => BlankNext(x)
    BY <1>2, <1>6 DEF Blank, BlankNext
  <2>2. /\ \A u \in Repos \ (open \cup reported) : Blank(u)
        /\ \A v \in Processes : About(v) => Blank(proc[v].repo) /\ proc[v].repo \in Repos
    BY <1>1, <1>2 DEF BlankInv, LockInv, About, Busy
  <2>3. \A v \in Processes : About(v)' => v # w
    BY <1>5 DEF About
  <2>4. \A v \in Processes \ {w} : About(v)' => About(v)
    BY <1>5 DEF About, Fetching
  <2>5. open \cup reported \subseteq open' \cup reported'
    BY <1>3
  <2> QED BY <1>5, <2>1, <2>2, <2>3, <2>4, <2>5
<1>13. WithinHardLimit' /\ UsageIsExact'
  <2>1. ~Overfull
    BY <1>2 DEF Overfull
  <2> QED BY <1>1, <1>2, <1>6, <2>1, TotalsStay
<1>14. ScansAreContained'
  BY <1>1, <1>2, <1>5 DEF ScansAreContained
<1> QED BY <1>7, <1>8, <1>9, <1>11, <1>12, <1>13, <1>14 DEF PoolInv

\* A process dies, and whoever waits for its task goes on waiting or gives it up.
LEMMA DeathPool ==
    ASSUME PoolInv, NEW w \in Processes, Kill(w), faults' \in Nat,
           UNCHANGED <<pool, open, reported, cause, orphaned>>,
           \/ UNCHANGED future
           \/ pool = "stopping" /\ \E t \in Repos : /\ future[t] = w
                                                    /\ future' = [future EXCEPT ![t] = NoProcess]
    PROVE  PoolInv'
<1>1. /\ CacheType /\ PoolType /\ LockInv /\ TaskInv /\ BlankInv
      /\ WithinHardLimit /\ ScansAreContained /\ UsageIsExact
  BY DEF PoolInv
<1>2. /\ Goto(w, "dead") /\ UNCHANGED <<disk, meta, usage, exact>>
      /\ held' = [r \in Repos |-> IF held[r] = w THEN NoProcess ELSE held[r]]
  BY DEF Kill
<1>3. /\ proc' \in [Processes -> Procs] /\ \A v \in Processes \ {w} : proc'[v] = proc[v]
      /\ proc'[w].at = "dead"
  BY <1>1, <1>2, GotoIs DEF Places
<1>4. CacheType'
  <2>1. exact' \in BOOLEAN
    BY <1>1, <1>2 DEF CacheType
  <2>2. disk' \in [Repos -> Nat] /\ meta' \in [Repos -> Entries] /\ usage' \in Nat
        /\ held' \in [Repos -> Processes \cup {NoProcess}]
    BY <1>1, <1>2 DEF CacheType
  <2> QED BY <1>3, <2>1, <2>2 DEF CacheType
<1>5. future \in [Repos -> Processes \cup {NoProcess}] /\ future' \in [Repos -> Processes \cup {NoProcess}]
  BY <1>1 DEF PoolType
<1>6. PoolType'
  <2>1. orphaned' \in BOOLEAN
    BY <1>1 DEF PoolType
  <2> QED BY <1>1, <1>5, <2>1 DEF PoolType
<1>7. LockInv'
  <2> SUFFICES ASSUME NEW v \in Processes
               PROVE  /\ Busy(v)' => proc'[v].repo \in Repos
                      /\ proc'[v].at \in Inside => held'[proc'[v].repo] = v
    BY DEF LockInv
  <2>1. CASE v = w
    BY <1>3, <2>1 DEF Busy, Inside
  <2>2. CASE v # w
    BY <1>1, <1>2, <1>3, <2>2 DEF LockInv, Busy, Inside
  <2> QED BY <2>1, <2>2
<1>8. /\ Live' \subseteq Live \ {w} /\ \A v \in Live' : proc'[v] = proc[v]
      /\ Dispatched' = Dispatched
  BY <1>3 DEF Live, Dispatched
<1>9. /\ InFlight' \subseteq InFlight /\ \A u \in InFlight' : future'[u] = future[u]
      /\ \A u \in InFlight \ InFlight' : future[u] = w
  BY <1>5, CacheAssumption DEF InFlight
<1>10. TaskInv'
  <2>1. pool' = "reconciled" => cause' = "none"
    BY <1>1 DEF TaskInv
  <2>2. (~Dispatched' => InFlight' = {}) /\ InFlight' \subseteq open'
    BY <1>1, <1>8, <1>9 DEF TaskInv
  <2>3. \A u, v \in InFlight' : future'[u] = future'[v] => u = v
    BY <1>1, <1>9 DEF TaskInv
  <2>4. ASSUME ~orphaned, NEW v \in Live'
        PROVE  \E u \in InFlight' : future'[u] = v /\ (Busy(v)' => proc'[v].repo = u)
    <3>1. v \in Live /\ v # w /\ proc'[v] = proc[v]
      BY <1>8, <2>4
    <3>2. PICK u \in InFlight : future[u] = v /\ (Busy(v) => proc[v].repo = u)
      BY <1>1, <2>4, <3>1 DEF TaskInv
    <3> QED BY <1>9, <3>1, <3>2 DEF Busy
  <2> QED BY <2>1, <2>2, <2>3, <2>4 DEF TaskInv
<1>11. BlankInv'
  <2> SUFFICES ASSUME ~orphaned, Prepared
               PROVE  /\ \A u \in Repos \ (open \cup reported) : BlankNext(u)
                      /\ \A v \in Processes : About(v)' => BlankNext(proc'[v].repo)
    BY DEF BlankInv, Blank, BlankNext, Prepared
  <2>1. \A x : Blank(x) => BlankNext(x)
    BY <1>2 DEF Blank, BlankNext
  <2>2. /\ \A u \in Repos \ (open \cup reported) : Blank(u)
        /\ \A v \in Processes : About(v) => Blank(proc[v].repo)
    BY <1>1 DEF BlankInv, Prepared
  <2>3. \A v \in Processes : About(v)' => v # w /\ About(v) /\ proc'[v] = proc[v]
    BY <1>3 DEF About, Fetching
  <2> QED BY <2>1, <2>2, <2>3
<1>12. WithinHardLimit' /\ UsageIsExact'
  BY <1>1, <1>2, TotalsStay DEF Overfull
<1>13. ScansAreContained'
  <2>1. \A v \in Processes : proc'[v].at = "scanning" => proc[v].at = "scanning" /\ proc'[v] = proc[v]
    BY <1>3
  <2> QED BY <1>1, <1>2, <1>8, <2>1 DEF ScansAreContained
<1> QED BY <1>4, <1>6, <1>7, <1>10, <1>11, <1>12, <1>13 DEF PoolInv

LEMMA DyingPool ==
    ASSUME PoolInv,
           \/ \E t \in Repos : Reap(t)
           \/ \E w \in Processes : OrphanExits(w) \/ WorkerDies(w)
    PROVE  PoolInv'
<1>1. CacheType /\ PoolType /\ TaskInv
  BY DEF PoolInv
<1>2. CASE \E w \in Processes : OrphanExits(w) \/ WorkerDies(w)
  <2>1. PICK w \in Processes : OrphanExits(w) \/ WorkerDies(w)
    BY <1>2
  <2>2. Kill(w) /\ UNCHANGED poolVars /\ faults' \in Nat
    BY <1>1, <2>1 DEF OrphanExits, WorkerDies, Fault, CacheType
  <2> QED BY <2>2, DeathPool DEF poolVars
<1>3. CASE \E t \in Repos : Reap(t)
  <2>1. PICK t \in Repos : Reap(t)
    BY <1>3
  <2>2. /\ pool = "stopping" /\ future[t] # NoProcess
        /\ future' = [future EXCEPT ![t] = NoProcess]
        /\ UNCHANGED <<pool, open, reported, cause, orphaned>>
    BY <2>1 DEF Reap
  <2>3. future[t] \in Processes /\ future \in [Repos -> Processes \cup {NoProcess}]
    BY <1>1, <2>2 DEF PoolType
  <2>4. CASE proc[future[t]].at = "dead"
    <3>1. UNCHANGED cacheVars
      BY <2>1, <2>4 DEF Reap
    <3>2. Standing
      BY <1>1, <3>1, CacheStands
    <3>3. PoolType'
      <4>1. orphaned' \in BOOLEAN
        BY <1>1, <2>2 DEF PoolType
      <4> QED BY <1>1, <2>2, <2>3, <4>1 DEF PoolType
    <3>4. TaskInv'
      <4>1. Dispatched' /\ pool' # "reconciled"
        BY <2>2 DEF Dispatched
      <4> QED BY <1>1, <2>2, <2>3, <2>4, <3>2, <4>1, TasksStand
    <3> QED BY <2>2, <3>2, <3>3, <3>4, StandingPool DEF Prepared, Overfull
  <2>5. CASE proc[future[t]].at # "dead"
    <3>1. Kill(future[t]) /\ UNCHANGED faults
      BY <2>1, <2>5 DEF Reap
    <3>2. faults' \in Nat
      BY <1>1, <3>1 DEF CacheType
    <3> QED BY <2>2, <2>3, <3>1, <3>2, DeathPool
  <2> QED BY <2>4, <2>5
<1> QED BY <1>2, <1>3

\* scan_many begins: it reconciles the accounting with the disk and gives up old attempts.
LEMMA BeginsPool == ASSUME PoolInv, BeginPool PROVE PoolInv'
<1>1. CacheType /\ PoolType /\ LockInv /\ TaskInv
  BY DEF PoolInv
<1> DEFINE owned(r) == meta[r].known /\ disk[r] > 0
<1>2. /\ ~Dispatched /\ pool' = "reconciled" /\ open' = {} /\ cause' = "none"
      /\ proc' = [w \in Processes |-> IF proc[w].at = "dead" THEN Rest("idle") ELSE proc[w]]
      /\ disk' = [r \in Repos |-> IF owned(r) THEN disk[r] ELSE 0]
      /\ meta' = [r \in Repos |-> IF owned(r) THEN [meta[r] EXCEPT !.bytes = disk[r], !.reserved = 0]
                                  ELSE NoMeta]
      /\ usage' = SumFunctionOnSet(disk', Repos)
      /\ exact' = TRUE
      /\ UNCHANGED <<held, faults, future, reported, orphaned>>
  BY DEF BeginPool, ReconcileAccounting, Dispatched
<1>3. disk' \in [Repos -> Nat]
  BY <1>1, <1>2 DEF CacheType
<1>4. /\ meta' \in [Repos -> Entries]
      /\ \A r \in Repos : Accounted(meta'[r]) = disk'[r]
  <2>1. ASSUME NEW r \in Repos
        PROVE  meta'[r] \in Entries /\ Accounted(meta'[r]) = disk'[r]
    <3>1. meta[r] \in Entries /\ disk[r] \in Nat
      BY <1>1 DEF CacheType
    <3>2. CASE owned(r)
      <4> DEFINE m == [meta[r] EXCEPT !.bytes = disk[r], !.reserved = 0]
      <4>1. m \in Entries /\ m.bytes = disk[r] /\ m.reserved = 0
        BY <3>1 DEF Entries
      <4>2. meta'[r] = m /\ disk'[r] = disk[r]
        BY <1>2, <3>2
      <4> HIDE DEF m
      <4> QED BY <3>1, <4>1, <4>2 DEF Accounted
    <3>3. CASE ~owned(r)
      BY <1>2, <3>3, Entry
    <3> QED BY <3>2, <3>3
  <2> QED BY <1>2, <2>1
<1> HIDE DEF owned
<1>5. usage' = AccountedOf(Repos)' /\ usage' \in Nat
  <2> DEFINE h == [r \in Repos |-> Accounted(meta'[r])]
  <2>1. h = disk'
    BY <1>3, <1>4
  <2>2. AccountedOf(Repos)' = SumFunctionOnSet(h, Repos)
    BY DEF AccountedOf
  <2>3. \A r \in Repos : disk'[r] \in Nat
    BY <1>3
  <2> HIDE DEF h
  <2>4. SumFunctionOnSet(disk', Repos) \in Nat
    BY <2>3, SumIsNat, CacheAssumption
  <2> QED BY <1>2, <2>1, <2>2, <2>4
<1>6. /\ proc' \in [Processes -> Procs]
      /\ \A w \in Processes : proc'[w] = proc[w] \/ proc'[w].at = "idle"
  <2>1. Rest("idle") \in Procs /\ Rest("idle").at = "idle"
    BY DEF Rest, Procs, Places
  <2> QED BY <1>1, <1>2, <2>1 DEF CacheType
<1>7. CacheType'
  <2>1. exact' \in BOOLEAN
    BY <1>2
  <2>2. held' \in [Repos -> Processes \cup {NoProcess}] /\ faults' \in Nat
    BY <1>1, <1>2 DEF CacheType
  <2> QED BY <1>3, <1>4, <1>5, <1>6, <2>1, <2>2 DEF CacheType
<1>8. PoolType'
  BY <1>1, <1>2 DEF PoolType, PoolStates
<1>9. LockInv'
  BY <1>1, <1>2, <1>6 DEF LockInv, Busy, Inside
<1>10. InFlight = {} /\ InFlight' = {}
  BY <1>1, <1>2 DEF TaskInv, InFlight
<1>11. ~orphaned' => Live' = {}
  <2>1. ~orphaned => Live = {}
    BY <1>1, <1>10, NobodyLeft
  <2>2. Live' \subseteq Live
    BY <1>6 DEF Live
  <2> QED BY <1>2, <2>1, <2>2
<1>12. TaskInv'
  BY <1>2, <1>10, <1>11 DEF TaskInv
<1>13. BlankInv'
  <2>1. \A x \in Repos : BlankNext(x)
    BY <1>4 DEF BlankNext
  <2>2. \A w \in Processes : About(w)' => w \in Live'
    BY DEF About, Live
  <2> QED BY <1>11, <2>1, <2>2 DEF BlankInv, Blank, BlankNext
<1>14. WithinHardLimit'
  BY <1>2 DEF WithinHardLimit, Overfull
<1>15. ScansAreContained'
  <2>1. \A w \in Processes : proc'[w].at = "scanning" => w \in Live'
    BY DEF Live
  <2> QED BY <1>2, <1>11, <2>1 DEF ScansAreContained
<1>16. UsageIsExact'
  BY <1>5 DEF UsageIsExact
<1> QED BY <1>7, <1>8, <1>9, <1>12, <1>13, <1>14, <1>15, <1>16 DEF PoolInv

\* The budget is enforced, or scan_many raises.
LEMMA EnforcesPool == ASSUME PoolInv, EnforceAtStart PROVE PoolInv'
<1>1. /\ CacheType /\ PoolType /\ LockInv /\ TaskInv /\ BlankInv /\ UsageIsExact
  BY DEF PoolInv
<1>2. /\ pool = "reconciled" /\ EnforceTotal(NoProcess)
      /\ pool' = IF usage' > Hard THEN "raised" ELSE "running"
      /\ UNCHANGED <<held, proc, faults, exact, future, open, reported, cause, orphaned>>
  BY DEF EnforceAtStart
<1>3. Files(NoProcess) /\ Balanced /\ \A x \in Repos : Same(x) \/ Evicted(x)
  BY <1>1, <1>2, EnforceFiles
<1>4. CacheType'
  <2>1. exact' \in BOOLEAN
    BY <1>1, <1>2 DEF CacheType
  <2>2. held' \in [Repos -> Processes \cup {NoProcess}] /\ proc' \in [Processes -> Procs]
    BY <1>1, <1>2 DEF CacheType
  <2> QED BY <1>3, <2>1, <2>2 DEF CacheType, Files
<1>5. PoolType'
  BY <1>1, <1>2 DEF PoolType, PoolStates
<1>6. LockInv'
  BY <1>1, <1>2 DEF LockInv, Busy
<1>7. InFlight = {} /\ InFlight' = {} /\ Live' = Live
  BY <1>1, <1>2 DEF TaskInv, InFlight, Live, Dispatched
<1>8. ~orphaned => Live = {}
  BY <1>1, <1>7, NobodyLeft
<1>9. TaskInv'
  BY <1>1, <1>2, <1>7, <1>8 DEF TaskInv
<1>10. BlankInv'
  <2>1. \A x \in Repos : Blank(x) => BlankNext(x)
    BY <1>3 DEF Same, Evicted, Blank, BlankNext
  <2>2. \A w \in Processes : About(w)' => w \in Live
    BY <1>2 DEF About, Live
  <2>3. ~orphaned => \A t \in Repos \ (open \cup reported) : Blank(t)
    BY <1>1, <1>2 DEF BlankInv
  <2> QED BY <1>2, <1>8, <2>1, <2>2, <2>3 DEF BlankInv, Blank, BlankNext
<1>11. WithinHardLimit'
  <2>1. usage' \in Nat /\ cause' = "none"
    BY <1>1, <1>2, <1>3 DEF Files, TaskInv
  <2>2. CASE usage' > Hard
    BY <1>2, <2>1, <2>2 DEF WithinHardLimit, Overfull
  <2>3. CASE ~(usage' > Hard)
    BY <2>1, <2>3, Bytes DEF WithinHardLimit
  <2> QED BY <2>2, <2>3
<1>12. ScansAreContained'
  <2>1. \A w \in Processes : proc'[w].at = "scanning" => w \in Live
    BY <1>2 DEF Live
  <2> QED BY <1>2, <1>7, <1>8, <2>1 DEF ScansAreContained
<1>13. UsageIsExact'
  <2>1. /\ usage \in Nat /\ usage' \in Nat
        /\ AccountedOf(Repos) \in Nat /\ AccountedOf(Repos)' \in Nat
    BY <1>1, <1>3 DEF Files, CacheType
  <2>2. exact /\ usage >= AccountedOf(Repos) =>
          usage' + AccountedOf(Repos) = usage + AccountedOf(Repos)'
    BY <1>2, <1>3 DEF Balanced
  <2>3. ASSUME exact PROVE usage' >= AccountedOf(Repos)'
    BY <1>1, <2>1, <2>2, <2>3 DEF UsageIsExact
  <2>4. ASSUME exact, ~orphaned PROVE usage' = AccountedOf(Repos)'
    <3>1. usage = AccountedOf(Repos)
      BY <1>1, <2>4 DEF UsageIsExact
    <3>2. usage' + AccountedOf(Repos) = usage + AccountedOf(Repos)'
      BY <2>1, <2>2, <2>4, <3>1
    <3> QED BY <2>1, <3>1, <3>2, Cancel
  <2> QED BY <1>2, <2>3, <2>4 DEF UsageIsExact
<1> QED BY <1>4, <1>5, <1>6, <1>9, <1>10, <1>11, <1>12, <1>13 DEF PoolInv

\* Every step keeps the invariant.
LEMMA PoolStep == PoolInv /\ [PoolNext]_scanVars => PoolInv'
<1> SUFFICES ASSUME PoolInv, [PoolNext]_scanVars PROVE PoolInv'
  OBVIOUS
<1>1. CASE CoordinatorStep
  BY <1>1, EnforcesPool, SubmitPool, CollectPool, StoppingPool, DyingPool, EndingPool
     DEF CoordinatorStep
<1>2. CASE \E w \in Processes : ProcessStep(w)
  BY <1>2, StepPool, DyingPool DEF ProcessStep
<1>3. CASE \E w \in Processes : RepoTimeout(w) \/ Terminate(w) \/ WorkerDies(w)
  BY <1>3, LatePool, DyingPool
<1>4. CASE \/ \E t \in Repos, opened \in BOOLEAN : SubmitRaises(t, opened)
           \/ \E t \in Repos, status \in Outcomes : CollectRaises(t, status)
           \/ RunDeadline \/ CoordinatorDies \/ BeginPool
  BY <1>4, StoppingPool, CollectPool, LatePool, CrashPool, BeginsPool
<1>5. CASE UNCHANGED scanVars
  <2>1. CacheType /\ PoolType /\ TaskInv /\ ScansAreContained
    BY DEF PoolInv
  <2>2. UNCHANGED cacheVars /\ UNCHANGED poolVars
    BY <1>5 DEF scanVars
  <2>3. Standing
    BY <2>1, <2>2, CacheStands
  <2>4. PoolType'
    BY <2>1, <2>2 DEF PoolType, poolVars
  <2>5. TaskInv'
    BY <2>1, <2>2 DEF TaskInv, InFlight, Live, Busy, Dispatched, cacheVars, poolVars
  <2>6. UNCHANGED <<pool, cause, orphaned, open, reported>>
    BY <2>2 DEF poolVars
  <2> QED BY <2>1, <2>3, <2>4, <2>5, <2>6, StandingPool DEF Overfull, Prepared, ScansAreContained
<1> QED BY <1>1, <1>2, <1>3, <1>4, <1>5 DEF PoolNext

LEMMA PoolStays == PoolSpec => []PoolInv
  BY PoolStarts, PoolStep, PTL DEF PoolSpec

\* Once the coordinator has enforced the budget, the total of the cache never exceeds the hard
\* limit: whatever processes reserve, clone, fetch, record and evict at once, and whichever of
\* them are killed or time out, for any number of them and of repositories, and any limits.
THEOREM UsageStaysWithinHardLimit == PoolSpec => []WithinHardLimit
<1>1. PoolInv => WithinHardLimit
  BY DEF PoolInv
<1> QED BY <1>1, PoolStays, PTL

\* The total covers the entries as long as no accounting section was cut in half, and is their
\* sum exactly unless a killed coordinator left processes behind.
THEOREM UsageStaysExact == PoolSpec => []UsageIsExact
<1>1. PoolInv => UsageIsExact
  BY DEF PoolInv
<1> QED BY <1>1, PoolStays, PTL

\* Unless a killed coordinator left processes behind, a process that scans a repository finds
\* it on disk, and no process is left when scan_many comes back.
THEOREM ScansStayContained == PoolSpec => []ScansAreContained
<1>1. PoolInv => ScansAreContained
  BY DEF PoolInv
<1> QED BY <1>1, PoolStays, PTL

--------------------------------------------------------------------------------
(* Why nobody waits for ever: who holds the lock of a repository is inside and waits *)
(* for nothing, and whoever needs room finds what to evict, if only nothing.          *)

HolderInv ==
    \A r \in Repos : held[r] # NoProcess =>
        held[r] \in Processes /\ proc[held[r]].at \in Inside /\ proc[held[r]].repo = r
FutureInv == \A t \in InFlight : future[t] \in Processes /\ proc[future[t]].at # "idle"
SizeInv == \A r \in Repos : disk[r] <= MaxSize
MoveInv == HolderInv /\ FutureInv /\ SizeInv

\* An eviction of least value exists for every goal: of the sets that are closed under
\* rank and reach the goal (or take everything), a smallest one stops in time.
LEMMA VictimsExist ==
    ASSUME CacheType, NEW total \in Nat, NEW own, NEW goal \in Nat
    PROVE  Victims(total, own, goal) # {}
<1> DEFINE E == Evictable(own)
           Closed(V) == \A v \in V, u \in E \ V : meta[v].rank <= meta[u].rank
           Reached(V) == V = E \/ Less(total, AccountedOf(V)) <= goal
           T == {V \in SUBSET E : Closed(V) /\ Reached(V)}
<1>1. E \subseteq Repos /\ IsFiniteSet(E)
  BY CacheAssumption, FS_Subset DEF Evictable
<1>2. \A r \in E : meta[r].rank \in Nat
  BY <1>1 DEF CacheType, Entries
<1>3. E \in T
  OBVIOUS
<1>4. PICK V \in T : \A B \in T : B \subseteq V => B = V
  <2> DEFINE S == E
  <2>1. IsFiniteSet(S) /\ T \subseteq SUBSET S /\ T # {}
    BY <1>1, <1>3
  <2> HIDE DEF S, T
  <2> QED BY ONLY <2>1, Smallest
<1>5. V \subseteq E /\ Closed(V) /\ Reached(V)
  OBVIOUS
<1>6. ASSUME V # {}
      PROVE  \E v \in V : /\ \A u \in V : meta[u].rank <= meta[v].rank
                          /\ Less(total, AccountedOf(V \ {v})) > goal
  <2> DEFINE Above(v) == {u \in V : meta[u].rank > meta[v].rank}
             G == {Above(v) : v \in V}
  <2>1. PICK A \in G : \A B \in G : B \subseteq A => B = A
    <3>1. IsFiniteSet(V)
      BY <1>1, <1>5, FS_Subset
    <3>2. G \subseteq SUBSET V /\ G # {}
      BY <1>6
    <3> HIDE DEF G
    <3> QED BY ONLY <3>1, <3>2, Smallest
  <2>2. PICK v \in V : A = Above(v)
    OBVIOUS
  <2>3. \A u \in V : meta[u].rank <= meta[v].rank
    <3> SUFFICES ASSUME NEW u \in V, ~(meta[u].rank <= meta[v].rank) PROVE FALSE
      OBVIOUS
    <3>1. meta[u].rank \in Nat /\ meta[v].rank \in Nat /\ \A x \in V : meta[x].rank \in Nat
      BY <1>2, <1>5
    <3>2. u \in Above(v) /\ u \notin Above(u) /\ Above(u) \subseteq Above(v)
      BY <3>1
    <3> QED BY <2>1, <2>2, <3>2
  <2>4. Closed(V \ {v})
    BY <1>2, <1>5, <2>3
  <2>5. V \ {v} \in SUBSET E /\ V \ {v} # V /\ V \ {v} # E
    BY <1>5
  <2>6. ~Reached(V \ {v})
    BY <1>4, <2>4, <2>5
  <2>7. AccountedOf(V \ {v}) \in Nat
    BY <1>1, <1>5, AccountedIsNat
  <2>8. Less(total, AccountedOf(V \ {v})) \in Nat
    BY <2>7, Numbers
  <2>9. Less(total, AccountedOf(V \ {v})) > goal
    BY <2>6, <2>8
  <2> QED BY <2>3, <2>9
<1>7. V \in Victims(total, own, goal)
  BY <1>5, <1>6 DEF Victims
<1> QED BY <1>7

\* A process that is not waiting for a lock can move.
LEMMA InsideIsReady ==
    ASSUME CacheType, LockInv, SizeInv, NEW w \in Processes, Busy(w), proc[w].at # "waiting"
    PROVE  Ready(w)
<1> DEFINE r == proc[w].repo
           others == Less(usage, Accounted(meta[r]))
<1>1. r \in Repos /\ disk[r] \in Nat /\ disk[r] <= MaxSize /\ usage \in Nat
      /\ proc[w].size \in Nat /\ proc[w].at \in Places
  BY DEF LockInv, CacheType, SizeInv, Procs
<1>2. Accounted(meta[r]) \in Nat
  BY <1>1 DEF CacheType, Entries, Accounted
<1>3. others \in Nat
  BY <1>1, <1>2, Numbers
<1>4. {Hard, Target, CloneReserve, Reservation, MinGrowth} \subseteq Nat
  BY CacheAssumption
<1>5. GrowthReserve(disk[r]) \in Nat
  BY <1>1, <1>4, Numbers DEF GrowthReserve
<1>6. \A total \in Nat : Victims(total, r, Hard) # {} /\ Victims(total, r, Target) # {}
  BY <1>4, VictimsExist
<1> HIDE DEF others
<1>7. /\ Victims(usage + CloneReserve, r, Hard) # {}
      /\ Victims(others + disk[r] + GrowthReserve(disk[r]), r, Hard) # {}
      /\ Victims(others + disk[r], r, Hard) # {}
      /\ Victims(others + proc[w].size, r, Hard) # {}
      /\ Victims(usage, r, Target) # {}
  <2>1. /\ usage + CloneReserve \in Nat /\ others + disk[r] + GrowthReserve(disk[r]) \in Nat
        /\ others + disk[r] \in Nat /\ others + proc[w].size \in Nat /\ usage \in Nat
    BY <1>1, <1>3, <1>4, <1>5
  <2> QED BY <1>6, <2>1
<1>8. proc[w].at \in Places \ {"idle", "done", "dead", "waiting"}
  BY <1>1 DEF Busy
<1>9. disk[r] <= MaxSize /\ (disk[r] = 0 \/ TRUE)
  BY <1>1
<1> QED BY <1>7, <1>8, <1>9 DEF Ready, Places, others

\* Then somebody of the pool can.
LEMMA MoveIsReady ==
    ASSUME CacheType, LockInv, MoveInv, InFlight # {}
    PROVE  \E w \in Live \cup {future[t] : t \in InFlight} :
              proc[w].at \in {"done", "dead"} \/ Ready(w)
<1>1. PICK t \in InFlight : TRUE
  OBVIOUS
<1>2. future[t] \in Processes /\ proc[future[t]].at # "idle"
  BY DEF MoveInv, FutureInv
<1> DEFINE w == future[t]
<1>3. CASE proc[w].at \in {"done", "dead"}
  BY <1>3
<1>4. CASE Busy(w) /\ proc[w].at # "waiting"
  BY <1>2, <1>4, InsideIsReady DEF MoveInv
<1>5. CASE proc[w].at = "waiting"
  <2>1. proc[w].repo \in Repos
    BY <1>2, <1>5 DEF LockInv, Busy
  <2>2. CASE held[proc[w].repo] = NoProcess
    BY <1>5, <2>2 DEF Ready
  <2>3. CASE held[proc[w].repo] # NoProcess
    <3> DEFINE v == held[proc[w].repo]
    <3>1. v \in Processes /\ proc[v].at \in Inside
      BY <2>1, <2>3 DEF MoveInv, HolderInv
    <3>2. Busy(v) /\ proc[v].at # "waiting" /\ v \in Live
      BY <3>1 DEF Busy, Inside, Live
    <3>3. Ready(v)
      BY <3>1, <3>2, InsideIsReady DEF MoveInv
    <3> QED BY <3>2, <3>3
  <2> QED BY <2>2, <2>3
<1> QED BY <1>2, <1>3, <1>4, <1>5 DEF Busy

--------------------------------------------------------------------------------
\* Who comes to hold a lock is inside, and who goes outside lets go of it.
Holds(w) ==
    LET r == proc[w].repo IN
    \/ /\ held' = held
       /\ proc[w].at \in Inside => proc'[w].at \in Inside /\ proc'[w].repo = r
    \/ /\ held' = [held EXCEPT ![r] = w] /\ r \in Repos
       /\ proc'[w].at \in Inside /\ proc'[w].repo = r
    \/ held' = [held EXCEPT ![r] = NoProcess] /\ r \in Repos

\* The steps that keep the lock: the place they go to is inside.
LEMMA KeepsHold ==
    ASSUME CacheType, NEW w \in Processes, NEW place \in Places, Goto(w, place), held' = held,
           proc[w].at \in Inside => place \in Inside
    PROVE  Holds(w)
<1>1. place \in Inside => place \notin {"done", "dead"}
  BY DEF Inside
<1>2. proc'[w].at = place /\ (place \notin {"done", "dead"} => proc'[w].repo = proc[w].repo)
  BY GotoIs
<1> QED BY <1>1, <1>2 DEF Holds

LEMMA QuietHolds ==
    ASSUME CacheType, LockInv, NEW w \in Processes,
           \/ LockTimesOut(w) \/ UseExisting(w) \/ StartClone(w) \/ SkipFetch(w) \/ EndScan(w)
           \/ ReserveClone(w) \/ (\E bytes \in CloneSizes : FinishClone(w, bytes))
           \/ FailClone(w) \/ BeginGrowth(w) \/ EndGrowth(w)
           \/ (\E more \in {0, 1}, ok \in BOOLEAN : Grow(w, more, ok))
           \/ RecordLeft(w) \/ EnforceBudget(w)
    PROVE  Holds(w)
<1>1. Inside \subseteq Places
  BY DEF Inside, Places
<1>2. SUFFICES /\ held' = held
               /\ \E place \in Places : Goto(w, place)
                                        /\ (proc[w].at \in Inside => place \in Inside)
  BY KeepsHold
<1>3. "done" \in Places /\ "leaving" \in Places /\ "enforcing" \in Places
  BY DEF Places
<1>4. {"present", "unlocking", "cloning", "ensured", "reserved", "growing", "grown", "broken",
       "scanning"} \subseteq Inside
  BY DEF Inside
<1>5. {"waiting", "leaving", "measured", "enforcing"} \cap Inside = {}
  BY DEF Inside
<1>6. CASE LockTimesOut(w)
  BY <1>3, <1>5, <1>6 DEF LockTimesOut
<1>7. CASE UseExisting(w)
  BY <1>1, <1>4, <1>7 DEF UseExisting
<1>8. CASE StartClone(w)
  BY <1>1, <1>4, <1>8 DEF StartClone
<1>9. CASE SkipFetch(w)
  BY <1>1, <1>4, <1>9 DEF SkipFetch
<1>10. CASE EndScan(w)
  BY <1>1, <1>4, <1>10 DEF EndScan
<1>11. CASE ReserveClone(w)
  <2>1. held' = held /\ (Goto(w, "reserved") \/ Goto(w, "unlocking"))
    BY <1>11 DEF ReserveClone
  <2> QED BY <1>1, <1>4, <2>1
<1>12. CASE \E bytes \in CloneSizes : FinishClone(w, bytes)
  BY <1>1, <1>4, <1>12 DEF FinishClone
<1>13. CASE FailClone(w)
  BY <1>1, <1>4, <1>13 DEF FailClone
<1>14. CASE BeginGrowth(w)
  <2>1. held' = held /\ (Goto(w, "growing") \/ Goto(w, "unlocking"))
    BY <1>14 DEF BeginGrowth
  <2> QED BY <1>1, <1>4, <2>1
<1>15. CASE EndGrowth(w)
  <2>1. held' = held /\ (Goto(w, "ensured") \/ Goto(w, "scanning") \/ Goto(w, "unlocking"))
    BY <1>15 DEF EndGrowth
  <2> QED BY <1>1, <1>4, <2>1
<1>16. CASE \E more \in {0, 1}, ok \in BOOLEAN : Grow(w, more, ok)
  <2>1. held' = held /\ (Goto(w, "grown") \/ Goto(w, "broken"))
    BY <1>16 DEF Grow
  <2> QED BY <1>1, <1>4, <2>1
<1>17. CASE RecordLeft(w)
  <2>1. held' = held /\ (Goto(w, "enforcing") \/ Goto(w, "done")) /\ proc[w].at = "measured"
    BY <1>17 DEF RecordLeft
  <2> QED BY <1>3, <1>5, <2>1
<1>18. CASE EnforceBudget(w)
  BY <1>3, <1>5, <1>18 DEF EnforceBudget
<1> QED BY <1>6, <1>7, <1>8, <1>9, <1>10, <1>11, <1>12, <1>13, <1>14, <1>15, <1>16, <1>17, <1>18

LEMMA LockHolds ==
    ASSUME CacheType, LockInv, NEW w \in Processes,
           \/ TakeRepoLock(w) \/ RecordEnsured(w) \/ (\E reject \in BOOLEAN : EndBare(w, reject))
           \/ Unlock(w) \/ Measure(w)
    PROVE  Holds(w)
<1>1. CASE TakeRepoLock(w)
  <2>1. PICK place \in {"ensuring", "entering"} :
          Goto(w, place) /\ held' = [held EXCEPT ![proc[w].repo] = w]
    BY <1>1 DEF TakeRepoLock
  <2>2. place \in Inside /\ place \in Places /\ place \notin {"done", "dead"}
    BY <2>1 DEF Inside, Places
  <2>3. proc'[w].at = place /\ proc'[w].repo = proc[w].repo
    BY <2>1, <2>2, GotoIs
  <2>4. proc[w].repo \in Repos
    BY <1>1 DEF TakeRepoLock, LockInv, Busy
  <2> QED BY <2>1, <2>2, <2>3, <2>4 DEF Holds
<1>2. CASE RecordEnsured(w) \/ (\E reject \in BOOLEAN : EndBare(w, reject)) \/ Unlock(w)
  <2>1. held' = [held EXCEPT ![proc[w].repo] = NoProcess] /\ Busy(w)
    BY <1>2 DEF RecordEnsured, EndBare, Unlock, Busy
  <2> QED BY <2>1 DEF Holds, LockInv
<1>3. CASE Measure(w)
  <2>1. held' = held /\ proc[w].at \notin Inside
    BY <1>3 DEF Measure, Inside
  <2> QED BY <2>1 DEF Holds
<1> QED BY <1>1, <1>2, <1>3

LEMMA StepHolds ==
    ASSUME CacheType, LockInv, NEW w \in Processes, CacheStep(w) PROVE Holds(w)
BY QuietHolds, LockHolds DEF CacheStep

LEMMA StepHolders ==
    ASSUME CacheType, HolderInv, NEW w \in Processes, Moves(w), Holds(w) PROVE HolderInv'
<1>1. held \in [Repos -> Processes \cup {NoProcess}] /\ NoProcess \notin Processes
  BY CacheAssumption DEF CacheType
<1>2. \A v \in Processes \ {w} : proc'[v] = proc[v]
  BY DEF Moves
<1> SUFFICES ASSUME NEW r \in Repos, held'[r] # NoProcess
             PROVE  /\ held'[r] \in Processes
                    /\ proc'[held'[r]].at \in Inside /\ proc'[held'[r]].repo = r
  BY DEF HolderInv
<1>3. CASE held'[r] = held[r]
  <2>1. held[r] \in Processes /\ proc[held[r]].at \in Inside /\ proc[held[r]].repo = r
    BY <1>3 DEF HolderInv
  <2>2. CASE held[r] # w
    BY <1>2, <1>3, <2>1, <2>2
  <2>3. CASE held[r] = w
    <3>1. held' # [held EXCEPT ![r] = NoProcess]
      BY <1>1
    <3> QED BY <1>3, <2>1, <2>3, <3>1 DEF Holds
  <2> QED BY <2>2, <2>3
<1>4. CASE held'[r] # held[r]
  <2>1. /\ held' = [held EXCEPT ![proc[w].repo] = w]
        /\ proc'[w].at \in Inside /\ proc'[w].repo = proc[w].repo
    BY <1>1, <1>4 DEF Holds
  <2>2. r = proc[w].repo /\ held'[r] = w
    BY <1>1, <1>4, <2>1
  <2> QED BY <2>1, <2>2
<1> QED BY <1>3, <1>4

--------------------------------------------------------------------------------
\* Sizes stay within what is explored: no section writes more than Git does.
Shrinks == \A r \in Repos : disk'[r] \in {0, disk[r]}

LEMMA StepSizes ==
    ASSUME CacheType, LockInv, SizeInv, NEW w \in Processes, CacheStep(w) PROVE SizeInv'
<1>1. disk \in [Repos -> Nat] /\ MaxSize \in Nat
  BY CacheAssumption DEF CacheType
<1>2. ASSUME Shrinks PROVE SizeInv'
  BY <1>1, <1>2 DEF Shrinks, SizeInv
<1>3. ASSUME NEW gone, disk' = Without(gone) PROVE Shrinks
  BY <1>1, <1>3 DEF Without, Shrinks
<1>4. CASE \E bytes \in CloneSizes : FinishClone(w, bytes)
  <2>1. PICK bytes \in CloneSizes : disk' = [disk EXCEPT ![proc[w].repo] = bytes]
    BY <1>4 DEF FinishClone
  <2>2. bytes \in Nat /\ bytes <= MaxSize
    BY CacheAssumption
  <2> QED BY <1>1, <2>1, <2>2 DEF SizeInv
<1>5. CASE \E more \in {0, 1}, ok \in BOOLEAN : Grow(w, more, ok)
  <2>1. PICK more \in {0, 1} : /\ disk' = [disk EXCEPT ![proc[w].repo] = @ + more]
                               /\ disk[proc[w].repo] + more <= MaxSize
    BY <1>5 DEF Grow
  <2> QED BY <1>1, <2>1 DEF SizeInv
<1>6. CASE ReserveClone(w)
  BY <1>2, <1>3, <1>6 DEF ReserveClone
<1>7. CASE BeginGrowth(w)
  <2>1. \E gone : disk' = Without(gone)
    BY <1>7 DEF BeginGrowth
  <2> QED BY <1>2, <1>3, <2>1
<1>8. ASSUME NEW r, NEW bytes, NEW ok, RecordMetadata(r, bytes, ok) PROVE Shrinks
  <2>1. \E gone : disk' = Without(gone)
    BY <1>8 DEF RecordMetadata
  <2> QED BY <1>3, <2>1
<1>9. CASE EndGrowth(w) \/ RecordEnsured(w) \/ RecordLeft(w)
  <2>1. disk' = disk \/ Shrinks
    BY <1>8, <1>9 DEF EndGrowth, RecordEnsured, RecordLeft, ForgetEntry
  <2> QED BY <1>1, <1>2, <2>1 DEF SizeInv
<1>10. CASE EnforceBudget(w)
  <2>1. disk' = disk \/ \E gone : disk' = Without(gone)
    BY <1>10 DEF EnforceBudget, EnforceTotal
  <2> QED BY <1>1, <1>2, <1>3, <2>1 DEF SizeInv
<1>11. CASE \/ TakeRepoLock(w) \/ LockTimesOut(w) \/ UseExisting(w) \/ StartClone(w)
            \/ FailClone(w) \/ SkipFetch(w) \/ (\E reject \in BOOLEAN : EndBare(w, reject))
            \/ EndScan(w) \/ Unlock(w) \/ Measure(w)
  <2>1. disk' = disk
    BY <1>11 DEF TakeRepoLock, LockTimesOut, UseExisting, StartClone, FailClone, ForgetEntry,
       SkipFetch, EndBare, EndScan, Unlock, Measure
  <2> QED BY <2>1 DEF SizeInv
<1> QED BY <1>4, <1>5, <1>6, <1>7, <1>9, <1>10, <1>11 DEF CacheStep

LEMMA StepMoves ==
    ASSUME CacheType, LockInv, MoveInv, NEW w \in Processes, CacheStep(w), UNCHANGED poolVars
    PROVE  MoveInv'
<1>1. Moves(w)
  BY StepEffects DEF Effect
<1>2. HolderInv'
  BY <1>1, StepHolds, StepHolders DEF MoveInv
<1>3. SizeInv'
  BY StepSizes DEF MoveInv
<1>4. FutureInv'
  BY <1>1 DEF MoveInv, FutureInv, InFlight, poolVars, Moves
<1> QED BY <1>2, <1>3, <1>4 DEF MoveInv

--------------------------------------------------------------------------------
\* The coordinator takes no lock, and gives no task to a process that has one.

\* A step that leaves processes and locks in place, and at most forgets futures.
LEMMA StandingMoves ==
    ASSUME CacheType, PoolType, MoveInv, UNCHANGED <<disk, held>>,
           \A w \in Processes : proc'[w].at = proc[w].at /\ proc'[w].repo = proc[w].repo,
           \A t \in Repos : future'[t] \in {future[t], NoProcess}
    PROVE  MoveInv'
<1>1. HolderInv'
  BY DEF MoveInv, HolderInv
<1>2. FutureInv'
  BY CacheAssumption DEF MoveInv, FutureInv, InFlight
<1>3. SizeInv'
  BY DEF MoveInv, SizeInv
<1> QED BY <1>1, <1>2, <1>3 DEF MoveInv

LEMMA StandingSteps ==
    ASSUME CacheType, PoolType, MoveInv,
           \/ UNCHANGED scanVars
           \/ (\E t \in Repos : CollectBroken(t)) \/ NoticeDeadline
           \/ (\E t \in Repos, opened \in BOOLEAN : SubmitRaises(t, opened))
           \/ NextPhase \/ ReturnStopped \/ CoordinatorDies \/ RunDeadline
           \/ \E w \in Processes : Terminate(w) \/ RepoTimeout(w)
    PROVE  MoveInv'
<1>1. proc \in [Processes -> Procs] /\ future \in [Repos -> Processes \cup {NoProcess}]
  BY DEF CacheType, PoolType
<1>2. UNCHANGED <<disk, held>>
  BY DEF scanVars, cacheVars, CollectBroken, NoticeDeadline, SubmitRaises, NextPhase,
     ReturnStopped, CoordinatorDies, RunDeadline, Terminate, RepoTimeout, DeadlinePasses
<1>3. \A t \in Repos : future'[t] \in {future[t], NoProcess}
  <2>1. CASE \E t \in Repos : CollectBroken(t)
    BY <1>1, <2>1 DEF CollectBroken
  <2>2. CASE CoordinatorDies
    BY <2>2 DEF CoordinatorDies
  <2>3. CASE ~(\E t \in Repos : CollectBroken(t)) /\ ~CoordinatorDies
    <3>1. future' = future
      BY <2>3 DEF scanVars, poolVars, NoticeDeadline, SubmitRaises, NextPhase, ReturnStopped,
         RunDeadline, Terminate, RepoTimeout
    <3> QED BY <3>1
  <2> QED BY <2>1, <2>2, <2>3
<1>4. \A w \in Processes : proc'[w].at = proc[w].at /\ proc'[w].repo = proc[w].repo
  <2>1. CASE RunDeadline
    <3>1. \A w \in Processes : \E late : proc'[w] = [proc[w] EXCEPT !.late = late]
      BY <2>1 DEF RunDeadline
    <3> QED BY <1>1, <3>1 DEF Procs
  <2>2. CASE \E w \in Processes : Terminate(w) \/ RepoTimeout(w)
    <3>1. PICK w \in Processes : DeadlinePasses(w)
      BY <2>2 DEF Terminate, RepoTimeout
    <3>2. proc' = [proc EXCEPT ![w] = [proc[w] EXCEPT !.late = TRUE]]
      BY <1>1, <3>1 DEF DeadlinePasses
    <3> QED BY <1>1, <3>2 DEF Procs
  <2>3. CASE ~RunDeadline /\ ~(\E w \in Processes : Terminate(w) \/ RepoTimeout(w))
    <3>1. proc' = proc
      BY <2>3 DEF scanVars, cacheVars, CollectBroken, NoticeDeadline, SubmitRaises, NextPhase,
         ReturnStopped, CoordinatorDies
    <3> QED BY <3>1
  <2> QED BY <2>1, <2>2, <2>3
<1> QED BY <1>2, <1>3, <1>4, StandingMoves

\* A process that holds nothing is given a task, or rests.
LEMMA IdleMoves ==
    ASSUME CacheType, PoolType, TaskInv, MoveInv,
           \/ \E t \in Repos, w \in Processes : Submit(t, w)
           \/ \E t \in Repos, status \in Outcomes : Collect(t, status) \/ CollectRaises(t, status)
    PROVE  MoveInv'
<1>1. /\ proc \in [Processes -> Procs] /\ future \in [Repos -> Processes \cup {NoProcess}]
      /\ NoProcess \notin Processes
  BY CacheAssumption DEF CacheType, PoolType
<1>0. PICK t \in Repos, w \in Processes : \E p :
        /\ UNCHANGED <<disk, held>> /\ proc' = [proc EXCEPT ![w] = p] /\ proc[w].at \notin Inside
        /\ \/ future' = [future EXCEPT ![t] = w] /\ p.at = "waiting"
           \/ future' = [future EXCEPT ![t] = NoProcess] /\ future[t] = w
  <2>1. CASE \E t \in Repos, w \in Processes : Submit(t, w)
    <3>1. PICK t \in Repos, w \in Processes : Submit(t, w)
      BY <2>1
    <3>2. PICK stage : proc' = [proc EXCEPT ![w] = [proc[w] EXCEPT !.at = "waiting", !.repo = t,
                                                                   !.stage = stage]]
      BY <3>1 DEF Submit, StartScan
    <3> DEFINE p == [proc[w] EXCEPT !.at = "waiting", !.repo = t, !.stage = stage]
    <3>3. p.at = "waiting"
      BY <1>1 DEF Procs
    <3>4. proc[w].at \notin Inside /\ UNCHANGED <<disk, held>>
      BY <3>1 DEF Submit, StartScan, Inside
    <3>5. future' = [future EXCEPT ![t] = w]
      BY <3>1 DEF Submit
    <3> HIDE DEF p
    <3> QED BY <3>2, <3>3, <3>4, <3>5 DEF p
  <2>2. CASE \E t \in Repos, status \in Outcomes : Collect(t, status) \/ CollectRaises(t, status)
    <3>1. PICK t \in Repos, status \in Outcomes : Collected(t, status)
      BY <2>2 DEF Collect, CollectRaises
    <3>2. future[t] \in Processes
      BY <1>1, <3>1 DEF Collected
    <3>3. proc[future[t]].at \notin Inside
      BY <3>1 DEF Collected, Inside
    <3>4. /\ UNCHANGED <<disk, held>> /\ proc' = [proc EXCEPT ![future[t]] = Rest("idle")]
          /\ future' = [future EXCEPT ![t] = NoProcess]
      BY <3>1 DEF Collected, RecordOutcomePriority
    <3> QED BY <3>2, <3>3, <3>4
  <2> QED BY <2>1, <2>2
<1>2. PICK p :
        /\ UNCHANGED <<disk, held>> /\ proc' = [proc EXCEPT ![w] = p] /\ proc[w].at \notin Inside
        /\ \/ future' = [future EXCEPT ![t] = w] /\ p.at = "waiting"
           \/ future' = [future EXCEPT ![t] = NoProcess] /\ future[t] = w
  BY <1>0
<1>3. proc'[w] = p /\ \A v \in Processes \ {w} : proc'[v] = proc[v]
  BY <1>1, <1>2
<1>4. HolderInv'
  <2>1. \A r \in Repos : held[r] # NoProcess =>
           held[r] \in Processes /\ held[r] # w /\ proc[held[r]].at \in Inside
           /\ proc[held[r]].repo = r
    BY <1>2 DEF MoveInv, HolderInv
  <2> QED BY <1>2, <1>3, <2>1 DEF HolderInv
<1>5. FutureInv'
  <2> SUFFICES ASSUME NEW u \in Repos, future'[u] # NoProcess
               PROVE  future'[u] \in Processes /\ proc'[future'[u]].at # "idle"
    BY DEF FutureInv, InFlight
  <2>1. \A x \in Repos : future[x] # NoProcess =>
           future[x] \in Processes /\ proc[future[x]].at # "idle"
    BY DEF MoveInv, FutureInv, InFlight
  <2>2. CASE future' = [future EXCEPT ![t] = w] /\ p.at = "waiting"
    <3>1. CASE u = t
      BY <1>1, <1>3, <2>2, <3>1
    <3>2. CASE u # t
      BY <1>1, <1>3, <2>1, <2>2, <3>2
    <3> QED BY <3>1, <3>2
  <2>3. CASE future' = [future EXCEPT ![t] = NoProcess] /\ future[t] = w
    <3>1. u # t /\ future'[u] = future[u]
      BY <1>1, <2>3
    <3>2. future[u] # w
      BY <1>1, <2>3, <3>1 DEF TaskInv, InFlight
    <3> QED BY <1>3, <2>1, <3>1, <3>2
  <2> QED BY <1>2, <2>2, <2>3
<1>6. SizeInv'
  BY <1>2 DEF MoveInv, SizeInv
<1> QED BY <1>4, <1>5, <1>6 DEF MoveInv

\* A process that dies leaves nothing locked.
LEMMA KillMoves ==
    ASSUME CacheType, PoolType, MoveInv, NEW w \in Processes, Kill(w),
           \A t \in Repos : future'[t] \in {future[t], NoProcess}
    PROVE  MoveInv'
<1>1. /\ Goto(w, "dead") /\ disk' = disk
      /\ held' = [r \in Repos |-> IF held[r] = w THEN NoProcess ELSE held[r]]
  BY DEF Kill
<1>2. proc'[w].at = "dead" /\ \A v \in Processes \ {w} : proc'[v] = proc[v]
  BY <1>1, GotoIs DEF Places
<1>3. HolderInv'
  BY <1>1, <1>2 DEF MoveInv, HolderInv
<1>4. FutureInv'
  <2>1. \A x \in Repos : future[x] # NoProcess =>
           future[x] \in Processes /\ proc[future[x]].at # "idle"
    BY DEF MoveInv, FutureInv, InFlight
  <2> QED BY <1>2, <2>1 DEF FutureInv, InFlight
<1>5. SizeInv'
  BY <1>1 DEF MoveInv, SizeInv
<1> QED BY <1>3, <1>4, <1>5 DEF MoveInv

LEMMA DyingMoves ==
    ASSUME CacheType, PoolType, MoveInv,
           \/ \E t \in Repos : Reap(t)
           \/ \E w \in Processes : OrphanExits(w) \/ WorkerDies(w)
    PROVE  MoveInv'
<1>1. CASE \E w \in Processes : OrphanExits(w) \/ WorkerDies(w)
  <2>1. PICK w \in Processes : Kill(w) /\ future' = future
    BY <1>1 DEF OrphanExits, WorkerDies, poolVars
  <2> QED BY <2>1, KillMoves
<1>2. CASE \E t \in Repos : Reap(t)
  <2>1. PICK t \in Repos : Reap(t)
    BY <1>2
  <2>2. future[t] \in Processes /\ \A u \in Repos : future'[u] \in {future[u], NoProcess}
    BY <2>1 DEF Reap, PoolType
  <2>3. CASE proc[future[t]].at = "dead"
    BY <2>1, <2>2, <2>3, StandingMoves DEF Reap, cacheVars
  <2>4. CASE proc[future[t]].at # "dead"
    BY <2>1, <2>2, <2>4, KillMoves DEF Reap
  <2> QED BY <2>3, <2>4
<1> QED BY <1>1, <1>2

LEMMA BeginMoves == ASSUME CacheType, TaskInv, MoveInv, BeginPool PROVE MoveInv'
<1>1. /\ InFlight = {} /\ UNCHANGED <<held, future>>
      /\ proc' = [w \in Processes |-> IF proc[w].at = "dead" THEN Rest("idle") ELSE proc[w]]
  BY DEF BeginPool, ReconcileAccounting, TaskInv, Dispatched
<1>2. HolderInv'
  <2>1. \A w \in Processes : proc[w].at \in Inside => proc'[w] = proc[w]
    BY <1>1 DEF Inside
  <2> QED BY <1>1, <2>1 DEF MoveInv, HolderInv
<1>3. FutureInv'
  BY <1>1 DEF FutureInv, InFlight
<1>4. SizeInv'
  <2>1. disk \in [Repos -> Nat] /\ MaxSize \in Nat
    BY CacheAssumption DEF CacheType
  <2>2. \A r \in Repos : disk'[r] \in {0, disk[r]}
    BY DEF BeginPool, ReconcileAccounting
  <2> QED BY <2>1, <2>2 DEF MoveInv, SizeInv
<1> QED BY <1>2, <1>3, <1>4 DEF MoveInv

LEMMA EnforceMoves == ASSUME CacheType, MoveInv, EnforceAtStart PROVE MoveInv'
<1>1. UNCHANGED <<held, proc, future>>
  BY DEF EnforceAtStart
<1>2. SizeInv'
  <2>1. disk \in [Repos -> Nat] /\ MaxSize \in Nat
    BY CacheAssumption DEF CacheType
  <2>2. disk' = disk \/ \E gone : disk' = Without(gone)
    BY DEF EnforceAtStart, EnforceTotal
  <2>3. \A r \in Repos : disk'[r] \in {0, disk[r]}
    BY <2>2 DEF Without
  <2> QED BY <2>1, <2>3 DEF MoveInv, SizeInv
<1> QED BY <1>1, <1>2 DEF MoveInv, HolderInv, FutureInv, InFlight

LEMMA MoveSteps == PoolInv /\ MoveInv /\ [PoolNext]_scanVars => MoveInv'
<1> SUFFICES ASSUME PoolInv, MoveInv, [PoolNext]_scanVars PROVE MoveInv'
  OBVIOUS
<1>1. CacheType /\ PoolType /\ LockInv /\ TaskInv
  BY DEF PoolInv
<1>2. CASE CoordinatorStep
  BY <1>1, <1>2, StandingSteps, IdleMoves, DyingMoves, EnforceMoves DEF CoordinatorStep
<1>3. CASE \E w \in Processes : ProcessStep(w)
  BY <1>1, <1>3, StepMoves, DyingMoves DEF ProcessStep
<1>4. CASE \E w \in Processes : RepoTimeout(w) \/ Terminate(w) \/ WorkerDies(w)
  BY <1>1, <1>4, StandingSteps, DyingMoves
<1>5. CASE \/ \E t \in Repos, opened \in BOOLEAN : SubmitRaises(t, opened)
           \/ \E t \in Repos, status \in Outcomes : CollectRaises(t, status)
           \/ RunDeadline \/ CoordinatorDies \/ BeginPool \/ UNCHANGED scanVars
  BY <1>1, <1>5, StandingSteps, IdleMoves, BeginMoves
<1> QED BY <1>2, <1>3, <1>4, <1>5 DEF PoolNext

LEMMA MoveStarts == PoolInit => MoveInv
<1> SUFFICES ASSUME PoolInit PROVE MoveInv
  OBVIOUS
<1>1. MaxSize \in Nat
  BY CacheAssumption
<1> QED BY <1>1 DEF PoolInit, CacheInit, MoveInv, HolderInv, FutureInv, SizeInv, InFlight

\* While a task is in flight somebody can move: a process that waits for a lock waits for one
\* that waits for nothing, and whoever needs room finds what to evict.
THEOREM SomebodyIsAlwaysReady == PoolSpec => []SomebodyIsReady
<1>1. PoolInv /\ MoveInv => SomebodyIsReady
  BY MoveIsReady DEF PoolInv, SomebodyIsReady
<1> QED BY <1>1, PoolStarts, MoveStarts, PoolStep, MoveSteps, PTL DEF PoolSpec

\* Hence a process of the pool is never blocked by the others, provided that Ready spells out
\* what ENABLED means, which is checked by the run and is beyond the prover.
THEOREM SomebodyAlwaysMoves == PoolSpec /\ []ReadyIsEnabled => []SomebodyMoves
<1>1. SomebodyIsReady /\ ReadyIsEnabled => SomebodyMoves
  BY DEF SomebodyMoves
<1> QED BY <1>1, SomebodyIsAlwaysReady, PTL

\* Two processes are never inside the lock of one repository, orphans included, and a process
\* that waits for a lock holds none: locks are exclusive and never nested.
THEOREM LocksAreExclusive ==
  PoolSpec => [](/\ \A v, w \in Processes :
                       proc[v].at \in Inside /\ proc[w].at \in Inside /\ v # w =>
                          proc[v].repo # proc[w].repo
                 /\ \A w \in Processes, r \in Repos :
                       held[r] = w => proc[w].at \in Inside /\ proc[w].repo = r)
<1>1. LockInv /\ HolderInv =>
         /\ \A v, w \in Processes :
               proc[v].at \in Inside /\ proc[w].at \in Inside /\ v # w =>
                  proc[v].repo # proc[w].repo
         /\ \A w \in Processes, r \in Repos :
               held[r] = w => proc[w].at \in Inside /\ proc[w].repo = r
  BY CacheAssumption DEF LockInv, HolderInv
<1>2. PoolInv /\ MoveInv => LockInv /\ HolderInv
  BY DEF PoolInv, MoveInv
<1> QED BY <1>1, <1>2, PoolStarts, MoveStarts, PoolStep, MoveSteps, PTL DEF PoolSpec

--------------------------------------------------------------------------------
(***************************************************************************)
(* What one scan concludes, for any trees and any number of pushes, scans  *)
(* and failures. The cache may hold anything an earlier scan left, so the  *)
(* invariant says what each stage knows for certain of the tree it reads   *)
(* (EarlyInv), that the rows it carries are those of the tree (LateInv),   *)
(* and that a boundary of an earlier result is the first use in every      *)
(* history that still contains its commit, as long as histories only share *)
(* prefixes (PrefixInv, PriorInv).                                         *)
(***************************************************************************)

Commits == [id : Nat, tree : Trees]
Classes == {"confirmed", "targeted"}
Rows == [lib : Libraries, class : Classes, paths : SUBSET Paths, first : Nat]
Boundaries == [lib : Libraries, class : Classes, paths : SUBSET Paths, head : Nat,
               commit : Nat, path : Paths]
Clones == [exists : BOOLEAN, objects : SUBSET Nat, cut : SUBSET Nat,
           blobs : SUBSET (Nat \X Paths), marker : Nat]

Early == {"ensure", "bare", "bare triage", "checkout", "hydrate", "prune", "triage", "select",
          "probe"}
Late == {"until", "history blobs", "date", "full"}
Scans == [at : Early \cup Late \cup {"idle", "complete", "done"}, line : Seq(Commits),
          cands : SUBSET Libraries, only : BOOLEAN, bare : BOOLEAN, index : SUBSET Paths,
          seen : SUBSET Paths, full : BOOLEAN, late : BOOLEAN, partial : BOOLEAN, steps : Nat,
          rows : SUBSET Rows, counted : Nat,
          status : {"none", "error", "clean_reject", "match"}]

WorkType ==
    /\ remote \in Seq(Commits) /\ remote # <<>>
    /\ pushed \in Nat /\ merged \in BOOLEAN /\ scans \in Nat
    /\ clone \in Clones /\ prior \subseteq Boundaries /\ scan \in Scans

\* Pushes number the commits: an identity is never used twice.
Numbered(line) ==
    \A i \in DOMAIN line :
        /\ line[i].id \in 1 .. pushed
        /\ \A j \in DOMAIN line : line[i].id = line[j].id => i = j

IdsInv ==
    /\ Numbered(remote) /\ Numbered(scan.line)
    /\ \A i \in DOMAIN scan.line, j \in DOMAIN remote :
         scan.line[i].id = remote[j].id => scan.line[i] = remote[j]
    /\ clone.marker \in 0 .. pushed
    /\ \A b \in prior : b.commit \in 1 .. pushed

\* Without merges, histories that share a commit share everything before it.
PrefixInv ==
    ~merged => \A i \in DOMAIN scan.line, j \in DOMAIN remote :
        scan.line[i].id = remote[j].id =>
            i = j /\ \A k \in 1 .. i : scan.line[k] = remote[k]

\* The marker tells the truth: of its head, everything within the size policy is there.
MarkedIn(line) ==
    \A i \in DOMAIN line : line[i].id = clone.marker =>
        \A p \in Paths : line[i].tree[p] # "large" => <<clone.marker, p>> \in clone.blobs
MarkerInv == MarkedIn(remote) /\ MarkedIn(scan.line)

\* Nothing before the boundary's commit shows its evidence.
FirstOn(b, line) ==
    \A i \in DOMAIN line : line[i].id = b.commit =>
        \A j \in 1 .. i - 1, p \in b.paths : ~ Shows(line[j], b.lib, b.class, p)
PriorInv ==
    \A b \in prior :
        /\ b.path \in b.paths
        /\ ~merged => FirstOn(b, remote) /\ FirstOn(b, scan.line)

MatureWanted == "m" \in scan.cands \/ Tree["src"] = "m"
Surface == IF scan.full THEN scan.index ELSE {"src"}

EarlyInv ==
    /\ scan.at # "idle" => scan.line # <<>>
    /\ scan.at \in Early => scan.rows = {} /\ scan.status = "none"
    /\ At("bare triage") => scan.seen = {"src"}
    /\ scan.at \in {"ensure", "bare", "bare triage", "checkout", "hydrate", "prune"} => ~scan.full
    /\ scan.at \in {"hydrate", "prune", "triage", "select", "probe"} =>
         /\ ~scan.only
         /\ scan.index = IF scan.full THEN WithinPolicy ELSE Paths
    /\ scan.at \in {"hydrate", "prune"} \/ (scan.at \in {"triage", "select", "probe"} /\ scan.full)
         => MatureWanted
    /\ At("prune") => Missing \cap WithinPolicy = {}
    /\ At("select") /\ ~scan.late => scan.seen = Surface
    /\ At("probe") => scan.seen = Surface /\ ("m" \in Relevant => scan.full)

LateInv ==
    scan.at \in Late =>
        /\ ~scan.only /\ scan.status = "none"
        /\ scan.rows = FoundRows /\ scan.rows # {}
        /\ scan.at \in {"history blobs", "date"} /\ ~scan.partial => Complete

Evident(row) ==
    \E i \in DOMAIN scan.line, p \in row.paths :
        /\ scan.line[i].id = row.first
        /\ Shows(scan.line[i], row.lib, row.class, p)

DatedInv ==
    At("complete") =>
        /\ scan.status = "none"
        /\ \A row \in scan.rows : Evident(row)
        /\ scan.only <=> scan.rows = {}
        /\ ~merged /\ ~scan.only => scan.rows = ExpectedRows

StageInv == EarlyInv /\ LateInv /\ DatedInv /\ ResultIsProven /\ VerdictIsReproducible

WorkInv == WorkType /\ IdsInv /\ PrefixInv /\ MarkerInv /\ PriorInv /\ StageInv

--------------------------------------------------------------------------------
(* Dates. *)

LEMMA FewPaths == Paths = {"src", "doc"} /\ Libraries = {"d", "m"}
BY DEF Paths, Libraries

\* A set of positions has a first one.
LEMMA LeastPosition ==
    ASSUME NEW n \in Nat, NEW H, H \subseteq 1 .. n, H # {}
    PROVE  Min(H) \in H /\ \A j \in H : Min(H) <= j
<1> DEFINE T == {1 .. k : k \in H}
<1>1. IsFiniteSet(1 .. n)
  BY FS_Interval
<1>2. T \subseteq SUBSET (1 .. n)
  <2>1. \A k \in H : k \in 1 .. n
    OBVIOUS
  <2>2. \A k \in 1 .. n : 1 .. k \subseteq 1 .. n
    OBVIOUS
  <2> QED BY <2>1, <2>2
<1>3. T # {}
  OBVIOUS
<1>6. \E A \in T : \A B \in T : B \subseteq A => B = A
  <2> DEFINE S == 1 .. n
  <2>1. IsFiniteSet(S) /\ T \subseteq SUBSET S /\ T # {}
    BY <1>1, <1>2, <1>3
  <2> HIDE DEF S, T
  <2> QED BY ONLY <2>1, Smallest
<1>7. PICK A \in T : \A B \in T : B \subseteq A => B = A
  BY <1>6
<1>4. PICK k \in H : A = 1 .. k
  OBVIOUS
<1>5. \A j \in H : k <= j
  <2>1. SUFFICES ASSUME NEW j \in H, j < k PROVE FALSE
    OBVIOUS
  <2>2. 1 .. j \in T /\ 1 .. j \subseteq 1 .. k
    BY <2>1
  <2>3. 1 .. j = 1 .. k
    BY <2>2, <1>7, <1>4
  <2>4. k \in 1 .. k /\ k \notin 1 .. j
    BY <2>1
  <2> QED BY <2>3, <2>4
<1> QED BY <1>5 DEF Min

\* And a last one.
LEMMA GreatestPosition ==
    ASSUME NEW n \in Nat, NEW H, H \subseteq 1 .. n, H # {}
    PROVE  Max(H) \in H
<1> DEFINE G == {n + 1 - k : k \in H}
<1>0. \A k \in H : k \in 1 .. n
  OBVIOUS
<1>1. \A g : g \in G <=> \E k \in H : g = n + 1 - k
  OBVIOUS
<1>2. \A k \in H : n + 1 - k \in G
  BY <1>1
<1> HIDE DEF G
<1>3. G \subseteq 1 .. n /\ G # {}
  <2>1. \A k \in 1 .. n : n + 1 - k \in 1 .. n
    OBVIOUS
  <2>2. G \subseteq 1 .. n
    BY <1>0, <1>1, <2>1
  <2>3. \E k : k \in H
    OBVIOUS
  <2> QED BY <1>2, <2>2, <2>3
<1>4. Min(G) \in G /\ \A j \in G : Min(G) <= j
  BY <1>3, LeastPosition
<1>5. PICK k \in H : Min(G) = n + 1 - k
  BY <1>1, <1>4
<1>6. \A j \in H : k >= j
  <2>1. TAKE j \in H
  <2>2. n + 1 - k <= n + 1 - j
    BY <1>2, <1>4, <1>5
  <2> QED BY <1>0, <2>2
<1> QED BY <1>6 DEF Max

LEMMA VisibleIsThere ==
    ASSUME NEW S, NEW line \in Seq(S), NEW cut
    PROVE  Visible(line, cut) \subseteq DOMAIN line
<1> DEFINE cuts == {i \in DOMAIN line : line[i].id \in cut}
<1>1. Len(line) \in Nat /\ DOMAIN line = 1 .. Len(line) /\ cuts \subseteq 1 .. Len(line)
  OBVIOUS
<1>2. CASE cuts = {}
  BY <1>2 DEF Visible
<1>3. CASE cuts # {}
  <2>1. Max(cuts) \in 1 .. Len(line)
    BY <1>1, <1>3, GreatestPosition
  <2>2. Visible(line, cut) = Max(cuts) .. Len(line)
    BY <1>3 DEF Visible
  <2>3. Max(cuts) .. Len(line) \subseteq 1 .. Len(line)
    <3> DEFINE top == Max(cuts)
    <3>1. top \in 1 .. Len(line) /\ Len(line) \in Nat
      BY <1>1, <2>1
    <3> HIDE DEF top
    <3>2. top .. Len(line) \subseteq 1 .. Len(line)
      BY ONLY <3>1
    <3> QED BY <3>2 DEF top
  <2> QED BY <1>1, <2>2, <2>3
<1> QED BY <1>2, <1>3

\* The date of a row is the first commit in sight with its evidence, if there is one.
LEMMA FirstInFinds ==
    ASSUME NEW n \in Nat, NEW line, NEW range, range \subseteq 1 .. n, NEW row,
           \E i \in range : \E p \in row.paths : Shows(line[i], row.lib, row.class, p)
    PROVE  \E i \in range :
              /\ FirstIn(range, line, row) = line[i].id
              /\ \E p \in row.paths : Shows(line[i], row.lib, row.class, p)
              /\ \A j \in range : j < i =>
                    \A p \in row.paths : ~ Shows(line[j], row.lib, row.class, p)
<1> DEFINE hits == {i \in range : \E p \in row.paths : Shows(line[i], row.lib, row.class, p)}
<1>1. hits \subseteq 1 .. n /\ hits # {}
  OBVIOUS
<1>2. Min(hits) \in hits /\ \A j \in hits : Min(hits) <= j
  BY <1>1, LeastPosition
<1>3. FirstIn(range, line, row) = line[Min(hits)].id
  BY <1>1 DEF FirstIn
<1>4. \A j \in range : j < Min(hits) => j \notin hits
  BY <1>1, <1>2
<1>5. Min(hits) \in range /\ \E p \in row.paths : Shows(line[Min(hits)], row.lib, row.class, p)
  BY <1>2
<1> QED BY <1>3, <1>4, <1>5

\* Conversely, a commit with evidence and none before it is the date.
LEMMA FirstInIs ==
    ASSUME NEW n \in Nat, NEW line, NEW row, NEW i \in 1 .. n,
           \E p \in row.paths : Shows(line[i], row.lib, row.class, p),
           \A j \in 1 .. i - 1 : \A p \in row.paths : ~ Shows(line[j], row.lib, row.class, p)
    PROVE  FirstIn(1 .. n, line, row) = line[i].id
<1>1. PICK k \in 1 .. n :
         /\ FirstIn(1 .. n, line, row) = line[k].id
         /\ \E p \in row.paths : Shows(line[k], row.lib, row.class, p)
         /\ \A j \in 1 .. n : j < k =>
               \A p \in row.paths : ~ Shows(line[j], row.lib, row.class, p)
  BY FirstInFinds
<1>2. ~ (i < k) /\ ~ (k < i)
  BY <1>1
<1> QED BY <1>1, <1>2

LEMMA LineIs ==
    ASSUME WorkType, scan.line # <<>>
    PROVE  /\ DOMAIN scan.line = 1 .. Len(scan.line) /\ Len(scan.line) \in Nat \ {0}
           /\ Len(scan.line) \in DOMAIN scan.line /\ Tip = scan.line[Len(scan.line)]
           /\ Tip.tree = Tree /\ Tip \in Commits /\ Tree \in [Paths -> Contents]
           /\ Tree["src"] # "large" /\ Tip.id \in Nat
<1>1. scan.line \in Seq(Commits)
  BY DEF WorkType, Scans
<1>2. Tip \in Commits /\ Tip = scan.line[Len(scan.line)] /\ Len(scan.line) \in DOMAIN scan.line
  BY <1>1 DEF Tip, Last
<1>3. Tree \in Trees
  BY <1>2 DEF Tree, Commits
<1> QED BY <1>1, <1>2, <1>3, WorkerAssumption DEF Tree, Commits

\* What a scan looks for in the end is to be seen in the head itself.
LEMMA TipShows ==
    ASSUME WorkType, scan.line # <<>>, NEW row \in FoundRows
    PROVE  /\ row \in Rows
           /\ \E p \in row.paths : Shows(scan.line[Len(scan.line)], row.lib, row.class, p)
<1>1. Tip = scan.line[Len(scan.line)] /\ Tree = Tip.tree /\ Tree \in [Paths -> Contents]
  BY LineIs
<1>2. CASE row = Row("d", "confirmed", {"src"}) /\ Tree["src"] = "d"
  BY <1>1, <1>2, FewPaths DEF Row, Rows, Classes, Shows
<1>3. CASE row = Row("d", "targeted", {"src"}) /\ Tree["src"] = "hint"
  BY <1>1, <1>3, FewPaths DEF Row, Rows, Classes, Shows
<1>4. CASE /\ row = Row("m", "targeted", {p \in {"src", "doc"} : Tree[p] = "m"})
           /\ Tree["src"] = "m" \/ Tree["doc"] = "m"
  BY <1>1, <1>4, FewPaths DEF Row, Rows, Classes, Shows
<1> QED BY <1>2, <1>3, <1>4 DEF FoundRows
--------------------------------------------------------------------------------
(* What a step leaves as it was. *)

LEMMA SameTree ==
    ASSUME scan'.line = scan.line, scan'.cands = scan.cands
    PROVE  /\ Tip' = Tip /\ Tree' = Tree /\ WithinPolicy' = WithinPolicy
           /\ FoundRows' = FoundRows /\ ExpectedRows' = ExpectedRows
           /\ MatureWanted' = MatureWanted
<1>1. Tip' = Tip /\ Tree' = Tree
  BY DEF Tip, Tree
<1>2. FoundRows' = FoundRows
  BY <1>1 DEF FoundRows
<1> QED BY <1>1, <1>2 DEF WithinPolicy, ExpectedRows, MatureWanted

LEMMA SameScan ==
    ASSUME scan' = scan, clone' = clone
    PROVE  /\ Surface' = Surface /\ Relevant' = Relevant /\ Missing' = Missing
           /\ Complete' = Complete /\ \A row : Evident(row)' <=> Evident(row)
<1>1. Tip' = Tip /\ Tree' = Tree
  BY SameTree
<1> QED BY <1>1 DEF Surface, Relevant, Named, Missing, Complete, Evident

\* A push, forced or not: of the earlier commits it keeps some, and unless it merges, a prefix.
LEMMA RemoteMoves ==
    ASSUME WorkInv, remote' \in Seq(Commits), remote' # <<>>, pushed' \in Nat, pushed' >= pushed,
           merged' \in BOOLEAN, merged => merged', UNCHANGED <<clone, prior, scan, scans>>,
           Numbered(remote)',
           \A j \in DOMAIN remote' :
              remote'[j].id > pushed \/ \E k \in DOMAIN remote : remote'[j] = remote[k],
           ~merged' => \A j \in DOMAIN remote' :
              \/ remote'[j].id > pushed
              \/ j \in DOMAIN remote /\ \A k \in 1 .. j : remote'[k] = remote[k]
    PROVE  WorkInv'
<1> USE DEF WorkInv
<1>0. /\ DOMAIN remote = 1 .. Len(remote) /\ Len(remote) \in Nat
      /\ DOMAIN remote' = 1 .. Len(remote') /\ Len(remote') \in Nat
      /\ scan' = scan /\ clone' = clone /\ prior' = prior /\ pushed \in Nat
      /\ clone.marker \in Nat
  BY DEF WorkType, Clones
<1>1. WorkType'
  BY <1>0 DEF WorkType
<1>2. IdsInv'
  <2>1. Numbered(scan.line)' /\ (clone.marker \in 0 .. pushed)'
        /\ (\A b \in prior : b.commit \in 1 .. pushed)'
    BY <1>0 DEF IdsInv, Numbered
  <2>2. ASSUME NEW i \in DOMAIN scan.line, NEW j \in DOMAIN remote', scan.line[i].id = remote'[j].id
        PROVE  scan.line[i] = remote'[j]
    <3>1. scan.line[i].id \in 1 .. pushed
      BY DEF IdsInv, Numbered
    <3>2. PICK k \in DOMAIN remote : remote'[j] = remote[k]
      BY <2>2, <3>1, <1>0
    <3> QED BY <2>2, <3>2 DEF IdsInv
  <2> QED BY <2>1, <2>2, <1>0 DEF IdsInv
<1>3. PrefixInv'
  <2>1. SUFFICES ASSUME ~merged', NEW i \in DOMAIN scan.line, NEW j \in DOMAIN remote',
                        scan.line[i].id = remote'[j].id
                 PROVE  i = j /\ \A k \in 1 .. i : scan.line[k] = remote'[k]
    BY <1>0 DEF PrefixInv
  <2>2. scan.line[i].id \in 1 .. pushed
    BY DEF IdsInv, Numbered
  <2>3. j \in DOMAIN remote /\ \A k \in 1 .. j : remote'[k] = remote[k]
    BY <2>1, <2>2, <1>0
  <2>4. remote'[j] = remote[j]
    BY <2>3, <1>0
  <2>5. i = j /\ \A k \in 1 .. i : scan.line[k] = remote[k]
    BY <2>1, <2>3, <2>4 DEF PrefixInv
  <2> QED BY <2>3, <2>5
<1>4. MarkerInv'
  <2>1. ASSUME NEW j \in DOMAIN remote', remote'[j].id = clone.marker, NEW p \in Paths,
               remote'[j].tree[p] # "large"
        PROVE  <<clone.marker, p>> \in clone.blobs
    <3>1. remote'[j].id \in Nat /\ clone.marker \in 0 .. pushed
      BY <1>0, <2>1 DEF IdsInv
    <3>2. PICK k \in DOMAIN remote : remote'[j] = remote[k]
      BY <2>1, <3>1, <1>0
    <3> QED BY <2>1, <3>2 DEF MarkerInv, MarkedIn
  <2> QED BY <2>1, <1>0 DEF MarkerInv, MarkedIn
<1>5. PriorInv'
  <2>1. ASSUME NEW b \in prior, ~merged', NEW i \in DOMAIN remote', remote'[i].id = b.commit,
               NEW j \in 1 .. i - 1, NEW p \in b.paths
        PROVE  ~ Shows(remote'[j], b.lib, b.class, p)
    <3>1. b.commit \in 1 .. pushed
      BY DEF IdsInv
    <3>2. i \in DOMAIN remote /\ \A k \in 1 .. i : remote'[k] = remote[k]
      BY <2>1, <3>1, <1>0
    <3>3. remote[i].id = b.commit /\ remote'[j] = remote[j]
      BY <2>1, <3>2, <1>0
    <3> QED BY <2>1, <3>2, <3>3 DEF PriorInv, FirstOn
  <2>2. ASSUME NEW b \in prior, ~merged'
        PROVE  FirstOn(b, remote')
    BY <2>1, <2>2 DEF FirstOn
  <2> QED BY <2>2, <1>0 DEF PriorInv, FirstOn
<1>6. StageInv'
  <2>1. /\ Tip' = Tip /\ Tree' = Tree /\ WithinPolicy' = WithinPolicy /\ FoundRows' = FoundRows
        /\ ExpectedRows' = ExpectedRows /\ MatureWanted' = MatureWanted
    BY <1>0, SameTree
  <2>2. /\ Surface' = Surface /\ Relevant' = Relevant /\ Missing' = Missing
        /\ Complete' = Complete /\ \A row : Evident(row)' <=> Evident(row)
    BY <1>0, SameScan
  <2>3. ~merged' => ~merged
    OBVIOUS
  <2>4. EarlyInv'
    BY ONLY <1>0, <2>1, <2>2, WorkInv DEF StageInv, EarlyInv, At, WorkInv
  <2>5. LateInv'
    BY ONLY <1>0, <2>1, <2>2, WorkInv DEF StageInv, LateInv, WorkInv
  <2>6. DatedInv'
    BY ONLY <1>0, <2>1, <2>2, <2>3, WorkInv DEF StageInv, DatedInv, At, WorkInv
  <2>7. ResultIsProven'
    BY ONLY <1>0, WorkInv DEF StageInv, ResultIsProven, At, WorkInv
  <2>8. VerdictIsReproducible'
    BY ONLY <1>0, <2>1, <2>3, WorkInv DEF StageInv, VerdictIsReproducible, At, WorkInv
  <2> QED BY <2>4, <2>5, <2>6, <2>7, <2>8 DEF StageInv
<1> QED BY <1>1, <1>2, <1>3, <1>4, <1>5, <1>6

\* A step of a scan: the public repository and the boundaries stand.
LEMMA ScanMoves ==
    ASSUME WorkInv, UNCHANGED <<remote, pushed, merged, prior>>, scans' \in Nat,
           clone' \in Clones, scan' \in Scans, scan'.line \in {scan.line, <<>>},
           clone'.marker \in 0 .. pushed, MarkerInv', StageInv'
    PROVE  WorkInv'
<1> USE DEF WorkInv
<1>1. WorkType'
  BY DEF WorkType
<1>2. IdsInv'
  BY DEF IdsInv, Numbered
<1>3. PrefixInv'
  BY DEF PrefixInv
<1>4. PriorInv'
  <2>1. \A b : FirstOn(b, scan'.line) \/ scan'.line = scan.line
    BY DEF FirstOn
  <2> QED BY <2>1 DEF PriorInv, FirstOn
<1> QED BY <1>1, <1>2, <1>3, <1>4

\* One that fetches nothing and stays with its head.
LEMMA ScanThinks ==
    ASSUME WorkInv, UNCHANGED <<remote, pushed, merged, clone, prior, scans>>, scan' \in Scans,
           scan'.line = scan.line, StageInv'
    PROVE  WorkInv'
<1>1. MarkerInv' /\ clone' \in Clones /\ clone'.marker \in 0 .. pushed /\ scans' \in Nat
  BY DEF WorkInv, WorkType, MarkerInv, MarkedIn, IdsInv
<1> QED BY <1>1, ScanMoves

\* Whatever ends without a verdict claims nothing.
LEMMA Ends ==
    ASSUME WorkInv, UNCHANGED <<remote, pushed, merged, prior, scans>>, clone' \in Clones,
           clone'.marker \in 0 .. pushed, MarkerInv', End("error"), ~At("idle")
    PROVE  WorkInv'
<1>1. scan' = [scan EXCEPT !.at = "done", !.status = "error"] /\ scan \in Scans
  BY DEF End, WorkInv, WorkType
<1>2. scan' \in Scans /\ scan'.line = scan.line /\ scan'.at = "done" /\ scan'.status = "error"
  BY <1>1 DEF Scans
<1>3. scan.line # <<>> /\ scans' \in Nat
  BY DEF At, WorkInv, StageInv, EarlyInv, WorkType
<1>4. StageInv'
  BY <1>2, <1>3 DEF StageInv, EarlyInv, LateInv, DatedInv, At, ResultIsProven,
                    VerdictIsReproducible, Early, Late
<1> QED BY <1>2, <1>3, <1>4, ScanMoves
--------------------------------------------------------------------------------
(* The public repository. *)

LEMMA RemoteIs ==
    ASSUME WorkInv
    PROVE  /\ remote \in Seq(Commits) /\ Len(remote) \in Nat \ {0}
           /\ DOMAIN remote = 1 .. Len(remote) /\ pushed \in Nat /\ merged \in BOOLEAN
           /\ \A j \in 1 .. Len(remote) : remote[j].id \in 1 .. pushed /\ remote[j] \in Commits
           /\ \A i, j \in 1 .. Len(remote) : remote[i].id = remote[j].id => i = j
BY DEF WorkInv, WorkType, IdsInv, Numbered

LEMMA CommitIs ==
    ASSUME WorkInv, NEW tree \in Trees
    PROVE  Commit(tree) \in Commits /\ Commit(tree).id = pushed + 1
BY RemoteIs DEF Commit, Commits

LEMMA AppendMoves ==
    ASSUME WorkInv, NEW n \in 0 .. Len(remote), NEW tree \in Trees,
           remote' = Append(SubSeq(remote, 1, n), Commit(tree)), pushed' = pushed + 1,
           UNCHANGED <<merged, clone, prior, scan, scans>>
    PROVE  WorkInv'
<1> DEFINE old == SubSeq(remote, 1, n)
<1>1. /\ old \in Seq(Commits) /\ Len(old) = n /\ \A k \in 1 .. n : old[k] = remote[k]
  BY RemoteIs
<1>2. /\ remote' \in Seq(Commits) /\ Len(remote') = n + 1 /\ remote'[n + 1] = Commit(tree)
      /\ \A k \in 1 .. n : remote'[k] = remote[k]
  BY <1>1, CommitIs
<1>3. DOMAIN remote' = 1 .. n + 1 /\ n \in Nat /\ n <= Len(remote)
  BY <1>2, RemoteIs
<1>4. Numbered(remote)'
  <2>1. ASSUME NEW i \in 1 .. n + 1 PROVE remote'[i].id \in 1 .. pushed + 1
    BY <1>2, <1>3, RemoteIs, CommitIs
  <2>2. ASSUME NEW i \in 1 .. n + 1, NEW j \in 1 .. n + 1, remote'[i].id = remote'[j].id
        PROVE  i = j
    <3>1. CASE i = n + 1 /\ j \in 1 .. n
      BY <3>1, <2>2, <1>2, <1>3, RemoteIs, CommitIs
    <3>2. CASE j = n + 1 /\ i \in 1 .. n
      BY <3>2, <2>2, <1>2, <1>3, RemoteIs, CommitIs
    <3>3. CASE i \in 1 .. n /\ j \in 1 .. n
      BY <3>3, <2>2, <1>2, <1>3, RemoteIs
    <3> QED BY <3>1, <3>2, <3>3, <1>3
  <2> QED BY <2>1, <2>2, <1>3 DEF Numbered
<1>5. \A j \in DOMAIN remote' : \/ remote'[j].id > pushed
                                \/ j \in DOMAIN remote /\ \A k \in 1 .. j : remote'[k] = remote[k]
  BY <1>2, <1>3, RemoteIs, CommitIs
<1>6. \A j \in DOMAIN remote' :
         remote'[j].id > pushed \/ \E k \in DOMAIN remote : remote'[j] = remote[k]
  BY <1>2, <1>3, RemoteIs, CommitIs
<1>7. /\ remote' # <<>> /\ pushed' \in Nat /\ pushed' >= pushed /\ merged' \in BOOLEAN
      /\ merged => merged'
  <2>1. remote' # <<>>
    <3>1. Len(remote') # 0
      BY <1>2, <1>3
    <3> QED BY ONLY <3>1
  <2>2. pushed' \in Nat /\ pushed' >= pushed
    BY RemoteIs
  <2>3. merged' = merged
    OBVIOUS
  <2>4. merged \in BOOLEAN
    BY RemoteIs
  <2> QED BY ONLY <2>1, <2>2, <2>3, <2>4
<1> HIDE DEF old
<1> QED BY <1>2, <1>4, <1>5, <1>6, <1>7, RemoteMoves

LEMMA PushMoves ==
    ASSUME WorkInv, NEW tree \in Trees, Push(tree)
    PROVE  WorkInv'
<1>1. remote = SubSeq(remote, 1, Len(remote))
  BY RemoteIs
<1> QED BY <1>1, RemoteIs, AppendMoves DEF Push

LEMMA ForcePushMoves ==
    ASSUME WorkInv, NEW tree \in Trees, NEW i \in DOMAIN remote, ForcePush(i, tree)
    PROVE  WorkInv'
<1>1. i - 1 \in 0 .. Len(remote)
  BY RemoteIs
<1>2. remote' = Append(SubSeq(remote, 1, i - 1), Commit(tree)) /\ pushed' = pushed + 1
      /\ UNCHANGED <<merged, clone, prior, scan, scans>>
  BY DEF ForcePush
<1> QED BY <1>1, <1>2, AppendMoves

LEMMA RewindMoves ==
    ASSUME WorkInv, NEW n \in 1 .. Len(remote) - 1, Rewind(n)
    PROVE  WorkInv'
<1>1. /\ remote' \in Seq(Commits) /\ Len(remote') = n /\ DOMAIN remote' = 1 .. n
      /\ remote' # <<>> /\ n \in Nat /\ n < Len(remote)
      /\ \A k \in 1 .. n : remote'[k] = remote[k]
  <2>1. remote' = SubSeq(remote, 1, n)
    BY DEF Rewind
  <2>2. n \in Nat /\ n > 0 /\ n < Len(remote) /\ remote \in Seq(Commits) /\ Len(remote) \in Nat
    BY RemoteIs
  <2>3. /\ remote' \in Seq(Commits) /\ Len(remote') = n /\ DOMAIN remote' = 1 .. n
        /\ \A k \in 1 .. n : remote'[k] = remote[k]
    BY ONLY <2>1, <2>2
  <2> QED BY <2>2, <2>3
<1>2. pushed' = pushed + 1 /\ UNCHANGED <<merged, clone, prior, scan, scans>>
  BY DEF Rewind
<1>3. Numbered(remote)'
  BY <1>1, <1>2, RemoteIs DEF Numbered
<1> QED BY <1>1, <1>2, <1>3, RemoteIs, RemoteMoves

LEMMA MergeMoves ==
    ASSUME WorkInv, NEW tree \in Trees, NEW i \in DOMAIN remote, Merge(i, tree)
    PROVE  WorkInv'
<1> DEFINE n == Len(remote)
           mid == InsertAt(remote, i, Commit(tree))
           last == [id |-> pushed + 2, tree |-> Last(remote).tree]
<1>1. /\ i \in 1 .. n /\ n \in Nat \ {0} /\ remote \in Seq(Commits)
      /\ Commit(tree) \in Commits /\ Commit(tree).id = pushed + 1 /\ pushed \in Nat
  BY RemoteIs, CommitIs
<1>2. last \in Commits /\ last.id = pushed + 2
  BY <1>1, RemoteIs DEF Last, Commits
<1>3. /\ mid \in Seq(Commits) /\ Len(mid) = n + 1 /\ mid[i] = Commit(tree)
      /\ \A k \in 1 .. i - 1 : mid[k] = remote[k]
      /\ \A k \in i + 1 .. n + 1 : mid[k] = remote[k - 1]
  <2> DEFINE low == SubSeq(remote, 1, i - 1)
             high == SubSeq(remote, i, n)
  <2>1. /\ low \in Seq(Commits) /\ Len(low) = i - 1
        /\ \A k \in 1 .. i - 1 : low[k] = remote[k]
    BY <1>1
  <2>2. /\ high \in Seq(Commits) /\ Len(high) = n - i + 1
        /\ \A k \in 1 .. n - i + 1 : high[k] = remote[i + k - 1]
    BY <1>1
  <2> DEFINE one == low \o <<Commit(tree)>>
  <2>3. mid = one \o high
    BY <2>1, <2>2, <1>1 DEF InsertAt
  <2> HIDE DEF low, high, mid
  <2>4. /\ one \in Seq(Commits) /\ Len(one) = i /\ one[i] = Commit(tree)
        /\ \A k \in 1 .. i - 1 : one[k] = remote[k]
    BY <2>1, <1>1
  <2> HIDE DEF one
  <2>5. /\ mid \in Seq(Commits) /\ Len(mid) = n + 1
        /\ \A k \in 1 .. i : mid[k] = one[k]
        /\ \A k \in i + 1 .. n + 1 : mid[k] = high[k - i]
    <3>1. Len(one) = i /\ Len(high) = n - i + 1 /\ one \in Seq(Commits) /\ high \in Seq(Commits)
          /\ i \in Nat /\ n \in Nat
      BY ONLY <2>2, <2>4, <1>1
    <3>2. mid \in Seq(Commits)
      BY ONLY <2>3, <3>1
    <3>5. Len(mid) = n + 1
      <4>1. Len(mid) = Len(one) + Len(high)
        BY ONLY <2>3, <3>1
      <4> QED BY <3>1, <4>1
    <3>3. \A k \in 1 .. i : mid[k] = one[k]
      BY ONLY <2>3, <3>1
    <3>4. \A k \in i + 1 .. n + 1 : mid[k] = high[k - i]
      BY ONLY <2>3, <3>1
    <3> QED BY <3>2, <3>3, <3>4, <3>5
  <2>6. \A k \in i + 1 .. n + 1 : high[k - i] = remote[k - 1]
    BY <2>2, <1>1
  <2> QED BY <2>4, <2>5, <2>6, <1>1
<1>4. remote' = Append(mid, last) /\ pushed' = pushed + 2 /\ merged' = TRUE
      /\ UNCHANGED <<clone, prior, scan, scans>>
  BY DEF Merge
<1> HIDE DEF mid, last
<1>5. /\ remote' \in Seq(Commits) /\ Len(remote') = n + 2 /\ DOMAIN remote' = 1 .. n + 2
      /\ remote'[i].id = pushed + 1 /\ remote'[n + 2].id = pushed + 2
      /\ \A k \in 1 .. i - 1 : remote'[k] = remote[k]
      /\ \A k \in i + 1 .. n + 1 : remote'[k] = remote[k - 1]
  BY <1>1, <1>2, <1>3, <1>4
<1>6. Numbered(remote)'
  <2>1. ASSUME NEW j \in 1 .. n + 2 PROVE remote'[j].id \in 1 .. pushed'
    <3>0. /\ n \in Nat /\ i \in 1 .. n /\ pushed \in Nat /\ pushed' = pushed + 2
          /\ \A k \in 1 .. n : remote[k].id \in 1 .. pushed
      BY <1>1, <1>4, RemoteIs
    <3>1. CASE j \in {i, n + 2}
      BY ONLY <3>0, <3>1, <1>5
    <3>2. CASE j \in 1 .. i - 1
      <4>1. j \in 1 .. n /\ remote'[j] = remote[j]
        BY ONLY <3>0, <3>2, <1>5
      <4> QED BY ONLY <3>0, <4>1
    <3>3. CASE j \in i + 1 .. n + 1
      <4>1. j - 1 \in 1 .. n /\ remote'[j] = remote[j - 1]
        BY ONLY <3>0, <3>3, <1>5
      <4>2. remote[j - 1].id \in 1 .. pushed
        BY ONLY <3>0, <4>1
      <4> QED BY ONLY <3>0, <4>1, <4>2
    <3> QED BY ONLY <3>0, <3>1, <3>2, <3>3, <2>1
  <2>2. ASSUME NEW j \in 1 .. n + 2, NEW k \in 1 .. n + 2, j < k
        PROVE  remote'[j].id # remote'[k].id
    <3>1. ASSUME NEW x \in 1 .. n + 2, x \notin {i, n + 2}
          PROVE  /\ remote'[x].id <= pushed /\ remote'[x].id \in Nat
                 /\ x < i => x \in 1 .. n /\ remote'[x] = remote[x]
                 /\ ~(x < i) => x - 1 \in 1 .. n /\ x > i /\ remote'[x] = remote[x - 1]
      <4>1. x < i => x \in 1 .. n /\ remote'[x] = remote[x]
        BY <3>1, <1>1, <1>5
      <4>2. ~(x < i) => x - 1 \in 1 .. n /\ x > i /\ remote'[x] = remote[x - 1]
        BY <3>1, <1>1, <1>5
      <4> QED BY <4>1, <4>2, <1>1, RemoteIs
    <3>2. CASE j \in {i, n + 2} \/ k \in {i, n + 2}
      BY <3>1, <3>2, <2>2, <1>1, <1>5, RemoteIs
    <3>3. CASE j \notin {i, n + 2} /\ k \notin {i, n + 2}
      <4>1. CASE j < i /\ k < i
        BY <4>1, <3>1, <3>3, <2>2, RemoteIs
      <4>2. CASE j < i /\ ~(k < i)
        <5>1. j \in 1 .. n /\ k - 1 \in 1 .. n /\ j # k - 1
          BY <4>2, <3>1, <3>3, <1>1
        <5> QED BY <5>1, <4>2, <3>1, <3>3, RemoteIs
      <4>3. CASE ~(j < i)
        <5>1. ~(k < i) /\ j - 1 \in 1 .. n /\ k - 1 \in 1 .. n /\ j - 1 # k - 1
          BY <4>3, <3>1, <3>3, <2>2, <1>1
        <5> QED BY <5>1, <4>3, <3>1, <3>3, RemoteIs
      <4> QED BY <4>1, <4>2, <4>3
    <3> QED BY <3>2, <3>3
  <2>3. \A j, k \in 1 .. n + 2 : remote'[j].id = remote'[k].id => j = k
    BY <2>2, <1>1
  <2> QED BY <2>1, <2>3, <1>5 DEF Numbered
<1>7. \A j \in DOMAIN remote' :
         remote'[j].id > pushed \/ \E k \in DOMAIN remote : remote'[j] = remote[k]
  <2>1. TAKE j \in DOMAIN remote'
  <2>0. DOMAIN remote = 1 .. n /\ n \in Nat /\ i \in 1 .. n /\ pushed \in Nat
    BY <1>1, RemoteIs
  <2>2. CASE j \in {i, n + 2}
    BY <2>0, <2>2, <1>5
  <2>3. CASE j \in 1 .. i - 1
    <3>1. j \in 1 .. n /\ remote'[j] = remote[j]
      BY ONLY <2>0, <2>3, <1>5
    <3> QED BY ONLY <2>0, <3>1
  <2>4. CASE j \in i + 1 .. n + 1
    <3>1. j - 1 \in 1 .. n /\ remote'[j] = remote[j - 1]
      BY ONLY <2>0, <2>4, <1>5
    <3> QED BY ONLY <2>0, <3>1
  <2>5. j \in {i, n + 2} \/ j \in 1 .. i - 1 \/ j \in i + 1 .. n + 1
    BY ONLY <1>5, <2>0, <2>1
  <2> QED BY ONLY <2>2, <2>3, <2>4, <2>5
<1> QED BY <1>1, <1>4, <1>5, <1>6, <1>7, RemoteMoves
--------------------------------------------------------------------------------
(* The current tree. *)

LEMMA PlacesDiffer ==
    /\ \A at \in Early : at \notin Late /\ at \notin {"idle", "complete", "done"}
    /\ \A at \in Late : at \notin {"idle", "complete", "done"}
BY DEF Early, Late

LEMMA StaysEarly ==
    ASSUME scan'.at \in Early, EarlyInv'
    PROVE  StageInv'
BY PlacesDiffer DEF StageInv, LateInv, DatedInv, ResultIsProven, VerdictIsReproducible, At

LEMMA StaysLate ==
    ASSUME scan'.at \in Late, scan'.line # <<>>, LateInv'
    PROVE  StageInv'
BY PlacesDiffer DEF StageInv, EarlyInv, DatedInv, ResultIsProven, VerdictIsReproducible, At, Early,
                    Late

LEMMA ScanIs ==
    ASSUME WorkInv
    PROVE  /\ scan \in Scans /\ clone \in Clones /\ scans \in Nat
           /\ scans' = scans => scans' \in Nat
           /\ remote \in Seq(Commits) /\ scan.line \in Seq(Commits) /\ pushed \in Nat
           /\ EarlyInv /\ LateInv /\ DatedInv /\ ResultIsProven /\ VerdictIsReproducible
           /\ MarkerInv /\ clone.marker \in 0 .. pushed
           /\ scan.at # "idle" => scan.line # <<>>
BY DEF WorkInv, WorkType, StageInv, EarlyInv, IdsInv, Scans

LEMMA PlanMoves ==
    ASSUME WorkInv, NEW cands \in SUBSET Libraries, NEW only \in BOOLEAN, PlanScan(cands, only)
    PROVE  WorkInv'
<1>1. scan' = [Idle EXCEPT !.at = "ensure", !.line = remote, !.cands = cands, !.only = only]
      /\ UNCHANGED <<remote, pushed, merged, clone, prior>> /\ scans' = scans + 1
  BY DEF PlanScan
<1>2. /\ scan' \in Scans /\ scan'.line = remote /\ scan'.at = "ensure" /\ scan'.rows = {}
      /\ scan'.status = "none" /\ scan'.full = FALSE
  BY <1>1, ScanIs DEF Idle, Scans, Early
<1>3. WorkType'
  BY <1>1, <1>2, ScanIs DEF WorkInv, WorkType
<1>4. IdsInv' /\ PrefixInv'
  BY <1>1, <1>2, RemoteIs DEF WorkInv, IdsInv, Numbered, PrefixInv
<1>5. MarkerInv' /\ PriorInv'
  BY <1>1, <1>2 DEF WorkInv, MarkerInv, MarkedIn, PriorInv, FirstOn
<1>6. EarlyInv'
  BY <1>2, ScanIs DEF EarlyInv, At, WorkInv, WorkType
<1> QED BY <1>2, <1>3, <1>4, <1>5, <1>6, StaysEarly DEF WorkInv, Early

\* What git fetches only adds; an evicted repository starts without a marker.
LEMMA BlobsStay ==
    ASSUME WorkInv, clone' \in Clones, remote' = remote, scan'.line = scan.line,
           \/ clone'.marker = clone.marker /\ clone.blobs \subseteq clone'.blobs
           \/ clone'.marker = 0
    PROVE  MarkerInv' /\ clone'.marker \in 0 .. pushed
<1>1. clone'.marker \in 0 .. pushed
  BY ScanIs
<1>2. CASE clone'.marker = clone.marker /\ clone.blobs \subseteq clone'.blobs
  BY <1>1, <1>2, ScanIs DEF MarkerInv, MarkedIn
<1>3. CASE clone'.marker = 0
  BY <1>1, <1>3 DEF WorkInv, IdsInv, Numbered, MarkerInv, MarkedIn
<1> QED BY <1>1, <1>2, <1>3

LEMMA CloneMoves ==
    ASSUME WorkInv, Clone \/ Evict
    PROVE  WorkInv'
<1>1. UNCHANGED <<remote, pushed, merged, prior, scan, scans>> /\ scan.at \in {"idle", "ensure"}
  BY DEF Clone, Evict, At
<1>2. clone' \in Clones /\ clone'.marker = 0
  <2>1. Last(remote).id \in Nat
    BY RemoteIs DEF Last, Commits
  <2>2. CutAt(remote, Last(remote).id) \subseteq {Last(remote).id}
    BY DEF CutAt
  <2>3. CASE Clone
    <3>1. clone' = [NoClone EXCEPT !.exists = TRUE, !.objects = {Last(remote).id},
                                   !.cut = CutAt(remote, Last(remote).id)]
      BY <2>3 DEF Clone
    <3> QED BY ONLY <2>1, <2>2, <3>1 DEF NoClone, Clones
  <2>4. CASE Evict
    BY <2>4 DEF Evict, NoClone, Clones
  <2> QED BY <2>3, <2>4
<1>3. MarkerInv' /\ clone'.marker \in 0 .. pushed
  BY <1>1, <1>2, BlobsStay
<1>4. StageInv'
  <2>1. EarlyInv' /\ LateInv'
    BY <1>1, ScanIs, PlacesDiffer DEF EarlyInv, LateInv, At, Late
  <2>2. DatedInv' /\ ResultIsProven' /\ VerdictIsReproducible'
    BY <1>1 DEF DatedInv, ResultIsProven, VerdictIsReproducible, At
  <2> QED BY <2>1, <2>2 DEF StageInv
<1> QED BY <1>1, <1>2, <1>3, <1>4, ScanIs, ScanMoves

LEMMA FetchMoves ==
    ASSUME WorkInv, FetchHead
    PROVE  WorkInv'
<1>1. At("ensure") /\ UNCHANGED <<remote, pushed, merged, prior, scans>>
      /\ \E at \in {"checkout", "bare"} : scan' = [scan EXCEPT !.at = at]
  BY DEF FetchHead, Move
<1>2. /\ scan' \in Scans /\ scan'.line = scan.line /\ scan'.at \in {"checkout", "bare"}
      /\ scan'.rows = {} /\ scan'.status = "none" /\ ~scan'.full /\ scan.line # <<>>
  BY <1>1, ScanIs DEF Scans, Early, EarlyInv, At
<1>3. clone' \in Clones /\ clone'.marker = clone.marker /\ clone'.blobs = clone.blobs
  <2>1. Tip.id \in Nat /\ Ids(scan.line) \subseteq Nat
    <3>1. Tip.id \in Nat
      BY <1>2, LineIs DEF WorkInv
    <3>2. \A i \in DOMAIN scan.line : scan.line[i].id \in Nat
      <4>1. \A i \in DOMAIN scan.line : scan.line[i] \in Commits
        BY ScanIs
      <4> QED BY <4>1 DEF Commits
    <3> QED BY <3>1, <3>2 DEF Ids
  <2>2. clone \in Clones
    BY ScanIs
  <2>3. \/ clone' = clone
        \/ clone' = [clone EXCEPT !.objects = @ \cup Ids(scan.line)]
        \/ clone' = [clone EXCEPT !.objects = @ \cup {Tip.id},
                                  !.cut = @ \cup CutAt(scan.line, Tip.id)]
    BY DEF FetchHead
  <2>4. CutAt(scan.line, Tip.id) \subseteq Nat
    BY <2>1 DEF CutAt
  <2> QED BY <2>1, <2>2, <2>3, <2>4 DEF Clones
<1>4. MarkerInv' /\ clone'.marker \in 0 .. pushed
  BY <1>1, <1>2, <1>3, BlobsStay
<1>5. EarlyInv'
  BY <1>2 DEF EarlyInv, At
<1> QED BY <1>1, <1>2, <1>3, <1>4, <1>5, ScanIs, StaysEarly, ScanMoves DEF Early

LEMMA PrepareMoves ==
    ASSUME WorkInv, NEW filter \in BOOLEAN, PrepareBare(filter)
    PROVE  WorkInv'
<1>1. /\ At("bare") /\ UNCHANGED <<remote, pushed, merged, prior, scans>>
      /\ clone' = [clone EXCEPT !.blobs = @ \cup {<<Tip.id, "src">>}]
      /\ \E bare \in BOOLEAN, at \in {"bare triage", "ensure"} :
           scan' = [scan EXCEPT !.bare = bare, !.seen = {"src"}, !.at = at]
  BY DEF PrepareBare
<1>2. /\ scan' \in Scans /\ scan'.line = scan.line /\ scan'.at \in {"bare triage", "ensure"}
      /\ scan'.rows = {} /\ scan'.status = "none" /\ ~scan'.full /\ scan'.seen = {"src"}
      /\ scan.line # <<>>
  <2>1. PICK bare \in BOOLEAN, at \in {"bare triage", "ensure"} :
           scan' = [scan EXCEPT !.bare = bare, !.seen = {"src"}, !.at = at]
    BY <1>1
  <2>2. scan \in Scans /\ {"src"} \subseteq Paths /\ {"bare triage", "ensure"} \subseteq Early
    BY ScanIs, FewPaths DEF Early
  <2>3. scan' \in Scans
    BY ONLY <2>1, <2>2 DEF Scans
  <2>4. /\ scan'.line = scan.line /\ scan'.at = at /\ scan'.seen = {"src"}
        /\ scan'.rows = scan.rows /\ scan'.status = scan.status /\ scan'.full = scan.full
    BY ONLY <2>1, <2>2 DEF Scans
  <2>5. scan.rows = {} /\ scan.status = "none" /\ ~scan.full /\ scan.line # <<>>
    BY <1>1, ScanIs DEF EarlyInv, At, Early
  <2> QED BY <2>3, <2>4, <2>5
<1>3. clone' \in Clones /\ clone'.marker = clone.marker /\ clone.blobs \subseteq clone'.blobs
  <2>1. clone \in Clones /\ <<Tip.id, "src">> \in Nat \X Paths
    BY <1>2, LineIs, ScanIs, FewPaths DEF WorkInv
  <2>2. clone' = [clone EXCEPT !.blobs = @ \cup {<<Tip.id, "src">>}]
    BY <1>1
  <2> QED BY ONLY <2>1, <2>2 DEF Clones
<1>4. MarkerInv' /\ clone'.marker \in 0 .. pushed
  BY <1>1, <1>2, <1>3, BlobsStay
<1>5. EarlyInv'
  BY <1>2 DEF EarlyInv, At
<1> QED BY <1>1, <1>2, <1>3, <1>4, <1>5, ScanIs, StaysEarly, ScanMoves DEF Early
\* A scan that finds nothing says so, and rightly.
LEMMA Rejects ==
    ASSUME WorkInv, UNCHANGED <<remote, pushed, merged, clone, prior, scans>>, ~At("idle"),
           End("clean_reject"), scan.rows = {}, ~scan.only => FoundRows = {}
    PROVE  WorkInv'
<1>1. scan' = [scan EXCEPT !.at = "done", !.status = "clean_reject"] /\ scan \in Scans
  BY ScanIs DEF End
<1>2. /\ scan' \in Scans /\ scan'.line = scan.line /\ scan'.at = "done" /\ scan'.rows = {}
      /\ scan'.status = "clean_reject" /\ scan'.cands = scan.cands /\ scan'.only = scan.only
  BY ONLY <1>1, scan.rows = {} DEF Scans
<1>3. scan.line # <<>>
  BY ScanIs DEF At
<1>4. ~scan.only => ExpectedRows' = {}
  <2>1. ExpectedRows' = ExpectedRows
    BY <1>2, SameTree
  <2> QED BY <2>1 DEF ExpectedRows
<1>5. EarlyInv' /\ LateInv' /\ DatedInv' /\ ResultIsProven'
  BY <1>2, <1>3 DEF EarlyInv, LateInv, DatedInv, ResultIsProven, At, Early, Late
<1>6. VerdictIsReproducible'
  BY <1>2, <1>4 DEF VerdictIsReproducible
<1> QED BY <1>2, <1>5, <1>6, ScanThinks DEF StageInv

LEMMA BareTriageMoves ==
    ASSUME WorkInv, BareTriage
    PROVE  WorkInv'
<1>1. /\ At("bare triage") /\ UNCHANGED <<remote, pushed, merged, clone, prior, scans>>
      /\ \/ "m" \notin Relevant /\ "d" \notin Named(scan.seen) /\ End("clean_reject")
         \/ Move("ensure")
  BY DEF BareTriage
<1>2. /\ scan.rows = {} /\ scan.status = "none" /\ ~scan.full /\ scan.line # <<>>
      /\ scan.seen = {"src"} /\ ~At("idle")
  BY <1>1, ScanIs DEF EarlyInv, At, Early
<1>3. CASE "m" \notin Relevant /\ "d" \notin Named(scan.seen) /\ End("clean_reject")
  <2>1. "m" \notin scan.cands /\ Tree["src"] \notin {"m", "large", "d", "hint"}
    BY <1>2, <1>3 DEF Relevant, Named
  <2>2. FoundRows = {}
    <3>1. Tree["src"] # "m" /\ Tree["src"] # "d" /\ Tree["src"] # "hint"
      BY <2>1
    <3> QED BY ONLY <2>1, <3>1 DEF FoundRows
  <2> QED BY <1>1, <1>2, <1>3, <2>2, Rejects
<1>4. CASE Move("ensure")
  <2>1. scan' = [scan EXCEPT !.at = "ensure"] /\ scan \in Scans /\ "ensure" \in Early
    BY <1>4, ScanIs DEF Move, Early
  <2>2. /\ scan' \in Scans /\ scan'.line = scan.line /\ scan'.at = "ensure"
        /\ scan'.rows = scan.rows /\ scan'.status = scan.status /\ scan'.full = scan.full
    BY ONLY <2>1 DEF Scans
  <2>3. EarlyInv'
    BY <2>2, <1>2 DEF EarlyInv, At
  <2> QED BY <1>1, <2>1, <2>2, <2>3, StaysEarly, ScanThinks
<1> QED BY <1>1, <1>3, <1>4

LEMMA CheckoutMoves ==
    ASSUME WorkInv, Checkout
    PROVE  WorkInv'
<1>1. /\ At("checkout") /\ UNCHANGED <<remote, pushed, merged, prior, scans>>
      /\ clone' = [clone EXCEPT !.blobs = @ \cup {<<Tip.id, "src">>}]
      /\ scan' = [scan EXCEPT !.index = Paths,
                    !.at = IF scan.only THEN "complete" ELSE IF Initial THEN "hydrate" ELSE "triage"]
  BY DEF Checkout
<1>2. scan.rows = {} /\ scan.status = "none" /\ ~scan.full /\ scan.line # <<>>
  BY <1>1, ScanIs DEF EarlyInv, At, Early
<1>3. PICK at \in {"complete", "hydrate", "triage"} :
        /\ scan' = [scan EXCEPT !.index = Paths, !.at = at]
        /\ scan.only <=> at = "complete"
        /\ at = "hydrate" => "m" \in scan.cands
  BY <1>1 DEF Initial
<1>4. /\ scan' \in Scans /\ scan'.line = scan.line /\ scan'.at = at /\ scan'.rows = {}
      /\ scan'.status = "none" /\ ~scan'.full /\ scan'.index = Paths
      /\ scan'.only = scan.only /\ scan'.cands = scan.cands
  <2>1. scan \in Scans /\ at \in Early \cup {"complete"}
    BY ScanIs, <1>3 DEF Early
  <2> QED BY ONLY <1>2, <1>3, <2>1 DEF Scans
<1>5. clone' \in Clones /\ clone'.marker = clone.marker /\ clone.blobs \subseteq clone'.blobs
  <2>1. clone \in Clones /\ <<Tip.id, "src">> \in Nat \X Paths
    BY <1>2, LineIs, ScanIs, FewPaths DEF WorkInv
  <2> QED BY ONLY <1>1, <2>1 DEF Clones
<1>6. MarkerInv' /\ clone'.marker \in 0 .. pushed
  BY <1>1, <1>4, <1>5, BlobsStay
<1>7. CASE at = "complete"
  <2>1. StageInv'
    BY <1>2, <1>3, <1>4, <1>7 DEF StageInv, EarlyInv, LateInv, DatedInv, ResultIsProven,
                                  VerdictIsReproducible, At, Early, Late
  <2> QED BY <1>1, <1>4, <1>5, <1>6, <2>1, ScanIs, ScanMoves
<1>8. CASE at \in {"hydrate", "triage"}
  <2>1. EarlyInv'
    BY <1>2, <1>3, <1>4, <1>8 DEF EarlyInv, MatureWanted, At
  <2> QED BY <1>1, <1>4, <1>5, <1>6, <1>8, <2>1, ScanIs, StaysEarly, ScanMoves DEF Early
<1> QED BY <1>7, <1>8

\* The refetch sets the marker only after everything within the policy is there.
LEMMA HydrateMoves ==
    ASSUME WorkInv, NEW ok \in BOOLEAN, HydrateTree(ok)
    PROVE  WorkInv'
<1>1. /\ At("hydrate") /\ UNCHANGED <<remote, pushed, merged, prior, scans>>
      /\ \/ ok /\ Move("prune")
         \/ ~ok /\ End("error")
  BY DEF HydrateTree
<1>2. /\ scan.rows = {} /\ scan.status = "none" /\ ~scan.full /\ scan.line # <<>> /\ ~scan.only
      /\ scan.index = Paths /\ MatureWanted /\ ~At("idle")
  BY <1>1, ScanIs DEF EarlyInv, At, Early
<1>3. /\ Tip = scan.line[Len(scan.line)] /\ Len(scan.line) \in DOMAIN scan.line
      /\ Tip.id \in Nat /\ Tree = Tip.tree /\ Tip.id \in 1 .. pushed
  BY <1>2, LineIs DEF WorkInv, IdsInv, Numbered
<1>4. scan'.line = scan.line
  BY <1>1, ScanIs DEF Move, End, Scans
<1>5. \/ clone' = clone /\ (ok => clone.marker = Tip.id)
      \/ clone' = [clone EXCEPT !.marker = Tip.id] /\ AllPresent
      \/ clone' = [clone EXCEPT !.marker = Tip.id,
                     !.blobs = @ \cup ({Tip.id} \X WithinPolicy),
                     !.cut = @ \cup CutAt(scan.line, Tip.id)]
  BY DEF HydrateTree
<1>6. /\ clone' \in Clones
      /\ \/ clone'.marker = clone.marker /\ clone.blobs \subseteq clone'.blobs
         \/ clone'.marker = Tip.id /\ \A p \in WithinPolicy : <<Tip.id, p>> \in clone'.blobs
      /\ ok => clone'.marker = Tip.id
  <2>1. clone \in Clones /\ CutAt(scan.line, Tip.id) \subseteq Nat /\ Tip.id \in Nat
        /\ WithinPolicy \subseteq Paths
    BY <1>3, ScanIs DEF CutAt, WithinPolicy
  <2>2. CASE clone' = clone /\ (ok => clone.marker = Tip.id)
    BY <2>1, <2>2
  <2>3. CASE clone' = [clone EXCEPT !.marker = Tip.id] /\ AllPresent
    <3>1. \A p \in WithinPolicy : <<Tip.id, p>> \in clone.blobs
      BY <2>1, <2>3 DEF AllPresent
    <3> QED BY ONLY <2>1, <2>3, <3>1 DEF Clones
  <2>4. CASE clone' = [clone EXCEPT !.marker = Tip.id,
                         !.blobs = @ \cup ({Tip.id} \X WithinPolicy),
                         !.cut = @ \cup CutAt(scan.line, Tip.id)]
    BY ONLY <2>1, <2>4 DEF Clones
  <2> QED BY <1>5, <2>2, <2>3, <2>4
<1>7. MarkerInv' /\ clone'.marker \in 0 .. pushed
  <2>1. CASE clone'.marker = clone.marker /\ clone.blobs \subseteq clone'.blobs
    BY <1>1, <1>4, <1>6, <2>1, BlobsStay
  <2>2. CASE clone'.marker = Tip.id /\ \A p \in WithinPolicy : <<Tip.id, p>> \in clone'.blobs
    <3>1. \A i \in DOMAIN scan.line : scan.line[i].id = Tip.id => scan.line[i].tree = Tree
      BY <1>3 DEF WorkInv, IdsInv, Numbered
    <3>2. \A j \in DOMAIN remote : remote[j].id = Tip.id => remote[j].tree = Tree
      BY <1>3 DEF WorkInv, IdsInv
    <3>3. \A p \in Paths : Tree[p] # "large" => p \in WithinPolicy
      BY DEF WithinPolicy
    <3> QED BY <1>1, <1>3, <1>4, <2>2, <3>1, <3>2, <3>3 DEF MarkerInv, MarkedIn
  <2> QED BY <1>6, <2>1, <2>2
<1>8. CASE ~ok /\ End("error")
  BY <1>1, <1>2, <1>6, <1>7, <1>8, Ends
<1>9. CASE ok /\ Move("prune")
  <2>1. scan' = [scan EXCEPT !.at = "prune"] /\ scan \in Scans /\ "prune" \in Early
    BY <1>9, ScanIs DEF Move, Early
  <2>2. /\ scan' \in Scans /\ scan'.line = scan.line /\ scan'.at = "prune" /\ scan'.only = scan.only
        /\ scan'.rows = scan.rows /\ scan'.status = scan.status /\ scan'.full = scan.full
        /\ scan'.index = scan.index /\ scan'.cands = scan.cands
    BY ONLY <2>1 DEF Scans
  <2>3. Tip' = Tip /\ Tree' = Tree /\ WithinPolicy' = WithinPolicy /\ MatureWanted' = MatureWanted
    BY <2>2, SameTree
  <2>4. \A p \in WithinPolicy : <<Tip.id, p>> \in clone'.blobs
    BY <1>3, <1>4, <1>6, <1>7, <1>9 DEF MarkerInv, MarkedIn, WithinPolicy
  <2>5. Missing' \cap WithinPolicy' = {}
    BY <2>3, <2>4 DEF Missing
  <2>6. EarlyInv'
    BY <2>2, <2>3, <2>5, <1>2 DEF EarlyInv, At
  <2> QED BY <1>1, <1>6, <1>7, <2>1, <2>2, <2>6, ScanIs, StaysEarly, ScanMoves
<1> QED BY <1>1, <1>8, <1>9
LEMMA PruneMoves ==
    ASSUME WorkInv, Prune
    PROVE  WorkInv'
<1>1. /\ At("prune") /\ UNCHANGED <<remote, pushed, merged, clone, prior, scans>>
      /\ scan' = [scan EXCEPT !.index = (@ \ Missing) \cap WithinPolicy, !.at = "triage", !.full = TRUE]
  BY DEF Prune
<1>2. /\ scan.rows = {} /\ scan.status = "none" /\ scan.line # <<>> /\ ~scan.only
      /\ scan.index = Paths /\ MatureWanted /\ Missing \cap WithinPolicy = {}
  BY <1>1, ScanIs DEF EarlyInv, At, Early
<1>3. (scan.index \ Missing) \cap WithinPolicy = WithinPolicy /\ WithinPolicy \subseteq Paths
  BY <1>2 DEF WithinPolicy
<1>4. /\ scan' \in Scans /\ scan'.line = scan.line /\ scan'.at = "triage" /\ scan'.only = scan.only
      /\ scan'.rows = scan.rows /\ scan'.status = scan.status /\ scan'.full
      /\ scan'.index = WithinPolicy /\ scan'.cands = scan.cands
  <2>1. scan \in Scans /\ "triage" \in Early
    BY ScanIs DEF Early
  <2> QED BY ONLY <1>1, <1>3, <2>1 DEF Scans
<1>5. WithinPolicy' = WithinPolicy /\ MatureWanted' = MatureWanted
  BY <1>4, SameTree
<1>6. EarlyInv'
  BY <1>2, <1>4, <1>5 DEF EarlyInv, At
<1> QED BY <1>1, <1>4, <1>6, StaysEarly, ScanThinks DEF Early

LEMMA TriageMoves ==
    ASSUME WorkInv, NEW skipped \in BOOLEAN, Triage(skipped)
    PROVE  WorkInv'
<1>1. /\ At("triage") /\ UNCHANGED <<remote, pushed, merged, clone, prior, scans>>
      /\ scan' = [scan EXCEPT !.at = "select", !.late = skipped,
                    !.seen = (IF scan.full THEN scan.index ELSE {"src"})
                             \ (IF skipped THEN {"src"} ELSE {})]
  BY DEF Triage
<1>2. /\ scan.rows = {} /\ scan.status = "none" /\ scan.line # <<>> /\ ~scan.only
      /\ scan.index = (IF scan.full THEN WithinPolicy ELSE Paths)
      /\ scan.full => MatureWanted
  BY <1>1, ScanIs DEF EarlyInv, At, Early
<1>3. /\ scan' \in Scans /\ scan'.line = scan.line /\ scan'.at = "select" /\ scan'.only = scan.only
      /\ scan'.rows = scan.rows /\ scan'.status = scan.status /\ scan'.full = scan.full
      /\ scan'.index = scan.index /\ scan'.cands = scan.cands
      /\ ~scan'.late => scan'.seen = (IF scan.full THEN scan.index ELSE {"src"})
  <2>1. scan \in Scans /\ "select" \in Early /\ {"src"} \subseteq Paths
    BY ScanIs, FewPaths DEF Early
  <2> QED BY ONLY <1>1, <2>1 DEF Scans
<1>4. WithinPolicy' = WithinPolicy /\ MatureWanted' = MatureWanted
  BY <1>3, SameTree
<1>5. EarlyInv'
  BY <1>2, <1>3, <1>4 DEF EarlyInv, At, Surface
<1> QED BY <1>1, <1>3, <1>5, StaysEarly, ScanThinks DEF Early

LEMMA SelectMoves ==
    ASSUME WorkInv, Select
    PROVE  WorkInv'
<1>1. /\ At("select") /\ UNCHANGED <<remote, pushed, merged, clone, prior, scans>>
      /\ IF scan.late THEN End("error")
         ELSE Move(IF "m" \in Relevant /\ ~scan.full THEN "hydrate" ELSE "probe")
  BY DEF Select
<1>2. /\ scan.rows = {} /\ scan.status = "none" /\ scan.line # <<>> /\ ~scan.only /\ ~At("idle")
      /\ scan.index = (IF scan.full THEN WithinPolicy ELSE Paths)
      /\ scan.full => MatureWanted
      /\ ~scan.late => scan.seen = Surface
      /\ scan \in Scans
  BY <1>1, ScanIs DEF EarlyInv, At, Early
<1>3. CASE scan.late
  <2>1. clone' \in Clones /\ clone'.marker \in 0 .. pushed /\ MarkerInv'
    <3>1. scan'.line = scan.line
      BY <1>1, <1>2, <1>3 DEF End, Scans
    <3> QED BY <1>1, <3>1, ScanIs DEF MarkerInv, MarkedIn
  <2> QED BY <1>1, <1>2, <1>3, <2>1, Ends
<1>4. ASSUME ~scan.late, NEW at \in {"hydrate", "probe"}, Move(at),
             at = "hydrate" <=> "m" \in Relevant /\ ~scan.full
      PROVE  WorkInv'
  <2>1. scan' = [scan EXCEPT !.at = at] /\ at \in Early
    BY <1>4 DEF Move, Early
  <2>2. /\ scan' \in Scans /\ scan'.line = scan.line /\ scan'.at = at /\ scan'.only = scan.only
        /\ scan'.rows = scan.rows /\ scan'.status = scan.status /\ scan'.full = scan.full
        /\ scan'.index = scan.index /\ scan'.cands = scan.cands /\ scan'.seen = scan.seen
    BY ONLY <2>1, <1>2 DEF Scans
  <2>3. WithinPolicy' = WithinPolicy /\ MatureWanted' = MatureWanted /\ Tree' = Tree
    BY <2>2, SameTree
  <2>4. Relevant' = Relevant /\ Surface' = Surface
    BY <2>2, <2>3 DEF Relevant, Named, Surface
  <2>5. at = "hydrate" => MatureWanted
    <3>1. ASSUME at = "hydrate" PROVE MatureWanted
      <4>1. scan.seen = {"src"} /\ "m" \in Relevant
        BY <1>2, <1>4, <3>1 DEF Surface
      <4>2. Tree["src"] # "large"
        BY <1>2, LineIs DEF WorkInv
      <4> QED BY <4>1, <4>2 DEF Relevant, Named, MatureWanted
    <3> QED BY <3>1
  <2>6. EarlyInv'
    BY <1>2, <1>4, <2>2, <2>3, <2>4, <2>5 DEF EarlyInv, At
  <2> QED BY <1>1, <2>1, <2>2, <2>6, StaysEarly, ScanThinks
<1> QED BY <1>1, <1>3, <1>4

\* What is found is what there is to find.
LEMMA PositivesAreFound ==
    ASSUME WorkInv, At("probe"), ~ \E row \in Positives : "src" \in row.paths /\ Tree["src"] = "lfs"
    PROVE  Positives = FoundRows
<1>1. /\ scan.line # <<>> /\ scan.seen = Surface /\ ("m" \in Relevant => scan.full)
      /\ scan.index = (IF scan.full THEN WithinPolicy ELSE Paths)
      /\ scan.full => MatureWanted
  BY ScanIs DEF EarlyInv, At
<1>2. Tree["src"] # "large" /\ Tree \in [Paths -> Contents]
  BY <1>1, LineIs DEF WorkInv
<1>3. "src" \in scan.seen
  BY <1>1, <1>2, FewPaths DEF Surface, WithinPolicy
<1>4. Tree["src"] # "lfs"
  <2>1. SUFFICES ASSUME Tree["src"] = "lfs" PROVE FALSE
    OBVIOUS
  <2>2. Row("d", "confirmed", {"src"}) \in Positives
    BY <1>3, <2>1 DEF Positives
  <2>3. "src" \in Row("d", "confirmed", {"src"}).paths
    BY DEF Row
  <2> QED BY <2>1, <2>2, <2>3
<1>5. "m" \in Relevant <=> MatureWanted
  <2>1. ASSUME MatureWanted PROVE "m" \in Relevant
    BY <1>3, <2>1 DEF MatureWanted, Relevant, Named
  <2> QED BY <1>1, <2>1
<1>6. "m" \in Relevant => {p \in scan.index : Tree[p] \in {"m", "large"}}
                            = {p \in {"src", "doc"} : Tree[p] = "m"}
  BY <1>1, FewPaths DEF WithinPolicy
<1>7. Positives =
        (IF Tree["src"] = "d" THEN {Row("d", "confirmed", {"src"})} ELSE {}) \cup
        (IF Tree["src"] = "hint" THEN {Row("d", "targeted", {"src"})} ELSE {}) \cup
        (IF "m" \in Relevant /\ {p \in {"src", "doc"} : Tree[p] = "m"} # {}
         THEN {Row("m", "targeted", {p \in {"src", "doc"} : Tree[p] = "m"})} ELSE {})
  BY <1>3, <1>4, <1>6 DEF Positives
<1>8. {p \in {"src", "doc"} : Tree[p] = "m"} # {} <=> Tree["src"] = "m" \/ Tree["doc"] = "m"
  OBVIOUS
<1> QED BY <1>5, <1>7, <1>8 DEF FoundRows, MatureWanted

LEMMA ProbeMoves ==
    ASSUME WorkInv, NEW ok \in BOOLEAN, Probe(ok)
    PROVE  WorkInv'
<1>1. At("probe") /\ UNCHANGED <<remote, pushed, merged, clone, prior, scans>>
  BY DEF Probe
<1>2. /\ scan.rows = {} /\ scan.status = "none" /\ scan.line # <<>> /\ ~scan.only /\ ~At("idle")
      /\ scan \in Scans
  BY <1>1, ScanIs DEF EarlyInv, At, Early
<1> DEFINE lfs == \E row \in Positives : "src" \in row.paths /\ Tree["src"] = "lfs"
<1>3. \/ End("error")
      \/ ~lfs /\ Positives = {} /\ End("clean_reject")
      \/ ~lfs /\ Positives # {} /\ scan' = [scan EXCEPT !.rows = Positives, !.at = "until", !.steps = 0]
  BY DEF Probe, End
<1>4. CASE End("error")
  <2>1. clone' \in Clones /\ clone'.marker \in 0 .. pushed /\ MarkerInv'
    <3>1. scan'.line = scan.line
      BY <1>2, <1>4 DEF End, Scans
    <3> QED BY <1>1, <3>1, ScanIs DEF MarkerInv, MarkedIn
  <2> QED BY <1>1, <1>2, <1>4, <2>1, Ends
<1>5. CASE ~lfs /\ Positives = {} /\ End("clean_reject")
  <2>1. FoundRows = {}
    BY <1>1, <1>5, PositivesAreFound
  <2> QED BY <1>1, <1>2, <1>5, <2>1, Rejects
<1>6. CASE ~lfs /\ Positives # {} /\ scan' = [scan EXCEPT !.rows = Positives, !.at = "until", !.steps = 0]
  <2>1. Positives = FoundRows
    BY <1>1, <1>6, PositivesAreFound
  <2>2. FoundRows \subseteq Rows
    BY <1>2, TipShows DEF WorkInv
  <2>3. scan' = [scan EXCEPT !.rows = FoundRows, !.at = "until", !.steps = 0] /\ "until" \in Late
    BY <1>6, <2>1 DEF Late
  <2>4. /\ scan' \in Scans /\ scan'.line = scan.line /\ scan'.at = "until" /\ scan'.only = scan.only
        /\ scan'.rows = FoundRows /\ scan'.status = scan.status /\ scan'.cands = scan.cands
    BY ONLY <1>2, <2>2, <2>3 DEF Scans
  <2>5. FoundRows' = FoundRows
    BY <2>4, SameTree
  <2>6. LateInv'
    BY <1>2, <1>6, <2>1, <2>4, <2>5 DEF LateInv
  <2> QED BY <1>1, <1>2, <2>3, <2>4, <2>6, StaysLate, ScanThinks
<1> QED BY <1>3, <1>4, <1>5, <1>6
--------------------------------------------------------------------------------
(* The history. *)

LEMMA Deepens ==
    ASSUME WorkInv, Deepen, scan.at \in {"until", "full", "complete"},
           UNCHANGED <<remote, pushed, merged, prior, scans>>
    PROVE  WorkInv'
<1>1. scan' = [scan EXCEPT !.steps = @ + 1] /\ scan \in Scans
  BY ScanIs DEF Deepen
<1>2. /\ scan' \in Scans /\ scan'.line = scan.line /\ scan'.at = scan.at /\ scan'.only = scan.only
      /\ scan'.rows = scan.rows /\ scan'.status = scan.status /\ scan'.cands = scan.cands
  BY ONLY <1>1 DEF Scans
<1>3. clone' \in Clones /\ clone'.marker = clone.marker /\ clone'.blobs = clone.blobs
  <2>1. PICK known, cut :
          /\ known \subseteq DOMAIN remote
          /\ cut = {remote[i - 1].id : i \in {j \in known : j > 2}} \ {remote[i].id : i \in known}
          /\ clone' = [clone EXCEPT
                 !.cut = (@ \ {remote[i].id : i \in known}) \cup cut,
                 !.objects = @ \cup {remote[i].id : i \in Visible(remote, cut)}]
    BY DEF Deepen
  <2>2. \A i \in DOMAIN remote : remote[i].id \in Nat
    BY RemoteIs DEF Commits
  <2>3. {remote[i].id : i \in Visible(remote, cut)} \subseteq Nat
    BY <2>2, RemoteIs, VisibleIsThere
  <2>4. cut \subseteq Nat
    <3>1. \A i \in known : i > 2 => i - 1 \in DOMAIN remote
      BY <2>1, RemoteIs
    <3> QED BY <2>1, <2>2, <3>1
  <2>5. clone \in Clones
    BY ScanIs
  <2> DEFINE less == clone.cut \ {remote[i].id : i \in known}
             more == {remote[i].id : i \in Visible(remote, cut)}
  <2>6. clone' = [clone EXCEPT !.cut = less \cup cut, !.objects = @ \cup more]
    BY <2>1
  <2>7. less \subseteq Nat
    BY <2>5 DEF Clones
  <2>8. more \subseteq Nat
    BY <2>3
  <2> HIDE DEF less, more
  <2> QED BY ONLY <2>4, <2>5, <2>6, <2>7, <2>8 DEF Clones
<1>4. MarkerInv' /\ clone'.marker \in 0 .. pushed
  BY <1>2, <1>3, BlobsStay
<1>5. scan.line # <<>>
  BY ScanIs
<1>6. /\ Tree' = Tree /\ FoundRows' = FoundRows /\ ExpectedRows' = ExpectedRows
      /\ \A row : Evident(row)' <=> Evident(row)
  <2>1. Tree' = Tree /\ FoundRows' = FoundRows /\ ExpectedRows' = ExpectedRows
    BY <1>2, SameTree
  <2> QED BY <1>2, <2>1 DEF Evident
<1>7. CASE scan.at \in {"until", "full"}
  <2>1. LateInv'
    BY <1>2, <1>6, <1>7, ScanIs DEF LateInv, Late
  <2> QED BY <1>2, <1>3, <1>4, <1>5, <1>7, <2>1, ScanIs, StaysLate, ScanMoves DEF Late
<1>8. CASE scan.at = "complete"
  <2>1. DatedInv'
    BY <1>2, <1>6, <1>8, ScanIs DEF DatedInv, At
  <2>2. EarlyInv' /\ LateInv' /\ ResultIsProven' /\ VerdictIsReproducible'
    BY <1>2, <1>5, <1>8 DEF EarlyInv, LateInv, ResultIsProven, VerdictIsReproducible, At, Early, Late
  <2> QED BY <1>2, <1>3, <1>4, <2>1, <2>2, ScanIs, ScanMoves DEF StageInv
<1> QED BY <1>7, <1>8

LEMMA HistoryMoves ==
    ASSUME WorkInv, DeepenUntil \/ DeepenFully
    PROVE  WorkInv'
BY Deepens DEF DeepenUntil, DeepenFully, At

\* The history is enough, or complete: the rows wait to be dated.
LEMMA ReachedMoves ==
    ASSUME WorkInv, HistoryReached \/ ReuseUnavailable \/ FullHistory
    PROVE  WorkInv'
<1>1. UNCHANGED <<remote, pushed, merged, clone, prior, scans>>
  BY DEF HistoryReached, ReuseUnavailable, FullHistory
<1>2. scan.at \in Late /\ scan.line # <<>> /\ scan \in Scans
  BY ScanIs DEF HistoryReached, ReuseUnavailable, FullHistory, At, Late
<1>3. PICK at \in {"history blobs", "full"}, partial \in BOOLEAN, steps \in Nat :
        /\ scan' = [scan EXCEPT !.at = at, !.partial = partial, !.steps = steps]
        /\ at = "history blobs" /\ ~partial => Complete
  <2>1. scan = [scan EXCEPT !.steps = scan.steps] /\ scan = [scan EXCEPT !.partial = scan.partial]
        /\ scan.steps \in Nat /\ scan.partial \in BOOLEAN
    BY <1>2 DEF Scans
  <2>2. CASE HistoryReached
    <3>1. scan' = [scan EXCEPT !.at = "history blobs", !.partial = ~Complete, !.steps = scan.steps]
      BY <2>2, <1>2 DEF HistoryReached, Scans
    <3>2. (~Complete) \in BOOLEAN
      BY DEF Complete
    <3> QED BY <2>1, <3>1, <3>2
  <2>3. CASE ReuseUnavailable
    <3>1. scan' = [scan EXCEPT !.at = "full", !.partial = scan.partial, !.steps = 0]
      BY <2>3, <1>2 DEF ReuseUnavailable, Scans
    <3> QED BY <2>1, <3>1
  <2>4. CASE FullHistory
    <3>1. scan' = [scan EXCEPT !.at = "history blobs", !.partial = FALSE, !.steps = scan.steps]
      BY <2>4, <1>2 DEF FullHistory, Scans
    <3> QED BY <2>1, <2>4, <3>1 DEF FullHistory
  <2> QED BY <2>2, <2>3, <2>4
<1>4. /\ scan' \in Scans /\ scan'.line = scan.line /\ scan'.at = at /\ scan'.only = scan.only
      /\ scan'.rows = scan.rows /\ scan'.status = scan.status /\ scan'.cands = scan.cands
      /\ scan'.partial = partial
  <2>1. at \in Late
    BY <1>3 DEF Late
  <2> QED BY ONLY <1>2, <1>3, <2>1 DEF Scans
<1>5. FoundRows' = FoundRows /\ Complete' = Complete
  BY <1>1, <1>4, SameTree DEF Complete
<1>6. LateInv'
  BY <1>2, <1>3, <1>4, <1>5, ScanIs DEF LateInv
<1> QED BY <1>1, <1>2, <1>3, <1>4, <1>6, StaysLate, ScanThinks DEF Late

LEMMA HydrateHistoryMoves ==
    ASSUME WorkInv, HydrateHistory
    PROVE  WorkInv'
<1>1. /\ At("history blobs") /\ UNCHANGED <<remote, pushed, merged, prior, scans>>
      /\ clone' = [clone EXCEPT !.blobs = @ \cup (Reachable \X Dated)]
      /\ scan' = [scan EXCEPT !.at = "date"]
  BY DEF HydrateHistory, Move
<1>2. scan.at \in Late /\ scan.line # <<>> /\ scan \in Scans /\ "date" \in Late
  BY <1>1, ScanIs DEF At, Late
<1>3. Reachable \subseteq Nat /\ Dated \subseteq Paths
  <2>1. \A i \in DOMAIN scan.line : scan.line[i] \in Commits
    BY ScanIs
  <2>2. \A i \in Local : scan.line[i].id \in Nat
    BY <2>1, ScanIs, VisibleIsThere DEF Local, Commits
  <2>3. \A row \in scan.rows : row.paths \subseteq Paths
    BY <1>2 DEF Scans, Rows
  <2> QED BY <2>2, <2>3 DEF Reachable, Dated
<1>4. /\ clone' \in Clones /\ clone'.marker = clone.marker /\ clone.blobs \subseteq clone'.blobs
      /\ clone'.cut = clone.cut
  <2>1. clone \in Clones
    BY ScanIs
  <2> QED BY ONLY <1>1, <1>3, <2>1 DEF Clones
<1>5. /\ scan' \in Scans /\ scan'.line = scan.line /\ scan'.at = "date" /\ scan'.only = scan.only
      /\ scan'.rows = scan.rows /\ scan'.status = scan.status /\ scan'.cands = scan.cands
      /\ scan'.partial = scan.partial
  BY ONLY <1>1, <1>2 DEF Scans
<1>6. MarkerInv' /\ clone'.marker \in 0 .. pushed
  BY <1>1, <1>4, <1>5, BlobsStay
<1>7. FoundRows' = FoundRows /\ Complete' = Complete
  BY <1>4, <1>5, SameTree DEF Complete
<1>8. LateInv'
  BY <1>1, <1>2, <1>5, <1>7, ScanIs DEF LateInv, At
<1> QED BY <1>1, <1>2, <1>4, <1>5, <1>6, <1>8, ScanIs, StaysLate, ScanMoves
--------------------------------------------------------------------------------
(* The dates. *)

\* A boundary that may be reused names a commit of the history that shows it; unless an
\* old branch was merged, none before it does.
LEMMA ReuseIsSound ==
    ASSUME WorkInv, scan.line # <<>>, NEW row, NEW b \in Reusable(row)
    PROVE  \E i \in 1 .. Len(scan.line), p \in row.paths :
              /\ scan.line[i].id = b.commit
              /\ Shows(scan.line[i], row.lib, row.class, p)
              /\ ~merged => \A j \in 1 .. i - 1 : \A q \in row.paths :
                              ~ Shows(scan.line[j], row.lib, row.class, q)
<1>1. /\ b \in prior /\ b.lib = row.lib /\ b.class = row.class /\ b.paths = row.paths
      /\ b.commit \in Reachable
      /\ Shows(scan.line[Position(scan.line, b.commit)], row.lib, row.class, b.path)
  BY DEF Reusable, Known
<1>2. DOMAIN scan.line = 1 .. Len(scan.line)
  BY LineIs DEF WorkInv
<1>3. PICK i \in DOMAIN scan.line : scan.line[i].id = b.commit
  BY <1>1, ScanIs, VisibleIsThere DEF Reachable, Local
<1>4. Position(scan.line, b.commit) = i
  BY <1>3 DEF Position, WorkInv, IdsInv, Numbered
<1>5. /\ b.path \in row.paths
      /\ ~merged => \A j \in 1 .. i - 1, q \in row.paths :
                      ~ Shows(scan.line[j], row.lib, row.class, q)
  BY <1>1, <1>3 DEF WorkInv, PriorInv, FirstOn
<1> QED BY <1>1, <1>2, <1>3, <1>4, <1>5

\* So the date of a row is what a search of all of the history would find.
LEMMA DatesAreFirst ==
    ASSUME WorkInv, scan.line # <<>>, NEW row \in FoundRows, Reusable(row) = {} => Complete
    PROVE  /\ DatedRow(row) \in Rows
           /\ \E i \in DOMAIN scan.line, p \in row.paths :
                 /\ scan.line[i].id = DatedRow(row).first
                 /\ Shows(scan.line[i], row.lib, row.class, p)
           /\ ~merged => DatedRow(row).first = FirstIn(DOMAIN scan.line, scan.line, row)
           /\ DatedRow(row) = [row EXCEPT !.first = DatedRow(row).first]
<1> DEFINE n == Len(scan.line)
           date == IF Reusable(row) # {} THEN (CHOOSE b \in Reusable(row) : TRUE).commit
                   ELSE FirstIn(Local, scan.line, row)
<1>1. /\ DOMAIN scan.line = 1 .. n /\ n \in 1 .. n /\ n \in Nat
      /\ row \in Rows
      /\ \E p \in row.paths : Shows(scan.line[n], row.lib, row.class, p)
  BY LineIs, TipShows DEF WorkInv
<1>2. DatedRow(row) = [row EXCEPT !.first = date]
  BY DEF DatedRow
<1> HIDE DEF date
<1>3. \E i \in 1 .. n, p \in row.paths :
         /\ scan.line[i].id = date
         /\ Shows(scan.line[i], row.lib, row.class, p)
         /\ ~merged => \A j \in 1 .. i - 1 : \A q \in row.paths :
                         ~ Shows(scan.line[j], row.lib, row.class, q)
  <2>1. CASE Reusable(row) # {}
    <3>1. PICK b \in Reusable(row) : date = b.commit
      BY <2>1 DEF date
    <3> QED BY <3>1, ReuseIsSound
  <2>2. CASE Reusable(row) = {}
    <3>1. Local = 1 .. n
      BY <2>2, <1>1 DEF Local, Visible, Complete
    <3>2. date = FirstIn(1 .. n, scan.line, row)
      BY <2>2, <3>1 DEF date
    <3>3. PICK i \in 1 .. n :
            /\ FirstIn(1 .. n, scan.line, row) = scan.line[i].id
            /\ \E p \in row.paths : Shows(scan.line[i], row.lib, row.class, p)
            /\ \A j \in 1 .. n : j < i =>
                  \A p \in row.paths : ~ Shows(scan.line[j], row.lib, row.class, p)
      BY <1>1, FirstInFinds
    <3>4. \A j \in 1 .. i - 1 : j \in 1 .. n /\ j < i
      BY <1>1
    <3> QED BY <3>2, <3>3, <3>4
  <2> QED BY <2>1, <2>2
<1>4. ~merged => date = FirstIn(1 .. n, scan.line, row)
  BY <1>1, <1>3, FirstInIs
<1>5. date \in Nat
  <2>1. \A i \in 1 .. n : scan.line[i] \in Commits
    BY <1>1, ScanIs
  <2> QED BY <1>3, <2>1 DEF Commits
<1>6. DatedRow(row) \in Rows /\ DatedRow(row).first = date
  BY <1>1, <1>2, <1>5 DEF Rows
<1> QED BY <1>1, <1>2, <1>3, <1>4, <1>6

LEMMA DateMoves ==
    ASSUME WorkInv, DateRows
    PROVE  WorkInv'
<1>1. /\ At("date") /\ UNCHANGED <<remote, pushed, merged, clone, prior, scans>>
      /\ scan' = [scan EXCEPT !.rows = {DatedRow(row) : row \in scan.rows},
                              !.at = "complete", !.steps = 0]
      /\ ~scan.partial \/ \A row \in scan.rows : Reusable(row) # {}
  BY DEF DateRows
<1>2. /\ scan.line # <<>> /\ scan \in Scans /\ ~scan.only /\ scan.status = "none"
      /\ scan.rows = FoundRows /\ scan.rows # {} /\ (~scan.partial => Complete)
  BY <1>1, ScanIs DEF LateInv, At, Late
<1> DEFINE dated == {DatedRow(row) : row \in FoundRows}
<1>3. \A row \in FoundRows :
         /\ DatedRow(row) \in Rows
         /\ \E i \in DOMAIN scan.line, p \in row.paths :
               /\ scan.line[i].id = DatedRow(row).first
               /\ Shows(scan.line[i], row.lib, row.class, p)
         /\ ~merged => DatedRow(row).first = FirstIn(DOMAIN scan.line, scan.line, row)
         /\ DatedRow(row) = [row EXCEPT !.first = DatedRow(row).first]
         /\ row \in Rows
  BY <1>1, <1>2, DatesAreFirst, TipShows DEF WorkInv
<1>4. /\ scan' \in Scans /\ scan'.line = scan.line /\ scan'.at = "complete"
      /\ scan'.only = scan.only /\ scan'.rows = dated /\ scan'.status = scan.status
      /\ scan'.cands = scan.cands
  <2>1. dated \subseteq Rows
    BY <1>3
  <2>2. scan' = [scan EXCEPT !.rows = dated, !.at = "complete", !.steps = 0]
    BY <1>1, <1>2
  <2> HIDE DEF dated
  <2> QED BY ONLY <1>2, <2>1, <2>2 DEF Scans
<1>5. \A row \in dated : Evident(row)'
  <2>1. TAKE row \in dated
  <2>2. PICK old \in FoundRows : row = DatedRow(old)
    OBVIOUS
  <2>3. old \in Rows /\ row = [old EXCEPT !.first = row.first]
    BY <1>3, <2>2
  <2>4. row.paths = old.paths /\ row.lib = old.lib /\ row.class = old.class
    BY ONLY <2>3 DEF Rows
  <2> QED BY <1>3, <1>4, <2>2, <2>4 DEF Evident
<1>6. ~merged => dated = ExpectedRows
  <2>1. ASSUME ~merged, NEW row \in FoundRows
        PROVE  DatedRow(row) = [row EXCEPT !.first = FirstIn(DOMAIN scan.line, scan.line, row)]
    BY <1>3, <2>1
  <2> QED BY <2>1 DEF ExpectedRows
<1>7. ExpectedRows' = ExpectedRows
  BY <1>4, SameTree
<1>8. dated # {}
  BY <1>2
<1>9. DatedInv'
  <2> HIDE DEF dated
  <2> QED BY <1>1, <1>2, <1>4, <1>5, <1>6, <1>7, <1>8 DEF DatedInv
<1>10. EarlyInv' /\ LateInv' /\ ResultIsProven' /\ VerdictIsReproducible'
  BY <1>2, <1>4 DEF EarlyInv, LateInv, ResultIsProven, VerdictIsReproducible, At, Early, Late
<1> QED BY <1>1, <1>4, <1>9, <1>10, ScanThinks DEF StageInv

LEMMA AnalyzeMoves ==
    ASSUME WorkInv, Analyze
    PROVE  WorkInv'
<1>1. /\ At("complete") /\ Complete /\ UNCHANGED <<remote, pushed, merged, clone, prior, scans>>
      /\ scan' = [scan EXCEPT !.at = "done", !.status = "match", !.counted = Cardinality(Local)]
  BY DEF Analyze
<1>2. /\ scan.line # <<>> /\ scan \in Scans /\ \A row \in scan.rows : Evident(row)
      /\ scan.only <=> scan.rows = {}
      /\ ~merged /\ ~scan.only => scan.rows = ExpectedRows
  BY <1>1, ScanIs DEF DatedInv, At
<1>3. Cardinality(Local) = Len(scan.line) /\ Len(scan.line) \in Nat
  <2>1. Local = 1 .. Len(scan.line) /\ Len(scan.line) \in Nat
    BY <1>1, <1>2, LineIs DEF WorkInv, Local, Visible, Complete
  <2> QED BY <2>1, FS_Interval
<1>4. /\ scan' \in Scans /\ scan'.line = scan.line /\ scan'.at = "done" /\ scan'.only = scan.only
      /\ scan'.rows = scan.rows /\ scan'.status = "match" /\ scan'.cands = scan.cands
      /\ scan'.counted = Len(scan.line)
  <2>1. scan' = [scan EXCEPT !.at = "done", !.status = "match", !.counted = Len(scan.line)]
    BY <1>1, <1>3
  <2> QED BY ONLY <1>2, <1>3, <2>1 DEF Scans
<1>5. ExpectedRows' = ExpectedRows
  BY <1>4, SameTree
<1>6. ResultIsProven'
  BY <1>2, <1>4 DEF ResultIsProven, Evident
<1>7. VerdictIsReproducible'
  BY <1>1, <1>2, <1>4, <1>5 DEF VerdictIsReproducible
<1>8. EarlyInv' /\ LateInv' /\ DatedInv'
  BY <1>2, <1>4 DEF EarlyInv, LateInv, DatedInv, At, Early, Late
<1> QED BY <1>1, <1>4, <1>6, <1>7, <1>8, ScanThinks DEF StageInv

LEMMA FailMoves ==
    ASSUME WorkInv, Fail
    PROVE  WorkInv'
<1>1. /\ ~At("idle") /\ End("error") /\ UNCHANGED <<remote, pushed, merged, clone, prior, scans>>
  BY DEF Fail, At
<1>2. scan'.line = scan.line
  BY <1>1, ScanIs DEF End, Scans
<1>3. clone' \in Clones /\ clone'.marker \in 0 .. pushed /\ MarkerInv'
  BY <1>1, <1>2, ScanIs DEF MarkerInv, MarkedIn
<1> QED BY <1>1, <1>3, Ends

--------------------------------------------------------------------------------
(* The boundaries of a result. *)

LEMMA BoundaryIsFirst ==
    ASSUME WorkInv, At("done"), scan.status = "match", ~scan.only, NEW row \in scan.rows
    PROVE  /\ Boundary(row) \in Boundaries
           /\ Boundary(row).path \in Boundary(row).paths
           /\ Boundary(row).commit \in 1 .. pushed
           /\ ~merged => FirstOn(Boundary(row), scan.line)
<1> DEFINE n == Len(scan.line)
           b == Boundary(row)
<1>1. /\ scan.line # <<>> /\ scan \in Scans /\ row \in Rows
      /\ ResultIsProven /\ VerdictIsReproducible
  BY ScanIs DEF At, Scans
<1>2. /\ DOMAIN scan.line = 1 .. n /\ n \in 1 .. n /\ n \in Nat
      /\ Tip.id \in Nat
  BY <1>1, LineIs DEF WorkInv
<1>3. PICK i \in DOMAIN scan.line, p \in row.paths :
        /\ scan.line[i].id = row.first
        /\ Shows(scan.line[i], row.lib, row.class, p)
  BY <1>1 DEF ResultIsProven
<1>4. Position(scan.line, row.first) = i /\ row.first \in 1 .. pushed
  BY <1>3 DEF Position, WorkInv, IdsInv, Numbered
<1>5. b = [lib |-> row.lib, class |-> row.class, paths |-> row.paths, head |-> Tip.id,
           commit |-> row.first,
           path |-> CHOOSE q \in row.paths : Shows(scan.line[i], row.lib, row.class, q)]
  BY <1>4 DEF Boundary
<1> DEFINE path == CHOOSE q \in row.paths : Shows(scan.line[i], row.lib, row.class, q)
<1>6. path \in row.paths
  BY <1>3
<1> HIDE DEF path
<1>7. /\ b.lib = row.lib /\ b.class = row.class /\ b.paths = row.paths /\ b.commit = row.first
      /\ b.path = path /\ b \in Boundaries
  <2>1. b = [lib |-> row.lib, class |-> row.class, paths |-> row.paths, head |-> Tip.id,
             commit |-> row.first, path |-> path]
    BY <1>5 DEF path
  <2> HIDE DEF b
  <2>2. /\ row.lib \in Libraries /\ row.class \in Classes /\ row.paths \in SUBSET Paths
        /\ row.first \in Nat /\ path \in Paths
    BY <1>1, <1>6 DEF Rows
  <2> QED BY ONLY <2>1, <2>2, <1>2 DEF Boundaries
<1>8. ASSUME ~merged PROVE FirstOn(b, scan.line)
  <2>1. row \in ExpectedRows
    BY <1>1, <1>8 DEF VerdictIsReproducible
  <2>2. PICK old \in FoundRows :
          row = [old EXCEPT !.first = FirstIn(DOMAIN scan.line, scan.line, old)]
    BY <2>1 DEF ExpectedRows
  <2>3. old \in Rows /\ \E q \in old.paths : Shows(scan.line[n], old.lib, old.class, q)
    BY <1>1, TipShows DEF WorkInv
  <2>4. /\ row.paths = old.paths /\ row.lib = old.lib /\ row.class = old.class
        /\ row.first = FirstIn(1 .. n, scan.line, old)
    BY <1>2, <2>2, <2>3 DEF Rows
  <2>5. PICK k \in 1 .. n :
          /\ row.first = scan.line[k].id
          /\ \A j \in 1 .. n : j < k =>
                \A q \in old.paths : ~ Shows(scan.line[j], old.lib, old.class, q)
    <3>1. \E k \in 1 .. n : \E q \in old.paths : Shows(scan.line[k], old.lib, old.class, q)
      BY <1>2, <2>3
    <3>2. \E k \in 1 .. n :
             /\ FirstIn(1 .. n, scan.line, old) = scan.line[k].id
             /\ \E q \in old.paths : Shows(scan.line[k], old.lib, old.class, q)
             /\ \A j \in 1 .. n : j < k =>
                   \A q \in old.paths : ~ Shows(scan.line[j], old.lib, old.class, q)
      <4> DEFINE range == 1 .. n
      <4>1. range \subseteq 1 .. n /\ \E k \in range :
               \E q \in old.paths : Shows(scan.line[k], old.lib, old.class, q)
        BY <3>1
      <4>3. n \in Nat
        BY <1>2
      <4> HIDE DEF range, n
      <4>2. \E k \in range :
               /\ FirstIn(range, scan.line, old) = scan.line[k].id
               /\ \E q \in old.paths : Shows(scan.line[k], old.lib, old.class, q)
               /\ \A j \in range : j < k =>
                     \A q \in old.paths : ~ Shows(scan.line[j], old.lib, old.class, q)
        BY ONLY <4>1, <4>3, FirstInFinds
      <4> QED BY <4>2 DEF range
    <3> QED BY <2>4, <3>2
  <2>6. k = i
    BY <1>2, <1>3, <2>5 DEF WorkInv, IdsInv, Numbered
  <2>7. ASSUME NEW x \in DOMAIN scan.line, scan.line[x].id = b.commit,
               NEW j \in 1 .. x - 1, NEW q \in b.paths
        PROVE  ~ Shows(scan.line[j], b.lib, b.class, q)
    <3>1. x = i
      BY <1>3, <1>7, <2>7 DEF WorkInv, IdsInv, Numbered
    <3>2. j \in 1 .. n /\ j < k
      BY <1>2, <2>6, <3>1
    <3> QED BY <1>7, <2>4, <2>5, <2>7, <3>2
  <2> QED BY <2>7 DEF FirstOn
<1> QED BY <1>4, <1>6, <1>7, <1>8

LEMMA RecordMoves ==
    ASSUME WorkInv, RecordResult
    PROVE  WorkInv'
<1>1. /\ At("done") /\ UNCHANGED <<remote, pushed, merged, clone, scans>> /\ scan' = Idle
      /\ \A b \in prior' :
            \/ b \in prior
            \/ /\ scan.status = "match" /\ ~scan.only
               /\ \E row \in scan.rows : b = Boundary(row)
  BY DEF RecordResult
<1>2. /\ scan' \in Scans /\ scan'.line = <<>> /\ scan'.at = "idle"
  BY <1>1 DEF Idle, Scans
<1>3. \A b \in prior' :
         /\ b \in Boundaries /\ b.path \in b.paths /\ b.commit \in 1 .. pushed
         /\ ~merged => FirstOn(b, remote)
  <2>1. TAKE b \in prior'
  <2>2. CASE b \in prior
    BY <2>2 DEF WorkInv, WorkType, IdsInv, PriorInv
  <2>3. ASSUME NEW row \in scan.rows, b = Boundary(row), scan.status = "match", ~scan.only
        PROVE  /\ b \in Boundaries /\ b.path \in b.paths /\ b.commit \in 1 .. pushed
               /\ ~merged => FirstOn(b, remote)
    <3>1. /\ b \in Boundaries /\ b.path \in b.paths /\ b.commit \in 1 .. pushed
          /\ ~merged => FirstOn(b, scan.line)
      BY <1>1, <2>3, BoundaryIsFirst
    <3>2. PICK i \in DOMAIN scan.line : scan.line[i].id = b.commit
      <4>1. PICK i \in DOMAIN scan.line : scan.line[i].id = row.first
        BY <1>1, <2>3, ScanIs DEF ResultIsProven
      <4>2. b.commit = row.first
        BY <2>3 DEF Boundary
      <4> QED BY <4>1, <4>2
    <3>3. ASSUME ~merged, NEW j \in DOMAIN remote, remote[j].id = b.commit,
                 NEW k \in 1 .. j - 1, NEW p \in b.paths
          PROVE  ~ Shows(remote[k], b.lib, b.class, p)
      <4>1. i = j /\ \A x \in 1 .. i : scan.line[x] = remote[x]
        BY <3>2, <3>3 DEF WorkInv, PrefixInv
      <4>2. scan.line[k] = remote[k] /\ k \in 1 .. i - 1
        <5>1. j \in Nat
          BY RemoteIs
        <5> QED BY <4>1, <5>1
      <4> QED BY <3>1, <3>2, <3>3, <4>2 DEF FirstOn
    <3> QED BY <3>1, <3>3 DEF FirstOn
  <2> QED BY <1>1, <2>2, <2>3
<1>4. WorkType'
  BY <1>1, <1>2, <1>3, ScanIs DEF WorkInv, WorkType
<1>5. IdsInv' /\ PrefixInv'
  BY <1>1, <1>2, <1>3 DEF WorkInv, IdsInv, Numbered, PrefixInv
<1>6. MarkerInv' /\ PriorInv'
  BY <1>1, <1>2, <1>3 DEF WorkInv, MarkerInv, MarkedIn, PriorInv, FirstOn
<1>7. StageInv'
  BY <1>2 DEF StageInv, EarlyInv, LateInv, DatedInv, ResultIsProven, VerdictIsReproducible, At,
              Early, Late
<1> QED BY <1>4, <1>5, <1>6, <1>7 DEF WorkInv

--------------------------------------------------------------------------------
LEMMA WorkInitially == WorkInit => WorkInv
<1> SUFFICES ASSUME WorkInit PROVE WorkInv
  OBVIOUS
<1>1. PICK tree \in Trees : remote = <<[id |-> 1, tree |-> tree]>>
  BY DEF WorkInit
<1>2. /\ pushed = 1 /\ merged = FALSE /\ clone = NoClone /\ prior = {} /\ scan = Idle /\ scans = 0
  BY DEF WorkInit
<1>3. remote \in Seq(Commits) /\ Len(remote) = 1 /\ remote[1].id = 1 /\ DOMAIN remote = {1}
      /\ remote # <<>>
  BY <1>1 DEF Commits
<1>4. scan \in Scans /\ scan.line = <<>> /\ scan.at = "idle" /\ clone \in Clones /\ clone.marker = 0
  BY <1>2 DEF Idle, Scans, NoClone, Clones
<1>5. WorkType
  BY <1>2, <1>3, <1>4 DEF WorkType
<1>6. IdsInv /\ PrefixInv /\ MarkerInv /\ PriorInv
  BY <1>2, <1>3, <1>4 DEF IdsInv, Numbered, PrefixInv, MarkerInv, MarkedIn, PriorInv
<1>7. StageInv
  BY <1>4 DEF StageInv, EarlyInv, LateInv, DatedInv, ResultIsProven, VerdictIsReproducible, At,
              Early, Late
<1> QED BY <1>5, <1>6, <1>7 DEF WorkInv

LEMMA WorkSteps == WorkInv /\ [WorkNext]_workVars => WorkInv'
<1> SUFFICES ASSUME WorkInv, [WorkNext]_workVars PROVE WorkInv'
  OBVIOUS
<1>1. ASSUME NEW tree \in Trees, Push(tree) PROVE WorkInv'
  BY <1>1, PushMoves
<1>2. ASSUME NEW tree \in Trees, NEW i \in DOMAIN remote, ForcePush(i, tree) \/ Merge(i, tree)
      PROVE  WorkInv'
  BY <1>2, ForcePushMoves, MergeMoves
<1>3. ASSUME NEW i \in 1 .. Len(remote) - 1, Rewind(i) PROVE WorkInv'
  BY <1>3, RewindMoves
<1>4. ASSUME NEW cands \in SUBSET Libraries, PlanScan(cands, FALSE) PROVE WorkInv'
  BY <1>4, PlanMoves
<1>5. CASE PlanScan({}, TRUE)
  BY <1>5, PlanMoves
<1>6. CASE Clone \/ FetchHead \/ Evict
  BY <1>6, CloneMoves, FetchMoves
<1>7. ASSUME NEW filter \in BOOLEAN, PrepareBare(filter) PROVE WorkInv'
  BY <1>7, PrepareMoves
<1>8. CASE BareTriage \/ Checkout
  BY <1>8, BareTriageMoves, CheckoutMoves
<1>9. ASSUME NEW ok \in BOOLEAN, HydrateTree(ok) PROVE WorkInv'
  BY <1>9, HydrateMoves
<1>10. CASE Prune \/ Select
  BY <1>10, PruneMoves, SelectMoves
<1>11. ASSUME NEW skipped \in BOOLEAN, Triage(skipped) PROVE WorkInv'
  BY <1>11, TriageMoves
<1>12. ASSUME NEW ok \in BOOLEAN, Probe(ok) PROVE WorkInv'
  BY <1>12, ProbeMoves
<1>13. CASE DeepenUntil \/ DeepenFully
  BY <1>13, HistoryMoves
<1>14. CASE HistoryReached \/ ReuseUnavailable \/ FullHistory
  BY <1>14, ReachedMoves
<1>15. CASE HydrateHistory \/ DateRows
  BY <1>15, HydrateHistoryMoves, DateMoves
<1>16. CASE Analyze \/ Fail \/ RecordResult
  BY <1>16, AnalyzeMoves, FailMoves, RecordMoves
<1>17. CASE UNCHANGED workVars
  <2>1. remote \in Seq(Commits) /\ remote # <<>>
    BY DEF WorkInv, WorkType
  <2> QED BY <1>17, RemoteIs, RemoteMoves DEF workVars, WorkInv, IdsInv, Numbered
<1> QED BY <1>1, <1>2, <1>3, <1>4, <1>5, <1>6, <1>7, <1>8, <1>9, <1>10, <1>11, <1>12, <1>13, <1>14,
           <1>15, <1>16, <1>17 DEF WorkNext

\* The verdict of a scan does not depend on the cache: as long as no old branch is merged,
\* it names the libraries and first uses that a scan from scratch would, for any trees,
\* histories, forced pushes, evictions, failures and earlier results.
THEOREM VerdictsAreReproducible == WorkSpec => []VerdictIsReproducible
<1>1. WorkInv => VerdictIsReproducible
  BY DEF WorkInv, StageInv
<1> QED BY <1>1, WorkInitially, WorkSteps, PTL DEF WorkSpec

\* And with merges, every dated use is one of the scanned history, and the counts are over
\* all of it.
THEOREM ResultsAreProven == WorkSpec => []ResultIsProven
<1>1. WorkInv => ResultIsProven
  BY DEF WorkInv, StageInv
<1> QED BY <1>1, WorkInitially, WorkSteps, PTL DEF WorkSpec
================================================================================
