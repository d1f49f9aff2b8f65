---------------------------- MODULE StoreProofs ----------------------------
(***************************************************************************)
(* Proofs about Store, for every set of keys, every hash function and      *)
(* every configuration: its counters, its cap and its table size; then     *)
(* about its steps: that it implements ExpiringMap, what its counters      *)
(* count, and which key the LRU policy gives up.                           *)
(***************************************************************************)
EXTENDS StoreLru, NumberLemmas, FiniteSetTheorems, TLAPS

\* The part of the inductive invariant that speaks of the table.
TableInv ==
    /\ db \in [Keys -> Entry \cup {Absent}]
    /\ liveCount \in Nat
    /\ bucketCount \in Nat \ {0}
    /\ CountExact
    /\ WithinCap
    /\ LoadBounded
    /\ PresizedNeverGrows

\* The rest: what the table's operations leave alone.
RestInv ==
    /\ cfg \in Configs
    /\ evictions \in 0 .. CounterMod - 1
    /\ expiredKeys \in 0 .. CounterMod - 1
    /\ pc \in {"idle", "scan"}
    /\ cycle \in Cycle
    /\ now \in Nat

\* No conjunct is inductive alone: the cap needs the exact count, growth needs
\* the cap, and the pool is never empty because of both.
StoreInv == TableInv /\ RestInv

-----------------------------------------------------------------------------
(* Sets of keys.                                                           *)

Occupied(f) == {k \in Keys : f[k] # Absent}

\* Every set of keys is finite, with a natural number as its size.
LEMMA KeySetsFinite ==
    ASSUME NEW S, S \subseteq Keys
    PROVE  IsFiniteSet(S) /\ Cardinality(S) \in Nat
BY FS_Subset, FS_CardinalityType, StoreAssumption

\* Table::remove of the keys R frees exactly that many slots.
LEMMA RemovedCount ==
    ASSUME NEW S, S \subseteq Keys, NEW R, R \subseteq S
    PROVE  /\ Cardinality(S \ R) = Cardinality(S) - Cardinality(R)
           /\ Cardinality(R) <= Cardinality(S)
<1>1. IsFiniteSet(S) /\ IsFiniteSet(R)
  BY KeySetsFinite
<1>2. R \subseteq S /\ S \cap R = R
  OBVIOUS
<1>3. Cardinality(R) <= Cardinality(S)
  BY <1>1, FS_Subset
<1>4. Cardinality(S \ R) = Cardinality(S) - Cardinality(S \cap R)
  BY <1>1, FS_Difference
<1> QED BY <1>2, <1>3, <1>4

\* Table::insert of an absent key adds one.
LEMMA AddedCount ==
    ASSUME NEW S, S \subseteq Keys, NEW k \in Keys, k \notin S
    PROVE  Cardinality(S \cup {k}) = Cardinality(S) + 1
BY KeySetsFinite, FS_AddElement

\* A removed set that is not empty frees at least one slot.
LEMMA NonEmptyCount ==
    ASSUME NEW R, R \subseteq Keys, R # {}
    PROVE  Cardinality(R) >= 1
BY KeySetsFinite, FS_EmptySet

\* What Without leaves behind.
LEMMA WithoutOccupied ==
    ASSUME NEW f \in [Keys -> Entry \cup {Absent}], NEW R
    PROVE  /\ Without(f, R) \in [Keys -> Entry \cup {Absent}]
           /\ Occupied(Without(f, R)) = Occupied(f) \ R
BY DEF Without, Occupied

\* What storing an entry under a key leaves behind.
LEMMA StoredOccupied ==
    ASSUME NEW f \in [Keys -> Entry \cup {Absent}], NEW k \in Keys, NEW e \in Entry
    PROVE  /\ [f EXCEPT ![k] = e] \in [Keys -> Entry \cup {Absent}]
           /\ Occupied([f EXCEPT ![k] = e]) = Occupied(f) \cup {k}
BY AbsentAssumption DEF Occupied

\* A table is built with at least one bucket, and with one for every key its cap
\* allows.
LEMMA BucketsFit ==
    ASSUME NEW c \in Configs
    PROVE  ConfiguredBuckets(c) \in Nat \ {0} /\ ConfiguredBuckets(c) >= c.maxKeys
<1> DEFINE n == IF c.maxKeys = 0 THEN c.initialBuckets ELSE Larger(c.initialBuckets, c.maxKeys)
<1>1. n \in Nat /\ c.maxKeys \in Nat /\ n >= c.maxKeys
  BY StoreAssumption DEF ConfigType, Larger
<1> HIDE DEF n
<1>2. nextPow2(n) \in Nat /\ nextPow2(n) >= n
  BY <1>1, BitCeilBound DEF nextPow2
<1>3. ConfiguredBuckets(c) = Larger(kMinBuckets, nextPow2(n))
  BY DEF ConfiguredBuckets, n
<1> QED BY <1>1, <1>2, <1>3, StoreAssumption DEF Larger

-----------------------------------------------------------------------------
(* What each table operation does to TableInv.                             *)

\* The entries the table holds, before and after a step.
LEMMA PresentIsOccupied ==
    Present = Occupied(db) /\ Present' = Occupied(db')
BY DEF Present, Occupied

\* Removing entries, on whichever path, keeps count, cap and load.
LEMMA RemoveKeepsTable ==
    ASSUME TableInv, cfg \in Configs, UNCHANGED cfg,
           NEW R, R \subseteq Present, remove(R)
    PROVE  TableInv'
<1>1. Present \subseteq Keys
  BY DEF Present
<1>2. db' \in [Keys -> Entry \cup {Absent}] /\ Present' = Present \ R
  BY WithoutOccupied, PresentIsOccupied DEF TableInv, remove
<1>3. /\ Cardinality(Present \ R) = Cardinality(Present) - Cardinality(R)
      /\ Cardinality(R) <= Cardinality(Present)
      /\ Cardinality(R) \in Nat /\ Cardinality(Present) \in Nat
  BY <1>1, RemovedCount, KeySetsFinite
<1>4. /\ liveCount' = liveCount - Cardinality(R)
      /\ bucketCount' = bucketCount
      /\ liveCount = Cardinality(Present)
  BY DEF remove, TableInv, CountExact
<1>5. liveCount' = Cardinality(Present') /\ liveCount' \in Nat /\ liveCount' <= liveCount
  BY <1>2, <1>3, <1>4
<1>6. maxKeys' = maxKeys /\ maxKeys \in Nat
  BY StoreAssumption DEF maxKeys, resolveMaxKeys, ConfigType
<1>7. ConfiguredBuckets(cfg)' = ConfiguredBuckets(cfg)
  BY DEF ConfiguredBuckets
<1>8. CountExact'
  BY <1>5 DEF CountExact
<1>9. WithinCap'
  BY <1>5, <1>6 DEF WithinCap, TableInv
<1>10. LoadBounded'
  BY <1>4, <1>5 DEF LoadBounded, TableInv
<1>11. PresizedNeverGrows'
  BY <1>4, <1>7 DEF PresizedNeverGrows, TableInv
<1> QED BY <1>2, <1>4, <1>5, <1>8, <1>9, <1>10, <1>11 DEF TableInv

\* An insert into a table with a slot below the cap finds a free block, stays
\* within the cap, and outgrows neither a presized table nor one doubling.
LEMMA InsertKeepsTable ==
    ASSUME TableInv, cfg \in Configs, UNCHANGED cfg, ConfigsFitPool,
           NEW k \in Keys, NEW e \in Entry,
           NEW R, R \subseteq Present, k \notin Present \ R,
           liveCount - Cardinality(R) < maxKeys,
           insert(k, e, R)
    PROVE  TableInv' /\ pc' = pc
<1>1. Present \subseteq Keys /\ Present \ R \subseteq Keys
  BY DEF Present
<1>2. /\ Cardinality(Present \ R) = Cardinality(Present) - Cardinality(R)
      /\ Cardinality(R) <= Cardinality(Present)
      /\ Cardinality(R) \in Nat /\ Cardinality(Present) \in Nat
      /\ Cardinality(Present \ R) \in Nat
  BY <1>1, RemovedCount, KeySetsFinite
<1>3. liveCount = Cardinality(Present) /\ liveCount \in Nat /\ bucketCount \in Nat \ {0}
  BY DEF TableInv, CountExact
<1>4. maxKeys' = maxKeys /\ maxKeys \in Nat /\ maxKeys <= PoolCapacity /\ PoolCapacity \in Nat
  BY StoreAssumption DEF maxKeys, resolveMaxKeys, ConfigType, ConfigsFitPool
<1>5. Cardinality(Present \ R) < PoolCapacity
  BY <1>2, <1>3, <1>4
<1> DEFINE n == liveCount - Cardinality(R) + 1
<1>6. /\ db' = [Without(db, R) EXCEPT ![k] = e]
      /\ liveCount' = n
      /\ bucketCount' = IF n > bucketCount THEN 2 * bucketCount ELSE bucketCount
      /\ pc' = pc
  BY <1>5 DEF insert, maybeGrow
<1>7. /\ db' \in [Keys -> Entry \cup {Absent}]
      /\ Present' = (Present \ R) \cup {k}
  <2>1. /\ Without(db, R) \in [Keys -> Entry \cup {Absent}]
        /\ Occupied(Without(db, R)) = Occupied(db) \ R
    BY WithoutOccupied DEF TableInv
  <2> QED BY <2>1, <1>6, StoredOccupied, PresentIsOccupied
<1>8. Cardinality(Present') = n
  BY <1>1, <1>2, <1>3, <1>7, AddedCount
<1>9. n \in Nat /\ n <= maxKeys /\ n <= liveCount + 1
  BY <1>2, <1>3, <1>4
<1>10. liveCount' \in Nat /\ bucketCount' \in Nat \ {0} /\ liveCount' <= bucketCount'
  <2>1. liveCount <= bucketCount
    BY DEF TableInv, LoadBounded
  <2> QED BY <1>3, <1>6, <1>9, <2>1
<1>11. cfg.maxKeys # 0 => bucketCount' = ConfiguredBuckets(cfg)
  <2> SUFFICES ASSUME cfg.maxKeys # 0
               PROVE  bucketCount' = ConfiguredBuckets(cfg)
    OBVIOUS
  <2>1. bucketCount = ConfiguredBuckets(cfg) /\ ConfiguredBuckets(cfg) >= cfg.maxKeys
    BY BucketsFit DEF TableInv, PresizedNeverGrows
  <2>2. maxKeys = cfg.maxKeys
    BY DEF maxKeys, resolveMaxKeys
  <2>3. ~(n > bucketCount)
    BY <2>1, <2>2, <1>3, <1>4, <1>9
  <2> QED BY <2>1, <2>3, <1>6
<1>12. ConfiguredBuckets(cfg)' = ConfiguredBuckets(cfg)
  BY DEF ConfiguredBuckets
<1>13. CountExact' /\ WithinCap' /\ LoadBounded' /\ PresizedNeverGrows'
  BY <1>4, <1>6, <1>8, <1>9, <1>10, <1>11, <1>12
     DEF CountExact, WithinCap, LoadBounded, PresizedNeverGrows
<1> QED BY <1>6, <1>7, <1>10, <1>13 DEF TableInv

\* Writing into an entry that is there (touch, overwrite, a new deadline) does
\* not change which keys the table holds.
LEMMA OverwriteKeepsTable ==
    ASSUME TableInv, UNCHANGED <<cfg, liveCount, bucketCount>>,
           NEW k \in Present, NEW e \in Entry, db' = [db EXCEPT ![k] = e]
    PROVE  TableInv'
<1>1. k \in Keys
  BY DEF Present
<1>2. db' \in [Keys -> Entry \cup {Absent}] /\ Present' = Present
  <2>1. db' \in [Keys -> Entry \cup {Absent}] /\ Occupied(db') = Occupied(db) \cup {k}
    BY <1>1, StoredOccupied DEF TableInv
  <2>2. Occupied(db) \cup {k} = Occupied(db)
    BY PresentIsOccupied
  <2> QED BY <2>1, <2>2, PresentIsOccupied
<1>3. maxKeys' = maxKeys /\ ConfiguredBuckets(cfg)' = ConfiguredBuckets(cfg)
  BY DEF maxKeys, resolveMaxKeys, ConfiguredBuckets
<1>4. CountExact'
  BY <1>2 DEF CountExact, TableInv
<1>5. WithinCap' /\ LoadBounded' /\ PresizedNeverGrows'
  BY <1>3 DEF WithinCap, LoadBounded, PresizedNeverGrows, TableInv
<1> QED BY <1>2, <1>4, <1>5 DEF TableInv

\* Steps that leave the table alone.
LEMMA StutterKeepsTable ==
    ASSUME TableInv, UNCHANGED <<cfg, db, liveCount, bucketCount>>
    PROVE  TableInv'
<1>1. Present' = Present /\ maxKeys' = maxKeys
      /\ ConfiguredBuckets(cfg)' = ConfiguredBuckets(cfg)
  BY DEF Present, maxKeys, resolveMaxKeys, ConfiguredBuckets
<1> QED BY <1>1 DEF TableInv, CountExact, WithinCap, LoadBounded, PresizedNeverGrows

-----------------------------------------------------------------------------
(* Counters, lookup and the sampler.                                       *)

\* A size_t counter stays one when it is advanced.
LEMMA CountedType ==
    ASSUME NEW c \in 0 .. CounterMod - 1, NEW n \in Nat
    PROVE  Counted(c, n) \in 0 .. CounterMod - 1
BY StoreAssumption DEF Counted

\* lookup removes the key itself or nothing.
LEMMA LookupRemoves ==
    ASSUME NEW k \in Keys
    PROVE  /\ lookupRemoves(k) \subseteq Present
           /\ lookupRemoves(k) \subseteq {k}
           /\ Cardinality(lookupRemoves(k)) \in Nat
           /\ ~Alive(k) => k \notin Present \ lookupRemoves(k)
<1>1. /\ lookupRemoves(k) \subseteq Present /\ lookupRemoves(k) \subseteq {k}
      /\ ~Alive(k) => k \notin Present \ lookupRemoves(k)
  BY DEF lookupRemoves, DeadAmong, Dead, Alive
<1>2. lookupRemoves(k) \subseteq Keys
  BY <1>1
<1> QED BY <1>1, <1>2, KeySetsFinite

\* evictOne always finds something to remove, among the entries there are.
LEMMA VictimsFound ==
    ASSUME NEW P, P \subseteq Present, NEW S \in sampleSome(P), NEW R \in Victims(S)
    PROVE  R # {} /\ R \subseteq P
<1>1. S # {} /\ S \subseteq P
  BY DEF sampleSome
<1>2. R # {} /\ R \subseteq S
  BY <1>1 DEF Victims, DeadAmong
<1> QED BY <1>1, <1>2

\* The lru stamp fits its 32 bits.
LEMMA LruNowType == ASSUME now \in Nat PROVE lruNow \in 0 .. LruMod - 1
BY StoreAssumption DEF lruNow

\* A lookup that misses may still remove an expired entry.
LEMMA LookupMissesKeepsTable ==
    ASSUME StoreInv, UNCHANGED cfg, NEW k \in Keys, lookupMisses(k)
    PROVE  TableInv' /\ expiredKeys' \in 0 .. CounterMod - 1
<1>1. TableInv'
  BY LookupRemoves, RemoveKeepsTable DEF lookupMisses, StoreInv, RestInv
<1>2. expiredKeys' \in 0 .. CounterMod - 1
  BY LookupRemoves, CountedType DEF lookupMisses, StoreInv, RestInv
<1> QED BY <1>1, <1>2

\* The entry of a live key is an entry.
LEMMA AliveEntry ==
    ASSUME TableInv, NEW k \in Keys, Alive(k)
    PROVE  k \in Present /\ db[k] \in Entry
BY DEF TableInv, Alive, Present
-----------------------------------------------------------------------------
(* One lemma per operation.                                                *)

\* find keeps the invariant, whether it touches, reads or reaps.
LEMMA FindStep ==
    ASSUME StoreInv, NEW k \in Keys, NEW touch \in BOOLEAN, find(k, touch)
    PROVE  StoreInv'
<1>1. UNCHANGED <<cfg, cursor, evictions, pc, cycle, now>>
  BY DEF find
<1>2. CASE Alive(k) /\ db' = (IF touch THEN [db EXCEPT ![k].lru = lruNow] ELSE db)
           /\ UNCHANGED <<liveCount, bucketCount, expiredKeys>>
  <2>1. CASE ~touch
    BY <1>1, <1>2, <2>1, StutterKeepsTable DEF StoreInv, RestInv
  <2>2. CASE touch
    <3> DEFINE e == [db[k] EXCEPT !.lru = lruNow]
    <3>1. k \in Present /\ db[k] \in Entry
      BY <1>2, AliveEntry DEF StoreInv
    <3>2. e \in Entry
      BY <3>1, LruNowType DEF Entry, StoreInv, RestInv
    <3>3. db' = [db EXCEPT ![k] = e]
      BY <1>2, <2>2
    <3> HIDE DEF e
    <3>4. TableInv'
      BY <1>1, <1>2, <3>1, <3>2, <3>3, OverwriteKeepsTable DEF StoreInv
    <3> QED BY <1>1, <1>2, <3>4 DEF StoreInv, RestInv
  <2> QED BY <2>1, <2>2
<1>3. CASE lookupMisses(k)
  BY <1>1, <1>3, LookupMissesKeepsTable DEF StoreInv, RestInv
<1> QED BY <1>2, <1>3 DEF find

\* set with a deadline already behind removes and keeps the invariant.
LEMMA SetPastStep ==
    ASSUME StoreInv, NEW k \in Keys, NEW exp, setPast(k, exp)
    PROVE  StoreInv'
<1>1. UNCHANGED <<cfg, cursor, evictions, pc, cycle, now>> /\ remove({k} \cap Present)
  BY DEF setPast
<1>2. TableInv'
  BY <1>1, RemoveKeepsTable DEF StoreInv, RestInv
<1>3. expiredKeys' \in 0 .. CounterMod - 1
  BY LookupRemoves, CountedType DEF setPast, StoreInv, RestInv
<1> QED BY <1>1, <1>2, <1>3 DEF StoreInv, RestInv

\* A deadline that is not past is one an entry may hold.
LEMMA StoredDeadline ==
    ASSUME now \in Nat, NEW exp \in Deadlines \cup {kNoExpiry, kKeepTtl}, ~Past(exp)
    PROVE  exp = kKeepTtl \/ exp \in Nat \cup {kNoExpiry}
BY StoreAssumption DEF Past, Deadlines, kNoExpiry, kKeepTtl

\* set of a live key rewrites its entry and keeps the invariant.
LEMMA SetOverwriteStep ==
    ASSUME StoreInv, NEW k \in Keys, NEW v \in Values,
           NEW exp \in Deadlines \cup {kNoExpiry, kKeepTtl}, setOverwrite(k, v, exp)
    PROVE  StoreInv'
<1> DEFINE e == [val |-> v, exp |-> IF exp = kKeepTtl THEN db[k].exp ELSE exp,
                 lru |-> lruNow]
<1>1. /\ ~Past(exp) /\ Alive(k) /\ db' = [db EXCEPT ![k] = e]
      /\ UNCHANGED <<cfg, liveCount, bucketCount, cursor, evictions, expiredKeys,
                     pc, cycle, now>>
  BY DEF setOverwrite
<1>2. k \in Present /\ db[k] \in Entry
  BY <1>1, AliveEntry DEF StoreInv
<1>3. e \in Entry
  BY <1>1, <1>2, StoredDeadline, LruNowType DEF Entry, StoreInv, RestInv
<1> HIDE DEF e
<1>4. TableInv'
  BY <1>1, <1>2, <1>3, OverwriteKeepsTable DEF StoreInv
<1> QED BY <1>1, <1>4 DEF StoreInv, RestInv

\* What set stores under a new key.
LEMMA NewEntryType ==
    ASSUME now \in Nat, NEW v \in Values,
           NEW exp \in Deadlines \cup {kNoExpiry, kKeepTtl}, ~Past(exp)
    PROVE  NewEntry(v, exp) \in Entry
BY StoredDeadline, LruNowType DEF NewEntry, Entry

\* set of a missing key below the cap inserts one entry and stays within
\* the cap, the pool and the load.
LEMMA SetInsertStep ==
    ASSUME StoreInv, ConfigsFitPool, NEW k \in Keys, NEW v \in Values,
           NEW exp \in Deadlines \cup {kNoExpiry, kKeepTtl}, setInsert(k, v, exp)
    PROVE  StoreInv'
<1>1. /\ ~Past(exp) /\ ~Alive(k) /\ ~Full(k)
      /\ insert(k, NewEntry(v, exp), lookupRemoves(k))
      /\ UNCHANGED <<cfg, cursor, evictions, cycle, now>>
  BY DEF setInsert
<1>2. liveCount - Cardinality(lookupRemoves(k)) < maxKeys
  BY <1>1, LookupRemoves, StoreAssumption
     DEF Full, StoreInv, TableInv, RestInv, maxKeys, resolveMaxKeys, ConfigType
<1>3. NewEntry(v, exp) \in Entry
  BY <1>1, NewEntryType DEF StoreInv, RestInv
<1>4. TableInv' /\ pc' = pc
  BY <1>1, <1>2, <1>3, LookupRemoves, InsertKeepsTable DEF StoreInv, RestInv
<1>5. expiredKeys' \in 0 .. CounterMod - 1
  BY LookupRemoves, CountedType DEF setInsert, StoreInv, RestInv
<1> QED BY <1>1, <1>4, <1>5 DEF StoreInv, RestInv

\* set refused at the cap stores nothing; it may still have reaped.
LEMMA SetRefusedStep ==
    ASSUME StoreInv, NEW k \in Keys, NEW exp, setRefused(k, exp)
    PROVE  StoreInv'
<1>1. UNCHANGED <<cfg, cursor, evictions, pc, cycle, now>> /\ lookupMisses(k)
  BY DEF setRefused
<1> QED BY <1>1, LookupMissesKeepsTable DEF StoreInv, RestInv

\* set at the cap: evictOne removes at least one entry, so that the insert
\* stays within the cap and finds a block.
LEMMA SetEvictsStep ==
    ASSUME StoreInv, ConfigsFitPool, NEW k \in Keys, NEW v \in Values,
           NEW exp \in Deadlines \cup {kNoExpiry, kKeepTtl}, setEvicts(k, v, exp)
    PROVE  StoreInv'
<1> DEFINE L == lookupRemoves(k)
<1>1. /\ ~Past(exp) /\ ~Alive(k) /\ UNCHANGED <<cfg, cursor, cycle, now>>
  BY DEF setEvicts
<1>0. PICK S \in sampleSome(Present \ L) : \E R \in Victims(S) :
          /\ insert(k, NewEntry(v, exp), R \cup L)
          /\ expiredKeys' = Counted(expiredKeys, Cardinality(DeadAmong(R) \cup L))
          /\ evictions' = Counted(evictions, Cardinality(R \ (DeadAmong(R) \cup L)))
  BY DEF setEvicts
<1>2. PICK R \in Victims(S) :
          /\ insert(k, NewEntry(v, exp), R \cup L)
          /\ expiredKeys' = Counted(expiredKeys, Cardinality(DeadAmong(R) \cup L))
          /\ evictions' = Counted(evictions, Cardinality(R \ (DeadAmong(R) \cup L)))
  BY <1>0
<1>3. /\ L \subseteq Present /\ Cardinality(L) \in Nat
      /\ k \notin Present \ L
  BY <1>1, LookupRemoves
<1>4. R # {} /\ R \subseteq Present \ L
  BY <1>2, VictimsFound
<1>5. Present \subseteq Keys
  BY DEF Present
<1> HIDE DEF L
<1>6. liveCount - Cardinality(R \cup L) < maxKeys
  <2>1. R \cup L # {} /\ R \cup L \subseteq Keys
    BY <1>3, <1>4, <1>5
  <2>2. Cardinality(R \cup L) >= 1 /\ Cardinality(R \cup L) \in Nat
    BY <2>1, NonEmptyCount, KeySetsFinite
  <2>3. liveCount <= maxKeys /\ liveCount \in Nat /\ maxKeys \in Nat
    BY StoreAssumption
       DEF StoreInv, TableInv, RestInv, WithinCap, maxKeys, resolveMaxKeys, ConfigType
  <2> QED BY <2>2, <2>3
<1>7. NewEntry(v, exp) \in Entry
  BY <1>1, NewEntryType DEF StoreInv, RestInv
<1>8. R \cup L \subseteq Present /\ k \notin Present \ (R \cup L)
  BY <1>3, <1>4
<1>9. TableInv' /\ pc' = pc
  BY <1>1, <1>2, <1>6, <1>7, <1>8, InsertKeepsTable DEF StoreInv, RestInv
<1>10. /\ Cardinality(DeadAmong(R) \cup L) \in Nat
       /\ Cardinality(R \ (DeadAmong(R) \cup L)) \in Nat
  <2>1. /\ DeadAmong(R) \cup L \subseteq Keys
        /\ R \ (DeadAmong(R) \cup L) \subseteq Keys
    BY <1>3, <1>4, <1>5 DEF DeadAmong
  <2> QED BY <2>1, KeySetsFinite
<1>11. expiredKeys' \in 0 .. CounterMod - 1 /\ evictions' \in 0 .. CounterMod - 1
  BY <1>2, <1>10, CountedType DEF StoreInv, RestInv
<1> QED BY <1>1, <1>9, <1>11 DEF StoreInv, RestInv

\* set keeps the invariant on each of its paths.
LEMMA SetStep ==
    ASSUME StoreInv, ConfigsFitPool, NEW k \in Keys, NEW v \in Values,
           NEW exp \in Deadlines \cup {kNoExpiry, kKeepTtl}, set(k, v, exp)
    PROVE  StoreInv'
BY SetPastStep, SetOverwriteStep, SetInsertStep, SetRefusedStep, SetEvictsStep DEF set

\* erase keeps the invariant.
LEMMA EraseStep ==
    ASSUME StoreInv, NEW k \in Keys, erase(k)
    PROVE  StoreInv'
<1>1. UNCHANGED <<cfg, cursor, evictions, pc, cycle, now>> /\ remove({k} \cap Present)
  BY DEF erase
<1>2. TableInv'
  BY <1>1, RemoveKeepsTable DEF StoreInv, RestInv
<1>3. expiredKeys' \in 0 .. CounterMod - 1
  BY LookupRemoves, CountedType DEF erase, StoreInv, RestInv
<1> QED BY <1>1, <1>2, <1>3 DEF StoreInv, RestInv

\* setExpireAt keeps the invariant: miss, removal, or a new deadline.
LEMMA SetExpireAtStep ==
    ASSUME StoreInv, NEW k \in Keys, NEW exp \in Deadlines, setExpireAt(k, exp)
    PROVE  StoreInv'
<1>1. UNCHANGED <<cfg, cursor, evictions, pc, cycle, now>>
  BY DEF setExpireAt
<1>2. CASE lookupMisses(k)
  BY <1>1, <1>2, LookupMissesKeepsTable DEF StoreInv, RestInv
<1>3. CASE Alive(k) /\ exp < now /\ remove({k}) /\ UNCHANGED expiredKeys
  <2>1. {k} \subseteq Present
    BY <1>3 DEF Alive
  <2>2. TableInv'
    BY <1>1, <1>3, <2>1, RemoveKeepsTable DEF StoreInv, RestInv
  <2> QED BY <1>1, <1>3, <2>2 DEF StoreInv, RestInv
<1>4. CASE /\ Alive(k) /\ ~(exp < now)
           /\ db' = [db EXCEPT ![k].exp = exp, ![k].lru = lruNow]
           /\ UNCHANGED <<liveCount, bucketCount, expiredKeys>>
  <2> DEFINE e == [db[k] EXCEPT !.exp = exp, !.lru = lruNow]
  <2>1. k \in Present /\ db[k] \in Entry
    BY <1>4, AliveEntry DEF StoreInv
  <2>2. exp \in Nat
    BY <1>4, StoreAssumption DEF Deadlines, StoreInv, RestInv
  <2>3. e \in Entry
    BY <2>1, <2>2, LruNowType DEF Entry, StoreInv, RestInv
  <2>4. db' = [db EXCEPT ![k] = e]
    BY <1>4, <2>1 DEF StoreInv, TableInv
  <2> HIDE DEF e
  <2>5. TableInv'
    BY <1>1, <1>4, <2>1, <2>3, <2>4, OverwriteKeepsTable DEF StoreInv
  <2> QED BY <1>1, <1>4, <2>5 DEF StoreInv, RestInv
<1> QED BY <1>2, <1>3, <1>4 DEF setExpireAt

\* ttlMs keeps the invariant, also when it reaps.
LEMMA TtlMsStep ==
    ASSUME StoreInv, NEW k \in Keys, ttlMs(k)
    PROVE  StoreInv'
<1>1. UNCHANGED <<cfg, cursor, evictions, pc, cycle, now>>
  BY DEF ttlMs
<1>2. CASE UNCHANGED <<db, liveCount, bucketCount, expiredKeys>>
  BY <1>1, <1>2, StutterKeepsTable DEF StoreInv, RestInv
<1>3. CASE lookupMisses(k)
  BY <1>1, <1>3, LookupMissesKeepsTable DEF StoreInv, RestInv
<1> QED BY <1>2, <1>3 DEF ttlMs

\* clear empties the table and resets the count together.
LEMMA ClearStep ==
    ASSUME StoreInv, clear
    PROVE  StoreInv'
<1>1. UNCHANGED <<cfg, bucketCount, evictions, expiredKeys, pc, cycle, now>>
      /\ db' = [k \in Keys |-> Absent] /\ liveCount' = 0
  BY DEF clear
<1>2. Present' = {} /\ db' \in [Keys -> Entry \cup {Absent}]
  BY <1>1 DEF Present
<1>3. maxKeys' = maxKeys /\ maxKeys \in Nat
      /\ ConfiguredBuckets(cfg)' = ConfiguredBuckets(cfg)
  BY <1>1, StoreAssumption
     DEF maxKeys, resolveMaxKeys, ConfigType, ConfiguredBuckets, StoreInv, RestInv
<1>4. CountExact'
  BY <1>1, <1>2, FS_EmptySet DEF CountExact
<1>5. WithinCap' /\ LoadBounded' /\ PresizedNeverGrows'
  BY <1>1, <1>3 DEF WithinCap, LoadBounded, PresizedNeverGrows, StoreInv, TableInv
<1> QED BY <1>1, <1>2, <1>4, <1>5 DEF StoreInv, RestInv, TableInv

\* activeExpireCycle starts without touching the table.
LEMMA CycleStartStep ==
    ASSUME StoreInv, cycleStart
    PROVE  StoreInv'
<1>1. UNCHANGED <<cfg, db, liveCount, bucketCount, evictions, expiredKeys, now>>
      /\ pc' = "scan" /\ cycle' = FirstPass
  BY DEF cycleStart, table
<1>2. FirstPass \in Cycle
  BY DEF FirstPass, NoCycle, Cycle
<1> QED BY <1>1, <1>2, StutterKeepsTable DEF StoreInv, RestInv

\* The locals of a pass keep their types when a bucket is added to them.
LEMMA CycleCounts ==
    ASSUME NEW c \in Cycle, NEW s \in Nat, NEW d \in Nat, NEW w \in BOOLEAN
    PROVE  [c EXCEPT !.sampled = @ + s, !.expired = @ + d, !.buckets = @ + 1,
                     !.wrapped = w] \in Cycle
<1> DEFINE s2 == c.sampled + s
           d2 == c.expired + d
           b2 == c.buckets + 1
<1>1. c.sampled \in Nat /\ c.expired \in Nat /\ c.buckets \in Nat /\ c.passes \in Nat
  BY DEF Cycle
<1>2. s2 \in Nat /\ d2 \in Nat /\ b2 \in Nat
  BY <1>1
<1>3. [c EXCEPT !.sampled = @ + s, !.expired = @ + d, !.buckets = @ + 1, !.wrapped = w]
        = [c EXCEPT !.sampled = s2, !.expired = d2, !.buckets = b2, !.wrapped = w]
  OBVIOUS
<1> HIDE DEF s2, d2, b2
<1>4. [c EXCEPT !.sampled = s2, !.expired = d2, !.buckets = b2, !.wrapped = w] \in Cycle
  BY <1>2 DEF Cycle
<1> QED BY <1>3, <1>4

\* Scanning a bucket drops its expired entries and their count together.
LEMMA CycleBucketStep ==
    ASSUME StoreInv, cycleBucket
    PROVE  StoreInv'
<1> DEFINE chain == {k \in Present : Bucket(k) = cursor % bucketCount}
<1> DEFINE dead == DeadAmong(chain)
<1>1. /\ remove(dead)
      /\ cycle' = [cycle EXCEPT !.sampled = @ + Cardinality(chain),
                                !.expired = @ + Cardinality(dead),
                                !.buckets = @ + 1,
                                !.wrapped = cursor' = 0]
      /\ UNCHANGED <<cfg, evictions, expiredKeys, pc, now>>
  BY DEF cycleBucket
<1>2. dead \subseteq Present /\ chain \subseteq Keys /\ dead \subseteq Keys
  BY DEF DeadAmong, Present
<1>3. Cardinality(chain) \in Nat /\ Cardinality(dead) \in Nat
  BY <1>2, KeySetsFinite
<1> HIDE DEF chain, dead
<1>4. TableInv'
  BY <1>1, <1>2, RemoveKeepsTable DEF StoreInv, RestInv
<1>5. cycle' \in Cycle
  BY <1>1, <1>3, CycleCounts DEF StoreInv, RestInv
<1> QED BY <1>1, <1>4, <1>5 DEF StoreInv, RestInv

\* The end of a pass only counts.
LEMMA CyclePassStep ==
    ASSUME StoreInv, cyclePass
    PROVE  StoreInv'
<1>1. UNCHANGED <<cfg, db, liveCount, bucketCount, evictions, now>>
      /\ expiredKeys' = Counted(expiredKeys, cycle.expired)
  BY DEF cyclePass, table
<1>2. expiredKeys' \in 0 .. CounterMod - 1
  BY <1>1, CountedType DEF StoreInv, RestInv, Cycle
<1>3. pc' \in {"idle", "scan"}
  BY DEF cyclePass, StoreInv, RestInv
<1>4. NoCycle \in Cycle /\ cycle.passes + 1 \in Nat
  BY DEF NoCycle, Cycle, StoreInv, RestInv
<1>5. [NoCycle EXCEPT !.passes = cycle.passes + 1] \in Cycle
  <2> DEFINE p == cycle.passes + 1
  <2>1. p \in Nat
    BY <1>4
  <2> HIDE DEF p
  <2>2. [NoCycle EXCEPT !.passes = p] \in Cycle
    BY <2>1 DEF NoCycle, Cycle
  <2> QED BY <2>2 DEF p
<1>6. cycle' \in Cycle
  BY <1>4, <1>5 DEF cyclePass
<1> QED BY <1>1, <1>2, <1>3, <1>6, StutterKeepsTable DEF StoreInv, RestInv

\* The clock moves, the table does not.
LEMMA TickStep ==
    ASSUME StoreInv, tick
    PROVE  StoreInv'
<1>1. UNCHANGED <<cfg, db, liveCount, bucketCount, evictions, expiredKeys, pc, cycle>>
      /\ now' \in Nat
  BY DEF tick, table, StoreInv, RestInv
<1> QED BY <1>1, StutterKeepsTable DEF StoreInv, RestInv

-----------------------------------------------------------------------------
(* The theorems.                                                           *)

\* A store starts out with the invariant.
LEMMA InitEstablishes == Init => StoreInv
<1> SUFFICES ASSUME Init PROVE StoreInv
  OBVIOUS
<1>1. Present = {} /\ db \in [Keys -> Entry \cup {Absent}]
  BY DEF Init, Present
<1>2. maxKeys \in Nat
  BY StoreAssumption DEF Init, maxKeys, resolveMaxKeys, ConfigType
<1>3. bucketCount \in Nat \ {0} /\ bucketCount = ConfiguredBuckets(cfg)
  BY BucketsFit DEF Init
<1>4. CountExact
  BY <1>1, FS_EmptySet DEF Init, CountExact
<1>5. WithinCap /\ LoadBounded /\ PresizedNeverGrows
  BY <1>2, <1>3 DEF Init, WithinCap, LoadBounded, PresizedNeverGrows
<1>6. NoCycle \in Cycle
  BY DEF NoCycle, Cycle
<1>7. RestInv
  BY <1>6, StoreAssumption DEF Init, RestInv
<1> QED BY <1>1, <1>3, <1>4, <1>5, <1>7 DEF Init, StoreInv, TableInv

\* The invariant is inductive: no operation of Store, and no step of its expire
\* cycle, breaks it.
THEOREM StoreInvariant ==
    ASSUME ConfigsFitPool
    PROVE  Spec => []StoreInv
<1>1. Init => StoreInv
  BY InitEstablishes
<1>2. StoreInv /\ [Next]_vars => StoreInv'
  <2> SUFFICES ASSUME StoreInv, [Next]_vars PROVE StoreInv'
    OBVIOUS
  <2>1. CASE UNCHANGED vars
    BY <2>1, StutterKeepsTable DEF vars, StoreInv, RestInv
  <2>2. ASSUME NEW k \in Keys, NEW touch \in BOOLEAN, find(k, touch) PROVE StoreInv'
    BY <2>2, FindStep
  <2>3. ASSUME NEW k \in Keys, NEW v \in Values,
               NEW exp \in Deadlines \cup {kNoExpiry, kKeepTtl}, set(k, v, exp)
        PROVE  StoreInv'
    BY <2>3, SetStep
  <2>4. ASSUME NEW k \in Keys, erase(k) PROVE StoreInv'
    BY <2>4, EraseStep
  <2>5. ASSUME NEW k \in Keys, NEW exp \in Deadlines, setExpireAt(k, exp) PROVE StoreInv'
    BY <2>5, SetExpireAtStep
  <2>6. ASSUME NEW k \in Keys, ttlMs(k) PROVE StoreInv'
    BY <2>6, TtlMsStep
  <2>7. CASE clear \/ cycleStart \/ cycleBucket \/ cyclePass \/ tick
    BY <2>7, ClearStep, CycleStartStep, CycleBucketStep, CyclePassStep, TickStep
  <2> QED BY <2>1, <2>2, <2>3, <2>4, <2>5, <2>6, <2>7 DEF Next
<1> QED BY <1>1, <1>2, PTL DEF Spec

\* Every variable keeps its type.
THEOREM TypeCorrect ==
    ASSUME ConfigsFitPool
    PROVE  Spec => []TypeOK
<1>1. StoreInv => TypeOK
  BY DEF StoreInv, TableInv, RestInv, TypeOK
<1> QED BY <1>1, StoreInvariant, PTL

\* liveCount_ is the number of entries and never exceeds maxKeys_, whatever
\* lookup, eviction, the expire cycle and clear remove.
THEOREM CapIsKept ==
    ASSUME ConfigsFitPool
    PROVE  Spec => []CapKept
<1>1. StoreInv /\ TypeOK => CapKept
  BY DEF StoreInv, TableInv, CapKept
<1> QED BY <1>1, StoreInvariant, TypeCorrect, PTL

\* With a cap that fits the pool, Table::insert never returns the nullptr that
\* Store::set would dereference.
THEOREM InsertGetsABlock ==
    ASSUME ConfigsFitPool
    PROVE  Spec => []PoolNeverEmpty
<1>1. StoreInv => PoolNeverEmpty
  BY DEF StoreInv, RestInv, PoolNeverEmpty
<1> QED BY <1>1, StoreInvariant, PTL

\* The table keeps at least one bucket per entry, and a presized one is never
\* rehashed.
THEOREM TableSize ==
    ASSUME ConfigsFitPool
    PROVE  Spec => []WellSized
<1>1. StoreInv => WellSized
  BY DEF StoreInv, TableInv, WellSized
<1> QED BY <1>1, StoreInvariant, PTL

-----------------------------------------------------------------------------
(* What readers see of a table f at time t.                                *)

Tables == [Keys -> Entry \cup {Absent}]

Fresh(e, t) == ~(e.exp # kNoExpiry /\ t > e.exp)
Shown(e) == [val |-> e.val, exp |-> e.exp]
Written(f, k, e) == [f EXCEPT ![k] = e]

ViewOf(f, t) ==
    [k \in Keys |-> IF f[k] # Absent /\ Fresh(f[k], t) THEN Shown(f[k]) ELSE Absent]

\* The refinement mapping of Store, before and after a step.
LEMMA ViewIsViewOf == View = ViewOf(db, now) /\ View' = ViewOf(db', now')
<1>1. \A k \in Keys : Alive(k) <=> db[k] # Absent /\ Fresh(db[k], now)
  BY DEF Alive, Present, expired, Fresh
<1>2. \A k \in Keys : Alive(k)' <=> db'[k] # Absent /\ Fresh(db'[k], now')
  BY DEF Alive, Present, expired, Fresh
<1> QED BY <1>1, <1>2 DEF View, ViewOf, Shown

\* A reader's entry is never mistaken for a missing one.
LEMMA ShownIsThere ==
    ASSUME NEW e \in Entry
    PROVE  Shown(e) # Absent
BY AbsentAssumption DEF Shown, Entry

\* The keys a reader finds are those whose deadline has not passed.
LEMMA HeldIsAlive ==
    ASSUME TableInv
    PROVE  /\ Abstract!Held(View) = {k \in Keys : Alive(k)}
           /\ \A k \in Keys : Alive(k) => View[k] = Shown(db[k])
           /\ \A k \in Keys : ~Alive(k) => View[k] = Absent
<1>1. \A k \in Keys : Alive(k) => View[k] = Shown(db[k])
  BY DEF View, Shown
<1>2. \A k \in Keys : ~Alive(k) => View[k] = Absent
  BY DEF View
<1>3. \A k \in Keys : Alive(k) => Shown(db[k]) # Absent
  BY AliveEntry, ShownIsThere
<1> QED BY <1>1, <1>2, <1>3 DEF Abstract!Held

\* Removing keys from the table drops them from what readers see.
LEMMA RemoveView ==
    ASSUME NEW f \in Tables, NEW R, NEW t
    PROVE  ViewOf(Without(f, R), t) = Abstract!Drop(ViewOf(f, t), R)
BY DEF Tables, Without, ViewOf, Abstract!Drop

\* Dropping what readers do not see changes nothing for them.
LEMMA DropUnseen ==
    ASSUME NEW f \in Tables, NEW t, NEW R,
           \A k \in R \cap Keys : ~(f[k] # Absent /\ Fresh(f[k], t))
    PROVE  Abstract!Drop(ViewOf(f, t), R) = ViewOf(f, t)
BY DEF ViewOf, Abstract!Drop

\* An entry that is fresh is seen as it was stored.
LEMMA StoreView ==
    ASSUME NEW f \in Tables, NEW k \in Keys, NEW e \in Entry, NEW t, Fresh(e, t)
    PROVE  ViewOf(Written(f, k, e), t) = Written(ViewOf(f, t), k, Shown(e))
<1>1. e # Absent
  BY AbsentAssumption
<1> QED BY <1>1 DEF Tables, ViewOf, Written

\* When the clock moves on, keys vanish the instant their deadline passes.
LEMMA AdvanceView ==
    ASSUME NEW f \in Tables, NEW t \in Nat, NEW u \in Nat, t < u
    PROVE  ViewOf(f, u) = Abstract!At(ViewOf(f, t), u)
<1> DEFINE m == ViewOf(f, t)
           gone == Abstract!Overdue(m, u)
<1>1. ASSUME NEW k \in Keys PROVE ViewOf(f, u)[k] = IF k \in gone THEN Absent ELSE m[k]
  <2>1. CASE f[k] = Absent
    BY <2>1 DEF ViewOf, Abstract!Overdue, Abstract!Held
  <2>2. CASE f[k] # Absent
    <3>1. f[k] \in Entry /\ f[k].exp \in Nat \cup {kNoExpiry}
      BY <2>2 DEF Tables, Entry
    <3>2. Shown(f[k]) # Absent /\ Shown(f[k]).exp = f[k].exp
      BY <3>1, ShownIsThere DEF Shown
    <3>3. CASE Fresh(f[k], t)
      <4>1. m[k] = Shown(f[k])
        BY <2>2, <3>3 DEF ViewOf
      <4>2. k \in gone <=> ~Fresh(f[k], u)
        BY <3>2, <4>1 DEF Abstract!Overdue, Abstract!Held, Abstract!Forever, Fresh, kNoExpiry
      <4> QED BY <2>2, <4>1, <4>2 DEF ViewOf
    <3>4. CASE ~Fresh(f[k], t)
      <4>1. m[k] = Absent
        BY <3>4 DEF ViewOf
      <4>2. ~Fresh(f[k], u)
        BY <3>1, <3>4 DEF Fresh
      <4> QED BY <4>1, <4>2 DEF ViewOf
    <3> QED BY <3>3, <3>4
  <2> QED BY <2>1, <2>2
<1>2. ViewOf(f, u) = [k \in Keys |-> ViewOf(f, u)[k]]
  BY DEF ViewOf
<1>3. ViewOf(f, u) = [k \in Keys |-> IF k \in gone THEN Absent ELSE m[k]]
  <2> HIDE DEF m, gone
  <2> DEFINE g == ViewOf(f, u)
  <2> HIDE DEF g
  <2>1. g = [k \in Keys |-> g[k]]
    BY <1>2 DEF g
  <2>2. \A k \in Keys : g[k] = IF k \in gone THEN Absent ELSE m[k]
    BY <1>1 DEF g
  <2> QED BY <2>1, <2>2 DEF g
<1> QED BY <1>3, Zenon DEF Abstract!At, Abstract!Drop

-----------------------------------------------------------------------------
(* Each operation of Store is one of ExpiringMap, or invisible there.      *)

\* A call leaves the clock, the cap and the policy alone.
LEMMA CallFrame ==
    ASSUME UNCHANGED <<cfg, now>>
    PROVE  Abstract!Frame
BY DEF Abstract!Frame, maxKeys, resolveMaxKeys

\* Dropping expired keys from what readers see changes nothing.
LEMMA ReapDrop ==
    ASSUME TableInv, NEW R, \A k \in R : Dead(k)
    PROVE  Abstract!Drop(View, R) = View
<1>1. db \in Tables
  BY DEF TableInv, Tables
<1>2. \A k \in R \cap Keys : ~(db[k] # Absent /\ Fresh(db[k], now))
  BY DEF Dead, Present, expired, Fresh
<1> QED BY <1>1, <1>2, DropUnseen, ViewIsViewOf

\* Reaping, on whichever path, is invisible.
LEMMA ReapView ==
    ASSUME TableInv, UNCHANGED now, NEW R, \A k \in R : Dead(k), db' = Without(db, R)
    PROVE  View' = View
<1>1. db \in Tables /\ now' = now
  BY DEF TableInv, Tables
<1>2. Abstract!Drop(View, R) = View
  BY ReapDrop
<1>3. ViewOf(db', now') = Abstract!Drop(ViewOf(db, now), R)
  BY <1>1, RemoveView
<1> QED BY <1>2, <1>3, ViewIsViewOf

\* A lookup that misses shows its caller a key that is not there.
LEMMA MissView ==
    ASSUME TableInv, UNCHANGED now, NEW k \in Keys, lookupMisses(k)
    PROVE  View' = View /\ k \notin Abstract!Held(View)
<1>1. \A j \in lookupRemoves(k) : Dead(j)
  BY DEF lookupRemoves, DeadAmong
<1>2. View' = View
  BY <1>1, ReapView DEF lookupMisses, remove
<1>3. k \notin Abstract!Held(View)
  BY HeldIsAlive DEF lookupMisses
<1> QED BY <1>2, <1>3

\* Writing into an entry, or storing a new one, shows what was written.
LEMMA WriteView ==
    ASSUME TableInv, UNCHANGED now, NEW k \in Keys, NEW e \in Entry, Fresh(e, now),
           NEW R, db' = Written(Without(db, R), k, e)
    PROVE  View' = Written(Abstract!Drop(View, R), k, Shown(e))
<1>1. db \in Tables /\ now' = now
  BY DEF TableInv, Tables
<1>2. Without(db, R) \in Tables
  BY <1>1, WithoutOccupied DEF Tables
<1>3. ViewOf(db', now) = Written(ViewOf(Without(db, R), now), k, Shown(e))
  BY <1>2, StoreView
<1> QED BY <1>1, <1>3, RemoveView, ViewIsViewOf

\* The same without removing anything.
LEMMA UpdateView ==
    ASSUME TableInv, UNCHANGED now, NEW k \in Keys, NEW e \in Entry, Fresh(e, now),
           db' = Written(db, k, e)
    PROVE  View' = Written(View, k, Shown(e))
<1>1. db \in Tables /\ now' = now
  BY DEF TableInv, Tables
<1>2. ViewOf(db', now) = Written(ViewOf(db, now), k, Shown(e))
  BY <1>1, StoreView
<1> QED BY <1>1, <1>2, ViewIsViewOf

\* What readers see never outnumbers what the cap allows.
LEMMA SeenWithinCap ==
    ASSUME StoreInv
    PROVE  Cardinality(Abstract!Held(View)) <= maxKeys
<1>1. Abstract!Held(View) \subseteq Present /\ Present \subseteq Keys
  BY HeldIsAlive DEF StoreInv, Alive, Present
<1>2. /\ Cardinality(Abstract!Held(View)) <= Cardinality(Present)
      /\ Cardinality(Present) \in Nat /\ Cardinality(Abstract!Held(View)) \in Nat
  <2> HIDE DEF Present
  <2> QED BY <1>1, KeySetsFinite, FS_Subset
<1>3. Cardinality(Present) <= maxKeys
  BY DEF StoreInv, TableInv, CountExact, WithinCap
<1>4. maxKeys \in Nat
  BY StoreAssumption DEF StoreInv, RestInv, maxKeys, resolveMaxKeys, ConfigType
<1> QED BY <1>2, <1>3, <1>4

\* The same after a call.
LEMMA SeenWithinCapNext ==
    ASSUME StoreInv', UNCHANGED cfg
    PROVE  Cardinality(Abstract!Held(View')) <= maxKeys
<1>1. (Cardinality(Abstract!Held(View)) <= maxKeys)'
  BY SeenWithinCap, PTL
<1> QED BY <1>1 DEF maxKeys, resolveMaxKeys

\* find is a read.
LEMMA FindIsGet ==
    ASSUME StoreInv, NEW k \in Keys, NEW touch \in BOOLEAN, find(k, touch)
    PROVE  Abstract!Get(k)
<1>1. Abstract!Frame /\ now' = now
  BY CallFrame DEF find
<1>2. CASE Alive(k) /\ db' = (IF touch THEN [db EXCEPT ![k].lru = lruNow] ELSE db)
           /\ ret' = Found(db[k].val)
  <2>1. k \in Abstract!Held(View) /\ View[k] = Shown(db[k])
    BY <1>2, HeldIsAlive DEF StoreInv
  <2>2. View[k].val = db[k].val
    BY <2>1 DEF Shown
  <2>3. View' = View
    <3>1. CASE ~touch
      BY <1>1, <1>2, <3>1, ViewIsViewOf
    <3>2. CASE touch
      <4> DEFINE e == [db[k] EXCEPT !.lru = lruNow]
      <4>1. db[k] \in Entry
        BY <1>2, AliveEntry DEF StoreInv
      <4>2. e \in Entry /\ Shown(e) = Shown(db[k])
        BY <4>1, LruNowType DEF Entry, Shown, StoreInv, RestInv
      <4>3. Fresh(e, now)
        BY <1>2, <4>1 DEF Alive, expired, Fresh, Entry
      <4>4. db' = Written(db, k, e)
        BY <1>2, <3>2 DEF Written
      <4> HIDE DEF e
      <4>5. View' = Written(View, k, View[k])
        BY <1>1, <2>1, <4>2, <4>3, <4>4, UpdateView DEF StoreInv
      <4> QED BY <4>5 DEF View, Written
    <3> QED BY <3>1, <3>2
  <2> QED BY <1>1, <1>2, <2>1, <2>2, <2>3 DEF Abstract!Get, Found
<1>3. CASE lookupMisses(k) /\ ret' = Nil
  <2>1. View' = View /\ k \notin Abstract!Held(View)
    BY <1>1, <1>3, MissView DEF StoreInv
  <2> QED BY <1>1, <1>3, <2>1 DEF Abstract!Get, Nil
<1> QED BY <1>2, <1>3 DEF find

\* ttlMs is a read of the deadline.
LEMMA TtlMsIsTtl ==
    ASSUME StoreInv, NEW k \in Keys, ttlMs(k)
    PROVE  Abstract!Ttl(k)
<1>1. Abstract!Frame /\ now' = now
  BY CallFrame DEF ttlMs
<1>2. CASE /\ Alive(k) /\ db' = db
           /\ ret' = Int64(IF db[k].exp = kNoExpiry THEN kNoExpiry ELSE db[k].exp - now)
  <2>1. k \in Abstract!Held(View) /\ View[k] = Shown(db[k])
    BY <1>2, HeldIsAlive DEF StoreInv
  <2>2. View[k].exp = db[k].exp
    BY <2>1 DEF Shown
  <2>3. View' = View
    BY <1>1, <1>2, ViewIsViewOf
  <2>4. Abstract!TtlCall(View, now, k) = IF db[k].exp = kNoExpiry THEN kNoExpiry ELSE db[k].exp - now
    BY <2>1, <2>2 DEF Abstract!TtlCall, Abstract!Forever, kNoExpiry
  <2> QED BY <1>1, <1>2, <2>3, <2>4 DEF Abstract!Ttl, Int64
<1>3. CASE lookupMisses(k) /\ ret' = Int64(-2)
  <2>1. View' = View /\ k \notin Abstract!Held(View)
    BY <1>1, <1>3, MissView DEF StoreInv
  <2>2. Abstract!TtlCall(View, now, k) = -2
    BY <2>1 DEF Abstract!TtlCall
  <2> QED BY <1>1, <1>3, <2>1, <2>2 DEF Abstract!Ttl, Int64
<1> QED BY <1>2, <1>3 DEF ttlMs

\* Removing the entry of one key, if there is one, drops that key.
LEMMA EraseView ==
    ASSUME TableInv, UNCHANGED now, NEW k \in Keys, remove({k} \cap Present)
    PROVE  View' = Abstract!Drop(View, {k})
<1>1. db \in Tables /\ now' = now /\ db' = Without(db, {k} \cap Present)
  BY DEF TableInv, Tables, remove
<1>2. Without(db, {k} \cap Present) = Without(db, {k})
  BY DEF Without, Present
<1> QED BY <1>1, <1>2, RemoveView, ViewIsViewOf

\* erase is a deletion, and tells whether readers could see the key.
LEMMA EraseIsDel ==
    ASSUME StoreInv, NEW k \in Keys, erase(k)
    PROVE  Abstract!Del(k)
<1>1. Abstract!Frame /\ now' = now
  BY CallFrame DEF erase
<1>2. View' = Abstract!Drop(View, {k})
  BY <1>1, EraseView DEF erase, StoreInv
<1>3. (k \in Abstract!Held(View)) = Alive(k)
  <2>1. k \in Abstract!Held(View) <=> Alive(k)
    BY HeldIsAlive DEF StoreInv
  <2> QED BY <2>1 DEF Alive
<1>4. ret' = <<"bool", k \in Abstract!Held(View)>>
  BY <1>3, Zenon DEF erase, Bool
<1>5. Abstract!DelCall(View, k).map = View' /\ Abstract!DelCall(View, k).ret = (k \in Abstract!Held(View))
  BY <1>2, Zenon DEF Abstract!DelCall, Abstract!Outcome
<1> QED BY <1>1, <1>4, <1>5, Zenon DEF Abstract!Del, Abstract!Returns

\* The deadline ExpiringMap stores with a key, and what it shows then.
Given(m, k, v, exp) ==
    [val |-> v,
     exp |-> IF exp # Abstract!Keep THEN exp
             ELSE IF k \in Abstract!Held(m) THEN m[k].exp ELSE Abstract!Forever]

\* The instance counts as this module does.
LEMMA SameCardinality == \A S : Abstract!Cardinality(S) = Cardinality(S)
BY Zenon DEF Cardinality, Abstract!Cardinality

\* The ways a put that is not past may end in ExpiringMap: stored, stored at the
\* cost of another key, refused.
LEMMA PutWays ==
    ASSUME NEW m, NEW t, NEW cap, NEW ev, NEW k, NEW v, NEW exp,
           ~(exp \notin {Abstract!Forever, Abstract!Keep} /\ exp < t)
    PROVE  LET Puts == Abstract!PutCall(m, t, cap, ev, k, v, exp)
               e == Given(m, k, v, exp)
           IN  /\ Cardinality(Abstract!Held(Written(m, k, e))) <= cap
                     => Abstract!Outcome(Written(m, k, e), TRUE) \in Puts
               /\ k \notin Abstract!Held(m) /\ ev
                     => \A x \in Abstract!Held(m) :
                           Abstract!Outcome(Written(Abstract!Drop(m, {x}), k, e), TRUE) \in Puts
               /\ k \notin Abstract!Held(m) /\ ~ev => Abstract!Outcome(m, FALSE) \in Puts
<1> DEFINE e == Given(m, k, v, exp)
           Stored(n) == Written(n, k, e)
<1>1. Abstract!PutCall(m, t, cap, ev, k, v, exp) =
         {o \in {Abstract!Outcome(Stored(m), TRUE)} : Cardinality(Abstract!Held(o.map)) <= cap}
         \cup (IF k \in Abstract!Held(m) THEN {}
               ELSE IF ev THEN {Abstract!Outcome(Stored(Abstract!Drop(m, {x})), TRUE) :
                                   x \in Abstract!Held(m)}
               ELSE {Abstract!Outcome(m, FALSE)})
  BY SameCardinality, Zenon DEF Abstract!PutCall, Given, Written
<1> HIDE DEF Stored
<1>2. Abstract!Outcome(Stored(m), TRUE).map = Stored(m)
  BY DEF Abstract!Outcome
<1>3. Cardinality(Abstract!Held(Stored(m))) <= cap
        => Abstract!Outcome(Stored(m), TRUE) \in Abstract!PutCall(m, t, cap, ev, k, v, exp)
  BY <1>1, <1>2, Zenon
<1>4. k \notin Abstract!Held(m) /\ ev
        => \A x \in Abstract!Held(m) :
              Abstract!Outcome(Stored(Abstract!Drop(m, {x})), TRUE)
                 \in Abstract!PutCall(m, t, cap, ev, k, v, exp)
  BY <1>1, Zenon
<1>5. k \notin Abstract!Held(m) /\ ~ev
        => Abstract!Outcome(m, FALSE) \in Abstract!PutCall(m, t, cap, ev, k, v, exp)
  BY <1>1, Zenon
<1> QED BY <1>3, <1>4, <1>5, Zenon DEF Stored

Evicts == cfg.policy = AllKeysLru
Puts(k, v, exp) == Abstract!PutCall(View, now, maxKeys, Evicts, k, v, exp)

\* A step that ends in one of those ways is a put.
LEMMA PutBy ==
    ASSUME NEW k, NEW v, NEW exp, NEW m, NEW r,
           Abstract!Outcome(m, r) \in Puts(k, v, exp),
           View' = m, ret' = Bool(r), UNCHANGED <<cfg, now>>
    PROVE  Abstract!Put(k, v, exp)
<1>1. Abstract!Frame
  BY CallFrame
<1>2. Abstract!Outcome(m, r).map = m /\ Abstract!Outcome(m, r).ret = r
  BY Zenon DEF Abstract!Outcome
<1>3. Abstract!Returns(Abstract!Outcome(m, r))
  BY <1>1, <1>2, Zenon DEF Abstract!Returns, Bool
<1> QED BY <1>3, Zenon DEF Abstract!Put, Puts, Evicts

\* The two sides name the sentinels alike.
LEMMA PastIsPast ==
    ASSUME NEW exp
    PROVE  Past(exp) <=> (exp \notin {Abstract!Forever, Abstract!Keep} /\ exp < now)
BY DEF Past, kNoExpiry, kKeepTtl, Abstract!Forever, Abstract!Keep

\* An entry set stores is fresh.
LEMMA NewEntryFresh ==
    ASSUME NEW v \in Values, NEW exp, now \in Nat,
           exp \in Deadlines \cup {kNoExpiry, kKeepTtl}, ~Past(exp)
    PROVE  /\ NewEntry(v, exp) \in Entry /\ Fresh(NewEntry(v, exp), now)
           /\ Shown(NewEntry(v, exp)) = [val |-> v, exp |-> IF exp = kKeepTtl THEN kNoExpiry ELSE exp]
<1>1. NewEntry(v, exp) \in Entry
  BY NewEntryType
<1>2. exp = kKeepTtl \/ exp = kNoExpiry \/ (exp \in Int /\ ~(exp < now))
  BY StoreAssumption DEF Past, Deadlines
<1>3. Fresh(NewEntry(v, exp), now)
  BY <1>2 DEF Fresh, NewEntry, kNoExpiry
<1> QED BY <1>1, <1>3 DEF Shown, NewEntry

\* set with a deadline already behind is a put that only deletes.
LEMMA SetPastIsPut ==
    ASSUME StoreInv, NEW k \in Keys, NEW v \in Values, NEW exp, setPast(k, exp)
    PROVE  Abstract!Put(k, v, exp)
<1>1. /\ Past(exp) /\ remove({k} \cap Present) /\ ret' = Bool(TRUE)
      /\ UNCHANGED <<cfg, now>>
  BY DEF setPast
<1>2. View' = Abstract!Drop(View, {k})
  BY <1>1, EraseView DEF StoreInv
<1>3. Puts(k, v, exp) = {Abstract!Outcome(Abstract!Drop(View, {k}), TRUE)}
  BY <1>1, PastIsPast, Zenon DEF Puts, Abstract!PutCall
<1>4. Abstract!Outcome(View', TRUE) \in Puts(k, v, exp)
  BY <1>2, <1>3, Zenon
<1> QED BY <1>1, <1>4, PutBy

\* set of a key that is there overwrites it.
LEMMA SetOverwriteIsPut ==
    ASSUME StoreInv, StoreInv', NEW k \in Keys, NEW v \in Values,
           NEW exp \in Deadlines \cup {kNoExpiry, kKeepTtl}, setOverwrite(k, v, exp)
    PROVE  Abstract!Put(k, v, exp)
<1> DEFINE e == [val |-> v, exp |-> IF exp = kKeepTtl THEN db[k].exp ELSE exp,
                 lru |-> lruNow]
<1>1. /\ ~Past(exp) /\ Alive(k) /\ db' = Written(db, k, e) /\ ret' = Bool(TRUE)
      /\ UNCHANGED <<cfg, now>> /\ now \in Nat
  BY DEF setOverwrite, Written, StoreInv, RestInv
<1>2. db[k] \in Entry
  BY <1>1, AliveEntry DEF StoreInv
<1>3. e \in Entry
  BY <1>1, <1>2, StoredDeadline, LruNowType DEF Entry
<1>4. Fresh(e, now)
  <2>1. exp = kKeepTtl \/ exp = kNoExpiry \/ (exp \in Int /\ ~(exp < now))
    BY <1>1, StoreAssumption DEF Past, Deadlines
  <2>2. Fresh(db[k], now)
    BY <1>1 DEF Alive, expired, Fresh
  <2> QED BY <1>1, <2>1, <2>2 DEF Fresh
<1>5. k \in Abstract!Held(View) /\ View[k].exp = db[k].exp
  <2>1. k \in Abstract!Held(View) /\ View[k] = Shown(db[k])
    BY <1>1, HeldIsAlive DEF StoreInv
  <2> QED BY <2>1 DEF Shown
<1>6. Shown(e) = Given(View, k, v, exp)
  BY <1>5 DEF Shown, Given, Abstract!Keep, kKeepTtl
<1> HIDE DEF e
<1>7. View' = Written(View, k, Given(View, k, v, exp))
  BY <1>1, <1>3, <1>4, <1>6, UpdateView DEF StoreInv
<1>8. Cardinality(Abstract!Held(View')) <= maxKeys
  BY <1>1, SeenWithinCapNext
<1>9. Abstract!Outcome(View', TRUE) \in Puts(k, v, exp)
  BY <1>1, <1>7, <1>8, PastIsPast, PutWays, Zenon DEF Puts
<1> QED BY <1>1, <1>9, PutBy

\* The entry of a key readers do not see: KEEPTTL means no deadline.
LEMMA NewEntryGiven ==
    ASSUME StoreInv, NEW k \in Keys, ~Alive(k), NEW v \in Values,
           NEW exp \in Deadlines \cup {kNoExpiry, kKeepTtl}, ~Past(exp)
    PROVE  Shown(NewEntry(v, exp)) = Given(View, k, v, exp) /\ k \notin Abstract!Held(View)
<1>1. k \notin Abstract!Held(View)
  BY HeldIsAlive DEF StoreInv
<1>2. Shown(NewEntry(v, exp)) = [val |-> v, exp |-> IF exp = kKeepTtl THEN kNoExpiry ELSE exp]
  BY NewEntryFresh DEF StoreInv, RestInv
<1>3. Given(View, k, v, exp) = [val |-> v, exp |-> IF exp = kKeepTtl THEN kNoExpiry ELSE exp]
  BY <1>1 DEF Given, Abstract!Keep, Abstract!Forever, kKeepTtl, kNoExpiry
<1> QED BY <1>1, <1>2, <1>3

\* An insert that finds a block, as the cap guarantees, stores the entry.
LEMMA InsertStores ==
    ASSUME NEW k, NEW e, NEW R, insert(k, e, R), pc' # "crashed"
    PROVE  /\ db' = Written(Without(db, R), k, e) /\ ret' = Bool(TRUE)
           /\ liveCount' = liveCount - Cardinality(R) + 1
BY DEF insert, Written

\* set of a missing key below the cap stores it, and costs no other.
LEMMA SetInsertIsPut ==
    ASSUME StoreInv, StoreInv', NEW k \in Keys, NEW v \in Values,
           NEW exp \in Deadlines \cup {kNoExpiry, kKeepTtl}, setInsert(k, v, exp)
    PROVE  Abstract!Put(k, v, exp)
<1> DEFINE R == lookupRemoves(k)
           e == NewEntry(v, exp)
           x == Given(View, k, v, exp)
<1>1. /\ ~Past(exp) /\ ~Alive(k) /\ insert(k, e, R)
      /\ UNCHANGED <<cfg, now>> /\ now \in Nat /\ pc' # "crashed"
  BY DEF setInsert, StoreInv, RestInv
<1>2. db' = Written(Without(db, R), k, e) /\ ret' = Bool(TRUE)
  BY <1>1, InsertStores
<1>3. e \in Entry /\ Fresh(e, now)
  BY <1>1, NewEntryFresh
<1>4. Shown(e) = x
  BY <1>1, NewEntryGiven
<1>5. Abstract!Drop(View, R) = View
  BY ReapDrop DEF lookupRemoves, DeadAmong, StoreInv
<1> HIDE DEF e, R, x
<1>6. View' = Written(View, k, x)
  BY <1>1, <1>2, <1>3, <1>4, <1>5, WriteView DEF StoreInv
<1>7. Cardinality(Abstract!Held(View')) <= maxKeys
  BY <1>1, SeenWithinCapNext
<1>8. Abstract!Outcome(View', TRUE) \in Puts(k, v, exp)
  BY <1>1, <1>6, <1>7, PastIsPast, PutWays, Zenon DEF Puts, x
<1> QED BY <1>1, <1>2, <1>8, PutBy

\* set refused at the cap changes nothing for readers.
LEMMA SetRefusedIsPut ==
    ASSUME StoreInv, NEW k \in Keys, NEW v \in Values,
           NEW exp \in Deadlines \cup {kNoExpiry, kKeepTtl}, setRefused(k, exp)
    PROVE  Abstract!Put(k, v, exp)
<1>1. /\ ~Past(exp) /\ cfg.policy = NoEviction /\ lookupMisses(k) /\ ret' = Bool(FALSE)
      /\ UNCHANGED <<cfg, now>>
  BY DEF setRefused
<1>2. View' = View /\ k \notin Abstract!Held(View)
  BY <1>1, MissView DEF StoreInv
<1>3. ~Evicts
  BY <1>1 DEF Evicts, NoEviction, AllKeysLru
<1>4. Abstract!Outcome(View', FALSE) \in Puts(k, v, exp)
  BY <1>1, <1>2, <1>3, PastIsPast, PutWays, Zenon DEF Puts
<1> QED BY <1>1, <1>4, PutBy

\* set at the cap costs no key readers see when expired entries were sampled,
\* and one otherwise.
LEMMA SetEvictsIsPut ==
    ASSUME StoreInv, StoreInv', NEW k \in Keys, NEW v \in Values,
           NEW exp \in Deadlines \cup {kNoExpiry, kKeepTtl}, setEvicts(k, v, exp)
    PROVE  Abstract!Put(k, v, exp)
<1> DEFINE L == lookupRemoves(k)
           e == NewEntry(v, exp)
           x == Given(View, k, v, exp)
<1>1. /\ ~Past(exp) /\ ~Alive(k) /\ Evicts
      /\ UNCHANGED <<cfg, now>> /\ now \in Nat /\ pc' # "crashed"
  BY DEF setEvicts, StoreInv, RestInv, Evicts
<1>2. PICK S \in sampleSome(Present \ L) : \E R \in Victims(S) : insert(k, e, R \cup L)
  BY DEF setEvicts
<1>3. PICK R \in Victims(S) : insert(k, e, R \cup L)
  BY <1>2
<1>4. db' = Written(Without(db, R \cup L), k, e) /\ ret' = Bool(TRUE)
  BY <1>1, <1>3, InsertStores
<1>5. e \in Entry /\ Fresh(e, now)
  BY <1>1, NewEntryFresh
<1>6. Shown(e) = x /\ k \notin Abstract!Held(View)
  BY <1>1, NewEntryGiven
<1>7. \A j \in L : Dead(j)
  BY DEF lookupRemoves, DeadAmong
<1> HIDE DEF e, x
<1>8. View' = Written(Abstract!Drop(View, R \cup L), k, x)
  BY <1>1, <1>4, <1>5, <1>6, WriteView DEF StoreInv
<1>9. CASE DeadAmong(S) # {}
  <2>1. \A j \in R \cup L : Dead(j)
    BY <1>7, <1>9 DEF Victims, DeadAmong
  <2>2. Abstract!Drop(View, R \cup L) = View
    BY <2>1, ReapDrop DEF StoreInv
  <2>3. Cardinality(Abstract!Held(View')) <= maxKeys
    BY <1>1, SeenWithinCapNext
  <2>4. Abstract!Outcome(View', TRUE) \in Puts(k, v, exp)
    BY <1>1, <1>8, <2>2, <2>3, PastIsPast, PutWays, Zenon DEF Puts, x
  <2> QED BY <1>1, <1>4, <2>4, PutBy
<1>10. CASE DeadAmong(S) = {}
  <2>1. PICK y \in S : R = {y}
    BY <1>10 DEF Victims
  <2>2. S \subseteq Present /\ ~Dead(y)
    BY <1>10 DEF sampleSome, DeadAmong
  <2>3. y \in Keys /\ Alive(y)
    BY <2>2 DEF Alive, Dead, Present
  <2>4. y \in Abstract!Held(View)
    BY <2>3, HeldIsAlive DEF StoreInv
  <2>5. Abstract!Drop(View, {y} \cup L) = Abstract!Drop(View, {y})
    <3>1. \A j \in L : View[j] = Absent
      BY <1>7, HeldIsAlive DEF StoreInv, Dead, Alive, Present
    <3> QED BY <3>1 DEF Abstract!Drop
  <2>6. View' = Written(Abstract!Drop(View, {y}), k, x)
    BY <1>8, <2>1, <2>5
  <2>7. Abstract!Outcome(View', TRUE) \in Puts(k, v, exp)
    BY <1>1, <1>6, <2>4, <2>6, PastIsPast, PutWays, Zenon DEF Puts, x
  <2> QED BY <1>1, <1>4, <2>7, PutBy
<1> QED BY <1>9, <1>10

\* Every path of set is a put of what it was given.
LEMMA SetIsPut ==
    ASSUME StoreInv, StoreInv', NEW k \in Keys, NEW v \in Values,
           NEW exp \in Deadlines \cup {kNoExpiry, kKeepTtl}, set(k, v, exp)
    PROVE  Abstract!Put(k, v, exp)
BY SetPastIsPut, SetOverwriteIsPut, SetInsertIsPut, SetRefusedIsPut, SetEvictsIsPut DEF set

\* setExpireAt is an expiry: of the key it names, at the deadline it is given.
LEMMA SetExpireAtIsExpire ==
    ASSUME StoreInv, NEW k \in Keys, NEW exp \in Deadlines, setExpireAt(k, exp)
    PROVE  Abstract!Expire(k, exp)
<1> DEFINE c == Abstract!ExpireCall(View, now, k, exp)
<1>1. Abstract!Frame /\ now' = now /\ now \in Nat
  BY CallFrame DEF setExpireAt, StoreInv, RestInv
<1>2. c.ret = (k \in Abstract!Held(View))
  BY Zenon DEF Abstract!ExpireCall, Abstract!Outcome
<1>3. CASE lookupMisses(k) /\ ret' = Bool(FALSE)
  <2>1. View' = View /\ k \notin Abstract!Held(View)
    BY <1>1, <1>3, MissView DEF StoreInv
  <2>2. c.map = View'
    BY <2>1, Zenon DEF Abstract!ExpireCall, Abstract!Outcome
  <2> HIDE DEF c
  <2>3. c.ret = FALSE
    <3>1. (k \in Abstract!Held(View)) = FALSE
      BY <2>1, SMT
    <3> QED BY <1>2, <3>1, Zenon
  <2> QED BY <1>1, <1>3, <2>2, <2>3 DEF Abstract!Expire, Abstract!Returns, Bool, c
<1>4. ASSUME Alive(k), ret' = Bool(TRUE), c.map = View' PROVE Abstract!Expire(k, exp)
  <2>1. k \in Abstract!Held(View)
    BY <1>4, HeldIsAlive DEF StoreInv
  <2>2. c.ret = TRUE
    BY <1>2, <2>1, Zenon
  <2> HIDE DEF c
  <2> QED BY <1>1, <1>4, <2>2 DEF Abstract!Expire, Abstract!Returns, Bool, c
<1>5. CASE Alive(k) /\ ret' = Bool(TRUE) /\ exp < now /\ remove({k})
  <2>1. k \in Abstract!Held(View) /\ {k} \cap Present = {k}
    BY <1>5, HeldIsAlive DEF StoreInv, Alive
  <2>2. View' = Abstract!Drop(View, {k})
    BY <1>1, <1>5, <2>1, EraseView DEF StoreInv
  <2>3. c.map = View'
    BY <1>5, <2>1, <2>2, Zenon DEF Abstract!ExpireCall, Abstract!Outcome
  <2> QED BY <1>4, <1>5, <2>3
<1>6. CASE /\ Alive(k) /\ ret' = Bool(TRUE) /\ ~(exp < now)
           /\ db' = [db EXCEPT ![k].exp = exp, ![k].lru = lruNow]
  <2> DEFINE e == [db[k] EXCEPT !.exp = exp, !.lru = lruNow]
  <2>1. db[k] \in Entry /\ k \in Abstract!Held(View) /\ View[k] = Shown(db[k])
    BY <1>6, AliveEntry, HeldIsAlive DEF StoreInv
  <2>2. exp \in Nat
    BY <1>1, <1>6, StoreAssumption DEF Deadlines
  <2>3. e \in Entry /\ e.exp = exp /\ e.val = db[k].val
    BY <1>1, <2>1, <2>2, LruNowType DEF Entry
  <2>4. Fresh(e, now)
    BY <1>1, <1>6, <2>2, <2>3 DEF Fresh
  <2>5. db' = Written(db, k, e)
    BY <1>6, <2>1 DEF StoreInv, TableInv, Written
  <2> HIDE DEF e
  <2>6. View' = Written(View, k, Shown(e))
    BY <1>1, <2>3, <2>4, <2>5, UpdateView DEF StoreInv
  <2>7. [View[k] EXCEPT !.exp = exp] = Shown(e)
    BY <2>1, <2>3 DEF Shown
  <2>8. [View EXCEPT ![k].exp = exp] = Written(View, k, Shown(e))
    BY <2>7, Zenon DEF Written
  <2>9. c.map = View'
    BY <1>6, <2>1, <2>6, <2>8, Zenon DEF Abstract!ExpireCall, Abstract!Outcome
  <2> QED BY <1>4, <1>6, <2>9
<1> QED BY <1>3, <1>5, <1>6 DEF setExpireAt

\* clear is a flush.
LEMMA ClearIsFlush ==
    ASSUME clear
    PROVE  Abstract!Flush
<1>1. Abstract!Frame /\ ret' = ret
  BY CallFrame DEF clear
<1>2. ViewOf(db', now') = [k \in Keys |-> Absent]
  BY DEF clear, ViewOf
<1> QED BY <1>1, <1>2, ViewIsViewOf DEF Abstract!Flush

\* The clock moving is the only other thing readers notice.
LEMMA TickIsAdvance ==
    ASSUME StoreInv, tick
    PROVE  Abstract!Advance
<1>1. now \in Nat /\ now' \in Nat /\ now < now' /\ now' > now /\ db \in Tables /\ db' = db
  BY DEF tick, table, StoreInv, RestInv, TableInv, Tables
<1>2. ViewOf(db, now') = Abstract!At(ViewOf(db, now), now')
  BY <1>1, AdvanceView
<1>3. UNCHANGED <<maxKeys, cfg.policy = AllKeysLru, ret>>
  BY DEF tick, maxKeys, resolveMaxKeys
<1> QED BY <1>1, <1>2, <1>3, ViewIsViewOf DEF Abstract!Advance

\* The expire cycle is invisible.
LEMMA CycleIsInvisible ==
    ASSUME StoreInv, cycleStart \/ cycleBucket \/ cyclePass
    PROVE  UNCHANGED Abstract!vars
<1>1. UNCHANGED <<cfg, now, ret>>
  BY DEF cycleStart, cycleBucket, cyclePass
<1>2. Abstract!Frame
  BY <1>1, CallFrame
<1>3. View' = View
  <2>1. CASE cycleStart \/ cyclePass
    <3>1. db' = db
      BY <2>1 DEF cycleStart, cyclePass, table
    <3> QED BY <1>1, <3>1, ViewIsViewOf
  <2>2. CASE cycleBucket
    <3> DEFINE dead == DeadAmong({k \in Present : Bucket(k) = cursor % bucketCount})
    <3>1. db' = Without(db, dead)
      BY <2>2 DEF cycleBucket, remove
    <3>2. \A k \in dead : Dead(k)
      BY DEF DeadAmong
    <3> HIDE DEF dead
    <3> QED BY <1>1, <3>1, <3>2, ReapView DEF StoreInv
  <2> QED BY <2>1, <2>2
<1> QED BY <1>1, <1>2, <1>3 DEF Abstract!vars, Abstract!Frame

\* Every step of Store is one of ExpiringMap, or leaves it as it is.
LEMMA StepImplements ==
    StoreInv /\ StoreInv' /\ [Next]_vars => [Abstract!Next]_(Abstract!vars)
<1> SUFFICES ASSUME StoreInv, StoreInv', [Next]_vars
             PROVE  Abstract!Next \/ UNCHANGED Abstract!vars
  OBVIOUS
<1>1. ASSUME NEW k \in Keys, NEW touch \in BOOLEAN, find(k, touch) PROVE Abstract!Next
  BY <1>1, FindIsGet DEF Abstract!Next
<1>2. ASSUME NEW k \in Keys, NEW v \in Values,
             NEW exp \in Deadlines \cup {kNoExpiry, kKeepTtl}, set(k, v, exp)
      PROVE  Abstract!Next
  <2>1. exp \in Abstract!Deadlines \cup {Abstract!Forever, Abstract!Keep}
    BY DEF Deadlines, Abstract!Deadlines, Abstract!Forever, Abstract!Keep, kNoExpiry, kKeepTtl
  <2>2. Abstract!Put(k, v, exp)
    BY <1>2, SetIsPut
  <2> QED BY <2>1, <2>2, Zenon DEF Abstract!Next
<1>3. ASSUME NEW k \in Keys, erase(k) PROVE Abstract!Next
  BY <1>3, EraseIsDel DEF Abstract!Next
<1>4. ASSUME NEW k \in Keys, NEW exp \in Deadlines, setExpireAt(k, exp) PROVE Abstract!Next
  <2>1. exp \in Abstract!Deadlines
    BY DEF Deadlines, Abstract!Deadlines
  <2>2. Abstract!Expire(k, exp)
    BY <1>4, SetExpireAtIsExpire
  <2> QED BY <2>1, <2>2, Zenon DEF Abstract!Next
<1>5. ASSUME NEW k \in Keys, ttlMs(k) PROVE Abstract!Next
  BY <1>5, TtlMsIsTtl DEF Abstract!Next
<1>6. CASE clear
  BY <1>6, ClearIsFlush DEF Abstract!Next
<1>7. CASE cycleStart \/ cycleBucket \/ cyclePass
  BY <1>7, CycleIsInvisible
<1>8. CASE tick
  BY <1>8, TickIsAdvance DEF Abstract!Next
<1>9. CASE UNCHANGED vars
  <2>1. UNCHANGED <<cfg, now, ret, db>>
    BY <1>9 DEF vars
  <2>2. View' = View /\ Abstract!Frame
    BY <2>1, CallFrame, ViewIsViewOf
  <2> QED BY <2>1, <2>2 DEF Abstract!vars, Abstract!Frame
<1> QED BY <1>1, <1>2, <1>3, <1>4, <1>5, <1>6, <1>7, <1>8, <1>9 DEF Next

\* A store starts out as an empty map.
LEMMA InitImplements == Init => Abstract!Init
<1> SUFFICES ASSUME Init PROVE Abstract!Init
  OBVIOUS
<1>1. ViewOf(db, now) = [k \in Keys |-> Absent]
  BY DEF Init, ViewOf
<1>2. maxKeys \in Nat
  BY StoreAssumption DEF Init, maxKeys, resolveMaxKeys, ConfigType
<1>3. (cfg.policy = AllKeysLru) \in BOOLEAN
  OBVIOUS
<1> QED BY <1>1, <1>2, <1>3, ViewIsViewOf DEF Init, Abstract!Init, Nil

\* Store implements ExpiringMap: lazy expiry, the expire cycle, sampling and the
\* growth of the table are invisible, and readers see exactly the keys whose
\* deadline has not passed.
THEOREM StoreImplementsExpiringMap ==
    ASSUME ConfigsFitPool
    PROVE  Spec => ImplementsExpiringMap
<1>1. Init => Abstract!Init
  BY InitImplements
<1>2. StoreInv /\ StoreInv' /\ [Next]_vars => [Abstract!Next]_(Abstract!vars)
  BY StepImplements
<1> QED BY <1>1, <1>2, StoreInvariant, PTL DEF Spec, ImplementsExpiringMap, Abstract!Spec

\* Store::set stores what it was given under the key it was given, and costs at
\* most one other; setExpireAt moves the deadline of its own key only.
THEOREM CallsKeepTheirArguments ==
    ASSUME ConfigsFitPool
    PROVE  Spec => WritesWhatItWasGiven
<1> DEFINE A == /\ \A k \in Keys, v \in Values, exp \in Deadlines \cup {kNoExpiry, kKeepTtl} :
                      set(k, v, exp) => Abstract!Put(k, v, exp)
                /\ \A k \in Keys, exp \in Deadlines : setExpireAt(k, exp) => Abstract!Expire(k, exp)
<1>1. StoreInv /\ StoreInv' /\ [Next]_vars => [A]_vars
  BY SetIsPut, SetExpireAtIsExpire
<1> QED BY <1>1, StoreInvariant, PTL DEF Spec, WritesWhatItWasGiven

-----------------------------------------------------------------------------
(* What is counted.                                                        *)

\* Between cycles their locals are those of no cycle.
IdleCycle == Idle => cycle = NoCycle

\* activeExpireCycle leaves no count behind that expiredKeys_ has not taken.
LEMMA IdleCycleInvariant == Spec => []IdleCycle
<1>1. Init => IdleCycle
  BY DEF Init, IdleCycle
<1>2. IdleCycle /\ [Next]_vars => IdleCycle'
  <2> SUFFICES ASSUME IdleCycle, [Next]_vars PROVE IdleCycle'
    OBVIOUS
  <2>1. CASE UNCHANGED <<pc, cycle>>
    BY <2>1 DEF IdleCycle, Idle
  <2>2. ASSUME NEW k \in Keys, NEW v \in Values,
               NEW exp \in Deadlines \cup {kNoExpiry, kKeepTtl}, set(k, v, exp)
        PROVE  IdleCycle'
    <3>1. Idle /\ UNCHANGED cycle
      BY <2>2 DEF set, setPast, setOverwrite, setInsert, setRefused, setEvicts
    <3> QED BY <3>1 DEF IdleCycle, Idle
  <2>3. CASE cycleStart
    BY <2>3 DEF cycleStart, IdleCycle, Idle
  <2>4. CASE cycleBucket
    BY <2>4 DEF cycleBucket, IdleCycle, Idle
  <2>5. CASE cyclePass
    BY <2>5 DEF cyclePass, IdleCycle, Idle
  <2>6. CASE UNCHANGED vars
    BY <2>1, <2>6 DEF vars
  <2>7. ASSUME NEW k \in Keys, NEW touch \in BOOLEAN, find(k, touch) PROVE IdleCycle'
    BY <2>1, <2>7 DEF find
  <2>8. ASSUME NEW k \in Keys, erase(k) \/ ttlMs(k) PROVE IdleCycle'
    BY <2>1, <2>8 DEF erase, ttlMs
  <2>9. ASSUME NEW k \in Keys, NEW exp, setExpireAt(k, exp) PROVE IdleCycle'
    BY <2>1, <2>9 DEF setExpireAt
  <2>10. CASE clear \/ tick
    BY <2>1, <2>10 DEF clear, tick
  <2> QED BY <2>2, <2>3, <2>4, <2>5, <2>6, <2>7, <2>8, <2>9, <2>10 DEF Next
<1> QED BY <1>1, <1>2, PTL DEF Spec

\* A counter that wraps has grown by what was added to it, modulo its width.
LEMMA CountedGrowth ==
    ASSUME NEW c \in Nat, NEW n \in Nat, NEW x \in Nat
    PROVE  /\ Counted(c, n) \in Nat
           /\ (Counted(c, n) + x - c - x) % CounterMod = n % CounterMod
           /\ (Counted(c, n) + 0 - c - n) % CounterMod = 0
<1> DEFINE M == CounterMod
           q == (c + n) \div M
           r == (c + n) % M
<1>1. M \in Nat \ {0}
  BY StoreAssumption
<1>2. q \in Int /\ r \in Nat /\ c + n = M * q + r
  BY <1>1, Z3
<1>3. Counted(c, n) = r
  BY DEF Counted
<1> HIDE DEF M, q, r
<1>4. ASSUME NEW a \in Int, NEW b \in Int PROVE (a + M * b) % M = a % M
  BY <1>1, RemainderShift
<1>5. r - c = n + M * (-q) /\ r - c - n = 0 + M * (-q)
  BY <1>1, <1>2, Z3
<1>6. (n + M * (-q)) % M = n % M /\ (0 + M * (-q)) % M = 0 % M
  BY <1>2, <1>4
<1>7. 0 % M = 0
  BY <1>1, Z3
<1>8. r + x - c - x = r - c /\ r + 0 - c - n = r - c - n
  BY <1>2
<1> QED BY <1>2, <1>3, <1>5, <1>6, <1>7, <1>8 DEF M

\* The expired entries a step drops, and that the counters grow by their number.
Reaped == {k \in Present : Dead(k) /\ db'[k] # db[k]}
ReapedAreCounted ==
    (expiredKeys' + cycle'.expired - expiredKeys - cycle.expired) % CounterMod
       = Cardinality(Reaped) % CounterMod

\* Counting the entries it drops is all a call has to do.
LEMMA CountingSuffices ==
    ASSUME StoreInv, UNCHANGED cycle, NEW R, R \subseteq Keys, Reaped = R,
           expiredKeys' = Counted(expiredKeys, Cardinality(R))
    PROVE  ReapedAreCounted
<1>1. Cardinality(R) \in Nat
  BY KeySetsFinite
<1>2. cycle.expired \in Nat /\ expiredKeys \in Nat
  BY StoreAssumption DEF StoreInv, RestInv, Cycle
<1>3. (Counted(expiredKeys, Cardinality(R)) + cycle.expired - expiredKeys - cycle.expired)
         % CounterMod = Cardinality(R) % CounterMod
  BY <1>1, <1>2, CountedGrowth
<1> QED BY <1>3 DEF ReapedAreCounted

\* A step that drops no expired entry need not count.
LEMMA NothingToCount ==
    ASSUME StoreInv, Reaped = {}, UNCHANGED expiredKeys, cycle'.expired = cycle.expired
    PROVE  ReapedAreCounted
<1>1. cycle.expired \in Nat /\ expiredKeys \in Nat
  BY StoreAssumption DEF StoreInv, RestInv, Cycle
<1>2. expiredKeys + cycle.expired - expiredKeys - cycle.expired = 0
  BY <1>1
<1> QED BY <1>2, FS_EmptySet DEF ReapedAreCounted

\* Removing entries reaps the expired ones among them.
LEMMA RemovedReaped ==
    ASSUME TableInv, NEW R, R \subseteq Present, db' = Without(db, R)
    PROVE  Reaped = DeadAmong(R)
BY DEF TableInv, Without, Reaped, DeadAmong, Dead, Present

\* So does removing some and storing a fresh one under a key that is free then.
LEMMA StoredReaped ==
    ASSUME TableInv, NEW R, R \subseteq Present, NEW k \in Keys, k \notin Present \ R,
           NEW e \in Entry, Fresh(e, now), db' = Written(Without(db, R), k, e)
    PROVE  Reaped = DeadAmong(R)
<1>1. \A j \in Keys : db'[j] = IF j = k THEN e ELSE IF j \in R THEN Absent ELSE db[j]
  BY DEF Written, Without
<1>2. ASSUME NEW j \in Present, Dead(j) PROVE db'[j] # db[j] <=> j \in R
  <2>1. j \in Keys /\ db[j] # Absent /\ ~Fresh(db[j], now)
    BY <1>2 DEF Present, Dead, expired, Fresh
  <2>2. CASE j = k
    BY <1>1, <2>1, <2>2
  <2>3. CASE j # k
    BY <1>1, <2>1, <2>3
  <2> QED BY <2>2, <2>3
<1> QED BY <1>2 DEF Reaped, DeadAmong

\* Writing into an entry that is alive reaps nothing.
LEMMA UpdatedReaped ==
    ASSUME TableInv, NEW k, Alive(k), NEW e, db' = Written(db, k, e)
    PROVE  Reaped = {}
BY DEF TableInv, Written, Reaped, Alive, Dead, Present

\* A lookup that misses counts what it reaps.
LEMMA MissCounts ==
    ASSUME StoreInv, UNCHANGED cycle, NEW k \in Keys, lookupMisses(k)
    PROVE  ReapedAreCounted
<1> DEFINE L == lookupRemoves(k)
<1>1. L \subseteq Present /\ L \subseteq Keys /\ DeadAmong(L) = L
  BY LookupRemoves DEF lookupRemoves, DeadAmong, Present
<1>2. db' = Without(db, L) /\ expiredKeys' = Counted(expiredKeys, Cardinality(L))
  BY DEF lookupMisses, remove
<1> HIDE DEF L
<1>3. Reaped = L
  BY <1>1, <1>2, RemovedReaped DEF StoreInv
<1> QED BY <1>1, <1>2, <1>3, CountingSuffices

\* Removing the entry of a key counts it only when it had expired.
LEMMA EraseCounts ==
    ASSUME StoreInv, UNCHANGED cycle, NEW k \in Keys, remove({k} \cap Present),
           expiredKeys' = Counted(expiredKeys, Cardinality(lookupRemoves(k)))
    PROVE  ReapedAreCounted
<1>1. lookupRemoves(k) \subseteq Keys
  BY LookupRemoves DEF Present
<1>2. DeadAmong({k} \cap Present) = lookupRemoves(k)
  BY DEF lookupRemoves, DeadAmong, Dead
<1>3. Reaped = DeadAmong({k} \cap Present)
  BY RemovedReaped DEF StoreInv, remove
<1> QED BY <1>1, <1>2, <1>3, CountingSuffices

\* Every path of set counts what it reaps, once.
LEMMA SetCounts ==
    ASSUME StoreInv, StoreInv', NEW k \in Keys, NEW v \in Values,
           NEW exp \in Deadlines \cup {kNoExpiry, kKeepTtl}, set(k, v, exp)
    PROVE  ReapedAreCounted
<1> DEFINE L == lookupRemoves(k)
           e == NewEntry(v, exp)
<1>1. L \subseteq Present /\ L \subseteq Keys /\ DeadAmong(L) = L
      /\ (~Alive(k) => k \notin Present \ L)
  BY LookupRemoves DEF lookupRemoves, DeadAmong, Present
<1>2. pc' # "crashed" /\ now \in Nat
  BY DEF StoreInv, RestInv
<1>3. CASE setPast(k, exp)
  BY <1>3, EraseCounts DEF setPast
<1>4. CASE setOverwrite(k, v, exp)
  <2>1. \E x : db' = Written(db, k, x)
    BY <1>4 DEF setOverwrite, Written
  <2>2. Reaped = {}
    BY <1>4, <2>1, UpdatedReaped DEF StoreInv, setOverwrite
  <2> QED BY <1>4, <2>2, NothingToCount DEF setOverwrite
<1>5. CASE setInsert(k, v, exp)
  <2>1. /\ ~Past(exp) /\ ~Alive(k) /\ insert(k, e, L) /\ UNCHANGED cycle
        /\ expiredKeys' = Counted(expiredKeys, Cardinality(L))
    BY <1>5 DEF setInsert
  <2>2. e \in Entry /\ Fresh(e, now)
    BY <1>2, <2>1, NewEntryFresh
  <2> HIDE DEF L, e
  <2>3. db' = Written(Without(db, L), k, e)
    BY <1>2, <2>1, InsertStores
  <2>4. Reaped = L
    BY <1>1, <2>1, <2>2, <2>3, StoredReaped DEF StoreInv
  <2> QED BY <1>1, <2>1, <2>4, CountingSuffices
<1>6. CASE setRefused(k, exp)
  BY <1>6, MissCounts DEF setRefused
<1>7. CASE setEvicts(k, v, exp)
  <2>1. ~Past(exp) /\ ~Alive(k) /\ UNCHANGED cycle
    BY <1>7 DEF setEvicts
  <2>2. PICK S \in sampleSome(Present \ L) : \E R \in Victims(S) :
            /\ insert(k, e, R \cup L)
            /\ expiredKeys' = Counted(expiredKeys, Cardinality(DeadAmong(R) \cup L))
    BY <1>7 DEF setEvicts
  <2>3. PICK R \in Victims(S) :
            /\ insert(k, e, R \cup L)
            /\ expiredKeys' = Counted(expiredKeys, Cardinality(DeadAmong(R) \cup L))
    BY <2>2
  <2>4. e \in Entry /\ Fresh(e, now)
    BY <1>2, <2>1, NewEntryFresh
  <2>5. R \subseteq Present \ L
    BY VictimsFound
  <2>6. DeadAmong(R \cup L) = DeadAmong(R) \cup L
    BY <1>1 DEF DeadAmong
  <2>7. DeadAmong(R) \cup L \subseteq Keys
    BY <1>1, <2>5 DEF DeadAmong, Present
  <2> HIDE DEF L, e
  <2>8. db' = Written(Without(db, R \cup L), k, e)
    BY <1>2, <2>3, InsertStores
  <2>9. Reaped = DeadAmong(R) \cup L
    <3>1. R \cup L \subseteq Present /\ k \notin Present \ (R \cup L)
      BY <1>1, <2>1, <2>5
    <3> QED BY <2>4, <2>6, <2>8, <3>1, StoredReaped DEF StoreInv
  <2> QED BY <2>1, <2>3, <2>7, <2>9, CountingSuffices
<1> QED BY <1>3, <1>4, <1>5, <1>6, <1>7 DEF set

\* A step that leaves the table alone reaps nothing.
LEMMA SameReaped == ASSUME UNCHANGED db PROVE Reaped = {}
BY DEF Reaped

\* The expire cycle counts at the end of a pass what the pass has dropped.
LEMMA CycleCountsReaped ==
    ASSUME StoreInv, IdleCycle, cycleStart \/ cycleBucket \/ cyclePass
    PROVE  ReapedAreCounted
<1>1. cycle.expired \in Nat /\ expiredKeys \in Nat
  BY StoreAssumption DEF StoreInv, RestInv, Cycle
<1>2. CASE cycleStart
  <2>1. cycle = NoCycle /\ cycle' = FirstPass /\ UNCHANGED <<db, expiredKeys>>
    BY <1>2 DEF cycleStart, IdleCycle, table
  <2>2. cycle.expired = 0 /\ cycle'.expired = 0
    BY <2>1 DEF FirstPass, NoCycle
  <2> QED BY <2>1, <2>2, SameReaped, NothingToCount
<1>3. CASE cycleBucket
  <2> DEFINE dead == DeadAmong({k \in Present : Bucket(k) = cursor % bucketCount})
  <2>1. db' = Without(db, dead) /\ UNCHANGED expiredKeys
    BY <1>3 DEF cycleBucket, remove
  <2>2. cycle'.expired = cycle.expired + Cardinality(dead)
    BY <1>3 DEF cycleBucket, StoreInv, RestInv, Cycle
  <2>3. dead \subseteq Present /\ dead \subseteq Keys /\ DeadAmong(dead) = dead
    BY DEF DeadAmong, Present
  <2> HIDE DEF dead
  <2>4. Reaped = dead /\ Cardinality(dead) \in Nat
    BY <2>1, <2>3, RemovedReaped, KeySetsFinite DEF StoreInv
  <2>5. expiredKeys + (cycle.expired + Cardinality(dead)) - expiredKeys - cycle.expired
           = Cardinality(dead)
    BY <1>1, <2>4
  <2> QED BY <2>1, <2>2, <2>4, <2>5 DEF ReapedAreCounted
<1>4. CASE cyclePass
  <2>1. UNCHANGED db /\ expiredKeys' = Counted(expiredKeys, cycle.expired)
    BY <1>4 DEF cyclePass, table
  <2>2. cycle'.expired = 0
    <3>1. cycle' = NoCycle \/ cycle' = [NoCycle EXCEPT !.passes = cycle.passes + 1]
      BY <1>4 DEF cyclePass
    <3> QED BY <3>1 DEF NoCycle
  <2>3. (Counted(expiredKeys, cycle.expired) + 0 - expiredKeys - cycle.expired) % CounterMod = 0
    BY <1>1, CountedGrowth
  <2>4. Cardinality(Reaped) = 0 /\ 0 % CounterMod = 0
    BY <2>1, SameReaped, FS_EmptySet, StoreAssumption
  <2> QED BY <2>1, <2>2, <2>3, <2>4 DEF ReapedAreCounted
<1> QED BY <1>2, <1>3, <1>4

\* Every entry dropped because its deadline passed is counted once in
\* expiredKeys_, whichever path drops it, and nothing else is.
THEOREM ExpiriesAreCounted ==
    ASSUME ConfigsFitPool
    PROVE  Spec => ExpiryCounted
<1> DEFINE A == clear \/ LET reaped == {k \in Present : Dead(k) /\ db'[k] # db[k]}
                         IN  (expiredKeys' + cycle'.expired - expiredKeys - cycle.expired)
                                % CounterMod = Cardinality(reaped) % CounterMod
<1>1. StoreInv /\ IdleCycle /\ StoreInv' /\ [Next]_vars => [A]_vars
  <2> SUFFICES ASSUME StoreInv, IdleCycle, StoreInv', Next, ~clear PROVE ReapedAreCounted
    BY DEF ReapedAreCounted, Reaped
  <2>1. ASSUME NEW k \in Keys, NEW touch \in BOOLEAN, find(k, touch) PROVE ReapedAreCounted
    <3>1. CASE lookupMisses(k)
      BY <2>1, <3>1, MissCounts DEF find
    <3>2. CASE /\ Alive(k) /\ db' = IF touch THEN [db EXCEPT ![k].lru = lruNow] ELSE db
               /\ UNCHANGED <<expiredKeys, cycle>>
      <4>1. CASE touch
        <5>1. \E x : db' = Written(db, k, x)
          BY <3>2, <4>1 DEF Written
        <5> QED BY <3>2, <5>1, UpdatedReaped, NothingToCount DEF StoreInv
      <4>2. CASE ~touch
        BY <3>2, <4>2, SameReaped, NothingToCount
      <4> QED BY <4>1, <4>2
    <3> QED BY <2>1, <3>1, <3>2 DEF find
  <2>2. ASSUME NEW k \in Keys, NEW v \in Values,
               NEW exp \in Deadlines \cup {kNoExpiry, kKeepTtl}, set(k, v, exp)
        PROVE  ReapedAreCounted
    BY <2>2, SetCounts
  <2>3. ASSUME NEW k \in Keys, erase(k) PROVE ReapedAreCounted
    BY <2>3, EraseCounts DEF erase
  <2>4. ASSUME NEW k \in Keys, NEW exp \in Deadlines, setExpireAt(k, exp) PROVE ReapedAreCounted
    <3>1. UNCHANGED cycle
      BY <2>4 DEF setExpireAt
    <3>2. CASE lookupMisses(k)
      BY <3>1, <3>2, MissCounts
    <3>3. CASE Alive(k) /\ remove({k}) /\ UNCHANGED expiredKeys
      <4>1. {k} \subseteq Present /\ DeadAmong({k}) = {}
        BY <3>3 DEF Alive, DeadAmong, Dead
      <4>2. Reaped = {}
        BY <3>3, <4>1, RemovedReaped DEF StoreInv, remove
      <4> QED BY <3>1, <3>3, <4>2, NothingToCount
    <3>4. CASE /\ Alive(k) /\ UNCHANGED expiredKeys
               /\ db' = [db EXCEPT ![k].exp = exp, ![k].lru = lruNow]
      <4>1. \E x : db' = Written(db, k, x)
        <5>1. db \in Tables /\ k \in Keys
          BY DEF StoreInv, TableInv, Tables
        <5>2. db' = Written(db, k, [db[k] EXCEPT !.exp = exp, !.lru = lruNow])
          BY <3>4, <5>1 DEF Written, Tables
        <5> QED BY <5>2
      <4> QED BY <3>1, <3>4, <4>1, UpdatedReaped, NothingToCount DEF StoreInv
    <3> QED BY <2>4, <3>2, <3>3, <3>4 DEF setExpireAt
  <2>5. ASSUME NEW k \in Keys, ttlMs(k) PROVE ReapedAreCounted
    BY <2>5, MissCounts, SameReaped, NothingToCount DEF ttlMs
  <2>6. CASE cycleStart \/ cycleBucket \/ cyclePass
    BY <2>6, CycleCountsReaped
  <2>7. CASE tick
    BY <2>7, SameReaped, NothingToCount DEF tick, table
  <2> QED BY <2>1, <2>2, <2>3, <2>4, <2>5, <2>6, <2>7 DEF Next
<1> QED BY <1>1, StoreInvariant, IdleCycleInvariant, PTL DEF Spec, ExpiryCounted

-----------------------------------------------------------------------------
(* Evictions.                                                              *)

\* What evictOne gives up for a new key, when it counts an eviction: y, the
\* longest idle of a sample without an expired entry, in a full table.
GivesUp(y, k) ==
    /\ cfg.policy = AllKeysLru
    /\ liveCount = maxKeys /\ liveCount' = liveCount
    /\ k \in Keys \ Present
    /\ \E e \in Entry : db' = Written(Without(db, {y}), k, e)
    /\ \E S \in sampleSome(Present) :
          /\ y \in S /\ DeadAmong(S) = {}
          /\ \A z \in S : idle(db[y]) >= idle(db[z])

\* A set that counts an eviction has found the table full before lookup could
\* drop anything, and has reaped nothing.
LEMMA SetGivesUp ==
    ASSUME StoreInv, StoreInv', NEW k \in Keys, NEW v \in Values,
           NEW exp \in Deadlines \cup {kNoExpiry, kKeepTtl}, set(k, v, exp),
           evictions' # evictions
    PROVE  \E y \in Present : GivesUp(y, k)
<1> DEFINE L == lookupRemoves(k)
           e == NewEntry(v, exp)
<1>1. setEvicts(k, v, exp)
  BY DEF set, setPast, setOverwrite, setInsert, setRefused
<1>2. ~Past(exp) /\ ~Alive(k) /\ Full(k) /\ cfg.policy = AllKeysLru
  BY <1>1 DEF setEvicts
<1>3. maxKeys \in Nat /\ liveCount \in Nat /\ liveCount <= maxKeys /\ evictions \in 0 .. CounterMod - 1
  BY StoreAssumption
     DEF StoreInv, TableInv, RestInv, WithinCap, maxKeys, resolveMaxKeys, ConfigType
<1>4. L \subseteq Keys /\ L \subseteq Present /\ Cardinality(L) \in Nat /\ k \notin Present \ L
  BY <1>2, LookupRemoves DEF Present
<1>5. liveCount = maxKeys /\ Cardinality(L) = 0
  BY <1>2, <1>3, <1>4 DEF Full
<1>6. L = {}
  BY <1>4, <1>5, KeySetsFinite, FS_EmptySet
<1>7. k \in Keys \ Present
  BY <1>4, <1>6
<1>8. PICK S \in sampleSome(Present \ L) : \E R \in Victims(S) :
          /\ insert(k, e, R \cup L)
          /\ evictions' = Counted(evictions, Cardinality(R \ (DeadAmong(R) \cup L)))
  BY <1>1 DEF setEvicts
<1>9. PICK R \in Victims(S) :
          /\ insert(k, e, R \cup L)
          /\ evictions' = Counted(evictions, Cardinality(R \ (DeadAmong(R) \cup L)))
  BY <1>8
<1>10. Present \ L = Present /\ R \cup L = R
  BY <1>6
<1>11. S \in sampleSome(Present) /\ insert(k, e, R)
  BY <1>8, <1>9, <1>10
<1>12. S \subseteq Present /\ R \subseteq Present
  <2>1. S \subseteq Present
    BY <1>11 DEF sampleSome
  <2> QED BY <1>11, <2>1, VictimsFound
<1>13. DeadAmong(S) = {}
  <2> SUFFICES ASSUME DeadAmong(S) # {} PROVE FALSE
    OBVIOUS
  <2>1. R = DeadAmong(S)
    BY <1>9 DEF Victims
  <2>2. R \ (DeadAmong(R) \cup L) = {}
    BY <2>1 DEF DeadAmong
  <2>3. evictions' = (evictions + 0) % CounterMod
    BY <1>9, <2>2, FS_EmptySet DEF Counted
  <2>4. evictions + 0 = evictions /\ evictions \in Nat /\ CounterMod \in Nat /\ evictions < CounterMod
    BY <1>3, StoreAssumption
  <2> QED BY <2>3, <2>4, SmallRemainder
<1>14. PICK y \in S : R = {y} /\ \A z \in S : idle(db[y]) >= idle(db[z])
  BY <1>9, <1>13 DEF Victims
<1>15. e \in Entry /\ pc' # "crashed"
  BY <1>2, NewEntryFresh DEF StoreInv, RestInv
<1> HIDE DEF e, L
<1>16. db' = Written(Without(db, R), k, e) /\ liveCount' = liveCount - Cardinality(R) + 1
  BY <1>11, <1>15, InsertStores
<1>17. liveCount' = liveCount
  <2>1. Cardinality(R) = 1
    BY <1>14, FS_Singleton
  <2> QED BY <1>3, <1>16, <2>1
<1>18. GivesUp(y, k)
  BY <1>2, <1>5, <1>7, <1>11, <1>13, <1>14, <1>15, <1>16, <1>17 DEF GivesUp
<1> QED BY <1>12, <1>18

\* Nothing but set evicts.
LEMMA OnlySetEvicts ==
    ASSUME Next, evictions' # evictions
    PROVE  \E k \in Keys, v \in Values, exp \in Deadlines \cup {kNoExpiry, kKeepTtl} :
              set(k, v, exp)
BY DEF Next, find, erase, setExpireAt, ttlMs, clear, cycleStart, cycleBucket, cyclePass, tick

\* Only the key given up leaves the table, and expired entries stay.
LEMMA OneLiveKeyGone ==
    ASSUME TableInv, NEW y \in Present, NEW k, GivesUp(y, k)
    PROVE  /\ {x \in Keys : Alive(x) /\ db'[x] = Absent} = {y}
           /\ {x \in Present : db'[x] = Absent} = {y}
           /\ \A x \in Keys : Dead(x) => db'[x] = db[x]
<1>1. PICK e \in Entry : db' = Written(Without(db, {y}), k, e)
  BY DEF GivesUp
<1>2. k \in Keys /\ k \notin Present /\ e # Absent
  BY <1>1, AbsentAssumption DEF GivesUp
<1>3. \A x \in Keys : db'[x] = IF x = k THEN e ELSE IF x = y THEN Absent ELSE db[x]
  BY <1>1 DEF Written, Without
<1>4. ~Dead(y)
  BY DEF GivesUp, DeadAmong
<1>5. Alive(y) /\ y \in Keys /\ y # k
  BY <1>2, <1>4 DEF Alive, Dead, Present
<1>6. \A x \in Keys : Alive(x) /\ db'[x] = Absent <=> x = y
  BY <1>2, <1>3, <1>5 DEF Alive, Present
<1>7. \A x \in Present : db'[x] = Absent <=> x = y
  BY <1>2, <1>3, <1>5 DEF Present
<1>8. \A x \in Keys : Dead(x) => db'[x] = db[x]
  BY <1>2, <1>3, <1>4 DEF Dead
<1> QED BY <1>5, <1>6, <1>7, <1>8

\* An eviction is the last resort: the table is full, one live key pays for the
\* new one, and no expired entry went in the same call.
THEOREM EvictsAsLastResort ==
    ASSUME ConfigsFitPool
    PROVE  Spec => EvictionIsLastResort
<1> DEFINE A == evictions' # evictions =>
                  /\ cfg.policy = AllKeysLru
                  /\ liveCount = maxKeys /\ liveCount' = liveCount
                  /\ Cardinality({k \in Keys : Alive(k) /\ db'[k] = Absent}) = 1
                  /\ \A k \in Keys : Dead(k) => db'[k] = db[k]
<1>1. StoreInv /\ StoreInv' /\ [Next]_vars => [A]_vars
  <2> SUFFICES ASSUME StoreInv, StoreInv', Next, evictions' # evictions PROVE A
    OBVIOUS
  <2>1. PICK k \in Keys, y \in Present : GivesUp(y, k)
    BY OnlySetEvicts, SetGivesUp
  <2>2. /\ {x \in Keys : Alive(x) /\ db'[x] = Absent} = {y}
        /\ \A x \in Keys : Dead(x) => db'[x] = db[x]
    BY <2>1, OneLiveKeyGone DEF StoreInv
  <2>3. Cardinality({x \in Keys : Alive(x) /\ db'[x] = Absent}) = 1
    BY <2>2, FS_Singleton
  <2> QED BY <2>1, <2>2, <2>3 DEF GivesUp
<1> QED BY <1>1, StoreInvariant, PTL DEF Spec, EvictionIsLastResort

-----------------------------------------------------------------------------
(* The least recently used key.                                            *)

\* Every entry is stamped with the instant of its last use, modulo the width of
\* the clock, and no key was used in the future.
LruInv ==
    /\ used \in [Keys -> Nat]
    /\ \A k \in Keys : used[k] <= now
    /\ \A k \in Keys : db[k] # Absent => db[k].lru = used[k] % LruMod

\* The history variable does not constrain the store.
LEMMA LruSpecIsStore == LruSpec => Spec
<1>1. LruInit => Init
  BY DEF LruInit
<1>2. [LruNext]_lruVars => [Next]_vars
  <2>1. LruNext => Next
    BY DEF LruNext, Next
  <2>2. UNCHANGED lruVars => UNCHANGED vars
    BY DEF lruVars
  <2> QED BY <2>1, <2>2
<1> QED BY <1>1, <1>2, PTL DEF LruSpec, Spec

Kept(k) == db'[k] = db[k] \/ db'[k] = Absent

\* Dropping entries, and letting time pass, leaves the other stamps right.
LEMMA DroppingKeepsStamps ==
    ASSUME LruInv, now \in Nat, now' \in Nat, now' >= now, UNCHANGED used,
           \A k \in Keys : Kept(k)
    PROVE  LruInv'
<1>1. \A k \in Keys : used[k] <= now'
  BY DEF LruInv
<1> QED BY <1>1 DEF LruInv, Kept

\* A call that uses k stamps its entry, or leaves it missing.
LEMMA UsingKeepsStamps ==
    ASSUME LruInv, now \in Nat, now' = now, NEW k \in Keys, Uses(k),
           \A j \in Keys \ {k} : Kept(j),
           db'[k] = Absent \/ db'[k].lru = lruNow
    PROVE  LruInv'
<1>1. used' \in [Keys -> Nat] /\ used'[k] = now /\ \A j \in Keys \ {k} : used'[j] = used[j]
  BY DEF LruInv, Uses
<1>2. \A j \in Keys : used'[j] <= now'
  BY <1>1 DEF LruInv
<1>3. \A j \in Keys : db'[j] # Absent => db'[j].lru = used'[j] % LruMod
  BY <1>1 DEF LruInv, Kept, lruNow
<1> QED BY <1>1, <1>2, <1>3 DEF LruInv

\* What removing keys does to each of them.
LEMMA RemoveKeeps ==
    ASSUME NEW R, db' = Without(db, R)
    PROVE  \A k \in Keys : Kept(k) /\ (k \in R => db'[k] = Absent)
BY DEF Without, Kept

\* A lookup that misses leaves the key missing.
LEMMA MissKeeps ==
    ASSUME NEW k \in Keys, lookupMisses(k)
    PROVE  (\A j \in Keys : Kept(j)) /\ db'[k] = Absent
<1>1. db' = Without(db, lookupRemoves(k)) /\ ~Alive(k)
  BY DEF lookupMisses, remove
<1>2. db[k] = Absent \/ k \in lookupRemoves(k)
  BY <1>1 DEF Alive, lookupRemoves, DeadAmong, Dead, Present
<1> QED BY <1>1, <1>2, RemoveKeeps DEF Kept

\* Writing e under k, other keys dropped or not.
LEMMA WriteKeeps ==
    ASSUME TableInv, NEW k \in Keys, NEW e,
           (db' = Written(db, k, e)) \/ (\E R : db' = Written(Without(db, R), k, e))
    PROVE  (\A j \in Keys \ {k} : Kept(j)) /\ db'[k] = e
BY DEF TableInv, Written, Without, Kept

\* Every path of set stamps the key it was given, or leaves it missing.
LEMMA SetStamps ==
    ASSUME StoreInv, StoreInv', NEW k \in Keys, NEW v, NEW exp, set(k, v, exp)
    PROVE  /\ now' = now
           /\ \A j \in Keys \ {k} : Kept(j)
           /\ db'[k] = Absent \/ db'[k].lru = lruNow
<1> DEFINE e == NewEntry(v, exp)
<1>1. pc' # "crashed" /\ TableInv /\ e.lru = lruNow
  BY DEF StoreInv, RestInv, NewEntry
<1>2. CASE setPast(k, exp)
  <2>1. db' = Without(db, {k} \cap Present) /\ now' = now
    BY <1>2 DEF setPast, remove
  <2>2. db'[k] = Absent
    BY <2>1 DEF Without, Present
  <2> QED BY <2>1, <2>2, RemoveKeeps
<1>3. CASE setOverwrite(k, v, exp)
  <2> DEFINE x == [val |-> v, exp |-> IF exp = kKeepTtl THEN db[k].exp ELSE exp,
                   lru |-> lruNow]
  <2>1. db' = Written(db, k, x) /\ now' = now
    BY <1>3 DEF setOverwrite, Written
  <2>2. x.lru = lruNow
    OBVIOUS
  <2> HIDE DEF x
  <2> QED BY <1>1, <2>1, <2>2, WriteKeeps
<1>4. CASE setInsert(k, v, exp) \/ setEvicts(k, v, exp)
  <2>1. now' = now /\ \E R : insert(k, e, R)
    BY <1>4 DEF setInsert, setEvicts
  <2> HIDE DEF e
  <2>2. \E R : db' = Written(Without(db, R), k, e)
    BY <1>1, <2>1, InsertStores
  <2> QED BY <1>1, <2>1, <2>2, WriteKeeps
<1>5. CASE setRefused(k, exp)
  BY <1>5, MissKeeps DEF setRefused
<1> QED BY <1>2, <1>3, <1>4, <1>5 DEF set

\* So does a find that touches.
LEMMA FindStamps ==
    ASSUME StoreInv, NEW k \in Keys, find(k, TRUE)
    PROVE  /\ now' = now
           /\ \A j \in Keys \ {k} : Kept(j)
           /\ db'[k] = Absent \/ db'[k].lru = lruNow
<1>1. CASE lookupMisses(k)
  BY <1>1, MissKeeps DEF find
<1>2. CASE Alive(k) /\ db' = [db EXCEPT ![k].lru = lruNow]
  <2> DEFINE x == [db[k] EXCEPT !.lru = lruNow]
  <2>1. db[k] \in Entry
    BY <1>2, AliveEntry DEF StoreInv
  <2>2. db' = Written(db, k, x) /\ x.lru = lruNow
    BY <1>2, <2>1 DEF Written, Entry
  <2> HIDE DEF x
  <2> QED BY <2>2, WriteKeeps DEF StoreInv, find
<1> QED BY <1>1, <1>2 DEF find

\* And a new deadline, which sets the stamp as well.
LEMMA ExpireStamps ==
    ASSUME StoreInv, NEW k \in Keys, NEW exp, setExpireAt(k, exp)
    PROVE  /\ now' = now
           /\ \A j \in Keys \ {k} : Kept(j)
           /\ db'[k] = Absent \/ db'[k].lru = lruNow
<1>1. now' = now
  BY DEF setExpireAt
<1>2. CASE lookupMisses(k)
  BY <1>1, <1>2, MissKeeps
<1>3. CASE remove({k})
  BY <1>1, <1>3, RemoveKeeps DEF remove
<1>4. CASE Alive(k) /\ db' = [db EXCEPT ![k].exp = exp, ![k].lru = lruNow]
  <2> DEFINE x == [db[k] EXCEPT !.exp = exp, !.lru = lruNow]
  <2>1. db[k] \in Entry
    BY <1>4, AliveEntry DEF StoreInv
  <2>2. db' = Written(db, k, x)
    BY <1>4 DEF Written, StoreInv, TableInv
  <2>3. x.lru = lruNow
    BY <2>1 DEF Entry
  <2> HIDE DEF x
  <2> QED BY <1>1, <2>2, <2>3, WriteKeeps DEF StoreInv
<1> QED BY <1>2, <1>3, <1>4 DEF setExpireAt

\* The stamps stay right: no call uses a key without stamping it, and what only
\* inspects (find without touch, ttlMs) leaves the stamp alone.
LEMMA StampsInvariant ==
    ASSUME ConfigsFitPool
    PROVE  LruSpec => [](StoreInv /\ LruInv)
<1>1. LruInit => LruInv
  BY DEF LruInit, Init, LruInv
<1>2. StoreInv /\ StoreInv' /\ LruInv /\ [LruNext]_lruVars => LruInv'
  <2> SUFFICES ASSUME StoreInv, StoreInv', LruInv, [LruNext]_lruVars PROVE LruInv'
    OBVIOUS
  <2>0. now \in Nat /\ now' \in Nat
    BY DEF StoreInv, RestInv
  <2>1. CASE UNCHANGED lruVars
    BY <2>1 DEF lruVars, vars, LruInv
  <2>2. ASSUME NEW k \in Keys, find(k, TRUE), Uses(k) PROVE LruInv'
    BY <2>0, <2>2, FindStamps, UsingKeepsStamps
  <2>3. ASSUME NEW k \in Keys, NEW v, NEW exp, set(k, v, exp), Uses(k) PROVE LruInv'
    BY <2>0, <2>3, SetStamps, UsingKeepsStamps
  <2>4. ASSUME NEW k \in Keys, NEW exp, setExpireAt(k, exp), Uses(k) PROVE LruInv'
    BY <2>0, <2>4, ExpireStamps, UsingKeepsStamps
  <2>5. ASSUME NEW k \in Keys, find(k, FALSE) \/ erase(k) \/ ttlMs(k), UNCHANGED used
        PROVE  LruInv'
    <3>1. now' = now
      BY <2>5 DEF find, erase, ttlMs
    <3>2. CASE lookupMisses(k)
      BY <2>0, <2>5, <3>1, <3>2, MissKeeps, DroppingKeepsStamps
    <3>3. CASE \E R : db' = Without(db, R)
      BY <2>0, <2>5, <3>1, <3>3, RemoveKeeps, DroppingKeepsStamps
    <3>4. CASE db' = db
      BY <2>0, <2>5, <3>1, <3>4, DroppingKeepsStamps DEF Kept
    <3> QED BY <2>5, <3>2, <3>3, <3>4 DEF find, erase, ttlMs, remove
  <2>6. CASE UNCHANGED used /\ clear
    BY <2>0, <2>6, DroppingKeepsStamps DEF clear, Kept
  <2>7. CASE UNCHANGED used /\ cycleBucket
    <3>1. now' = now /\ \E R : db' = Without(db, R)
      BY <2>7 DEF cycleBucket, remove
    <3> QED BY <2>0, <2>7, <3>1, RemoveKeeps, DroppingKeepsStamps
  <2>8. CASE UNCHANGED used /\ (cycleStart \/ cyclePass \/ tick)
    BY <2>0, <2>8, DroppingKeepsStamps DEF cycleStart, cyclePass, tick, table, Kept
  <2> QED BY <2>1, <2>2, <2>3, <2>4, <2>5, <2>6, <2>7, <2>8 DEF LruNext
<1>3. Spec => []StoreInv
  BY StoreInvariant
<1> QED BY <1>1, <1>2, <1>3, LruSpecIsStore, PTL DEF LruSpec

\* Within one lap of the 32-bit clock, the difference of the stamps is the true
\* idle time, also across the rollover.
LEMMA IdleIsTrue ==
    ASSUME LruInv, now \in Nat, NEW k \in Present, now - used[k] < LruMod
    PROVE  idle(db[k]) = now - used[k] /\ used[k] \in Nat
<1> DEFINE M == LruMod
           u == used[k]
           q == u \div M
<1>1. M \in Nat \ {0} /\ u \in Nat /\ u <= now /\ db[k].lru = u % M /\ now - u < M
  BY StoreAssumption DEF LruInv, Present
<1>2. q \in Int /\ u = M * q + (u % M) /\ u % M \in Nat
  <2> HIDE DEF u, M
  <2> QED BY <1>1, Z3
<1> HIDE DEF u, M, q
<1>3. now - (u % M) = (now - u) + M * q
  <2> DEFINE z == M * q
             r == u % M
  <2>1. u = z + r /\ r \in Nat /\ z \in Int
    BY <1>1, <1>2, Z3
  <2> HIDE DEF z, r
  <2>2. now - r = (now - u) + z
    BY <1>1, <2>1
  <2> QED BY <2>2 DEF z, r
<1>4. ((now - u) + M * q) % M = (now - u) % M
  <2>1. ASSUME NEW a \in Int PROVE (a + M * q) % M = a % M
    BY <1>1, <1>2, RemainderShift
  <2>2. now - u \in Int
    BY <1>1
  <2> QED BY <2>1, <2>2
<1>5. (now - u) % M = now - u
  BY <1>1, SmallRemainder, SMTT(30)
<1>6. idle(db[k]) = (now - (u % M)) % M
  BY <1>1 DEF idle, M
<1> QED BY <1>1, <1>3, <1>4, <1>5, <1>6 DEF u

\* A sampler that may walk every bucket and keep every entry returns them all.
LEMMA WholeSample ==
    ASSUME StoreInv, SeesAll, NEW S \in sampleSome(Present)
    PROVE  S = Present
<1>1. /\ cfg.lruSamples \in Nat /\ cfg.lruSamples >= Cardinality(Present)
      /\ bucketCount \in Nat \ {0} /\ Present \subseteq Keys
      /\ cfg.lruSamples * SampleBuckets >= bucketCount
      /\ cfg.lruSamples * SampleBuckets \in Nat
  BY StoreAssumption, Z3
     DEF StoreInv, TableInv, RestInv, CountExact, SeesAll, ConfigType, Present
<1>2. Smaller(cfg.lruSamples * SampleBuckets, bucketCount) = bucketCount
  BY <1>1 DEF Smaller
<1>3. PICK start \in 0 .. bucketCount - 1 :
         LET Walk == {k \in Present : Offset(k, start) < bucketCount}
         IN  S \subseteq Walk
             /\ Cardinality(S) = Smaller(cfg.lruSamples, Cardinality(Walk))
  BY <1>2 DEF sampleSome
<1>4. \A k \in Present : Offset(k, start) < bucketCount
  <2> SUFFICES ASSUME NEW k \in Present PROVE Offset(k, start) < bucketCount
    OBVIOUS
  <2>1. Hash[k] \in Nat
    BY <1>1, StoreAssumption
  <2>2. Bucket(k) \in Nat
    BY <1>1, <2>1 DEF Bucket
  <2>3. Bucket(k) + bucketCount - start \in Int
    BY <1>1, <2>2
  <2> QED BY <1>1, <2>3 DEF Offset
<1>5. {k \in Present : Offset(k, start) < bucketCount} = Present
  BY <1>4
<1>6. S \subseteq Present /\ Cardinality(S) = Smaller(cfg.lruSamples, Cardinality(Present))
  BY <1>3, <1>5
<1> HIDE DEF Present
<1>7. Cardinality(Present) \in Nat /\ IsFiniteSet(Present)
  BY <1>1, KeySetsFinite
<1>8. Cardinality(S) = Cardinality(Present)
  BY <1>1, <1>6, <1>7 DEF Smaller
<1> QED BY <1>6, <1>7, <1>8, FS_Subset

\* When the sample is the whole table and the 32-bit clock has not lapped an
\* entry, the key given up is one that was used longest ago.
THEOREM LeastRecentGoes ==
    ASSUME ConfigsFitPool
    PROVE  LruSpec => EvictsLeastRecent
<1> DEFINE A == (evictions' # evictions /\ SeesAll /\ NoLap) =>
                  \A k \in Present, j \in Present :
                     (db'[k] = Absent /\ db[k] # Absent) => used[k] <= used[j]
<1>1. StoreInv /\ LruInv /\ StoreInv' /\ [LruNext]_lruVars => [A]_lruVars
  <2> SUFFICES ASSUME StoreInv, LruInv, StoreInv', LruNext, evictions' # evictions,
                      SeesAll, NoLap, NEW x \in Present, NEW j \in Present,
                      db'[x] = Absent
               PROVE  used[x] <= used[j]
    OBVIOUS
  <2>1. Next
    BY DEF LruNext, Next
  <2>2. PICK k \in Keys, y \in Present : GivesUp(y, k)
    BY <2>1, OnlySetEvicts, SetGivesUp
  <2>3. x = y
    BY <2>2, OneLiveKeyGone DEF StoreInv
  <2>4. idle(db[y]) >= idle(db[j])
    BY <2>2, WholeSample DEF GivesUp
  <2>5. now \in Nat
    BY DEF StoreInv, RestInv
  <2>6. /\ idle(db[y]) = now - used[y] /\ used[y] \in Nat
        /\ idle(db[j]) = now - used[j] /\ used[j] \in Nat
    BY <2>5, IdleIsTrue DEF NoLap
  <2> QED BY <2>3, <2>4, <2>5, <2>6
<1> QED BY <1>1, StampsInvariant, PTL DEF LruSpec, EvictsLeastRecent
=============================================================================
