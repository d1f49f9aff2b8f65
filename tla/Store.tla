------------------------------- MODULE Store -------------------------------
(***************************************************************************)
(* core/store.cpp: the key space of the server.  A Store puts lazy expiry, *)
(* the active expire cycle, the key cap with its eviction policy, and the  *)
(* counters on top of a hash table (core/table.cpp, modelled link by link  *)
(* in the module Table; here a table is the function db from keys to       *)
(* entries with its counter and its number of buckets).                    *)
(*                                                                         *)
(* The server is single-threaded: each client operation is one action.     *)
(* activeExpireCycle is a loop over buckets and passes; it is one action   *)
(* per bucket and one per pass, and nothing else is enabled in between.    *)
(*                                                                         *)
(* Asserts are those of the release build (-DNDEBUG): they do nothing.     *)
(***************************************************************************)
EXTENDS Integers, FiniteSets, Bits

CONSTANTS
    Keys, Values,
    Absent,        \* nullptr: what db holds for a key that has no entry
    Hash,          \* the 32-bit hash of every key, seed included (core/hash.cpp)
    Configs,       \* the Store::Config values the store may be built with
    PoolCapacity,  \* kPoolCapacity
    SampleBuckets, \* buckets sampleSome walks per wanted entry: 10 in the code
    ScanBuckets,   \* buckets a pass walks per wanted entry: 20 in the code
    SampleLimit,   \* activeExpireCycle's sampleLimit: 20 in the code
    kMinBuckets,   \* 4 in the code
    kMaxPasses,    \* 16 in the code
    LruMod,        \* 2^32, the width of Entry::lruClock
    CounterMod,    \* 2^64, the width of evictions_ and expiredKeys_
    MaxTtl,        \* bound: deadlines reach at most this far ahead of now
    MaxNow         \* bound: the last instant of the steady clock explored

kNoExpiry == -1
kKeepTtl == -2

NoEviction == "kNoEviction"
AllKeysLru == "kAllKeysLru"

ConfigType ==
    [initialBuckets : Nat, maxKeys : Nat, lruSamples : Nat \ {0},
     policy : {NoEviction, AllKeysLru}]

ASSUME StoreAssumption ==
    /\ IsFiniteSet(Keys)
    /\ Hash \in [Keys -> Nat]
    /\ Configs \subseteq ConfigType
    /\ PoolCapacity \in Nat \ {0} /\ SampleBuckets \in Nat \ {0}
    /\ ScanBuckets \in Nat \ {0} /\ kMinBuckets \in Nat \ {0}
    /\ kMaxPasses \in Nat \ {0}
    /\ LruMod \in Nat \ {0} /\ CounterMod \in Nat \ {0}
    /\ SampleLimit \in Nat /\ MaxTtl \in Nat /\ MaxNow \in Nat

Entry == [val : Values, exp : Nat \cup {kNoExpiry}, lru : 0 .. LruMod - 1]

ASSUME AbsentAssumption ==
    /\ Absent \notin Entry
    /\ Absent \notin [val : Values, exp : Nat \cup {kNoExpiry}] \* what readers see of one

VARIABLES
    cfg,         \* the Config the store was built with
    db,          \* table_: the entry of each key, or Absent
    liveCount,   \* table_.liveCount_
    bucketCount, \* table_.bucketCount()
    cursor,      \* expireCursor_
    evictions,   \* evictions_
    expiredKeys, \* expiredKeys_
    pc,          \* "idle", inside activeExpireCycle: "scan", or "crashed"
    cycle,       \* the locals of activeExpireCycle
    now,         \* the clock value the next call is given
    ret          \* what the last client operation returned

table == <<db, liveCount, bucketCount>>
vars == <<cfg, db, liveCount, bucketCount, cursor, evictions, expiredKeys,
          pc, cycle, now, ret>>

Cycle == [passes : Nat, sampled : Nat, expired : Nat, buckets : Nat,
          wrapped : BOOLEAN]

TypeOK ==
    /\ cfg \in Configs
    /\ db \in [Keys -> Entry \cup {Absent}]
    /\ liveCount \in Nat
    /\ bucketCount \in Nat \ {0}
    /\ evictions \in 0 .. CounterMod - 1
    /\ expiredKeys \in 0 .. CounterMod - 1
    /\ pc \in {"idle", "scan", "crashed"}
    /\ cycle \in Cycle
    /\ now \in Nat

-----------------------------------------------------------------------------
(* Configuration.                                                          *)

\* Mutant: without a cap the pool's size is overestimated.
UncappedMaxKeys(c) == IF c.maxKeys = 0 THEN 2 * PoolCapacity ELSE c.maxKeys

resolveMaxKeys(c) == IF c.maxKeys = 0 THEN PoolCapacity ELSE c.maxKeys
maxKeys == resolveMaxKeys(cfg)

Larger(a, b) == IF a < b THEN b ELSE a
Smaller(a, b) == IF a < b THEN a ELSE b

\* A set cap presizes the table; an unset one does not.
ConfiguredBuckets(c) ==
    Larger(kMinBuckets,
           nextPow2(IF c.maxKeys = 0 THEN c.initialBuckets
                    ELSE Larger(c.initialBuckets, c.maxKeys)))

\* The assertion of resolveMaxKeys, which a release build does not evaluate.
ConfigsFitPool == \A c \in Configs : c.maxKeys <= PoolCapacity

NoCycle == [passes |-> 0, sampled |-> 0, expired |-> 0, buckets |-> 0,
            wrapped |-> FALSE]

\* What an operation returns, tagged by its C++ type.
Nil == <<"nullptr">>
Found(v) == <<"entry", v>>
Bool(b) == <<"bool", b>>
Int64(n) == <<"int64", n>>

Init ==
    /\ cfg \in Configs
    /\ db = [k \in Keys |-> Absent]
    /\ liveCount = 0
    /\ bucketCount = ConfiguredBuckets(cfg)
    /\ cursor = 0
    /\ evictions = 0
    /\ expiredKeys = 0
    /\ pc = "idle"
    /\ cycle = NoCycle
    /\ now = 1
    /\ ret = Nil

-----------------------------------------------------------------------------
(* Entries and the table.                                                  *)

\* Mutant: an entry is gone already at its deadline.
ExpiredAtDeadline(e) == e.exp # kNoExpiry /\ now >= e.exp

expired(e) == e.exp # kNoExpiry /\ now > e.exp

Present == {k \in Keys : db[k] # Absent}
Alive(k) == k \in Present /\ ~expired(db[k])
Dead(k) == k \in Present /\ expired(db[k])
DeadAmong(S) == {k \in S : Dead(k)}

lruNow == now % LruMod

\* Mutant: the difference is not taken modulo the clock's width.
IdleUnwrapped(e) == lruNow - e.lru

idle(e) == (now - e.lru) % LruMod

Without(f, R) == [k \in Keys |-> IF k \in R THEN Absent ELSE f[k]]

Bucket(k) == Hash[k] % bucketCount

\* Table::remove of every key of R.
remove(R) ==
    /\ db' = Without(db, R)
    /\ liveCount' = liveCount - Cardinality(R)
    /\ UNCHANGED bucketCount

\* Buckets the walk that starts at start passes before it reaches k's.
Offset(k, start) == (Bucket(k) + bucketCount - start) % bucketCount

\* What sampleSome can return for the keys P: whole chains from a random start
\* bucket on, the last one cut short at lruSamples entries.  The order inside a
\* chain is left open.  An empty sample is drawn again by evictOne.
sampleSome(P) ==
    LET budget == Smaller(cfg.lruSamples * SampleBuckets, bucketCount)
        Walk(start) == {k \in P : Offset(k, start) < budget}
        Taken(start) ==
            {S \in SUBSET Walk(start) :
                /\ S # {}
                /\ Cardinality(S) = Smaller(cfg.lruSamples, Cardinality(Walk(start)))
                /\ \A a \in S, b \in Walk(start) \ S :
                       Offset(a, start) <= Offset(b, start)}
    IN  UNION {Taken(start) : start \in 0 .. bucketCount - 1}

\* Mutant: no return after the expired entries of the sample are gone.
VictimsBoth(S) ==
    IF S \ DeadAmong(S) = {} THEN {S}
    ELSE {DeadAmong(S) \cup {v} : v \in S \ DeadAmong(S)}

\* The keys evictOne removes for one sample: the expired ones if there are any,
\* else one whose idle time is the longest.
Victims(S) ==
    IF DeadAmong(S) # {} THEN {DeadAmong(S)}
    ELSE {{v} : v \in {x \in S : \A y \in S : idle(db[x]) >= idle(db[y])}}

\* Mutant: grows one entry early.
GrowsAtFull(n) == IF n >= bucketCount THEN 2 * bucketCount ELSE bucketCount

\* The bucket count once the table holds n entries.
maybeGrow(n) == IF n > bucketCount THEN 2 * bucketCount ELSE bucketCount

\* Table::insert of k once the keys R are gone, with maybeGrow, and what Store
\* then writes into the entry.  No free block: nullptr, dereferenced by Store.
insert(k, e, R) ==
    LET n == liveCount - Cardinality(R) + 1
    IN  IF Cardinality(Present \ R) < PoolCapacity
        THEN /\ db' = [Without(db, R) EXCEPT ![k] = e]
             /\ liveCount' = n
             /\ bucketCount' = maybeGrow(n)
             /\ ret' = Bool(TRUE)
             /\ UNCHANGED pc
        ELSE /\ remove(R)
             /\ pc' = "crashed"
             /\ UNCHANGED ret

Counted(counter, n) == (counter + n) % CounterMod

-----------------------------------------------------------------------------
(* The client operations.  lookup is the first thing each of them does: an *)
(* entry past its deadline is removed and counted, and the key is missing. *)

Idle == pc = "idle"

lookupRemoves(k) == DeadAmong({k})

lookupMisses(k) ==
    /\ ~Alive(k)
    /\ remove(lookupRemoves(k))
    /\ expiredKeys' = Counted(expiredKeys, Cardinality(lookupRemoves(k)))

find(k, touch) ==
    /\ Idle
    /\ \/ /\ Alive(k)
          /\ db' = IF touch THEN [db EXCEPT ![k].lru = lruNow] ELSE db
          /\ ret' = Found(db[k].val)
          /\ UNCHANGED <<liveCount, bucketCount, expiredKeys>>
       \/ /\ lookupMisses(k)
          /\ ret' = Nil
    /\ UNCHANGED <<cfg, cursor, evictions, pc, cycle, now>>

Past(exp) == exp # kNoExpiry /\ exp # kKeepTtl /\ exp < now

\* set with a deadline already behind: the key goes, nothing is stored.
setPast(k, exp) ==
    /\ Idle /\ Past(exp)
    /\ remove({k} \cap Present)
    /\ expiredKeys' = Counted(expiredKeys, Cardinality(lookupRemoves(k)))
    /\ ret' = Bool(TRUE)
    /\ UNCHANGED <<cfg, cursor, evictions, pc, cycle, now>>

\* Mutant: KEEPTTL drops the deadline of an existing key.
OverwriteDropsTtl(k, v, exp) ==
    /\ Idle /\ ~Past(exp) /\ Alive(k)
    /\ db' = [db EXCEPT ![k] =
                 [val |-> v, exp |-> IF exp = kKeepTtl THEN kNoExpiry ELSE exp,
                  lru |-> lruNow]]
    /\ ret' = Bool(TRUE)
    /\ UNCHANGED <<cfg, liveCount, bucketCount, cursor, evictions, expiredKeys,
                   pc, cycle, now>>

setOverwrite(k, v, exp) ==
    /\ Idle /\ ~Past(exp) /\ Alive(k)
    /\ db' = [db EXCEPT ![k] =
                 [val |-> v, exp |-> IF exp = kKeepTtl THEN @.exp ELSE exp,
                  lru |-> lruNow]]
    /\ ret' = Bool(TRUE)
    /\ UNCHANGED <<cfg, liveCount, bucketCount, cursor, evictions, expiredKeys,
                   pc, cycle, now>>

\* Mutant: the KEEPTTL sentinel is stored as a deadline.
EntryWithSentinel(v, exp) == [val |-> v, exp |-> exp, lru |-> lruNow]

NewEntry(v, exp) ==
    [val |-> v, exp |-> IF exp = kKeepTtl THEN kNoExpiry ELSE exp, lru |-> lruNow]

\* Mutant: one key too many.
FullLate(k) == liveCount - Cardinality(lookupRemoves(k)) > maxKeys

\* size() >= maxKeys_, after lookup has removed an expired entry of k.
Full(k) == liveCount - Cardinality(lookupRemoves(k)) >= maxKeys

setInsert(k, v, exp) ==
    /\ Idle /\ ~Past(exp) /\ ~Alive(k) /\ ~Full(k)
    /\ insert(k, NewEntry(v, exp), lookupRemoves(k))
    /\ expiredKeys' = Counted(expiredKeys, Cardinality(lookupRemoves(k)))
    /\ UNCHANGED <<cfg, cursor, evictions, cycle, now>>

setRefused(k, exp) ==
    /\ Idle /\ ~Past(exp) /\ Full(k) /\ cfg.policy = NoEviction
    /\ lookupMisses(k)
    /\ ret' = Bool(FALSE)
    /\ UNCHANGED <<cfg, cursor, evictions, pc, cycle, now>>

\* evictOne, then the insert.
setEvicts(k, v, exp) ==
    /\ Idle /\ ~Past(exp) /\ ~Alive(k) /\ Full(k) /\ cfg.policy = AllKeysLru
    /\ \E S \in sampleSome(Present \ lookupRemoves(k)) : \E R \in Victims(S) :
          LET reaped == DeadAmong(R) \cup lookupRemoves(k)
          IN  /\ insert(k, NewEntry(v, exp), R \cup lookupRemoves(k))
              /\ expiredKeys' = Counted(expiredKeys, Cardinality(reaped))
              /\ evictions' = Counted(evictions, Cardinality(R \ reaped))
    /\ UNCHANGED <<cfg, cursor, cycle, now>>

set(k, v, exp) ==
    \/ setPast(k, exp)
    \/ setOverwrite(k, v, exp)
    \/ setInsert(k, v, exp)
    \/ setRefused(k, exp)
    \/ setEvicts(k, v, exp)

erase(k) ==
    /\ Idle
    /\ remove({k} \cap Present)
    /\ expiredKeys' = Counted(expiredKeys, Cardinality(lookupRemoves(k)))
    /\ ret' = Bool(Alive(k))
    /\ UNCHANGED <<cfg, cursor, evictions, pc, cycle, now>>

setExpireAt(k, exp) ==
    /\ Idle
    /\ \/ /\ lookupMisses(k)
          /\ ret' = Bool(FALSE)
       \/ /\ Alive(k)
          /\ IF exp < now
             THEN remove({k})
             ELSE /\ db' = [db EXCEPT ![k].exp = exp, ![k].lru = lruNow]
                  /\ UNCHANGED <<liveCount, bucketCount>>
          /\ ret' = Bool(TRUE)
          /\ UNCHANGED expiredKeys
    /\ UNCHANGED <<cfg, cursor, evictions, pc, cycle, now>>

ttlMs(k) ==
    /\ Idle
    /\ \/ /\ Alive(k)
          /\ ret' = Int64(IF db[k].exp = kNoExpiry THEN kNoExpiry ELSE db[k].exp - now)
          /\ UNCHANGED <<db, liveCount, bucketCount, expiredKeys>>
       \/ /\ lookupMisses(k)
          /\ ret' = Int64(-2)
    /\ UNCHANGED <<cfg, cursor, evictions, pc, cycle, now>>

clear ==
    /\ Idle
    /\ db' = [k \in Keys |-> Absent]
    /\ liveCount' = 0
    /\ cursor' = 0
    /\ UNCHANGED <<cfg, bucketCount, evictions, expiredKeys, pc, cycle, now, ret>>

-----------------------------------------------------------------------------
(* activeExpireCycle.  What it returns, the entries it reaped and its      *)
(* passes, is dropped by the server and is not modelled.                   *)

maxBuckets == SampleLimit * ScanBuckets

FirstPass == [NoCycle EXCEPT !.passes = 1]

cycleStart ==
    /\ Idle
    /\ pc' = "scan"
    /\ cycle' = FirstPass
    /\ UNCHANGED <<cfg, table, cursor, evictions, expiredKeys, now, ret>>

PassOver ==
    \/ cycle.wrapped
    \/ cycle.sampled >= SampleLimit
    \/ cycle.buckets >= maxBuckets

\* One bucket of a pass: its expired entries go, the cursor moves on.
cycleBucket ==
    LET chain == {k \in Present : Bucket(k) = cursor % bucketCount}
        dead == DeadAmong(chain)
    IN  /\ pc = "scan" /\ ~PassOver
        /\ remove(dead)
        /\ cursor' = nextCursor(cursor, bucketCount - 1)
        /\ cycle' = [cycle EXCEPT !.sampled = @ + Cardinality(chain),
                                  !.expired = @ + Cardinality(dead),
                                  !.buckets = @ + 1,
                                  !.wrapped = cursor' = 0]
        /\ UNCHANGED <<cfg, evictions, expiredKeys, pc, now, ret>>

LastPass ==
    \/ cycle.wrapped
    \/ cycle.expired * 10 <= cycle.sampled
    \/ cycle.passes >= kMaxPasses

\* Mutant: only the last pass is counted.
CountsLastPass ==
    /\ pc = "scan" /\ PassOver
    /\ expiredKeys' = IF LastPass THEN Counted(expiredKeys, cycle.expired) ELSE expiredKeys
    /\ IF LastPass
       THEN pc' = "idle" /\ cycle' = NoCycle
       ELSE cycle' = [NoCycle EXCEPT !.passes = cycle.passes + 1] /\ UNCHANGED pc
    /\ UNCHANGED <<cfg, table, cursor, evictions, now, ret>>

\* The end of a pass: count, then stop or start the next one.
cyclePass ==
    /\ pc = "scan" /\ PassOver
    /\ expiredKeys' = Counted(expiredKeys, cycle.expired)
    /\ IF LastPass
       THEN pc' = "idle" /\ cycle' = NoCycle
       ELSE cycle' = [NoCycle EXCEPT !.passes = cycle.passes + 1] /\ UNCHANGED pc
    /\ UNCHANGED <<cfg, table, cursor, evictions, now, ret>>

\* Between two calls the steady clock may move on.
tick ==
    /\ Idle
    /\ now < MaxNow
    /\ now' = now + 1
    /\ UNCHANGED <<cfg, table, cursor, evictions, expiredKeys, pc, cycle, ret>>

Deadlines == now - 1 .. now + MaxTtl

Next ==
    \/ \E k \in Keys, touch \in BOOLEAN : find(k, touch)
    \/ \E k \in Keys, v \in Values, exp \in Deadlines \cup {kNoExpiry, kKeepTtl} :
          set(k, v, exp)
    \/ \E k \in Keys : erase(k)
    \/ \E k \in Keys, exp \in Deadlines : setExpireAt(k, exp)
    \/ \E k \in Keys : ttlMs(k)
    \/ clear
    \/ cycleStart
    \/ cycleBucket
    \/ cyclePass
    \/ tick

Spec == Init /\ [][Next]_vars

\* The event loop runs the cycle on its ticks for as long as the server is up.
ExpiryFairness == WF_vars(cycleStart) /\ WF_vars(cycleBucket) /\ WF_vars(cyclePass)

FairSpec == Spec /\ ExpiryFairness
-----------------------------------------------------------------------------
(* Properties.                                                             *)

CountExact == liveCount = Cardinality(Present)
WithinCap == liveCount <= maxKeys

\* liveCount_, which every cap, growth and sampling decision reads, is the
\* number of entries in the table, whatever mix of lookup, eviction, expire
\* cycle and clear removed the others, and set never takes it past maxKeys_:
\* evictOne frees at least one slot before the insert, also when it only reaps.
CapKept == TypeOK /\ CountExact /\ WithinCap

\* Table::insert never returns the nullptr that Store::set would dereference
\* ("nullptr only when the pool is empty, which Store's maxKeys cap makes a
\* bug", core/table.h:44).
PoolNeverEmpty == pc # "crashed"

LoadBounded == liveCount <= bucketCount
PresizedNeverGrows == cfg.maxKeys # 0 => bucketCount = ConfiguredBuckets(cfg)

\* One doubling per insert keeps up, so there is never more than one entry per
\* bucket on average (Table::maybeGrow), and a table presized for a cap is never
\* rehashed, even when it is full (core/store.cpp:44).
WellSized == LoadBounded /\ PresizedNeverGrows

\* Every entry that is dropped because its deadline passed, by a lookup, by
\* evictOne or by the expire cycle, is counted once in expiredKeys_ (from the
\* end of its pass on), and nothing else is; only clear drops without counting.
ExpiryCounted ==
    [][\/ clear
       \/ LET reaped == {k \in Present : Dead(k) /\ db'[k] # db[k]}
          IN  (expiredKeys' + cycle'.expired - expiredKeys - cycle.expired) % CounterMod
                = Cardinality(reaped) % CounterMod]_vars

\* An eviction happens only in a full table under the LRU policy, costs exactly
\* one live key, and never happens while the same call dropped an expired one
\* (store.h: "An expired entry picked by the eviction sampler counts as an
\* expiry, not an eviction").
EvictionIsLastResort ==
    [][evictions' # evictions =>
          /\ cfg.policy = AllKeysLru
          /\ liveCount = maxKeys /\ liveCount' = liveCount
          /\ Cardinality({k \in Keys : Alive(k) /\ db'[k] = Absent}) = 1
          /\ \A k \in Keys : Dead(k) => db'[k] = db[k]]_vars

\* An entry past its deadline that nobody touches is removed in the end by the
\* expire cycle alone, whatever growth and resets the cursor goes through.
DeadAreReaped ==
    \A k \in Keys : Dead(k) ~> ~Dead(k)

\* Store implements ExpiringMap: readers see exactly the entries whose deadline
\* has not passed.
View == [k \in Keys |-> IF Alive(k) THEN [val |-> db[k].val, exp |-> db[k].exp]
                        ELSE Absent]

Abstract == INSTANCE ExpiringMap
    WITH Missing <- Absent, map <- View, cap <- maxKeys,
         evicts <- cfg.policy = AllKeysLru, reply <- ret

ImplementsExpiringMap == Abstract!Spec

\* The same with the arguments tied: set stores what it was given, for the key
\* it was given, and costs at most one other key; setExpireAt moves the deadline
\* of its own key only.
WritesWhatItWasGiven ==
    [][/\ \A k \in Keys, v \in Values, exp \in Deadlines \cup {kNoExpiry, kKeepTtl} :
             set(k, v, exp) => Abstract!Put(k, v, exp)
       /\ \A k \in Keys, exp \in Deadlines : setExpireAt(k, exp) => Abstract!Expire(k, exp)]_vars
=============================================================================
