------------------------------ MODULE StoreLru ------------------------------
(***************************************************************************)
(* Store with a history variable: the true instant of the last use of each *)
(* key, which the code only keeps modulo 2^32 (Entry::lruClock).           *)
(***************************************************************************)
EXTENDS Store

VARIABLE used \* when each key was last stored, read or given a deadline

lruVars == <<vars, used>>

LruInit == Init /\ used = [k \in Keys |-> 0]

Uses(k) == used' = [used EXCEPT ![k] = now]

LruNext ==
    \/ \E k \in Keys : find(k, TRUE) /\ Uses(k)
    \/ \E k \in Keys : find(k, FALSE) /\ UNCHANGED used
    \/ \E k \in Keys, v \in Values, exp \in Deadlines \cup {kNoExpiry, kKeepTtl} :
          set(k, v, exp) /\ Uses(k)
    \/ \E k \in Keys, exp \in Deadlines : setExpireAt(k, exp) /\ Uses(k)
    \/ (\E k \in Keys : erase(k) \/ ttlMs(k)) /\ UNCHANGED used
    \/ (clear \/ cycleStart \/ cycleBucket \/ cyclePass \/ tick) /\ UNCHANGED used

LruSpec == LruInit /\ [][LruNext]_lruVars

\* The sampler sees the whole table.
SeesAll ==
    /\ cfg.lruSamples >= liveCount
    /\ cfg.lruSamples * SampleBuckets >= bucketCount

\* The 32-bit clock cannot have lapped an entry since its last use.
NoLap == \A k \in Present : now - used[k] < LruMod

\* With every entry sampled, the evicted key is one that was used longest ago,
\* across the rollover of the 32-bit lruClock, and reads count as use while
\* EXISTS and TTL do not (Store::evictOne, Store::find).
EvictsLeastRecent ==
    [][(evictions' # evictions /\ SeesAll /\ NoLap) =>
          \A k \in Present, j \in Present :
              (db'[k] = Absent /\ db[k] # Absent) => used[k] <= used[j]]_lruVars
=============================================================================
