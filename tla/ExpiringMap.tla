----------------------------- MODULE ExpiringMap -----------------------------
(***************************************************************************)
(* What a Store promises its callers, with no table, no reaping and no     *)
(* sampling: a map whose keys vanish the instant their deadline passes,    *)
(* which holds at most cap keys, and which under the LRU policy may give   *)
(* up one key to make room for a new one.  An operation that finds an      *)
(* expired entry, and every step of the expire cycle, is invisible here.   *)
(***************************************************************************)
EXTENDS MapCalls

CONSTANTS Values, MaxTtl

VARIABLES
    map,    \* what a reader sees: [val, exp] of each key, or Missing
    now,    \* the clock
    cap,    \* the largest number of keys
    evicts, \* may an insert give up another key?
    reply   \* what the last operation returned

vars == <<map, now, cap, evicts, reply>>

Init ==
    /\ map = [k \in Keys |-> Missing]
    /\ now = 1
    /\ cap \in Nat /\ evicts \in BOOLEAN
    /\ reply = <<"nullptr">>

Frame == UNCHANGED <<now, cap, evicts>>

\* A call that leaves o.map behind and returns the truth value o.ret.
Returns(o) == map' = o.map /\ reply' = <<"bool", o.ret>> /\ Frame

Get(k) ==
    /\ reply' = IF k \in Held(map) THEN <<"entry", map[k].val>> ELSE <<"nullptr">>
    /\ UNCHANGED map /\ Frame

Put(k, v, exp) == \E o \in PutCall(map, now, cap, evicts, k, v, exp) : Returns(o)

Del(k) == Returns(DelCall(map, k))

Expire(k, exp) == Returns(ExpireCall(map, now, k, exp))

Ttl(k) ==
    /\ reply' = <<"int64", TtlCall(map, now, k)>>
    /\ UNCHANGED map /\ Frame

Flush == map' = [k \in Keys |-> Missing] /\ UNCHANGED reply /\ Frame

Advance ==
    /\ now' > now
    /\ map' = At(map, now')
    /\ UNCHANGED <<cap, evicts, reply>>

Deadlines == now - 1 .. now + MaxTtl

Next ==
    \/ \E k \in Keys : Get(k) \/ Del(k) \/ Ttl(k)
    \/ \E k \in Keys, v \in Values, exp \in Deadlines \cup {Forever, Keep} : Put(k, v, exp)
    \/ \E k \in Keys, exp \in Deadlines : Expire(k, exp)
    \/ Flush
    \/ Advance

Spec == Init /\ [][Next]_vars
=============================================================================
