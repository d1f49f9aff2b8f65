------------------------------ MODULE MapCalls ------------------------------
(***************************************************************************)
(* The calls of an expiring map as functions: the map a call leaves behind *)
(* and what it returns.  ExpiringMap makes a specification of them, the    *)
(* module Commands executes requests with them.                            *)
(***************************************************************************)
EXTENDS Integers, FiniteSets

CONSTANTS
    Keys,
    Missing  \* what a map holds for a key that is not there

Forever == -1  \* the deadline of a key that has none
Keep == -2     \* as an argument: the deadline the key has

Held(m) == {k \in Keys : m[k] # Missing}
Drop(m, R) == [k \in Keys |-> IF k \in R THEN Missing ELSE m[k]]

\* The map at time t: keys past their deadline are gone.
Overdue(m, t) == {k \in Held(m) : m[k].exp # Forever /\ t > m[k].exp}
At(m, t) == Drop(m, Overdue(m, t))

Outcome(m, ret) == [map |-> m, ret |-> ret]

\* A deadline in the past deletes; KEEPTTL keeps the deadline of a key that is
\* there and means none for a key that is not.  A new key may be refused, or
\* cost another key, because the table also holds keys the map no longer shows.
PutCall(m, t, cap, evicts, k, v, exp) ==
    LET kept == IF exp # Keep THEN exp
                ELSE IF k \in Held(m) THEN m[k].exp ELSE Forever
        Stored(n) == [n EXCEPT ![k] = [val |-> v, exp |-> kept]]
    IN  IF exp \notin {Forever, Keep} /\ exp < t THEN {Outcome(Drop(m, {k}), TRUE)}
        ELSE {o \in {Outcome(Stored(m), TRUE)} : Cardinality(Held(o.map)) <= cap}
             \cup (IF k \in Held(m) THEN {}
                   ELSE IF evicts THEN {Outcome(Stored(Drop(m, {x})), TRUE) : x \in Held(m)}
                   ELSE {Outcome(m, FALSE)})

DelCall(m, k) == Outcome(Drop(m, {k}), k \in Held(m))

ExpireCall(m, t, k, exp) ==
    Outcome(IF k \notin Held(m) THEN m
            ELSE IF exp < t THEN Drop(m, {k})
            ELSE [m EXCEPT ![k].exp = exp],
            k \in Held(m))

\* Milliseconds left, -1 for a key without a deadline, -2 for no key.
TtlCall(m, t, k) ==
    IF k \notin Held(m) THEN -2
    ELSE IF m[k].exp = Forever THEN -1
    ELSE m[k].exp - t
=============================================================================
