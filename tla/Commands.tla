------------------------------ MODULE Commands ------------------------------
(***************************************************************************)
(* core/command.cpp: what a request does to the map the Store presents and *)
(* what it is answered.  A request is the sequence of its arguments, its   *)
(* name first; arguments are tokens, one per spelling the code can tell    *)
(* apart (names and options match in any case).  dispatch gives the set of *)
(* possible outcomes: more than one only where the Store may refuse or     *)
(* evict.  The map passed in is the one readers see at time t.             *)
(***************************************************************************)
EXTENDS MapCalls, Sequences, SequencesExt

CONSTANTS
    Cap,       \* the Store's maxKeys_
    Numerals,  \* the tokens std::from_chars reads to their end -> their number
    kMsPerSec, \* 1000 in the code
    Int64Max   \* 2^63 - 1

ASSUME CommandsAssumption ==
    /\ IsFiniteSet(Keys) /\ Missing \notin [val : STRING, exp : Int]
    /\ Cap \in Nat /\ kMsPerSec \in Nat \ {0} /\ Int64Max \in Nat
    /\ \A token \in DOMAIN Numerals : Numerals[token] \in Int

\* Signed arithmetic wraps, as the build has it.
Int64(x) == ((x + Int64Max + 1) % (2 * Int64Max + 2)) - (Int64Max + 1)

nullopt == <<"nullopt">>
value(n) == <<"value", n>>

\* Arity counts the name: positive is exact, negative a minimum.
kSpecs == [get |-> 2, set |-> -3, del |-> -2, exists |-> -2, expire |-> 3, ttl |-> 2,
           ping |-> -1, echo |-> 2, dbsize |-> 1, flushall |-> -1, quit |-> -1]

lookup(name) == IF name \in DOMAIN kSpecs THEN value(kSpecs[name]) ELSE nullopt

arityOk(arity, argc) == IF arity > 0 THEN argc = arity ELSE argc >= -arity

parseInt(token) ==
    IF token \in DOMAIN Numerals /\ Int64(Numerals[token]) = Numerals[token]
    THEN value(Numerals[token]) ELSE nullopt

\* Mutant: the time that has already passed is left out of the check.
DeadlineIgnoresNow(n, unitMs, t) ==
    IF n > Int64Max \div unitMs THEN nullopt ELSE value(Int64(t + Int64(n * unitMs)))

\* The absolute deadline of a positive n, unless it would overflow.
deadline(n, unitMs, t) ==
    IF n > (Int64Max - t) \div unitMs THEN nullopt
    ELSE value(Int64(t + Int64(n * unitMs)))

-----------------------------------------------------------------------------
(* Replies, and outcomes of a request.                                     *)

OK == <<"simple", "OK">>
integer(n) == <<"integer", n>>
bulk(token) == <<"bulk", token>>
nullBulk == <<"nullBulk">>
error(what) == <<"error", what>>
NoReply == <<"nothing">>

Replies(m, r) == [map |-> m, reply |-> r, close |-> FALSE]

-----------------------------------------------------------------------------

\* EX or PX with its number: a deadline or an error.
ExpiryOption(opt, token, t) ==
    LET n == parseInt(token)
        at == IF n # nullopt /\ n[2] > 0
              THEN deadline(n[2], IF opt = "ex" THEN kMsPerSec ELSE 1, t) ELSE nullopt
    IN  IF n = nullopt THEN error("kNotInteger")
        ELSE IF at = nullopt THEN error("invalidExpire") ELSE at

\* Mutant: a second expiry option overrides the first.
OptionAfterOption(opt, have, more) == opt \in {"ex", "px"} /\ more

\* An option that takes a number, when none was given yet and one follows.
TakesNumber(opt, have, more) == opt \in {"ex", "px"} /\ ~have /\ more

\* The option loop of SET, from a state <<i, haveExpiryOpt, expireAt>>: the
\* deadline it settles on, or an error.
SetOptions(tail, t) ==
    LET from[s \in (1 .. Len(tail) + 1) \X BOOLEAN \X Int] ==
            LET i == s[1]
                have == s[2]
            IN  IF i > Len(tail) THEN value(s[3])
                ELSE IF tail[i] = "keepttl" /\ ~have THEN from[<<i + 1, TRUE, Keep>>]
                ELSE IF ~TakesNumber(tail[i], have, i < Len(tail)) THEN error("kSyntax")
                ELSE LET d == ExpiryOption(tail[i], tail[i + 1], t)
                     IN  IF d[1] = "error" THEN d ELSE from[<<i + 2, TRUE, d[2]>>]
    IN  from[<<1, FALSE, Forever>>]

cmdSet(m, t, evicts, cmd) ==
    LET expireAt == SetOptions(SubSeq(cmd, 4, Len(cmd)), t)
    IN  IF expireAt[1] = "error" THEN {Replies(m, expireAt)}
        ELSE {Replies(o.map, IF o.ret THEN OK ELSE error("kOom")) :
                 o \in PutCall(m, t, Cap, evicts, cmd[2], cmd[3], expireAt[2])}

\* Truth values are answered as 1 and 0.
Answer(o) == Replies(o.map, integer(IF o.ret THEN 1 ELSE 0))

cmdExpire(m, t, cmd) ==
    LET secs == parseInt(cmd[3])
        at == deadline(secs[2], kMsPerSec, t)
    IN  IF secs = nullopt THEN Replies(m, error("kNotInteger"))
        ELSE IF secs[2] <= 0 THEN Answer(DelCall(m, cmd[2]))
        ELSE IF at = nullopt THEN Replies(m, error("invalidExpire"))
        ELSE Answer(ExpireCall(m, t, cmd[2], at[2]))

\* Rounded to the nearest second.
TtlSeconds(ms) == IF ms < 0 THEN ms ELSE Int64(ms + kMsPerSec \div 2) \div kMsPerSec

cmdTtl(m, t, cmd) == Replies(m, integer(TtlSeconds(TtlCall(m, t, cmd[2]))))

cmdGet(m, cmd) ==
    Replies(m, IF cmd[2] \in Held(m) THEN bulk(m[cmd[2]].val) ELSE nullBulk)

\* Mutant: every mention of a key that was there counts.
DelCountsMentions(m, cmd) ==
    Replies(Drop(m, ToSet(Tail(cmd))),
            integer(Cardinality({i \in 2 .. Len(cmd) : cmd[i] \in Held(m)})))

\* One erase per argument, each on what the one before it left.
cmdDel(m, cmd) ==
    LET Erase(acc, k) == LET o == DelCall(acc.map, k)
                         IN  [map |-> o.map, n |-> acc.n + (IF o.ret THEN 1 ELSE 0)]
        all == FoldLeft(Erase, [map |-> m, n |-> 0], Tail(cmd))
    IN  Replies(all.map, integer(all.n))

cmdExists(m, cmd) ==
    Replies(m, integer(Cardinality({i \in 2 .. Len(cmd) : cmd[i] \in Held(m)})))

cmdPing(m, cmd) ==
    Replies(m, IF Len(cmd) > 2 THEN error("wrongArity")
               ELSE IF Len(cmd) = 2 THEN bulk(cmd[2]) ELSE <<"simple", "PONG">>)

cmdFlushall(m, cmd) ==
    IF Len(cmd) > 2 \/ (Len(cmd) = 2 /\ cmd[2] \notin {"async", "sync"})
    THEN Replies(m, error("kSyntax"))
    ELSE Replies([k \in Keys |-> Missing], OK)

\* size() also counts entries past their deadline that are still in the table.
cmdDbsize(m) == {Replies(m, integer(n)) : n \in Cardinality(Held(m)) .. Cardinality(Keys)}

dispatch(m, t, evicts, cmd) ==
    LET arity == lookup(cmd[1]) IN
    IF cmd = <<>> THEN {Replies(m, NoReply)}
    ELSE IF arity = nullopt THEN {Replies(m, error("unknownCommand"))}
    ELSE IF ~arityOk(arity[2], Len(cmd)) THEN {Replies(m, error("wrongArity"))}
    ELSE CASE cmd[1] = "get" -> {cmdGet(m, cmd)}
           [] cmd[1] = "set" -> cmdSet(m, t, evicts, cmd)
           [] cmd[1] = "del" -> {cmdDel(m, cmd)}
           [] cmd[1] = "exists" -> {cmdExists(m, cmd)}
           [] cmd[1] = "expire" -> {cmdExpire(m, t, cmd)}
           [] cmd[1] = "ttl" -> {cmdTtl(m, t, cmd)}
           [] cmd[1] = "ping" -> {cmdPing(m, cmd)}
           [] cmd[1] = "echo" -> {Replies(m, bulk(cmd[2]))}
           [] cmd[1] = "dbsize" -> cmdDbsize(m)
           [] cmd[1] = "flushall" -> {cmdFlushall(m, cmd)}
           [] cmd[1] = "quit" -> {[Replies(m, OK) EXCEPT !.close = TRUE]}
=============================================================================
