--------------------------- MODULE ServingProofs ---------------------------
(***************************************************************************)
(* Proofs about Serving and the Commands it executes, for every set of     *)
(* keys, requests and numerals, every width of the integers and of the     *)
(* tick counter, and a clock that moves at any moment.                     *)
(***************************************************************************)
EXTENDS Serving, NumberLemmas, SequenceTheorems, FiniteSetTheorems

Deadline == {Forever} \cup 0 .. Int64Max
MapType == [Keys -> [val : STRING, exp : Deadline] \cup {Missing}]

\* The cached time belongs to this turn or to the one before, and the time of
\* this turn was read after epoll_wait returned.  Only before the first turn
\* is it neither: then cachedTick_ is one that tickCount_ has not reached.
ClockSound ==
    /\ FirstNow <= clock /\ cachedNow <= clock /\ wokenAt <= clock
    /\ tick = cachedTick => FirstNow <= cachedNow
    /\ phase = "wait" => tick = cachedTick \/ (tick = 0 /\ cachedTick = TickMod - 1)
    /\ (phase = "batch" /\ tick = cachedTick) => wokenAt <= cachedNow

\* lastSweepMs_ is the time of the last expire cycle, and a turn that is over left
\* it less than an interval behind the moment that turn began.
SweepSound ==
    /\ lastSweep = sweptAt
    /\ phase = "wait" => wokenAt - sweptAt < expireIntervalMs

ServingInv ==
    /\ map \in MapType
    /\ TypeOK
    /\ ClockSound
    /\ SweepSound

-----------------------------------------------------------------------------
(* Arithmetic of deadlines.                                                *)

\* A number that fits is stored as it is.
LEMMA Int64Exact ==
    ASSUME NEW x \in Int, x >= -(Int64Max + 1), x <= Int64Max
    PROVE  Int64(x) = x
<1>1. Int64Max \in Nat
  BY CommandsAssumption
<1>2. x + Int64Max + 1 \in Nat /\ 2 * Int64Max + 2 \in Nat
      /\ x + Int64Max + 1 < 2 * Int64Max + 2
  BY <1>1
<1>3. (x + Int64Max + 1) % (2 * Int64Max + 2) = x + Int64Max + 1
  BY <1>2, SmallRemainder
<1> QED BY <1>1, <1>3 DEF Int64

\* deadline refuses exactly what an int64 cannot hold and is exact otherwise:
\* neither the multiplication nor the addition overflows.
LEMMA DeadlineExact ==
    ASSUME NEW n \in Nat \ {0}, NEW u \in Nat \ {0}, NEW t \in Nat
    PROVE  /\ n * u \in Nat \ {0}
           /\ deadline(n, u, t) =
                IF t + n * u <= Int64Max THEN value(t + n * u) ELSE nullopt
<1> DEFINE q == (Int64Max - t) \div u
<1>1. Int64Max \in Nat /\ Int64Max - t \in Int
  BY CommandsAssumption
<1>2. n * u \in Nat \ {0}
  BY Z3
<1>3. q \in Int /\ q * u <= Int64Max - t /\ Int64Max - t - q * u < u
  BY <1>1, WholePart
<1> HIDE DEF q
<1>4. CASE n > q
  <2>1. n * u >= q * u + u
    BY <1>3, <1>4, Z3
  <2>2. q * u \in Int
    BY <1>3, Z3
  <2>3. ~(t + n * u <= Int64Max)
    BY <1>1, <1>2, <1>3, <2>1, <2>2
  <2> QED BY <1>2, <1>4, <2>3 DEF deadline, q
<1>5. CASE n <= q
  <2>1. n * u <= q * u
    BY <1>3, <1>5, Z3
  <2>2. q * u \in Int
    BY <1>3, Z3
  <2>3. t + n * u <= Int64Max
    BY <1>1, <1>2, <1>3, <2>1, <2>2
  <2>4. Int64(n * u) = n * u
    BY <1>1, <1>2, <2>3, Int64Exact
  <2>5. Int64(t + n * u) = t + n * u
    BY <1>1, <1>2, <2>3, Int64Exact
  <2>6. ~(n > q)
    BY <1>3, <1>5
  <2> QED BY <1>2, <2>3, <2>4, <2>5, <2>6 DEF deadline, q
<1> QED BY <1>3, <1>4, <1>5

\* TTL of a deadline d that has not passed: the rounding does not overflow, and
\* the answer is within half a second, exact for whole seconds.
LEMMA RoundedTtl ==
    ASSUME NEW t \in Nat, t >= kMsPerSec \div 2, NEW d \in Nat, t <= d, d <= Int64Max
    PROVE  /\ TtlSeconds(d - t) \in Nat
           /\ 2 * (TtlSeconds(d - t) * kMsPerSec - (d - t)) \in -kMsPerSec .. kMsPerSec
           /\ \A n \in Nat : d - t = n * kMsPerSec => TtlSeconds(d - t) = n
<1> DEFINE ms == d - t
           half == kMsPerSec \div 2
           r == (ms + half) \div kMsPerSec
<1>1. Int64Max \in Nat /\ kMsPerSec \in Nat \ {0} /\ ms \in Nat
  BY CommandsAssumption
<1>2. half \in Nat /\ 2 * half <= kMsPerSec /\ kMsPerSec - 2 * half < 2
  BY <1>1
<1>3. ms + half <= Int64Max /\ ms + half \in Nat
  BY <1>1, <1>2
<1>4. Int64(ms + half) = ms + half
  BY <1>1, <1>3, Int64Exact
<1>5. TtlSeconds(ms) = r
  BY <1>1, <1>4 DEF TtlSeconds
<1>6. r \in Nat /\ r * kMsPerSec <= ms + half /\ ms + half - r * kMsPerSec < kMsPerSec
  BY <1>1, <1>3, WholePart
<1> HIDE DEF ms, half, r
<1>7. r * kMsPerSec \in Nat
  BY <1>1, <1>6, ScaledOrder
<1>8. 2 * (r * kMsPerSec - ms) \in -kMsPerSec .. kMsPerSec
  BY <1>1, <1>2, <1>6, <1>7
<1>9. ASSUME NEW n \in Nat, ms = n * kMsPerSec PROVE r = n
  <2>1. n * kMsPerSec \in Nat
    BY <1>1, ScaledOrder
  <2>2. /\ (n + 1) * kMsPerSec = n * kMsPerSec + kMsPerSec
        /\ (r + 1) * kMsPerSec = r * kMsPerSec + kMsPerSec
    BY <1>1, <1>6, ScaledOrder
  <2>3. half < kMsPerSec
    BY <1>1, <1>2
  <2>4. r * kMsPerSec < (n + 1) * kMsPerSec
    BY <1>1, <1>2, <1>6, <1>7, <1>9, <2>1, <2>2, <2>3
  <2>5. n * kMsPerSec < (r + 1) * kMsPerSec
    BY <1>1, <1>2, <1>6, <1>7, <1>9, <2>1, <2>2
  <2>6. r <= n /\ n <= r
    BY <1>1, <1>6, <2>4, <2>5, ScaledOrder
  <2> QED BY <1>6, <2>6
<1> QED BY <1>5, <1>6, <1>8, <1>9 DEF ms

-----------------------------------------------------------------------------
(* The options of SET.                                                     *)

\* The errors the option loop can end in.
OptionErrors == {error("kSyntax"), error("kNotInteger"), error("invalidExpire")}

\* EX or PX takes the numbers whose deadline an int64 can hold, and no other.
LEMMA OptionExact ==
    ASSUME NEW opt, NEW token, NEW t \in Nat
    PROVE  \/ /\ token \in DOMAIN Numerals /\ Numerals[token] \in Nat \ {0}
              /\ t < t + Numerals[token] * Unit(opt)
              /\ t + Numerals[token] * Unit(opt) <= Int64Max
              /\ t + Numerals[token] * Unit(opt) \in Nat
              /\ ExpiryOption(opt, token, t) = value(t + Numerals[token] * Unit(opt))
           \/ /\ token \in DOMAIN Numerals =>
                    ~(/\ t < t + Numerals[token] * Unit(opt)
                      /\ t + Numerals[token] * Unit(opt) <= Int64Max)
              /\ ExpiryOption(opt, token, t) \in OptionErrors
<1>1. Int64Max \in Nat /\ kMsPerSec \in Nat \ {0} /\ Unit(opt) \in Nat \ {0}
      /\ Unit(opt) = IF opt = "ex" THEN kMsPerSec ELSE 1
  BY CommandsAssumption DEF Unit
<1>2. CASE token \notin DOMAIN Numerals
  BY <1>2 DEF ExpiryOption, parseInt, OptionErrors
<1>3. CASE token \in DOMAIN Numerals
  <2> DEFINE n == Numerals[token]
             u == Unit(opt)
  <2>1. n \in Int
    BY <1>3, CommandsAssumption
  <2>2. CASE n <= 0
    <3>1. n * u <= 0 /\ n * u \in Int
      BY <1>1, <2>1, <2>2, Z3
    <3>2. ~(t < t + n * u)
      BY <3>1
    <3>3. parseInt(token) \in {nullopt, value(n)}
      BY DEF parseInt
    <3>4. ExpiryOption(opt, token, t) \in OptionErrors
      BY <2>1, <2>2, <3>3 DEF ExpiryOption, OptionErrors, value, nullopt
    <3> QED BY <3>2, <3>4
  <2>3. CASE n > 0
    <3>1. n \in Nat \ {0}
      BY <2>1, <2>3
    <3>2. /\ n * u \in Nat \ {0}
          /\ deadline(n, u, t) = IF t + n * u <= Int64Max THEN value(t + n * u) ELSE nullopt
      BY <1>1, <3>1, DeadlineExact
    <3>3. n <= n * u
      BY <1>1, <3>1, Z3
    <3>4. CASE t + n * u <= Int64Max
      <4>1. n <= Int64Max
        BY <1>1, <3>1, <3>2, <3>3, <3>4
      <4>2. Int64(n) = n
        BY <1>1, <3>1, <4>1, Int64Exact
      <4>3. parseInt(token) = value(n)
        BY <1>3, <4>2 DEF parseInt
      <4>4. deadline(n, u, t) = value(t + n * u)
        BY <3>2, <3>4
      <4>5. ExpiryOption(opt, token, t) = value(t + n * u)
        BY <1>1, <3>1, <4>3, <4>4 DEF ExpiryOption, value, nullopt
      <4> QED BY <1>3, <3>1, <3>2, <3>4, <4>5
    <3>5. CASE ~(t + n * u <= Int64Max)
      <4>1. deadline(n, u, t) = nullopt
        BY <3>2, <3>5
      <4>2. parseInt(token) \in {nullopt, value(n)}
        BY DEF parseInt
      <4>3. ExpiryOption(opt, token, t) \in OptionErrors
        BY <1>1, <3>1, <4>1, <4>2 DEF ExpiryOption, OptionErrors, value, nullopt
      <4> QED BY <3>5, <4>3
    <3> QED BY <3>4, <3>5
  <2> QED BY <2>1, <2>2, <2>3
<1> QED BY <1>2, <1>3

\* The loop as a function of its state, and the equation it is defined by.
LoopStates(tail) == (1 .. Len(tail) + 1) \X BOOLEAN \X Int

LoopBody(f, tail, t, s) ==
    LET i == s[1]
        have == s[2]
    IN  IF i > Len(tail) THEN value(s[3])
        ELSE IF tail[i] = "keepttl" /\ ~have THEN f[<<i + 1, TRUE, Keep>>]
        ELSE IF ~TakesNumber(tail[i], have, i < Len(tail)) THEN error("kSyntax")
        ELSE LET d == ExpiryOption(tail[i], tail[i + 1], t)
             IN  IF d[1] = "error" THEN d ELSE f[<<i + 2, TRUE, d[2]>>]

Loop(tail, t) == CHOOSE f : f = [s \in LoopStates(tail) |-> LoopBody(f, tail, t, s)]

\* Once an option has been taken, the loop is over or the rest is an error.
AfterOption(tail, s) == IF s[1] > Len(tail) THEN value(s[3]) ELSE error("kSyntax")

\* A function of that kind exists, so the loop computes one: it never has to
\* look at more than one option.
LEMMA LoopEquation ==
    ASSUME NEW tail \in Seq(STRING), NEW t \in Nat
    PROVE  Loop(tail, t) = [s \in LoopStates(tail) |-> LoopBody(Loop(tail, t), tail, t, s)]
<1> DEFINE after == [s \in LoopStates(tail) |-> AfterOption(tail, s)]
           g == [s \in LoopStates(tail) |-> LoopBody(after, tail, t, s)]
<1>1. Len(tail) \in Nat
  OBVIOUS
<1>2. \A i \in 1 .. Len(tail) + 1, at \in Int :
         /\ <<i, TRUE, at>> \in LoopStates(tail)
         /\ g[<<i, TRUE, at>>] = after[<<i, TRUE, at>>]
  <2> SUFFICES ASSUME NEW i \in 1 .. Len(tail) + 1, NEW at \in Int
               PROVE  /\ <<i, TRUE, at>> \in LoopStates(tail)
                      /\ g[<<i, TRUE, at>>] = after[<<i, TRUE, at>>]
    OBVIOUS
  <2>1. <<i, TRUE, at>> \in LoopStates(tail)
    BY DEF LoopStates
  <2>2. g[<<i, TRUE, at>>] = LoopBody(after, tail, t, <<i, TRUE, at>>)
    BY <2>1
  <2>3. after[<<i, TRUE, at>>] = AfterOption(tail, <<i, TRUE, at>>)
    BY <2>1
  <2>4. LoopBody(after, tail, t, <<i, TRUE, at>>) = AfterOption(tail, <<i, TRUE, at>>)
    BY DEF LoopBody, AfterOption, TakesNumber
  <2> QED BY <2>1, <2>2, <2>3, <2>4
<1>3. \A s \in LoopStates(tail) : LoopBody(g, tail, t, s) = LoopBody(after, tail, t, s)
  <2> SUFFICES ASSUME NEW s \in LoopStates(tail)
               PROVE  LoopBody(g, tail, t, s) = LoopBody(after, tail, t, s)
    OBVIOUS
  <2> HIDE DEF g, after
  <2>1. s[1] \in 1 .. Len(tail) + 1 /\ s[2] \in BOOLEAN /\ s[3] \in Int
    BY DEF LoopStates
  <2>2. CASE s[1] > Len(tail)
    BY <2>2 DEF LoopBody
  <2>3. CASE s[1] <= Len(tail)
    <3>1. s[1] + 1 \in 1 .. Len(tail) + 1 /\ Keep \in Int
      BY <1>1, <2>1, <2>3 DEF Keep
    <3>2. g[<<s[1] + 1, TRUE, Keep>>] = after[<<s[1] + 1, TRUE, Keep>>]
      BY <1>2, <3>1
    <3> DEFINE d == ExpiryOption(tail[s[1]], tail[s[1] + 1], t)
    <3>3. d[1] = "error" \/ d[2] \in Int
      <4>1. d \in OptionErrors \/ \E x \in Nat : d = value(x)
        BY OptionExact
      <4> QED BY <4>1 DEF OptionErrors, error, value
    <3> HIDE DEF d
    <3>4. TakesNumber(tail[s[1]], s[2], s[1] < Len(tail)) => s[1] + 2 \in 1 .. Len(tail) + 1
      BY <1>1, <2>1 DEF TakesNumber
    <3>5. (TakesNumber(tail[s[1]], s[2], s[1] < Len(tail)) /\ d[1] # "error") =>
             g[<<s[1] + 2, TRUE, d[2]>>] = after[<<s[1] + 2, TRUE, d[2]>>]
      BY <1>2, <3>3, <3>4
    <3> QED BY <3>2, <3>5 DEF LoopBody, d
  <2> QED BY <1>1, <2>1, <2>2, <2>3
<1>4. g = [s \in LoopStates(tail) |-> LoopBody(g, tail, t, s)]
  BY <1>3, Zenon
<1> HIDE DEF g
<1>5. \E f : f = [s \in LoopStates(tail) |-> LoopBody(f, tail, t, s)]
  BY <1>4, Zenon
<1> QED BY <1>5, Zenon DEF Loop

\* The option loop settles on the deadline the usage line grants, and ends in an
\* error for every other tail.
LEMMA OptionsAsDocumented ==
    ASSUME NEW tail \in Seq(STRING), now \in Nat
    PROVE  \/ Granted(tail) = {} /\ SetOptions(tail, now) \in OptionErrors
           \/ \E d \in {Forever, Keep} \cup now + 1 .. Int64Max :
                 Granted(tail) = {d} /\ SetOptions(tail, now) = value(d)
<1> DEFINE L == Loop(tail, now)
<1>1. Len(tail) \in Nat /\ Int64Max \in Nat
  BY CommandsAssumption
<1>2. SetOptions(tail, now) = L[<<1, FALSE, Forever>>]
  BY Zenon DEF SetOptions, Loop, LoopBody, LoopStates
<1>3. L = [s \in LoopStates(tail) |-> LoopBody(L, tail, now, s)]
  BY LoopEquation
<1> HIDE DEF L
<1>4. \A i \in 1 .. Len(tail) + 1, at \in Int :
         L[<<i, TRUE, at>>] = IF i > Len(tail) THEN value(at) ELSE error("kSyntax")
  <2> SUFFICES ASSUME NEW i \in 1 .. Len(tail) + 1, NEW at \in Int
               PROVE  L[<<i, TRUE, at>>] = IF i > Len(tail) THEN value(at)
                                           ELSE error("kSyntax")
    OBVIOUS
  <2>1. <<i, TRUE, at>> \in LoopStates(tail)
    BY DEF LoopStates
  <2>2. L[<<i, TRUE, at>>] = LoopBody(L, tail, now, <<i, TRUE, at>>)
    BY <1>3, <2>1
  <2> QED BY <2>2 DEF LoopBody, TakesNumber
<1>5. SetOptions(tail, now) = LoopBody(L, tail, now, <<1, FALSE, Forever>>)
  <2>1. 1 \in 1 .. Len(tail) + 1 /\ Forever \in Int
    BY <1>1 DEF Forever
  <2>2. <<1, FALSE, Forever>> \in LoopStates(tail)
    BY <2>1, Zenon DEF LoopStates
  <2> QED BY <1>2, <1>3, <2>2
<1> DEFINE keepttl == <<"keepttl">>
<1>0. keepttl[1] = "keepttl"
  OBVIOUS
<1> HIDE DEF keepttl
<1>6. CASE tail = <<>>
  <2>1. SetOptions(tail, now) = value(Forever)
    BY <1>5, <1>6 DEF LoopBody
  <2>2. Granted(tail) = {Forever}
    BY <1>6 DEF Granted
  <2> QED BY <2>1, <2>2
<1>7. CASE tail # <<>> /\ tail[1] = "keepttl"
  <2>1. Len(tail) >= 1
    BY <1>7
  <2>2. 2 \in 1 .. Len(tail) + 1 /\ Keep \in Int
    BY <1>1, <2>1 DEF Keep
  <2>3. SetOptions(tail, now) = L[<<2, TRUE, Keep>>]
    <3>1. ~(1 > Len(tail)) /\ 1 + 1 = 2
      BY <1>1, <2>1
    <3>2. LoopBody(L, tail, now, <<1, FALSE, Forever>>) = L[<<1 + 1, TRUE, Keep>>]
      BY <1>7, <3>1 DEF LoopBody
    <3> QED BY <1>5, <3>1, <3>2
  <2>4. SetOptions(tail, now) = IF 2 > Len(tail) THEN value(Keep) ELSE error("kSyntax")
    BY <1>4, <2>2, <2>3
  <2>5. CASE Len(tail) = 1
    <3>1. tail = <<"keepttl">>
      BY <1>7, <2>5
    <3>2. Granted(tail) = {Keep}
      BY <3>1 DEF Granted
    <3> QED BY <2>4, <2>5, <3>2
  <2>6. CASE Len(tail) # 1
    <3>1. tail # <<"keepttl">> /\ tail # <<>> /\ ~(tail[1] \in {"ex", "px"})
      BY <1>7, <2>6
    <3>2. Granted(tail) = {}
      BY <3>1 DEF Granted
    <3>3. ~(2 > Len(tail))
      <4>1. \A n \in Nat : n >= 1 /\ n # 1 => ~(2 > n)
        OBVIOUS
      <4> QED BY <1>1, <2>1, <2>6, <4>1, Zenon
    <3>4. SetOptions(tail, now) = error("kSyntax")
      BY <2>4, <3>3, Zenon
    <3> QED BY <3>2, <3>4 DEF OptionErrors
  <2> QED BY <2>5, <2>6
<1>8. CASE tail # <<>> /\ tail[1] # "keepttl" /\ ~(tail[1] \in {"ex", "px"} /\ Len(tail) > 1)
  <2>1. Len(tail) >= 1
    BY <1>8
  <2>2. SetOptions(tail, now) = error("kSyntax")
    BY <1>1, <1>5, <1>8, <2>1 DEF LoopBody, TakesNumber
  <2>3. tail # keepttl
    BY <1>8, <1>0
  <2>4. ~(Len(tail) = 2 /\ tail[1] \in {"ex", "px"})
    BY <1>8
  <2>5. Granted(tail) = {}
    BY <1>8, <2>3, <2>4 DEF Granted, keepttl
  <2> QED BY <2>2, <2>5 DEF OptionErrors
<1>9. CASE tail # <<>> /\ tail[1] \in {"ex", "px"} /\ Len(tail) > 1
  <2> DEFINE d == ExpiryOption(tail[1], tail[2], now)
             at == now + Numerals[tail[2]] * Unit(tail[1])
  <2>1. tail[1] # "keepttl" /\ TakesNumber(tail[1], FALSE, 1 < Len(tail))
    BY <1>9 DEF TakesNumber
  <2>2. SetOptions(tail, now) = IF d[1] = "error" THEN d ELSE L[<<3, TRUE, d[2]>>]
    BY <1>1, <1>5, <1>9, <2>1 DEF LoopBody
  <2>3. tail # <<"keepttl">> /\ tail # <<>>
    <3>1. tail # keepttl
      BY <1>0, <2>1
    <3> QED BY <1>9, <3>1 DEF keepttl
  <2>4. CASE d \in OptionErrors
    <3>1. SetOptions(tail, now) = d
      BY <2>2, <2>4 DEF OptionErrors, error
    <3>2. tail[2] \in DOMAIN Numerals => ~(now < at /\ at <= Int64Max)
      <4>1. d # value(at)
        BY <2>4 DEF OptionErrors, error, value
      <4> QED BY <4>1, OptionExact
    <3>3. Granted(tail) = {}
      BY <2>3, <3>2 DEF Granted
    <3> QED BY <2>4, <3>1, <3>3
  <2>5. CASE d \notin OptionErrors
    <3>1. /\ tail[2] \in DOMAIN Numerals /\ now < at /\ at <= Int64Max /\ at \in Nat
          /\ d = value(at)
      BY <2>5, OptionExact
    <3> HIDE DEF at
    <3>2. d[1] # "error" /\ d[2] = at
      BY <3>1 DEF value
    <3>3. 3 \in 1 .. Len(tail) + 1 /\ at \in Int
      BY <1>1, <1>9, <3>1
    <3>4. SetOptions(tail, now) = IF 3 > Len(tail) THEN value(at) ELSE error("kSyntax")
      BY <1>4, <2>2, <3>2, <3>3
    <3>5. CASE Len(tail) = 2
      <4>1. Granted(tail) = {at}
        BY <1>9, <2>3, <3>1, <3>5 DEF Granted, at
      <4>2. SetOptions(tail, now) = value(at)
        BY <3>4, <3>5
      <4>3. at \in now + 1 .. Int64Max
        BY <1>1, <3>1
      <4> QED BY <4>1, <4>2, <4>3
    <3>6. CASE Len(tail) # 2
      <4>1. ~(3 > Len(tail))
        <5>1. \A n \in Nat : n > 1 /\ n # 2 => ~(3 > n)
          OBVIOUS
        <5> QED BY <1>1, <1>9, <3>6, <5>1, Zenon
      <4>2. SetOptions(tail, now) = error("kSyntax")
        BY <3>4, <4>1, Zenon
      <4>3. Granted(tail) = {}
        BY <2>3, <3>6 DEF Granted
      <4> QED BY <4>2, <4>3 DEF OptionErrors
    <3> QED BY <3>5, <3>6
  <2> QED BY <2>4, <2>5
<1> QED BY <1>6, <1>7, <1>8, <1>9

-----------------------------------------------------------------------------
(* The arguments of DEL.                                                   *)

\* What is held is an entry, and dropping keys takes exactly those.
LEMMA HeldEntries ==
    ASSUME NEW m \in MapType
    PROVE  /\ \A k \in Held(m) : m[k] \in [val : STRING, exp : Deadline]
           /\ IsFiniteSet(Held(m)) /\ Held(m) \subseteq Keys
           /\ \A R : /\ Drop(m, R) \in MapType
                     /\ Held(Drop(m, R)) = Held(m) \ R
           /\ Missing \notin [val : STRING, exp : Deadline]
<1>1. Missing \notin [val : STRING, exp : Deadline]
  <2>1. Deadline \subseteq Int
    BY CommandsAssumption DEF Deadline, Forever
  <2> QED BY <2>1, CommandsAssumption
<1>2. \A k \in Held(m) : m[k] \in [val : STRING, exp : Deadline]
  BY DEF Held, MapType
<1>3. Held(m) \subseteq Keys
  BY DEF Held
<1>4. IsFiniteSet(Held(m))
  BY <1>3, CommandsAssumption, FS_Subset
<1>5. ASSUME NEW R PROVE Drop(m, R) \in MapType
  BY DEF Drop, MapType
<1>6. ASSUME NEW R PROVE Held(Drop(m, R)) = Held(m) \ R
  BY DEF Held, Drop
<1> QED BY <1>1, <1>2, <1>3, <1>4, <1>5, <1>6

Named(args, s) == {args[i] : i \in s}

\* What the fold over the arguments has computed after the positions s, and the
\* equation it is defined by.
DelBody(f, m, args, s) ==
    IF s = {} THEN [map |-> m, n |-> 0]
    ELSE LET acc == f[s \ {Max(s)}]
             o == DelCall(acc.map, args[Max(s)])
         IN  [map |-> o.map, n |-> acc.n + (IF o.ret THEN 1 ELSE 0)]

DelLoop(m, args) ==
    CHOOSE f : f = [s \in SUBSET DOMAIN args |-> DelBody(f, m, args, s)]

\* The keys named so far are gone, and those of them that were there counted.
Erased(m, args, s) ==
    [map |-> Drop(m, Named(args, s)), n |-> Cardinality(Named(args, s) \cap Held(m))]

\* One more argument takes its key, and counts it the first time.
LEMMA EraseOne ==
    ASSUME NEW m \in MapType, NEW args \in Seq(STRING), NEW s \in SUBSET DOMAIN args, s # {}
    PROVE  /\ s \ {Max(s)} \in SUBSET DOMAIN args /\ Max(s) \in s
           /\ \A f : f[s \ {Max(s)}] = Erased(m, args, s \ {Max(s)})
                        => DelBody(f, m, args, s) = Erased(m, args, s)
<1> DEFINE x == Max(s)
           R == Named(args, s \ {x})
           C == R \cap Held(m)
<1>1. x \in s
  <2>1. s \subseteq Nat /\ Len(args) \in Nat /\ \A n \in s : n <= Len(args)
    OBVIOUS
  <2> QED BY <2>1, MaxIsGreatest
<1> HIDE DEF x
<1>2. Named(args, s) = R \cup {args[x]}
  BY <1>1 DEF Named
<1> HIDE DEF R
<1>3. Drop(Drop(m, R), {args[x]}) = Drop(m, R \cup {args[x]})
  BY DEF Drop
<1>4. args[x] \in Held(Drop(m, R)) <=> args[x] \in Held(m) /\ args[x] \notin R
  BY HeldEntries
<1>5. IsFiniteSet(C) /\ Cardinality(C) \in Nat
  BY HeldEntries, FS_Subset, FS_CardinalityType
<1> HIDE DEF C
<1>6. Cardinality((R \cup {args[x]}) \cap Held(m)) =
         Cardinality(C) + (IF args[x] \in Held(Drop(m, R)) THEN 1 ELSE 0)
  <2>1. CASE args[x] \in Held(m)
    <3>1. (R \cup {args[x]}) \cap Held(m) = C \cup {args[x]}
      BY <2>1 DEF C
    <3>2. args[x] \in C <=> ~(args[x] \in Held(Drop(m, R)))
      BY <1>4, <2>1 DEF C
    <3>3. Cardinality(C \cup {args[x]}) = IF args[x] \in C THEN Cardinality(C)
                                         ELSE Cardinality(C) + 1
      BY <1>5, FS_AddElement
    <3>4. Cardinality(C) + 0 = Cardinality(C)
      BY <1>5
    <3> QED BY <3>1, <3>2, <3>3, <3>4, Zenon
  <2>2. CASE args[x] \notin Held(m)
    <3>1. (R \cup {args[x]}) \cap Held(m) = C
      BY <2>2 DEF C
    <3>2. ~(args[x] \in Held(Drop(m, R)))
      BY <1>4, <2>2
    <3>3. Cardinality(C) + 0 = Cardinality(C)
      BY <1>5
    <3> QED BY <3>1, <3>2, <3>3, Zenon
  <2> QED BY <2>1, <2>2
<1>7. ASSUME NEW f, f[s \ {x}] = [map |-> Drop(m, R), n |-> Cardinality(C)]
      PROVE  DelBody(f, m, args, s) =
                [map |-> Drop(m, R \cup {args[x]}),
                 n |-> Cardinality((R \cup {args[x]}) \cap Held(m))]
  <2>1. f[s \ {x}].map = Drop(m, R) /\ f[s \ {x}].n = Cardinality(C)
    BY <1>7
  <2> DEFINE o == DelCall(Drop(m, R), args[x])
  <2>2. o.map = Drop(m, R \cup {args[x]}) /\ o.ret = (args[x] \in Held(Drop(m, R)))
    BY <1>3, Zenon DEF DelCall, Outcome
  <2>3. DelBody(f, m, args, s) = [map |-> o.map, n |-> Cardinality(C) + (IF o.ret THEN 1 ELSE 0)]
    BY <2>1, Zenon DEF DelBody, x
  <2> HIDE DEF o
  <2> QED BY <1>6, <2>2, <2>3, Zenon
<1> QED BY <1>1, <1>2, <1>7 DEF Erased, C, R, x

\* The fold computes that, by the least set of positions for which it would not.
LEMMA DelLoopExact ==
    ASSUME NEW m \in MapType, NEW args \in Seq(STRING)
    PROVE  \A s \in SUBSET DOMAIN args : DelLoop(m, args)[s] = Erased(m, args, s)
<1> DEFINE D == SUBSET DOMAIN args
           g == [s \in D |-> Erased(m, args, s)]
           L == DelLoop(m, args)
<1>1. \A f : DelBody(f, m, args, {}) = Erased(m, args, {})
  <2>1. Named(args, {}) = {} /\ Drop(m, {}) = m /\ Cardinality({}) = 0
    BY FS_EmptySet DEF Named, Drop, MapType
  <2> QED BY <2>1 DEF DelBody, Erased
<1>2. \A s \in D : DelBody(g, m, args, s) = Erased(m, args, s)
  <2> SUFFICES ASSUME NEW s \in D, s # {}
               PROVE  DelBody(g, m, args, s) = Erased(m, args, s)
    BY <1>1
  <2>1. s \ {Max(s)} \in D
    BY EraseOne
  <2>2. g[s \ {Max(s)}] = Erased(m, args, s \ {Max(s)})
    BY <2>1
  <2> HIDE DEF g
  <2> QED BY <2>2, EraseOne
<1>3. g = [s \in D |-> DelBody(g, m, args, s)]
  BY <1>2, Zenon
<1> HIDE DEF g
<1>4. L = [s \in D |-> DelBody(L, m, args, s)]
  BY <1>3, Zenon DEF DelLoop
<1> HIDE DEF L
<1>5. \A s \in D : IsFiniteSet(s) /\ Cardinality(s) \in Nat
  <2>1. Len(args) \in Nat /\ DOMAIN args = 1 .. Len(args)
    OBVIOUS
  <2>2. IsFiniteSet(DOMAIN args)
    BY <2>1, FS_Interval
  <2> QED BY <2>2, FS_Subset, FS_CardinalityType
<1> DEFINE Bad == {s \in D : L[s] # Erased(m, args, s)}
           Sizes == {Cardinality(s) : s \in Bad}
<1>6. ASSUME Bad # {} PROVE FALSE
  <2>1. Sizes # {} /\ Sizes \subseteq Nat
    BY <1>5, <1>6
  <2>2. PICK c \in Sizes : \A d \in Sizes : c <= d
    <3> HIDE DEF Sizes
    <3> QED BY <2>1, LeastExists
  <2>3. PICK s \in Bad : \A r \in Bad : Cardinality(s) <= Cardinality(r)
    BY <2>2
  <2>4. s \in D /\ L[s] = DelBody(L, m, args, s)
    BY <1>4, <2>3
  <2>5. s # {}
    BY <1>1, <2>3, <2>4
  <2>6. /\ s \ {Max(s)} \in D /\ Max(s) \in s
        /\ L[s \ {Max(s)}] # Erased(m, args, s \ {Max(s)})
    BY <2>3, <2>4, <2>5, EraseOne
  <2>7. Cardinality(s \ {Max(s)}) = Cardinality(s) - 1
    BY <1>5, <2>4, <2>6, FS_RemoveElement
  <2>8. Cardinality(s) <= Cardinality(s) - 1
    BY <2>3, <2>6, <2>7
  <2> QED BY <1>5, <2>4, <2>8
<1> QED BY <1>6 DEF L

\* DEL takes the keys it names and answers how many went.
LEMMA DelExact ==
    ASSUME NEW m \in MapType, NEW cmd \in Seq(STRING), cmd # <<>>
    PROVE  LET gone == ToSet(Tail(cmd)) IN
           /\ cmdDel(m, cmd).map = Drop(m, gone)
           /\ cmdDel(m, cmd).reply =
                integer(Cardinality(Held(m)) - Cardinality(Held(Drop(m, gone))))
<1> DEFINE args == Tail(cmd)
           all == DelLoop(m, args)[DOMAIN args]
           gone == ToSet(args)
<1>1. args \in Seq(STRING)
  BY HeadTailProperties
<1>2. cmdDel(m, cmd) = Replies(all.map, integer(all.n))
  BY Zenon DEF cmdDel, FoldLeft, MapThenFoldSet, DelLoop, DelBody
<1>3. all = Erased(m, args, DOMAIN args)
  BY <1>1, DelLoopExact
<1>4. all = [map |-> Drop(m, gone), n |-> Cardinality(gone \cap Held(m))]
  BY <1>3, Zenon DEF Erased, Named, ToSet
<1> HIDE DEF args, all, gone
<1>5. all.map = Drop(m, gone) /\ all.n = Cardinality(gone \cap Held(m))
  BY <1>4
<1>6. Held(Drop(m, gone)) = Held(m) \ gone
  BY HeldEntries
<1>7. Cardinality(gone \cap Held(m)) = Cardinality(Held(m)) - Cardinality(Held(m) \ gone)
  <2>1. IsFiniteSet(Held(m))
    BY HeldEntries
  <2>2. /\ IsFiniteSet(gone \cap Held(m)) /\ IsFiniteSet(Held(m) \ gone)
        /\ (gone \cap Held(m)) \cup (Held(m) \ gone) = Held(m)
        /\ (gone \cap Held(m)) \cap (Held(m) \ gone) = {}
    BY <2>1, FS_Subset
  <2>3. Cardinality(gone \cap Held(m)) \in Nat /\ Cardinality(Held(m) \ gone) \in Nat
        /\ Cardinality({}) = 0
    BY <2>2, FS_CardinalityType, FS_EmptySet
  <2>4. Cardinality(Held(m)) = Cardinality(gone \cap Held(m)) + Cardinality(Held(m) \ gone) - 0
    BY <2>2, <2>3, FS_Union
  <2> QED BY <2>3, <2>4
<1>8. /\ cmdDel(m, cmd).map = all.map
      /\ cmdDel(m, cmd).reply = integer(all.n)
  BY <1>2 DEF Replies
<1> QED BY <1>5, <1>6, <1>7, <1>8 DEF args, gone

-----------------------------------------------------------------------------
(* Requests.                                                               *)

\* The deadline a key is stored with: KEEPTTL means the one it has.
KeptBy(m, k, exp) ==
    IF exp # Keep THEN exp ELSE IF k \in Held(m) THEN m[k].exp ELSE Forever

\* What a put may have done: stored the entry, or left the map alone.
Stores(m, o, k, v, exp) ==
    o.ret = TRUE /\ o.map[k] = [val |-> v, exp |-> KeptBy(m, k, exp)]
Refuses(m, o) == o.ret = FALSE /\ o.map = m

\* A put with a deadline ahead stores the entry or leaves the map alone.
LEMMA PutExact ==
    ASSUME NEW m \in MapType, NEW t \in Nat, NEW k \in Keys, NEW v \in STRING, NEW ev,
           NEW exp \in {Forever, Keep} \cup t + 1 .. Int64Max,
           NEW o \in PutCall(m, t, Cap, ev, k, v, exp)
    PROVE  /\ o.map \in MapType
           /\ Stores(m, o, k, v, exp) \/ Refuses(m, o)
<1> DEFINE kept == KeptBy(m, k, exp)
           e == [val |-> v, exp |-> kept]
           Stored(n) == [n EXCEPT ![k] = e]
<1>1. kept \in Deadline
  <2>1. exp # Keep => exp \in Deadline
    BY CommandsAssumption DEF Deadline, Forever, Keep
  <2>2. k \in Held(m) => m[k].exp \in Deadline
    BY HeldEntries
  <2>3. Forever \in Deadline
    BY DEF Deadline
  <2> QED BY <2>1, <2>2, <2>3 DEF KeptBy
<1>2. ~(exp \notin {Forever, Keep} /\ exp < t)
  BY CommandsAssumption
<1>3. PutCall(m, t, Cap, ev, k, v, exp) =
         {p \in {Outcome(Stored(m), TRUE)} : Cardinality(Held(p.map)) <= Cap}
         \cup (IF k \in Held(m) THEN {}
               ELSE IF ev THEN {Outcome(Stored(Drop(m, {x})), TRUE) : x \in Held(m)}
               ELSE {Outcome(m, FALSE)})
  BY <1>2, Zenon DEF PutCall, KeptBy
<1> HIDE DEF kept
<1>4. ASSUME NEW n \in MapType PROVE Stored(n) \in MapType /\ Stored(n)[k] = e
  BY <1>1 DEF MapType
<1>5. \/ \E n \in MapType : o = Outcome(Stored(n), TRUE)
      \/ o = Outcome(m, FALSE)
  <2>1. \A x : Drop(m, {x}) \in MapType
    BY HeldEntries
  <2> HIDE DEF Stored
  <2> QED BY <1>3, <2>1, Zenon
<1>6. CASE o = Outcome(m, FALSE)
  BY <1>6 DEF Outcome, Refuses
<1>7. ASSUME NEW n \in MapType, o = Outcome(Stored(n), TRUE)
      PROVE  o.map \in MapType /\ o.ret = TRUE /\ o.map[k] = e
  <2>1. o.map = Stored(n) /\ o.ret = TRUE
    BY <1>7 DEF Outcome
  <2> HIDE DEF Stored
  <2> QED BY <1>4, <2>1
<1> QED BY <1>5, <1>6, <1>7 DEF kept, Stores, Refuses

\* The commands whose effect is stated below reach their handlers.
LEMMA DispatchHandlers ==
    ASSUME NEW m, NEW t, NEW ev, NEW cmd \in Seq(STRING)
    PROVE  /\ (cmd # <<>> /\ cmd[1] = "set") =>
                 dispatch(m, t, ev, cmd) = IF Len(cmd) >= 3 THEN cmdSet(m, t, ev, cmd)
                                           ELSE {Replies(m, error("wrongArity"))}
           /\ (cmd # <<>> /\ cmd[1] = "expire") =>
                 dispatch(m, t, ev, cmd) = IF Len(cmd) = 3 THEN {cmdExpire(m, t, cmd)}
                                           ELSE {Replies(m, error("wrongArity"))}
           /\ (Len(cmd) >= 2 /\ cmd[1] = "del") => dispatch(m, t, ev, cmd) = {cmdDel(m, cmd)}
           /\ (Len(cmd) >= 2 /\ cmd[1] = "exists") => dispatch(m, t, ev, cmd) = {cmdExists(m, cmd)}
<1>1. /\ lookup("set") = value(-3) /\ lookup("expire") = value(3)
      /\ lookup("del") = value(-2) /\ lookup("exists") = value(-2)
  BY DEF lookup, kSpecs
<1>2. \A n \in Int : value(n) # nullopt /\ value(n)[2] = n
  BY DEF value, nullopt
<1>3. /\ arityOk(-3, Len(cmd)) <=> Len(cmd) >= 3
      /\ arityOk(3, Len(cmd)) <=> Len(cmd) = 3
      /\ arityOk(-2, Len(cmd)) <=> Len(cmd) >= 2
  BY DEF arityOk
<1>4. Len(cmd) >= 2 => cmd # <<>>
  OBVIOUS
<1>5. ASSUME cmd # <<>>, cmd[1] = "set"
      PROVE  dispatch(m, t, ev, cmd) = IF Len(cmd) >= 3 THEN cmdSet(m, t, ev, cmd)
                                       ELSE {Replies(m, error("wrongArity"))}
  BY <1>1, <1>2, <1>3, <1>5 DEF dispatch
<1>6. ASSUME cmd # <<>>, cmd[1] = "expire"
      PROVE  dispatch(m, t, ev, cmd) = IF Len(cmd) = 3 THEN {cmdExpire(m, t, cmd)}
                                       ELSE {Replies(m, error("wrongArity"))}
  BY <1>1, <1>2, <1>3, <1>6 DEF dispatch
<1>7. ASSUME Len(cmd) >= 2, cmd[1] = "del"
      PROVE  dispatch(m, t, ev, cmd) = {cmdDel(m, cmd)}
  BY <1>1, <1>2, <1>3, <1>4, <1>7 DEF dispatch
<1>8. ASSUME Len(cmd) >= 2, cmd[1] = "exists"
      PROVE  dispatch(m, t, ev, cmd) = {cmdExists(m, cmd)}
  BY <1>1, <1>2, <1>3, <1>4, <1>8 DEF dispatch
<1> QED BY <1>5, <1>6, <1>7, <1>8

\* Every SET ends in one of three ways: stored with the deadline the usage line
\* grants, refused for its options, or refused for want of room.
SetOutcome(m, cmd, o) ==
    LET tail == SubSeq(cmd, 4, Len(cmd)) IN
    \/ /\ o.reply = OK
       /\ \E d \in {Forever, Keep} \cup now + 1 .. Int64Max :
             /\ Granted(tail) = {d}
             /\ o.map[cmd[2]] = [val |-> cmd[3], exp |-> KeptBy(m, cmd[2], d)]
    \/ o.reply \in OptionErrors /\ Granted(tail) = {} /\ o.map = m
    \/ o.reply = error("kOom") /\ Granted(tail) # {} /\ o.map = m

\* There is no other way.
LEMMA SetExact ==
    ASSUME now \in Nat, NEW m \in MapType, NEW ev, NEW cmd \in Requests,
           Len(cmd) >= 3, cmd[1] = "set", NEW o \in dispatch(m, now, ev, cmd)
    PROVE  /\ cmd[2] \in Keys
           /\ o.map \in MapType
           /\ SetOutcome(m, cmd, o)
<1> DEFINE tail == SubSeq(cmd, 4, Len(cmd))
           opts == SetOptions(tail, now)
<1>1. cmd \in Seq(STRING) /\ cmd[2] \in Keys /\ cmd # <<>> /\ cmd[3] \in STRING
  BY RequestsAssumption
<1>2. tail \in Seq(STRING)
  BY <1>1
<1>3. o \in cmdSet(m, now, ev, cmd)
  BY <1>1, DispatchHandlers
<1> HIDE DEF tail
<1>4. CASE Granted(tail) = {} /\ opts \in OptionErrors
  <2>1. opts[1] = "error"
    BY <1>4 DEF OptionErrors, error
  <2>2. o = Replies(m, opts)
    BY <1>3, <2>1 DEF cmdSet, tail
  <2>3. o.map = m /\ o.reply = opts
    BY <2>2 DEF Replies
  <2> QED BY <1>1, <1>4, <2>3 DEF tail, SetOutcome
<1>5. ASSUME NEW d \in {Forever, Keep} \cup now + 1 .. Int64Max,
             Granted(tail) = {d}, opts = value(d)
      PROVE  /\ o.map \in MapType
             /\ \/ /\ o.reply = OK
                   /\ o.map[cmd[2]] = [val |-> cmd[3], exp |-> KeptBy(m, cmd[2], d)]
                \/ o.reply = error("kOom") /\ o.map = m
  <2>1. opts[1] # "error" /\ opts[2] = d
    BY <1>5 DEF value
  <2>2. PICK p \in PutCall(m, now, Cap, ev, cmd[2], cmd[3], d) :
           o = Replies(p.map, IF p.ret THEN OK ELSE error("kOom"))
    BY <1>3, <2>1 DEF cmdSet, tail
  <2>3. o.map = p.map /\ o.reply = IF p.ret THEN OK ELSE error("kOom")
    BY <2>2 DEF Replies
  <2>4. p.map \in MapType /\ (Stores(m, p, cmd[2], cmd[3], d) \/ Refuses(m, p))
    BY <1>1, PutExact
  <2> QED BY <2>3, <2>4 DEF Stores, Refuses
<1> QED BY <1>1, <1>2, <1>4, <1>5, OptionsAsDocumented DEF tail, SetOutcome

\* EXPIRE with a number of seconds gives the key that deadline, or answers 0 or
\* an error; with zero or less it deletes.
LEMMA ExpireExact ==
    ASSUME NEW t \in Nat, NEW m \in MapType, NEW cmd \in Seq(STRING), Len(cmd) = 3
    PROVE  LET o == cmdExpire(m, t, cmd)
               n == Numerals[cmd[3]]
               at == t + n * kMsPerSec
           IN  /\ o.map \in MapType
               /\ (o.reply = integer(1) /\ n > 0) =>
                     /\ n \in Nat \ {0} /\ at \in Nat /\ at <= Int64Max
                     /\ cmd[2] \in Held(o.map) /\ o.map[cmd[2]].exp = at
<1> DEFINE o == cmdExpire(m, t, cmd)
           n == Numerals[cmd[3]]
           at == t + n * kMsPerSec
<1>1. kMsPerSec \in Nat \ {0} /\ Int64Max \in Nat
  BY CommandsAssumption
<1>2. CASE parseInt(cmd[3]) = nullopt
  <2>1. o = Replies(m, error("kNotInteger"))
    BY <1>2 DEF cmdExpire
  <2>2. o.map = m /\ o.reply # integer(1)
    BY <2>1 DEF Replies, error, integer
  <2> HIDE DEF o, at
  <2> QED BY <2>2 DEF o
<1>3. CASE parseInt(cmd[3]) # nullopt
  <2>1. parseInt(cmd[3]) = value(n) /\ n \in Int
    BY <1>3, CommandsAssumption DEF parseInt
  <2>2. parseInt(cmd[3])[2] = n
    BY <2>1 DEF value
  <2>3. CASE n <= 0
    <3>1. o = Answer(DelCall(m, cmd[2]))
      BY <1>3, <2>2, <2>3 DEF cmdExpire
    <3>2. o.map = Drop(m, {cmd[2]})
      BY <3>1 DEF Answer, DelCall, Outcome, Replies
    <3>3. o.map \in MapType
      BY <3>2, HeldEntries
    <3>4. ~(n > 0)
      BY <2>1, <2>3
    <3> HIDE DEF o, at
    <3> QED BY <3>3, <3>4 DEF o
  <2>4. CASE n > 0
    <3>1. n \in Nat \ {0} /\ at \in Nat /\ at > t
      <4>1. n \in Nat \ {0}
        BY <2>1, <2>4
      <4>2. n * kMsPerSec \in Nat \ {0}
        BY <1>1, <4>1, DeadlineExact
      <4> QED BY <4>1, <4>2
    <3>2. deadline(n, kMsPerSec, t) = IF at <= Int64Max THEN value(at) ELSE nullopt
      BY <1>1, <3>1, DeadlineExact
    <3>3. ~(n <= 0)
      BY <2>1, <2>4
    <3> HIDE DEF at
    <3>4. CASE ~(at <= Int64Max)
      <4>1. deadline(n, kMsPerSec, t) = nullopt
        BY <3>2, <3>4
      <4>2. o = Replies(m, error("invalidExpire"))
        BY <1>3, <2>2, <3>3, <4>1 DEF cmdExpire
      <4>3. o.map = m /\ o.reply # integer(1)
        BY <4>2 DEF Replies, error, integer
      <4> HIDE DEF o
      <4> QED BY <4>3 DEF o
    <3>5. CASE at <= Int64Max
      <4>1. deadline(n, kMsPerSec, t) = value(at) /\ value(at) # nullopt /\ value(at)[2] = at
        BY <3>2, <3>5 DEF value, nullopt
      <4>2. o = Answer(ExpireCall(m, t, cmd[2], at))
        BY <1>3, <2>2, <3>3, <4>1 DEF cmdExpire
      <4>3. ~(at < t)
        BY <3>1
      <4>4. CASE cmd[2] \notin Held(m)
        <5> DEFINE c == ExpireCall(m, t, cmd[2], at)
        <5>1. c.map = m /\ c.ret = (cmd[2] \in Held(m))
          BY <4>4, Zenon DEF ExpireCall, Outcome
        <5>2. ~c.ret
          BY <4>4, <5>1, Zenon
        <5>3. o = Replies(c.map, integer(IF c.ret THEN 1 ELSE 0))
          BY <4>2 DEF Answer
        <5> HIDE DEF c, o
        <5>4. o.map = m /\ o.reply = integer(0)
          BY <5>1, <5>2, <5>3 DEF Replies
        <5>5. o.reply # integer(1)
          BY <5>4 DEF integer
        <5> QED BY <5>4, <5>5 DEF o
      <4>5. CASE cmd[2] \in Held(m)
        <5> DEFINE m2 == [m EXCEPT ![cmd[2]].exp = at]
        <5>1. ExpireCall(m, t, cmd[2], at) = Outcome(m2, TRUE)
          BY <4>3, <4>5 DEF ExpireCall
        <5>2. o.map = m2
          BY <4>2, <5>1 DEF Answer, Outcome, Replies
        <5>3. at \in Deadline /\ cmd[2] \in Keys
          BY <3>1, <3>5, <4>5 DEF Deadline, Held
        <5>4. m[cmd[2]] \in [val : STRING, exp : Deadline]
          BY <4>5, HeldEntries
        <5>5. /\ m2[cmd[2]] \in [val : STRING, exp : Deadline]
              /\ m2[cmd[2]].exp = at /\ m2 \in MapType
          BY <5>3, <5>4 DEF MapType
        <5>6. cmd[2] \in Held(m2)
          BY <5>3, <5>5, HeldEntries DEF Held
        <5> HIDE DEF o, m2
        <5> QED BY <3>1, <3>5, <5>2, <5>5, <5>6 DEF o, at
      <4> QED BY <4>4, <4>5
    <3> QED BY <3>4, <3>5
  <2> QED BY <2>1, <2>3, <2>4
<1> QED BY <1>2, <1>3

\* Whatever the request, the map stays one of entries with deadlines in range.
LEMMA DispatchKeepsType ==
    ASSUME now \in Nat, NEW m \in MapType, NEW ev, NEW cmd \in Requests,
           NEW o \in dispatch(m, now, ev, cmd)
    PROVE  o.map \in MapType
<1>1. cmd \in Seq(STRING)
  BY RequestsAssumption
<1>2. ASSUME NEW r, o = Replies(m, r) PROVE o.map \in MapType
  BY <1>2 DEF Replies
<1>3. CASE cmd = <<>>
  BY <1>2, <1>3 DEF dispatch
<1>4. CASE cmd # <<>> /\ lookup(cmd[1]) = nullopt
  BY <1>2, <1>4 DEF dispatch
<1>5. CASE cmd # <<>> /\ lookup(cmd[1]) # nullopt /\ ~arityOk(lookup(cmd[1])[2], Len(cmd))
  BY <1>2, <1>5 DEF dispatch
<1>6. CASE cmd # <<>> /\ lookup(cmd[1]) # nullopt /\ arityOk(lookup(cmd[1])[2], Len(cmd))
  <2>1. cmd[1] \in {"get", "set", "del", "exists", "expire", "ttl", "ping", "echo",
                    "dbsize", "flushall", "quit"}
    BY <1>6 DEF lookup, kSpecs
  <2>2. CASE cmd[1] = "set"
    BY <1>1, <1>2, <1>6, <2>2, DispatchHandlers, SetExact
  <2>3. CASE cmd[1] = "expire"
    BY <1>1, <1>2, <1>6, <2>3, DispatchHandlers, ExpireExact
  <2>4. CASE cmd[1] = "del"
    <3>1. o = cmdDel(m, cmd)
      BY <1>6, <2>4 DEF dispatch
    <3>2. o.map = Drop(m, ToSet(Tail(cmd)))
      BY <1>1, <1>6, <3>1, DelExact
    <3> QED BY <3>2, HeldEntries
  <2>5. CASE cmd[1] \in {"get", "exists", "ttl", "ping", "echo"}
    <3>1. \E r : o = Replies(m, r)
      BY <1>6, <2>5 DEF dispatch, cmdGet, cmdExists, cmdTtl, cmdPing
    <3> QED BY <1>2, <3>1
  <2>6. CASE cmd[1] = "dbsize"
    <3>1. \E r : o = Replies(m, r)
      BY <1>6, <2>6 DEF dispatch, cmdDbsize
    <3> QED BY <1>2, <3>1
  <2>7. CASE cmd[1] = "flushall"
    <3>1. o = cmdFlushall(m, cmd)
      BY <1>6, <2>7 DEF dispatch
    <3>2. o.map \in {m, [k \in Keys |-> Missing]}
      BY <3>1 DEF cmdFlushall, Replies
    <3> QED BY <3>2 DEF MapType
  <2>8. CASE cmd[1] = "quit"
    <3>1. o = [Replies(m, OK) EXCEPT !.close = TRUE]
      BY <1>6, <2>8 DEF dispatch
    <3> QED BY <3>1 DEF Replies
  <2> QED BY <2>1, <2>2, <2>3, <2>4, <2>5, <2>6, <2>7, <2>8
<1> QED BY <1>3, <1>4, <1>5, <1>6

-----------------------------------------------------------------------------
(* The inductive invariant.                                                *)

\* The next tick is neither this one nor, before the first turn, the one that
\* cachedTick_ starts from.
LEMMA NextTick ==
    ASSUME NEW n \in 0 .. TickMod - 1
    PROVE  /\ (n + 1) % TickMod \in 0 .. TickMod - 1
           /\ (n + 1) % TickMod # n
           /\ n = 0 => (n + 1) % TickMod # TickMod - 1
<1>1. TickMod \in Nat /\ TickMod > 2
  BY ServingAssumption
<1>2. CASE n + 1 < TickMod
  <2>1. (n + 1) % TickMod = n + 1
    BY <1>1, <1>2, SmallRemainder
  <2> QED BY <1>1, <1>2, <2>1
<1>3. CASE ~(n + 1 < TickMod)
  <2>1. n + 1 = TickMod
    BY <1>1, <1>3
  <2>2. TickMod % TickMod = 0
    BY <1>1, Z3
  <2> QED BY <1>1, <2>1, <2>2
<1> QED BY <1>2, <1>3

\* The time a handler is given, and that the map readers see is well formed.
LEMMA NowSound ==
    ASSUME ServingInv
    PROVE  /\ now \in Nat /\ now <= clock /\ now <= MaxClock
           /\ FirstNow <= now /\ now >= kMsPerSec \div 2
           /\ cachedNow <= now
           /\ phase = "batch" => wokenAt <= now
           /\ Seen \in MapType
<1>1. /\ clock \in Nat /\ cachedNow \in Nat /\ clock <= MaxClock /\ wokenAt \in Nat
      /\ FirstNow \in Nat /\ FirstNow >= kMsPerSec \div 2 /\ MaxClock \in Nat
      /\ kMsPerSec \in Nat \ {0}
  BY ServingAssumption, CommandsAssumption DEF ServingInv, TypeOK
<1>2. kMsPerSec \div 2 \in Nat
  BY <1>1
<1>3. Seen \in MapType
  BY HeldEntries DEF ServingInv, Seen, At
<1>4. CASE tick = cachedTick
  BY <1>1, <1>2, <1>3, <1>4 DEF now, ServingInv, ClockSound
<1>5. CASE tick # cachedTick
  BY <1>1, <1>2, <1>3, <1>5 DEF now, ServingInv, ClockSound
<1> QED BY <1>4, <1>5

\* The type of the map is the part of TypeOK that speaks of it.
LEMMA MapOK ==
    ASSUME NEW m \in MapType
    PROVE  \A k \in Held(m) : m[k].exp \in {Forever} \cup 0 .. Int64Max
BY HeldEntries DEF Deadline

\* The invariant holds when the server starts.
LEMMA ServingInitial == Init => ServingInv
<1> SUFFICES ASSUME Init PROVE ServingInv
  OBVIOUS
<1>1. map \in MapType
  BY DEF Init, MapType
<1>2. /\ TickMod \in Nat /\ TickMod > 2 /\ FirstNow \in Nat /\ MaxClock \in Nat
      /\ FirstNow <= MaxClock
  BY ServingAssumption
<1>3. TypeOK
  BY <1>1, <1>2, MapOK DEF Init, TypeOK
<1>4. ClockSound
  BY <1>2 DEF Init, ClockSound
<1>5. SweepSound
  BY ServingAssumption DEF Init, SweepSound
<1> QED BY <1>1, <1>3, <1>4, <1>5 DEF ServingInv

\* Every step keeps it.
LEMMA ServingStep == ServingInv /\ [Next]_vars => ServingInv'
<1> SUFFICES ASSUME ServingInv, [Next]_vars PROVE ServingInv'
  OBVIOUS
<1> USE DEF ServingInv
<1>1. /\ TickMod \in Nat /\ TickMod > 2 /\ FirstNow \in Nat /\ MaxClock \in Nat
      /\ {clock, cachedNow, lastSweep, wokenAt, sweptAt} \subseteq Nat
      /\ tick \in 0 .. TickMod - 1 /\ cachedTick \in 0 .. TickMod - 1
  BY ServingAssumption DEF TypeOK
<1>2. CASE wake
  <2>1. map' \in MapType
    BY <1>2 DEF wake
  <2>2. tick' \in 0 .. TickMod - 1 /\ tick' # tick /\ (tick = 0 => tick' # TickMod - 1)
    BY <1>1, <1>2, NextTick DEF wake
  <2>3. TypeOK'
    BY <1>1, <1>2, <2>2 DEF wake, TypeOK, Held
  <2>4. tick' # cachedTick'
    BY <1>2, <2>2 DEF wake, ClockSound
  <2>5. ClockSound'
    BY <1>1, <1>2, <2>4 DEF wake, ClockSound, TypeOK
  <2>6. SweepSound'
    BY <1>2 DEF wake, SweepSound
  <2> QED BY <2>1, <2>3, <2>5, <2>6
<1>3. ASSUME NEW cmd \in Requests, serve(cmd) PROVE ServingInv'
  <2>1. PICK o \in dispatch(Seen, now, evicts, cmd) : map' = o.map
    BY <1>3 DEF serve, Seen
  <2>2. map' \in MapType
    BY <2>1, NowSound, DispatchKeepsType
  <2>3. \A k \in Held(map') : map'[k].exp \in {Forever} \cup 0 .. Int64Max
    BY <2>2, MapOK
  <2>4. TypeOK'
    BY <1>1, <1>3, <2>3, NowSound DEF serve, cacheNow, TypeOK
  <2>5. ClockSound'
    BY <1>1, <1>3, NowSound DEF serve, cacheNow, ClockSound, TypeOK
  <2>6. SweepSound'
    BY <1>3 DEF serve, SweepSound
  <2> QED BY <2>2, <2>4, <2>5, <2>6
<1>4. CASE onTick
  <2>1. map' \in MapType
    BY <1>4 DEF onTick
  <2>2. {lastSweep', sweptAt'} \subseteq 0 .. MaxClock
    BY <1>1, <1>4, NowSound DEF onTick, TypeOK
  <2>3. TypeOK'
    BY <1>1, <1>4, <2>2, NowSound DEF onTick, cacheNow, TypeOK, Held
  <2>4. ClockSound'
    BY <1>1, <1>4, NowSound DEF onTick, cacheNow, ClockSound, TypeOK
  <2>5. SweepSound'
    <3>1. /\ lastSweep = sweptAt /\ wokenAt \in Nat /\ wokenAt <= now /\ now \in Nat
          /\ wokenAt' = wokenAt
      BY <1>1, <1>4, NowSound DEF onTick, SweepSound
    <3>2. CASE now - lastSweep >= expireIntervalMs
      <4>1. lastSweep' = now /\ sweptAt' = now
        BY <1>4, <3>2 DEF onTick
      <4> QED BY <3>1, <4>1, ServingAssumption DEF SweepSound
    <3>3. CASE ~(now - lastSweep >= expireIntervalMs)
      <4>1. UNCHANGED <<lastSweep, sweptAt>>
        BY <1>4, <3>3 DEF onTick
      <4> QED BY <1>1, <3>1, <3>3, <4>1, ServingAssumption DEF SweepSound
    <3> QED BY <3>2, <3>3
  <2> QED BY <2>1, <2>3, <2>4, <2>5
<1>5. CASE timePasses
  <2>1. map' \in MapType
    BY <1>5 DEF timePasses
  <2>2. TypeOK'
    BY <1>1, <1>5 DEF timePasses, TypeOK, Held
  <2>3. ClockSound'
    BY <1>1, <1>5 DEF timePasses, ClockSound, TypeOK
  <2>4. SweepSound'
    BY <1>5 DEF timePasses, SweepSound
  <2> QED BY <2>1, <2>2, <2>3, <2>4
<1>6. CASE UNCHANGED vars
  BY <1>6 DEF vars, TypeOK, ClockSound, SweepSound, Held
<1> QED BY <1>2, <1>3, <1>4, <1>5, <1>6 DEF Next

\* At every moment, whatever requests come and however long a turn takes, the map
\* holds entries with deadlines in range, the cached time is that of the turn whose
\* number it carries, and sweeps keep up with the turns.
THEOREM ServingInvariant == Spec => []ServingInv
<1>1. Init => ServingInv
  BY ServingInitial
<1>2. ServingInv /\ [Next]_vars => ServingInv'
  BY ServingStep
<1> QED BY <1>1, <1>2, PTL DEF Spec

-----------------------------------------------------------------------------
(* Theorems.                                                               *)

\* Server::now: a request is never given a time from before the loop woke up
\* for it, nor one ahead of the clock, nor one older than the Store has seen.
THEOREM RequestsSeeFreshTime == Spec => []FreshClock
<1>1. ServingInv => FreshClock
  <2> SUFFICES ASSUME ServingInv PROVE FreshClock
    OBVIOUS
  <2>1. TypeOK
    BY DEF ServingInv
  <2>2. ASSUME phase = "batch", NEW k \in Held(At(map, now))
        PROVE  map[k].exp = Forever \/ wokenAt <= map[k].exp
    <3>1. k \in Held(map) /\ k \notin Overdue(map, now)
      BY HeldEntries DEF ServingInv, At
    <3>2. map[k].exp = Forever \/ ~(now > map[k].exp)
      BY <3>1 DEF Overdue
    <3>3. map[k].exp \in {Forever} \cup 0 .. Int64Max
      BY <3>1, MapOK DEF ServingInv
    <3>4. now \in Nat /\ wokenAt <= now /\ wokenAt \in Nat
      BY <2>1, <2>2, NowSound, ServingAssumption DEF TypeOK
    <3> QED BY <3>2, <3>3, <3>4, CommandsAssumption
  <2> QED BY <2>1, <2>2, NowSound DEF FreshClock
<1> QED BY <1>1, ServingInvariant, PTL

\* cmdSet: SET does what its usage line says, at any time and for any tail, and a
\* SET that fails changes nothing.
THEOREM SetKeepsItsPromise == Spec => []SetAsDocumented
<1>1. ServingInv => SetAsDocumented
  <2> SUFFICES ASSUME ServingInv, NEW cmd \in Sets,
                      NEW o \in dispatch(Seen, now, evicts, cmd)
               PROVE  LET tail == SubSeq(cmd, 4, Len(cmd))
                          kept == IF cmd[2] \in Held(Seen) THEN Seen[cmd[2]].exp ELSE Forever
                      IN  IF o.reply = OK
                          THEN \E d \in Granted(tail) :
                                  o.map[cmd[2]] = [val |-> cmd[3],
                                                   exp |-> IF d = Keep THEN kept ELSE d]
                          ELSE o.map = Seen /\ (Granted(tail) = {} <=> o.reply # error("kOom"))
    BY Zenon DEF SetAsDocumented
  <2> DEFINE tail == SubSeq(cmd, 4, Len(cmd))
             kept == IF cmd[2] \in Held(Seen) THEN Seen[cmd[2]].exp ELSE Forever
  <2>1. now \in Nat /\ Seen \in MapType
    BY NowSound
  <2>2. cmd \in Requests /\ Len(cmd) >= 3 /\ cmd[1] = "set"
    BY DEF Sets
  <2>3. SetOutcome(Seen, cmd, o)
    BY <2>1, <2>2, SetExact
  <2>4. OK # error("kOom") /\ error("kOom") \notin OptionErrors /\ OK \notin OptionErrors
    BY DEF OK, error, OptionErrors
  <2>5. \A d : KeptBy(Seen, cmd[2], d) = IF d = Keep THEN kept ELSE d
    BY Zenon DEF KeptBy
  <2> HIDE DEF tail, kept
  <2>6. CASE o.reply = OK
    <3>1. PICK d : Granted(tail) = {d} /\ o.map[cmd[2]] = [val |-> cmd[3], exp |-> KeptBy(Seen, cmd[2], d)]
      BY <2>3, <2>4, <2>6, Zenon DEF SetOutcome, tail
    <3>2. o.map[cmd[2]] = [val |-> cmd[3], exp |-> IF d = Keep THEN kept ELSE d]
      BY <2>5, <3>1, Zenon
    <3> QED BY <2>6, <3>1, <3>2, Zenon DEF tail, kept
  <2>7. CASE o.reply # OK
    BY <2>3, <2>4, <2>7, Zenon DEF SetOutcome, tail
  <2> QED BY <2>6, <2>7
<1> QED BY <1>1, ServingInvariant, PTL

\* What TTL answers for a key with a deadline.
LEMMA TtlReply ==
    ASSUME NEW m, NEW t, NEW k \in Held(m), m[k].exp # Forever
    PROVE  cmdTtl(m, t, <<"ttl", k>>).reply = integer(TtlSeconds(m[k].exp - t))
<1>1. TtlCall(m, t, <<"ttl", k>>[2]) = m[k].exp - t
  BY DEF TtlCall
<1> QED BY <1>1 DEF cmdTtl, Replies

\* cmdTtl after cmdSet or cmdExpire: TTL gives back the seconds that were given,
\* and for any key is within half a second; nothing overflows.
THEOREM TtlGivesBackTheSeconds == Spec => []ExpiryRoundTrips
<1>1. ServingInv => ExpiryRoundTrips
  <2> SUFFICES ASSUME ServingInv PROVE ExpiryRoundTrips
    OBVIOUS
  <2>1. now \in Nat /\ now >= kMsPerSec \div 2 /\ Seen \in MapType
    BY NowSound
  <2>2. kMsPerSec \in Nat \ {0} /\ Int64Max \in Nat
    BY CommandsAssumption
  <2>3. ASSUME NEW m \in MapType, NEW k \in Held(m), NEW n \in Nat \ {0},
               now + n * kMsPerSec \in Nat, now + n * kMsPerSec <= Int64Max,
               m[k].exp = now + n * kMsPerSec
        PROVE  cmdTtl(m, now, <<"ttl", k>>).reply = integer(n)
    <3> DEFINE d == now + n * kMsPerSec
    <3>1. n * kMsPerSec \in Nat
      BY <2>2, ScaledOrder
    <3>2. d \in Nat /\ now <= d /\ d - now = n * kMsPerSec /\ d # Forever /\ d <= Int64Max
      BY <2>1, <2>3, <3>1 DEF Forever
    <3> HIDE DEF d
    <3>3. TtlSeconds(d - now) = n
      BY <2>1, <3>2, RoundedTtl
    <3> QED BY <2>3, <3>2, <3>3, TtlReply DEF d
  <2>4. ASSUME NEW cmd \in Requests, NEW o \in dispatch(Seen, now, evicts, cmd),
               Len(cmd) = 5, cmd[1] = "set", cmd[4] = "ex", o.reply = OK
        PROVE  cmdTtl(o.map, now, <<"ttl", cmd[2]>>).reply = integer(Numerals[cmd[5]])
    <3> DEFINE tail == SubSeq(cmd, 4, Len(cmd))
               d == now + Numerals[tail[2]] * Unit(tail[1])
    <3>1. cmd \in Seq(STRING)
      BY RequestsAssumption
    <3>2. Len(tail) = 2 /\ tail[1] = cmd[4] /\ tail[2] = cmd[5]
      BY <2>4, <3>1
    <3>3. /\ cmd[2] \in Keys /\ o.map \in MapType
          /\ SetOutcome(Seen, cmd, o)
      BY <2>1, <2>4, SetExact, SMTT(30)
    <3>4. OK # error("kOom") /\ OK \notin OptionErrors
      BY DEF OK, error, OptionErrors
    <3>5. PICK x : Granted(tail) = {x} /\ o.map[cmd[2]] = [val |-> cmd[3], exp |-> KeptBy(Seen, cmd[2], x)]
      BY <2>4, <3>3, <3>4, Zenon DEF SetOutcome
    <3>6. tail # <<>> /\ tail # <<"keepttl">>
      <4> DEFINE keepttl == <<"keepttl">>
      <4>1. Len(keepttl) = 1
        OBVIOUS
      <4> HIDE DEF keepttl, tail
      <4>2. tail # <<>> /\ tail # keepttl
        BY <3>2, <4>1
      <4> QED BY <4>2 DEF keepttl
    <3>7. tail[2] \in DOMAIN Numerals /\ x = d /\ now < d /\ d <= Int64Max
      <4> HIDE DEF tail
      <4>1. tail[2] \in DOMAIN Numerals
        BY <2>4, <3>2, <3>5, <3>6 DEF Granted
      <4>2. Granted(tail) = {y \in {d} : now < y /\ y <= Int64Max}
        BY <2>4, <3>2, <3>6, <4>1 DEF Granted
      <4> QED BY <3>5, <4>1, <4>2
    <3>8. Numerals[cmd[5]] \in Nat \ {0} /\ d = now + Numerals[cmd[5]] * kMsPerSec /\ d \in Nat
      <4>1. d = now + Numerals[cmd[5]] * kMsPerSec
        BY <2>4, <3>2 DEF Unit
      <4> DEFINE n == Numerals[cmd[5]]
      <4>2. n \in Int
        BY <3>2, <3>7, CommandsAssumption
      <4> HIDE DEF n, d, tail
      <4>3. n * kMsPerSec \in Int
        BY <2>2, <4>2, Z3
      <4>4. n * kMsPerSec > 0 /\ d \in Nat
        BY <2>1, <3>7, <4>1, <4>3 DEF n
      <4>5. n > 0
        BY <2>2, <4>2, <4>4, Z3
      <4> QED BY <4>1, <4>2, <4>4, <4>5 DEF n
    <3>9. /\ o.map[cmd[2]] \in [val : STRING, exp : Int]
          /\ o.map[cmd[2]].exp = d
      <4> HIDE DEF d
      <4>1. d # Keep /\ d \in Int
        BY <3>8 DEF Keep
      <4>2. cmd[3] \in STRING
        <5>1. 3 \in 1 .. Len(cmd)
          BY <2>4
        <5> QED BY <3>1, <5>1, ElementOfSeq, Zenon
      <4> QED BY <3>5, <3>7, <4>1, <4>2 DEF KeptBy
    <3>10. cmd[2] \in Held(o.map)
      BY <3>3, <3>9, CommandsAssumption DEF Held
    <3> HIDE DEF d, tail
    <3> QED BY <2>3, <3>3, <3>7, <3>8, <3>9, <3>10
  <2>5. ASSUME NEW cmd \in Requests, NEW o \in dispatch(Seen, now, evicts, cmd),
               Len(cmd) = 3, cmd[1] = "expire", o.reply = integer(1), Numerals[cmd[3]] > 0
        PROVE  cmdTtl(o.map, now, <<"ttl", cmd[2]>>).reply = integer(Numerals[cmd[3]])
    <3>1. cmd \in Seq(STRING) /\ cmd # <<>>
      BY <2>5, RequestsAssumption
    <3>2. o = cmdExpire(Seen, now, cmd)
      BY <2>5, <3>1, DispatchHandlers
    <3>3. PICK n : n = Numerals[cmd[3]]
      OBVIOUS
    <3>4. /\ o.map \in MapType /\ n \in Nat \ {0} /\ cmd[2] \in Held(o.map)
          /\ now + n * kMsPerSec \in Nat /\ now + n * kMsPerSec <= Int64Max
          /\ o.map[cmd[2]].exp = now + n * kMsPerSec
      BY <2>1, <2>5, <3>1, <3>2, <3>3, ExpireExact
    <3> QED BY <2>3, <3>3, <3>4
  <2>6. ASSUME NEW k \in Held(Seen), Seen[k].exp # Forever
        PROVE  LET r == cmdTtl(Seen, now, <<"ttl", k>>).reply[2]
                   ms == Seen[k].exp - now
               IN  r >= 0 /\ 2 * (r * kMsPerSec - ms) \in -kMsPerSec .. kMsPerSec
    <3> DEFINE d == Seen[k].exp
    <3>1. d \in Nat /\ d <= Int64Max
      BY <2>1, <2>2, <2>6, HeldEntries DEF Deadline
    <3>2. now <= d
      <4>1. k \in Held(map) /\ k \notin Overdue(map, now) /\ Seen[k] = map[k]
        BY HeldEntries DEF ServingInv, Seen, At, Drop, Held
      <4> QED BY <2>1, <2>6, <3>1, <4>1 DEF Overdue
    <3>3. cmdTtl(Seen, now, <<"ttl", k>>).reply = integer(TtlSeconds(d - now))
      BY <2>6, TtlReply
    <3>4. cmdTtl(Seen, now, <<"ttl", k>>).reply[2] = TtlSeconds(d - now)
      BY <3>3 DEF integer
    <3> HIDE DEF d
    <3>5. /\ TtlSeconds(d - now) \in Nat
          /\ 2 * (TtlSeconds(d - now) * kMsPerSec - (d - now)) \in -kMsPerSec .. kMsPerSec
      BY <2>1, <3>1, <3>2, RoundedTtl
    <3> QED BY <3>4, <3>5 DEF d
  <2>7. ASSUME NEW cmd \in Requests, NEW o \in dispatch(Seen, now, evicts, cmd)
        PROVE  LET secs == IF Len(cmd) = 5 THEN cmd[5] ELSE cmd[Len(cmd)]
                   given == \/ Len(cmd) = 5 /\ cmd[1] = "set" /\ cmd[4] = "ex" /\ o.reply = OK
                            \/ Len(cmd) = 3 /\ cmd[1] = "expire" /\ o.reply = integer(1)
                                            /\ Numerals[cmd[3]] > 0
               IN  given => cmdTtl(o.map, now, <<"ttl", cmd[2]>>).reply = integer(Numerals[secs])
    <3>1. Len(cmd) = 3 => Len(cmd) # 5
      OBVIOUS
    <3> QED BY <2>4, <2>5, <3>1, Zenon
  <2> QED BY <2>6, <2>7, Zenon DEF ExpiryRoundTrips
<1> QED BY <1>1, ServingInvariant, PTL

\* onTick: no turn that is due ends without its sweep, however long turns take.
THEOREM DueTurnsSweep == Spec => []SweepKeepsUp
<1>1. ServingInv => SweepKeepsUp
  BY DEF ServingInv, SweepSound, SweepKeepsUp
<1> QED BY <1>1, ServingInvariant, PTL

\* cmdDel: the count is that of the keys that went, and nothing else is touched.
THEOREM CountsStayExact == Spec => []CountsAreExact
<1>1. ServingInv => CountsAreExact
  <2> SUFFICES ASSUME ServingInv PROVE CountsAreExact
    OBVIOUS
  <2>1. Seen \in MapType
    BY NowSound
  <2>2. ASSUME NEW cmd \in Requests, Len(cmd) >= 2, cmd[1] = "del",
               NEW o \in dispatch(Seen, now, evicts, cmd)
        PROVE  /\ o.map = Drop(Seen, ToSet(Tail(cmd)))
               /\ o.reply = integer(Cardinality(Held(Seen)) - Cardinality(Held(o.map)))
    <3>1. cmd \in Seq(STRING) /\ cmd # <<>>
      BY <2>2, RequestsAssumption
    <3>2. o = cmdDel(Seen, cmd)
      BY <2>2, <3>1, DispatchHandlers
    <3> QED BY <2>1, <3>1, <3>2, DelExact
  <2> QED BY <2>2, Zenon DEF CountsAreExact
<1> QED BY <1>1, ServingInvariant, PTL
=============================================================================
