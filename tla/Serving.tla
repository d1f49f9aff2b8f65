------------------------------ MODULE Serving ------------------------------
(***************************************************************************)
(* Time in the server: EventLoop::run counts its turns, Server::now reads  *)
(* the steady clock at most once per turn, and every request of the turn   *)
(* and the sweep at its end are given that one value.  Requests are those  *)
(* of the module Commands, executed on the map a Store presents; the sweep *)
(* is invisible there, and what matters of it is when it runs.             *)
(*                                                                         *)
(* An epoll_wait that a signal interrupts starts again and changes nothing.*)
(***************************************************************************)
EXTENDS Commands

CONSTANTS
    Requests,         \* the requests clients send
    expireIntervalMs,
    TickMod,          \* 2^64, the width of tickCount_
    FirstNow,         \* the steady clock when the server starts
    MaxClock          \* bound: the last instant explored

\* The clock counts from the machine's start: it is past half a second when a
\* server runs.
ASSUME ServingAssumption ==
    /\ expireIntervalMs \in Nat \ {0} /\ TickMod \in Nat /\ TickMod > 2
    /\ FirstNow \in Nat /\ FirstNow >= kMsPerSec \div 2
    /\ MaxClock \in Nat /\ FirstNow <= MaxClock

\* Requests are sequences of tokens, and what a SET names is one of the Keys.
ASSUME RequestsAssumption ==
    \A cmd \in Requests :
        cmd \in Seq(STRING) /\ (Len(cmd) >= 2 /\ cmd[1] = "set" => cmd[2] \in Keys)

VARIABLES
    map,        \* what readers see of the Store, at the time of the last call
    evicts,     \* is the policy kAllKeysLru?
    clock,      \* the steady clock
    tick,       \* tickCount_
    cachedTick, \* cachedTick_
    cachedNow,  \* cachedNow_
    lastSweep,  \* lastSweepMs_
    phase,      \* "wait": in epoll_wait; "batch": running handlers
    wokenAt,    \* history: the clock when epoll_wait last returned
    sweptAt     \* history: the time the last expire cycle was given

vars == <<map, evicts, clock, tick, cachedTick, cachedNow, lastSweep, phase,
          wokenAt, sweptAt>>

TypeOK ==
    /\ \A k \in Held(map) : map[k].exp \in {Forever} \cup 0 .. Int64Max
    /\ evicts \in BOOLEAN
    /\ {clock, cachedNow, lastSweep, wokenAt, sweptAt} \subseteq 0 .. MaxClock
    /\ {tick, cachedTick} \subseteq 0 .. TickMod - 1
    /\ phase \in {"wait", "batch"}

Init ==
    /\ map = [k \in Keys |-> Missing]
    /\ evicts \in BOOLEAN
    /\ clock = FirstNow
    /\ tick = 0 /\ cachedTick = TickMod - 1 /\ cachedNow = 0
    /\ lastSweep = 0 /\ sweptAt = 0
    /\ phase = "wait" /\ wokenAt = 0

\* Server::now: its value, and what it caches.
now == IF tick = cachedTick THEN cachedNow ELSE clock
cacheNow == cachedNow' = now /\ cachedTick' = tick

\* Mutant: a turn without events is not counted.
IdleTurnsUncounted ==
    /\ phase = "wait"
    /\ tick' \in {tick, (tick + 1) % TickMod}
    /\ phase' = "batch"
    /\ wokenAt' = clock
    /\ UNCHANGED <<map, evicts, clock, cachedTick, cachedNow, lastSweep, sweptAt>>

\* epoll_wait returns, with events or on its timeout.
wake ==
    /\ phase = "wait"
    /\ tick' = (tick + 1) % TickMod
    /\ phase' = "batch"
    /\ wokenAt' = clock
    /\ UNCHANGED <<map, evicts, clock, cachedTick, cachedNow, lastSweep, sweptAt>>

\* A handler executes one request (Connection::processInput); the empty one also
\* stands for a call that finds no complete request and only reads the time.
serve(cmd) ==
    /\ phase = "batch"
    /\ cacheNow
    /\ \E o \in dispatch(At(map, now), now, evicts, cmd) : map' = o.map
    /\ UNCHANGED <<evicts, clock, tick, lastSweep, phase, wokenAt, sweptAt>>

\* Mutant: the interval starts again with every turn.
TickRestartsInterval ==
    /\ phase = "batch"
    /\ cacheNow
    /\ phase' = "wait"
    /\ lastSweep' = now
    /\ sweptAt' = IF now - lastSweep >= expireIntervalMs THEN now ELSE sweptAt
    /\ UNCHANGED <<map, evicts, clock, tick, wokenAt>>

\* Mutant: a sweep that has just become due waits for another turn.
SweepsOnceLate ==
    /\ phase = "batch"
    /\ cacheNow
    /\ phase' = "wait"
    /\ IF now - lastSweep > expireIntervalMs
       THEN lastSweep' = now /\ sweptAt' = now
       ELSE UNCHANGED <<lastSweep, sweptAt>>
    /\ UNCHANGED <<map, evicts, clock, tick, wokenAt>>

\* The end of a turn: the sweep, when it is due.
onTick ==
    /\ phase = "batch"
    /\ cacheNow
    /\ phase' = "wait"
    /\ IF now - lastSweep >= expireIntervalMs
       THEN lastSweep' = now /\ sweptAt' = now
       ELSE UNCHANGED <<lastSweep, sweptAt>>
    /\ UNCHANGED <<map, evicts, clock, tick, wokenAt>>

timePasses ==
    /\ clock < MaxClock
    /\ clock' = clock + 1
    /\ UNCHANGED <<map, evicts, tick, cachedTick, cachedNow, lastSweep, phase,
                   wokenAt, sweptAt>>

Next ==
    \/ wake
    \/ \E cmd \in Requests : serve(cmd)
    \/ onTick
    \/ timePasses

\* epoll_wait returns at its timeout at the latest, and a batch has an end.
Spec == Init /\ [][Next]_vars /\ WF_vars(wake) /\ WF_vars(onTick)

-----------------------------------------------------------------------------
(* Properties.                                                             *)

\* However long a batch takes, a request is never given a time from before the
\* loop woke up for it, nor one that lies ahead, nor one older than the Store
\* has seen: a key whose deadline had passed when the request was reported is
\* never served, and the Store's clock does not go back.
FreshClock ==
    /\ TypeOK
    /\ phase = "batch" =>
        /\ wokenAt <= now /\ now <= clock /\ cachedNow <= now
        /\ \A k \in Held(At(map, now)) : map[k].exp = Forever \/ wokenAt <= map[k].exp

\* Every turn that is due sweeps: with turns of any length and any load, when the
\* loop waits again the last expire cycle was given a time less than an interval
\* before it woke up, although the time was read for a request of the batch.
SweepKeepsUp == phase = "wait" => wokenAt - sweptAt < expireIntervalMs

\* For every instant the clock reaches, an expire cycle is given in the end a time
\* from later than an interval before it: as the clock goes on, so do the sweeps,
\* again and again, which is what the fairness of the expire cycle in the module
\* Store rests on.
SweepNotStarved ==
    \A t \in FirstNow .. MaxClock : (clock = t) ~> (sweptAt > t - expireIntervalMs)

\* What a reader would see now, and the requests whose effect is looked at.
Seen == At(map, now)
Sets == {cmd \in Requests : Len(cmd) >= 3 /\ cmd[1] = "set"}

\* The options of the usage line: none, KEEPTTL, or EX or PX with a positive
\* number whose deadline a 64-bit clock can hold, computed without a width.
Unit(opt) == IF opt = "ex" THEN kMsPerSec ELSE 1
Granted(tail) ==
    CASE tail = <<>> -> {Forever}
      [] tail = <<"keepttl">> -> {Keep}
      [] Len(tail) = 2 /\ tail[1] \in {"ex", "px"} /\ tail[2] \in DOMAIN Numerals ->
            {d \in {now + Numerals[tail[2]] * Unit(tail[1])} : now < d /\ d <= Int64Max}
      [] OTHER -> {}

\* "SET key value [EX s | PX ms | KEEPTTL]" (README.md): a SET stores its value
\* with the deadline the usage line promises, or is refused for want of room;
\* any other tail is an error, and a request that fails changes nothing.
SetAsDocumented ==
    \A cmd \in Sets :
        LET tail == SubSeq(cmd, 4, Len(cmd))
            kept == IF cmd[2] \in Held(Seen) THEN Seen[cmd[2]].exp ELSE Forever
        IN  \A o \in dispatch(Seen, now, evicts, cmd) :
                IF o.reply = OK
                THEN \E d \in Granted(tail) :
                        o.map[cmd[2]] = [val |-> cmd[3], exp |-> IF d = Keep THEN kept ELSE d]
                ELSE o.map = Seen /\ (Granted(tail) = {} <=> o.reply # error("kOom"))

\* TTL gives back the seconds SET EX or EXPIRE was given, up to the last
\* deadline an int64 can hold, and is within half a second of the truth later:
\* neither the deadline nor the rounding overflows.
ExpiryRoundTrips ==
    /\ \A cmd \in Requests : \A o \in dispatch(Seen, now, evicts, cmd) :
          LET secs == IF Len(cmd) = 5 THEN cmd[5] ELSE cmd[Len(cmd)]
              given == \/ Len(cmd) = 5 /\ cmd[1] = "set" /\ cmd[4] = "ex" /\ o.reply = OK
                       \/ Len(cmd) = 3 /\ cmd[1] = "expire" /\ o.reply = integer(1)
                                       /\ Numerals[cmd[3]] > 0
          IN  given => cmdTtl(o.map, now, <<"ttl", cmd[2]>>).reply = integer(Numerals[secs])
    /\ \A k \in Held(Seen) :
          Seen[k].exp # Forever =>
              LET r == cmdTtl(Seen, now, <<"ttl", k>>).reply[2]
                  ms == Seen[k].exp - now
              IN  r >= 0 /\ 2 * (r * kMsPerSec - ms) \in -kMsPerSec .. kMsPerSec

\* DEL answers the number of keys that went, each once however often it is named
\* and none that had expired, and takes no other.
CountsAreExact ==
    \A cmd \in Requests : Len(cmd) >= 2 /\ cmd[1] = "del" =>
        \A o \in dispatch(Seen, now, evicts, cmd) :
            /\ o.map = Drop(Seen, ToSet(Tail(cmd)))
            /\ o.reply = integer(Cardinality(Held(Seen)) - Cardinality(Held(o.map)))
=============================================================================
