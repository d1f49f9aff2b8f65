# tiny-redis in TLA+

A specification of the server in `src/`: TLA+ modules for its parts, TLC runs that check them on
small instances, and TLAPS proofs for every size. `PROJECT.json` lists the parts, the runs, the
source lines each definition models, the hazards the properties are for, and the findings.

```
tlc -workers 2 -config MCStore.cfg MCStore     # one run
tlapm StoreProofs.tla                          # the proofs of a module
```

## The system

tiny-redis is one process with one thread. `main` builds a `Server`, which owns a `Store`, an
`EventLoop`, a listening socket and one `Connection` per client. The loop calls `epoll_wait`,
runs the handlers of the events it returned one after the other, and then a tick. The only
asynchrony inside the process is a signal handler that sets a flag; the rest comes from outside:
peers that send, read and leave when they like, a kernel that runs out of descriptors or memory,
and time that passes between two calls.

| Part | State | Operations | What makes it correct |
|---|---|---|---|
| Store (`core/store`) | table, cap, policy, expire cursor, two counters | find, set, erase, setExpireAt, ttlMs, activeExpireCycle, clear | callers see a map whose keys vanish at their deadline; exact count, cap and counters; eviction takes the least recent key and only as a last resort; expired keys go in the end |
| Table (`core/table`, `core/entry`) | buckets, chains, pool blocks, spill buffers, live count | find, insert (and growth), assign, remove, clear, scanBucket, sampleSome | each block in one chain, each buffer owned once, every key reads back what was written, scans and samples meet each entry once |
| Bits (`core/bits`) | none | nextPow2, reverseBits, nextCursor | a scan misses nothing and repeats nothing when the table doubles under it |
| Buffer (`core/buffer`) | a vector, a read and a write cursor | ensureWritable, commit, append, consume, clear | a byte queue that stays inside its vector and does not creep |
| Connection (`net/connection`) | in_, out_, state, epoll mask | onReadable, onWritable | every request answered once and in order, no lost wake-up, the last reply out before the close |
| Server, EventLoop (`net/server`, `net/event_loop`, `net/unique_fd`) | connections by descriptor, retired ones, a reserve descriptor, paused flag, stop flag, turn counter, cached clock, time of the last sweep | acceptPending, retire, tick, run, stop, now | no event for a destroyed handler, exact registries, no accept busy loop, no starved peer, stop stops; requests get a fresh time and the sweep is not put off |
| RESP (`core/resp`) | the slots of one Command, used for a whole batch | parseCommand, reply encoders | the same command however the bytes are cut; exactly what was sent; replies stay in frame |
| Commands (`core/command`) | none | one per command, dispatch | options as in the usage line, deadlines and TTLs without overflow, exact counts |
| Hash, clock, main, pool | | | inputs of the others |

How they meet: `Connection::processInput` parses `in_`, dispatches to the `Store`, and replies go to
`out_`; `markClosed` calls `Server::retire`, which keeps the object alive until the tick; the tick
destroys retired connections, resumes accepting, and runs the expire cycle.

What is hard here: time passing between operations on entries that are dead but still in the
table; removals from six places that must agree on one counter; growth in the middle of a scan;
bytes of an entry moving between a union and the heap; partial reads and writes under a
level-triggered loop; connections closed by a handler while raw pointers to them are still in the
batch; running out of descriptors; a clock that is read once per turn; requests cut at any byte and
numbers at the end of their range. The list, line by line, is under `hazards` in `PROJECT.json`.

## The modules

| Module | Models |
|---|---|
| `Bits` | `core/bits.cpp`; the loops are recursive functions |
| `ScanCursor` | `Table::scanBucket` as a walk over buckets while the table doubles; every hash value stands for an entry |
| `Store` | `core/store.cpp`. `db` is the table as a function from keys to entries or `Absent`; `liveCount`, `bucketCount`, `cursor`, `evictions`, `expiredKeys` are the fields of the same names; `pc` and `cycle` are the progress and the locals of `activeExpireCycle`; `ret` is what the last call returned |
| `MapCalls`, `ExpiringMap` | what a Store promises, with no table, no reaping and no sampling: its calls as functions, and the specification made of them |
| `StoreLru` | Store with a history variable, the true time of each key's last use |
| `Table` | `core/table.cpp` and `core/entry.*` link by link: `buckets`, `next`, `entry`, `heap` |
| `Buffer` | `core/buffer.cpp` with its bytes |
| `Connection` | `net/connection.cpp` between an event loop, a socket with a bounded send buffer and a peer |
| `Server` | `net/server.cpp` and `net/event_loop.cpp`: descriptors, registrations, batches, accepting |
| `Commands` | `core/command.cpp`: each command as a function from the map and the time to the possible outcomes, by the calls of `MapCalls` |
| `Serving` | the time the server works with (`Server::now`, the turns of `EventLoop::run`, the sweep interval), with the requests of `Commands` executed under it |
| `Resp` | `core/resp.cpp` on bytes, and the one error text of `core/command.cpp` that repeats a client's bytes |
| `StoreProofs` | the proofs about Store and StoreLru: the invariants, then the steps (the refinement, the counters, evictions) |
| `TableProofs`, `ScanCursorProofs`, `ConnectionProofs`, `ServerProofs`, `ServingProofs` | the proofs about the module each is named after |
| `WireProofs` | the proofs about Buffer and Resp, the two components that handle bytes |
| `NumberLemmas` | what several proofs need: least elements, remainders, solutions of recursive definitions, `BitCeil`, `FlattenSeq` |
| `MCStore`, `MCStoreLru`, `MCTable`, `MCConnection`, `MCServing` | instances for TLC |

How actions correspond to code:

* A client operation of the Store is one action, because the server has one thread. It contains
  everything the call does: `lookup` with its removal and count, `evictOne`, growth, the LRU
  stamp. `set` is split by its paths (`setPast`, `setOverwrite`, `setInsert`, `setRefused`,
  `setEvicts`).
* `activeExpireCycle` is one action per bucket (`cycleBucket`) and one per pass (`cyclePass`);
  `pc = "scan"` keeps every other call out, as the code does. A cycle also ends when its cursor comes
  back to 0, which bounds a tick's work on a small table and which the comment at
  `core/store.h:64` does not mention.
* `sampleSome` is a set of samples: every start bucket, whole chains, the last one cut. A sample
  that would be empty is drawn again by the loop of `evictOne`, so it is not in the set.
* Asserts are those of a release build, which evaluates none: `Table::insert` without a free block
  leads to `pc = "crashed"`.
* In `Table`, `scanBucket` stops between two visits, and `visit` may remove the entry it is given.
  `written` and `scan.left` are history.
* In `Connection`, streams are positions in the peer's script; the reply to request i is the number
  i. `processInput`, `flushOutput`, `markClosed` and `updateInterest` run inside `readData` and
  `onWritable` as they do in the handlers. `todo` is the handler calls `dispatchEvent` still owes.
* In `Server`, one turn of the `for` loop of `acceptPending` is one action, because peers arrive and
  descriptors come and go while it runs. Handler calls of a batch run in any order; `epoll_wait`
  may return any subset of the connections. The check of `stopRequested_` and the wait after it are one
  step, because the timeout ends the wait in either order. `pausedFor` is history: why this turn's
  `acceptPending` paused, if it did and `epoll_ctl` let it. `onTick` is `destroyRetired` and `resumeAccepting`; what
  the tick does after them, reading the time and sweeping, is the `onTick` of `Serving`.
* `Commands` works on the map that `store_refines` shows a Store to implement, so `PutCall` may refuse or
  evict although the map shows room: the table may still hold dead keys. For the same reason DBSIZE
  answers any number from the keys a reader sees to all there can be. `dispatch` gives the set of
  outcomes. Arguments are tokens, one per meaning the code tells apart; `Numerals` says which of them
  `std::from_chars` reads to the end, and as what.
* In `Serving`, `map` is the map at the time of the last call, `At(map, now)` what the next call sees.
  `wokenAt` and `sweptAt` are history. A signal that interrupts `epoll_wait` is a stuttering step: the
  turn is not counted and the loop waits again.
* In `Resp`, a state is the stream received so far. The parser keeps nothing, so `parseCommand` is an
  operator, applied to the whole stream as the code applies it to `in_`; `prev` is what the
  Command's slots held. `Words` is the loop of `parseInline`; its reference, `SameWords`, says where the
  words stand instead: runs of bytes that are not blank, none extendable, in order, and no other such byte.
  A tab is a blank, and the wording of a message is the byte `x`.

Names are the source's. Operators introduced by a comment that begins with "Mutant:" are not part of
the models: each is a plausible wrong version of the definition after it, and `PROJECT.json` names
the property that notices.

## The runs

| Run | Checks |
|---|---|
| `scan_cursor` | `EachEntryOnce`, `ScanEnds`: the cursor visits every hash once per scan |
| `store` | `CapKept` (exact count, within the cap), `WellSized` (load, presized table), `ExpiryCounted`, `EvictionIsLastResort`, `DeadAreReaped` |
| `store_refines` | `ImplementsExpiringMap`: Store implements the map, with `View` (the entries whose deadline has not passed) as the refinement mapping; `WritesWhatItWasGiven` ties the arguments |
| `store_lru` | `PoolNeverEmpty` at the pool's edge, `EvictsLeastRecent` across the rollover of the 32-bit clock |
| `table` | `ChainsSound`, `SpillOwned`, `ScanVisitsChain`, `SampleDistinct`, `ReadsBack` |
| `buffer` | `MemorySafe`, `CapacityBounded`, `IsAQueue` |
| `connection` | `WakesUpForWork`, `NoRequestStranded`, `RepliesInOrder`, `ClosesAfterLastReply`, `EveryRequestAnswered`, `GoneIsNoticed` |
| `server` | `NoDanglingEvent`, `RegistriesExact`, `NoAcceptSpin`, `BacklogServed`, `StopStops` |
| `serving` | `FreshClock`, `SweepKeepsUp`, `SetAsDocumented`, `ExpiryRoundTrips`, `CountsAreExact`, `SweepNotStarved` |
| `resp` | `CutsDoNotMatter`, `ParsesWhatWasSent`, `NothingLeftOver`, `RepliesFramed` |
| `store_over_cap` | violated: `PoolNeverEmpty` when the cap exceeds the pool |
| `server_pause` | violated: `PauseStopsRetrying` |

`CutsDoNotMatter` is what `Connection` assumes of its parser: a
request counts as complete at one byte and no other, wherever reads cut the stream, and what comes
behind it changes nothing. `ParsesWhatWasSent` has the encoders as its reference: what is accepted in
the array form is byte for byte the encoding of the command that comes out, for every payload, CR and LF
included, and every count and length that may overflow; and every encoding within the limits is
accepted, since the parser neither waits for more once it is there nor refuses a stream that may
still become one. `SetAsDocumented` compares the option loop of SET with the usage line, deadlines
computed without a width. `SweepKeepsUp` says that every turn that is due sweeps; `SweepNotStarved`, for
each instant the clock reaches, that a sweep follows in the end which is less than an interval older, so
that sweeps go on as the clock does. On it rests the fairness of the expire cycle in `Store`.
`NoAcceptSpin` and `PauseStopsRetrying` look at the loop when it waits, after the tick that may resume
accepting. When no descriptor can be had the pause holds, or a reserve makes the next turn
different; for the other errors it does not hold, which is a finding. A pause that `epoll_ctl` refuses
leaves the listener on, as the code has it, and is outside both; that the code then knows it is in
`RegistriesExact`, and that it gets over it in `BacklogServed`.

The module's `TypeOK` is a conjunct of the property about its structure: `CapKept`, `EachEntryOnce`, `ChainsSound`,
`MemorySafe`, `RepliesInOrder`, `RegistriesExact`, `FreshClock`.

### Bounds, and why they are enough

* `store`: three keys, two of them in one bucket until the table grows; a cap of two is then both
  reached and exceeded, and without a cap the third key makes the table double from two buckets to
  four while the cursor may be anywhere. Deadlines from one before to one after the current time,
  three instants. A pass is cut after one sampled entry and two passes are allowed, so that passes
  end for each of their reasons. The counters wrap at two.
* `store_refines`: two keys, two values, four instants, cap one or none. `LruMod = 1` makes all
  idle times equal, so every sampled key may be the victim.
* `store_lru`: no cap, a pool of two blocks for three keys; the clock wraps after three.
* `table`: three keys in three blocks, two with equal hash and one that shares their bucket only in
  the small table; one inline and two spilled value lengths, so that assign takes each of its
  paths, growing and shrinking inside the heap included. `Buffers` is one more than the blocks,
  as assign holds two for a moment.
* `buffer`: two byte values, chunks up to two bytes, growth from one byte to `2 * (3 + 2)`.
* `connection`: three requests of two units each, cut anywhere; a send buffer of one reply, so that
  `out_` backs up; scripts that end in a QUIT, in garbage, or not at all.
* `scan_cursor`: hashes of six bits, tables from 2 to 64 buckets.
* `server`: three peers and two descriptors, one of them the reserve: one connection, or two when the
  reserve has been lost, and peers to shed; a file table that other processes fill, from the start
  on, memory that runs out. With one descriptor, with three, and with four peers the results are the
  same. `server_pause`: the same with two peers and no other process.
* `serving`: two keys under a cap of two, both policies; every SET of one key with every tail of up
  to two tokens and the longer ones that go wrong late; every other command with right and wrong
  arities. A second has two milliseconds, an int64 four bits, and the clock runs from 1 to 4: the
  last deadline that fits lies inside the numbers used for EX, PX and EXPIRE at each instant, and the
  rounding of the longest TTL comes as close to the end as it can. Sweeps are due after two
  milliseconds, so that there are turns with and without one; the turn counter wraps at three.
  The clock starts at half a second at least, as it counts from the machine's start: below that
  the rounding in `cmdTtl` would overflow for the very last deadline.
* `resp`: every stream over the eight bytes `* $ 0 1 2 CR LF` and blank until the parser decides, with limits
  of two arguments, one byte of payload, three of header and of inline line, and a `size_t` that
  ends at 19: two-digit headers fit it, exceed the limits or wrap. Each line limit is met exactly,
  missed by one, and cut between CR and LF. One byte of the next request is looked at.

Deadlock is not checked where the environment may simply stop (`MaxNow`, a script that is over, a
stopped loop, a request that is complete).

### Fairness

* `Store`: the steps of the expire cycle. The server starts one again and again for as long as it
  is up (`SweepNotStarved`), and the cycle is a loop that ends. No client operation is fair, and
  neither is the clock.
* `ScanCursor`: `scanBucket`, for the same reason.
* `Connection`: the loop and the handlers keep running (weak); a `read(2)` that has something is not
  interrupted every time (strong, because `EINTR` and a shorter read are the same step's
  alternatives); the peer reads what it is sent. A peer that never reads gets no reply, so
  `EveryRequestAnswered` rests on the last one.
* `Server`: the loop, its handlers and `acceptPending` keep running (weak); a listener that is ready
  again and again is reported (strong); the kernel is not out of memory at every single `accept4`
  (strong, on `acceptOne` and `acceptSheds`) nor at every `epoll_ctl` that resumes accepting (strong, on
  a tick that switches the listener on). Peers and other processes are not fair.
  Opening `/dev/null` for the reserve fails for want of a descriptor only.
* `Serving`: `epoll_wait` returns, at its timeout at the latest, and a batch is finite, so its end is
  reached (both weak). Requests and the clock are not fair.

### Findings

* `store_over_cap`: `resolveMaxKeys` checks the cap with an assert only, and `--maxkeys` reaches it
  unchecked. In a release build a cap above the pool makes the insert after the last block write
  through a null pointer. The proofs take the missing check as the hypothesis `ConfigsFitPool`.
* `server_pause`: an `accept4` that fails with the backlog untouched, and not for want of a descriptor,
  pauses accepting "because retrying it spins", but the tick at the end of the same turn finds a
  descriptor for the reserve and resumes. The listener is on again at the next `epoll_wait`, which
  reports it at once: as long as the error lasts the loop retries without a pause.

## The proofs

Each theorem holds for every value of the constants that satisfies the named assumptions.

### Store

| Theorem | States |
|---|---|
| `StoreInvariant` | `Spec => []StoreInv`, the inductive invariant |
| `TypeCorrect` | `Spec => []TypeOK` |
| `CapIsKept` | `Spec => []CapKept` |
| `InsertGetsABlock` | `Spec => []PoolNeverEmpty` |
| `TableSize` | `Spec => []WellSized` |
| `StoreImplementsExpiringMap` | `Spec => ImplementsExpiringMap` |
| `CallsKeepTheirArguments` | `Spec => WritesWhatItWasGiven` |
| `ExpiriesAreCounted` | `Spec => ExpiryCounted` |
| `EvictsAsLastResort` | `Spec => EvictionIsLastResort` |
| `LeastRecentGoes` | `LruSpec => EvictsLeastRecent` |

All under the hypothesis `ConfigsFitPool`, the check a release build does not make.

`CapKept` is `TypeOK`, `CountExact` and `WithinCap`, `WellSized` is `LoadBounded` and `PresizedNeverGrows`. The parts
are not inductive one by one. `WithinCap` needs `CountExact`: `set` compares `liveCount_`
with the cap, and only the exact count says that an eviction has freed a slot. `PresizedNeverGrows`
needs `WithinCap`: the count stays below the presized bucket count because it stays below the cap.
`PoolNeverEmpty` needs both and `ConfigsFitPool`. `StoreInv` is their conjunction with the types,
in two halves: `TableInv` for what the table's operations change and `RestInv` for the rest. A lemma
per table operation (`RemoveKeepsTable`, `InsertKeepsTable`, `OverwriteKeepsTable`) carries
`TableInv`; a lemma per action of `Next` applies them. That an eviction removes at least one key
comes from `VictimsFound`: a sample is finite and not empty, so one of its keys has the largest
idle time. `BucketsFit` derives from the equation of `BitCeil` that a presized table has a bucket for
every key its cap allows.

The refinement goes through `ViewOf(f, t)`, what readers see of the table `f` at time `t`. Four lemmas say
what it does with the only things Store does to a table: removing keys (`RemoveView`), removing
what nobody sees (`DropUnseen`), writing a fresh entry (`StoreView`) and letting time pass
(`AdvanceView`). One lemma per action then names the action of `ExpiringMap` it implements. The
delicate one is `SetEvictsIsPut`: the table may be full of dead keys that the map does not have, so an
eviction is either a put at the cost of one key or, when it only reaps, a plain put, and only
`CapKept` after the step says that the map has room for it.

`ExpiryCounted` needs one more invariant, `IdleCycle`: outside `activeExpireCycle` its locals count
nothing. `EvictionIsLastResort` and `EvictsLeastRecent` rest on `SetGivesUp`, which says what a set that
counted an eviction must have met: a full table, a key that was not there at all, a sample
without an expired entry. For the least recent key there is `LruInv`: each entry's stamp is the
true time of its last use modulo 2^32. Within one lap the difference of stamps is then the true idle
time (`IdleIsTrue`), and a sampler that may see everything does (`WholeSample`).

Assumptions: `StoreAssumption` (types of the constants), `AbsentAssumption` (`Absent` is neither an entry
nor what a reader is shown of one).

### Table

| Theorem | States |
|---|---|
| `TableInvariant` | `Spec => []TableInv`, the inductive invariant |
| `ChainsAreSound` | `Spec => []ChainsSound` |
| `SpillIsOwned` | `Spec => []SpillOwned` |
| `ScanVisits` | `Spec => []ScanVisitsChain` |
| `SampleIsDistinct` | `Spec => []SampleDistinct` |
| `ReadsWhatWasWritten` | `Spec => []ReadsBack` |

For every finite pool and table size, every hash function, and keys and values of any length. A chain is
the sequence of blocks its links give; `Chained(nx, b, S)` says that following `nx` from `b` meets each
block of `S` once and ends. Three lemmas say what the code does to one: a block pushed in front
(`ChainPush`), the first taken off (`ChainPop`) and one taken out anywhere (`ChainUnlink`); a fourth,
`ChainFrame`, that a chain does not notice what happens to the links of others. `SlotChained` applies the push once
per block met to show that `rehash` leaves in each new bucket exactly the blocks whose hash
selects it.

`TableInv` says that each bucket's chain is the blocks in use whose hash selects it (`ChainInv`), that
`liveCount_` counts them, that each block reads back the last write of its key and each key has one
block (`Contents`, `KeysOnce`, `NothingElse`), that long entries and heap buffers match one to one and
each buffer is large enough (`Owned`, `OneOwner`, `NoLeak`), and that a scan under way has a live chain in front
of it (`ScanInv`). No part is inductive alone: unlinking by key needs that the key is found
in its bucket, the bytes of a long entry are right only while its buffer has one owner, and the scan's
next block is live only because it is still chained. `SampleDistinct` needs `ChainInv`, the exact count,
and that `start + i` modulo the bucket count meets no bucket twice within one lap (`ApartRemainders`).

Assumption: `TableAssumption` (there are more buffers than blocks, since `new` is not modelled to fail and
assign holds two buffers for a moment; `Null` and `Junk` are none of the things they stand beside;
`kMinBuckets` is a power of two).

### The scan cursor

`ScanSeesEachOnce` states `Spec => []EachEntryOnce` for every power of two of buckets and of hashes
(`ScanAssumption`). `EachEntryOnce` does not say which entries have been visited, so it is not inductive.
`ScanInv` does: those whose bucket, its bits reversed, is less than the reversed cursor. A call of
`scanBucket` adds one to the reversed cursor because reversing twice gives the number back
(`RevTwice`); growth doubles both sides, because a bucket number gets its new bit at the top and the
reversed one at the bottom (`RevSplit`), so the two halves of a bucket stay on the same side. These
are inductions on the number of buckets.

### Buffer

| Theorem | States |
|---|---|
| `BufferInvariant` | `Spec => []BufferInv`, the inductive invariant |
| `CursorsStayInside` | `Spec => []MemorySafe` |
| `CapacityStaysBounded` | `Spec => []CapacityBounded` |
| `BufferIsAQueue` | `Spec => IsAQueue` |

For every alphabet, initial capacity, read size and chunk size (`BufferAssumption`).
`BufferInv` is `TypeOK`, `CursorsInside` and `CapacityBounded`: the size, which decides how far
`ensureWritable` grows, is a number of bytes only while the cursors are in order. The queue property
follows from three facts: `RoomMade` (there is room behind the bytes that wait), `BytesKept`
(compaction and growth keep each of them at its distance from the read cursor) and `PutAppends`
(the new bytes land right behind).

### Resp

| Theorem | States |
|---|---|
| `WhereItIsCutDoesNotMatter` | `StreamSpec => []CutsDoNotMatter` |
| `ParsesExactlyWhatWasSent` | `StreamSpec => []ParsesWhatWasSent` |
| `NothingIsLeftOver` | `StreamSpec => []NothingLeftOver` |
| `RepliesStayInStep` | `StreamSpec => []RepliesFramed` |

For every alphabet, streams of any length, and every set of limits that satisfies `RespAssumption` (types)
and `LimitsAssumption`: a header line has room for the digits of the largest count and of the largest
length, and lengths fit a `size_t`. With the code's limits that is 2 and 8 digits in 31.

*Cuts.* A decision rests on an extent of the stream: the bytes consumed for a command, all of it for an
error. `ParsedDecided` says that parsing any stream that agrees with this one up to there gives the
same result; it is put together from the same fact about `readLine` (`LineFound`, `LineTooLong`), `takeBytes`
and the loop of `parseArray` (`ElementsFound`, `ElementsStop`). Final is then final. That a command
ends exactly with the last byte received is not a fact about one state: the inductive invariant `CutInv`
remembers that the stream without its last byte was incomplete, and a command that ended earlier would have
been decided there.

*Meaning.* That nothing is refused which may still become a request needs both halves: an error decided
on part of a request would be the decision on all of it (`ParsedDecided`), but that one is read as a command
(`RequestRead`). `Holds(s, at, w)` says that the stream has the bytes `w` after its first `at`; it distributes
over concatenation (`HoldsBoth`), so reading and writing can be compared piece by piece. `readInt` and
`to_chars` are inverse to each other up to `SizeMax` (`ReadsWhatIsWritten`, `WritesWhatIsRead`: no leading
zeros, no overflow), hence a header has a value exactly when it is that value's encoding (`HeaderReads`).
`ElementHeld` and `ElementRead` are the two directions for one element, `ElementsHeld` and `ElementsRead` for the
loop, `ArrayHeld` and `ArrayRead` for a request. For the inline form, `PlacedStep` puts one more word in
front of those already placed, and `WordsAre` is the induction.

*Left-overs.* `PublishedIs` says that `publish` leaves the words and nothing else, and `StoppedIs` that
what does not succeed ends with a cleared Command; `ParsedFresh` covers every path.

*Replies.* `FirstFrame` computes where a client finds the end of the first line: at its CRLF, because no
text of a line has a CR or an LF (`SanitizedIs`, `ToCharsIs`). A bulk header is read back as the length
written because every argument that comes out of the parser is within the limits (`ArgumentsAre`).

### Connection

| Theorem | States |
|---|---|
| `ConnectionInvariant` | `Spec => []ConnectionInv`, the inductive invariant |
| `ArmedForWork` | `Spec => []WakesUpForWork` |
| `NothingStranded` | `Spec => []NoRequestStranded` |
| `RepliesStayInOrder` | `Spec => []RepliesInOrder` |
| `LastReplyBeforeClose` | `Spec => []ClosesAfterLastReply` |

For scripts of any length, and requests and send buffers of any size (`ConnectionAssumption`).
`ConnectionInv` says where the numbers of the replies are (`Numbered`), that only whole requests are
answered and none after the last (`Ordered`), what each state means for the input (`StateSound`), and
that epoll has the mask the connection wants (`Armed`). `NoRequestStranded` alone is not inductive: that
`in_` holds less than a request says something about the next read only together with `consumed`
being what was answered. `ProcessesAll` says what one run of `processInput` leaves behind.

### Server

| Theorem | States |
|---|---|
| `ServerInvariant` | `Spec => []ServerInv`, the inductive invariant |
| `EventsOutliveNothing` | `Spec => []NoDanglingEvent` |
| `RegistriesStayExact` | `Spec => []RegistriesExact` |
| `DescriptorsHaveOneOwner` | `Spec => []DescriptorsOwnedOnce` |
| `AcceptDoesNotSpin` | `Spec => []NoAcceptSpin` |

For any finite set of peers and of descriptors (`ServerAssumption`). The registries are exact only because
no two connections own one descriptor (`DescriptorsOwnedOnce`), which needs that a peer waits in the
backlog once and before its connection (`QueueSound`). No event dangles because connections are
destroyed at the tick only, when the batch is over; that the next wait starts with an empty batch
is in `LoopSound`, and so is that epoll watches the listener exactly when accepting is not paused.
`NoAcceptSpin` speaks of the wait only; `PauseSound` carries it there from `acceptPending`: a turn that
found no descriptor stays paused through the rest of its batch, and its tick resumes only with a
reserve.

### Serving and the commands

| Theorem | States |
|---|---|
| `ServingInvariant` | `Spec => []ServingInv`, the inductive invariant |
| `RequestsSeeFreshTime` | `Spec => []FreshClock` |
| `DueTurnsSweep` | `Spec => []SweepKeepsUp` |
| `SetKeepsItsPromise` | `Spec => []SetAsDocumented` |
| `TtlGivesBackTheSeconds` | `Spec => []ExpiryRoundTrips` |
| `CountsStayExact` | `Spec => []CountsAreExact` |

For every set of keys, requests of any length, every width of `int64`, number of milliseconds in a second
and width of the turn counter. `ServingInv` adds to the types `ClockSound`: a cached time is used only
in the turn in which it was read. That the counter wraps is no danger because it takes more than
one turn (`TickMod > 2`). `SweepSound` adds that `lastSweepMs_` is the time of the last sweep: with it,
and with a time that is not from before the wake-up, the comparison in `run` decides right. The promises about commands are proved for every map and time, so they need only
the types. SET's option loop is a recursive function; `LoopEquation` shows that it never looks at more
than one option, and `OptionsAsDocumented` compares it with the usage line. `DelLoopExact` is an
induction over DEL's arguments.

Assumptions: `CommandsAssumption` (finitely many keys; `Missing` is no entry; what the literals read as),
`ServingAssumption` (the machine has been up for half a second, below which the rounding in
`cmdTtl` would overflow for the very last deadline; the first instant is not beyond the bound),
`RequestsAssumption` (a request is a sequence of tokens; `Keys` has every name a SET uses).

### Induction

The library's induction theorems take a predicate as a parameter, which the provers at hand cannot
instantiate. `NumberLemmas` has the two facts in a form they can use: a set of naturals that is not
empty has a least element (`LeastExists`), so an induction becomes a proof from the least
counterexample; and a recursion in which each argument needs one of lower rank has a solution
(`RecursionExists`), so a recursive function, which TLA+ defines by a `CHOOSE`, satisfies its equation.

### Only model-checked

* Liveness under fairness, which is out of the prover's reach: `ScanEnds`, `DeadAreReaped`,
  `EveryRequestAnswered`, `GoneIsNoticed`, `BacklogServed`, `StopStops`, `SweepNotStarved`.

Every invariant and every action property that a passing run checks is proved as well.

## Not modelled

* Hash: a function without state; the models take any `Hash`, collisions included.
* `splitmix64`: the sampler's start bucket is a choice over all of them.
* Opening the listener, printing, argument parsing: start-up I/O.
* A fatal `epoll_wait` error or `bad_alloc`: both end the process.
* Letter case of names and options (`lower`, `iequals`): a token stands for every spelling.
* `reply::arrayHeader`: nothing calls it.
* The growth of `out_`: the code sets no limit, so there is none to check.
* `PoolAllocator` comes from a submodule; it is a fixed set of blocks of which any free one may be
  handed out.
* A write that ends inside a reply: in `Connection` a reply is the smallest thing `write(2)` takes, as is a
  unit of a request for `read(2)`; that bytes between the cursors survive any cut is `IsAQueue` of `Buffer`.
* A reset by `close(2)` with input unread, which may take replies with it that are still in flight: in
  `Connection` what was written reaches a peer that reads.
* What `activeExpireCycle` returns: the server drops it.
* 32-bit lengths: the parser refuses what would overflow `keyLen + valLen`.

## Status

All components with state of their own are modelled, and the safety properties of every one are proved.
What could still be added is outside what the code has today: a limit for `out_` would come with a
property that it is kept, and a check of `--maxkeys` would turn `ConfigsFitPool` from a hypothesis into an
invariant.
