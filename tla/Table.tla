------------------------------- MODULE Table -------------------------------
(***************************************************************************)
(* core/table.cpp link by link: a chained hash table whose entries live in *)
(* the blocks of a fixed pool, each entry's bytes either inline in the     *)
(* block or, when key and value are too long together, in one heap buffer  *)
(* whose pointer overlays the inline bytes (core/entry.h).                 *)
(*                                                                         *)
(* A key's or a value's bytes are the key or the value itself; what is     *)
(* tracked is where they are, how long they are and whether they are still *)
(* what was written.                                                       *)
(***************************************************************************)
EXTENDS Naturals, Sequences, SequencesExt, FiniteSets, Bits

CONSTANTS
    Keys, Values,
    KeyLen, ValLen, \* their sizes in bytes
    Hash,           \* the low 32 bits of hashBytes(key, seed)
    Blocks,         \* the blocks of the PoolAllocator
    Buffers,        \* what new char[] can return
    Null,           \* nullptr
    Junk,           \* bytes that are not what a reader expects
    kInlineCap,     \* 32 in the code
    kMinBuckets,    \* 4 in the code
    SampleBuckets,  \* buckets sampleSome walks per wanted entry: 10 in the code
    InitialBuckets  \* Table's constructor argument

\* The union of inlineBuf and bufPtr holds either the bytes or a pointer.
Union == [ptr : Buffers \cup {Null}, key : Keys \cup {Junk}, val : Values \cup {Junk}]
Entry == [hash : Nat, keyLen : Nat, valLen : Nat, buf : Union]
Chars == [size : Nat, key : Keys, val : Values]
Scan == [at : Blocks \cup {Null}, left : SUBSET Blocks]

ASSUME TableAssumption ==
    /\ IsFiniteSet(Blocks) /\ IsFiniteSet(Buffers)
    /\ Cardinality(Blocks) < Cardinality(Buffers) \* new never fails
    /\ Null \notin Blocks \cup Buffers \cup Entry \cup Chars \cup Scan
    /\ Junk \notin Keys \cup Values
    /\ KeyLen \in [Keys -> Nat] /\ ValLen \in [Values -> Nat]
    /\ Hash \in [Keys -> Nat]
    /\ {kInlineCap, kMinBuckets, SampleBuckets} \subseteq Nat \ {0} /\ InitialBuckets \in Nat
    /\ nextPow2(kMinBuckets) = kMinBuckets

VARIABLES
    buckets,   \* buckets_: the first block of every chain
    next,      \* Entry::next
    entry,     \* the rest of each block in use; Null for a block in the free list
    heap,      \* the buffers in use, with size and content; Null for the others
    liveCount, \* liveCount_
    scan,      \* scanBucket under way: the block it visits next and, as history,
               \* the blocks of the chain it still has to visit; or Null
    written    \* history: the value last written under each key, or Null

vars == <<buckets, next, entry, heap, liveCount, scan, written>>

Inline(k, v) == [ptr |-> Null, key |-> k, val |-> v]
Pointer(h) == [ptr |-> h, key |-> Junk, val |-> Junk]

bucketCount == Cardinality(DOMAIN buckets)
bucketOf(h) == h % bucketCount

Used == {b \in Blocks : entry[b] # Null}
Allocated == {h \in Buffers : heap[h] # Null}

TypeOK ==
    /\ bucketCount \in Nat \ {0} /\ nextPow2(bucketCount) = bucketCount
    /\ buckets \in [0 .. bucketCount - 1 -> Blocks \cup {Null}]
    /\ next \in [Blocks -> Blocks \cup {Null}]
    /\ entry \in [Blocks -> Entry \cup {Null}]
    /\ heap \in [Buffers -> Chars \cup {Null}]
    /\ liveCount \in Nat
    /\ scan \in Scan \cup {Null}
    /\ written \in [Keys -> Values \cup {Null}]

Init ==
    /\ buckets = [i \in 0 .. (IF nextPow2(InitialBuckets) > kMinBuckets
                              THEN nextPow2(InitialBuckets) ELSE kMinBuckets) - 1 |-> Null]
    /\ next = [b \in Blocks |-> Null]
    /\ entry = [b \in Blocks |-> Null]
    /\ heap = [h \in Buffers |-> Null]
    /\ liveCount = 0
    /\ scan = Null
    /\ written = [k \in Keys |-> Null]

-----------------------------------------------------------------------------
(* Reading an entry.                                                       *)

Fits(keyLen, valLen) == keyLen + valLen <= kInlineCap
spilled(b) == ~Fits(entry[b].keyLen, entry[b].valLen)

\* key() and value() take the pointer for what spilled() says it is.
Bytes(b) ==
    IF ~spilled(b) THEN entry[b].buf
    ELSE IF entry[b].buf.ptr \in Allocated THEN heap[entry[b].buf.ptr]
    ELSE Pointer(Null)

key(b) == Bytes(b).key
value(b) == Bytes(b).val

\* Is s what a loop along next meets from block b on, to the end?
Links(s, b) ==
    /\ b = IF s = <<>> THEN Null ELSE s[1]
    /\ \A i \in DOMAIN s : next[s[i]] = IF i = Len(s) THEN Null ELSE s[i + 1]
ChainFrom(b) == CHOOSE s \in BoundedSeq(Blocks, Cardinality(Blocks)) : Links(s, b)

Chain(i) == ChainFrom(buckets[i])
InChain(i) == ToSet(Chain(i))

Matches(b, k) ==
    entry[b].hash = Hash[k] /\ entry[b].keyLen = KeyLen[k] /\ key(b) = k

find(k) ==
    LET chain == Chain(bucketOf(Hash[k]))
        hits == {i \in DOMAIN chain : Matches(chain[i], k)}
    IN  IF hits = {} THEN Null ELSE chain[Min(hits)]

\* Mutant: the walk may come round to its start again.
SampleRoundAndRound(n, start) ==
    LET walk == FlattenSeq([i \in 1 .. n * SampleBuckets |->
                               Chain((start + i - 1) % bucketCount)])
    IN  SubSeq(walk, 1, IF n < Len(walk) THEN n ELSE Len(walk))

\* sampleSome's walk of n slots from bucket start.
sampleSome(n, start) ==
    LET budget == IF n * SampleBuckets < bucketCount
                  THEN n * SampleBuckets ELSE bucketCount
        walk == FlattenSeq([i \in 1 .. budget |-> Chain((start + i - 1) % bucketCount)])
    IN  SubSeq(walk, 1, IF n < Len(walk) THEN n ELSE Len(walk))

-----------------------------------------------------------------------------
(* Allocators: PoolAllocator hands out any free block.  Which buffer new   *)
(* returns does not matter, buffers have no order.                         *)

FreeBlocks == Blocks \ Used
FreshBuffer == CHOOSE h \in Buffers : heap[h] = Null

Spill(size, k, v) == [size |-> size, key |-> k, val |-> v]
-----------------------------------------------------------------------------
(* insert, with maybeGrow and rehash.                                      *)

\* What slot j of n holds once rehash has pushed the first p of the blocks it
\* meets, each on the front of the chain its hash selects.
Slot(met, hash, n, j, p) ==
    LET pushed == {q \in 1 .. p : hash[met[q]] % n = j}
    IN  IF pushed = {} THEN Null ELSE met[Max(pushed)]

\* Each block is linked to what its slot held before it.
rehash(met, hash, n) ==
    /\ buckets' = [j \in 0 .. n - 1 |-> Slot(met, hash, n, j, Len(met))]
    /\ next' = [c \in Blocks |->
                  IF c \in ToSet(met)
                  THEN LET p == CHOOSE q \in DOMAIN met : met[q] = c
                       IN  Slot(met, hash, n, hash[c] % n, p - 1)
                  ELSE next[c]]

\* The number of buckets maybeGrow asks rehash for.
GrownCount == 2 * bucketCount

\* insert of block b, already filled in, at the head of its chain, and maybeGrow.
link(b, hash) ==
    LET i == bucketOf(hash[b])
        old == [j \in 1 .. bucketCount |->
                  IF j - 1 = i THEN <<b>> \o Chain(i) ELSE Chain(j - 1)]
    IN  IF liveCount + 1 > bucketCount
        THEN rehash(FlattenSeq(old), hash, GrownCount)
        ELSE /\ buckets' = [buckets EXCEPT ![i] = b]
             /\ next' = [next EXCEPT ![b] = buckets[i]]

NoScan == scan = Null

insert(k, v) ==
    /\ NoScan
    /\ find(k) = Null         \* "Key must be absent": Store looks it up first
    /\ \E b \in FreeBlocks :   \* none: nullptr and no change
       LET h == FreshBuffer
           spill == ~Fits(KeyLen[k], ValLen[v])
       IN  /\ heap' = IF spill THEN [heap EXCEPT ![h] = Spill(KeyLen[k] + ValLen[v], k, v)]
                      ELSE heap
           /\ entry' = [entry EXCEPT ![b] =
                  [hash |-> Hash[k], keyLen |-> KeyLen[k], valLen |-> ValLen[v],
                   buf |-> IF spill THEN Pointer(h) ELSE Inline(k, v)]]
           /\ link(b, [c \in Used \cup {b} |-> IF c = b THEN Hash[k] ELSE entry[c].hash])
    /\ liveCount' = liveCount + 1
    /\ written' = [written EXCEPT ![k] = v]
    /\ UNCHANGED scan

-----------------------------------------------------------------------------
(* assign: the three ways the bytes can end up.                            *)

\* Mutant: the key is not copied into the new buffer.
AssignLosesKey(b, v) ==
    LET h == FreshBuffer
        old == entry[b].buf.ptr
        size == entry[b].keyLen + ValLen[v]
    IN  /\ ~Fits(entry[b].keyLen, ValLen[v])
        /\ ~spilled(b) \/ ValLen[v] > entry[b].valLen
        /\ heap' = [g \in Buffers |-> IF g = h THEN Spill(size, Junk, v)
                                      ELSE IF g = old THEN Null ELSE heap[g]]
        /\ entry' = [entry EXCEPT ![b].valLen = ValLen[v], ![b].buf = Pointer(h)]

\* The key moves into a larger buffer, the old one, if any, is freed.
assignGrows(b, v) ==
    LET h == FreshBuffer
        old == entry[b].buf.ptr
        size == entry[b].keyLen + ValLen[v]
    IN  /\ ~Fits(entry[b].keyLen, ValLen[v])
        /\ ~spilled(b) \/ ValLen[v] > entry[b].valLen
        /\ heap' = [g \in Buffers |-> IF g = h THEN Spill(size, key(b), v)
                                      ELSE IF g = old THEN Null ELSE heap[g]]
        /\ entry' = [entry EXCEPT ![b].valLen = ValLen[v], ![b].buf = Pointer(h)]

\* Mutant: the buffer is not freed.
AssignLeaks(b, v) ==
    /\ Fits(entry[b].keyLen, ValLen[v]) /\ spilled(b)
    /\ entry' = [entry EXCEPT ![b].valLen = ValLen[v], ![b].buf = Inline(key(b), v)]
    /\ UNCHANGED heap

\* The key moves back into the block and the buffer is freed.
assignShrinks(b, v) ==
    /\ Fits(entry[b].keyLen, ValLen[v]) /\ spilled(b)
    /\ heap' = [heap EXCEPT ![entry[b].buf.ptr] = Null]
    /\ entry' = [entry EXCEPT ![b].valLen = ValLen[v], ![b].buf = Inline(key(b), v)]

\* The key stays where it is.
assignInPlace(b, v) ==
    /\ \/ Fits(entry[b].keyLen, ValLen[v]) /\ ~spilled(b)
       \/ /\ ~Fits(entry[b].keyLen, ValLen[v])
          /\ spilled(b) /\ ValLen[v] <= entry[b].valLen
    /\ heap' = IF spilled(b) THEN [heap EXCEPT ![entry[b].buf.ptr].val = v] ELSE heap
    /\ entry' = [entry EXCEPT ![b].valLen = ValLen[v],
                              ![b].buf.val = IF spilled(b) THEN @ ELSE v]

assign(b, v) ==
    /\ NoScan
    /\ written' = [written EXCEPT ![key(b)] = v]
    /\ assignGrows(b, v) \/ assignShrinks(b, v) \/ assignInPlace(b, v)
    /\ UNCHANGED <<buckets, next, liveCount, scan>>

-----------------------------------------------------------------------------
(* remove, clear and scanBucket.                                           *)

\* Mutant: the entry is taken for the head of its chain.
UnlinkAsHead(b) ==
    /\ buckets' = [buckets EXCEPT ![bucketOf(entry[b].hash)] = next[b]]
    /\ next' = [next EXCEPT ![b] = Null]
    /\ heap' = IF spilled(b) THEN [heap EXCEPT ![entry[b].buf.ptr] = Null] ELSE heap
    /\ entry' = [entry EXCEPT ![b] = Null]
    /\ liveCount' = liveCount - 1
    /\ written' = [written EXCEPT ![key(b)] = Null]

\* Unlinks b, frees its buffer and returns the block to the pool.
unlink(b) ==
    LET i == bucketOf(entry[b].hash)
    IN  /\ IF buckets[i] = b
           THEN buckets' = [buckets EXCEPT ![i] = next[b]]
           ELSE UNCHANGED buckets
        /\ next' = [c \in Blocks |-> IF c = b THEN Null
                                    ELSE IF c \in InChain(i) /\ next[c] = b THEN next[b]
                                    ELSE next[c]]
        /\ heap' = IF spilled(b) THEN [heap EXCEPT ![entry[b].buf.ptr] = Null] ELSE heap
        /\ entry' = [entry EXCEPT ![b] = Null]
        /\ liveCount' = liveCount - 1
        /\ written' = [written EXCEPT ![key(b)] = Null]

remove(b) == NoScan /\ unlink(b) /\ UNCHANGED scan

clear ==
    LET gone == UNION {InChain(i) : i \in DOMAIN buckets}
        freed == {entry[b].buf.ptr : b \in {c \in gone : spilled(c)}}
    IN  /\ NoScan
        /\ buckets' = [i \in DOMAIN buckets |-> Null]
        /\ entry' = [b \in Blocks |-> IF b \in gone THEN Null ELSE entry[b]]
        /\ heap' = [h \in Buffers |-> IF h \in freed THEN Null ELSE heap[h]]
        /\ next' = [b \in Blocks |-> IF b \in gone THEN Null ELSE next[b]]
        /\ liveCount' = 0
        /\ written' = [k \in Keys |-> Null]
        /\ UNCHANGED scan

scanBucket(cursor) ==
    /\ NoScan
    /\ scan' = [at |-> buckets[bucketOf(cursor)], left |-> InChain(bucketOf(cursor))]
    /\ UNCHANGED <<buckets, next, entry, heap, liveCount, written>>

\* Mutant: the link is read after the visitor has run.
VisitReadsLate(removes) ==
    /\ ~NoScan /\ scan.at # Null
    /\ IF removes THEN unlink(scan.at) ELSE UNCHANGED <<buckets, next, entry, heap, liveCount, written>>
    /\ scan' = [at |-> next'[scan.at], left |-> scan.left \ {scan.at}]

\* visit(e), which may remove e; the link was read before the call.
visit(removes) ==
    /\ ~NoScan /\ scan.at # Null
    /\ scan' = [at |-> next[scan.at], left |-> scan.left \ {scan.at}]
    /\ IF removes THEN unlink(scan.at) ELSE UNCHANGED <<buckets, next, entry, heap, liveCount, written>>

scanDone ==
    /\ ~NoScan /\ scan.at = Null
    /\ scan' = Null
    /\ UNCHANGED <<buckets, next, entry, heap, liveCount, written>>

Next ==
    \/ \E k \in Keys, v \in Values : insert(k, v)
    \/ \E k \in Keys, v \in Values : find(k) # Null /\ assign(find(k), v)
    \/ \E k \in Keys : find(k) # Null /\ remove(find(k))
    \/ clear
    \/ \E cursor \in DOMAIN buckets : scanBucket(cursor)
    \/ \E removes \in BOOLEAN : visit(removes)
    \/ scanDone

Spec == Init /\ [][Next]_vars

-----------------------------------------------------------------------------
(* Properties.                                                             *)

\* Every block in use hangs in the chain its hash selects, once, and no chain
\* holds a block that was given back to the pool; liveCount_ counts them.  This
\* is what remove's walk relies on to end, through growth and reuse of blocks.
ChainsSound ==
    /\ TypeOK
    /\ \A i \in DOMAIN buckets :
          IsInjective(Chain(i)) /\ InChain(i) = {b \in Used : bucketOf(entry[b].hash) = i}
    /\ liveCount = Cardinality(Used)

\* Buffers and long entries match one to one, so none leaks, none is freed
\* twice or under an entry, and each is large enough for what assign writes
\* into it without reallocating.
SpillOwned ==
    LET long == {b \in Used : spilled(b)}
    IN  /\ {entry[b].buf.ptr : b \in long} = Allocated
        /\ Cardinality(long) = Cardinality(Allocated)
        /\ \A b \in long : entry[b].keyLen + entry[b].valLen <= heap[entry[b].buf.ptr].size

\* scanBucket hands every entry of the chain to its visitor exactly once and
\* never one that has been freed, although the visitor removes entries.
ScanVisitsChain ==
    ~NoScan => IF scan.at = Null THEN scan.left = {} ELSE scan.at \in scan.left \cap Used

\* sampleSome returns distinct entries, as many as it can: its walk is cut off
\* before it could come round to the start bucket again.
SampleDistinct ==
    NoScan =>
        \A n \in 1 .. Cardinality(Blocks), start \in DOMAIN buckets :
            LET out == sampleSome(n, start)
            IN  /\ IsInjective(out)
                /\ n * SampleBuckets >= bucketCount =>
                       Len(out) = (IF n < liveCount THEN n ELSE liveCount)

\* What Store relies on: find and value() answer what the last insert or assign
\* of that key wrote, through rehash, moves between block and heap, and the
\* removal of any neighbour; a removed key is not found.
ReadsBack ==
    \A k \in Keys : written[k] = (IF find(k) = Null THEN Null ELSE value(find(k)))
=============================================================================
