------------------------------- MODULE Buffer -------------------------------
(***************************************************************************)
(* core/buffer.cpp: the byte buffer of a connection, a vector with a read  *)
(* and a write cursor.  One side appends at the write cursor (append for   *)
(* replies; ensureWritable, read(2) and commit for input), the other       *)
(* consumes at the read cursor.                                            *)
(***************************************************************************)
EXTENDS Integers, Sequences

CONSTANTS
    Byte,            \* the values of a byte
    Zero,            \* the byte vector::resize fills with
    InitialCapacity, \* the constructor's argument, kDefaultCapacity by default
    ReadRoom,        \* what onReadable asks ensureWritable for: kDefaultCapacity
    MaxLive,         \* bound: no append starts with more bytes waiting than this
    MaxChunk         \* bound: the longest append

ASSUME BufferAssumption ==
    /\ Zero \in Byte
    /\ InitialCapacity \in Nat /\ MaxLive \in Nat /\ MaxChunk \in Nat
    /\ ReadRoom \in Nat \ {0}

VARIABLES
    buf,      \* buf_, indexed from 0
    capacity, \* buf_.size()
    readIdx,  \* readIdx_
    writeIdx  \* writeIdx_

vars == <<buf, capacity, readIdx, writeIdx>>

size == writeIdx - readIdx
writableBytes == capacity - writeIdx

\* The bytes between the cursors, in order.
readable == [i \in 1 .. size |-> buf[readIdx + i - 1]]

TypeOK ==
    /\ capacity \in Nat
    /\ buf \in [0 .. capacity - 1 -> Byte]
    /\ readIdx \in Nat
    /\ writeIdx \in Nat

Init ==
    /\ capacity = InitialCapacity
    /\ buf = [i \in 0 .. InitialCapacity - 1 |-> Zero]
    /\ readIdx = 0
    /\ writeIdx = 0

-----------------------------------------------------------------------------
(* ensureWritable(n) as the vector and the write cursor it leaves behind:  *)
(* nothing to do, compact, or compact and resize.                          *)

HasRoom(n) == writableBytes >= n

\* Mutant: the consumed prefix is never reclaimed instead of growing.
NeverEnough(n) == n < 0

CompactMakesRoom(n) == capacity - size >= n

\* Mutant: doubling is taken to be enough.
JustDoubled(n) ==
    IF HasRoom(n) \/ CompactMakesRoom(n) THEN capacity ELSE 2 * capacity

\* The capacity after ensureWritable(n): max(2 * capacity(), size() + n).
Enlarged(n) ==
    IF HasRoom(n) \/ CompactMakesRoom(n) THEN capacity
    ELSE IF 2 * capacity < size + n THEN size + n ELSE 2 * capacity

StartAfter(n) == IF HasRoom(n) THEN readIdx ELSE 0

EndAfter(n) == IF HasRoom(n) THEN writeIdx ELSE size

\* Mutant: the cursors move, the bytes do not.
VectorUnmoved(n) ==
    [i \in 0 .. Enlarged(n) - 1 |-> IF i >= capacity THEN Zero ELSE buf[i]]

\* memmove to the front; the bytes behind the moved ones keep their old value,
\* and those resize adds are zero.
VectorAfter(n) ==
    [i \in 0 .. Enlarged(n) - 1 |->
        IF i >= capacity THEN Zero
        ELSE IF ~HasRoom(n) /\ i < size THEN buf[readIdx + i]
        ELSE buf[i]]

\* ensureWritable(n), the bytes bs written at writePtr(), commit(Len(bs)).
Put(n, bs) ==
    /\ capacity' = Enlarged(n)
    /\ readIdx' = StartAfter(n)
    /\ writeIdx' = EndAfter(n) + Len(bs)
    /\ buf' = [i \in 0 .. Enlarged(n) - 1 |->
                  IF i \in EndAfter(n) .. EndAfter(n) + Len(bs) - 1
                  THEN bs[i - EndAfter(n) + 1]
                  ELSE VectorAfter(n)[i]]

-----------------------------------------------------------------------------

\* append, and appendByte for one byte; no bytes, no change.
append(bs) ==
    IF bs = <<>> THEN UNCHANGED vars ELSE Put(Len(bs), bs)

\* onReadable: room for a full read, then whatever read(2) delivers, at most
\* writableBytes(); nothing (EAGAIN, end of file) still makes the room.
fill(bs) ==
    /\ Len(bs) <= Enlarged(ReadRoom) - EndAfter(ReadRoom)
    /\ Put(ReadRoom, bs)

consume(n) ==
    /\ n <= size  \* asserted; both callers pass what readable() held
    /\ IF readIdx + n = writeIdx
       THEN readIdx' = 0 /\ writeIdx' = 0
       ELSE readIdx' = readIdx + n /\ UNCHANGED writeIdx
    /\ UNCHANGED <<buf, capacity>>

clear ==
    /\ readIdx' = 0 /\ writeIdx' = 0
    /\ UNCHANGED <<buf, capacity>>

Chunks == UNION {[1 .. n -> Byte] : n \in 0 .. MaxChunk}

Next ==
    \/ \E bs \in Chunks : size <= MaxLive /\ append(bs)
    \/ \E bs \in Chunks : size <= MaxLive /\ fill(bs)
    \/ \E n \in 0 .. size : consume(n)
    \/ clear

Spec == Init /\ [][Next]_vars

-----------------------------------------------------------------------------
(* Properties.                                                             *)

CursorsInside == readIdx <= writeIdx /\ writeIdx <= capacity

\* The cursors never cross and never leave the vector: no read(2), memcpy or
\* memmove of Buffer touches memory outside buf_.
MemorySafe == TypeOK /\ CursorsInside

\* Whatever compaction and growth happen underneath, a Buffer is a byte queue:
\* append and a read add their bytes at the back of readable(), consume takes
\* its bytes off the front, and no byte is lost, repeated or reordered.
IsAQueue ==
    [][/\ \A bs \in Chunks : append(bs) \/ fill(bs) => readable' = readable \o bs
       /\ \A n \in 0 .. size : consume(n) => readable' = SubSeq(readable, n + 1, size)]_vars

\* The vector stays proportional to the most that ever had to fit at once: a
\* long run of partial reads and writes does not make it creep up, because the
\* consumed prefix is reclaimed before it is enlarged.
Greater(a, b) == IF a < b THEN b ELSE a
CapacityBounded ==
    capacity <= Greater(InitialCapacity, 2 * (MaxLive + Greater(ReadRoom, MaxChunk)))
=============================================================================
