----------------------------- MODULE WireProofs -----------------------------
(***************************************************************************)
(* Proofs about the two components bytes go through on their way in and    *)
(* out, each with a specification of its own.                              *)
(*                                                                         *)
(* Buffer, for every alphabet, capacity and chunk size: the cursors stay   *)
(* inside the vector, the vector does not creep, and the buffer is a       *)
(* queue.                                                                  *)
(*                                                                         *)
(* Resp, for every alphabet, stream and set of limits: where the stream is *)
(* cut does not matter, a command means exactly the bytes it was sent as,  *)
(* a Command used again keeps nothing, and every reply is one frame.       *)
(***************************************************************************)
EXTENDS Buffer, Resp, NumberLemmas, SequenceTheorems

-----------------------------------------------------------------------------
(* Buffer.                                                                 *)

\* The bound needs the cursors, since it is the size that must fit, and the
\* cursors need the types.
BufferInv == TypeOK /\ CursorsInside /\ CapacityBounded

\* What an append may be given.
LEMMA ChunkType ==
    ASSUME NEW bs \in Chunks
    PROVE  /\ Len(bs) \in 0 .. MaxChunk
           /\ \A i \in 1 .. Len(bs) : bs[i] \in Byte
           /\ bs = [i \in 1 .. Len(bs) |-> bs[i]]
<1>1. PICK n \in 0 .. MaxChunk : bs \in [1 .. n -> Byte]
  BY DEF Chunks
<1>2. Len(bs) = n
  BY <1>1, BufferAssumption
<1> QED BY <1>1, <1>2

\* ensureWritable(n) leaves the bytes waiting where they can be read, with room
\* for n more behind them.
LEMMA RoomMade ==
    ASSUME BufferInv, NEW n \in Nat
    PROVE  /\ Enlarged(n) \in Nat /\ StartAfter(n) \in Nat /\ EndAfter(n) \in Nat
           /\ EndAfter(n) - StartAfter(n) = size
           /\ StartAfter(n) <= EndAfter(n)
           /\ EndAfter(n) + n <= Enlarged(n)
           /\ capacity <= Enlarged(n)
           /\ Enlarged(n) # capacity => Enlarged(n) <= 2 * (size + n)
BY DEF BufferInv, TypeOK, CursorsInside, Enlarged, StartAfter, EndAfter, HasRoom,
       CompactMakesRoom, size, writableBytes

\* The vector ensureWritable(n) leaves holds bytes only.
LEMMA VectorType ==
    ASSUME BufferInv, NEW n \in Nat
    PROVE  VectorAfter(n) \in [0 .. Enlarged(n) - 1 -> Byte]
<1>1. ASSUME NEW i \in 0 .. Enlarged(n) - 1
      PROVE  VectorAfter(n)[i] \in Byte
  <2>1. CASE i >= capacity
    BY <2>1, BufferAssumption DEF VectorAfter
  <2>2. CASE ~(i >= capacity) /\ ~HasRoom(n) /\ i < size
    <3>1. readIdx + i \in 0 .. capacity - 1
      BY <2>2, RoomMade DEF BufferInv, TypeOK, CursorsInside, size
    <3>2. VectorAfter(n)[i] = buf[readIdx + i]
      BY <2>2 DEF VectorAfter
    <3> QED BY <3>1, <3>2 DEF BufferInv, TypeOK
  <2>3. CASE ~(i >= capacity) /\ ~(~HasRoom(n) /\ i < size)
    <3>1. i \in 0 .. capacity - 1
      BY <2>3, RoomMade DEF BufferInv, TypeOK
    <3>2. VectorAfter(n)[i] = buf[i]
      BY <2>3 DEF VectorAfter
    <3> QED BY <3>1, <3>2 DEF BufferInv, TypeOK
  <2> QED BY <2>1, <2>2, <2>3
<1> QED BY <1>1 DEF VectorAfter

\* The largest ensureWritable either caller asks for fits the bound.
LEMMA EnlargedBounded ==
    ASSUME BufferInv, size <= MaxLive, NEW n \in Nat, n <= Greater(ReadRoom, MaxChunk)
    PROVE  Enlarged(n) <= Greater(InitialCapacity,
                                  2 * (MaxLive + Greater(ReadRoom, MaxChunk)))
<1>1. Enlarged(n) = capacity \/ Enlarged(n) <= 2 * (size + n)
  BY RoomMade
<1>2. size \in Nat /\ capacity \in Nat
  BY DEF BufferInv, TypeOK, CursorsInside, size
<1> QED BY <1>1, <1>2, RoomMade, BufferAssumption DEF BufferInv, CapacityBounded, Greater

\* Writing a chunk into the room that was made keeps the invariant.
LEMMA PutStep ==
    ASSUME BufferInv, size <= MaxLive, NEW bs \in Chunks,
           NEW n \in Nat, n <= Greater(ReadRoom, MaxChunk),
           EndAfter(n) + Len(bs) <= Enlarged(n), Put(n, bs)
    PROVE  BufferInv'
<1>1. Len(bs) \in Nat /\ \A i \in 1 .. Len(bs) : bs[i] \in Byte
  BY ChunkType, BufferAssumption
<1>2. /\ Enlarged(n) \in Nat /\ StartAfter(n) \in Nat /\ EndAfter(n) \in Nat
      /\ StartAfter(n) <= EndAfter(n)
  BY RoomMade
<1>3. buf' \in [0 .. capacity' - 1 -> Byte]
  <2>1. \A i \in 0 .. Enlarged(n) - 1 : VectorAfter(n)[i] \in Byte
    BY VectorType
  <2>2. \A i \in EndAfter(n) .. EndAfter(n) + Len(bs) - 1 :
            i - EndAfter(n) + 1 \in 1 .. Len(bs)
    BY <1>1, <1>2
  <2> QED BY <1>1, <2>1, <2>2 DEF Put
<1>4. TypeOK' /\ CursorsInside'
  BY <1>1, <1>2, <1>3 DEF Put, TypeOK, CursorsInside
<1>5. CapacityBounded'
  BY EnlargedBounded DEF Put, CapacityBounded
<1> QED BY <1>4, <1>5 DEF BufferInv

\* append keeps the invariant.
LEMMA AppendStep ==
    ASSUME BufferInv, size <= MaxLive, NEW bs \in Chunks, append(bs)
    PROVE  BufferInv'
<1>1. CASE bs = <<>>
  BY <1>1 DEF append, vars, BufferInv, TypeOK, CursorsInside, CapacityBounded
<1>2. CASE bs # <<>>
  <2>1. Len(bs) \in Nat /\ Len(bs) <= Greater(ReadRoom, MaxChunk)
    BY ChunkType, BufferAssumption DEF Greater
  <2>2. EndAfter(Len(bs)) + Len(bs) <= Enlarged(Len(bs))
    BY <2>1, RoomMade
  <2> QED BY <1>2, <2>1, <2>2, PutStep DEF append
<1> QED BY <1>1, <1>2

\* A read keeps the invariant.
LEMMA FillStep ==
    ASSUME BufferInv, size <= MaxLive, NEW bs \in Chunks, fill(bs)
    PROVE  BufferInv'
<1>1. ReadRoom \in Nat /\ ReadRoom <= Greater(ReadRoom, MaxChunk)
  BY BufferAssumption DEF Greater
<1>2. Len(bs) \in Nat /\ EndAfter(ReadRoom) \in Nat /\ Enlarged(ReadRoom) \in Nat
  BY <1>1, ChunkType, RoomMade, BufferAssumption
<1>3. EndAfter(ReadRoom) + Len(bs) <= Enlarged(ReadRoom)
  BY <1>2 DEF fill
<1> QED BY <1>1, <1>3, PutStep DEF fill

\* consume and clear keep the invariant.
LEMMA ConsumeStep ==
    ASSUME BufferInv, (\E n \in 0 .. size : consume(n)) \/ clear
    PROVE  BufferInv'
BY DEF consume, clear, BufferInv, TypeOK, CursorsInside, CapacityBounded, size

\* The invariant is inductive.
THEOREM BufferInvariant == Spec => []BufferInv
<1>1. Init => BufferInv
  BY BufferAssumption
     DEF Init, BufferInv, TypeOK, CursorsInside, CapacityBounded, Greater
<1>2. BufferInv /\ [Next]_vars => BufferInv'
  <2> SUFFICES ASSUME BufferInv, [Next]_vars PROVE BufferInv'
    OBVIOUS
  <2>1. CASE UNCHANGED vars
    BY <2>1 DEF vars, BufferInv, TypeOK, CursorsInside, CapacityBounded
  <2>2. CASE \E bs \in Chunks : size <= MaxLive /\ append(bs)
    BY <2>2, AppendStep
  <2>3. CASE \E bs \in Chunks : size <= MaxLive /\ fill(bs)
    BY <2>3, FillStep
  <2>4. CASE (\E n \in 0 .. size : consume(n)) \/ clear
    BY <2>4, ConsumeStep
  <2> QED BY <2>1, <2>2, <2>3, <2>4 DEF Next
<1> QED BY <1>1, <1>2, PTL DEF Spec

\* No operation of Buffer touches memory outside buf_: the cursors are ordered
\* and inside the vector.
THEOREM CursorsStayInside == Spec => []MemorySafe
<1>1. BufferInv => MemorySafe
  BY DEF BufferInv, MemorySafe
<1> QED BY <1>1, BufferInvariant, PTL

\* The vector is at most twice what had to fit at once, however many partial
\* reads and writes there were.
THEOREM CapacityStaysBounded == Spec => []CapacityBounded
<1>1. BufferInv => CapacityBounded
  BY DEF BufferInv
<1> QED BY <1>1, BufferInvariant, PTL

-----------------------------------------------------------------------------
(* The queue.                                                              *)

\* ensureWritable(n) keeps every byte that waits, in order: compaction moves
\* them, growth copies them.
LEMMA BytesKept ==
    ASSUME BufferInv, NEW n \in Nat, NEW i \in 0 .. size - 1
    PROVE  /\ StartAfter(n) + i \in 0 .. Enlarged(n) - 1
           /\ VectorAfter(n)[StartAfter(n) + i] = buf[readIdx + i]
<1>1. size \in Nat /\ readIdx \in Nat /\ capacity \in Nat /\ readIdx + i < capacity
  BY DEF BufferInv, TypeOK, CursorsInside, size
<1>2. Enlarged(n) \in Nat /\ capacity <= Enlarged(n)
  BY RoomMade
<1>3. CASE HasRoom(n)
  <2>1. StartAfter(n) = readIdx /\ readIdx + i \in 0 .. Enlarged(n) - 1
    BY <1>1, <1>2, <1>3 DEF StartAfter
  <2>2. VectorAfter(n)[readIdx + i] = buf[readIdx + i]
    BY <1>1, <1>3, <2>1 DEF VectorAfter
  <2> QED BY <2>1, <2>2
<1>4. CASE ~HasRoom(n)
  <2>1. StartAfter(n) = 0 /\ i \in 0 .. Enlarged(n) - 1 /\ i < capacity /\ i < size
    BY <1>1, <1>2, <1>4 DEF StartAfter
  <2>2. VectorAfter(n)[i] = buf[readIdx + i]
    BY <1>1, <1>4, <2>1 DEF VectorAfter
  <2> QED BY <2>1, <2>2
<1> QED BY <1>3, <1>4

\* A function on 1 .. m is a sequence of length m.
LEMMA FunctionIsSeq ==
    ASSUME NEW S, NEW m \in Nat, NEW f \in [1 .. m -> S]
    PROVE  f \in Seq(S) /\ Len(f) = m
<1>1. f \in Seq(S)
  BY SeqDef
<1>2. Len(f) \in Nat /\ DOMAIN f = 1 .. Len(f)
  BY <1>1, LenProperties
<1> QED BY <1>1, <1>2

\* readable() holds size() bytes.
LEMMA ReadableType ==
    ASSUME BufferInv
    PROVE  size \in Nat /\ readable \in Seq(Byte) /\ Len(readable) = size
<1>1. size \in Nat
  BY DEF BufferInv, TypeOK, CursorsInside, size
<1>2. \A i \in 1 .. size : buf[readIdx + i - 1] \in Byte
  BY DEF BufferInv, TypeOK, CursorsInside, size
<1>3. readable \in [1 .. size -> Byte]
  BY <1>2 DEF readable
<1> QED BY <1>1, <1>3, FunctionIsSeq

\* Where the i-th readable byte lies when z bytes wait from s to e and l bytes
\* are written behind them.
LEMMA BehindTheOldBytes ==
    ASSUME NEW s \in Nat, NEW z \in Nat, NEW e \in Nat, NEW l \in Nat, e = s + z,
           NEW i \in 1 .. z + l, ~(i <= z)
    PROVE  s + i - 1 \in e .. e + l - 1 /\ (s + i - 1) - e + 1 = i - z
OBVIOUS

\* Writing a chunk adds it at the back of readable() and changes nothing else.
LEMMA PutAppends ==
    ASSUME BufferInv, NEW bs \in Chunks, NEW n \in Nat,
           EndAfter(n) + Len(bs) <= Enlarged(n), Put(n, bs)
    PROVE  readable' = readable \o bs
<1>1. /\ Len(bs) \in Nat /\ bs = [i \in 1 .. Len(bs) |-> bs[i]]
      /\ \A i \in 1 .. Len(bs) : bs[i] \in Byte
  BY ChunkType, BufferAssumption
<1>2. /\ Enlarged(n) \in Nat /\ StartAfter(n) \in Nat /\ EndAfter(n) \in Nat
      /\ EndAfter(n) = StartAfter(n) + size /\ size \in Nat
  <2>1. size \in Nat
    BY ReadableType
  <2>2. /\ Enlarged(n) \in Nat /\ StartAfter(n) \in Nat /\ EndAfter(n) \in Nat
        /\ EndAfter(n) - StartAfter(n) = size
    BY RoomMade
  <2> QED BY <2>1, <2>2
<1>3. readIdx' = StartAfter(n) /\ size' = size + Len(bs)
  BY <1>1, <1>2 DEF Put, size
<1>4. readable' = [i \in 1 .. size + Len(bs) |-> buf'[StartAfter(n) + i - 1]]
  BY <1>3 DEF readable
<1>5. Len(readable) = size /\ readable \in Seq(Byte) /\ bs \in Seq(Byte)
  <2>1. bs \in [1 .. Len(bs) -> Byte]
    BY <1>1
  <2> QED BY <1>1, <2>1, ReadableType, FunctionIsSeq
<1>6. readable \o bs = [i \in 1 .. size + Len(bs) |->
                           IF i <= size THEN readable[i] ELSE bs[i - size]]
  <2> DEFINE both == readable \o bs
  <2>1. /\ both \in Seq(Byte) /\ Len(both) = size + Len(bs)
        /\ \A i \in 1 .. size + Len(bs) :
              both[i] = IF i <= size THEN readable[i] ELSE bs[i - size]
    BY <1>5, ConcatProperties
  <2>2. both \in [1 .. size + Len(bs) -> Byte]
    BY <2>1, LenProperties
  <2> HIDE DEF both
  <2>3. both = [i \in 1 .. size + Len(bs) |-> both[i]]
    BY <2>2
  <2>4. both = [i \in 1 .. size + Len(bs) |->
                  IF i <= size THEN readable[i] ELSE bs[i - size]]
    BY <2>1, <2>3
  <2> QED BY <2>4 DEF both
<1>7. ASSUME NEW i \in 1 .. size + Len(bs)
      PROVE  buf'[StartAfter(n) + i - 1] = IF i <= size THEN readable[i] ELSE bs[i - size]
  <2>1. StartAfter(n) + i - 1 \in 0 .. Enlarged(n) - 1
    BY <1>1, <1>2
  <2>2. CASE i <= size
    <3>1. i - 1 \in 0 .. size - 1 /\ StartAfter(n) + (i - 1) = StartAfter(n) + i - 1
          /\ readIdx + (i - 1) = readIdx + i - 1
      BY <1>2, <2>2 DEF BufferInv, TypeOK
    <3>2. VectorAfter(n)[StartAfter(n) + i - 1] = buf[readIdx + i - 1]
      BY <3>1, BytesKept
    <3>3. StartAfter(n) + i - 1 \notin EndAfter(n) .. EndAfter(n) + Len(bs) - 1
      BY <1>1, <1>2, <2>2
    <3>4. buf'[StartAfter(n) + i - 1] = VectorAfter(n)[StartAfter(n) + i - 1]
      BY <2>1, <3>3 DEF Put
    <3> QED BY <1>2, <2>2, <3>2, <3>4 DEF readable
  <2>3. CASE ~(i <= size)
    <3> DEFINE at == StartAfter(n) + i - 1
    <3>1. at \in EndAfter(n) .. EndAfter(n) + Len(bs) - 1 /\ at - EndAfter(n) + 1 = i - size
      BY <1>1, <1>2, <2>3, BehindTheOldBytes, SMTT(30)
    <3>2. at \in 0 .. Enlarged(n) - 1
      BY <2>1
    <3> HIDE DEF at
    <3>3. buf'[at] = bs[at - EndAfter(n) + 1]
      BY <3>1, <3>2 DEF Put
    <3>4. buf'[at] = bs[i - size]
      BY <3>1, <3>3
    <3> QED BY <2>3, <3>4 DEF at
  <2> QED BY <2>2, <2>3
<1> QED BY <1>4, <1>6, <1>7

\* consume takes its bytes off the front of readable().
LEMMA ConsumeDrops ==
    ASSUME BufferInv, NEW n \in 0 .. size, consume(n)
    PROVE  readable' = SubSeq(readable, n + 1, size)
<1>1. size \in Nat /\ readIdx \in Nat /\ writeIdx \in Nat /\ size = writeIdx - readIdx
  BY DEF BufferInv, TypeOK, CursorsInside, size
<1>2. SubSeq(readable, n + 1, size) = [i \in 1 .. size - n |-> readable[i + n]]
  <2>1. \A i \in 1 .. size : buf[readIdx + i - 1] \in Byte
    BY DEF BufferInv, TypeOK, CursorsInside, size
  <2>2. readable \in Seq(Byte) /\ Len(readable) = size
    BY <1>1, <2>1 DEF readable
  <2> QED BY <1>1, <2>2
<1>3. size' = size - n
  BY <1>1 DEF consume, size
<1>4. readable' = [i \in 1 .. size - n |-> buf[readIdx' + i - 1]]
  BY <1>3 DEF readable, consume
<1>5. ASSUME NEW i \in 1 .. size - n
      PROVE  buf[readIdx' + i - 1] = readable[i + n]
  <2>1. readIdx' = readIdx + n
    BY <1>1, <1>5 DEF consume
  <2>2. i + n \in 1 .. size /\ readIdx + n + i - 1 = readIdx + (i + n) - 1
    BY <1>1
  <2> QED BY <2>1, <2>2 DEF readable
<1> QED BY <1>2, <1>4, <1>5

\* A Buffer is a byte queue, whatever compaction and growth happen underneath.
THEOREM BufferIsAQueue == Spec => IsAQueue
<1>1. BufferInv /\ [Next]_vars =>
        [/\ \A bs \in Chunks : append(bs) \/ fill(bs) => readable' = readable \o bs
         /\ \A n \in 0 .. size : consume(n) => readable' = SubSeq(readable, n + 1, size)]_vars
  <2> SUFFICES ASSUME BufferInv
               PROVE  /\ \A bs \in Chunks : append(bs) \/ fill(bs) => readable' = readable \o bs
                      /\ \A n \in 0 .. size :
                            consume(n) => readable' = SubSeq(readable, n + 1, size)
    OBVIOUS
  <2>1. ASSUME NEW bs \in Chunks, append(bs) PROVE readable' = readable \o bs
    <3>1. CASE bs = <<>>
      <4>1. readable' = readable
        BY <2>1, <3>1 DEF append, vars, readable, size
      <4>2. \A i \in 1 .. size : buf[readIdx + i - 1] \in Byte
        BY DEF BufferInv, TypeOK, CursorsInside, size
      <4>3. readable \in Seq(Byte)
        BY <4>2 DEF readable, BufferInv, TypeOK, CursorsInside, size
      <4> QED BY <3>1, <4>1, <4>3
    <3>2. CASE bs # <<>>
      <4>1. Len(bs) \in Nat
        BY ChunkType, BufferAssumption
      <4>2. EndAfter(Len(bs)) + Len(bs) <= Enlarged(Len(bs))
        BY <4>1, RoomMade
      <4> QED BY <2>1, <3>2, <4>1, <4>2, PutAppends DEF append
    <3> QED BY <3>1, <3>2
  <2>2. ASSUME NEW bs \in Chunks, fill(bs) PROVE readable' = readable \o bs
    <3>1. /\ Len(bs) \in Nat /\ EndAfter(ReadRoom) \in Nat /\ Enlarged(ReadRoom) \in Nat
          /\ ReadRoom \in Nat
      BY ChunkType, RoomMade, BufferAssumption
    <3>2. EndAfter(ReadRoom) + Len(bs) <= Enlarged(ReadRoom)
      BY <2>2, <3>1 DEF fill
    <3> QED BY <2>2, <3>1, <3>2, PutAppends DEF fill
  <2> QED BY <2>1, <2>2, ConsumeDrops
<1> QED BY <1>1, BufferInvariant, PTL DEF Spec, IsAQueue

-----------------------------------------------------------------------------
(* What the parser reads of a stream.                                      *)

\* u starts with the first c bytes of s.
Agree(s, u, c) == c <= Len(u) /\ \A i \in 1 .. c : u[i] = s[i]

LEMMA AgreeLess ==
    ASSUME NEW s, NEW u, NEW c \in Nat, NEW d \in Nat, Agree(s, u, c), d <= c, Len(u) \in Nat
    PROVE  Agree(s, u, d)
BY DEF Agree

\* A stretch of bytes that both streams have.
LEMMA BytesAgree ==
    ASSUME NEW s \in Seq(Char), NEW u \in Seq(Char), NEW at \in Nat, NEW len \in Nat,
           at + len <= Len(s), Agree(s, u, at + len)
    PROVE  Bytes(u, at, len) = Bytes(s, at, len)
<1> DEFINE p == Bytes(s, at, len)
           q == Bytes(u, at, len)
<1>1. /\ Len(s) \in Nat /\ \A i \in 1 .. Len(s) : s[i] \in Char
      /\ Len(u) \in Nat /\ \A i \in 1 .. Len(u) : u[i] \in Char
  BY LenProperties, ElementOfSeq
<1>2. at + len <= Len(u) /\ \A i \in 1 .. at + len : u[i] = s[i]
  BY DEF Agree
<1>3. \A i \in at + 1 .. at + len : s[i] \in Char /\ u[i] = s[i] /\ u[i] \in Char
  BY <1>1, <1>2
<1>4. /\ p \in Seq(Char) /\ q \in Seq(Char)
      /\ Len(p) = (IF at + 1 <= at + len THEN (at + len) - (at + 1) + 1 ELSE 0)
      /\ Len(q) = (IF at + 1 <= at + len THEN (at + len) - (at + 1) + 1 ELSE 0)
      /\ \A i \in 1 .. (at + len) - (at + 1) + 1 : p[i] = s[at + 1 + i - 1]
      /\ \A i \in 1 .. (at + len) - (at + 1) + 1 : q[i] = u[at + 1 + i - 1]
  BY <1>3, SubSeqProperties DEF Bytes
<1>5. (at + len) - (at + 1) + 1 = len
  OBVIOUS
<1>6. Len(p) = len /\ Len(q) = len
  BY <1>4, <1>5
<1>7. \A i \in 1 .. len : p[i] = q[i]
  <2> SUFFICES ASSUME NEW i \in 1 .. len PROVE p[i] = q[i]
    OBVIOUS
  <2>1. at + 1 + i - 1 \in at + 1 .. at + len
    OBVIOUS
  <2> HIDE DEF p, q
  <2> QED BY <1>3, <1>4, <1>5, <2>1
<1> HIDE DEF p, q
<1>8. p = q
  BY <1>4, <1>6, <1>7, SeqEqual
<1> QED BY <1>8 DEF p, q

\* The bytes of a stretch.
LEMMA BytesAre ==
    ASSUME NEW s \in Seq(Char), NEW at \in Nat, NEW len \in Nat, at + len <= Len(s)
    PROVE  /\ Bytes(s, at, len) \in Seq(Char) /\ Len(Bytes(s, at, len)) = len
           /\ \A i \in 1 .. len : Bytes(s, at, len)[i] = s[at + i]
<1> DEFINE p == Bytes(s, at, len)
<1>1. \A i \in at + 1 .. at + len : s[i] \in Char
  BY LenProperties, ElementOfSeq
<1>2. /\ p \in Seq(Char)
      /\ Len(p) = (IF at + 1 <= at + len THEN (at + len) - (at + 1) + 1 ELSE 0)
      /\ \A i \in 1 .. (at + len) - (at + 1) + 1 : p[i] = s[at + 1 + i - 1]
  BY <1>1, SubSeqProperties DEF Bytes
<1>3. (at + len) - (at + 1) + 1 = len /\ \A i \in 1 .. len : at + 1 + i - 1 = at + i
  OBVIOUS
<1> HIDE DEF p
<1>4. Len(p) = len /\ \A i \in 1 .. len : p[i] = s[at + i]
  BY <1>2, <1>3
<1> QED BY <1>2, <1>4 DEF p

LEMMA MinOfTwo ==
    ASSUME NEW a \in Nat, NEW b \in Nat
    PROVE  Min({a, b}) = IF a <= b THEN a ELSE b
<1> DEFINE S == {a, b}
<1>1. S \subseteq Nat /\ S # {}
  OBVIOUS
<1>2. Min(S) \in S /\ \A n \in S : Min(S) <= n
  <2> HIDE DEF S
  <2> QED BY <1>1, MinIsLeast
<1> QED BY <1>2

-----------------------------------------------------------------------------
(* readLine.                                                               *)

Window(s, at, maxLen) ==
    IF Len(s) - at <= maxLen + 2 THEN Len(s) - at ELSE maxLen + 2
EndsLine(s, at, framing, i) ==
    s[at + i] = LF /\ ((i > 1 /\ s[at + i - 1] = CR) \/ framing = "kInline")
LineEnds(s, at, maxLen, framing) ==
    {i \in 1 .. Window(s, at, maxLen) : EndsLine(s, at, framing, i)}
\* No legal line can arrive any more.
NoRoom(s, at, maxLen) ==
    Len(s) - at >= maxLen + 2 \/ (Len(s) - at = maxLen + 1 /\ s[Len(s)] # CR)
AfterCR(s, at, lf) == lf > 1 /\ s[at + lf - 1] = CR

\* readLine on the stream itself, without the window cut out of it.
LEMMA LineCases ==
    ASSUME NEW s \in Seq(Char), NEW at \in Nat, NEW m \in Nat, at < Len(s), NEW framing
    PROVE  readLine(s, at, m, framing) =
             IF LineEnds(s, at, m, framing) = {}
             THEN Verdict(IF NoRoom(s, at, m) THEN "kTooLong" ELSE "kIncomplete")
             ELSE Terminated(s, at, m, Min(LineEnds(s, at, m, framing)),
                             AfterCR(s, at, Min(LineEnds(s, at, m, framing))))
<1> DEFINE avail == Len(s) - at
           w == Window(s, at, m)
           scan == Bytes(s, at, Min({avail, m + 2}))
           After(i) == i > 1 /\ scan[i - 1] = CR
           ends == {i \in 1 .. Len(scan) : scan[i] = LF /\ (After(i) \/ framing = "kInline")}
<1>1. Len(s) \in Nat /\ avail \in Nat \ {0}
  BY LenProperties
<1>2. Min({avail, m + 2}) = w /\ w \in Nat \ {0} /\ at + w <= Len(s)
      /\ w = IF avail <= m + 2 THEN avail ELSE m + 2
  <2>1. Min({avail, m + 2}) = IF avail <= m + 2 THEN avail ELSE m + 2
    <3> HIDE DEF avail
    <3> QED BY <1>1, MinOfTwo
  <2> QED BY <1>1, <2>1 DEF Window
<1> HIDE DEF w
<1>3. Len(scan) = w /\ \A i \in 1 .. w : scan[i] = s[at + i]
  <2>1. scan = Bytes(s, at, w)
    BY <1>2
  <2>2. Len(Bytes(s, at, w)) = w /\ \A i \in 1 .. w : Bytes(s, at, w)[i] = s[at + i]
    BY <1>2, BytesAre
  <2> HIDE DEF scan
  <2> QED BY <2>1, <2>2
<1>4. readLine(s, at, m, framing) =
        IF ends = {}
        THEN Verdict(IF OutOfRoom(avail, m, scan) THEN "kTooLong" ELSE "kIncomplete")
        ELSE Terminated(s, at, m, Min(ends), After(Min(ends)))
  <2>1. (at >= Len(s)) = FALSE
    BY <1>1
  <2> QED BY <2>1, Zenon DEF readLine
<1> HIDE DEF scan
<1>5. \A i \in 1 .. w : After(i) <=> AfterCR(s, at, i)
  <2> SUFFICES ASSUME NEW i \in 1 .. w PROVE After(i) <=> AfterCR(s, at, i)
    OBVIOUS
  <2>1. i > 1 => i - 1 \in 1 .. w /\ at + (i - 1) = at + i - 1
    BY <1>2
  <2> QED BY <1>3, <2>1 DEF AfterCR
<1>6. ends = LineEnds(s, at, m, framing)
  <2>1. \A i \in 1 .. w : (scan[i] = LF /\ (After(i) \/ framing = "kInline"))
                             <=> EndsLine(s, at, framing, i)
    BY <1>3, <1>5 DEF EndsLine, AfterCR
  <2> HIDE DEF After
  <2> QED BY <1>3, <2>1 DEF LineEnds, w
<1>7. OutOfRoom(avail, m, scan) <=> NoRoom(s, at, m)
  <2>1. avail = m + 1 => Last(scan) = s[Len(s)]
    <3>1. avail = m + 1 => w = m + 1 /\ at + w = Len(s) /\ w \in 1 .. w
      BY <1>1, <1>2
    <3> QED BY <1>3, <3>1 DEF Last
  <2> QED BY <2>1 DEF OutOfRoom, NoRoom
<1>8. ends # {} => Min(ends) \in 1 .. w
  <2>1. ends \subseteq 1 .. w /\ ends \subseteq Nat
    BY <1>2, <1>3
  <2> HIDE DEF ends
  <2> QED BY <2>1, MinIsLeast
<1>9. ends # {} => (After(Min(ends)) <=> AfterCR(s, at, Min(ends)))
  BY <1>5, <1>8
<1>10. ends # {} => After(Min(ends)) = AfterCR(s, at, Min(ends))
  BY <1>9 DEF AfterCR
<1> HIDE DEF ends, After
<1> QED BY <1>4, <1>6, <1>7, <1>10

\* What readLine can answer, and how far a line goes.
LEMMA LineIs ==
    ASSUME NEW s \in Seq(Char), NEW at \in Nat, NEW m \in Nat, NEW framing
    PROVE  LET r == readLine(s, at, m, framing)
           IN  /\ r.status \in {"kFound", "kTooLong", "kIncomplete"}
               /\ r.status = "kTooLong" => r = Verdict("kTooLong") /\ at < Len(s)
               /\ r.status = "kFound" =>
                    LET E == LineEnds(s, at, m, framing)
                        lf == Min(E)
                        len == IF AfterCR(s, at, lf) THEN lf - 2 ELSE lf - 1
                    IN  /\ at < Len(s) /\ E # {} /\ len <= m /\ len \in Nat
                        /\ lf \in 1 .. Window(s, at, m) /\ r = Found(s, at, len, at + lf)
                        /\ r.next = at + lf /\ r.text = Bytes(s, at, len)
                        /\ r.text \in Seq(Char) /\ Len(r.text) <= m /\ r.next \in Nat
                        /\ at < r.next /\ r.next <= Len(s)
<1> DEFINE r == readLine(s, at, m, framing)
           E == LineEnds(s, at, m, framing)
           lf == Min(E)
           len == IF AfterCR(s, at, lf) THEN lf - 2 ELSE lf - 1
<1>1. Len(s) \in Nat
  BY LenProperties
<1>2. CASE ~(at < Len(s))
  <2>1. r = Verdict("kIncomplete")
    <3>1. (at >= Len(s)) = TRUE
      BY <1>1, <1>2
    <3> QED BY <3>1, Zenon DEF readLine
  <2> HIDE DEF r
  <2> QED BY <2>1 DEF Verdict, r
<1>3. CASE at < Len(s)
  <2>1. r = IF E = {} THEN Verdict(IF NoRoom(s, at, m) THEN "kTooLong" ELSE "kIncomplete")
            ELSE Terminated(s, at, m, lf, AfterCR(s, at, lf))
    BY <1>3, LineCases
  <2> HIDE DEF r
  <2>2. CASE E = {}
    BY <1>3, <2>1, <2>2 DEF Verdict, r
  <2>3. CASE E # {}
    <3>1. Window(s, at, m) \in Nat /\ at + Window(s, at, m) <= Len(s)
      BY <1>1, <1>3 DEF Window
    <3>2. lf \in 1 .. Window(s, at, m)
      <4>1. E \subseteq 1 .. Window(s, at, m) /\ E \subseteq Nat
        BY <3>1 DEF LineEnds
      <4> HIDE DEF E
      <4> QED BY <2>3, <4>1, MinIsLeast
    <3> HIDE DEF E, lf
    <3>3. len \in Nat /\ len <= lf /\ at + len <= Len(s) /\ at + lf <= Len(s) /\ lf \in Nat /\ lf >= 1
      BY <1>1, <3>1, <3>2 DEF AfterCR
    <3>4. r = IF len > m THEN Verdict("kTooLong") ELSE Found(s, at, len, at + lf)
      BY <2>1, <2>3 DEF Terminated
    <3> HIDE DEF len
    <3>5. CASE len > m
      BY <1>3, <3>4, <3>5 DEF Verdict, r
    <3>6. CASE ~(len > m)
      <4>1. /\ r.status = "kFound" /\ r.next = at + lf /\ r.text = Bytes(s, at, len)
            /\ r = Found(s, at, len, at + lf)
        BY <3>4, <3>6 DEF Found
      <4>2. r.text \in Seq(Char) /\ Len(r.text) = len
        <5>1. Bytes(s, at, len) \in Seq(Char) /\ Len(Bytes(s, at, len)) = len
          BY <3>3, BytesAre
        <5> QED BY <4>1, <5>1
      <4>3. r.next \in Nat /\ at < r.next /\ r.next <= Len(s) /\ len <= m
        BY <3>3, <3>6, <4>1
      <4> QED BY <1>3, <2>3, <3>2, <3>3, <4>1, <4>2, <4>3 DEF r, E, lf, len
    <3> QED BY <3>5, <3>6
  <2> QED BY <2>2, <2>3
<1> QED BY <1>2, <1>3

\* The line that ends first is the same in every stream that has it.
LEMMA FirstEndAgrees ==
    ASSUME NEW s \in Seq(Char), NEW u \in Seq(Char), NEW at \in Nat, NEW m \in Nat, NEW framing,
           at < Len(s), LineEnds(s, at, m, framing) # {},
           NEW lf, lf = Min(LineEnds(s, at, m, framing)), Agree(s, u, at + lf)
    PROVE  /\ lf \in Nat \ {0} /\ at + lf <= Len(s) /\ at < Len(u)
           /\ LineEnds(u, at, m, framing) # {} /\ Min(LineEnds(u, at, m, framing)) = lf
           /\ AfterCR(u, at, lf) = AfterCR(s, at, lf)
<1> DEFINE E == LineEnds(s, at, m, framing)
           F == LineEnds(u, at, m, framing)
<1>1. Len(s) \in Nat /\ Len(u) \in Nat
  BY LenProperties
<1>2. Window(s, at, m) \in Nat /\ at + Window(s, at, m) <= Len(s) /\ Window(s, at, m) <= m + 2
  BY <1>1 DEF Window
<1>3. lf \in E /\ \A i \in E : lf <= i
  <2>1. E \subseteq Nat /\ E # {}
    BY <1>2 DEF LineEnds
  <2> HIDE DEF E
  <2> QED BY <2>1, MinIsLeast DEF E
<1>4. lf \in 1 .. Window(s, at, m) /\ EndsLine(s, at, framing, lf)
  BY <1>3 DEF LineEnds
<1>5. /\ lf \in Nat \ {0} /\ at + lf <= Len(s) /\ at + lf <= Len(u) /\ at < Len(u) /\ lf <= m + 2
      /\ \A i \in 1 .. at + lf : u[i] = s[i]
  BY <1>1, <1>2, <1>4 DEF Agree
<1>6. Window(u, at, m) \in Nat /\ lf \in 1 .. Window(u, at, m) /\ Window(u, at, m) <= m + 2
  BY <1>1, <1>5 DEF Window
<1>7. \A i \in 1 .. lf : EndsLine(u, at, framing, i) <=> EndsLine(s, at, framing, i)
  <2> SUFFICES ASSUME NEW i \in 1 .. lf
               PROVE  EndsLine(u, at, framing, i) <=> EndsLine(s, at, framing, i)
    OBVIOUS
  <2>1. at + i \in 1 .. at + lf /\ (i > 1 => at + i - 1 \in 1 .. at + lf)
    BY <1>5
  <2>2. u[at + i] = s[at + i] /\ (i > 1 => u[at + i - 1] = s[at + i - 1])
    BY <1>5, <2>1
  <2> QED BY <2>2 DEF EndsLine
<1>8. lf \in F
  BY <1>4, <1>5, <1>6, <1>7 DEF LineEnds
<1>9. \A i \in F : lf <= i
  <2> SUFFICES ASSUME NEW i \in F, i < lf PROVE FALSE
    BY <1>5, <1>6 DEF LineEnds
  <2>1. i \in 1 .. lf /\ i \in 1 .. Window(s, at, m) /\ EndsLine(u, at, framing, i)
    BY <1>2, <1>4, <1>6 DEF LineEnds
  <2>2. i \in E
    BY <1>7, <2>1 DEF LineEnds
  <2> QED BY <1>3, <1>5, <2>1, <2>2
<1>10. Min(F) = lf
  <2>1. F \subseteq Nat /\ F # {}
    BY <1>6, <1>8 DEF LineEnds
  <2> HIDE DEF F
  <2>2. Min(F) \in F /\ Min(F) <= lf
    BY <1>8, <2>1, MinIsLeast
  <2>3. Min(F) \in Nat /\ lf <= Min(F)
    BY <1>9, <2>1, <2>2
  <2> QED BY <1>5, <2>2, <2>3
<1>11. AfterCR(u, at, lf) <=> AfterCR(s, at, lf)
  <2>1. lf > 1 => at + lf - 1 \in 1 .. at + lf
    BY <1>5
  <2> QED BY <1>5, <2>1 DEF AfterCR
<1> QED BY <1>5, <1>8, <1>10, <1>11 DEF AfterCR

\* A line that was found is found in every stream that has it.
LEMMA LineFound ==
    ASSUME NEW s \in Seq(Char), NEW u \in Seq(Char), NEW at \in Nat, NEW m \in Nat, NEW framing,
           readLine(s, at, m, framing).status = "kFound",
           Agree(s, u, readLine(s, at, m, framing).next)
    PROVE  readLine(u, at, m, framing) = readLine(s, at, m, framing)
<1> DEFINE r == readLine(s, at, m, framing)
           lf == Min(LineEnds(s, at, m, framing))
           len == IF AfterCR(s, at, lf) THEN lf - 2 ELSE lf - 1
<1>1. /\ at < Len(s) /\ LineEnds(s, at, m, framing) # {} /\ len <= m /\ len \in Nat
      /\ r = Found(s, at, len, at + lf) /\ r.next = at + lf
  BY LineIs
<1>2. Agree(s, u, at + lf)
  BY <1>1
<1>3. /\ lf \in Nat \ {0} /\ at + lf <= Len(s) /\ at < Len(u)
      /\ LineEnds(u, at, m, framing) # {} /\ Min(LineEnds(u, at, m, framing)) = lf
      /\ AfterCR(u, at, lf) = AfterCR(s, at, lf)
  BY <1>1, <1>2, FirstEndAgrees
<1> HIDE DEF lf
<1>4. readLine(u, at, m, framing) = Terminated(u, at, m, lf, AfterCR(s, at, lf))
  BY <1>3, LineCases
<1>5. Bytes(u, at, len) = Bytes(s, at, len)
  <2>1. len \in Nat /\ at + len <= Len(s) /\ at + len <= at + lf /\ Len(u) \in Nat /\ Len(s) \in Nat
    BY <1>1, <1>3, LenProperties
  <2> HIDE DEF len
  <2>2. Agree(s, u, at + len)
    BY <1>2, <1>3, <2>1, AgreeLess
  <2> QED BY <2>1, <2>2, BytesAgree
<1>6. Terminated(u, at, m, lf, AfterCR(s, at, lf)) = Found(u, at, len, at + lf)
  BY <1>1, <1>3 DEF Terminated
<1>7. Found(u, at, len, at + lf) = Found(s, at, len, at + lf)
  BY <1>5 DEF Found
<1> QED BY <1>1, <1>4, <1>6, <1>7

\* A line that is too long stays too long.
LEMMA LineTooLong ==
    ASSUME NEW s \in Seq(Char), NEW u \in Seq(Char), NEW at \in Nat, NEW m \in Nat, NEW framing,
           readLine(s, at, m, framing).status = "kTooLong", Agree(s, u, Len(s))
    PROVE  readLine(u, at, m, framing) = readLine(s, at, m, framing)
<1> DEFINE r == readLine(s, at, m, framing)
           E == LineEnds(s, at, m, framing)
           F == LineEnds(u, at, m, framing)
<1>1. at < Len(s) /\ r = Verdict("kTooLong") /\ Len(s) \in Nat /\ Len(u) \in Nat /\ Len(s) <= Len(u)
      /\ \A i \in 1 .. Len(s) : u[i] = s[i]
  BY LineIs, LenProperties DEF Agree
<1>2. r = IF E = {} THEN Verdict(IF NoRoom(s, at, m) THEN "kTooLong" ELSE "kIncomplete")
          ELSE Terminated(s, at, m, Min(E), AfterCR(s, at, Min(E)))
  BY <1>1, LineCases
<1>3. readLine(u, at, m, framing) =
         IF F = {} THEN Verdict(IF NoRoom(u, at, m) THEN "kTooLong" ELSE "kIncomplete")
         ELSE Terminated(u, at, m, Min(F), AfterCR(u, at, Min(F)))
  BY <1>1, LineCases
<1>4. Window(s, at, m) \in Nat /\ at + Window(s, at, m) <= Len(s)
  BY <1>1 DEF Window
<1>5. CASE E # {}
  <2> DEFINE lf == Min(E)
  <2>1. lf \in 1 .. Window(s, at, m)
    <3>1. E \subseteq Nat /\ E \subseteq 1 .. Window(s, at, m)
      BY <1>4 DEF LineEnds
    <3> HIDE DEF E
    <3> QED BY <1>5, <3>1, MinIsLeast
  <2>2. Agree(s, u, at + lf)
    <3> HIDE DEF lf
    <3> QED BY <1>1, <1>4, <2>1 DEF Agree
  <2>3. F # {} /\ Min(F) = lf /\ AfterCR(u, at, lf) = AfterCR(s, at, lf)
    BY <1>1, <1>5, <2>2, FirstEndAgrees
  <2> HIDE DEF E, F, lf
  <2>4. r = Terminated(s, at, m, lf, AfterCR(s, at, lf))
    BY <1>2, <1>5 DEF lf
  <2>5. readLine(u, at, m, framing) = Terminated(u, at, m, lf, AfterCR(s, at, lf))
    BY <1>3, <2>3
  <2> HIDE DEF r
  <2>6. Terminated(s, at, m, lf, AfterCR(s, at, lf)).status = "kTooLong"
    BY <1>1, <2>4 DEF Verdict
  <2>7. Terminated(u, at, m, lf, AfterCR(s, at, lf)) = Verdict("kTooLong")
    BY <2>6 DEF Terminated, Found, Verdict
  <2> QED BY <1>1, <2>5, <2>7 DEF r
<1>6. CASE E = {}
  <2>1. NoRoom(s, at, m)
    <3> HIDE DEF r, E
    <3> QED BY <1>1, <1>2, <1>6 DEF Verdict
  <2>2. NoRoom(u, at, m)
    BY <1>1, <2>1 DEF NoRoom
  <2>3. ASSUME NEW lf \in F PROVE lf = m + 2 /\ ~AfterCR(u, at, lf)
    <3>1. lf \in 1 .. Window(u, at, m) /\ EndsLine(u, at, framing, lf)
          /\ Window(u, at, m) \in Nat /\ Window(u, at, m) <= m + 2
      BY <1>1 DEF LineEnds, Window
    <3>2. ~(lf \in 1 .. Window(s, at, m))
      <4> SUFFICES ASSUME lf \in 1 .. Window(s, at, m) PROVE FALSE
        OBVIOUS
      <4>1. at + lf \in 1 .. Len(s) /\ (lf > 1 => at + lf - 1 \in 1 .. Len(s))
        BY <1>1, <1>4
      <4>2. EndsLine(s, at, framing, lf)
        BY <1>1, <3>1, <4>1 DEF EndsLine
      <4> QED BY <1>6, <4>2 DEF LineEnds
    <3>3. Len(s) - at = m + 1 /\ s[Len(s)] # CR /\ lf = m + 2
      BY <1>1, <1>4, <2>1, <3>1, <3>2 DEF NoRoom, Window
    <3>4. at + lf - 1 = Len(s) /\ Len(s) \in 1 .. Len(s)
      BY <1>1, <3>3
    <3> QED BY <1>1, <3>3, <3>4 DEF AfterCR
  <2>4. CASE F = {}
    BY <1>1, <1>3, <2>2, <2>4
  <2>5. CASE F # {}
    <3>1. F \subseteq Nat
      BY <2>3
    <3> HIDE DEF F
    <3>2. Min(F) \in F
      BY <2>5, <3>1, MinIsLeast
    <3>3. Min(F) = m + 2 /\ ~AfterCR(u, at, Min(F))
      BY <2>3, <3>2
    <3>4. Terminated(u, at, m, Min(F), AfterCR(u, at, Min(F))) = Verdict("kTooLong")
      BY <3>3 DEF Terminated
    <3> HIDE DEF r
    <3> QED BY <1>1, <1>3, <2>5, <3>4 DEF r
  <2> QED BY <2>4, <2>5
<1> QED BY <1>5, <1>6

-----------------------------------------------------------------------------
(* takeBytes, readInt and headerValue.                                     *)

\* A payload, or the trailer that spoils it, is the same in every stream that
\* has it.
LEMMA PayloadIs ==
    ASSUME NEW s \in Seq(Char), NEW u \in Seq(Char), NEW at \in Nat, NEW len \in Nat,
           NEW r, r = takeBytes(s, at, len)
    PROVE  /\ r.status \in {"kFound", "kBadTrailer", "kIncomplete"}
           /\ r.status # "kIncomplete" =>
                /\ at + len + 2 <= Len(s)
                /\ Agree(s, u, at + len + 2) => takeBytes(u, at, len) = r
           /\ r.status = "kFound" =>
                /\ r.next = at + len + 2 /\ r.next \in Nat
                /\ r.text = Bytes(s, at, len) /\ r.text \in Seq(Char) /\ Len(r.text) = len
<1>1. Len(s) \in Nat /\ Len(u) \in Nat
  BY LenProperties
<1>2. CASE Len(s) - at < 2 \/ len > (Len(s) - at) - 2
  <2>1. r = Verdict("kIncomplete")
    BY <1>2 DEF takeBytes
  <2> QED BY <2>1 DEF Verdict
<1>3. CASE ~(Len(s) - at < 2 \/ len > (Len(s) - at) - 2)
  <2>1. at + len + 2 <= Len(s) /\ at + len \in Nat /\ at + len <= Len(s)
    BY <1>1, <1>3
  <2>2. r = IF Bytes(s, at + len, 2) # CRLF THEN Verdict("kBadTrailer")
            ELSE Found(s, at, len, at + len + 2)
    BY <1>3 DEF takeBytes
  <2>3. r.status \in {"kFound", "kBadTrailer"}
    BY <2>2 DEF Verdict, Found
  <2>4. ASSUME Agree(s, u, at + len + 2) PROVE takeBytes(u, at, len) = r
    <3>1. ~(Len(u) - at < 2 \/ len > (Len(u) - at) - 2)
      BY <1>1, <2>1, <2>4 DEF Agree
    <3>2. takeBytes(u, at, len) = IF Bytes(u, at + len, 2) # CRLF THEN Verdict("kBadTrailer")
                                  ELSE Found(u, at, len, at + len + 2)
      BY <3>1 DEF takeBytes
    <3>3. Bytes(u, at + len, 2) = Bytes(s, at + len, 2)
      BY <2>1, <2>4, BytesAgree
    <3>4. Bytes(u, at, len) = Bytes(s, at, len)
      <4>1. Agree(s, u, at + len)
        BY <1>1, <2>1, <2>4, AgreeLess
      <4> QED BY <2>1, <4>1, BytesAgree
    <3> QED BY <2>2, <3>2, <3>3, <3>4 DEF Found
  <2>5. ASSUME r.status = "kFound"
        PROVE  /\ r.next = at + len + 2 /\ r.next \in Nat
               /\ r.text = Bytes(s, at, len) /\ r.text \in Seq(Char) /\ Len(r.text) = len
    <3>1. r = Found(s, at, len, at + len + 2)
      BY <2>2, <2>5 DEF Verdict
    <3>2. r.next = at + len + 2 /\ r.text = Bytes(s, at, len)
      BY <3>1 DEF Found
    <3>3. Bytes(s, at, len) \in Seq(Char) /\ Len(Bytes(s, at, len)) = len
      BY <2>1, BytesAre
    <3> QED BY <2>1, <3>2, <3>3
  <2> QED BY <2>1, <2>3, <2>4, <2>5
<1> QED BY <1>2, <1>3

\* One digit is a value from 0 to 9.
LEMMA DigitIs ==
    ASSUME NEW c \in Digits
    PROVE  DigitOf(c) \in 0 .. 9 /\ Numeral[DigitOf(c) + 1] = c
<1>1. DOMAIN Numeral = 1 .. 10
  BY DEF Numeral
<1>2. \E i \in DOMAIN Numeral : Numeral[i] = c
  BY DEF Digits, ToSet
<1> DEFINE j == CHOOSE i \in DOMAIN Numeral : Numeral[i] = c
<1>3. j \in 1 .. 10 /\ Numeral[j] = c
  BY <1>1, <1>2
<1>4. DigitOf(c) = j - 1
  BY DEF DigitOf
<1> HIDE DEF j
<1> QED BY <1>3, <1>4

Numbers == Nat \cup {nullopt}

LEMMA WithDigitIs ==
    ASSUME NEW v \in Numbers, NEW c
    PROVE  WithDigit(v, c) \in Numbers
<1>1. CASE v = nullopt \/ c \notin Digits
  BY <1>1 DEF WithDigit, Numbers
<1>2. CASE v # nullopt /\ c \in Digits
  <2>1. v \in Nat /\ DigitOf(c) \in Nat
    BY <1>2, DigitIs DEF Numbers
  <2>2. v * 10 + DigitOf(c) \in Nat
    BY <2>1
  <2> QED BY <1>2, <2>2 DEF WithDigit, Numbers
<1> QED BY <1>1, <1>2

\* The loop of readInt, one value per digit.
Reads(v, s) ==
    /\ v \in [0 .. Len(s) -> Numbers] /\ v[0] = 0
    /\ \A i \in 1 .. Len(s) : v[i] = WithDigit(v[i - 1], s[i])

LEMMA ReadIntSteps ==
    ASSUME NEW s, Len(s) \in Nat
    PROVE  \E v : /\ Reads(v, s)
                  /\ readInt(s) = IF s = <<>> \/ (s # <<"0">> /\ s[1] \notin Digits \ {"0"})
                                  THEN nullopt ELSE v[Len(s)]
<1> DEFINE n == Len(s)
           S == 0 .. n
           Base == {0}
           base == [i \in S |-> 0]
           step == [x \in S \X Numbers |-> WithDigit(x[2], s[x[1]])]
           p == [i \in S |-> i - 1]
           rank == [i \in S |-> i]
<1>1. /\ rank \in [S -> Nat] /\ Numbers # {}
      /\ \A i \in S : i \notin Base => p[i] \in S /\ rank[p[i]] < rank[i]
      /\ \A i \in S : i \in Base => base[i] \in Numbers
  BY DEF Numbers
<1>2. \A i \in S, x \in Numbers : step[<<i, x>>] = WithDigit(x, s[i]) /\ step[<<i, x>>] \in Numbers
  BY WithDigitIs
<1>3. \A i \in S : (i \in Base <=> i = 0) /\ base[i] = 0 /\ (i # 0 => p[i] = i - 1 /\ i - 1 \in S)
  OBVIOUS
<1> HIDE DEF S, Base, base, step, p, rank
<1>4. Descends(S, Numbers, Base, base, step, p, rank)
  BY <1>1, <1>2 DEF Descends
<1>5. PICK f \in [S -> Numbers] : Solution(f, S, Base, base, step, p)
  BY <1>4, RecursionExists
<1>6. ASSUME NEW i \in S PROVE f[i] = IF i = 0 THEN 0 ELSE WithDigit(f[i - 1], s[i])
  <2>1. f[i] = IF i \in Base THEN base[i] ELSE step[<<i, f[p[i]]>>]
    BY <1>5 DEF Solution
  <2>2. i # 0 => f[i - 1] \in Numbers /\ p[i] = i - 1
    BY <1>3, <1>5
  <2> QED BY <1>2, <1>3, <2>1, <2>2
<1> DEFINE Eq(g) == g = [i \in 0 .. Len(s) |-> IF i = 0 THEN 0 ELSE WithDigit(g[i - 1], s[i])]
           v == CHOOSE g : Eq(g)
<1>7. Eq(v)
  <2>1. Eq(f)
    BY <1>5, <1>6 DEF S
  <2> HIDE DEF Eq
  <2> QED BY <2>1, Zenon
<1>8. readInt(s) = IF s = <<>> \/ (s # <<"0">> /\ s[1] \notin Digits \ {"0"})
                   THEN nullopt ELSE v[Len(s)]
  BY DEF readInt
<1> HIDE DEF v
<1>9. \A i \in 0 .. n : v[i] = IF i = 0 THEN 0 ELSE WithDigit(v[i - 1], s[i])
  <2> DEFINE body(i) == IF i = 0 THEN 0 ELSE WithDigit(v[i - 1], s[i])
  <2>1. v = [i \in 0 .. n |-> body(i)]
    BY <1>7
  <2> HIDE DEF body
  <2>2. \A i \in 0 .. n : v[i] = body(i)
    BY <2>1
  <2> QED BY <2>2 DEF body
<1>10. DOMAIN v = 0 .. n /\ v = [i \in 0 .. n |-> v[i]]
  BY <1>7
<1> HIDE DEF Eq
<1> DEFINE Bad == {i \in 0 .. n : v[i] \notin Numbers}
<1>11. ASSUME Bad # {} PROVE FALSE
  <2>1. PICK i \in Bad : \A j \in Bad : i <= j
    <3>1. Bad \subseteq Nat
      OBVIOUS
    <3> HIDE DEF Bad
    <3> QED BY <1>11, <3>1, LeastExists
  <2>2. i # 0
    BY <1>9, <2>1 DEF Numbers
  <2>3. i - 1 \in 0 .. n /\ i - 1 \notin Bad
    BY <2>1, <2>2
  <2>4. v[i - 1] \in Numbers
    BY <2>3
  <2>5. v[i] = WithDigit(v[i - 1], s[i])
    BY <1>9, <2>1, <2>2
  <2> QED BY <2>1, <2>4, <2>5, WithDigitIs
<1>12. \A i \in 0 .. n : v[i] \in Numbers
  BY <1>11
<1>13. v \in [0 .. Len(s) -> Numbers]
  BY <1>10, <1>12
<1>14. Reads(v, s)
  <2>1. \A i \in 1 .. Len(s) : i \in 0 .. n /\ i # 0
    OBVIOUS
  <2>2. 0 \in 0 .. n
    OBVIOUS
  <2> QED BY <1>9, <1>13, <2>1, <2>2 DEF Reads
<1> QED BY <1>8, <1>14

\* A header's value is a number within its limit or none.
LEMMA HeaderIs ==
    ASSUME NEW line \in Seq(Char), NEW type, NEW limit \in Nat
    PROVE  /\ headerValue(line, type, limit) \in Numbers
           /\ headerValue(line, type, limit) # nullopt => headerValue(line, type, limit) \in 0 .. limit
<1>1. CASE line = <<>> \/ line[1] # type
  BY <1>1 DEF headerValue, Numbers
<1>2. CASE ~(line = <<>> \/ line[1] # type)
  <2> DEFINE v == readInt(Tail(line))
  <2>1. Len(Tail(line)) \in Nat
    BY <1>2, HeadTailProperties, LenProperties
  <2>2. PICK f : /\ Reads(f, Tail(line))
                 /\ \/ v = nullopt
                    \/ v = f[Len(Tail(line))]
    BY <2>1, ReadIntSteps
  <2>3. v \in Numbers
    BY <2>1, <2>2, SMTT(30) DEF Reads, Numbers
  <2>4. headerValue(line, type, limit) = IF v > limit THEN nullopt ELSE v
    BY <1>2 DEF headerValue
  <2> HIDE DEF v
  <2> QED BY <2>3, <2>4 DEF Numbers, nullopt
<1> QED BY <1>1, <1>2

-----------------------------------------------------------------------------
(* The elements of the array form.                                         *)

Verdicts == {"kFound", "kTooLong", "kBadTrailer", "kIncomplete"}
Accs == [status : Verdicts, cursor : Nat, words : Seq(Seq(Char))]

\* One element: where it leaves the cursor, and that it is the same in every
\* stream that has it.
LEMMA ElementIs ==
    ASSUME NEW s \in Seq(Char), NEW u \in Seq(Char), NEW acc \in Accs,
           NEW r, r = Element(s, acc)
    PROVE  /\ r \in Accs
           /\ acc.status # "kFound" => r = acc
           /\ acc.status = "kFound" =>
                /\ r.status = "kFound" =>
                     /\ acc.cursor < r.cursor /\ r.cursor <= Len(s)
                     /\ Len(r.words) = Len(acc.words) + 1
                     /\ Agree(s, u, r.cursor) => Element(u, acc) = r
                /\ r.status \in {"kTooLong", "kBadTrailer"} /\ Agree(s, u, Len(s))
                     => Element(u, acc) = r
<1>1. acc.status \in Verdicts /\ acc.cursor \in Nat /\ acc.words \in Seq(Seq(Char))
  BY DEF Accs, Verdicts
<1>2. Len(s) \in Nat /\ Len(u) \in Nat /\ Len(acc.words) \in Nat
  BY <1>1, LenProperties
<1>3. CASE acc.status # "kFound"
  BY <1>3 DEF Element
<1>4. CASE acc.status = "kFound"
  <2> DEFINE m == kMaxHeaderLength
             elem == readLine(s, acc.cursor, m, "kStrict")
  <2>0. m \in Nat /\ kMaxBulkLength \in Nat
    BY RespAssumption
  <2>1. /\ r = Framed(s, acc, elem)
        /\ Element(u, acc) = Framed(u, acc, readLine(u, acc.cursor, m, "kStrict"))
    BY <1>4 DEF Element
  <2>2. /\ elem.status \in {"kFound", "kTooLong", "kIncomplete"}
        /\ elem.status = "kFound" => /\ elem.text \in Seq(Char) /\ elem.next \in Nat
                                     /\ acc.cursor < elem.next /\ elem.next <= Len(s)
    BY <1>1, <2>0, LineIs
  <2>3. elem.status = "kFound" /\ Agree(s, u, elem.next) => readLine(u, acc.cursor, m, "kStrict") = elem
    BY <1>1, <2>0, LineFound
  <2>4. elem.status = "kTooLong" /\ Agree(s, u, Len(s)) => readLine(u, acc.cursor, m, "kStrict") = elem
    BY <1>1, <2>0, LineTooLong
  <2> HIDE DEF elem, m
  <2>5. CASE elem.status # "kFound"
    <3>1. \A x : Framed(x, acc, elem) = [acc EXCEPT !.status = elem.status]
      BY <2>5 DEF Framed
    <3>2. r = [acc EXCEPT !.status = elem.status]
      BY <2>1, <3>1
    <3>3. r \in Accs /\ r.status = elem.status
      BY <1>1, <2>2, <3>2 DEF Accs, Verdicts
    <3>4. r.status = "kTooLong" /\ Agree(s, u, Len(s)) => Element(u, acc) = r
      BY <2>1, <2>4, <3>1, <3>3
    <3> QED BY <1>4, <2>2, <2>5, <3>3, <3>4
  <2>6. CASE elem.status = "kFound"
    <3> DEFINE len == headerValue(elem.text, "$", kMaxBulkLength)
               pay(x) == IF len = nullopt THEN Verdict("kBadTrailer") ELSE takeBytes(x, elem.next, len)
               after(x) == IF pay(x).status # "kFound" THEN [acc EXCEPT !.status = pay(x).status]
                           ELSE [acc EXCEPT !.cursor = pay(x).next, !.words = Append(@, pay(x).text)]
    <3>1. \A x : Framed(x, acc, elem) = after(x)
      BY <2>6 DEF Framed
    <3>2. len = nullopt \/ len \in Nat
      BY <2>0, <2>2, <2>6, HeaderIs DEF Numbers
    <3> HIDE DEF len
    <3>3. /\ pay(s).status \in {"kFound", "kBadTrailer", "kIncomplete"}
          /\ pay(s).status = "kFound" =>
               /\ pay(s).text \in Seq(Char) /\ pay(s).next \in Nat
               /\ elem.next < pay(s).next /\ pay(s).next <= Len(s)
               /\ Agree(s, u, pay(s).next) => pay(u) = pay(s)
          /\ pay(s).status = "kBadTrailer" /\ Agree(s, u, Len(s)) => pay(u) = pay(s)
      <4>1. CASE len = nullopt
        BY <4>1 DEF Verdict
      <4>2. CASE len # nullopt
        <5>0. len \in Nat /\ elem.next \in Nat
          BY <2>2, <2>6, <3>2, <4>2
        <5> DEFINE at == elem.next
                   t == takeBytes(s, at, len)
        <5> HIDE DEF at
        <5>4. at \in Nat
          BY <5>0 DEF at
        <5>1. /\ t.status \in {"kFound", "kBadTrailer", "kIncomplete"}
              /\ t.status # "kIncomplete" =>
                   /\ at + len + 2 <= Len(s)
                   /\ Agree(s, u, at + len + 2) => takeBytes(u, at, len) = t
              /\ t.status = "kFound" =>
                   /\ t.next = at + len + 2 /\ t.next \in Nat
                   /\ t.text \in Seq(Char)
          BY <5>0, <5>4, PayloadIs
        <5>2. Agree(s, u, Len(s)) /\ elem.next + len + 2 <= Len(s) => Agree(s, u, elem.next + len + 2)
          BY <1>2, <5>0, AgreeLess
        <5>3. pay(s) = t /\ pay(u) = takeBytes(u, elem.next, len)
          BY <4>2 DEF at
        <5> HIDE DEF t, pay
        <5> QED BY <1>2, <5>0, <5>1, <5>2, <5>3 DEF at
      <4> QED BY <4>1, <4>2
    <3> HIDE DEF pay
    <3>4. r = after(s)
      BY <2>1, <3>1
    <3>5. CASE pay(s).status # "kFound"
      <4>1. r = [acc EXCEPT !.status = pay(s).status]
        BY <3>4, <3>5
      <4>2. r \in Accs /\ r.status = pay(s).status
        BY <1>1, <3>3, <4>1 DEF Accs, Verdicts
      <4>3. ASSUME r.status = "kBadTrailer", Agree(s, u, Len(s)) PROVE Element(u, acc) = r
        <5>1. Agree(s, u, elem.next)
          BY <1>2, <2>2, <2>6, <4>3, AgreeLess
        <5>2. Element(u, acc) = after(u)
          BY <2>1, <2>3, <2>6, <3>1, <5>1
        <5>3. pay(u) = pay(s)
          BY <3>3, <4>2, <4>3
        <5> QED BY <3>4, <5>2, <5>3
      <4> HIDE DEF after
      <4> QED BY <1>4, <3>3, <3>5, <4>2, <4>3
    <3>6. CASE pay(s).status = "kFound"
      <4>1. r = [acc EXCEPT !.cursor = pay(s).next, !.words = Append(@, pay(s).text)]
        BY <3>4, <3>6
      <4>2. /\ Append(acc.words, pay(s).text) \in Seq(Seq(Char))
            /\ Len(Append(acc.words, pay(s).text)) = Len(acc.words) + 1
        BY <1>1, <3>3, <3>6, AppendProperties
      <4>3. /\ r \in Accs /\ r.status = "kFound" /\ r.cursor = pay(s).next
            /\ r.words = Append(acc.words, pay(s).text)
        BY <1>1, <1>4, <3>3, <3>6, <4>1, <4>2 DEF Accs, Verdicts
      <4>4. ASSUME Agree(s, u, r.cursor) PROVE Element(u, acc) = r
        <5>1. Agree(s, u, elem.next)
          BY <1>2, <2>2, <2>6, <3>3, <3>6, <4>3, <4>4, AgreeLess
        <5>2. Element(u, acc) = after(u)
          BY <2>1, <2>3, <2>6, <3>1, <5>1
        <5>3. pay(u) = pay(s)
          BY <3>3, <3>6, <4>3, <4>4
        <5> QED BY <3>4, <5>2, <5>3
      <4>5. acc.cursor < r.cursor /\ r.cursor <= Len(s)
        BY <1>1, <1>2, <2>2, <2>6, <3>3, <3>6, <4>3
      <4> HIDE DEF after
      <4> QED BY <1>4, <4>2, <4>3, <4>4, <4>5
    <3> QED BY <3>5, <3>6
  <2> QED BY <2>5, <2>6
<1> QED BY <1>3, <1>4

\* The loop over the elements.
Loops(f, s, at, n) ==
    /\ f \in [0 .. n -> Accs] /\ f[0] = NoWords(at)
    /\ \A i \in 1 .. n : f[i] = Element(s, f[i - 1])

LEMMA ElementsSteps ==
    ASSUME NEW s \in Seq(Char), NEW at \in Nat, NEW n \in Nat
    PROVE  \E f : Loops(f, s, at, n) /\ Elements(s, at, n) = f[n]
<1> DEFINE S == 0 .. n
           Base == {0}
           base == [i \in S |-> NoWords(at)]
           step == [x \in S \X Accs |-> Element(s, x[2])]
           p == [i \in S |-> i - 1]
           rank == [i \in S |-> i]
<1>0. NoWords(at) \in Accs
  BY DEF NoWords, Accs, Verdicts
<1>1. /\ rank \in [S -> Nat] /\ Accs # {}
      /\ \A i \in S : i \notin Base => p[i] \in S /\ rank[p[i]] < rank[i]
      /\ \A i \in S : i \in Base => base[i] \in Accs
  BY <1>0
<1>2. \A acc \in Accs : Element(s, acc) \in Accs
  BY ElementIs
<1>3. \A i \in S, x \in Accs : step[<<i, x>>] = Element(s, x) /\ step[<<i, x>>] \in Accs
  BY <1>2
<1>4. \A i \in S : (i \in Base <=> i = 0) /\ base[i] = NoWords(at) /\ (i # 0 => p[i] = i - 1 /\ i - 1 \in S)
  OBVIOUS
<1> HIDE DEF S, Base, base, step, p, rank
<1>5. Descends(S, Accs, Base, base, step, p, rank)
  BY <1>1, <1>3 DEF Descends
<1>6. PICK g \in [S -> Accs] : Solution(g, S, Base, base, step, p)
  BY <1>5, RecursionExists
<1>7. ASSUME NEW i \in S PROVE g[i] = IF i = 0 THEN NoWords(at) ELSE Element(s, g[i - 1])
  <2>1. g[i] = IF i \in Base THEN base[i] ELSE step[<<i, g[p[i]]>>]
    BY <1>6 DEF Solution
  <2>2. i # 0 => g[i - 1] \in Accs /\ p[i] = i - 1
    BY <1>4, <1>6
  <2> QED BY <1>3, <1>4, <2>1, <2>2
<1> DEFINE Eq(h) == h = [i \in 0 .. n |-> IF i = 0 THEN NoWords(at) ELSE Element(s, h[i - 1])]
           f == CHOOSE h : Eq(h)
<1>8. Eq(f)
  <2>1. Eq(g)
    BY <1>6, <1>7 DEF S
  <2> HIDE DEF Eq
  <2> QED BY <2>1, Zenon
<1>9. Elements(s, at, n) = f[n]
  BY DEF Elements
<1> HIDE DEF f
<1>10. \A i \in 0 .. n : f[i] = IF i = 0 THEN NoWords(at) ELSE Element(s, f[i - 1])
  <2> DEFINE body(i) == IF i = 0 THEN NoWords(at) ELSE Element(s, f[i - 1])
  <2>1. f = [i \in 0 .. n |-> body(i)]
    BY <1>8
  <2> HIDE DEF body
  <2>2. \A i \in 0 .. n : f[i] = body(i)
    BY <2>1
  <2> QED BY <2>2 DEF body
<1>11. f = [i \in 0 .. n |-> f[i]]
  BY <1>8
<1> HIDE DEF Eq
<1> DEFINE Bad == {i \in 0 .. n : f[i] \notin Accs}
<1>12. ASSUME Bad # {} PROVE FALSE
  <2>1. PICK i \in Bad : \A j \in Bad : i <= j
    <3>1. Bad \subseteq Nat
      OBVIOUS
    <3> HIDE DEF Bad
    <3> QED BY <1>12, <3>1, LeastExists
  <2>2. i # 0
    BY <1>0, <1>10, <2>1
  <2>3. i - 1 \in 0 .. n /\ i - 1 \notin Bad
    BY <2>1, <2>2
  <2>4. f[i - 1] \in Accs
    BY <2>3
  <2>5. f[i] = Element(s, f[i - 1])
    BY <1>10, <2>1, <2>2
  <2> QED BY <1>2, <2>1, <2>4, <2>5
<1>13. f \in [0 .. n -> Accs]
  BY <1>11, <1>12
<1>14. Loops(f, s, at, n)
  <2>1. 0 \in 0 .. n /\ \A i \in 1 .. n : i \in 0 .. n /\ i # 0
    OBVIOUS
  <2> QED BY <1>10, <1>13, <2>1 DEF Loops
<1> QED BY <1>9, <1>14

\* While elements are found the cursor goes forward and every element is a word.
LEMMA LoopFound ==
    ASSUME NEW s \in Seq(Char), NEW at \in Nat, at <= Len(s), NEW n \in Nat, NEW f,
           Loops(f, s, at, n)
    PROVE  \A i \in 0 .. n : f[i].status = "kFound" =>
              /\ \A h \in 0 .. i : f[h].status = "kFound" /\ f[h].cursor <= f[i].cursor
              /\ f[i].cursor <= Len(s) /\ Len(f[i].words) = i
<1> DEFINE Q(i) == f[i].status = "kFound" =>
                      /\ \A h \in 0 .. i : f[h].status = "kFound" /\ f[h].cursor <= f[i].cursor
                      /\ f[i].cursor <= Len(s) /\ Len(f[i].words) = i
           Bad == {i \in 0 .. n : ~Q(i)}
<1>1. /\ \A i \in 0 .. n : f[i] \in Accs /\ f[i].cursor \in Nat
      /\ f[0] = NoWords(at) /\ Len(s) \in Nat
      /\ \A i \in 1 .. n : f[i] = Element(s, f[i - 1])
  BY LenProperties DEF Loops, Accs
<1>2. ASSUME Bad # {} PROVE FALSE
  <2>1. PICK i \in Bad : \A j \in Bad : i <= j
    <3>1. Bad \subseteq Nat
      OBVIOUS
    <3> HIDE DEF Bad
    <3> QED BY <1>2, <3>1, LeastExists
  <2>2. i # 0
    <3>1. f[0].status = "kFound" /\ f[0].cursor = at /\ f[0].words = <<>>
      BY <1>1 DEF NoWords
    <3>2. Q(0)
      BY <3>1
    <3> QED BY <2>1, <3>2
  <2>3. i \in 1 .. n /\ i - 1 \in 0 .. n /\ i - 1 \notin Bad
    <3>1. i \in 0 .. n
      BY <2>1
    <3> HIDE DEF Bad
    <3> QED BY <2>1, <2>2, <3>1
  <2>4. Q(i - 1)
    BY <2>3
  <2>5. f[i] = Element(s, f[i - 1]) /\ f[i - 1] \in Accs
    BY <1>1, <2>3
  <2>6. ASSUME f[i].status = "kFound" PROVE Q(i)
    <3>1. f[i - 1].status = "kFound"
      BY <2>5, <2>6, ElementIs
    <3>2. /\ f[i - 1].cursor < f[i].cursor /\ f[i].cursor <= Len(s)
          /\ Len(f[i].words) = Len(f[i - 1].words) + 1
      BY <2>5, <2>6, <3>1, ElementIs
    <3>3. /\ Len(f[i - 1].words) = i - 1
          /\ \A h \in 0 .. i - 1 : f[h].status = "kFound" /\ f[h].cursor <= f[i - 1].cursor
      BY <2>4, <3>1
    <3>4. \A h \in 0 .. i : f[h].status = "kFound" /\ f[h].cursor <= f[i].cursor
      <4> SUFFICES ASSUME NEW h \in 0 .. i PROVE f[h].status = "kFound" /\ f[h].cursor <= f[i].cursor
        OBVIOUS
      <4>1. f[i - 1].cursor \in Nat /\ f[i].cursor \in Nat /\ f[h].cursor \in Nat
        BY <1>1, <2>3
      <4>2. h = i \/ h \in 0 .. i - 1
        BY <2>3
      <4> QED BY <2>6, <3>2, <3>3, <4>1, <4>2
    <3>5. Len(f[i].words) = i
      BY <2>3, <3>2, <3>3
    <3> QED BY <3>2, <3>4, <3>5
  <2> QED BY <2>1, <2>6
<1> QED BY <1>2

\* All elements found: they are the same in every stream that has them.
LEMMA ElementsFound ==
    ASSUME NEW s \in Seq(Char), NEW u \in Seq(Char), NEW at \in Nat, at <= Len(s), NEW n \in Nat,
           NEW r, r = Elements(s, at, n), r.status = "kFound"
    PROVE  /\ at <= r.cursor /\ r.cursor <= Len(s) /\ r.cursor \in Nat /\ Len(r.words) = n
           /\ Agree(s, u, r.cursor) => Elements(u, at, n) = r
<1>1. PICK f : Loops(f, s, at, n) /\ r = f[n]
  BY ElementsSteps
<1>2. PICK g : Loops(g, u, at, n) /\ Elements(u, at, n) = g[n]
  BY ElementsSteps
<1>3. /\ \A h \in 0 .. n : f[h].status = "kFound" /\ f[h].cursor <= r.cursor
      /\ r.cursor <= Len(s) /\ Len(r.words) = n
  BY <1>1, LoopFound
<1>4. /\ f[0] = NoWords(at) /\ g[0] = NoWords(at)
      /\ \A i \in 0 .. n : f[i] \in Accs /\ f[i].cursor \in Nat
      /\ \A i \in 1 .. n : f[i] = Element(s, f[i - 1]) /\ g[i] = Element(u, g[i - 1])
  BY <1>1, <1>2 DEF Loops, Accs
<1>5. r.cursor \in Nat /\ at <= r.cursor
  BY <1>1, <1>3, <1>4 DEF NoWords
<1>6. ASSUME Agree(s, u, r.cursor) PROVE g[n] = f[n]
  <2> DEFINE Bad == {i \in 0 .. n : g[i] # f[i]}
  <2>1. ASSUME Bad # {} PROVE FALSE
    <3>1. PICK i \in Bad : \A j \in Bad : i <= j
      <4>1. Bad \subseteq Nat
        OBVIOUS
      <4> HIDE DEF Bad
      <4> QED BY <2>1, <4>1, LeastExists
    <3>2. i \in 1 .. n /\ i - 1 \in 0 .. n /\ i - 1 \notin Bad
      <4>1. i \in 0 .. n /\ i # 0
        BY <1>4, <3>1
      <4> HIDE DEF Bad
      <4> QED BY <3>1, <4>1
    <3>3. g[i - 1] = f[i - 1] /\ f[i - 1] \in Accs
      BY <1>4, <3>2
    <3>4. f[i] = Element(s, f[i - 1]) /\ g[i] = Element(u, f[i - 1])
      BY <1>4, <3>2, <3>3
    <3>5. Agree(s, u, f[i].cursor)
      <4>1. f[i].cursor \in Nat /\ f[i].cursor <= r.cursor /\ Len(u) \in Nat
        BY <1>3, <1>4, <3>2, LenProperties
      <4> QED BY <1>5, <1>6, <4>1, AgreeLess
    <3>6. f[i - 1].status = "kFound" /\ f[i].status = "kFound"
      BY <1>3, <3>2
    <3>7. g[i] = f[i]
      BY <3>3, <3>4, <3>5, <3>6, ElementIs
    <3> QED BY <3>1, <3>7
  <2> QED BY <2>1
<1> QED BY <1>1, <1>2, <1>3, <1>5, <1>6

\* Whatever stopped the elements stops them in every longer stream.
LEMMA ElementsStop ==
    ASSUME NEW s \in Seq(Char), NEW u \in Seq(Char), NEW at \in Nat, at <= Len(s), NEW n \in Nat,
           NEW r, r = Elements(s, at, n)
    PROVE  /\ r.status \in Verdicts
           /\ r.status # "kIncomplete" /\ Agree(s, u, Len(s)) => Elements(u, at, n) = r
<1>1. PICK f : Loops(f, s, at, n) /\ r = f[n]
  BY ElementsSteps
<1>2. PICK g : Loops(g, u, at, n) /\ Elements(u, at, n) = g[n]
  BY ElementsSteps
<1>4. /\ f[0] = NoWords(at) /\ g[0] = NoWords(at)
      /\ \A i \in 0 .. n : f[i] \in Accs /\ f[i].cursor \in Nat /\ f[i].status \in Verdicts
      /\ \A i \in 1 .. n : f[i] = Element(s, f[i - 1]) /\ g[i] = Element(u, g[i - 1])
  BY <1>1, <1>2 DEF Loops, Accs
<1>5. Len(s) \in Nat /\ Len(u) \in Nat
  BY LenProperties
<1>6. ASSUME Agree(s, u, Len(s)) PROVE f[n].status # "kIncomplete" => g[n] = f[n]
  <2> DEFINE Bad == {i \in 0 .. n : f[i].status # "kIncomplete" /\ g[i] # f[i]}
  <2>1. ASSUME Bad # {} PROVE FALSE
    <3>1. PICK i \in Bad : \A j \in Bad : i <= j
      <4>1. Bad \subseteq Nat
        OBVIOUS
      <4> HIDE DEF Bad
      <4> QED BY <2>1, <4>1, LeastExists
    <3>2. i \in 1 .. n /\ i - 1 \in 0 .. n /\ i - 1 \notin Bad /\ f[i].status # "kIncomplete"
      <4>1. i \in 0 .. n /\ i # 0 /\ f[i].status # "kIncomplete"
        BY <1>4, <3>1
      <4> HIDE DEF Bad
      <4> QED BY <3>1, <4>1
    <3>3. f[i] = Element(s, f[i - 1]) /\ g[i] = Element(u, g[i - 1]) /\ f[i - 1] \in Accs /\ f[i] \in Accs
      BY <1>4, <3>2
    <3>4. f[i - 1].status # "kIncomplete"
      BY <3>2, <3>3, ElementIs
    <3>5. g[i - 1] = f[i - 1]
      BY <3>2, <3>4
    <3>6. CASE f[i - 1].status # "kFound"
      <4>1. \A x \in Seq(Char) : Element(x, f[i - 1]) = f[i - 1]
        BY <3>3, <3>6, ElementIs
      <4> QED BY <3>1, <3>3, <3>5, <4>1
    <3>7. CASE f[i - 1].status = "kFound"
      <4>1. f[i].status = "kFound" => f[i].cursor <= Len(s) /\ Agree(s, u, f[i].cursor)
        <5>1. f[i].status = "kFound" => f[i].cursor <= Len(s)
          BY <3>3, <3>7, ElementIs
        <5>2. f[i].cursor \in Nat
          BY <1>4, <3>2
        <5> QED BY <1>5, <1>6, <5>1, <5>2, AgreeLess
      <4>2. f[i].status \in {"kFound", "kTooLong", "kBadTrailer"}
        BY <1>4, <3>2 DEF Verdicts
      <4>3. Element(u, f[i - 1]) = f[i]
        BY <1>6, <3>3, <3>7, <4>1, <4>2, ElementIs
      <4> QED BY <3>1, <3>3, <3>5, <4>3
    <3> QED BY <3>6, <3>7
  <2> QED BY <2>1
<1> QED BY <1>1, <1>2, <1>4, <1>6

-----------------------------------------------------------------------------
(* parseCommand.                                                           *)

\* The fields of a result are what it is made of.
LEMMA ResultIs ==
    ASSUME NEW status, NEW consumed, NEW err, NEW cmd
    PROVE  /\ Result(status, consumed, err, cmd).status = status
           /\ Result(status, consumed, err, cmd).consumed = consumed
           /\ Result(status, consumed, err, cmd).error = err
           /\ Result(status, consumed, err, cmd).cmd = cmd
BY DEF Result

\* How much of s a decision rests on.
Extent(s, r) == IF r.status = "kOk" THEN r.consumed ELSE Len(s)

\* parseInline's decision is the same for every stream that has what it rests on.
LEMMA InlineDecided ==
    ASSUME NEW s \in Seq(Char), NEW u \in Seq(Char), NEW prev,
           NEW r, r = parseInline(s, prev), r.status # "kIncomplete"
    PROVE  /\ r.status = "kOk" => r.consumed \in 1 .. Len(s)
           /\ r.status # "kOk" => r.consumed = 0
           /\ Agree(s, u, Extent(s, r)) => parseInline(u, prev) = r
<1> DEFINE line == readLine(s, 0, kMaxInlineLength, "kInline")
<1>1. kMaxInlineLength \in Nat /\ Len(s) \in Nat /\ Len(u) \in Nat
  BY RespAssumption, LenProperties
<1>2. /\ line.status \in {"kFound", "kTooLong", "kIncomplete"}
      /\ line.status = "kFound" => line.next \in Nat /\ 0 < line.next /\ line.next <= Len(s)
  BY <1>1, LineIs
<1>3. /\ line.status = "kFound" /\ Agree(s, u, line.next)
            => readLine(u, 0, kMaxInlineLength, "kInline") = line
      /\ line.status = "kTooLong" /\ Agree(s, u, Len(s))
            => readLine(u, 0, kMaxInlineLength, "kInline") = line
  BY <1>1, LineFound, LineTooLong
<1>4. r = InlineFrom(line, prev)
      /\ parseInline(u, prev) = InlineFrom(readLine(u, 0, kMaxInlineLength, "kInline"), prev)
  BY DEF parseInline
<1> HIDE DEF line
<1>5. line.status # "kIncomplete"
  <2>1. SUFFICES ASSUME line.status = "kIncomplete" PROVE FALSE
    OBVIOUS
  <2>2. r = Incomplete(prev)
    BY <1>4, <2>1 DEF InlineFrom
  <2> QED BY <2>2, ResultIs DEF Incomplete
<1>6. CASE line.status = "kTooLong"
  <2>1. r = fail("kInlineLength", prev)
    BY <1>4, <1>6 DEF InlineFrom
  <2>2. r.status = "kProtocolError" /\ r.consumed = 0
    BY <2>1 DEF fail, Result
  <2>3. Extent(s, r) = Len(s)
    BY <2>2 DEF Extent
  <2> QED BY <1>3, <1>4, <1>6, <2>2, <2>3
<1>7. CASE line.status = "kFound"
  <2> DEFINE words == Words(line.text)
  <2>1. r = IF Len(words) > kMaxArgs THEN fail("kArgLength", Written(prev, words))
            ELSE Result("kOk", line.next, "none", publish(Written(prev, words), Len(words)))
    BY <1>4, <1>7 DEF InlineFrom
  <2> HIDE DEF words
  <2>2. (r.status = "kOk" /\ r.consumed = line.next) \/ (r.status = "kProtocolError" /\ r.consumed = 0)
    <3>1. CASE Len(words) > kMaxArgs
      BY <2>1, <3>1, ResultIs DEF fail
    <3>2. CASE ~(Len(words) > kMaxArgs)
      BY <2>1, <3>2, ResultIs
    <3> QED BY <3>1, <3>2
  <2>3. Agree(s, u, Extent(s, r)) => Agree(s, u, line.next)
    BY <1>1, <1>2, <1>7, <2>2, AgreeLess DEF Extent
  <2> QED BY <1>1, <1>2, <1>3, <1>4, <1>7, <2>2, <2>3
<1> QED BY <1>2, <1>5, <1>6, <1>7

\* So is parseArray's.
LEMMA ArrayDecided ==
    ASSUME NEW s \in Seq(Char), NEW u \in Seq(Char), NEW prev,
           NEW r, r = parseArray(s, prev), r.status # "kIncomplete"
    PROVE  /\ r.status = "kOk" => r.consumed \in 1 .. Len(s)
           /\ r.status # "kOk" => r.consumed = 0
           /\ Agree(s, u, Extent(s, r)) => parseArray(u, prev) = r
<1> DEFINE m == kMaxHeaderLength
           header == readLine(s, 0, m, "kStrict")
<1>1. m \in Nat /\ kMaxArgs \in Nat /\ Len(s) \in Nat /\ Len(u) \in Nat
  BY RespAssumption, LenProperties
<1>2. /\ header.status \in {"kFound", "kTooLong", "kIncomplete"}
      /\ header.status = "kFound" => /\ header.next \in Nat /\ 0 < header.next /\ header.next <= Len(s)
                                     /\ header.text \in Seq(Char)
  BY <1>1, LineIs
<1>3. /\ header.status = "kFound" /\ Agree(s, u, header.next) => readLine(u, 0, m, "kStrict") = header
      /\ header.status = "kTooLong" /\ Agree(s, u, Len(s)) => readLine(u, 0, m, "kStrict") = header
  BY <1>1, LineFound, LineTooLong
<1>4. r = ArrayFrom(s, header, prev) /\ parseArray(u, prev) = ArrayFrom(u, readLine(u, 0, m, "kStrict"), prev)
  BY DEF parseArray
<1> HIDE DEF header, m
<1>5. header.status # "kIncomplete"
  <2>1. SUFFICES ASSUME header.status = "kIncomplete" PROVE FALSE
    OBVIOUS
  <2>2. r = Incomplete(prev)
    BY <1>4, <2>1 DEF ArrayFrom
  <2> QED BY <2>2, ResultIs DEF Incomplete
<1>6. CASE header.status = "kTooLong"
  <2>1. \A x : ArrayFrom(x, header, prev) = fail("kArgLength", prev)
    BY <1>6 DEF ArrayFrom
  <2>2. r.status = "kProtocolError" /\ r.consumed = 0
    BY <1>4, <2>1 DEF fail, Result
  <2>3. Extent(s, r) = Len(s)
    BY <2>2 DEF Extent
  <2> QED BY <1>3, <1>4, <1>6, <2>1, <2>2, <2>3
<1>7. CASE header.status = "kFound"
  <2> DEFINE count == headerValue(header.text, "*", kMaxArgs)
             at == header.next
  <2>0. at \in Nat /\ 0 < at /\ at <= Len(s)
    BY <1>2, <1>7
  <2>1. count = nullopt \/ count \in Nat
    BY <1>1, <1>2, <1>7, HeaderIs DEF Numbers
  <2>2. \A x : ArrayFrom(x, header, prev) = IF count = nullopt THEN fail("kArgLength", prev)
                                            ELSE Assembled(Elements(x, at, count), prev, count)
    BY <1>7 DEF ArrayFrom
  <2> HIDE DEF count, at
  <2>3. ASSUME Agree(s, u, at) PROVE parseArray(u, prev) = ArrayFrom(u, header, prev)
    BY <1>3, <1>4, <1>7, <2>3 DEF at
  <2>4. CASE count = nullopt
    <3>1. r = fail("kArgLength", prev)
      BY <1>4, <2>2, <2>4
    <3>2. r.status = "kProtocolError" /\ r.consumed = 0
      BY <3>1 DEF fail, Result
    <3>3. Agree(s, u, Extent(s, r)) => Agree(s, u, at)
      BY <1>1, <2>0, <3>2, AgreeLess DEF Extent
    <3> QED BY <2>2, <2>3, <2>4, <3>1, <3>2, <3>3
  <2>5. CASE count # nullopt
    <3>0. count \in Nat
      BY <2>1, <2>5
    <3> DEFINE all == Elements(s, at, count)
               cmd == Written(prev, all.words)
    <3>1. /\ r = Assembled(all, prev, count)
          /\ ArrayFrom(u, header, prev) = Assembled(Elements(u, at, count), prev, count)
      BY <1>4, <2>2, <2>5
    <3>2. all.status \in Verdicts /\ (all.status # "kIncomplete" /\ Agree(s, u, Len(s)) => Elements(u, at, count) = all)
      BY <2>0, <3>0, ElementsStop
    <3>3. all.status = "kFound" =>
            /\ at <= all.cursor /\ all.cursor <= Len(s) /\ all.cursor \in Nat
            /\ Agree(s, u, all.cursor) => Elements(u, at, count) = all
      BY <2>0, <3>0, ElementsFound
    <3> HIDE DEF all
    <3>4. all.status # "kIncomplete"
      <4>1. SUFFICES ASSUME all.status = "kIncomplete" PROVE FALSE
        OBVIOUS
      <4>2. r = Incomplete(cmd)
        BY <3>1, <4>1 DEF Assembled
      <4> QED BY <4>2, ResultIs DEF Incomplete
    <3>5. CASE all.status = "kFound"
      <4>1. r = Result("kOk", all.cursor, "none", publish(cmd, count))
        BY <3>1, <3>5 DEF Assembled
      <4>2. r.status = "kOk" /\ r.consumed = all.cursor
        BY <4>1, ResultIs
      <4>3. Agree(s, u, Extent(s, r)) => Agree(s, u, all.cursor) /\ Agree(s, u, at)
        BY <1>1, <2>0, <3>3, <3>5, <4>2, AgreeLess DEF Extent
      <4>4. Agree(s, u, Extent(s, r)) => parseArray(u, prev) = r
        BY <2>3, <3>1, <3>3, <3>5, <4>3
      <4> QED BY <1>1, <2>0, <3>3, <3>5, <4>2, <4>4
    <3>6. CASE all.status # "kFound"
      <4>1. r = fail("kBulkLength", cmd)
        BY <3>1, <3>2, <3>4, <3>6 DEF Assembled, Verdicts
      <4>2. r.status = "kProtocolError" /\ r.consumed = 0
        BY <4>1 DEF fail, Result
      <4>3. Agree(s, u, Extent(s, r)) => Agree(s, u, Len(s)) /\ Agree(s, u, at)
        BY <1>1, <2>0, <4>2, AgreeLess DEF Extent
      <4>4. Agree(s, u, Extent(s, r)) => parseArray(u, prev) = r
        BY <2>3, <3>1, <3>2, <3>4, <4>3
      <4> QED BY <4>2, <4>4
    <3> QED BY <3>5, <3>6
  <2> QED BY <2>4, <2>5
<1> QED BY <1>2, <1>5, <1>6, <1>7

\* Settled keeps all of a result but its command.
LEMMA SettledIs ==
    ASSUME NEW status, NEW consumed, NEW err, NEW cmd, NEW r, r = Result(status, consumed, err, cmd)
    PROVE  Settled(r) = IF status = "kOk" THEN r ELSE Result(status, consumed, err, Cleared)
BY DEF Result, Settled

\* What parseInline and parseArray return is made by Result.
Made(r) == \E status, consumed, err, cmd : r = Result(status, consumed, err, cmd)

LEMMA MadeSettled ==
    ASSUME NEW r, Made(r)
    PROVE  Settled(r).status = r.status /\ Settled(r).consumed = r.consumed
<1>1. PICK status, consumed, err, cmd : r = Result(status, consumed, err, cmd)
  BY DEF Made
<1>2. r.status = status /\ r.consumed = consumed
  BY <1>1, ResultIs
<1>3. CASE status = "kOk"
  BY <1>1, <1>3, SettledIs
<1>4. CASE status # "kOk"
  <2>1. Settled(r) = Result(status, consumed, err, Cleared)
    BY <1>1, <1>4, SettledIs
  <2> QED BY <1>2, <2>1, ResultIs
<1> QED BY <1>3, <1>4

LEMMA InlineMade ==
    ASSUME NEW s \in Seq(Char), NEW prev
    PROVE  Made(parseInline(s, prev))
           /\ (parseInline(s, prev).status = "kIncomplete" => parseInline(s, prev).consumed = 0)
<1> DEFINE line == readLine(s, 0, kMaxInlineLength, "kInline")
           r == parseInline(s, prev)
           words == Words(line.text)
           cmd == Written(prev, words)
<1>1. line.status \in {"kFound", "kTooLong", "kIncomplete"}
  BY RespAssumption, LenProperties, LineIs
<1>2. r = InlineFrom(line, prev)
  BY DEF parseInline
<1> HIDE DEF line, r
<1>3. CASE line.status = "kIncomplete"
  <2>1. r = Incomplete(prev)
    BY <1>2, <1>3 DEF InlineFrom
  <2>2. r.consumed = 0
    BY <2>1, ResultIs DEF Incomplete
  <2> QED BY <2>1, <2>2 DEF Made, Incomplete, r
<1>4. CASE line.status = "kTooLong"
  <2>1. r = fail("kInlineLength", prev)
    BY <1>2, <1>4 DEF InlineFrom
  <2>2. r.consumed = 0
    BY <2>1, ResultIs DEF fail
  <2> QED BY <2>1, <2>2 DEF Made, fail, r
<1>5. CASE line.status = "kFound"
  <2>1. r = IF Len(words) > kMaxArgs THEN fail("kArgLength", cmd)
            ELSE Result("kOk", line.next, "none", publish(cmd, Len(words)))
    BY <1>2, <1>5 DEF InlineFrom
  <2> HIDE DEF cmd, words
  <2>2. CASE Len(words) > kMaxArgs
    <3>1. r.consumed = 0
      BY <2>1, <2>2, ResultIs DEF fail
    <3> QED BY <2>1, <2>2, <3>1 DEF Made, fail, r
  <2>3. CASE ~(Len(words) > kMaxArgs)
    <3>1. r.status = "kOk"
      BY <2>1, <2>3, ResultIs
    <3> QED BY <2>1, <2>3, <3>1 DEF Made, r
  <2> QED BY <2>2, <2>3
<1> QED BY <1>1, <1>3, <1>4, <1>5

LEMMA ArrayMade ==
    ASSUME NEW s \in Seq(Char), NEW prev
    PROVE  Made(parseArray(s, prev))
           /\ (parseArray(s, prev).status = "kIncomplete" => parseArray(s, prev).consumed = 0)
<1> DEFINE header == readLine(s, 0, kMaxHeaderLength, "kStrict")
           r == parseArray(s, prev)
           count == headerValue(header.text, "*", kMaxArgs)
<1>1. /\ header.status \in {"kFound", "kTooLong", "kIncomplete"}
      /\ header.status = "kFound" => header.next \in Nat /\ 0 < header.next /\ header.next <= Len(s)
                                     /\ header.text \in Seq(Char)
  BY RespAssumption, LenProperties, LineIs
<1>2. r = ArrayFrom(s, header, prev)
  BY DEF parseArray
<1> HIDE DEF header, r
<1>3. CASE header.status = "kIncomplete"
  <2>1. r = Incomplete(prev)
    BY <1>2, <1>3 DEF ArrayFrom
  <2>2. r.consumed = 0
    BY <2>1, ResultIs DEF Incomplete
  <2> QED BY <2>1, <2>2 DEF Made, Incomplete, r
<1>4. CASE header.status = "kTooLong"
  <2>1. r = fail("kArgLength", prev)
    BY <1>2, <1>4 DEF ArrayFrom
  <2>2. r.consumed = 0
    BY <2>1, ResultIs DEF fail
  <2> QED BY <2>1, <2>2 DEF Made, fail, r
<1>5. CASE header.status = "kFound" /\ count = nullopt
  <2>1. r = fail("kArgLength", prev)
    BY <1>2, <1>5 DEF ArrayFrom
  <2>2. r.consumed = 0
    BY <2>1, ResultIs DEF fail
  <2> QED BY <2>1, <2>2 DEF Made, fail, r
<1>6. CASE header.status = "kFound" /\ count # nullopt
  <2> DEFINE all == Elements(s, header.next, count)
             cmd == Written(prev, all.words)
  <2>1. r = Assembled(all, prev, count)
    BY <1>2, <1>6 DEF ArrayFrom
  <2>2. count \in Nat
    <3>1. kMaxArgs \in Nat
      BY RespAssumption
    <3> QED BY <1>1, <1>6, <3>1, HeaderIs DEF Numbers
  <2>3. all.status \in {"kIncomplete", "kTooLong", "kBadTrailer", "kFound"}
    <3>1. header.next \in Nat /\ header.next <= Len(s)
      BY <1>1, <1>6
    <3> HIDE DEF count
    <3> QED BY <2>2, <3>1, ElementsStop DEF Verdicts
  <2> HIDE DEF all, count
  <2>4. CASE all.status = "kIncomplete"
    <3>1. r = Incomplete(cmd)
      BY <2>1, <2>4 DEF Assembled
    <3>2. r.consumed = 0
      BY <3>1, ResultIs DEF Incomplete
    <3> QED BY <3>1, <3>2 DEF Made, Incomplete, r
  <2>5. CASE all.status \in {"kTooLong", "kBadTrailer"}
    <3>1. r = fail("kBulkLength", cmd)
      BY <2>1, <2>5 DEF Assembled
    <3>2. r.consumed = 0
      BY <3>1, ResultIs DEF fail
    <3> QED BY <3>1, <3>2 DEF Made, fail, r
  <2>6. CASE all.status = "kFound"
    <3>1. r = Result("kOk", all.cursor, "none", publish(cmd, count))
      BY <2>1, <2>6 DEF Assembled
    <3>2. r.status = "kOk"
      BY <3>1, ResultIs
    <3> QED BY <3>1, <3>2 DEF Made, r
  <2> QED BY <2>3, <2>4, <2>5, <2>6
<1> QED BY <1>1, <1>3, <1>4, <1>5, <1>6

\* parseCommand's decision: how much it consumes, and that it is the same for
\* every stream that has what the decision rests on.
LEMMA ParsedDecided ==
    ASSUME NEW s \in Seq(Char), NEW u \in Seq(Char)
    PROVE  LET r == Parsed(s) IN
           /\ r.status = "kOk" => r.consumed \in 1 .. Len(s)
           /\ r.status # "kOk" => r.consumed = 0
           /\ r.status # "kIncomplete" /\ Agree(s, u, Extent(s, r)) => Parsed(u) = r
<1> DEFINE q == IF s[1] = "*" THEN parseArray(s, Cleared) ELSE parseInline(s, Cleared)
           r == Parsed(s)
<1>1. CASE s = <<>>
  <2>1. r = Settled(Incomplete(Cleared))
    BY <1>1 DEF Parsed, parseCommand
  <2>2. Made(Incomplete(Cleared))
    BY DEF Made, Incomplete
  <2>3. Incomplete(Cleared).status = "kIncomplete" /\ Incomplete(Cleared).consumed = 0
    BY ResultIs DEF Incomplete
  <2>4. r.status = "kIncomplete" /\ r.consumed = 0
    BY <2>1, <2>2, <2>3, MadeSettled
  <2> HIDE DEF r
  <2>5. /\ r.status = "kOk" => r.consumed \in 1 .. Len(s)
        /\ r.status # "kOk" => r.consumed = 0
        /\ r.status # "kIncomplete" /\ Agree(s, u, Extent(s, r)) => Parsed(u) = r
    BY <2>4
  <2> QED BY <2>5 DEF r
<1>2. CASE s # <<>>
  <2>1. r = Settled(q)
    BY <1>2 DEF Parsed, parseCommand
  <2>2. Made(q) /\ (q.status = "kIncomplete" => q.consumed = 0)
    BY InlineMade, ArrayMade
  <2>3. r.status = q.status /\ r.consumed = q.consumed
    BY <2>1, <2>2, MadeSettled
  <2>4. Len(s) \in Nat /\ Len(u) \in Nat /\ Len(s) >= 1
    BY <1>2, LenProperties, EmptySeq
  <2>5. ASSUME q.status # "kIncomplete"
        PROVE  /\ q.status = "kOk" => q.consumed \in 1 .. Len(s)
               /\ q.status # "kOk" => q.consumed = 0
               /\ Agree(s, u, Extent(s, q)) => /\ Parsed(u) = r
    <3> DEFINE array == parseArray(s, Cleared)
               inline == parseInline(s, Cleared)
    <3>1. /\ q.status = "kOk" => q.consumed \in 1 .. Len(s)
          /\ q.status # "kOk" => q.consumed = 0
      <4>1. CASE s[1] = "*"
        <5>1. q = array
          BY <4>1
        <5> HIDE DEF q
        <5> QED BY <2>5, <5>1, ArrayDecided
      <4>2. CASE s[1] # "*"
        <5>1. q = inline
          BY <4>2
        <5> HIDE DEF q
        <5> QED BY <2>5, <5>1, InlineDecided
      <4> QED BY <4>1, <4>2
    <3>2. ASSUME Agree(s, u, Extent(s, q)) PROVE Parsed(u) = r
      <4>1. Extent(s, q) \in Nat /\ Extent(s, q) >= 1
        <5> HIDE DEF q
        <5>1. CASE q.status = "kOk"
          BY <2>4, <3>1, <5>1 DEF Extent
        <5>2. CASE q.status # "kOk"
          BY <2>4, <5>2 DEF Extent
        <5> QED BY <5>1, <5>2
      <4>2. u # <<>> /\ u[1] = s[1]
        <5> HIDE DEF q
        <5> QED BY <2>4, <3>2, <4>1 DEF Agree
      <4>3. CASE s[1] = "*"
        <5>1. q = array
          BY <4>3
        <5> HIDE DEF q
        <5>2. parseArray(u, Cleared) = q
          BY <2>5, <3>2, <5>1, ArrayDecided
        <5> QED BY <2>1, <4>2, <4>3, <5>2 DEF Parsed, parseCommand
      <4>4. CASE s[1] # "*"
        <5>1. q = inline
          BY <4>4
        <5> HIDE DEF q
        <5>2. parseInline(u, Cleared) = q
          BY <2>5, <3>2, <5>1, InlineDecided
        <5> QED BY <2>1, <4>2, <4>4, <5>2 DEF Parsed, parseCommand
      <4> QED BY <4>3, <4>4
    <3> QED BY <3>1, <3>2
  <2> HIDE DEF q, r
  <2>6. Extent(s, r) = Extent(s, q)
    BY <2>3 DEF Extent
  <2>7. /\ r.status = "kOk" => r.consumed \in 1 .. Len(s)
        /\ r.status # "kOk" => r.consumed = 0
        /\ r.status # "kIncomplete" /\ Agree(s, u, Extent(s, r)) => Parsed(u) = r
    BY <2>2, <2>3, <2>5, <2>6
  <2> QED BY <2>7 DEF r
<1> QED BY <1>1, <1>2

-----------------------------------------------------------------------------
(* The stream.                                                             *)

\* The stream is what was received, and without its last byte it was no request.
CutInv == in \in Seq(Char) /\ (in # <<>> => Parsed(Front(in)).status = "kIncomplete")

\* Where the stream is cut makes no difference, whatever the limits, the bytes a
\* peer sends and their number: a request is recognised with its last byte, until
\* then nothing is consumed, and what follows never changes a decision
\* (parseCommand is run again on everything received).
THEOREM WhereItIsCutDoesNotMatter == StreamSpec => []CutsDoNotMatter
<1>1. StreamInit => CutInv
  BY DEF StreamInit, CutInv
<1>2. CutInv /\ [StreamNext]_in => CutInv'
  <2> SUFFICES ASSUME CutInv, [StreamNext]_in PROVE CutInv'
    OBVIOUS
  <2>1. CASE UNCHANGED in
    BY <2>1 DEF CutInv
  <2>2. ASSUME NEW b \in Char, receive(b) PROVE CutInv'
    <3>1. in \in Seq(Char) /\ in' = Append(in, b)
      BY <2>2 DEF CutInv, receive
    <3>2. in' \in Seq(Char) /\ Front(in') = in
      <4>1. /\ in' \in Seq(Char) /\ Len(in') = Len(in) + 1 /\ Len(in) \in Nat
            /\ \A i \in 1 .. Len(in) : in'[i] = in[i]
        BY <3>1, AppendProperties
      <4>2. Front(in') = SubSeq(in', 1, Len(in))
        BY <4>1 DEF Front
      <4>3. SubSeq(in', 1, Len(in)) = in
        BY <3>1, <4>1
      <4> QED BY <4>1, <4>2, <4>3
    <3>3. Parsed(in).status = "kIncomplete"
      BY <2>2 DEF receive
    <3>4. Parsed(Front(in')).status = "kIncomplete"
      BY <3>2, <3>3
    <3> QED BY <3>2, <3>4 DEF CutInv
  <2> QED BY <2>1, <2>2 DEF StreamNext
<1>3. CutInv => CutsDoNotMatter
  <2> SUFFICES ASSUME CutInv PROVE CutsDoNotMatter
    OBVIOUS
  <2> USE DEF CutInv
  <2>1. PICK r : r = Parsed(in)
    OBVIOUS
  <2>2. /\ r.status = "kOk" => r.consumed \in 1 .. Len(in)
        /\ r.status # "kOk" => r.consumed = 0
        /\ \A u \in Seq(Char) : r.status # "kIncomplete" /\ Agree(in, u, Extent(in, r)) => Parsed(u) = r
    BY <2>1, ParsedDecided
  <2>3. Len(in) \in Nat
    BY LenProperties
  <2>4. ASSUME r.status = "kOk" PROVE r.consumed = Len(in)
    <3>1. SUFFICES ASSUME r.consumed # Len(in) PROVE FALSE
      OBVIOUS
    <3>2. r.consumed \in 1 .. Len(in) - 1 /\ Len(in) >= 1 /\ in # <<>>
      BY <2>2, <2>3, <2>4, <3>1
    <3>3. Front(in) \in Seq(Char) /\ Len(Front(in)) = Len(in) - 1
          /\ \A i \in 1 .. Len(in) - 1 : Front(in)[i] = in[i]
      BY <2>3, <3>2 DEF Front
    <3>4. Agree(in, Front(in), r.consumed)
      BY <2>3, <3>2, <3>3 DEF Agree
    <3>5. Parsed(Front(in)) = r
      BY <2>2, <2>4, <3>3, <3>4 DEF Extent
    <3> QED BY <2>4, <3>2, <3>5
  <2>5. ASSUME r.status # "kIncomplete", NEW more \in BoundedSeq(Char, Lookahead)
        PROVE  Parsed(in \o more) = r
    <3>1. more \in Seq(Char)
      <4>1. PICK n \in 0 .. Lookahead : more \in [1 .. n -> Char]
        BY DEF BoundedSeq, SeqOf
      <4>2. n \in Nat
        BY RespAssumption, <4>1
      <4> QED BY <4>1, <4>2, SeqDef
    <3>2. /\ in \o more \in Seq(Char) /\ Len(in \o more) = Len(in) + Len(more) /\ Len(more) \in Nat
          /\ \A i \in 1 .. Len(in) : (in \o more)[i] = in[i]
      BY <2>3, <3>1, ConcatProperties, LenProperties
    <3>3. Agree(in, in \o more, Len(in))
      BY <2>3, <3>2 DEF Agree
    <3>4. Extent(in, r) = Len(in)
      BY <2>4 DEF Extent
    <3> QED BY <2>2, <2>5, <3>2, <3>3, <3>4
  <2>6. Decided(r)
    <3>1. r.status # "kIncomplete" => Final(r)
      BY <2>5 DEF Final
    <3> QED BY <2>2, <2>4, <3>1 DEF Decided
  <2> QED BY <2>1, <2>6 DEF CutsDoNotMatter
<1> QED BY <1>1, <1>2, <1>3, PTL DEF StreamSpec

-----------------------------------------------------------------------------
(* One Command for a whole batch.                                          *)

IsCommand(cmd) == \E v, n : cmd = [argv |-> v, argc |-> n]
OnlyWords(words) ==
    [argv |-> [i \in 1 .. kMaxArgs |-> IF i <= Len(words) THEN words[i] ELSE <<>>],
     argc |-> Len(words)]

\* publish leaves the words and nothing of what the slots held before.
LEMMA PublishedIs ==
    ASSUME NEW prev, IsCommand(prev), NEW words
    PROVE  publish(Written(prev, words), Len(words)) = OnlyWords(words)
<1>1. PICK v, n : prev = [argv |-> v, argc |-> n]
  BY DEF IsCommand
<1> DEFINE slots == [i \in 1 .. kMaxArgs |-> IF i <= Len(words) THEN words[i] ELSE prev.argv[i]]
           cmd == Written(prev, words)
<1>2. cmd = [prev EXCEPT !.argv = slots]
  BY Zenon DEF Written
<1>3. \A i \in 1 .. kMaxArgs : i <= Len(words) => slots[i] = words[i]
  OBVIOUS
<1> HIDE DEF slots
<1>4. cmd.argv = slots
  BY <1>1, <1>2
<1> HIDE DEF cmd
<1>5. [i \in 1 .. kMaxArgs |-> IF i <= Len(words) THEN cmd.argv[i] ELSE <<>>]
        = [i \in 1 .. kMaxArgs |-> IF i <= Len(words) THEN words[i] ELSE <<>>]
  BY <1>3, <1>4
<1>6. publish(cmd, Len(words)) = OnlyWords(words)
  BY <1>5 DEF publish, OnlyWords
<1> QED BY <1>6 DEF cmd

\* What stops a command leaves nothing of it.
LEMMA StoppedIs ==
    ASSUME NEW cmd
    PROVE  /\ Settled(Incomplete(cmd)) = Incomplete(Cleared)
           /\ \A err : Settled(fail(err, cmd)) = fail(err, Cleared)
BY SettledIs DEF Incomplete, fail

LEMMA InlineFresh ==
    ASSUME NEW s \in Seq(Char), NEW p, NEW q, IsCommand(p), IsCommand(q)
    PROVE  Settled(parseInline(s, p)) = Settled(parseInline(s, q))
<1> DEFINE line == readLine(s, 0, kMaxInlineLength, "kInline")
           words == Words(line.text)
<1>1. line.status \in {"kFound", "kTooLong", "kIncomplete"}
  BY RespAssumption, LenProperties, LineIs
<1>2. \A prev : parseInline(s, prev) = InlineFrom(line, prev)
  BY DEF parseInline
<1> HIDE DEF line
<1>3. CASE line.status = "kIncomplete"
  <2>1. \A prev : InlineFrom(line, prev) = Incomplete(prev)
    BY <1>3 DEF InlineFrom
  <2> QED BY <1>2, <2>1, StoppedIs
<1>4. CASE line.status = "kTooLong"
  <2>1. \A prev : InlineFrom(line, prev) = fail("kInlineLength", prev)
    BY <1>4 DEF InlineFrom
  <2>2. \A prev : parseInline(s, prev) = fail("kInlineLength", prev)
    BY <1>2, <2>1, Zenon
  <2> QED BY <2>2, StoppedIs, Zenon
<1>5. CASE line.status = "kFound"
  <2>1. \A prev : InlineFrom(line, prev) =
            IF Len(words) > kMaxArgs THEN fail("kArgLength", Written(prev, words))
            ELSE Result("kOk", line.next, "none", publish(Written(prev, words), Len(words)))
    BY <1>5 DEF InlineFrom
  <2> HIDE DEF words
  <2>2. CASE Len(words) > kMaxArgs
    <3>1. \A prev : parseInline(s, prev) = fail("kArgLength", Written(prev, words))
      BY <1>2, <2>1, <2>2, Zenon
    <3> QED BY <3>1, StoppedIs, Zenon
  <2>3. CASE ~(Len(words) > kMaxArgs)
    <3>1. publish(Written(p, words), Len(words)) = publish(Written(q, words), Len(words))
      BY PublishedIs
    <3>2. parseInline(s, p) = parseInline(s, q)
      BY <1>2, <2>1, <2>3, <3>1
    <3> QED BY <3>2
  <2> QED BY <2>2, <2>3
<1> QED BY <1>1, <1>3, <1>4, <1>5

LEMMA ArrayFresh ==
    ASSUME NEW s \in Seq(Char), NEW p, NEW q, IsCommand(p), IsCommand(q)
    PROVE  Settled(parseArray(s, p)) = Settled(parseArray(s, q))
<1> DEFINE header == readLine(s, 0, kMaxHeaderLength, "kStrict")
           count == headerValue(header.text, "*", kMaxArgs)
<1>1. /\ header.status \in {"kFound", "kTooLong", "kIncomplete"}
      /\ header.status = "kFound" => header.next \in Nat /\ 0 < header.next /\ header.next <= Len(s)
                                     /\ header.text \in Seq(Char)
  BY RespAssumption, LenProperties, LineIs
<1>2. \A prev : parseArray(s, prev) = ArrayFrom(s, header, prev)
  BY DEF parseArray
<1> HIDE DEF header
<1>3. CASE header.status = "kIncomplete"
  <2>1. \A prev : ArrayFrom(s, header, prev) = Incomplete(prev)
    BY <1>3 DEF ArrayFrom
  <2> QED BY <1>2, <2>1, StoppedIs
<1>4. CASE header.status = "kTooLong" \/ (header.status = "kFound" /\ count = nullopt)
  <2>1. \A prev : ArrayFrom(s, header, prev) = fail("kArgLength", prev)
    BY <1>4 DEF ArrayFrom
  <2>2. \A prev : parseArray(s, prev) = fail("kArgLength", prev)
    BY <1>2, <2>1, Zenon
  <2> QED BY <2>2, StoppedIs, Zenon
<1>5. CASE header.status = "kFound" /\ count # nullopt
  <2> DEFINE all == Elements(s, header.next, count)
  <2>1. \A prev : ArrayFrom(s, header, prev) = Assembled(all, prev, count)
    BY <1>5 DEF ArrayFrom
  <2>2. count \in Nat
    <3>1. kMaxArgs \in Nat
      BY RespAssumption
    <3> QED BY <1>1, <1>5, <3>1, HeaderIs DEF Numbers
  <2>3. /\ all.status \in {"kIncomplete", "kTooLong", "kBadTrailer", "kFound"}
        /\ all.status = "kFound" => Len(all.words) = count
    <3>1. header.next \in Nat /\ header.next <= Len(s)
      BY <1>1, <1>5
    <3> HIDE DEF count
    <3> QED BY <2>2, <3>1, ElementsStop, ElementsFound DEF Verdicts
  <2> HIDE DEF all, count
  <2>4. CASE all.status = "kIncomplete"
    <3>1. \A prev : Assembled(all, prev, count) = Incomplete(Written(prev, all.words))
      BY <2>4 DEF Assembled
    <3>2. \A prev : Settled(parseArray(s, prev)) = Incomplete(Cleared)
      <4>1. \A prev : parseArray(s, prev) = Incomplete(Written(prev, all.words))
        BY <1>2, <2>1, <3>1, Zenon
      <4> QED BY <4>1, StoppedIs, Zenon
    <3> QED BY <3>2
  <2>5. CASE all.status \in {"kTooLong", "kBadTrailer"}
    <3>1. \A prev : Assembled(all, prev, count) = fail("kBulkLength", Written(prev, all.words))
      BY <2>5 DEF Assembled
    <3>2. \A prev : Settled(parseArray(s, prev)) = fail("kBulkLength", Cleared)
      <4>1. \A prev : parseArray(s, prev) = fail("kBulkLength", Written(prev, all.words))
        BY <1>2, <2>1, <3>1, Zenon
      <4> QED BY <4>1, StoppedIs, Zenon
    <3> QED BY <3>2
  <2>6. CASE all.status = "kFound"
    <3>1. \A prev : Assembled(all, prev, count)
                        = Result("kOk", all.cursor, "none", publish(Written(prev, all.words), count))
      BY <2>6 DEF Assembled
    <3>2. publish(Written(p, all.words), count) = publish(Written(q, all.words), count)
      BY <2>3, <2>6, PublishedIs
    <3>3. parseArray(s, p) = parseArray(s, q)
      BY <1>2, <2>1, <3>1, <3>2
    <3> QED BY <3>3
  <2> QED BY <2>3, <2>4, <2>5, <2>6
<1> HIDE DEF count
<1> QED BY <1>1, <1>3, <1>4, <1>5

\* parseCommand's result is the same whatever the Command held before.
LEMMA ParsedFresh ==
    ASSUME NEW s \in Seq(Char), NEW prev, IsCommand(prev)
    PROVE  parseCommand(s, prev) = Parsed(s)
<1>1. IsCommand(Cleared)
  BY DEF IsCommand, Cleared
<1>2. CASE s = <<>>
  BY <1>2, StoppedIs DEF parseCommand, Parsed
<1>3. CASE s # <<>> /\ s[1] = "*"
  BY <1>1, <1>3, ArrayFresh DEF parseCommand, Parsed
<1>4. CASE s # <<>> /\ s[1] # "*"
  BY <1>1, <1>4, InlineFresh DEF parseCommand, Parsed
<1> QED BY <1>2, <1>3, <1>4

\* A Command that is used again keeps nothing of the request before, however that
\* request filled it and wherever the new one stops: parseCommand gives what a
\* fresh Command would have given, for every stream.
THEOREM NothingIsLeftOver == StreamSpec => []NothingLeftOver
<1>1. StreamInit => in \in Seq(Char)
  BY DEF StreamInit
<1>2. in \in Seq(Char) /\ [StreamNext]_in => (in \in Seq(Char))'
  BY AppendProperties DEF StreamNext, receive
<1>3. in \in Seq(Char) => NothingLeftOver
  <2> SUFFICES ASSUME in \in Seq(Char) PROVE NothingLeftOver
    OBVIOUS
  <2>1. \A v, n : parseCommand(in, [argv |-> v, argc |-> n]) = Parsed(in)
    BY ParsedFresh DEF IsCommand
  <2> QED BY <2>1 DEF NothingLeftOver
<1> QED BY <1>1, <1>2, <1>3, PTL DEF StreamSpec

-----------------------------------------------------------------------------
(* Numbers are read as they are written.                                   *)

\* The numerals are ten different bytes.
LEMMA NumeralIs ==
    ASSUME NEW d \in 0 .. 9
    PROVE  /\ Numeral[d + 1] \in Digits /\ DigitOf(Numeral[d + 1]) = d
           /\ Numeral[d + 1] = "0" <=> d = 0
<1>1. DOMAIN Numeral = 1 .. 10 /\ d + 1 \in 1 .. 10
  BY DEF Numeral
<1>2. \A i, j \in 1 .. 10 : Numeral[i] = Numeral[j] => i = j
  BY DEF Numeral
<1>3. Numeral[1] = "0"
  BY DEF Numeral
<1>4. Numeral[d + 1] \in Digits
  BY <1>1 DEF Digits, ToSet
<1>5. PICK e \in 0 .. 9 : e = DigitOf(Numeral[d + 1]) /\ Numeral[e + 1] = Numeral[d + 1]
  BY <1>4, DigitIs
<1>6. e + 1 = d + 1
  BY <1>1, <1>2, <1>5
<1> QED BY <1>1, <1>2, <1>3, <1>4, <1>5, <1>6

\* The last digit of a number, and the rest.
LEMMA LastDigit ==
    ASSUME NEW n \in Nat
    PROVE  /\ n \div 10 \in Nat /\ n % 10 \in 0 .. 9 /\ n = (n \div 10) * 10 + (n % 10)
           /\ n >= 10 => n \div 10 >= 1 /\ n \div 10 < n
OBVIOUS

LEMMA PutDigit ==
    ASSUME NEW v \in Nat, NEW d \in 0 .. 9
    PROVE  (v * 10 + d) \div 10 = v /\ (v * 10 + d) % 10 = d /\ v * 10 + d \in Nat
OBVIOUS

\* to_chars, one digit more for ten times the value.
LEMMA ToCharsSteps ==
    /\ \A n \in Nat : n < 10 => to_chars[n] = <<Numeral[n + 1]>>
    /\ \A n \in Nat : n >= 10 => to_chars[n] = Append(to_chars[n \div 10], Numeral[(n % 10) + 1])
    /\ \A n \in Nat : to_chars[n] \in Seq(Digits)
<1> DEFINE T == Seq(Digits)
           Base == 0 .. 9
           base == [n \in Nat |-> <<Numeral[n + 1]>>]
           step == [x \in Nat \X T |-> Append(x[2], Numeral[(x[1] % 10) + 1])]
           p == [n \in Nat |-> n \div 10]
           rank == [n \in Nat |-> n]
<1>1. /\ rank \in [Nat -> Nat] /\ T # {}
      /\ \A n \in Nat : n \notin Base => p[n] \in Nat /\ rank[p[n]] < rank[n]
  <2>1. <<>> \in T
    BY EmptySeq
  <2>2. rank \in [Nat -> Nat]
    OBVIOUS
  <2>3. ASSUME NEW n \in Nat, n \notin Base PROVE p[n] \in Nat /\ rank[p[n]] < rank[n]
    <3>1. p[n] = n \div 10 /\ n >= 10
      BY <2>3
    <3>2. n \div 10 \in Nat /\ n \div 10 < n
      BY <3>1, LastDigit
    <3> QED BY <3>1, <3>2
  <2> QED BY <2>1, <2>2, <2>3
<1>2. \A n \in Nat : n \in Base => base[n] \in T
  <2> SUFFICES ASSUME NEW n \in Nat, n \in Base PROVE base[n] \in T
    OBVIOUS
  <2>1. Numeral[n + 1] \in Digits
    BY NumeralIs
  <2>2. <<Numeral[n + 1]>> \in T
    BY <2>1
  <2> QED BY <2>2
<1>3. \A n \in Nat, x \in T : step[<<n, x>>] = Append(x, Numeral[(n % 10) + 1]) /\ step[<<n, x>>] \in T
  <2> SUFFICES ASSUME NEW n \in Nat, NEW x \in T
               PROVE  step[<<n, x>>] = Append(x, Numeral[(n % 10) + 1]) /\ step[<<n, x>>] \in T
    OBVIOUS
  <2>1. Numeral[(n % 10) + 1] \in Digits
    BY LastDigit, NumeralIs
  <2>2. step[<<n, x>>] = Append(x, Numeral[(n % 10) + 1])
    OBVIOUS
  <2>3. Append(x, Numeral[(n % 10) + 1]) \in T
    BY <2>1, AppendProperties
  <2> QED BY <2>2, <2>3
<1>4. \A n \in Nat : /\ (n \in Base <=> n < 10) /\ base[n] = <<Numeral[n + 1]>>
                     /\ p[n] = n \div 10 /\ p[n] \in Nat
  BY LastDigit
<1> HIDE DEF T, Base, base, step, p, rank
<1>5. Descends(Nat, T, Base, base, step, p, rank)
  BY <1>1, <1>2, <1>3 DEF Descends
<1>6. PICK f \in [Nat -> T] : Solution(f, Nat, Base, base, step, p)
  BY <1>5, RecursionExists
<1> DEFINE Body(g, n) == IF n < 10 THEN <<Numeral[n + 1]>>
                         ELSE Append(g[n \div 10], Numeral[(n % 10) + 1])
<1>7. ASSUME NEW n \in Nat PROVE f[n] = Body(f, n)
  <2>1. f[n] = (IF n \in Base THEN base[n] ELSE step[<<n, f[p[n]]>>]) /\ f[p[n]] \in T
    BY <1>4, <1>6 DEF Solution
  <2> QED BY <1>3, <1>4, <2>1
<1>8. to_chars = CHOOSE g : g = [n \in Nat |-> Body(g, n)]
  BY DEF to_chars
<1>9. \E g : g = [n \in Nat |-> Body(g, n)]
  <2> HIDE DEF Body
  <2>1. f = [n \in Nat |-> Body(f, n)]
    BY <1>6, <1>7
  <2> QED BY <2>1, Zenon
<1> HIDE DEF Body
<1>10. to_chars = [n \in Nat |-> Body(to_chars, n)]
  BY <1>8, <1>9, Zenon
<1>11. \A n \in Nat : to_chars[n] = Body(to_chars, n)
  BY <1>10
<1> DEFINE Bad == {n \in Nat : to_chars[n] \notin T}
<1>12. ASSUME Bad # {} PROVE FALSE
  <2>1. PICK n \in Bad : \A m \in Bad : n <= m
    <3>1. Bad \subseteq Nat
      OBVIOUS
    <3> HIDE DEF Bad
    <3> QED BY <1>12, <3>1, LeastExists
  <2>2. n \in Nat
    OBVIOUS
  <2>3. n >= 10
    <3>1. ASSUME n < 10 PROVE FALSE
      <4>1. to_chars[n] = base[n] /\ base[n] \in T
        BY <1>2, <1>4, <1>11, <2>2, <3>1 DEF Body
      <4> QED BY <2>1, <4>1
    <3> QED BY <2>2, <3>1
  <2>4. n \div 10 \in Nat /\ n \div 10 < n
    BY <2>2, <2>3, LastDigit
  <2>5. to_chars[n \div 10] \in T
    BY <2>1, <2>2, <2>4
  <2>6. to_chars[n] = Append(to_chars[n \div 10], Numeral[(n % 10) + 1])
    <3>1. ~(n < 10) /\ to_chars[n] = Body(to_chars, n)
      BY <1>11, <2>2, <2>3
    <3> QED BY <3>1, Zenon DEF Body
  <2>7. to_chars[n] \in T
    BY <1>3, <2>2, <2>5, <2>6
  <2> QED BY <2>1, <2>7
<1>13. \A n \in Nat : to_chars[n] \in T
  BY <1>12
<1>14. \A n \in Nat : n < 10 => to_chars[n] = <<Numeral[n + 1]>>
  BY <1>11, Zenon DEF Body
<1>15. \A n \in Nat : ~(n < 10) => to_chars[n] = Append(to_chars[n \div 10], Numeral[(n % 10) + 1])
  BY <1>11, Zenon DEF Body
<1>16. \A n \in Nat : n >= 10 => ~(n < 10)
  OBVIOUS
<1> QED BY <1>13, <1>14, <1>15, <1>16, Zenon DEF T

\* What to_chars writes: digits, and no zero in front of others.
LEMMA ToCharsIs ==
    ASSUME NEW n \in Nat
    PROVE  /\ to_chars[n] \in Seq(Digits) /\ Len(to_chars[n]) \in Nat \ {0}
           /\ to_chars[0] = <<"0">>
           /\ n # 0 => to_chars[n][1] \in Digits \ {"0"}
<1>1. to_chars[0] = <<"0">>
  <2>1. to_chars[0] = <<Numeral[0 + 1]>>
    BY ToCharsSteps
  <2>2. Numeral[0 + 1] = "0"
    BY DEF Numeral
  <2> QED BY <2>1, <2>2
<1> DEFINE Good(m) == Len(to_chars[m]) \in Nat \ {0} /\ (m # 0 => to_chars[m][1] \in Digits \ {"0"})
           Bad == {m \in Nat : ~Good(m)}
<1>2. ASSUME Bad # {} PROVE FALSE
  <2>1. PICK m \in Bad : \A k \in Bad : m <= k
    <3>1. Bad \subseteq Nat
      OBVIOUS
    <3> HIDE DEF Bad
    <3> QED BY <1>2, <3>1, LeastExists
  <2>2. m \in Nat /\ ~Good(m)
    OBVIOUS
  <2>3. CASE m < 10
    <3>1. m \in 0 .. 9 /\ to_chars[m] = <<Numeral[m + 1]>>
      BY <2>2, <2>3, ToCharsSteps, SMTT(30)
    <3>2. Numeral[m + 1] \in Digits /\ (m # 0 => Numeral[m + 1] # "0")
      BY <3>1, NumeralIs
    <3>3. Len(to_chars[m]) = 1 /\ to_chars[m][1] = Numeral[m + 1]
      BY <3>1
    <3> QED BY <2>2, <3>2, <3>3
  <2>4. CASE m >= 10
    <3> DEFINE q == m \div 10
               s == to_chars[q]
    <3>1. q \in Nat /\ q >= 1 /\ q < m /\ m % 10 \in 0 .. 9
      BY <2>2, <2>4, LastDigit
    <3>2. q \notin Bad
      BY <2>1, <2>2, <3>1
    <3>3. Good(q)
      BY <3>1, <3>2
    <3>4. to_chars[m] = Append(s, Numeral[(m % 10) + 1]) /\ s \in Seq(Digits)
      BY <2>2, <2>4, <3>1, ToCharsSteps
    <3>5. Numeral[(m % 10) + 1] \in Digits
      BY <3>1, NumeralIs
    <3>6. Len(to_chars[m]) = Len(s) + 1 /\ (Len(s) >= 1 => to_chars[m][1] = s[1])
      BY <3>4, <3>5, AppendProperties
    <3> HIDE DEF q
    <3>7. Len(s) \in Nat \ {0} /\ s[1] \in Digits \ {"0"}
      BY <3>1, <3>3
    <3> HIDE DEF s
    <3> QED BY <2>2, <3>6, <3>7
  <2> QED BY <2>2, <2>3, <2>4
<1>3. Good(n)
  BY <1>2
<1> QED BY <1>1, <1>3, ToCharsSteps

\* A larger number has as many digits or more.
LEMMA ToCharsLength ==
    ASSUME NEW n \in Nat, NEW k \in 0 .. n
    PROVE  Len(to_chars[k]) <= Len(to_chars[n])
<1> DEFINE Good(m) == \A j \in 0 .. m : Len(to_chars[j]) <= Len(to_chars[m])
           Bad == {m \in Nat : ~Good(m)}
<1>1. \A m \in Nat : Len(to_chars[m]) \in Nat \ {0}
  BY ToCharsIs
<1>2. ASSUME NEW m \in Nat, m < 10 PROVE Len(to_chars[m]) = 1
  <2>1. PICK c : c = Numeral[m + 1]
    OBVIOUS
  <2>2. to_chars[m] = <<c>>
    BY <1>2, <2>1, ToCharsSteps
  <2> QED BY <2>2
<1>3. ASSUME NEW m \in Nat, m >= 10
      PROVE  m \div 10 \in Nat /\ m \div 10 < m /\ Len(to_chars[m]) = Len(to_chars[m \div 10]) + 1
  <2> DEFINE s == to_chars[m \div 10]
  <2>1. m \div 10 \in Nat /\ m \div 10 < m /\ m % 10 \in 0 .. 9
    BY <1>3, LastDigit
  <2>2. to_chars[m] = Append(s, Numeral[(m % 10) + 1]) /\ s \in Seq(Digits)
    BY <1>3, <2>1, ToCharsSteps
  <2>3. Numeral[(m % 10) + 1] \in Digits
    BY <2>1, NumeralIs
  <2> HIDE DEF s
  <2>4. Len(to_chars[m]) = Len(s) + 1
    BY <2>2, <2>3, AppendProperties
  <2> QED BY <2>1, <2>4 DEF s
<1>4. ASSUME Bad # {} PROVE FALSE
  <2>1. PICK m \in Bad : \A i \in Bad : m <= i
    <3>1. Bad \subseteq Nat
      OBVIOUS
    <3> HIDE DEF Bad
    <3> QED BY <1>4, <3>1, LeastExists
  <2>2. m \in Nat
    OBVIOUS
  <2>3. PICK j \in 0 .. m : ~(Len(to_chars[j]) <= Len(to_chars[m]))
    OBVIOUS
  <2>4. j >= 10 /\ m >= 10 /\ j \in Nat
    <3>1. j \in Nat /\ j <= m
      BY <2>2, <2>3
    <3> DEFINE a == Len(to_chars[j])
               b == Len(to_chars[m])
    <3>2. a \in Nat \ {0} /\ b \in Nat \ {0} /\ ~(a <= b) /\ (j < 10 => a = 1)
      BY <1>1, <1>2, <2>2, <2>3, <3>1
    <3> HIDE DEF a, b, Bad
    <3> QED BY <2>2, <3>1, <3>2
  <2>5. /\ j \div 10 \in Nat /\ Len(to_chars[j]) = Len(to_chars[j \div 10]) + 1
        /\ m \div 10 \in Nat /\ Len(to_chars[m]) = Len(to_chars[m \div 10]) + 1
        /\ m \div 10 < m
    BY <1>3, <2>2, <2>4
  <2>6. j \div 10 \in 0 .. m \div 10
    BY <2>2, <2>3
  <2>7. m \div 10 \notin Bad
    BY <2>1, <2>2, <2>5
  <2>8. Len(to_chars[j \div 10]) <= Len(to_chars[m \div 10])
    BY <2>5, <2>6, <2>7
  <2> QED BY <1>1, <2>3, <2>5, <2>8
<1> QED BY <1>4

\* One digit more, as long as the value fits.
LEMMA DigitFits ==
    ASSUME NEW v \in Nat, NEW c \in Digits
    PROVE  /\ v * 10 + DigitOf(c) <= SizeMax => WithDigit(v, c) = v * 10 + DigitOf(c)
           /\ WithDigit(v, c) # nullopt => WithDigit(v, c) = v * 10 + DigitOf(c)
           /\ WithDigit(nullopt, c) = nullopt
<1> DEFINE d == DigitOf(c)
<1>1. d \in 0 .. 9 /\ SizeMax \in Nat /\ v # nullopt
  BY DigitIs, RespAssumption DEF nullopt
<1>2. WithDigit(v, c) = IF v > (SizeMax - d) \div 10 THEN nullopt ELSE v * 10 + d
  BY <1>1 DEF WithDigit
<1> HIDE DEF d
<1>3. v * 10 + d <= SizeMax => ~(v > (SizeMax - d) \div 10)
  BY <1>1
<1>4. WithDigit(nullopt, c) = nullopt
  BY DEF WithDigit
<1> QED BY <1>2, <1>3, <1>4 DEF d

\* Reading a text with one byte more.
LEMMA ReadsOneMore ==
    ASSUME NEW S, NEW s \in Seq(S), NEW c \in S, NEW v, Reads(v, Append(s, c))
    PROVE  /\ Reads([i \in 0 .. Len(s) |-> v[i]], s)
           /\ v[Len(s) + 1] = WithDigit(v[Len(s)], c)
<1> DEFINE t == Append(s, c)
           n == Len(s)
           w == [i \in 0 .. n |-> v[i]]
<1>1. n \in Nat /\ Len(t) = n + 1 /\ t[n + 1] = c /\ \A i \in 1 .. n : t[i] = s[i]
  BY AppendProperties, LenProperties
<1>2. /\ v \in [0 .. Len(t) -> Numbers] /\ v[0] = 0
      /\ \A i \in 1 .. Len(t) : v[i] = WithDigit(v[i - 1], t[i])
  BY DEF Reads
<1> HIDE DEF t, n
<1>3. /\ w \in [0 .. n -> Numbers] /\ w[0] = 0
      /\ \A i \in 0 .. n : w[i] = v[i]
  BY <1>1, <1>2
<1>4. \A i \in 1 .. n : w[i] = WithDigit(w[i - 1], s[i])
  <2> SUFFICES ASSUME NEW i \in 1 .. n PROVE w[i] = WithDigit(w[i - 1], s[i])
    OBVIOUS
  <2>1. i \in 0 .. n /\ i - 1 \in 0 .. n /\ i \in 1 .. Len(t)
    BY <1>1
  <2> QED BY <1>1, <1>2, <1>3, <2>1
<1>5. v[n + 1] = WithDigit(v[n], c)
  <2>1. n + 1 \in 1 .. Len(t) /\ (n + 1) - 1 = n
    BY <1>1
  <2> QED BY <1>1, <1>2, <2>1
<1> QED BY <1>3, <1>4, <1>5 DEF Reads, n

\* readInt reads every number that fits as to_chars writes it.
LEMMA ReadsWhatIsWritten ==
    ASSUME NEW n \in 0 .. SizeMax
    PROVE  readInt(to_chars[n]) = n
<1>1. SizeMax \in Nat /\ n \in Nat
  BY RespAssumption
<1> DEFINE Good(m) == \A v : Reads(v, to_chars[m]) => v[Len(to_chars[m])] = m
           Bad == {m \in 0 .. SizeMax : ~Good(m)}
<1>2. ASSUME Bad # {} PROVE FALSE
  <2>1. PICK m \in Bad : \A k \in Bad : m <= k
    <3>1. Bad \subseteq Nat
      OBVIOUS
    <3> HIDE DEF Bad
    <3> QED BY <1>2, <3>1, LeastExists
  <2>2. m \in 0 .. SizeMax /\ m \in Nat
    OBVIOUS
  <2>3. PICK v : Reads(v, to_chars[m]) /\ ~(v[Len(to_chars[m])] = m)
    OBVIOUS
  <2>4. CASE m < 10
    <3>1. PICK c : c = Numeral[m + 1]
      OBVIOUS
    <3>2. to_chars[m] = <<c>> /\ c \in Digits /\ DigitOf(c) = m
      <4>1. m \in 0 .. 9
        BY <2>2, <2>4
      <4>2. to_chars[m] = <<Numeral[m + 1]>>
        BY <2>2, <2>4, ToCharsSteps
      <4>3. c \in Digits /\ DigitOf(c) = m
        BY <3>1, <4>1, NumeralIs
      <4> QED BY <3>1, <4>2, <4>3
    <3>3. Len(to_chars[m]) = 1 /\ to_chars[m][1] = c
      BY <3>2
    <3>4. v[0] = 0 /\ v[1] = WithDigit(v[0], c)
      BY <2>3, <3>3 DEF Reads
    <3>5. WithDigit(0, c) = 0 * 10 + m
      BY <1>1, <2>2, <3>2, DigitFits
    <3> QED BY <2>2, <2>3, <3>3, <3>4, <3>5
  <2>5. CASE m >= 10
    <3> DEFINE q == m \div 10
               d == m % 10
               s == to_chars[q]
    <3>1. q \in Nat /\ q < m /\ d \in 0 .. 9 /\ m = q * 10 + d
      BY <2>2, <2>5, LastDigit
    <3>2. q \in 0 .. SizeMax /\ q \notin Bad
      BY <1>1, <2>1, <2>2, <3>1
    <3>3. PICK c : c = Numeral[d + 1]
      OBVIOUS
    <3>4. to_chars[m] = Append(s, c) /\ s \in Seq(Digits)
      BY <2>2, <2>5, <3>1, <3>3, ToCharsSteps
    <3> HIDE DEF d
    <3>5. c \in Digits /\ DigitOf(c) = d
      BY <3>1, <3>3, NumeralIs
    <3>6. Good(q)
      BY <3>2
    <3> HIDE DEF q
    <3> DEFINE w == [i \in 0 .. Len(s) |-> v[i]]
    <3>7. Reads(w, s) /\ v[Len(s) + 1] = WithDigit(v[Len(s)], c)
      BY <2>3, <3>4, <3>5, ReadsOneMore
    <3>8. w[Len(s)] = q
      <4> HIDE DEF w
      <4> QED BY <3>6, <3>7
    <3>9. Len(s) \in Nat /\ Len(to_chars[m]) = Len(s) + 1
      BY <3>4, <3>5, AppendProperties, LenProperties
    <3>10. v[Len(s)] = q
      BY <3>8, <3>9
    <3>11. WithDigit(q, c) = m
      <4>1. q * 10 + DigitOf(c) = m /\ m <= SizeMax
        BY <1>1, <2>2, <3>1, <3>5
      <4> QED BY <3>1, <3>5, <4>1, DigitFits
    <3> QED BY <2>3, <3>7, <3>9, <3>10, <3>11
  <2> QED BY <2>2, <2>4, <2>5
<1>3. Good(n)
  BY <1>2
<1> HIDE DEF Good
<1>4. /\ to_chars[n] \in Seq(Digits) /\ Len(to_chars[n]) \in Nat \ {0}
      /\ to_chars[0] = <<"0">> /\ (n # 0 => to_chars[n][1] \in Digits \ {"0"})
  BY <1>1, ToCharsIs
<1>5. to_chars[n] # <<>>
  BY <1>4
<1>6. PICK v : /\ Reads(v, to_chars[n])
               /\ readInt(to_chars[n]) = IF \/ to_chars[n] = <<>>
                                            \/ to_chars[n] # <<"0">> /\ to_chars[n][1] \notin Digits \ {"0"}
                                         THEN nullopt ELSE v[Len(to_chars[n])]
  BY <1>4, ReadIntSteps
<1>7. readInt(to_chars[n]) = v[Len(to_chars[n])]
  <2>1. to_chars[n] = <<"0">> \/ to_chars[n][1] \in Digits \ {"0"}
    BY <1>4
  <2> QED BY <1>5, <1>6, <2>1, Zenon
<1> QED BY <1>3, <1>6, <1>7 DEF Good

\* And reads nothing else: a number has one spelling.
LEMMA WritesWhatIsRead ==
    ASSUME NEW S, NEW s \in Seq(S), readInt(s) # nullopt
    PROVE  s = to_chars[readInt(s)] /\ readInt(s) \in Nat
<1>1. Len(s) \in Nat
  BY LenProperties
<1>2. PICK v : /\ Reads(v, s)
               /\ readInt(s) = IF s = <<>> \/ (s # <<"0">> /\ s[1] \notin Digits \ {"0"})
                               THEN nullopt ELSE v[Len(s)]
  BY <1>1, ReadIntSteps
<1>3. s # <<>> /\ (s = <<"0">> \/ s[1] \in Digits \ {"0"}) /\ readInt(s) = v[Len(s)]
  BY <1>2, Zenon
<1>4. /\ v[0] = 0 /\ \A i \in 1 .. Len(s) : v[i] = WithDigit(v[i - 1], s[i])
      /\ \A i \in 0 .. Len(s) : v[i] \in Numbers
  BY <1>2 DEF Reads
<1>5. CASE s = <<"0">>
  <2>1. Len(s) = 1 /\ s[1] = "0"
    BY <1>5
  <2>2. v[1] = WithDigit(0, "0")
    BY <1>4, <2>1
  <2>3. "0" \in Digits /\ DigitOf("0") = 0
    <3>1. Numeral[0 + 1] = "0"
      BY DEF Numeral
    <3> QED BY <3>1, NumeralIs
  <2>4. WithDigit(0, "0") = 0 * 10 + 0
    BY <1>3, <2>1, <2>2, <2>3, DigitFits
  <2> QED BY <1>3, <1>5, <2>1, <2>2, <2>4, ToCharsIs
<1>6. CASE s[1] \in Digits \ {"0"}
  <2>1. Len(s) >= 1
    BY <1>1, <1>3, EmptySeq
  \* A prefix that was read is what to_chars writes for its value.
  <2> DEFINE Good(i) == v[i] # nullopt => v[i] \in Nat /\ v[i] >= 1 /\ to_chars[v[i]] = SubSeq(s, 1, i)
             Bad == {i \in 1 .. Len(s) : ~Good(i)}
  <2>2. \A i \in 1 .. Len(s) : v[i] # nullopt => /\ v[i - 1] # nullopt /\ s[i] \in Digits
                                                 /\ v[i - 1] \in Nat
                                                 /\ v[i] = v[i - 1] * 10 + DigitOf(s[i])
    <3> SUFFICES ASSUME NEW i \in 1 .. Len(s), v[i] # nullopt
                 PROVE  /\ v[i - 1] # nullopt /\ s[i] \in Digits /\ v[i - 1] \in Nat
                        /\ v[i] = v[i - 1] * 10 + DigitOf(s[i])
      OBVIOUS
    <3>1. v[i] = WithDigit(v[i - 1], s[i]) /\ v[i - 1] \in Numbers
      BY <1>4
    <3>2. v[i - 1] # nullopt /\ s[i] \in Digits
      BY <3>1 DEF WithDigit
    <3>3. v[i - 1] \in Nat
      BY <3>1, <3>2 DEF Numbers
    <3> QED BY <3>1, <3>2, <3>3, DigitFits
  <2>3. ASSUME Bad # {} PROVE FALSE
    <3>1. PICK i \in Bad : \A j \in Bad : i <= j
      <4>1. Bad \subseteq Nat
        OBVIOUS
      <4> HIDE DEF Bad
      <4> QED BY <2>3, <4>1, LeastExists
    <3>2. i \in 1 .. Len(s) /\ ~Good(i) /\ v[i] # nullopt
      OBVIOUS
    <3> DEFINE u == v[i - 1]
               d == DigitOf(s[i])
    <3>3. u \in Nat /\ s[i] \in Digits /\ v[i] = u * 10 + d
      BY <2>2, <3>2
    <3>4. d \in 0 .. 9 /\ Numeral[d + 1] = s[i]
      BY <3>3, DigitIs
    <3>5. v[i] \in Nat /\ v[i] \div 10 = u /\ v[i] % 10 = d
      BY <3>3, <3>4, PutDigit
    <3>6. CASE i = 1
      <4>1. u = 0
        BY <1>4, <3>6
      <4>2. v[i] = d
        BY <3>3, <3>4, <4>1
      <4>3. d # 0
        <5>1. s[i] # "0"
          BY <1>6, <3>6
        <5> QED BY <3>4, <5>1, NumeralIs
      <4>4. to_chars[v[i]] = <<s[i]>>
        <5>1. to_chars[d] = <<Numeral[d + 1]>>
          <6>1. d \in Nat /\ d < 10
            BY <3>4
          <6> HIDE DEF d
          <6> QED BY <6>1, ToCharsSteps
        <5> QED BY <3>4, <4>2, <5>1
      <4>5. SubSeq(s, 1, 1) = <<s[1]>>
        <5>1. SubSeq(s, 1, 1) = SubSeq(s, 1, 1 - 1) \o <<s[1]>>
          BY <1>1, <2>1, SubSeqRecursiveSecond
        <5>2. SubSeq(s, 1, 1 - 1) = <<>>
          BY SubSeqEmpty
        <5>3. <<s[1]>> \in Seq({s[1]})
          OBVIOUS
        <5> QED BY <5>1, <5>2, <5>3, ConcatEmptySeq
      <4> QED BY <3>2, <3>4, <3>5, <3>6, <4>2, <4>3, <4>4, <4>5
    <3>7. CASE i # 1
      <4>1. i - 1 \in 1 .. Len(s) /\ i - 1 \notin Bad
        BY <1>1, <3>1, <3>2, <3>7
      <4>2. u # nullopt /\ u >= 1 /\ to_chars[u] = SubSeq(s, 1, i - 1)
        BY <2>2, <3>2, <4>1
      <4>3. v[i] >= 10
        BY <3>3, <3>4, <4>2
      <4>4. to_chars[v[i]] = Append(to_chars[u], s[i])
        <5>1. to_chars[v[i]] = Append(to_chars[v[i] \div 10], Numeral[(v[i] % 10) + 1])
          BY <3>5, <4>3, ToCharsSteps
        <5> QED BY <3>4, <3>5, <5>1
      <4>5. SubSeq(s, 1, i) = Append(SubSeq(s, 1, i - 1), s[i])
        BY <1>1, <3>2, <4>1
      <4> QED BY <3>2, <3>5, <4>2, <4>3, <4>4, <4>5
    <3> QED BY <3>6, <3>7
  <2>4. Good(Len(s))
    BY <1>1, <2>1, <2>3
  <2> HIDE DEF Good
  <2>5. Len(s) \in 1 .. Len(s) /\ SubSeq(s, 1, Len(s)) = s
    BY <1>1, <2>1, SubSeqFull
  <2> QED BY <1>3, <2>4, <2>5 DEF Good
<1> QED BY <1>3, <1>5, <1>6

-----------------------------------------------------------------------------
(* What stands in a stream.                                                *)

\* s has the bytes w after its first at.
Holds(s, at, w) == at + Len(w) <= Len(s) /\ \A i \in 1 .. Len(w) : s[at + i] = w[i]

LEMMA HoldsBoth ==
    ASSUME NEW S, NEW a \in Seq(S), NEW b \in Seq(S), NEW s, Len(s) \in Nat, NEW at \in Nat
    PROVE  Holds(s, at, a \o b) <=> Holds(s, at, a) /\ Holds(s, at + Len(a), b)
<1> DEFINE m == Len(a)
           n == Len(b)
           w == a \o b
<1>1. m \in Nat /\ n \in Nat
  BY LenProperties
<1>2. Len(w) = m + n /\ \A i \in 1 .. m + n : w[i] = IF i <= m THEN a[i] ELSE b[i - m]
  BY ConcatProperties
<1> HIDE DEF m, n, w
<1>3. ASSUME Holds(s, at, w) PROVE Holds(s, at, a) /\ Holds(s, at + m, b)
  <2>1. at + (m + n) <= Len(s) /\ \A i \in 1 .. m + n : s[at + i] = w[i]
    BY <1>2, <1>3 DEF Holds
  <2>2. \A i \in 1 .. m : s[at + i] = a[i]
    BY <1>1, <1>2, <2>1
  <2>3. ASSUME NEW i \in 1 .. n PROVE s[(at + m) + i] = b[i]
    <3>1. m + i \in 1 .. m + n /\ ~(m + i <= m) /\ (m + i) - m = i /\ at + (m + i) = (at + m) + i
      BY <1>1
    <3> QED BY <1>2, <2>1, <3>1
  <2> QED BY <1>1, <2>1, <2>2, <2>3 DEF Holds, m, n
<1>4. ASSUME Holds(s, at, a), Holds(s, at + m, b) PROVE Holds(s, at, w)
  <2>1. /\ \A i \in 1 .. m : s[at + i] = a[i]
        /\ (at + m) + n <= Len(s) /\ \A i \in 1 .. n : s[(at + m) + i] = b[i]
    BY <1>4 DEF Holds, m, n
  <2>2. ASSUME NEW i \in 1 .. m + n PROVE s[at + i] = w[i]
    <3>1. CASE i <= m
      <4>1. i \in 1 .. m
        BY <1>1, <3>1
      <4>2. w[i] = a[i]
        BY <1>2, <3>1
      <4> QED BY <2>1, <4>1, <4>2
    <3>2. CASE ~(i <= m)
      <4>1. i - m \in 1 .. n /\ (at + m) + (i - m) = at + i
        BY <1>1, <3>2
      <4> QED BY <1>2, <2>1, <3>2, <4>1
    <3> QED BY <3>1, <3>2
  <2> QED BY <1>1, <1>2, <2>1, <2>2 DEF Holds
<1> QED BY <1>3, <1>4 DEF m, w

LEMMA HoldsBytes ==
    ASSUME NEW s \in Seq(Char), NEW S, NEW w \in Seq(S), NEW at \in Nat
    PROVE  /\ Holds(s, at, w) => Bytes(s, at, Len(w)) = w
           /\ \A len \in Nat : at + len <= Len(s) => Holds(s, at, Bytes(s, at, len))
<1>1. Len(w) \in Nat /\ Len(s) \in Nat
  BY LenProperties
<1>2. ASSUME Holds(s, at, w) PROVE Bytes(s, at, Len(w)) = w
  <2> DEFINE p == Bytes(s, at, Len(w))
             T == S \cup Char
  <2>1. p \in Seq(Char) /\ Len(p) = Len(w) /\ \A i \in 1 .. Len(w) : p[i] = s[at + i]
    BY <1>1, <1>2, BytesAre DEF Holds
  <2>2. \A i \in 1 .. Len(p) : p[i] = w[i]
    BY <1>2, <2>1 DEF Holds
  <2> HIDE DEF p
  <2>3. p \in Seq(T) /\ w \in Seq(T)
    BY <2>1, SeqMonotonic
  <2> HIDE DEF T
  <2> QED BY <2>1, <2>2, <2>3, SeqEqual DEF p
<1>3. ASSUME NEW len \in Nat, at + len <= Len(s) PROVE Holds(s, at, Bytes(s, at, len))
  <2>1. Len(Bytes(s, at, len)) = len /\ \A i \in 1 .. len : Bytes(s, at, len)[i] = s[at + i]
    BY <1>3, BytesAre
  <2> QED BY <1>3, <2>1 DEF Holds
<1> QED BY <1>2, <1>3

\* A stream that holds w and nothing more is w.
LEMMA HoldsAll ==
    ASSUME NEW s \in Seq(Char), NEW S, NEW w \in Seq(S), Holds(s, 0, w), Len(w) = Len(s)
    PROVE  s = w
<1>1. Bytes(s, 0, Len(w)) = w
  BY HoldsBytes
<1>2. Bytes(s, 0, Len(w)) = SubSeq(s, 1, Len(s))
  <2>1. Len(s) \in Nat
    BY LenProperties
  <2>2. 0 + 1 = 1 /\ 0 + Len(w) = Len(s)
    BY <2>1
  <2> QED BY <2>2 DEF Bytes
<1> QED BY <1>1, <1>2, SubSeqFull

LEMMA HoldsOne ==
    ASSUME NEW s, NEW at \in Nat, Len(s) \in Nat, NEW c
    PROVE  Holds(s, at, <<c>>) <=> at < Len(s) /\ s[at + 1] = c
<1>1. Len(<<c>>) = 1 /\ <<c>>[1] = c
  OBVIOUS
<1> QED BY <1>1 DEF Holds

LEMMA HoldsCRLF ==
    ASSUME NEW s, NEW at \in Nat, Len(s) \in Nat
    PROVE  Holds(s, at, CRLF) <=> at + 2 <= Len(s) /\ s[at + 1] = CR /\ s[at + 2] = LF
<1>1. Len(CRLF) = 2 /\ CRLF[1] = CR /\ CRLF[2] = LF
  BY DEF CRLF
<1> HIDE DEF CRLF
<1> QED BY <1>1 DEF Holds

\* A line of the array form is its text and CRLF.
LEMMA LineHeld ==
    ASSUME NEW s \in Seq(Char), NEW at \in Nat, NEW m \in Nat,
           NEW r, r = readLine(s, at, m, "kStrict"), r.status = "kFound"
    PROVE  /\ r.text \in Seq(Char) /\ r.next = at + Len(r.text) + 2
           /\ Holds(s, at, r.text) /\ Holds(s, at + Len(r.text), CRLF)
<1> DEFINE E == LineEnds(s, at, m, "kStrict")
<1>1. PICK lf : lf = Min(E)
  OBVIOUS
<1>2. PICK len : len = IF AfterCR(s, at, lf) THEN lf - 2 ELSE lf - 1
  OBVIOUS
<1>3. /\ at < Len(s) /\ E # {} /\ len \in Nat /\ lf \in 1 .. Window(s, at, m)
      /\ r.next = at + lf /\ r.text = Bytes(s, at, len) /\ r.next <= Len(s)
  BY <1>1, <1>2, LineIs
<1>4. Len(s) \in Nat /\ Window(s, at, m) \in Nat
  BY <1>3, LenProperties DEF Window
<1>5. lf \in E
  <2>1. E \subseteq Nat
    BY <1>4 DEF LineEnds
  <2> HIDE DEF E
  <2> QED BY <1>1, <1>3, <2>1, MinIsLeast
<1>6. s[at + lf] = LF /\ lf > 1 /\ s[at + lf - 1] = CR
  BY <1>5 DEF LineEnds, EndsLine
<1>7. len = lf - 2
  BY <1>2, <1>6 DEF AfterCR
<1>8. at + len <= Len(s)
  BY <1>3, <1>4, <1>7
<1>9. r.text \in Seq(Char) /\ Len(r.text) = len
  <2>1. Bytes(s, at, len) \in Seq(Char) /\ Len(Bytes(s, at, len)) = len
    BY <1>3, <1>8, BytesAre
  <2> QED BY <1>3, <2>1
<1>10. Holds(s, at, r.text)
  BY <1>3, <1>8, HoldsBytes, EmptySeq
<1>11. Holds(s, at + len, CRLF)
  <2>1. at + len \in Nat /\ (at + len) + 2 = at + lf /\ (at + len) + 1 = at + lf - 1
    BY <1>3, <1>4, <1>7
  <2> QED BY <1>3, <1>4, <1>6, <2>1, HoldsCRLF
<1>12. r.next = at + len + 2
  BY <1>3, <1>4, <1>7
<1> QED BY <1>9, <1>10, <1>11, <1>12

\* And a text without LF that is not too long, with CRLF, is read as a line.
LEMMA LineRead ==
    ASSUME NEW s \in Seq(Char), NEW at \in Nat, NEW m \in Nat,
           NEW S, NEW text \in Seq(S), LF \notin S, Len(text) <= m,
           Holds(s, at, text), Holds(s, at + Len(text), CRLF)
    PROVE  readLine(s, at, m, "kStrict") = Found(s, at, Len(text), at + Len(text) + 2)
           /\ Bytes(s, at, Len(text)) = text
<1> DEFINE E == LineEnds(s, at, m, "kStrict")
           n == Len(text)
           w == Window(s, at, m)
<1>1. n \in Nat /\ Len(s) \in Nat
  BY LenProperties
<1>2. (at + n) + 2 <= Len(s) /\ s[(at + n) + 1] = CR /\ s[(at + n) + 2] = LF
  BY <1>1, HoldsCRLF
<1>3. \A i \in 1 .. n : s[at + i] = text[i] /\ s[at + i] # LF
  BY <1>1, ElementOfSeq DEF Holds
<1> HIDE DEF n
<1>4. n <= m
  BY DEF n
<1>5. at < Len(s) /\ w \in Nat /\ n + 2 <= w
  BY <1>1, <1>2, <1>4 DEF Window
<1> HIDE DEF w
<1>6. n + 2 \in E
  <2>1. n + 2 \in 1 .. w /\ n + 2 > 1 /\ at + (n + 2) = (at + n) + 2 /\ at + (n + 2) - 1 = (at + n) + 1
    BY <1>1, <1>5
  <2>2. EndsLine(s, at, "kStrict", n + 2)
    BY <1>2, <2>1 DEF EndsLine
  <2> QED BY <2>1, <2>2 DEF LineEnds, w
<1>7. \A i \in E : i >= n + 2
  <2> SUFFICES ASSUME NEW i \in E PROVE i >= n + 2
    OBVIOUS
  <2>1. i \in 1 .. w /\ s[at + i] = LF
    BY DEF LineEnds, EndsLine, w
  <2>2. i # n + 1
    <3>1. ASSUME i = n + 1 PROVE FALSE
      <4>1. at + i = (at + n) + 1
        BY <1>1, <3>1
      <4> QED BY <1>2, <2>1, <4>1 DEF CR, LF
    <3> QED BY <3>1
  <2>3. i \notin 1 .. n
    BY <1>3, <2>1
  <2> QED BY <1>1, <1>5, <2>1, <2>2, <2>3
<1>8. E \subseteq Nat /\ E # {}
  BY <1>5, <1>6 DEF LineEnds, w
<1>9. PICK lf : lf = Min(E)
  OBVIOUS
<1>10. lf = n + 2
  <2>1. lf \in E /\ \A i \in E : lf <= i
    <3> HIDE DEF E
    <3> QED BY <1>8, <1>9, MinIsLeast
  <2> HIDE DEF E
  <2>2. lf \in Nat
    BY <1>8, <2>1
  <2> QED BY <1>1, <1>6, <1>7, <2>1, <2>2
<1>11. AfterCR(s, at, lf)
  <2>1. lf > 1 /\ at + lf - 1 = (at + n) + 1
    BY <1>1, <1>10
  <2> QED BY <1>2, <2>1 DEF AfterCR
<1>12. readLine(s, at, m, "kStrict") = Terminated(s, at, m, lf, AfterCR(s, at, lf))
  BY <1>5, <1>8, <1>9, LineCases
<1>13. Terminated(s, at, m, lf, AfterCR(s, at, lf)) = Found(s, at, n, at + n + 2)
  <2>1. lf - 2 = n /\ ~(n > m) /\ at + lf = at + n + 2
    BY <1>1, <1>4, <1>10
  <2> QED BY <1>11, <2>1 DEF Terminated
<1>14. Bytes(s, at, n) = text
  BY HoldsBytes DEF n
<1> QED BY <1>12, <1>13, <1>14 DEF n

\* A payload stands before its CRLF, and one that does is taken.
LEMMA PayloadHeld ==
    ASSUME NEW s \in Seq(Char), NEW at \in Nat, NEW len \in Nat
    PROVE  /\ takeBytes(s, at, len).status = "kFound" =>
                LET r == takeBytes(s, at, len)
                IN  /\ r.text \in Seq(Char) /\ Len(r.text) = len /\ r.next = at + len + 2
                    /\ Holds(s, at, r.text) /\ Holds(s, at + len, CRLF)
           /\ Holds(s, at + len, CRLF) => takeBytes(s, at, len) = Found(s, at, len, at + len + 2)
<1>1. Len(s) \in Nat /\ at + len \in Nat
  BY LenProperties
<1>2. PICK r : r = takeBytes(s, at, len)
  OBVIOUS
<1>3. ASSUME r.status = "kFound"
      PROVE  /\ r.text \in Seq(Char) /\ Len(r.text) = len /\ r.next = at + len + 2
             /\ Holds(s, at, r.text) /\ Holds(s, at + len, CRLF)
  <2>1. /\ at + len + 2 <= Len(s) /\ r.next = at + len + 2
        /\ r.text = Bytes(s, at, len) /\ r.text \in Seq(Char) /\ Len(r.text) = len
    BY <1>2, <1>3, PayloadIs
  <2>2. Holds(s, at, r.text)
    BY <1>1, <2>1, HoldsBytes, EmptySeq
  <2>3. Bytes(s, at + len, 2) = CRLF
    <3>1. SUFFICES ASSUME Bytes(s, at + len, 2) # CRLF PROVE FALSE
      OBVIOUS
    <3>2. ~(Len(s) - at < 2 \/ len > (Len(s) - at) - 2)
      BY <1>1, <2>1
    <3>3. r = Verdict("kBadTrailer")
      BY <1>2, <3>1, <3>2 DEF takeBytes
    <3> QED BY <1>3, <3>3 DEF Verdict
  <2>4. Holds(s, at + len, Bytes(s, at + len, 2))
    BY <1>1, <2>1, HoldsBytes, EmptySeq
  <2> QED BY <2>1, <2>2, <2>3, <2>4
<1>4. ASSUME Holds(s, at + len, CRLF) PROVE takeBytes(s, at, len) = Found(s, at, len, at + len + 2)
  <2>1. (at + len) + 2 <= Len(s)
    BY <1>1, <1>4, HoldsCRLF
  <2>2. ~(Len(s) - at < 2 \/ len > (Len(s) - at) - 2)
    BY <1>1, <2>1
  <2>3. Bytes(s, at + len, 2) = CRLF
    <3>1. CRLF \in Seq({CR, LF}) /\ Len(CRLF) = 2
      BY DEF CRLF
    <3> HIDE DEF CRLF
    <3>2. Bytes(s, at + len, Len(CRLF)) = CRLF
      BY <1>1, <1>4, <3>1, HoldsBytes
    <3> QED BY <3>1, <3>2
  <2> QED BY <2>2, <2>3 DEF takeBytes
<1> QED BY <1>2, <1>3, <1>4

-----------------------------------------------------------------------------
(* The array form.                                                         *)

\* The bytes of a request.
Wire == Char \cup Digits \cup {"*", "$", CR, LF}
Header(type, n) == <<type>> \o to_chars[n]

LEMMA HeaderText ==
    ASSUME NEW type, NEW n \in Nat
    PROVE  /\ Header(type, n) \in Seq(Digits \cup {type}) /\ Len(Header(type, n)) = 1 + Len(to_chars[n])
           /\ Header(type, n) # <<>> /\ Header(type, n)[1] = type
           /\ Tail(Header(type, n)) = to_chars[n]
           /\ Len(to_chars[n]) \in Nat \ {0}
<1> DEFINE T == Digits \cup {type}
           a == <<type>>
           b == to_chars[n]
           h == Header(type, n)
<1>1. b \in Seq(T) /\ Len(b) \in Nat \ {0} /\ b \in Seq(Digits)
  BY ToCharsIs, SeqMonotonic
<1>2. a \in Seq(T) /\ Len(a) = 1 /\ a[1] = type
  OBVIOUS
<1> HIDE DEF T, a, b
<1>3. /\ h \in Seq(T) /\ Len(h) = 1 + Len(b)
      /\ \A i \in 1 .. 1 + Len(b) : h[i] = IF i <= 1 THEN a[i] ELSE b[i - 1]
  BY <1>1, <1>2, ConcatProperties DEF Header, a, b
<1> HIDE DEF h
<1>4. h # <<>> /\ h[1] = type
  BY <1>1, <1>2, <1>3
<1>5. Tail(h) = b
  <2>1. Tail(h) \in Seq(T) /\ Len(Tail(h)) = Len(b) /\ \A i \in 1 .. Len(b) : Tail(h)[i] = h[i + 1]
    BY <1>1, <1>3, <1>4, HeadTailProperties
  <2>2. ASSUME NEW i \in 1 .. Len(b) PROVE Tail(h)[i] = b[i]
    <3>1. i + 1 \in 1 .. 1 + Len(b) /\ ~(i + 1 <= 1) /\ (i + 1) - 1 = i
      BY <1>1
    <3> QED BY <1>3, <2>1, <3>1
  <2> QED BY <1>1, <2>1, <2>2, SeqEqual
<1> QED BY <1>1, <1>3, <1>4, <1>5 DEF T, h, b

\* A header has a value exactly when it is the type and the number within the
\* limit, as it is written.
LEMMA HeaderReads ==
    ASSUME NEW type, NEW limit \in Nat
    PROVE  /\ \A S : \A line \in Seq(S) :
                headerValue(line, type, limit) # nullopt =>
                    /\ headerValue(line, type, limit) \in 0 .. limit
                    /\ line = Header(type, headerValue(line, type, limit))
           /\ limit <= SizeMax => \A n \in 0 .. limit : headerValue(Header(type, n), type, limit) = n
<1>1. ASSUME NEW S, NEW line \in Seq(S), headerValue(line, type, limit) # nullopt
      PROVE  /\ headerValue(line, type, limit) \in 0 .. limit
             /\ line = Header(type, headerValue(line, type, limit))
  <2>1. line # <<>> /\ line[1] = type
    BY <1>1 DEF headerValue
  <2>2. PICK v : v = readInt(Tail(line))
    OBVIOUS
  <2>3. headerValue(line, type, limit) = IF v > limit THEN nullopt ELSE v
    BY <2>1, <2>2 DEF headerValue
  <2>4. headerValue(line, type, limit) = v /\ ~(v > limit) /\ v # nullopt
    BY <1>1, <2>3
  <2>5. Tail(line) \in Seq(S) /\ Len(Tail(line)) = Len(line) - 1
        /\ \A i \in 1 .. Len(Tail(line)) : Tail(line)[i] = line[i + 1]
    BY <2>1, HeadTailProperties
  <2>6. Tail(line) = to_chars[v] /\ v \in Nat
    BY <2>2, <2>4, <2>5, WritesWhatIsRead
  <2> DEFINE h == Header(type, v)
             T == Digits \cup {type}
             U == T \cup S
  <2>7. h \in Seq(T) /\ Tail(h) = to_chars[v] /\ h # <<>> /\ h[1] = type
    BY <2>6, HeaderText
  <2> HIDE DEF h, T
  <2>8. Len(Tail(h)) = Len(h) - 1 /\ \A i \in 1 .. Len(Tail(h)) : Tail(h)[i] = h[i + 1]
    BY <2>7, HeadTailProperties
  <2>9. Len(line) \in Nat \ {0} /\ Len(h) \in Nat \ {0}
    BY <2>1, <2>7, EmptySeq
  <2>10. Len(line) = Len(h)
    <3>1. Tail(line) = Tail(h)
      BY <2>6, <2>7
    <3>2. PICK n : n = Len(Tail(line)) /\ n = Len(Tail(h))
      BY <3>1
    <3>3. n = Len(line) - 1 /\ n = Len(h) - 1
      BY <2>5, <2>8, <3>2
    <3> QED BY <2>9, <3>3
  <2>11. ASSUME NEW i \in 1 .. Len(line) PROVE line[i] = h[i]
    <3>1. CASE i = 1
      BY <2>1, <2>7, <3>1
    <3>2. CASE i # 1
      <4>1. i - 1 \in 1 .. Len(Tail(line)) /\ i - 1 \in 1 .. Len(Tail(h)) /\ (i - 1) + 1 = i
        BY <2>5, <2>8, <2>9, <2>10, <3>2
      <4> QED BY <2>5, <2>6, <2>7, <2>8, <4>1
    <3> QED BY <3>1, <3>2
  <2>12. line \in Seq(U) /\ h \in Seq(U)
    BY <2>7, SeqMonotonic
  <2> HIDE DEF U
  <2>13. line = h
    BY <2>10, <2>11, <2>12, SeqEqual
  <2> QED BY <2>4, <2>6, <2>13 DEF h
<1>2. ASSUME limit <= SizeMax, NEW n \in 0 .. limit PROVE headerValue(Header(type, n), type, limit) = n
  <2>1. n \in 0 .. SizeMax /\ n \in Nat /\ ~(n > limit)
    BY <1>2, RespAssumption
  <2>2. Header(type, n) # <<>> /\ Header(type, n)[1] = type /\ Tail(Header(type, n)) = to_chars[n]
    BY <2>1, HeaderText
  <2>3. readInt(Tail(Header(type, n))) = n
    BY <2>1, <2>2, ReadsWhatIsWritten
  <2> HIDE DEF Header
  <2> QED BY <2>1, <2>2, <2>3 DEF headerValue
<1> QED BY <1>1, <1>2

\* What a line with a number is made of.
LEMMA NumberLine ==
    ASSUME NEW type \in Wire, NEW n \in Nat
    PROVE  /\ appendNumber(type, n) = Header(type, n) \o CRLF
           /\ appendNumber(type, n) \in Seq(Wire) /\ Header(type, n) \in Seq(Wire)
           /\ CRLF \in Seq(Wire) /\ Len(CRLF) = 2
           /\ Len(appendNumber(type, n)) = Len(Header(type, n)) + 2
<1>1. appendNumber(type, n) = Header(type, n) \o CRLF
  <2>1. ~(n < 0)
    OBVIOUS
  <2> QED BY <2>1 DEF appendNumber, appendLine, Header
<1>2. Header(type, n) \in Seq(Wire)
  <2>1. Digits \cup {type} \subseteq Wire
    BY DEF Wire
  <2> QED BY <2>1, HeaderText, SeqMonotonic
<1>3. CRLF \in Seq(Wire) /\ Len(CRLF) = 2
  BY DEF CRLF, Wire
<1>4. PICK h, e : h = Header(type, n) /\ e = CRLF
  OBVIOUS
<1>5. h \o e \in Seq(Wire) /\ Len(h \o e) = Len(h) + 2
  <2>1. h \in Seq(Wire) /\ e \in Seq(Wire) /\ Len(e) = 2
    BY <1>2, <1>3, <1>4, Zenon
  <2> HIDE DEF Wire
  <2>2. h \o e \in Seq(Wire) /\ Len(h \o e) = Len(h) + Len(e)
    BY <2>1, ConcatProperties
  <2> QED BY <2>1, <2>2, Zenon
<1> QED BY <1>1, <1>2, <1>3, <1>4, <1>5, Zenon

\* And a bulk string.
LEMMA BulkIs ==
    ASSUME NEW x \in Seq(Char), NEW s, Len(s) \in Nat, NEW at \in Nat, NEW h, h = Header("$", Len(x))
    PROVE  /\ bulk(x) \in Seq(Wire) /\ Len(bulk(x)) = Len(h) + 2 + Len(x) + 2 /\ Len(bulk(x)) \in Nat
           /\ Holds(s, at, bulk(x)) <=>
                /\ Holds(s, at, h) /\ Holds(s, at + Len(h), CRLF)
                /\ Holds(s, at + Len(h) + 2, x) /\ Holds(s, at + Len(h) + 2 + Len(x), CRLF)
<1> DEFINE a == appendNumber("$", Len(x))
           b == a \o x
<1>1. Len(x) \in Nat /\ x \in Seq(Wire) /\ "$" \in Wire
  BY LenProperties, SeqMonotonic DEF Wire
<1>2. a = h \o CRLF /\ a \in Seq(Wire) /\ Len(a) = Len(h) + 2 /\ h \in Seq(Wire) /\ CRLF \in Seq(Wire)
      /\ Len(CRLF) = 2
  BY <1>1, NumberLine
<1>3. Len(h) \in Nat
  BY <1>2, LenProperties
<1>4. bulk(x) = b \o CRLF
  BY DEF bulk
<1> HIDE DEF a, Wire, CRLF
<1>5. b \in Seq(Wire) /\ Len(b) = Len(a) + Len(x)
  BY <1>1, <1>2, ConcatProperties
<1>6. Holds(s, at, b) <=> Holds(s, at, a) /\ Holds(s, at + Len(a), x)
  BY <1>1, <1>2, HoldsBoth
<1> HIDE DEF b
<1>7. bulk(x) \in Seq(Wire) /\ Len(bulk(x)) = Len(b) + 2
  <2>1. b \o CRLF \in Seq(Wire) /\ Len(b \o CRLF) = Len(b) + Len(CRLF)
    BY <1>2, <1>5, ConcatProperties
  <2> QED BY <1>2, <1>4, <2>1, Zenon
<1>8. Holds(s, at, bulk(x)) <=> Holds(s, at, b) /\ Holds(s, at + Len(b), CRLF)
  <2>1. Holds(s, at, b \o CRLF) <=> Holds(s, at, b) /\ Holds(s, at + Len(b), CRLF)
    BY <1>2, <1>5, HoldsBoth
  <2> QED BY <1>4, <2>1, Zenon
<1>9. Holds(s, at, a) <=> Holds(s, at, h) /\ Holds(s, at + Len(h), CRLF)
  BY <1>2, HoldsBoth
<1>10. at + Len(a) = at + Len(h) + 2 /\ at + Len(b) = at + Len(h) + 2 + Len(x)
       /\ Len(bulk(x)) = Len(h) + 2 + Len(x) + 2 /\ Len(bulk(x)) \in Nat
  <2>1. PICK k, l, m, n : k = Len(a) /\ l = Len(b) /\ m = Len(h) /\ n = Len(bulk(x))
    OBVIOUS
  <2>2. k = m + 2 /\ l = k + Len(x) /\ n = l + 2 /\ m \in Nat
    BY <1>2, <1>3, <1>5, <1>7, <2>1
  <2> QED BY <1>1, <2>1, <2>2
<1> QED BY <1>6, <1>7, <1>8, <1>9, <1>10

-----------------------------------------------------------------------------
(* Sequences put end to end.                                               *)

LEMMA FlattenAppend ==
    ASSUME NEW S, NEW q \in Seq(Seq(S)), NEW x \in Seq(S)
    PROVE  FlattenSeq(Append(q, x)) = FlattenSeq(q) \o x /\ FlattenSeq(q) \in Seq(S)
           /\ FlattenSeq(<<>>) = <<>>
<1> DEFINE r == Append(q, x)
           n == Len(q)
<1>1. /\ r \in Seq(Seq(S)) /\ n \in Nat /\ Len(r) = n + 1 /\ r[n + 1] = x
      /\ \A i \in 1 .. n : r[i] = q[i]
  BY AppendProperties, LenProperties
<1>2. FlattenSeq(<<>>) = <<>>
  BY DEF FlattenSeq
<1> HIDE DEF r
<1>3. PICK g : Appends(g, r, S, n + 1)
  <2>1. n + 1 \in Nat \ {0} /\ r \in [1 .. n + 1 -> Seq(S)]
    BY <1>1, LenProperties
  <2> HIDE DEF n
  <2> QED BY <2>1, FlattenSteps
<1>4. /\ \A i \in 1 .. n + 1 : g[i] \in Seq(S)
      /\ FlattenSeq(r) = g[n + 1]
      /\ g[1] = r[1] /\ \A i \in 2 .. n + 1 : g[i] = g[i - 1] \o r[i]
  <2> HIDE DEF n
  <2> QED BY <1>3 DEF Appends
<1>5. CASE n = 0
  <2>1. q = <<>>
    BY <1>5, EmptySeq
  <2>2. FlattenSeq(r) = x
    BY <1>1, <1>4, <1>5
  <2>3. <<>> \o x = x /\ <<>> \in Seq(S)
    BY ConcatEmptySeq, EmptySeq
  <2> QED BY <1>2, <2>1, <2>2, <2>3 DEF r
<1>6. CASE n # 0
  <2>1. PICK f : Appends(f, q, S, n)
    <3>1. n \in Nat \ {0} /\ q \in [1 .. n -> Seq(S)]
      BY <1>1, <1>6, LenProperties
    <3> HIDE DEF n
    <3> QED BY <3>1, FlattenSteps
  <2>2. /\ \A i \in 1 .. n : f[i] \in Seq(S)
        /\ FlattenSeq(q) = f[n]
        /\ f[1] = q[1] /\ \A i \in 2 .. n : f[i] = f[i - 1] \o q[i]
    <3> HIDE DEF n
    <3> QED BY <2>1 DEF Appends
  <2> HIDE DEF n
  <2> DEFINE Bad == {i \in 1 .. n : f[i] # g[i]}
  <2>3. ASSUME Bad # {} PROVE FALSE
    <3>1. PICK i \in Bad : \A j \in Bad : i <= j
      <4>1. Bad \subseteq Nat
        OBVIOUS
      <4> HIDE DEF Bad
      <4> QED BY <2>3, <4>1, LeastExists
    <3>2. i \in 1 .. n /\ i # 1
      BY <1>1, <1>4, <2>2, <3>1
    <3>3. i - 1 \in 1 .. n /\ i - 1 \notin Bad /\ i \in 2 .. n /\ i \in 2 .. n + 1
      BY <1>1, <3>1, <3>2
    <3>4. f[i - 1] = g[i - 1] /\ r[i] = q[i]
      BY <1>1, <3>2, <3>3
    <3>5. f[i] = g[i]
      BY <1>4, <2>2, <3>3, <3>4, Zenon
    <3> QED BY <3>1, <3>5
  <2>4. f[n] = g[n]
    <3>1. n \in 1 .. n
      BY <1>1, <1>6
    <3>2. n \notin Bad
      BY <2>3
    <3> QED BY <3>1, <3>2
  <2>5. g[n + 1] = g[n] \o x
    <3>1. n + 1 \in 2 .. n + 1 /\ (n + 1) - 1 = n
      BY <1>1, <1>6
    <3>2. g[n + 1] = g[(n + 1) - 1] \o r[n + 1]
      BY <1>4, <3>1, Zenon
    <3> QED BY <1>1, <3>1, <3>2
  <2>6. f[n] \in Seq(S)
    BY <1>1, <1>6, <2>2
  <2> QED BY <1>2, <1>4, <2>2, <2>4, <2>5, <2>6, Zenon DEF r
<1> QED BY <1>5, <1>6

\* The elements of a request, one bulk string each.
Bulks(words) == FlattenSeq([i \in 1 .. Len(words) |-> bulk(words[i])])

LEMMA BulksAppend ==
    ASSUME NEW words \in Seq(Seq(Char)), NEW x \in Seq(Char)
    PROVE  /\ Bulks(words) \in Seq(Wire) /\ Len(Bulks(words)) \in Nat
           /\ Bulks(Append(words, x)) = Bulks(words) \o bulk(x)
           /\ Len(Bulks(Append(words, x))) = Len(Bulks(words)) + Len(bulk(x))
           /\ Bulks(<<>>) = <<>>
<1> DEFINE T == Seq(Wire)
           more == Append(words, x)
           n == Len(words)
           q == [i \in 1 .. n |-> bulk(words[i])]
           r == [i \in 1 .. Len(more) |-> bulk(more[i])]
<1>1. /\ n \in Nat /\ Len(more) = n + 1 /\ more[n + 1] = x /\ \A i \in 1 .. n : more[i] = words[i]
      /\ \A i \in 1 .. n : words[i] \in Seq(Char)
  BY AppendProperties, LenProperties, ElementOfSeq
<1>2. \A y \in Seq(Char) : bulk(y) \in T
  <2> SUFFICES ASSUME NEW y \in Seq(Char) PROVE bulk(y) \in T
    OBVIOUS
  <2>1. Len(<<>>) \in Nat
    OBVIOUS
  <2> QED BY <2>1, BulkIs
<1> HIDE DEF T, more, n
<1>3. q \in Seq(T) /\ Len(q) = n /\ \A i \in 1 .. n : q[i] = bulk(words[i])
  BY <1>1, <1>2
<1>4. r \in Seq(T) /\ Len(r) = n + 1 /\ \A i \in 1 .. n + 1 : r[i] = bulk(more[i])
  <2>1. \A i \in 1 .. n + 1 : more[i] \in Seq(Char)
    BY <1>1
  <2> QED BY <1>1, <1>2, <2>1
<1>5. bulk(x) \in T
  BY <1>2
<1>6. Bulks(words) = FlattenSeq(q) /\ Bulks(more) = FlattenSeq(r)
  BY DEF Bulks, n
<1> HIDE DEF q, r
<1>7. r = Append(q, bulk(x))
  <2> DEFINE t == Append(q, bulk(x))
  <2>1. t \in Seq(T) /\ Len(t) = n + 1 /\ t[n + 1] = bulk(x) /\ \A i \in 1 .. n : t[i] = q[i]
    BY <1>3, <1>5, AppendProperties
  <2>2. ASSUME NEW i \in 1 .. n + 1 PROVE r[i] = t[i]
    <3>1. CASE i = n + 1
      BY <1>1, <1>4, <2>1, <3>1
    <3>2. CASE i # n + 1
      <4>1. i \in 1 .. n
        BY <1>1, <3>2
      <4> QED BY <1>1, <1>3, <1>4, <2>1, <4>1
    <3> QED BY <3>1, <3>2
  <2> HIDE DEF t
  <2>3. r = t
    BY <1>4, <2>1, <2>2, SeqEqual
  <2> QED BY <2>3 DEF t
<1>8. FlattenSeq(Append(q, bulk(x))) = FlattenSeq(q) \o bulk(x) /\ FlattenSeq(q) \in Seq(Wire)
      /\ FlattenSeq(<<>>) = <<>>
  BY <1>3, <1>5, FlattenAppend DEF T
<1>9. Bulks(<<>>) = <<>>
  <2>1. [i \in 1 .. Len(<<>>) |-> bulk(<<>>[i])] = <<>>
    OBVIOUS
  <2> QED BY <1>8, <2>1, Zenon DEF Bulks
<1>10. Bulks(words) \in Seq(Wire) /\ Bulks(more) = Bulks(words) \o bulk(x)
  BY <1>6, <1>7, <1>8, Zenon
<1>11. Len(Bulks(words)) \in Nat /\ Len(Bulks(words) \o bulk(x)) = Len(Bulks(words)) + Len(bulk(x))
  BY <1>5, <1>10, ConcatProperties, LenProperties DEF T
<1> QED BY <1>9, <1>10, <1>11 DEF more

-----------------------------------------------------------------------------
(* The elements of a request are its bulk strings.                         *)

Acc(at, words) == [status |-> "kFound", cursor |-> at, words |-> words]

\* An element that is found is a bulk string within the limit.
LEMMA ElementHeld ==
    ASSUME NEW s \in Seq(Char), NEW acc \in Accs, acc.status = "kFound",
           NEW r, r = Element(s, acc), r.status = "kFound"
    PROVE  \E x \in Seq(Char) : /\ Len(x) <= kMaxBulkLength
                                /\ Holds(s, acc.cursor, bulk(x))
                                /\ r.cursor = acc.cursor + Len(bulk(x))
                                /\ r.words = Append(acc.words, x)
<1>1. acc.cursor \in Nat /\ acc.words \in Seq(Seq(Char)) /\ DOMAIN acc = {"status", "cursor", "words"}
  BY DEF Accs
<1>2. kMaxHeaderLength \in Nat /\ kMaxBulkLength \in Nat /\ Len(s) \in Nat
  BY RespAssumption, LenProperties
<1>3. PICK at, elem : at = acc.cursor /\ elem = readLine(s, at, kMaxHeaderLength, "kStrict")
  OBVIOUS
<1>4. at \in Nat
  BY <1>1, <1>3
<1>5. r = Framed(s, acc, elem)
  BY <1>3 DEF Element
<1>6. PICK len : len = headerValue(elem.text, "$", kMaxBulkLength)
  OBVIOUS
<1>7. PICK payload : payload = IF len = nullopt THEN Verdict("kBadTrailer")
                               ELSE takeBytes(s, elem.next, len)
  OBVIOUS
<1>8. r = IF elem.status # "kFound" THEN [acc EXCEPT !.status = elem.status]
          ELSE IF payload.status # "kFound" THEN [acc EXCEPT !.status = payload.status]
          ELSE [acc EXCEPT !.cursor = payload.next, !.words = Append(@, payload.text)]
  BY <1>5, <1>6, <1>7, Zenon DEF Framed
<1>9. elem.status = "kFound"
  <2>1. SUFFICES ASSUME elem.status # "kFound" PROVE FALSE
    OBVIOUS
  <2>2. r = [acc EXCEPT !.status = elem.status]
    BY <1>8, <2>1
  <2>3. r.status = elem.status
    BY <1>1, <2>2
  <2> QED BY <2>1, <2>3
<1>10. payload.status = "kFound"
  <2>1. SUFFICES ASSUME payload.status # "kFound" PROVE FALSE
    OBVIOUS
  <2>2. r = [acc EXCEPT !.status = payload.status]
    BY <1>8, <1>9, <2>1
  <2>3. r.status = payload.status
    BY <1>1, <2>2
  <2> QED BY <2>1, <2>3
<1>11. PICK x, to : x = payload.text /\ to = payload.next
  OBVIOUS
<1>12. r.cursor = to /\ r.words = Append(acc.words, x)
  <2>1. r = [acc EXCEPT !.cursor = payload.next, !.words = Append(acc.words, payload.text)]
    BY <1>8, <1>9, <1>10, Zenon
  <2> DEFINE more == Append(acc.words, payload.text)
  <2> HIDE DEF more
  <2>2. r = [acc EXCEPT !.cursor = to, !.words = more]
    BY <1>11, <2>1 DEF more
  <2>3. r.cursor = to /\ r.words = more
    BY <1>1, <2>2
  <2> QED BY <1>11, <2>3 DEF more
<1>13. PICK line : line = elem.text
  OBVIOUS
<1>14. /\ line \in Seq(Char) /\ elem.next = at + Len(line) + 2
       /\ Holds(s, at, line) /\ Holds(s, at + Len(line), CRLF)
  <2>1. /\ elem.text \in Seq(Char) /\ elem.next = at + Len(elem.text) + 2
        /\ Holds(s, at, elem.text) /\ Holds(s, at + Len(elem.text), CRLF)
    <3>1. elem = readLine(s, at, kMaxHeaderLength, "kStrict")
      BY <1>3
    <3>2. kMaxHeaderLength \in Nat
      BY <1>2
    <3> QED BY <1>4, <1>9, <3>1, <3>2, LineHeld
  <2> QED BY <1>13, <2>1, Zenon
<1>15. len # nullopt
  BY <1>7, <1>10 DEF Verdict
<1>16. len \in 0 .. kMaxBulkLength /\ line = Header("$", len)
  <2>1. len = headerValue(line, "$", kMaxBulkLength)
    BY <1>6, <1>13
  <2>2. headerValue(line, "$", kMaxBulkLength) # nullopt =>
          /\ headerValue(line, "$", kMaxBulkLength) \in 0 .. kMaxBulkLength
          /\ line = Header("$", headerValue(line, "$", kMaxBulkLength))
    BY <1>2, <1>14, HeaderReads
  <2> QED BY <1>15, <2>1, <2>2, Zenon
<1>17. Len(line) \in Nat /\ len \in Nat /\ at + Len(line) + 2 \in Nat
  BY <1>2, <1>4, <1>14, <1>16, LenProperties
<1>18. payload = takeBytes(s, at + Len(line) + 2, len)
  BY <1>7, <1>14, <1>15
<1>19. /\ x \in Seq(Char) /\ Len(x) = len /\ to = at + Len(line) + 2 + len + 2
       /\ Holds(s, at + Len(line) + 2, x) /\ Holds(s, at + Len(line) + 2 + len, CRLF)
  BY <1>10, <1>11, <1>17, <1>18, PayloadHeld
<1>20. line = Header("$", Len(x))
  BY <1>16, <1>19
<1>21. Holds(s, at, bulk(x)) /\ Len(bulk(x)) = Len(line) + 2 + Len(x) + 2
  BY <1>2, <1>4, <1>14, <1>19, <1>20, BulkIs
<1>22. to = at + Len(bulk(x)) /\ Len(x) <= kMaxBulkLength
  BY <1>2, <1>4, <1>16, <1>17, <1>19, <1>21
<1> QED BY <1>3, <1>12, <1>19, <1>21, <1>22

\* And a bulk string within the limit is found.
LEMMA ElementRead ==
    ASSUME NEW s \in Seq(Char), NEW at \in Nat, NEW words \in Seq(Seq(Char)),
           NEW x \in Seq(Char), Len(x) <= kMaxBulkLength, Holds(s, at, bulk(x))
    PROVE  Element(s, Acc(at, words)) = Acc(at + Len(bulk(x)), Append(words, x))
<1>1. /\ kMaxHeaderLength \in Nat /\ kMaxBulkLength \in Nat /\ Len(s) \in Nat /\ Len(x) \in Nat
      /\ kMaxBulkLength <= SizeMax /\ 1 + Len(to_chars[kMaxBulkLength]) <= kMaxHeaderLength
  BY RespAssumption, LimitsAssumption, LenProperties
<1>2. PICK h, len : h = Header("$", len) /\ len = Len(x)
  OBVIOUS
<1>3. /\ Holds(s, at, h) /\ Holds(s, at + Len(h), CRLF)
      /\ Holds(s, at + Len(h) + 2, x) /\ Holds(s, at + Len(h) + 2 + len, CRLF)
      /\ Len(bulk(x)) = Len(h) + 2 + len + 2
  BY <1>1, <1>2, BulkIs
<1>4. len \in 0 .. kMaxBulkLength /\ len \in Nat
  BY <1>1, <1>2
<1>5. h \in Seq(Digits \cup {"$"}) /\ Len(h) = 1 + Len(to_chars[len]) /\ Len(to_chars[len]) \in Nat \ {0}
  BY <1>2, <1>4, HeaderText
<1>6. Len(h) <= kMaxHeaderLength /\ Len(h) \in Nat
  <2>1. Len(to_chars[len]) <= Len(to_chars[kMaxBulkLength]) /\ Len(to_chars[kMaxBulkLength]) \in Nat
    BY <1>1, <1>4, ToCharsLength, ToCharsIs
  <2> QED BY <1>1, <1>5, <2>1
<1>7. LF \notin Digits \cup {"$"}
  <2>1. LF \notin Digits
    BY DEF LF, Digits, ToSet, Numeral
  <2> QED BY <2>1 DEF LF
<1>8. readLine(s, at, kMaxHeaderLength, "kStrict") = Found(s, at, Len(h), at + Len(h) + 2)
      /\ Bytes(s, at, Len(h)) = h
  <2>1. PICK S : S = Digits \cup {"$"}
    OBVIOUS
  <2>2. h \in Seq(S) /\ LF \notin S
    BY <1>5, <1>7, <2>1, Zenon
  <2> QED BY <1>1, <1>3, <1>6, <2>2, LineRead
<1>9. PICK elem : elem = readLine(s, at, kMaxHeaderLength, "kStrict")
  OBVIOUS
<1>10. elem.status = "kFound" /\ elem.text = h /\ elem.next = at + Len(h) + 2
  BY <1>8, <1>9 DEF Found
<1>11. headerValue(elem.text, "$", kMaxBulkLength) = len
  BY <1>1, <1>2, <1>4, <1>10, HeaderReads
<1>12. PICK next : next = at + Len(h) + 2 /\ next \in Nat
  BY <1>6
<1>13. takeBytes(s, next, len) = Found(s, next, len, next + len + 2) /\ Bytes(s, next, len) = x
  <2>1. Holds(s, next + len, CRLF) /\ Holds(s, next, x)
    BY <1>3, <1>12
  <2>2. takeBytes(s, next, len) = Found(s, next, len, next + len + 2)
    BY <1>4, <1>12, <2>1, PayloadHeld
  <2>3. Bytes(s, next, Len(x)) = x
    BY <1>12, <2>1, HoldsBytes
  <2> QED BY <1>2, <2>2, <2>3, Zenon
<1>14. PICK payload : payload = takeBytes(s, next, len)
  OBVIOUS
<1>15. payload.status = "kFound" /\ payload.text = x /\ payload.next = next + len + 2
  BY <1>13, <1>14 DEF Found
<1>16. len # nullopt
  BY <1>4 DEF nullopt
<1>17. PICK acc : acc = Acc(at, words)
  OBVIOUS
<1>18. acc.status = "kFound" /\ acc.cursor = at /\ acc.words = words
  BY <1>17 DEF Acc
<1>19. Element(s, acc) = Framed(s, acc, elem)
  BY <1>9, <1>18 DEF Element
<1>20. Framed(s, acc, elem) = [acc EXCEPT !.cursor = payload.next, !.words = Append(acc.words, payload.text)]
  <2>1. takeBytes(s, elem.next, len) = payload
    BY <1>10, <1>12, <1>14
  <2> QED BY <1>10, <1>11, <1>15, <1>16, <2>1, Zenon DEF Framed
<1>21. next + len + 2 = at + Len(bulk(x))
  BY <1>3, <1>4, <1>6, <1>12
<1>22. PICK more, to : more = Append(words, x) /\ to = at + Len(bulk(x))
  OBVIOUS
<1>23. Framed(s, acc, elem) = [acc EXCEPT !.cursor = to, !.words = more]
  BY <1>15, <1>18, <1>20, <1>21, <1>22, Zenon
<1>24. [acc EXCEPT !.cursor = to, !.words = more] = Acc(to, more)
  <2>1. [acc EXCEPT !.cursor = to, !.words = more] = [[acc EXCEPT !.cursor = to] EXCEPT !.words = more]
    BY Zenon
  <2>2. [Acc(at, words) EXCEPT !.cursor = to] = Acc(to, words)
    BY DEF Acc
  <2>3. [Acc(to, words) EXCEPT !.words = more] = Acc(to, more)
    BY DEF Acc
  <2> QED BY <1>17, <2>1, <2>2, <2>3, Zenon
<1> QED BY <1>17, <1>19, <1>22, <1>23, <1>24, Zenon

WithinLimit(words) == \A i \in 1 .. Len(words) : Len(words[i]) <= kMaxBulkLength

AreElements(s, at, n, r) ==
    /\ r.words \in Seq(Seq(Char)) /\ Len(r.words) = n /\ WithinLimit(r.words)
    /\ Holds(s, at, Bulks(r.words)) /\ r.cursor = at + Len(Bulks(r.words))

\* The elements found are bulk strings, one after the other, and end at the cursor.
LEMMA ElementsHeld ==
    ASSUME NEW s \in Seq(Char), NEW at \in Nat, at <= Len(s), NEW n \in Nat,
           NEW r, r = Elements(s, at, n), r.status = "kFound"
    PROVE  AreElements(s, at, n, r)
<1>1. PICK f : Loops(f, s, at, n) /\ r = f[n]
  BY ElementsSteps
<1>2. \A h \in 0 .. n : f[h].status = "kFound"
  BY <1>1, LoopFound
<1>3. Len(r.words) = n
  BY <1>1, LoopFound
<1>4. /\ f[0] = NoWords(at) /\ \A i \in 0 .. n : f[i] \in Accs
      /\ \A i \in 1 .. n : f[i] = Element(s, f[i - 1])
  BY <1>1 DEF Loops
<1>5. Len(s) \in Nat
  BY LenProperties
<1> DEFINE Good(acc) == /\ acc.words \in Seq(Seq(Char)) /\ WithinLimit(acc.words)
                        /\ Holds(s, at, Bulks(acc.words)) /\ acc.cursor = at + Len(Bulks(acc.words))
           Bad == {i \in 0 .. n : ~Good(f[i])}
<1>6. ASSUME Bad # {} PROVE FALSE
  <2>1. PICK i \in Bad : \A j \in Bad : i <= j
    <3>1. Bad \subseteq Nat
      OBVIOUS
    <3> HIDE DEF Bad
    <3> QED BY <1>6, <3>1, LeastExists
  <2>2. i \in 0 .. n /\ ~Good(f[i])
    OBVIOUS
  <2>3. i # 0
    <3>1. SUFFICES ASSUME i = 0 PROVE FALSE
      OBVIOUS
    <3>2. PICK acc : acc = NoWords(at)
      OBVIOUS
    <3>3. acc.words = <<>> /\ acc.cursor = at
      BY <3>2 DEF NoWords
    <3>4. Bulks(<<>>) = <<>>
      BY BulksAppend, EmptySeq
    <3>5. Bulks(acc.words) = <<>>
      BY <3>3, <3>4
    <3>6. Holds(s, at, <<>>) /\ at + Len(<<>>) = at /\ <<>> \in Seq(Seq(Char)) /\ WithinLimit(<<>>)
      BY <1>5 DEF Holds, WithinLimit
    <3>7. Good(acc)
      BY <3>3, <3>5, <3>6, Zenon
    <3> QED BY <1>4, <2>2, <3>1, <3>2, <3>7, Zenon
  <2>4. PICK acc : acc = f[i - 1]
    OBVIOUS
  <2>5. i \in 1 .. n /\ i - 1 \in 0 .. n /\ i - 1 \notin Bad
    <3>1. i \in 1 .. n /\ i - 1 \in 0 .. n /\ ~(i <= i - 1)
      BY <2>2, <2>3
    <3> HIDE DEF Bad
    <3> QED BY <2>1, <3>1
  <2>6. Good(acc) /\ acc \in Accs /\ acc.status = "kFound"
    BY <1>2, <1>4, <2>4, <2>5, Zenon
  <2>7. PICK e : e = f[i]
    OBVIOUS
  <2>8. e = Element(s, acc) /\ e.status = "kFound"
    BY <1>2, <1>4, <2>2, <2>4, <2>5, <2>7
  <2> HIDE DEF Bad
  <2>9. PICK x \in Seq(Char) : /\ Len(x) <= kMaxBulkLength
                               /\ Holds(s, acc.cursor, bulk(x))
                               /\ e.cursor = acc.cursor + Len(bulk(x))
                               /\ e.words = Append(acc.words, x)
    BY <2>6, <2>8, ElementHeld
  <2>10. PICK words, cursor : words = acc.words /\ cursor = acc.cursor
    OBVIOUS
  <2>11. /\ words \in Seq(Seq(Char)) /\ WithinLimit(words)
         /\ Holds(s, at, Bulks(words)) /\ cursor = at + Len(Bulks(words))
    BY <2>6, <2>10, Zenon
  <2> HIDE DEF Good
  <2>12. /\ Bulks(words) \in Seq(Wire) /\ Len(Bulks(words)) \in Nat
         /\ Bulks(Append(words, x)) = Bulks(words) \o bulk(x)
         /\ Len(Bulks(Append(words, x))) = Len(Bulks(words)) + Len(bulk(x))
    BY <2>9, <2>11, BulksAppend
  <2>13. bulk(x) \in Seq(Wire) /\ Len(bulk(x)) \in Nat
    BY <1>5, <2>9, BulkIs
  <2>14. Holds(s, at, Bulks(Append(words, x)))
    <3>1. Holds(s, at + Len(Bulks(words)), bulk(x))
      BY <2>9, <2>10, <2>11, Zenon
    <3>2. Holds(s, at, Bulks(words) \o bulk(x))
      BY <1>5, <2>11, <2>12, <2>13, <3>1, HoldsBoth
    <3> QED BY <2>12, <3>2, Zenon
  <2>15. e.cursor = at + Len(Bulks(Append(words, x)))
    <3>1. PICK k, l, m : k = Len(Bulks(words)) /\ l = Len(bulk(x)) /\ m = Len(Bulks(Append(words, x)))
      OBVIOUS
    <3>2. m = k + l /\ k \in Nat /\ l \in Nat /\ e.cursor = (at + k) + l
      BY <2>9, <2>10, <2>11, <2>12, <2>13, <3>1
    <3> QED BY <3>1, <3>2
  <2>16. Append(words, x) \in Seq(Seq(Char)) /\ WithinLimit(Append(words, x))
    <3>1. PICK more, m : more = Append(words, x) /\ m = Len(words)
      OBVIOUS
    <3>2. /\ more \in Seq(Seq(Char)) /\ Len(more) = m + 1 /\ more[m + 1] = x /\ m \in Nat
          /\ \A j \in 1 .. m : more[j] = words[j]
      BY <2>9, <2>11, <3>1, AppendProperties, LenProperties
    <3>3. ASSUME NEW j \in 1 .. m + 1 PROVE Len(more[j]) <= kMaxBulkLength
      <4>1. CASE j = m + 1
        BY <2>9, <3>2, <4>1
      <4>2. CASE j # m + 1
        <5>1. j \in 1 .. m
          BY <3>2, <4>2
        <5>2. Len(words[j]) <= kMaxBulkLength
          BY <2>11, <3>1, <5>1 DEF WithinLimit
        <5> QED BY <3>2, <5>1, <5>2
      <4> QED BY <4>1, <4>2
    <3>4. WithinLimit(more)
      BY <3>2, <3>3 DEF WithinLimit
    <3> QED BY <3>1, <3>2, <3>4
  <2>17. e.words = Append(words, x)
    BY <2>9, <2>10
  <2>18. Good(e)
    BY <2>14, <2>15, <2>16, <2>17, Zenon DEF Good
  <2> QED BY <2>2, <2>7, <2>18, Zenon
<1>7. Good(r)
  <2>1. n \in 0 .. n
    OBVIOUS
  <2> QED BY <1>1, <1>6, <2>1, Zenon
<1> QED BY <1>3, <1>7, Zenon DEF AreElements

\* And bulk strings that stand one after the other are the elements found.
LEMMA ElementsRead ==
    ASSUME NEW s \in Seq(Char), NEW at \in Nat, NEW args \in Seq(Seq(Char)), WithinLimit(args),
           Holds(s, at, Bulks(args))
    PROVE  Elements(s, at, Len(args)) = Acc(at + Len(Bulks(args)), args)
<1> DEFINE n == Len(args)
           P(i) == SubSeq(args, 1, i)
<1>1. n \in Nat /\ Len(s) \in Nat /\ \A i \in 1 .. n : args[i] \in Seq(Char)
  BY LenProperties, ElementOfSeq
<1>2. \A i \in 1 .. n : Len(args[i]) <= kMaxBulkLength
  BY DEF WithinLimit
<1> HIDE DEF n
<1>3. P(0) = <<>> /\ P(n) = args
  BY SubSeqEmpty, SubSeqFull DEF n
<1>4. \A i \in 0 .. n : P(i) \in Seq(Seq(Char))
  <2> SUFFICES ASSUME NEW i \in 0 .. n PROVE P(i) \in Seq(Seq(Char))
    OBVIOUS
  <2>1. \A j \in 1 .. i : args[j] \in Seq(Char)
    BY <1>1
  <2> QED BY <1>1, <2>1, SubSeqProperties
<1>5. ASSUME NEW i \in 1 .. n PROVE P(i) = Append(P(i - 1), args[i])
  BY <1>1, <1>5 DEF n
<1> HIDE DEF P
<1>6. \A i \in 1 .. n : /\ i - 1 \in 0 .. n /\ i \in 0 .. n
                        /\ Bulks(P(i - 1)) \in Seq(Wire) /\ bulk(args[i]) \in Seq(Wire)
                        /\ Len(Bulks(P(i - 1))) \in Nat /\ Len(bulk(args[i])) \in Nat
                        /\ Bulks(P(i)) = Bulks(P(i - 1)) \o bulk(args[i])
                        /\ Len(Bulks(P(i))) = Len(Bulks(P(i - 1))) + Len(bulk(args[i]))
  <2> SUFFICES ASSUME NEW i \in 1 .. n
               PROVE  /\ i - 1 \in 0 .. n /\ i \in 0 .. n
                      /\ Bulks(P(i - 1)) \in Seq(Wire) /\ bulk(args[i]) \in Seq(Wire)
                      /\ Len(Bulks(P(i - 1))) \in Nat /\ Len(bulk(args[i])) \in Nat
                      /\ Bulks(P(i)) = Bulks(P(i - 1)) \o bulk(args[i])
                      /\ Len(Bulks(P(i))) = Len(Bulks(P(i - 1))) + Len(bulk(args[i]))
    BY Zenon
  <2>1. i - 1 \in 0 .. n /\ i \in 0 .. n
    BY <1>1
  <2>2. PICK x, w : x = args[i] /\ w = P(i - 1)
    OBVIOUS
  <2>3. x \in Seq(Char) /\ w \in Seq(Seq(Char)) /\ P(i) = Append(w, x)
    BY <1>1, <1>4, <1>5, <2>1, <2>2
  <2>4. /\ Bulks(w) \in Seq(Wire) /\ Len(Bulks(w)) \in Nat
        /\ Bulks(Append(w, x)) = Bulks(w) \o bulk(x)
        /\ Len(Bulks(Append(w, x))) = Len(Bulks(w)) + Len(bulk(x))
    BY <2>3, BulksAppend
  <2>5. bulk(x) \in Seq(Wire) /\ Len(bulk(x)) \in Nat
    BY <1>1, <2>3, BulkIs
  <2> QED BY <2>1, <2>2, <2>3, <2>4, <2>5, Zenon
\* Every prefix of the elements stands there too.
<1>7. \A i \in 0 .. n : Holds(s, at, Bulks(P(i)))
  <2> DEFINE Bad == {k \in 0 .. n : ~Holds(s, at, Bulks(P(n - k)))}
  <2>1. ASSUME Bad # {} PROVE FALSE
    <3>1. PICK k \in Bad : \A j \in Bad : k <= j
      <4>1. Bad \subseteq Nat
        OBVIOUS
      <4> HIDE DEF Bad
      <4> QED BY <2>1, <4>1, LeastExists
    <3>2. k \in 0 .. n /\ ~Holds(s, at, Bulks(P(n - k)))
      OBVIOUS
    <3>3. k # 0
      <4>1. SUFFICES ASSUME k = 0 PROVE FALSE
        OBVIOUS
      <4>2. n - k = n
        BY <1>1, <4>1
      <4> QED BY <1>3, <3>2, <4>2
    <3>4. PICK i : i = n - (k - 1)
      OBVIOUS
    <3>5. k - 1 \in 0 .. n /\ i \in 1 .. n /\ i - 1 = n - k /\ ~(k <= k - 1)
      BY <1>1, <3>2, <3>3, <3>4
    <3>6. k - 1 \notin Bad
      <4> HIDE DEF Bad
      <4> QED BY <3>1, <3>5
    <3>7. Holds(s, at, Bulks(P(i)))
      BY <3>4, <3>5, <3>6
    <3>8. Holds(s, at, Bulks(P(i - 1)) \o bulk(args[i]))
      BY <1>6, <3>5, <3>7, Zenon
    <3>9. Holds(s, at, Bulks(P(i - 1)))
      BY <1>1, <1>6, <3>5, <3>8, HoldsBoth
    <3> QED BY <3>2, <3>5, <3>9
  <2>2. ASSUME NEW i \in 0 .. n PROVE Holds(s, at, Bulks(P(i)))
    <3>1. n - i \in 0 .. n /\ n - (n - i) = i
      BY <1>1
    <3>2. n - i \notin Bad
      BY <2>1, Zenon
    <3> QED BY <3>1, <3>2
  <2> QED BY <2>2
<1>8. at <= Len(s)
  <2>1. at + Len(Bulks(args)) <= Len(s)
    BY DEF Holds
  <2>2. Len(Bulks(args)) \in Nat
    BY BulksAppend, EmptySeq
  <2> QED BY <1>1, <2>1, <2>2
<1>9. PICK f : Loops(f, s, at, n) /\ Elements(s, at, n) = f[n]
  BY <1>1, ElementsSteps
<1>10. f[0] = NoWords(at) /\ \A i \in 1 .. n : f[i] = Element(s, f[i - 1])
  BY <1>9 DEF Loops
<1> DEFINE A(i) == Acc(at + Len(Bulks(P(i))), P(i))
           Bad == {i \in 0 .. n : f[i] # A(i)}
<1>11. ASSUME Bad # {} PROVE FALSE
  <2>1. PICK i \in Bad : \A j \in Bad : i <= j
    <3>1. Bad \subseteq Nat
      OBVIOUS
    <3> HIDE DEF Bad
    <3> QED BY <1>11, <3>1, LeastExists
  <2>2. i \in 0 .. n /\ f[i] # A(i)
    OBVIOUS
  <2>3. i # 0
    <3>1. Bulks(<<>>) = <<>>
      BY BulksAppend, EmptySeq
    <3>2. at + Len(<<>>) = at
      OBVIOUS
    <3>3. Acc(at, <<>>) = NoWords(at)
      BY DEF Acc, NoWords
    <3>4. A(0) = NoWords(at)
      BY <1>3, <3>1, <3>2, <3>3, Zenon
    <3> HIDE DEF A
    <3> QED BY <1>10, <2>2, <3>4
  <2>4. i \in 1 .. n /\ i - 1 \in 0 .. n /\ i - 1 \notin Bad
    <3>1. i \in 1 .. n /\ i - 1 \in 0 .. n /\ ~(i <= i - 1)
      BY <1>1, <2>2, <2>3
    <3> HIDE DEF Bad
    <3> QED BY <2>1, <3>1
  <2>5. f[i - 1] = A(i - 1)
    BY <2>4, Zenon
  <2> HIDE DEF Bad
  <2>6. PICK w, x, k : w = P(i - 1) /\ x = args[i] /\ k = Len(Bulks(w))
    OBVIOUS
  <2>7. w \in Seq(Seq(Char)) /\ x \in Seq(Char) /\ Len(x) <= kMaxBulkLength /\ P(i) = Append(w, x)
    BY <1>1, <1>2, <1>4, <1>5, <2>4, <2>6
  <2>8. /\ Bulks(w) \in Seq(Wire) /\ bulk(x) \in Seq(Wire) /\ k \in Nat /\ Len(bulk(x)) \in Nat
        /\ Bulks(P(i)) = Bulks(w) \o bulk(x) /\ Len(Bulks(P(i))) = k + Len(bulk(x))
    BY <1>6, <2>4, <2>6, Zenon
  <2>9. Holds(s, at + k, bulk(x))
    <3>1. Holds(s, at, Bulks(w) \o bulk(x))
      BY <1>7, <2>2, <2>8, Zenon
    <3>2. Holds(s, at + Len(Bulks(w)), bulk(x))
      BY <1>1, <2>8, <3>1, HoldsBoth
    <3> QED BY <2>6, <3>2
  <2>10. at + k \in Nat
    BY <2>8
  <2>11. Element(s, Acc(at + k, w)) = Acc((at + k) + Len(bulk(x)), Append(w, x))
    BY <2>7, <2>9, <2>10, ElementRead
  <2>12. (at + k) + Len(bulk(x)) = at + Len(Bulks(P(i)))
    BY <2>8
  <2>13. f[i] = Element(s, Acc(at + k, w))
    BY <1>10, <2>4, <2>5, <2>6, Zenon
  <2>14. f[i] = A(i)
    BY <2>7, <2>11, <2>12, <2>13, Zenon
  <2> QED BY <2>2, <2>14
<1>12. f[n] = A(n)
  <2>1. n \in 0 .. n
    BY <1>1
  <2> QED BY <1>11, <2>1, Zenon
<1> QED BY <1>3, <1>9, <1>12, Zenon DEF n

\* A request is its count and its bulk strings.
LEMMA EncodedIs ==
    ASSUME NEW args \in Seq(Seq(Char)), NEW s, Len(s) \in Nat, NEW h, h = Header("*", Len(args))
    PROVE  /\ Encoded(args) \in Seq(Wire) /\ Len(Encoded(args)) = Len(h) + 2 + Len(Bulks(args))
           /\ Holds(s, 0, Encoded(args)) <=>
                Holds(s, 0, h) /\ Holds(s, Len(h), CRLF) /\ Holds(s, Len(h) + 2, Bulks(args))
<1>1. PICK a, b : a = appendNumber("*", Len(args)) /\ b = Bulks(args)
  OBVIOUS
<1>2. "*" \in Wire /\ Len(args) \in Nat
  BY LenProperties DEF Wire
<1>3. a = h \o CRLF /\ a \in Seq(Wire) /\ Len(a) = Len(h) + 2 /\ h \in Seq(Wire) /\ CRLF \in Seq(Wire)
  BY <1>1, <1>2, NumberLine
<1>4. b \in Seq(Wire) /\ Len(b) \in Nat /\ Len(h) \in Nat
  BY <1>1, <1>3, BulksAppend, EmptySeq, LenProperties
<1>5. Encoded(args) = a \o b
  BY <1>1, Zenon DEF Encoded, Bulks
<1> HIDE DEF Wire, CRLF
<1>6. a \o b \in Seq(Wire) /\ Len(a \o b) = Len(a) + Len(b)
  BY <1>3, <1>4, ConcatProperties
<1>7. Holds(s, 0, a \o b) <=> Holds(s, 0, a) /\ Holds(s, 0 + Len(a), b)
  BY <1>3, <1>4, HoldsBoth
<1>8. Holds(s, 0, h \o CRLF) <=> Holds(s, 0, h) /\ Holds(s, 0 + Len(h), CRLF)
  BY <1>3, HoldsBoth
<1>9. 0 + Len(h) = Len(h) /\ 0 + Len(a) = Len(h) + 2
  BY <1>3, <1>4
<1> QED BY <1>1, <1>3, <1>5, <1>6, <1>7, <1>8, <1>9, Zenon

\* What the array form accepts is the encoding of the command that comes out.
LEMMA ArrayHeld ==
    ASSUME NEW s \in Seq(Char), NEW r, r = parseArray(s, Cleared), r.status = "kOk"
    PROVE  \E words \in Seq(Seq(Char)) :
              /\ Len(words) <= kMaxArgs /\ WithinLimit(words) /\ r.cmd = OnlyWords(words)
              /\ Holds(s, 0, Encoded(words)) /\ r.consumed = Len(Encoded(words))
<1>1. kMaxHeaderLength \in Nat
  BY RespAssumption
<1>2. kMaxArgs \in Nat /\ Len(s) \in Nat
  BY RespAssumption, LenProperties
<1>3. PICK header : header = readLine(s, 0, kMaxHeaderLength, "kStrict")
  OBVIOUS
<1>4. r = ArrayFrom(s, header, Cleared)
  BY <1>3 DEF parseArray
<1>5. header.status \in {"kFound", "kTooLong", "kIncomplete"}
      /\ (header.status = "kFound" => header.next \in Nat /\ header.next <= Len(s))
  BY <1>1, <1>3, LineIs
<1>6. header.status = "kFound"
  <2>1. ASSUME header.status = "kIncomplete" PROVE FALSE
    <3>1. r = Incomplete(Cleared)
      BY <1>4, <2>1 DEF ArrayFrom
    <3> QED BY <3>1, ResultIs DEF Incomplete
  <2>2. ASSUME header.status = "kTooLong" PROVE FALSE
    <3>1. r = fail("kArgLength", Cleared)
      BY <1>4, <2>2 DEF ArrayFrom
    <3> QED BY <3>1, ResultIs DEF fail
  <2> QED BY <1>5, <2>1, <2>2
<1>7. PICK h, at : h = header.text /\ at = header.next
  OBVIOUS
<1>8. h \in Seq(Char) /\ at = 0 + Len(h) + 2 /\ Holds(s, 0, h) /\ Holds(s, 0 + Len(h), CRLF)
  <2>1. /\ header.text \in Seq(Char) /\ header.next = 0 + Len(header.text) + 2
        /\ Holds(s, 0, header.text) /\ Holds(s, 0 + Len(header.text), CRLF)
    BY <1>1, <1>3, <1>6, LineHeld
  <2> QED BY <1>7, <2>1, Zenon
<1>9. PICK count : count = headerValue(h, "*", kMaxArgs)
  OBVIOUS
<1>10. r = IF count = nullopt THEN fail("kArgLength", Cleared)
           ELSE Assembled(Elements(s, at, count), Cleared, count)
  BY <1>4, <1>6, <1>7, <1>9 DEF ArrayFrom
<1>11. count # nullopt
  <2>1. SUFFICES ASSUME count = nullopt PROVE FALSE
    OBVIOUS
  <2>2. r = fail("kArgLength", Cleared)
    BY <1>10, <2>1
  <2> QED BY <2>2, ResultIs DEF fail
<1>12. count \in 0 .. kMaxArgs /\ h = Header("*", count)
  <2>1. headerValue(h, "*", kMaxArgs) # nullopt =>
          /\ headerValue(h, "*", kMaxArgs) \in 0 .. kMaxArgs
          /\ h = Header("*", headerValue(h, "*", kMaxArgs))
    BY <1>2, <1>8, HeaderReads
  <2> QED BY <1>9, <1>11, <2>1, Zenon
<1>13. PICK all : all = Elements(s, at, count)
  OBVIOUS
<1>14. r = Assembled(all, Cleared, count)
  BY <1>10, <1>11, <1>13
<1>15. at \in Nat /\ at <= Len(s) /\ count \in Nat /\ count <= kMaxArgs /\ Len(h) \in Nat
  <2>1. at \in Nat /\ at <= Len(s)
    BY <1>5, <1>6, <1>7
  <2> QED BY <1>2, <1>8, <1>12, <2>1, LenProperties
<1>16. all.status \in {"kFound", "kTooLong", "kBadTrailer", "kIncomplete"}
  BY <1>13, <1>15, ElementsStop DEF Verdicts
<1>17. PICK cmd : cmd = Written(Cleared, all.words)
  OBVIOUS
<1>18. all.status = "kFound"
  <2>1. ASSUME all.status = "kIncomplete" PROVE FALSE
    <3>1. r = Incomplete(cmd)
      BY <1>14, <1>17, <2>1 DEF Assembled
    <3> QED BY <3>1, ResultIs DEF Incomplete
  <2>2. ASSUME all.status \in {"kTooLong", "kBadTrailer"} PROVE FALSE
    <3>1. r = fail("kBulkLength", cmd)
      BY <1>14, <1>17, <2>2 DEF Assembled
    <3> QED BY <3>1, ResultIs DEF fail
  <2> QED BY <1>16, <2>1, <2>2
<1>19. r = Result("kOk", all.cursor, "none", publish(cmd, count))
  BY <1>14, <1>17, <1>18 DEF Assembled
<1>20. r.consumed = all.cursor /\ r.cmd = publish(cmd, count)
  BY <1>19, ResultIs
<1>21. PICK words : words = all.words
  OBVIOUS
<1>22. /\ words \in Seq(Seq(Char)) /\ Len(words) = count /\ WithinLimit(words)
       /\ Holds(s, at, Bulks(words)) /\ all.cursor = at + Len(Bulks(words))
  <2>1. /\ all.words \in Seq(Seq(Char)) /\ Len(all.words) = count /\ WithinLimit(all.words)
        /\ Holds(s, at, Bulks(all.words)) /\ all.cursor = at + Len(Bulks(all.words))
    <3>1. at \in Nat /\ at <= Len(s) /\ count \in Nat
      BY <1>15
    <3>2. AreElements(s, at, count, all)
      BY <1>13, <1>18, <3>1, ElementsHeld
    <3> QED BY <3>2, Zenon DEF AreElements
  <2> QED BY <1>21, <2>1, Zenon
<1>23. r.cmd = OnlyWords(words)
  <2>1. IsCommand(Cleared)
    BY DEF IsCommand, Cleared
  <2>2. publish(Written(Cleared, words), Len(words)) = OnlyWords(words)
    BY <2>1, PublishedIs
  <2> QED BY <1>17, <1>20, <1>21, <1>22, <2>2, Zenon
<1>24. 0 + Len(h) = Len(h) /\ at = Len(h) + 2
  BY <1>8, <1>15
<1>25. h = Header("*", Len(words))
  BY <1>12, <1>22
<1>26. /\ Len(Encoded(words)) = Len(h) + 2 + Len(Bulks(words))
       /\ Holds(s, 0, h) /\ Holds(s, Len(h), CRLF) /\ Holds(s, Len(h) + 2, Bulks(words))
            => Holds(s, 0, Encoded(words))
  BY <1>2, <1>22, <1>25, EncodedIs
<1>27. Holds(s, 0, Encoded(words)) /\ r.consumed = Len(Encoded(words))
  BY <1>8, <1>20, <1>22, <1>24, <1>26, Zenon
<1>28. Len(words) <= kMaxArgs
  BY <1>15, <1>22
<1> QED BY <1>22, <1>23, <1>27, <1>28

\* And every encoding within the limits is accepted, whatever follows it.
LEMMA ArrayRead ==
    ASSUME NEW s \in Seq(Char), NEW args \in Seq(Seq(Char)), Len(args) <= kMaxArgs, WithinLimit(args),
           Holds(s, 0, Encoded(args))
    PROVE  Parsed(s).status = "kOk"
<1>1. /\ kMaxHeaderLength \in Nat /\ kMaxArgs \in Nat /\ kMaxArgs <= SizeMax
      /\ 1 + Len(to_chars[kMaxArgs]) <= kMaxHeaderLength
  BY RespAssumption, LimitsAssumption
<1>2. Len(s) \in Nat /\ Len(args) \in Nat
  BY LenProperties
<1>3. PICK count, h : count = Len(args) /\ h = Header("*", count)
  OBVIOUS
<1>4. Holds(s, 0, h) /\ Holds(s, Len(h), CRLF) /\ Holds(s, Len(h) + 2, Bulks(args))
  BY <1>2, <1>3, EncodedIs
<1>5. count \in 0 .. kMaxArgs /\ count \in Nat
  BY <1>1, <1>2, <1>3
<1>6. h \in Seq(Digits \cup {"*"}) /\ Len(h) = 1 + Len(to_chars[count]) /\ Len(to_chars[count]) \in Nat \ {0}
      /\ h[1] = "*"
  BY <1>3, <1>5, HeaderText
<1>7. Len(h) <= kMaxHeaderLength /\ Len(h) \in Nat /\ Len(h) >= 1
  <2>1. Len(to_chars[count]) <= Len(to_chars[kMaxArgs]) /\ Len(to_chars[kMaxArgs]) \in Nat
    BY <1>1, <1>5, ToCharsLength, ToCharsIs
  <2> QED BY <1>1, <1>6, <2>1
<1>8. PICK header : header = readLine(s, 0, kMaxHeaderLength, "kStrict")
  OBVIOUS
<1>9. header = Found(s, 0, Len(h), 0 + Len(h) + 2) /\ Bytes(s, 0, Len(h)) = h
  <2>1. PICK S : S = Digits \cup {"*"}
    OBVIOUS
  <2>2. LF \notin Digits
    BY DEF LF, Digits, ToSet, Numeral
  <2>3. LF \notin S
    BY <2>1, <2>2 DEF LF
  <2>4. h \in Seq(S)
    BY <1>6, <2>1, Zenon
  <2>5. Holds(s, 0 + Len(h), CRLF)
    <3>1. 0 + Len(h) = Len(h)
      BY <1>7
    <3> QED BY <1>4, <3>1, Zenon
  <2>6. kMaxHeaderLength \in Nat /\ 0 \in Nat
    BY <1>1
  <2> QED BY <1>4, <1>7, <1>8, <2>3, <2>4, <2>5, <2>6, LineRead
<1>10. header.status = "kFound" /\ header.text = h /\ header.next = Len(h) + 2
  <2>1. header.status = "kFound" /\ header.text = Bytes(s, 0, Len(h)) /\ header.next = 0 + Len(h) + 2
    BY <1>9 DEF Found
  <2> QED BY <1>7, <1>9, <2>1
<1>11. headerValue(h, "*", kMaxArgs) = count
  BY <1>1, <1>3, <1>5, HeaderReads
<1>12. PICK at, all : at = Len(h) + 2 /\ all = Elements(s, at, count)
  OBVIOUS
<1>13. all = Acc(at + Len(Bulks(args)), args)
  <2>1. at \in Nat /\ Holds(s, at, Bulks(args))
    BY <1>4, <1>7, <1>12
  <2>2. Elements(s, at, Len(args)) = Acc(at + Len(Bulks(args)), args)
    BY <2>1, ElementsRead
  <2> QED BY <1>3, <1>12, <2>2, Zenon
<1>14. all.status = "kFound"
  BY <1>13 DEF Acc
<1>15. PICK r : r = parseArray(s, Cleared)
  OBVIOUS
<1>16. r = ArrayFrom(s, header, Cleared)
  BY <1>8, <1>15 DEF parseArray
<1>17. count # nullopt
  BY <1>5 DEF nullopt
<1>18. r = Assembled(all, Cleared, count)
  BY <1>10, <1>11, <1>12, <1>16, <1>17 DEF ArrayFrom
<1>19. r = Result("kOk", all.cursor, "none", publish(Written(Cleared, all.words), count))
  BY <1>14, <1>18 DEF Assembled
<1>20. r.status = "kOk"
  BY <1>19, ResultIs
<1>21. s # <<>> /\ s[1] = "*"
  <2>1. s[0 + 1] = h[1] /\ Len(h) <= Len(s)
    BY <1>4, <1>7 DEF Holds
  <2> QED BY <1>2, <1>6, <1>7, <2>1
<1>22. Parsed(s) = Settled(r)
  BY <1>15, <1>21 DEF Parsed, parseCommand
<1>23. Made(r)
  BY <1>15, ArrayMade
<1> QED BY <1>20, <1>22, <1>23, MadeSettled

-----------------------------------------------------------------------------
(* The words of an inline line.                                            *)

LEMMA NextBlankIs ==
    ASSUME NEW text, NEW n \in Nat, n = Len(text), NEW pos \in 1 .. n + 1, NEW b, b = NextBlank(text, pos)
    PROVE  /\ b \in pos .. n + 1 /\ (b <= n => Blank(text[b]))
           /\ \A i \in pos .. b - 1 : ~Blank(text[i])
<1> DEFINE M == {i \in pos .. n + 1 : i > n \/ Blank(text[i])}
<1>1. n + 1 \in M /\ M \subseteq Nat
  OBVIOUS
<1>2. b = Min(M)
  BY DEF NextBlank
<1>3. b \in M /\ \A i \in M : b <= i
  <2> HIDE DEF M
  <2> QED BY <1>1, <1>2, MinIsLeast
<1>4. b \in pos .. n + 1 /\ (b <= n => Blank(text[b]))
  BY <1>3
<1>5. ASSUME NEW i \in pos .. b - 1 PROVE ~Blank(text[i])
  <2>1. i \in pos .. n + 1 /\ ~(b <= i)
    BY <1>4
  <2>2. i \notin M
    <3> HIDE DEF M
    <3> QED BY <1>3, <2>1
  <2> QED BY <2>1, <2>2
<1> QED BY <1>4, <1>5

LEMMA NextWordIs ==
    ASSUME NEW text, NEW n \in Nat, n = Len(text), NEW pos \in 1 .. n + 1, NEW w, w = NextWord(text, pos)
    PROVE  /\ w \in pos .. n + 1 /\ (w <= n => ~Blank(text[w]))
           /\ \A i \in pos .. w - 1 : Blank(text[i])
<1> DEFINE M == {i \in pos .. n + 1 : i > n \/ ~Blank(text[i])}
<1>1. n + 1 \in M /\ M \subseteq Nat
  OBVIOUS
<1>2. w = Min(M)
  BY DEF NextWord
<1>3. w \in M /\ \A i \in M : w <= i
  <2> HIDE DEF M
  <2> QED BY <1>1, <1>2, MinIsLeast
<1>4. w \in pos .. n + 1 /\ (w <= n => ~Blank(text[w]))
  BY <1>3
<1>5. ASSUME NEW i \in pos .. w - 1 PROVE Blank(text[i])
  <2>1. i \in pos .. n + 1 /\ ~(w <= i)
    BY <1>4
  <2>2. i \notin M
    <3> HIDE DEF M
    <3> QED BY <1>3, <2>1
  <2> QED BY <2>1, <2>2
<1> QED BY <1>4, <1>5

\* Where the word after pos starts and ends.
WordStart(text, pos) == NextWord(text, pos)
WordStop(text, pos) == NextBlank(text, NextWord(text, pos))
WordAt(text, pos) == SubSeq(text, WordStart(text, pos), WordStop(text, pos) - 1)

\* w is the next word from pos on, from a up to b.
Delimits(text, S, pos, a, b, w) ==
    /\ a \in pos .. Len(text) /\ b \in a + 1 .. Len(text) + 1 /\ b \in 1 .. Len(text) + 1
    /\ w \in Seq(S) /\ Len(w) = b - a
    /\ \A i \in pos .. a - 1 : Blank(text[i])
    /\ \A i \in a .. b - 1 : ~Blank(text[i])
    /\ b <= Len(text) => Blank(text[b])

LEMMA WordIs ==
    ASSUME NEW S, NEW text \in Seq(S), NEW n, n = Len(text), NEW pos \in 1 .. n + 1,
           NEW a, a = WordStart(text, pos), NEW b, b = WordStop(text, pos), a <= n
    PROVE  Delimits(text, S, pos, a, b, WordAt(text, pos))
<1>1. n \in Nat /\ \A i \in 1 .. n : text[i] \in S
  BY LenProperties, ElementOfSeq
<1>2. a \in pos .. n + 1 /\ (a <= n => ~Blank(text[a])) /\ \A i \in pos .. a - 1 : Blank(text[i])
  BY <1>1, NextWordIs DEF WordStart
<1>3. a \in 1 .. n + 1
  BY <1>1, <1>2
<1>4. b = NextBlank(text, a)
  BY DEF WordStart, WordStop
<1>5. b \in a .. n + 1 /\ (b <= n => Blank(text[b])) /\ \A i \in a .. b - 1 : ~Blank(text[i])
  BY <1>1, <1>3, <1>4, NextBlankIs
<1>6. b # a
  BY <1>2, <1>5
<1>7. b \in a + 1 .. n + 1 /\ a \in pos .. n /\ b \in 1 .. n + 1
  BY <1>1, <1>2, <1>3, <1>5, <1>6
<1>8. PICK w : w = SubSeq(text, a, b - 1)
  OBVIOUS
<1>9. w \in Seq(S) /\ Len(w) = b - a
  <2>1. \A i \in a .. b - 1 : text[i] \in S
    BY <1>1, <1>3, <1>7
  <2>2. a \in Int /\ b - 1 \in Int /\ a <= b - 1 /\ (b - 1) - a + 1 = b - a
    BY <1>3, <1>7
  <2> QED BY <1>8, <2>1, <2>2, SubSeqProperties
<1>10. WordAt(text, pos) = w
  BY <1>8 DEF WordAt
<1>11. Delimits(text, S, pos, a, b, w)
  BY <1>2, <1>5, <1>7, <1>9, Zenon DEF Delimits
<1> QED BY <1>10, <1>11

Splits(f, text, S) ==
    \A pos \in 1 .. Len(text) + 1 :
        /\ f[pos] \in Seq(Seq(S))
        /\ WordStart(text, pos) > Len(text) => f[pos] = <<>>
        /\ ~(WordStart(text, pos) > Len(text)) =>
               f[pos] = <<WordAt(text, pos)>> \o f[WordStop(text, pos)]

\* The loop of parseInline, from each place in the line.
LEMMA WordsSteps ==
    ASSUME NEW S, NEW text \in Seq(S)
    PROVE  \E f : Splits(f, text, S) /\ Words(text) = f[1]
<1> DEFINE n == Len(text)
           D == 1 .. n + 1
           T == Seq(Seq(S))
           Base == {pos \in D : WordStart(text, pos) > n}
           base == [pos \in D |-> <<>>]
           step == [x \in D \X T |-> <<WordAt(text, x[1])>> \o x[2]]
           step2 == [x \in D \X T |-> IF x[1] \in Base THEN <<>> ELSE step[x]]
           p == [pos \in D |-> WordStop(text, pos)]
           rank == [pos \in D |-> n + 1 - pos]
<1>1. n \in Nat
  BY LenProperties
<1>2. <<>> \in T
  BY EmptySeq
<1> HIDE DEF n
<1>3. ASSUME NEW pos \in D, pos \notin Base
      PROVE  p[pos] \in D /\ rank[p[pos]] < rank[pos] /\ WordAt(text, pos) \in Seq(S)
  <2>1. ~(WordStart(text, pos) > n)
    BY <1>3
  <2>2. PICK a, b : a = WordStart(text, pos) /\ b = WordStop(text, pos)
    OBVIOUS
  <2>3. a \in pos .. n + 1
    BY <1>1, <2>2, NextWordIs DEF WordStart, n
  <2>4. a <= n
    BY <1>1, <2>1, <2>2, <2>3
  <2>5. a \in pos .. n /\ b \in a + 1 .. n + 1 /\ b \in 1 .. n + 1 /\ WordAt(text, pos) \in Seq(S)
    <3>1. Delimits(text, S, pos, a, b, WordAt(text, pos))
      BY <2>2, <2>4, WordIs DEF n
    <3> QED BY <3>1, Zenon DEF Delimits, n
  <2>6. b \in D /\ b > pos
    BY <1>1, <2>5
  <2> QED BY <1>1, <2>2, <2>5, <2>6
<1>4. rank \in [D -> Nat] /\ T # {} /\ \A pos \in D : pos \in Base => base[pos] \in T
  <2> HIDE DEF T, Base
  <2> QED BY <1>1, <1>2
<1>5. ASSUME NEW pos \in D, NEW x \in T
      PROVE  /\ step2[<<pos, x>>] \in T
             /\ pos \notin Base => step2[<<pos, x>>] = <<WordAt(text, pos)>> \o x
  <2>1. PICK w, y : w = WordAt(text, pos) /\ y = <<w>> \o x
    OBVIOUS
  <2>2. step[<<pos, x>>] = y
    <3> HIDE DEF D, T
    <3> QED BY <2>1
  <2>3. step2[<<pos, x>>] = IF pos \in Base THEN <<>> ELSE y
    <3> HIDE DEF D, T, Base, step
    <3> QED BY <2>2
  <2>4. pos \notin Base => y \in T
    <3>1. SUFFICES ASSUME pos \notin Base PROVE y \in T
      OBVIOUS
    <3>2. w \in Seq(S)
      BY <1>3, <2>1, <3>1
    <3>3. <<w>> \in Seq(Seq(S))
      BY <3>2
    <3> QED BY <2>1, <3>3, ConcatProperties
  <2> QED BY <1>2, <2>1, <2>3, <2>4
<1>6. \A pos \in D : (pos \in Base <=> WordStart(text, pos) > n) /\ base[pos] = <<>> /\ p[pos] = WordStop(text, pos)
  OBVIOUS
<1> HIDE DEF D, T, Base, base, step, step2, p, rank
<1>7. Descends(D, T, Base, base, step2, p, rank)
  BY <1>3, <1>4, <1>5 DEF Descends
<1>8. PICK f \in [D -> T] : Solution(f, D, Base, base, step2, p)
  BY <1>7, RecursionExists
<1> DEFINE Body(g, pos) == IF WordStart(text, pos) > n THEN <<>>
                           ELSE <<WordAt(text, pos)>> \o g[WordStop(text, pos)]
<1>9. ASSUME NEW pos \in D PROVE f[pos] = Body(f, pos)
  <2>1. f[pos] = IF pos \in Base THEN base[pos] ELSE step2[<<pos, f[p[pos]]>>]
    BY <1>8 DEF Solution
  <2>2. CASE pos \in Base
    BY <1>6, <2>1, <2>2
  <2>3. CASE pos \notin Base
    <3>1. f[p[pos]] \in T
      BY <1>3, <1>8, <2>3
    <3>2. f[pos] = <<WordAt(text, pos)>> \o f[p[pos]]
      BY <1>5, <2>1, <2>3, <3>1, Zenon
    <3> QED BY <1>6, <2>3, <3>2, Zenon
  <2> QED BY <2>2, <2>3
<1>10. Words(text) = (CHOOSE g : g = [pos \in D |-> Body(g, pos)])[1]
  BY Zenon DEF Words, WordStart, WordStop, WordAt, D, n
<1>11. PICK g : g = CHOOSE h : h = [pos \in D |-> Body(h, pos)]
  OBVIOUS
<1> HIDE DEF Body
<1>12. g = [pos \in D |-> Body(g, pos)]
  <2>1. f = [pos \in D |-> Body(f, pos)]
    BY <1>8, <1>9
  <2> QED BY <1>11, <2>1, Zenon
<1>13. \A pos \in D : g[pos] = Body(g, pos)
  BY <1>12
<1> DEFINE Bad == {k \in 0 .. n : g[n + 1 - k] \notin T}
<1>14. ASSUME Bad # {} PROVE FALSE
  <2>1. PICK k \in Bad : \A j \in Bad : k <= j
    <3>1. Bad \subseteq Nat
      OBVIOUS
    <3> HIDE DEF Bad
    <3> QED BY <1>14, <3>1, LeastExists
  <2>2. PICK pos : pos = n + 1 - k
    OBVIOUS
  <2>3. k \in 0 .. n /\ pos \in D /\ g[pos] \notin T
    BY <1>1, <2>2 DEF D
  <2>4. ~(WordStart(text, pos) > n)
    BY <1>2, <1>13, <2>3 DEF Body
  <2>5. pos \notin Base
    BY <1>6, <2>3, <2>4
  <2>6. PICK b : b = WordStop(text, pos)
    OBVIOUS
  <2>7. b \in D /\ b > pos /\ WordAt(text, pos) \in Seq(S)
    <3>1. p[pos] \in D /\ rank[p[pos]] < rank[pos] /\ WordAt(text, pos) \in Seq(S) /\ p[pos] = b
      BY <1>3, <1>6, <2>3, <2>5, <2>6
    <3>2. rank[b] = n + 1 - b /\ rank[pos] = n + 1 - pos
      BY <2>3, <3>1 DEF rank
    <3>3. b \in Int /\ pos \in Int
      BY <1>1, <2>3, <3>1 DEF D
    <3> QED BY <1>1, <3>1, <3>2, <3>3
  <2>8. n + 1 - b \in 0 .. n /\ ~(k <= n + 1 - b) /\ n + 1 - (n + 1 - b) = b
    BY <1>1, <2>2, <2>3, <2>7 DEF D
  <2>9. n + 1 - b \notin Bad
    <3> HIDE DEF Bad
    <3> QED BY <2>1, <2>8
  <2>10. g[b] \in T
    BY <2>8, <2>9
  <2>11. g[pos] = <<WordAt(text, pos)>> \o g[b]
    BY <1>13, <2>3, <2>4, <2>6, Zenon DEF Body
  <2>12. <<WordAt(text, pos)>> \in T
    BY <2>7 DEF T
  <2>13. g[pos] \in T
    BY <2>10, <2>11, <2>12, ConcatProperties DEF T
  <2> QED BY <2>3, <2>13
<1>15. ASSUME NEW pos \in D PROVE g[pos] \in T
  <2>1. n + 1 - pos \in 0 .. n /\ n + 1 - (n + 1 - pos) = pos
    BY <1>1 DEF D
  <2>2. n + 1 - pos \notin Bad
    BY <1>14, Zenon
  <2> QED BY <2>1, <2>2
<1>16. \A pos \in D : /\ WordStart(text, pos) > n => g[pos] = <<>>
                      /\ ~(WordStart(text, pos) > n) =>
                            g[pos] = <<WordAt(text, pos)>> \o g[WordStop(text, pos)]
  BY <1>13, Zenon DEF Body
<1>17. Splits(g, text, S)
  BY <1>15, <1>16, Zenon DEF Splits, D, T, n
<1> QED BY <1>10, <1>11, <1>17, Zenon

\* A place that no word crosses.
Boundary(text, pos) == pos = 1 \/ pos > Len(text) \/ Blank(text[pos])

\* words are the words of the text from pos on, the k-th of them at[k].
Placed(text, pos, words, at) ==
    /\ at \in [1 .. Len(words) -> pos .. Len(text)]
    /\ \A k \in 1 .. Len(words) : IsWord(text, at[k], words[k])
    /\ \A j, k \in 1 .. Len(words) : j < k => at[j] < at[k]
    /\ \A i \in pos .. Len(text) : Blank(text[i])
           \/ \E k \in 1 .. Len(words) : i \in at[k] .. at[k] + Len(words[k]) - 1

LEMMA WordAtIsWord ==
    ASSUME NEW S, NEW text \in Seq(S), NEW n, n = Len(text), NEW pos \in 1 .. n + 1, Boundary(text, pos),
           NEW a, a = WordStart(text, pos), a <= n
    PROVE  IsWord(text, a, WordAt(text, pos))
<1>1. n \in Nat
  BY LenProperties
<1>2. PICK b, w : b = WordStop(text, pos) /\ w = WordAt(text, pos)
  OBVIOUS
<1>3. /\ a \in pos .. n /\ b \in a + 1 .. n + 1 /\ w \in Seq(S) /\ Len(w) = b - a
      /\ \A i \in pos .. a - 1 : Blank(text[i])
      /\ \A i \in a .. b - 1 : ~Blank(text[i])
      /\ b <= n => Blank(text[b])
  <2>1. b = WordStop(text, pos)
    BY <1>2
  <2>2. Delimits(text, S, pos, a, b, WordAt(text, pos))
    BY <2>1, WordIs
  <2> QED BY <1>2, <2>2, Zenon DEF Delimits
<1>4. a \in Nat /\ b \in Nat /\ a < b /\ b <= n + 1 /\ a + Len(w) = b /\ Len(w) # 0
  BY <1>1, <1>3
<1>5. w # <<>> /\ w = SubSeq(text, a, b - 1)
  <2>1. w # <<>>
    BY <1>4
  <2> QED BY <1>2, <2>1, Zenon DEF WordAt
<1>6. a = 1 \/ Blank(text[a - 1])
  <2>1. CASE a = pos
    <3>1. a \in a .. b - 1
      BY <1>4
    <3>2. ~Blank(text[a])
      BY <1>3, <3>1
    <3> QED BY <1>1, <1>4, <2>1, <3>2 DEF Boundary
  <2>2. CASE a # pos
    <3>1. a - 1 \in pos .. a - 1
      BY <1>1, <1>3, <2>2
    <3> QED BY <1>3, <3>1
  <2> QED BY <2>1, <2>2
<1>7. b > n \/ Blank(text[b])
  BY <1>1, <1>3, <1>4
<1>8. IsWord(text, a, w)
  BY <1>3, <1>4, <1>5, <1>6, <1>7 DEF IsWord
<1> QED BY <1>2, <1>8

\* One word more in front.
LEMMA PlacedStep ==
    ASSUME NEW S, NEW text \in Seq(S), NEW n, n = Len(text), NEW pos \in 1 .. n + 1, Boundary(text, pos),
           WordStart(text, pos) <= n, NEW rest \in Seq(Seq(S)), NEW at,
           Placed(text, WordStop(text, pos), rest, at),
           NEW words, words = <<WordAt(text, pos)>> \o rest
    PROVE  \E at2 : Placed(text, pos, words, at2)
<1>1. n \in Nat
  BY LenProperties
<1>2. PICK a, b, w : a = WordStart(text, pos) /\ b = WordStop(text, pos) /\ w = WordAt(text, pos)
  OBVIOUS
<1>3. /\ a \in pos .. n /\ b \in a + 1 .. n + 1 /\ w \in Seq(S) /\ Len(w) = b - a
      /\ \A i \in pos .. a - 1 : Blank(text[i])
  <2>1. a = WordStart(text, pos) /\ b = WordStop(text, pos) /\ a <= n
    BY <1>2
  <2>2. Delimits(text, S, pos, a, b, WordAt(text, pos))
    BY <2>1, WordIs
  <2> QED BY <1>2, <2>2, Zenon DEF Delimits
<1>4. IsWord(text, a, w)
  BY <1>2, WordAtIsWord
<1>5. PICK m : m = Len(rest)
  OBVIOUS
<1>6. m \in Nat /\ Len(words) = m + 1 /\ words[1] = w /\ \A k \in 2 .. m + 1 : words[k] = rest[k - 1]
  <2>1. m \in Nat
    BY <1>5, LenProperties
  <2>2. <<w>> \in Seq(Seq(S)) /\ Len(<<w>>) = 1 /\ <<w>>[1] = w
    BY <1>3
  <2>3. words = <<w>> \o rest
    BY <1>2
  <2>4. /\ Len(<<w>> \o rest) = Len(<<w>>) + Len(rest)
        /\ \A i \in 1 .. Len(<<w>>) + Len(rest) :
              (<<w>> \o rest)[i] = IF i <= Len(<<w>>) THEN <<w>>[i] ELSE rest[i - Len(<<w>>)]
    BY <2>2, ConcatProperties
  <2> QED BY <1>5, <2>1, <2>2, <2>3, <2>4
<1>7. /\ at \in [1 .. m -> b .. n]
      /\ \A k \in 1 .. m : IsWord(text, at[k], rest[k])
      /\ \A j, k \in 1 .. m : j < k => at[j] < at[k]
      /\ \A i \in b .. n : Blank(text[i]) \/ \E k \in 1 .. m : i \in at[k] .. at[k] + Len(rest[k]) - 1
  BY <1>2, <1>5, Zenon DEF Placed
<1>8. PICK at2 : at2 = [k \in 1 .. m + 1 |-> IF k = 1 THEN a ELSE at[k - 1]]
  OBVIOUS
<1>9. at2[1] = a /\ \A k \in 2 .. m + 1 : at2[k] = at[k - 1] /\ k - 1 \in 1 .. m
  BY <1>6, <1>8
<1>10. at2 \in [1 .. m + 1 -> pos .. n]
  <2>1. ASSUME NEW k \in 1 .. m + 1 PROVE at2[k] \in pos .. n
    <3>1. CASE k = 1
      BY <1>3, <1>9, <3>1
    <3>2. CASE k # 1
      <4>1. k \in 2 .. m + 1
        BY <1>6, <3>2
      <4>2. at[k - 1] \in b .. n
        BY <1>7, <1>9, <4>1
      <4> QED BY <1>1, <1>3, <1>9, <4>1, <4>2
    <3> QED BY <3>1, <3>2
  <2> QED BY <1>8, <2>1
<1>11. ASSUME NEW k \in 1 .. m + 1 PROVE IsWord(text, at2[k], words[k])
  <2>1. CASE k = 1
    BY <1>4, <1>6, <1>9, <2>1, Zenon
  <2>2. CASE k # 1
    <3>1. k \in 2 .. m + 1
      BY <1>6, <2>2
    <3>2. at2[k] = at[k - 1] /\ words[k] = rest[k - 1] /\ k - 1 \in 1 .. m
      BY <1>6, <1>9, <3>1
    <3> QED BY <1>7, <3>2, Zenon
  <2> QED BY <2>1, <2>2
<1>12. ASSUME NEW j \in 1 .. m + 1, NEW k \in 1 .. m + 1, j < k PROVE at2[j] < at2[k]
  <2>1. k \in 2 .. m + 1
    BY <1>6, <1>12
  <2>2. at2[k] = at[k - 1] /\ k - 1 \in 1 .. m /\ at[k - 1] \in b .. n
    BY <1>7, <1>9, <2>1
  <2>3. CASE j = 1
    BY <1>1, <1>3, <1>9, <2>2, <2>3
  <2>4. CASE j # 1
    <3>1. j \in 2 .. m + 1 /\ j - 1 < k - 1
      BY <1>6, <1>12, <2>4
    <3>2. at2[j] = at[j - 1] /\ j - 1 \in 1 .. m
      BY <1>9, <3>1
    <3> QED BY <1>7, <2>2, <3>1, <3>2
  <2> QED BY <2>3, <2>4
<1>13. ASSUME NEW i \in pos .. n, ~Blank(text[i])
       PROVE  \E k \in 1 .. m + 1 : i \in at2[k] .. at2[k] + Len(words[k]) - 1
  <2>1. i \notin pos .. a - 1
    BY <1>3, <1>13
  <2>2. i \in a .. n /\ i \in Nat /\ a \in Nat /\ b \in Nat
    BY <1>1, <1>3, <2>1
  <2>3. CASE i < b
    <3>1. a + Len(w) - 1 = b - 1
      BY <1>3, <2>2
    <3>2. i \in a .. a + Len(w) - 1
      BY <2>2, <2>3, <3>1
    <3>3. 1 \in 1 .. m + 1
      BY <1>6
    <3> QED BY <1>6, <1>9, <3>2, <3>3
  <2>4. CASE ~(i < b)
    <3>1. i \in b .. n
      BY <2>2, <2>4
    <3>2. PICK k \in 1 .. m : i \in at[k] .. at[k] + Len(rest[k]) - 1
      BY <1>7, <1>13, <3>1
    <3>3. k + 1 \in 2 .. m + 1 /\ k + 1 \in 1 .. m + 1 /\ k + 1 - 1 = k
      BY <1>6
    <3>4. at2[k + 1] = at[k] /\ words[k + 1] = rest[k]
      BY <1>6, <1>9, <3>3
    <3> QED BY <3>2, <3>3, <3>4
  <2> QED BY <2>3, <2>4
<1>14. Placed(text, pos, words, at2)
  BY <1>6, <1>10, <1>11, <1>12, <1>13, Zenon DEF Placed
<1> QED BY <1>14

\* The arguments of an inline line are its words.
LEMMA WordsAre ==
    ASSUME NEW S, NEW text \in Seq(S)
    PROVE  /\ Words(text) \in Seq(Seq(S)) /\ SameWords(text, Words(text))
           /\ \A k \in 1 .. Len(Words(text)) : Len(Words(text)[k]) <= Len(text)
<1>1. PICK n : n = Len(text)
  OBVIOUS
<1>2. n \in Nat
  BY <1>1, LenProperties
<1>3. PICK f : Splits(f, text, S) /\ Words(text) = f[1]
  BY WordsSteps
<1> DEFINE Good(pos) == Boundary(text, pos) => \E at : Placed(text, pos, f[pos], at)
           Bad == {k \in 0 .. n : ~Good(n + 1 - k)}
<1>4. ASSUME Bad # {} PROVE FALSE
  <2>1. PICK k \in Bad : \A j \in Bad : k <= j
    <3>1. Bad \subseteq Nat
      OBVIOUS
    <3> HIDE DEF Bad
    <3> QED BY <1>4, <3>1, LeastExists
  <2>2. PICK pos : pos = n + 1 - k
    OBVIOUS
  <2>3. k \in 0 .. n /\ ~Good(pos)
    BY <2>2
  <2>4. Boundary(text, pos) /\ ~\E at : Placed(text, pos, f[pos], at)
    BY <2>3
  <2>5. pos \in 1 .. n + 1 /\ pos \in 1 .. Len(text) + 1
    BY <1>1, <1>2, <2>2, <2>3
  <2> HIDE DEF Good, Bad
  <2>6. PICK a : a = WordStart(text, pos)
    OBVIOUS
  <2>7. a \in pos .. n + 1 /\ \A i \in pos .. a - 1 : Blank(text[i])
    BY <1>1, <1>2, <2>5, <2>6, NextWordIs DEF WordStart
  <2>8. CASE a > n
    <3>1. f[pos] = <<>>
      BY <1>1, <1>3, <2>5, <2>6, <2>8 DEF Splits
    <3>2. Len(f[pos]) = 0 /\ 1 .. 0 = {}
      BY <3>1
    <3>3. \A i \in pos .. n : Blank(text[i])
      BY <1>2, <2>5, <2>7, <2>8
    <3>4. PICK at : at = [k2 \in {} |-> 1]
      OBVIOUS
    <3>5. at \in [1 .. 0 -> pos .. n]
      BY <3>2, <3>4
    <3>6. Placed(text, pos, f[pos], at)
      BY <1>1, <3>2, <3>3, <3>5, Zenon DEF Placed
    <3> QED BY <2>4, <3>6
  <2>9. CASE ~(a > n)
    <3>1. PICK b : b = WordStop(text, pos)
      OBVIOUS
    <3>2. f[pos] = <<WordAt(text, pos)>> \o f[b]
      BY <1>1, <1>3, <2>5, <2>6, <2>9, <3>1, Zenon DEF Splits
    <3>3. a <= n
      BY <1>2, <2>5, <2>7, <2>9
    <3>4. b \in a + 1 .. n + 1 /\ b \in 1 .. n + 1 /\ (b <= n => Blank(text[b]))
      <4>1. Delimits(text, S, pos, a, b, WordAt(text, pos))
        BY <1>1, <2>5, <2>6, <3>1, <3>3, WordIs
      <4> QED BY <1>1, <4>1, Zenon DEF Delimits
    <3>5. b > pos /\ b \in Nat
      BY <1>2, <2>5, <2>7, <3>4
    <3>6. n + 1 - b \in 0 .. n /\ ~(k <= n + 1 - b) /\ n + 1 - (n + 1 - b) = b
      BY <1>2, <2>2, <2>3, <2>5, <3>4, <3>5
    <3>7. n + 1 - b \notin Bad
      BY <2>1, <3>6
    <3>8. Good(b)
      BY <3>6, <3>7 DEF Bad
    <3>9. Boundary(text, b)
      BY <1>1, <1>2, <3>4, <3>5 DEF Boundary
    <3>10. PICK at : Placed(text, b, f[b], at)
      BY <3>8, <3>9 DEF Good
    <3>11. f[b] \in Seq(Seq(S))
      BY <1>1, <1>3, <3>4, Zenon DEF Splits
    <3>12. PICK rest, words : rest = f[b] /\ words = f[pos]
      OBVIOUS
    <3>13. rest \in Seq(Seq(S)) /\ Placed(text, WordStop(text, pos), rest, at)
           /\ words = <<WordAt(text, pos)>> \o rest /\ WordStart(text, pos) <= n
      BY <2>6, <3>1, <3>2, <3>3, <3>10, <3>11, <3>12, Zenon
    <3>14. \E at2 : Placed(text, pos, words, at2)
      BY <1>1, <2>4, <2>5, <3>13, PlacedStep
    <3> QED BY <2>4, <3>12, <3>14, Zenon
  <2> QED BY <2>8, <2>9
<1>5. Good(1)
  <2>1. n \in 0 .. n /\ n + 1 - n = 1
    BY <1>2
  <2>2. n \notin Bad
    BY <1>4, Zenon
  <2> HIDE DEF Good
  <2> QED BY <2>1, <2>2
<1>6. PICK at : Placed(text, 1, f[1], at)
  BY <1>5 DEF Boundary
<1>7. PICK words : words = Words(text)
  OBVIOUS
<1>8. words = f[1] /\ words \in Seq(Seq(S))
  <2>1. 1 \in 1 .. Len(text) + 1
    BY <1>1, <1>2
  <2>2. f[1] \in Seq(Seq(S))
    BY <1>3, <2>1, Zenon DEF Splits
  <2> QED BY <1>3, <1>7, <2>2, Zenon
<1>9. Placed(text, 1, words, at)
  BY <1>6, <1>8, Zenon
<1>10. DOMAIN words = 1 .. Len(words) /\ DOMAIN text = 1 .. Len(text)
  BY <1>8, LenProperties
<1>11. SameWords(text, words)
  BY <1>9, <1>10, Zenon DEF Placed, SameWords
<1>12. ASSUME NEW k \in 1 .. Len(words) PROVE Len(words[k]) <= Len(text)
  <2>1. IsWord(text, at[k], words[k]) /\ at[k] \in 1 .. n
    BY <1>1, <1>9 DEF Placed
  <2>2. at[k] + Len(words[k]) <= n + 1
    BY <1>1, <2>1 DEF IsWord
  <2>3. Len(words[k]) \in Nat
    <3>1. words[k] \in Seq(S)
      BY <1>8, ElementOfSeq
    <3> QED BY <3>1, LenProperties
  <2> QED BY <1>1, <1>2, <2>1, <2>2, <2>3
<1> QED BY <1>7, <1>8, <1>11, <1>12, Zenon

-----------------------------------------------------------------------------
(* What a request means.                                                   *)

\* An inline command that ends with the stream: the words of its line.
LEMMA InlineHeld ==
    ASSUME NEW s \in Seq(Char), NEW r, r = parseInline(s, Cleared), r.status = "kOk", r.consumed = Len(s)
    PROVE  /\ Line(s) \in Seq(Char) /\ Len(Line(s)) <= kMaxInlineLength
           /\ Len(Words(Line(s))) <= kMaxArgs /\ r.cmd = OnlyWords(Words(Line(s)))
<1>1. kMaxInlineLength \in Nat /\ 0 \in Nat
  BY RespAssumption
<1>2. PICK n : n = Len(s)
  OBVIOUS
<1>3. n \in Nat
  BY <1>2, LenProperties
<1>4. PICK line : line = readLine(s, 0, kMaxInlineLength, "kInline")
  OBVIOUS
<1>5. r = InlineFrom(line, Cleared)
  BY <1>4 DEF parseInline
<1>6. line.status \in {"kFound", "kTooLong", "kIncomplete"}
  BY <1>1, <1>4, LineIs
<1>7. line.status = "kFound"
  <2>1. ASSUME line.status = "kIncomplete" PROVE FALSE
    <3>1. r = Incomplete(Cleared)
      BY <1>5, <2>1 DEF InlineFrom
    <3> QED BY <3>1, ResultIs DEF Incomplete
  <2>2. ASSUME line.status = "kTooLong" PROVE FALSE
    <3>1. r = fail("kInlineLength", Cleared)
      BY <1>5, <2>2 DEF InlineFrom
    <3> QED BY <3>1, ResultIs DEF fail
  <2> QED BY <1>6, <2>1, <2>2
<1>8. PICK text, words : text = line.text /\ words = Words(text)
  OBVIOUS
<1>9. r = IF Len(words) > kMaxArgs THEN fail("kArgLength", Written(Cleared, words))
          ELSE Result("kOk", line.next, "none", publish(Written(Cleared, words), Len(words)))
  BY <1>5, <1>7, <1>8 DEF InlineFrom
<1>10. ~(Len(words) > kMaxArgs)
  <2>1. SUFFICES ASSUME Len(words) > kMaxArgs PROVE FALSE
    OBVIOUS
  <2>2. r = fail("kArgLength", Written(Cleared, words))
    BY <1>9, <2>1
  <2> QED BY <2>2, ResultIs DEF fail
<1>11. r.consumed = line.next /\ r.cmd = publish(Written(Cleared, words), Len(words))
  BY <1>9, <1>10, ResultIs
<1>12. r.cmd = OnlyWords(words)
  <2>1. IsCommand(Cleared)
    BY DEF IsCommand, Cleared
  <2>2. publish(Written(Cleared, words), Len(words)) = OnlyWords(words)
    BY <2>1, PublishedIs
  <2> QED BY <1>11, <2>2
<1>13. PICK lf, len :
         /\ len = (IF AfterCR(s, 0, lf) THEN lf - 2 ELSE lf - 1) /\ lf \in 1 .. Window(s, 0, kMaxInlineLength)
         /\ line.next = 0 + lf /\ text = Bytes(s, 0, len) /\ text \in Seq(Char)
         /\ Len(text) <= kMaxInlineLength
  <2>1. PICK lf : lf = Min(LineEnds(s, 0, kMaxInlineLength, "kInline"))
    OBVIOUS
  <2>2. PICK len : len = IF AfterCR(s, 0, lf) THEN lf - 2 ELSE lf - 1
    OBVIOUS
  <2>3. /\ lf \in 1 .. Window(s, 0, kMaxInlineLength) /\ line.next = 0 + lf
        /\ line.text = Bytes(s, 0, len) /\ line.text \in Seq(Char) /\ Len(line.text) <= kMaxInlineLength
    BY <1>1, <1>4, <1>7, <2>1, <2>2, LineIs
  <2> QED BY <1>8, <2>2, <2>3
<1>14. lf = n /\ n >= 1
  <2>1. Window(s, 0, kMaxInlineLength) \in Nat
    BY <1>1, <1>2, <1>3 DEF Window
  <2> QED BY <1>2, <1>3, <1>11, <1>13, <2>1
<1>15. len = IF n > 1 /\ s[n - 1] = CR THEN n - 2 ELSE n - 1
  <2>1. 0 + n - 1 = n - 1
    BY <1>3
  <2>2. AfterCR(s, 0, n) <=> n > 1 /\ s[n - 1] = CR
    BY <2>1 DEF AfterCR
  <2> QED BY <1>13, <1>14, <2>2
<1>16. text = Line(s)
  <2>1. len \in Int
    BY <1>3, <1>15
  <2>2. 0 + 1 = 1 /\ 0 + len = len
    BY <2>1
  <2>3. text = SubSeq(s, 1, len)
    BY <1>13, <2>2 DEF Bytes
  <2> QED BY <1>2, <1>15, <2>3 DEF Line
<1>17. Len(words) \in Nat /\ kMaxArgs \in Nat
  <2>1. words \in Seq(Seq(Char))
    BY <1>8, <1>13, WordsAre
  <2> QED BY <2>1, RespAssumption, LenProperties
<1>18. Len(words) <= kMaxArgs
  BY <1>10, <1>17
<1>19. words = Words(Line(s))
  BY <1>8, <1>16
<1> QED BY <1>12, <1>13, <1>16, <1>18, <1>19, Zenon

\* The arguments in the slots of a Command.
LEMMA OnlyWordsAre ==
    ASSUME NEW S, NEW words \in Seq(Seq(S)), Len(words) <= kMaxArgs, NEW cmd, cmd = OnlyWords(words)
    PROVE  /\ cmd.argc = Len(words) /\ SubSeq(cmd.argv, 1, cmd.argc) = words
           /\ \A i \in 1 .. cmd.argc : cmd.argv[i] = words[i]
<1>1. kMaxArgs \in Nat
  BY RespAssumption
<1>2. PICK n : n = Len(words)
  OBVIOUS
<1>3. n \in Nat /\ n <= kMaxArgs /\ \A i \in 1 .. n : words[i] \in Seq(S)
  BY <1>2, LenProperties, ElementOfSeq
<1>4. PICK argv : argv = [i \in 1 .. kMaxArgs |-> IF i <= n THEN words[i] ELSE <<>>]
  OBVIOUS
<1>5. cmd.argv = argv /\ cmd.argc = n
  BY <1>2, <1>4 DEF OnlyWords
<1>6. \A i \in 1 .. n : argv[i] = words[i]
  BY <1>1, <1>3, <1>4
<1>7. SubSeq(argv, 1, n) = words
  <2>1. PICK p : p = SubSeq(argv, 1, n)
    OBVIOUS
  <2>2. p = [i \in 1 .. n |-> argv[i]]
    <3>1. argv \in Seq(Seq(S))
      <4>1. ASSUME NEW i \in 1 .. kMaxArgs PROVE argv[i] \in Seq(S)
        <5>1. CASE i <= n
          <6>1. i \in 1 .. n
            BY <1>1, <1>3, <5>1
          <6> QED BY <1>3, <1>6, <6>1
        <5>2. CASE ~(i <= n)
          BY <1>4, <5>2, EmptySeq
        <5> QED BY <5>1, <5>2
      <4>2. argv \in [1 .. kMaxArgs -> Seq(S)]
        BY <1>4, <4>1
      <4> QED BY <1>1, <4>2, SeqDef
    <3> QED BY <1>3, <2>1, <3>1
  <2>3. words = [i \in 1 .. n |-> words[i]]
    BY <1>2, LenProperties
  <2> QED BY <1>6, <2>1, <2>2, <2>3
<1> QED BY <1>2, <1>5, <1>6, <1>7, Zenon

\* A sequence is the first Len(s) elements of itself.
LEMMA WholeSeq ==
    ASSUME NEW S, NEW s \in Seq(S)
    PROVE  SubSeq(s, 1, Len(s)) = s
OBVIOUS

\* A stream that starts with an encoding within the limits is a command.
LEMMA RequestRead ==
    ASSUME NEW s \in Seq(Char), NEW n \in 0 .. Len(s), SubSeq(s, 1, n) \in Requests
    PROVE  Parsed(s).status = "kOk"
<1>1. PICK args \in BoundedSeq(BoundedSeq(Char, kMaxBulkLength), kMaxArgs) : SubSeq(s, 1, n) = Encoded(args)
  BY DEF Requests
<1>2. kMaxArgs \in Nat /\ kMaxBulkLength \in Nat /\ Len(s) \in Nat
  BY RespAssumption, LenProperties
<1>3. \A w \in BoundedSeq(Char, kMaxBulkLength) : w \in Seq(Char) /\ Len(w) <= kMaxBulkLength
  <2> SUFFICES ASSUME NEW w \in BoundedSeq(Char, kMaxBulkLength)
               PROVE  w \in Seq(Char) /\ Len(w) <= kMaxBulkLength
    OBVIOUS
  <2>1. PICK m \in 0 .. kMaxBulkLength : w \in [1 .. m -> Char]
    BY DEF BoundedSeq, SeqOf
  <2>2. m \in Nat
    BY <1>2
  <2>3. w \in Seq(Char)
    BY <2>1, <2>2, SeqDef
  <2>4. Len(w) = m
    BY <2>1, <2>2, <2>3, LenProperties
  <2> QED BY <1>2, <2>3, <2>4
<1>4. args \in Seq(Seq(Char)) /\ Len(args) <= kMaxArgs /\ WithinLimit(args)
  <2>1. PICK m \in 0 .. kMaxArgs : args \in [1 .. m -> BoundedSeq(Char, kMaxBulkLength)]
    BY DEF BoundedSeq, SeqOf
  <2>2. m \in Nat
    BY <1>2
  <2>3. \A i \in 1 .. m : args[i] \in Seq(Char) /\ Len(args[i]) <= kMaxBulkLength
    BY <1>3, <2>1
  <2>4. args \in [1 .. m -> Seq(Char)]
    BY <2>1, <2>3
  <2>5. args \in Seq(Seq(Char))
    BY <2>2, <2>4, SeqDef
  <2>6. Len(args) = m
    BY <2>2, <2>4, <2>5, LenProperties
  <2> QED BY <1>2, <2>3, <2>5, <2>6 DEF WithinLimit
<1>5. Holds(s, 0, Encoded(args))
  <2>1. n \in Nat /\ 0 \in Nat /\ 0 + n <= Len(s) /\ 0 + n = n /\ 0 + 1 = 1
    BY <1>2
  <2>2. Holds(s, 0, Bytes(s, 0, n))
    BY <2>1, HoldsBytes
  <2>3. Bytes(s, 0, n) = SubSeq(s, 1, n)
    BY <2>1 DEF Bytes
  <2> QED BY <1>1, <2>2, <2>3
<1> QED BY <1>4, <1>5, ArrayRead

\* parseCommand on a command.
LEMMA ParsedAccepts ==
    ASSUME NEW s \in Seq(Char), Parsed(s).status = "kOk"
    PROVE  Parsed(s) = IF s[1] = "*" THEN parseArray(s, Cleared) ELSE parseInline(s, Cleared)
<1>1. s # <<>>
  <2>1. SUFFICES ASSUME s = <<>> PROVE FALSE
    OBVIOUS
  <2>2. Parsed(s) = Incomplete(Cleared)
    BY <2>1, StoppedIs DEF Parsed, parseCommand
  <2> QED BY <2>2, ResultIs DEF Incomplete
<1>2. PICK q : q = IF s[1] = "*" THEN parseArray(s, Cleared) ELSE parseInline(s, Cleared)
  OBVIOUS
<1>3. Parsed(s) = Settled(q)
  BY <1>1, <1>2 DEF Parsed, parseCommand
<1>4. Made(q)
  BY <1>2, InlineMade, ArrayMade
<1>5. q.status = "kOk"
  BY <1>3, <1>4, MadeSettled
<1>6. Settled(q) = q
  BY <1>5 DEF Settled
<1> QED BY <1>2, <1>3, <1>6

\* The array form means one thing, for every stream and all limits: what
\* parseCommand accepts is byte for byte the encoding of the command that comes
\* out; no stream that starts with an encoding within the limits is refused or
\* waited on, and none that could still become one is refused.  An inline command
\* is the words of its line.
THEOREM ParsesExactlyWhatWasSent == StreamSpec => []ParsesWhatWasSent
<1>1. CutsDoNotMatter => ParsesWhatWasSent
  <2> SUFFICES ASSUME CutsDoNotMatter PROVE ParsesWhatWasSent
    OBVIOUS
  <2>1. PICK r : r = Parsed(in)
    OBVIOUS
  <2>2. in \in Seq(Char) /\ (r.status = "kOk" => r.consumed = Len(in))
    BY <2>1 DEF CutsDoNotMatter, Decided
  <2>3. CASE r.status # "kOk"
    <3>1. ASSUME NEW req \in Requests, IsPrefix(req, in) PROVE FALSE
      <4>1. req \in Seq(Char) /\ Len(req) \in Nat /\ Len(in) \in Nat
        BY <2>2, LenProperties DEF Requests
      <4>2. Len(req) \in 0 .. Len(in) /\ SubSeq(req, 1, Len(req)) = SubSeq(in, 1, Len(req))
        BY <3>1, <4>1 DEF IsPrefix
      <4>3. SubSeq(in, 1, Len(req)) \in Requests
        BY <3>1, <4>1, <4>2, WholeSeq
      <4> QED BY <2>1, <2>2, <2>3, <4>2, <4>3, RequestRead
    <3>2. ASSUME r.status # "kIncomplete", NEW req \in Requests, IsPrefix(in, req) PROVE FALSE
      <4>1. req \in Seq(Char) /\ Len(req) \in Nat /\ Len(in) \in Nat
        BY <2>2, LenProperties DEF Requests
      <4>2. Len(in) <= Len(req) /\ SubSeq(in, 1, Len(in)) = SubSeq(req, 1, Len(in))
        BY <3>2 DEF IsPrefix
      <4>3. \A i \in 1 .. Len(in) : in[i] = req[i]
        <5>1. in = SubSeq(req, 1, Len(in))
          BY <2>2, <4>2, WholeSeq
        <5>2. \A i \in 1 .. Len(in) : SubSeq(req, 1, Len(in))[i] = req[i]
          BY <4>1, <4>2
        <5> QED BY <5>1, <5>2
      <4>4. Agree(in, req, Extent(in, r))
        <5>1. Extent(in, r) = Len(in)
          BY <2>3, Zenon DEF Extent
        <5> QED BY <4>2, <4>3, <5>1, Zenon DEF Agree
      <4>5. Parsed(req) = r
        <5>1. \A u \in Seq(Char) : r.status # "kIncomplete" /\ Agree(in, u, Extent(in, r)) => Parsed(u) = r
          BY <2>1, <2>2, ParsedDecided
        <5> QED BY <3>2, <4>1, <4>4, <5>1, Zenon
      <4>6. Len(req) \in 0 .. Len(req) /\ SubSeq(req, 1, Len(req)) \in Requests
        <5>1. Len(req) \in 0 .. Len(req)
          BY <4>1
        <5>2. SubSeq(req, 1, Len(req)) = req
          BY <4>1, WholeSeq
        <5> QED BY <3>2, <5>1, <5>2, Zenon
      <4> QED BY <2>3, <4>1, <4>5, <4>6, RequestRead
    <3> QED BY <2>1, <2>3, <3>1, <3>2 DEF ParsesWhatWasSent, Means
  <2>4. CASE r.status = "kOk" /\ in[1] = "*"
    <3>1. r = parseArray(in, Cleared)
      BY <2>1, <2>2, <2>4, ParsedAccepts
    <3>2. PICK words \in Seq(Seq(Char)) :
            /\ Len(words) <= kMaxArgs /\ WithinLimit(words) /\ r.cmd = OnlyWords(words)
            /\ Holds(in, 0, Encoded(words)) /\ r.consumed = Len(Encoded(words))
      BY <2>2, <2>4, <3>1, ArrayHeld
    <3>3. SubSeq(r.cmd.argv, 1, r.cmd.argc) = words
      BY <3>2, OnlyWordsAre
    <3>4. Encoded(words) \in Seq(Wire)
      <4>1. Len(in) \in Nat
        BY <2>2, LenProperties
      <4> QED BY <3>2, <4>1, EncodedIs
    <3>5. in = Encoded(words)
      BY <2>2, <2>4, <3>2, <3>4, HoldsAll
    <3>6. in = Encoded(SubSeq(r.cmd.argv, 1, r.cmd.argc))
      BY <3>3, <3>5, Zenon
    <3> QED BY <2>1, <2>4, <3>6 DEF ParsesWhatWasSent, Means
  <2>5. CASE r.status = "kOk" /\ in[1] # "*"
    <3>1. r = parseInline(in, Cleared)
      BY <2>1, <2>2, <2>5, ParsedAccepts
    <3>2. PICK line, words : line = Line(in) /\ words = Words(line)
      OBVIOUS
    <3>3. line \in Seq(Char) /\ Len(words) <= kMaxArgs /\ r.cmd = OnlyWords(words)
      <4>1. /\ Line(in) \in Seq(Char)
            /\ Len(Words(Line(in))) <= kMaxArgs /\ r.cmd = OnlyWords(Words(Line(in)))
        BY <2>2, <2>5, <3>1, InlineHeld
      <4> QED BY <3>2, <4>1, Zenon
    <3>4. words \in Seq(Seq(Char)) /\ SameWords(line, words)
      BY <3>2, <3>3, WordsAre
    <3>5. SubSeq(r.cmd.argv, 1, r.cmd.argc) = words
      BY <3>3, <3>4, OnlyWordsAre
    <3>6. SameWords(Line(in), SubSeq(r.cmd.argv, 1, r.cmd.argc))
      BY <3>2, <3>4, <3>5, Zenon
    <3> QED BY <2>1, <2>5, <3>6 DEF ParsesWhatWasSent, Means
  <2> QED BY <2>3, <2>4, <2>5
<1> QED BY <1>1, WhereItIsCutDoesNotMatter, PTL

-----------------------------------------------------------------------------
(* Replies, one frame each.                                                *)

\* What the text of a reply's line is made of, and a whole reply.
Plain == (Char \cup Digits \cup {"x", " ", "-", "+", ":", "$"}) \ {CR, LF}
Sent == Wire \cup Plain

LEMMA PlainBytes ==
    /\ {"x", " ", "-", "+", ":", "$"} \subseteq Plain /\ Digits \subseteq Plain /\ "1" \in Digits
    /\ "-" \notin Digits /\ CR \notin Plain /\ LF \notin Plain
<1>1. CR \notin Digits /\ LF \notin Digits /\ "1" \in Digits /\ "-" \notin Digits
  BY DEF Digits, ToSet, Numeral, CR, LF
<1>2. {"x", " ", "-", "+", ":", "$"} \subseteq Plain
  BY DEF Plain, CR, LF
<1>3. Digits \subseteq Plain /\ CR \notin Plain /\ LF \notin Plain
  BY <1>1, Zenon DEF Plain
<1> QED BY <1>1, <1>2, <1>3

\* A stream of replies that starts with the line <<type>> \o body.
LEMMA FirstFrame ==
    ASSUME NEW w \in Seq(Sent), NEW type \in Plain, NEW body \in Seq(Plain), NEW h, h = <<type>> \o body,
           Holds(w, 0, h), Holds(w, Len(h), CRLF)
    PROVE  FrameLength(w) = IF type = "$" /\ readInt(body) # nullopt
                            THEN Len(h) + 2 + readInt(body) + 2 ELSE Len(h) + 2
<1>1. PICK n : n = Len(body)
  OBVIOUS
<1>2. n \in Nat /\ Len(w) \in Nat
  BY <1>1, LenProperties
<1>3. Len(h) = n + 1 /\ h[1] = type /\ \A i \in 2 .. n + 1 : h[i] = body[i - 1]
  <2>1. PICK t : t = <<type>>
    OBVIOUS
  <2>2. t \in Seq(Plain) /\ Len(t) = 1 /\ t[1] = type
    BY <2>1
  <2>3. h = t \o body
    BY <2>1
  <2>4. /\ Len(t \o body) = Len(t) + Len(body)
        /\ \A i \in 1 .. Len(t) + Len(body) : (t \o body)[i] = IF i <= Len(t) THEN t[i] ELSE body[i - Len(t)]
    BY <2>2, ConcatProperties
  <2>5. Len(h) = 1 + n /\ \A i \in 1 .. 1 + n : h[i] = IF i <= 1 THEN t[i] ELSE body[i - 1]
    BY <1>1, <2>2, <2>3, <2>4
  <2> QED BY <1>2, <2>2, <2>5
<1>4. \A i \in 1 .. n + 1 : h[i] \in Plain
  <2> SUFFICES ASSUME NEW i \in 1 .. n + 1 PROVE h[i] \in Plain
    OBVIOUS
  <2>1. CASE i = 1
    BY <1>3, <2>1
  <2>2. CASE i # 1
    <3>1. i \in 2 .. n + 1 /\ i - 1 \in 1 .. n
      BY <1>2, <2>2
    <3>2. body[i - 1] \in Plain
      BY <1>1, <3>1, ElementOfSeq
    <3> QED BY <1>3, <3>1, <3>2
  <2> QED BY <2>1, <2>2
<1>5. n + 3 <= Len(w) /\ w[n + 2] = CR /\ \A i \in 1 .. n + 1 : w[i] = h[i]
  <2>1. (n + 1) + 2 <= Len(w) /\ w[(n + 1) + 1] = CR
    <3>1. n + 1 \in Nat /\ Holds(w, n + 1, CRLF)
      BY <1>2, <1>3
    <3> QED BY <1>2, <3>1, HoldsCRLF
  <2>2. \A i \in 1 .. n + 1 : w[0 + i] = h[i]
    BY <1>3 DEF Holds
  <2>3. (n + 1) + 1 = n + 2 /\ (n + 1) + 2 = n + 3 /\ \A i \in 1 .. n + 1 : 0 + i = i
    BY <1>2
  <2> QED BY <2>1, <2>2, <2>3, Zenon
<1>6. PICK M : M = {i \in DOMAIN w : w[i] \in {CR, LF}}
  OBVIOUS
<1>7. DOMAIN w = 1 .. Len(w)
  BY LenProperties
<1>8. n + 2 \in M /\ M \subseteq Nat
  BY <1>2, <1>5, <1>6, <1>7
<1>9. ASSUME NEW i \in M PROVE n + 2 <= i
  <2>1. SUFFICES ASSUME ~(n + 2 <= i) PROVE FALSE
    OBVIOUS
  <2>2. i \in 1 .. Len(w) /\ w[i] \in {CR, LF}
    BY <1>6, <1>7
  <2>3. i \in 1 .. n + 1
    BY <1>2, <2>1, <2>2
  <2>4. w[i] \in Plain
    BY <1>4, <1>5, <2>3
  <2> QED BY <2>2, <2>4, PlainBytes
<1>10. Min(M) = n + 2
  <2>1. Min(M) \in M /\ Min(M) <= n + 2
    BY <1>8, MinIsLeast
  <2>2. n + 2 <= Min(M) /\ Min(M) \in Nat
    BY <1>8, <1>9, <2>1
  <2> QED BY <1>2, <2>1, <2>2
<1>11. SubSeq(w, 2, n + 1) = body
  <2>1. PICK p : p = SubSeq(w, 2, n + 1)
    OBVIOUS
  <2>2. \A i \in 2 .. n + 1 : w[i] \in Plain /\ w[i] = body[i - 1]
    BY <1>2, <1>3, <1>4, <1>5
  <2>3. /\ p \in Seq(Plain) /\ Len(p) = (IF 2 <= n + 1 THEN (n + 1) - 2 + 1 ELSE 0)
        /\ \A i \in 1 .. (n + 1) - 2 + 1 : p[i] = w[2 + i - 1]
    <3>1. 2 \in Int /\ n + 1 \in Int
      BY <1>2
    <3> QED BY <2>1, <2>2, <3>1, SubSeqProperties
  <2>4. Len(p) = n /\ (n + 1) - 2 + 1 = n
    BY <1>2, <2>3
  <2>5. ASSUME NEW i \in 1 .. n PROVE p[i] = body[i]
    <3>1. 2 + i - 1 \in 2 .. n + 1 /\ (2 + i - 1) - 1 = i
      BY <1>2
    <3> QED BY <2>2, <2>3, <2>4, <3>1
  <2> QED BY <1>1, <2>1, <2>3, <2>4, <2>5, SeqEqual
<1>12. PICK v : v = readInt(body)
  OBVIOUS
<1>13. (n + 2) - 1 = n + 1 /\ w[1] = type
  BY <1>2, <1>3, <1>5
<1>14. FrameLength(w) = IF type = "$" /\ v # nullopt THEN (n + 2) + 1 + v + 2 ELSE (n + 2) + 1
  BY <1>6, <1>10, <1>11, <1>12, <1>13, Zenon DEF FrameLength
<1>15. v \in Int
  <2>1. v \in Numbers
    <3>1. PICK f : /\ Reads(f, body)
                   /\ v = IF body = <<>> \/ (body # <<"0">> /\ body[1] \notin Digits \ {"0"})
                          THEN nullopt ELSE f[Len(body)]
      BY <1>1, <1>2, <1>12, ReadIntSteps
    <3>2. f[Len(body)] \in Numbers
      BY <1>1, <1>2, <3>1 DEF Reads
    <3> QED BY <3>1, <3>2 DEF Numbers
  <2> QED BY <2>1 DEF Numbers, nullopt
<1>16. (n + 2) + 1 = Len(h) + 2 /\ (n + 2) + 1 + v + 2 = Len(h) + 2 + v + 2
  <2>1. PICK k : k = Len(h)
    OBVIOUS
  <2>2. k = n + 1
    BY <1>3, <2>1
  <2>3. (n + 2) + 1 = k + 2 /\ (n + 2) + 1 + v + 2 = k + 2 + v + 2
    BY <1>2, <1>15, <2>2
  <2> QED BY <2>1, <2>3, Zenon
<1> QED BY <1>12, <1>14, <1>16, Zenon

\* A reply after which a client finds the next one.
IsFrame(a) == a \in Seq(Sent) /\ \A b \in Seq(Sent) : FrameLength(a \o b) = Len(a)

LEMMA HoldsFirst ==
    ASSUME NEW S, NEW a \in Seq(S), NEW b \in Seq(S), NEW w, w = a \o b
    PROVE  w \in Seq(S) /\ Len(w) \in Nat /\ Holds(w, 0, a)
<1>1. w \in Seq(S)
  BY ConcatProperties
<1>2. Len(w) \in Nat
  BY <1>1, LenProperties
<1>3. Holds(w, 0, w)
  <2>1. 0 + Len(w) = Len(w) /\ \A i \in 1 .. Len(w) : 0 + i = i
    BY <1>2
  <2> QED BY <1>2, <2>1 DEF Holds
<1>4. Holds(w, 0, a \o b) <=> Holds(w, 0, a) /\ Holds(w, 0 + Len(a), b)
  BY <1>2, HoldsBoth
<1> QED BY <1>1, <1>2, <1>3, <1>4, Zenon

\* A line that announces no bytes.
LEMMA LineIsFrame ==
    ASSUME NEW type \in Plain, NEW body \in Seq(Plain), type = "$" => readInt(body) = nullopt
    PROVE  IsFrame(appendLine(type, body))
<1>1. PICK h, a : h = <<type>> \o body /\ a = appendLine(type, body)
  OBVIOUS
<1>2. a = h \o CRLF
  BY <1>1, Zenon DEF appendLine
<1>3. h \in Seq(Plain)
  <2>1. <<type>> \in Seq(Plain)
    OBVIOUS
  <2> QED BY <1>1, <2>1, ConcatProperties
<1>4. h \in Seq(Sent) /\ CRLF \in Seq(Sent) /\ Len(CRLF) = 2
  <2>1. Plain \subseteq Sent /\ CR \in Sent /\ LF \in Sent
    BY Zenon DEF Sent, Wire
  <2>2. h \in Seq(Sent)
    BY <1>3, <2>1, SeqMonotonic
  <2> HIDE DEF CR, LF
  <2> QED BY <2>1, <2>2 DEF CRLF
<1>5. a \in Seq(Sent) /\ Len(a) = Len(h) + 2
  <2> HIDE DEF CRLF
  <2>1. h \o CRLF \in Seq(Sent) /\ Len(h \o CRLF) = Len(h) + Len(CRLF)
    BY <1>4, ConcatProperties
  <2> QED BY <1>2, <1>4, <2>1, Zenon
<1>6. ASSUME NEW b \in Seq(Sent) PROVE FrameLength(a \o b) = Len(a)
  <2> HIDE DEF CRLF
  <2>1. PICK w : w = a \o b
    OBVIOUS
  <2>2. w \in Seq(Sent) /\ Len(w) \in Nat /\ Holds(w, 0, a)
    BY <1>5, <2>1, HoldsFirst
  <2>3. Holds(w, 0, h) /\ Holds(w, 0 + Len(h), CRLF)
    <3>1. Holds(w, 0, h \o CRLF) <=> Holds(w, 0, h) /\ Holds(w, 0 + Len(h), CRLF)
      BY <1>4, <2>2, HoldsBoth
    <3> QED BY <1>2, <2>2, <3>1, Zenon
  <2>4. 0 + Len(h) = Len(h)
    BY <1>4, LenProperties
  <2>5. Holds(w, Len(h), CRLF)
    BY <2>3, <2>4, Zenon
  <2>6. FrameLength(w) = IF type = "$" /\ readInt(body) # nullopt
                         THEN Len(h) + 2 + readInt(body) + 2 ELSE Len(h) + 2
    BY <1>1, <2>2, <2>3, <2>5, FirstFrame
  <2> QED BY <1>5, <2>1, <2>6, Zenon
<1>7. IsFrame(a)
  BY <1>5, <1>6 DEF IsFrame
<1> QED BY <1>1, <1>7

\* A bulk string: its header announces what follows.
LEMMA BulkIsFrame ==
    ASSUME NEW x \in Seq(Char), Len(x) <= SizeMax
    PROVE  IsFrame(bulk(x))
<1>1. PICK n, a, h : n = Len(x) /\ a = bulk(x) /\ h = Header("$", n)
  OBVIOUS
<1>2. n \in Nat /\ n \in 0 .. SizeMax
  BY <1>1, RespAssumption, LenProperties
<1>3. readInt(to_chars[n]) = n /\ n # nullopt
  <2>1. readInt(to_chars[n]) = n
    BY <1>2, ReadsWhatIsWritten
  <2> QED BY <1>2, <2>1 DEF nullopt
<1>4. to_chars[n] \in Seq(Plain) /\ "$" \in Plain /\ h = <<"$">> \o to_chars[n]
  <2>1. to_chars[n] \in Seq(Digits)
    BY <1>2, ToCharsIs
  <2>2. to_chars[n] \in Seq(Plain)
    BY <2>1, PlainBytes, SeqMonotonic
  <2> QED BY <1>1, <2>2, PlainBytes DEF Header
<1>5. \A s : Len(s) \in Nat =>
        /\ a \in Seq(Wire) /\ Len(a) = Len(h) + 2 + n + 2
        /\ Holds(s, 0, a) => Holds(s, 0, h) /\ Holds(s, 0 + Len(h), CRLF)
  <2> SUFFICES ASSUME NEW s, Len(s) \in Nat
               PROVE  /\ a \in Seq(Wire) /\ Len(a) = Len(h) + 2 + n + 2
                      /\ Holds(s, 0, a) => Holds(s, 0, h) /\ Holds(s, 0 + Len(h), CRLF)
    OBVIOUS
  <2>1. h = Header("$", Len(x)) /\ 0 \in Nat
    BY <1>1
  <2>2. /\ bulk(x) \in Seq(Wire) /\ Len(bulk(x)) = Len(h) + 2 + Len(x) + 2
        /\ Holds(s, 0, bulk(x)) => Holds(s, 0, h) /\ Holds(s, 0 + Len(h), CRLF)
    BY <2>1, BulkIs
  <2> QED BY <1>1, <2>2, Zenon
<1>6. a \in Seq(Sent) /\ Len(a) = Len(h) + 2 + n + 2
  <2>1. Len(<<>>) \in Nat
    OBVIOUS
  <2>2. Wire \subseteq Sent
    BY Zenon DEF Sent
  <2>3. a \in Seq(Wire) /\ Len(a) = Len(h) + 2 + n + 2
    BY <1>5, <2>1
  <2> QED BY <2>2, <2>3, SeqMonotonic
<1>7. Len(h) \in Nat
  <2>1. Len(h) = 1 + Len(to_chars[n]) /\ Len(to_chars[n]) \in Nat
    BY <1>1, <1>2, HeaderText
  <2> QED BY <2>1
<1>8. ASSUME NEW b \in Seq(Sent) PROVE FrameLength(a \o b) = Len(a)
  <2>1. PICK w, body : w = a \o b /\ body = to_chars[n]
    OBVIOUS
  <2>2. w \in Seq(Sent) /\ Len(w) \in Nat /\ Holds(w, 0, a)
    BY <1>6, <2>1, HoldsFirst
  <2>3. 0 + Len(h) = Len(h)
    BY <1>7
  <2>4. Holds(w, 0, h) /\ Holds(w, Len(h), CRLF)
    <3>1. Holds(w, 0, h) /\ Holds(w, 0 + Len(h), CRLF)
      BY <1>5, <2>2, Zenon
    <3> QED BY <2>3, <3>1, Zenon
  <2>5. body \in Seq(Plain) /\ h = <<"$">> \o body /\ "$" \in Plain
    BY <1>4, <2>1, Zenon
  <2> HIDE DEF CRLF
  <2>6. FrameLength(w) = IF "$" = "$" /\ readInt(body) # nullopt
                         THEN Len(h) + 2 + readInt(body) + 2 ELSE Len(h) + 2
    BY <2>2, <2>4, <2>5, FirstFrame
  <2>7. readInt(body) = n
    BY <1>3, <2>1, Zenon
  <2>8. FrameLength(w) = Len(h) + 2 + n + 2
    BY <1>3, <2>6, <2>7, Zenon
  <2> QED BY <1>6, <2>1, <2>8, Zenon
<1>9. IsFrame(a)
  BY <1>6, <1>8 DEF IsFrame
<1> QED BY <1>1, <1>9

\* A number, of either sign.
LEMMA IntegerIsFrame ==
    ASSUME NEW n \in Nat
    PROVE  IsFrame(integer(n)) /\ IsFrame(integer(-n))
<1>1. to_chars[n] \in Seq(Plain) /\ ":" \in Plain /\ <<"-">> \in Seq(Plain)
  <2>1. to_chars[n] \in Seq(Digits)
    BY ToCharsIs
  <2>2. to_chars[n] \in Seq(Plain)
    BY <2>1, PlainBytes, SeqMonotonic
  <2>3. "-" \in Plain /\ ":" \in Plain
    BY PlainBytes
  <2> QED BY <2>2, <2>3
<1>2. <<"-">> \o to_chars[n] \in Seq(Plain)
  BY <1>1, ConcatProperties
<1>3. \A body \in Seq(Plain) : IsFrame(appendLine(":", body))
  BY <1>1, LineIsFrame
<1>4. integer(n) = appendLine(":", to_chars[n])
  BY DEF integer, appendNumber
<1>5. IsFrame(integer(n))
  BY <1>1, <1>3, <1>4
<1>6. CASE ~(n > 0)
  <2>1. -n = n
    BY <1>6
  <2> QED BY <1>5, <2>1, Zenon
<1>7. CASE n > 0
  <2>1. -n < 0 /\ -(-n) = n
    BY <1>7
  <2>2. integer(-n) = appendLine(":", <<"-">> \o to_chars[n])
    BY <2>1 DEF integer, appendNumber
  <2> QED BY <1>2, <1>3, <1>5, <2>2
<1> QED BY <1>6, <1>7

\* Whatever an argument holds, what an error repeats of it has no CR and no LF.
LEMMA SanitizedIs ==
    ASSUME NEW s \in Seq(Char)
    PROVE  appendSanitized(s) \in Seq(Plain)
<1>1. PICK n : n = Min({Len(s), kMaxEcho})
  OBVIOUS
<1>2. n \in Nat /\ n <= Len(s) /\ Len(s) \in Nat
  <2>1. Len(s) \in Nat /\ kMaxEcho \in Nat
    BY RespAssumption, LenProperties
  <2>2. n = IF Len(s) <= kMaxEcho THEN Len(s) ELSE kMaxEcho
    BY <1>1, <2>1, MinOfTwo
  <2> QED BY <2>1, <2>2
<1>3. PICK t : t = appendSanitized(s)
  OBVIOUS
<1>4. t = [i \in 1 .. n |-> IF s[i] \in {CR, LF} THEN " " ELSE s[i]]
  BY <1>1, <1>3, Zenon DEF appendSanitized
<1>5. ASSUME NEW i \in 1 .. n PROVE t[i] \in Plain
  <2>1. s[i] \in Char
    BY <1>2, ElementOfSeq
  <2>2. CASE s[i] \in {CR, LF}
    BY <1>4, <2>2, PlainBytes
  <2>3. CASE s[i] \notin {CR, LF}
    <3>1. s[i] \in Plain
      BY <2>1, <2>3, Zenon DEF Plain
    <3> QED BY <1>4, <2>3, <3>1
  <2> QED BY <2>2, <2>3
<1>6. t \in [1 .. n -> Plain]
  BY <1>4, <1>5
<1> QED BY <1>2, <1>3, <1>6, SeqDef

Arguments(cmd) ==
    cmd.argc \in Nat /\ \A i \in 1 .. cmd.argc : cmd.argv[i] \in Seq(Char) /\ Len(cmd.argv[i]) <= SizeMax

LEMMA UnknownIsFrame ==
    ASSUME NEW cmd, Arguments(cmd)
    PROVE  IsFrame(unknownCommand(cmd))
<1>1. PICK n : n = cmd.argc
  OBVIOUS
<1>2. n \in Nat /\ \A i \in 1 .. n : cmd.argv[i] \in Seq(Char)
  BY <1>1 DEF Arguments
<1>3. PICK q : q = [i \in 1 .. n |-> <<"x">> \o appendSanitized(cmd.argv[i]) \o <<"x">>]
  OBVIOUS
<1>4. ASSUME NEW i \in 1 .. n PROVE q[i] \in Seq(Plain)
  <2>1. PICK t : t = appendSanitized(cmd.argv[i])
    OBVIOUS
  <2>2. t \in Seq(Plain)
    BY <1>2, <2>1, SanitizedIs
  <2>3. <<"x">> \in Seq(Plain)
    <3>1. "x" \in Plain
      BY PlainBytes
    <3> QED BY <3>1
  <2>4. PICK u : u = <<"x">> \o t
    OBVIOUS
  <2>5. u \in Seq(Plain)
    BY <2>2, <2>3, <2>4, ConcatProperties
  <2>6. u \o <<"x">> \in Seq(Plain)
    BY <2>3, <2>5, ConcatProperties
  <2>7. q[i] = u \o <<"x">>
    BY <1>3, <2>1, <2>4, Zenon
  <2> QED BY <2>6, <2>7
<1>5. q \in Seq(Seq(Plain))
  <2>1. q \in [1 .. n -> Seq(Plain)]
    BY <1>3, <1>4
  <2> QED BY <1>2, <2>1, SeqDef
<1>6. FlattenSeq(q) \in Seq(Plain)
  <2>1. <<>> \in Seq(Plain)
    BY EmptySeq
  <2> QED BY <1>5, <2>1, FlattenAppend
<1>7. unknownCommand(cmd) = appendLine("-", FlattenSeq(q))
  BY <1>1, <1>3, Zenon DEF unknownCommand, error
<1>8. "-" \in Plain /\ "-" # "$"
  BY PlainBytes
<1> QED BY <1>6, <1>7, <1>8, LineIsFrame

LEMMA RepliesAreFrames ==
    ASSUME NEW cmd, Arguments(cmd), NEW a \in RepliesTo(cmd)
    PROVE  IsFrame(a)
<1>1. PICK n : n = cmd.argc
  OBVIOUS
<1>2. n \in Nat /\ \A i \in 1 .. n : cmd.argv[i] \in Seq(Char) /\ Len(cmd.argv[i]) <= SizeMax
  BY <1>1 DEF Arguments
<1>3. \/ a = unknownCommand(cmd) \/ a = simpleString(<<"x">>) \/ a = nullBulk \/ a = integer(-n)
      \/ a = integer(n) \/ \E i \in 1 .. n : a = bulk(cmd.argv[i])
  BY <1>1, Zenon DEF RepliesTo
<1>4. CASE a = unknownCommand(cmd)
  BY <1>4, UnknownIsFrame
<1>5. CASE a = simpleString(<<"x">>)
  <2>1. "x" \in Plain /\ "+" \in Plain /\ "+" # "$"
    BY PlainBytes
  <2>2. <<"x">> \in Seq(Plain)
    BY <2>1
  <2>3. IsFrame(appendLine("+", <<"x">>))
    BY <2>1, <2>2, LineIsFrame
  <2> QED BY <1>5, <2>3 DEF simpleString
<1>6. CASE a = nullBulk
  <2>1. PICK body : body = <<"-", "1">>
    OBVIOUS
  <2>2. body \in Seq(Plain) /\ "$" \in Plain
    <3>1. "-" \in Plain /\ "1" \in Plain /\ "$" \in Plain
      BY PlainBytes
    <3> QED BY <2>1, <3>1
  <2>3. readInt(body) = nullopt
    <3>1. Len(body) = 2 /\ body[1] = "-" /\ Len(<<"0">>) = 1 /\ body # <<>> /\ body # <<"0">>
      BY <2>1
    <3>2. body[1] \notin Digits \ {"0"}
      BY <3>1, PlainBytes
    <3> QED BY <3>1, <3>2, Zenon DEF readInt
  <2>4. IsFrame(appendLine("$", body))
    BY <2>2, <2>3, LineIsFrame
  <2>5. appendLine("$", body) = nullBulk
    <3>1. PICK t, u, w : t = <<"$">> /\ u = t \o body /\ w = <<"$", "-", "1">>
      OBVIOUS
    <3>2. t \in Seq(Plain) /\ Len(t) = 1 /\ t[1] = "$"
      BY <2>2, <3>1
    <3>3. Len(body) = 2 /\ body[1] = "-" /\ body[2] = "1"
      BY <2>1
    <3>4. w \in Seq(Plain) /\ Len(w) = 3 /\ w[1] = "$" /\ w[2] = "-" /\ w[3] = "1"
      <4>1. "-" \in Plain /\ "1" \in Plain /\ "$" \in Plain
        BY PlainBytes
      <4> QED BY <3>1, <4>1
    <3>5. /\ u \in Seq(Plain) /\ Len(u) = Len(t) + Len(body)
          /\ \A i \in 1 .. Len(t) + Len(body) : u[i] = IF i <= Len(t) THEN t[i] ELSE body[i - Len(t)]
      BY <2>2, <3>1, <3>2, ConcatProperties
    <3>6. Len(u) = 3 /\ u[1] = "$" /\ u[2] = "-" /\ u[3] = "1"
      BY <3>2, <3>3, <3>5
    <3>7. \A i \in 1 .. 3 : u[i] = w[i]
      BY <3>4, <3>6
    <3>8. u = w
      BY <3>4, <3>5, <3>6, <3>7, SeqEqual
    <3> QED BY <3>1, <3>8, Zenon DEF appendLine, nullBulk
  <2> QED BY <1>6, <2>4, <2>5
<1>7. CASE a = integer(-n) \/ a = integer(n)
  BY <1>2, <1>7, IntegerIsFrame
<1>8. CASE \E i \in 1 .. n : a = bulk(cmd.argv[i])
  BY <1>2, <1>8, BulkIsFrame
<1> QED BY <1>3, <1>4, <1>5, <1>6, <1>7, <1>8

\* The arguments that come out are bytes the peer sent, and their lengths fit a
\* size_t.
LEMMA ArgumentsAre ==
    ASSUME NEW s \in Seq(Char), Parsed(s).status = "kOk" => Parsed(s).consumed = Len(s)
    PROVE  Arguments(Parsed(s).cmd)
<1>1. PICK r, cmd : r = Parsed(s) /\ cmd = r.cmd
  OBVIOUS
<1>2. SizeMax \in Nat /\ kMaxArgs \in Nat /\ kMaxBulkLength \in Nat /\ kMaxInlineLength \in Nat
      /\ kMaxBulkLength <= SizeMax /\ kMaxInlineLength <= SizeMax
  BY RespAssumption, LimitsAssumption
<1>3. CASE r.status # "kOk"
  <2>1. PICK q : q = IF s = <<>> THEN Incomplete(Cleared)
                     ELSE IF s[1] = "*" THEN parseArray(s, Cleared) ELSE parseInline(s, Cleared)
    OBVIOUS
  <2>2. r = Settled(q)
    BY <1>1, <2>1 DEF Parsed, parseCommand
  <2>3. Made(q)
    <3>1. Made(Incomplete(Cleared))
      BY DEF Made, Incomplete
    <3> QED BY <2>1, <3>1, InlineMade, ArrayMade
  <2>4. PICK status, consumed, err, c : q = Result(status, consumed, err, c)
    BY <2>3 DEF Made
  <2>5. status # "kOk"
    <3>1. q.status = status
      BY <2>4, ResultIs
    <3>2. r.status = q.status
      BY <2>2, <2>3, MadeSettled
    <3> QED BY <1>3, <3>1, <3>2
  <2>6. r = Result(status, consumed, err, Cleared)
    BY <2>2, <2>4, <2>5, SettledIs
  <2>7. cmd = Cleared
    BY <1>1, <2>6, ResultIs
  <2>8. cmd.argc = 0
    BY <2>7 DEF Cleared
  <2> QED BY <1>1, <2>8 DEF Arguments
<1>4. CASE r.status = "kOk"
  <2>1. r.consumed = Len(s)
    BY <1>1, <1>4
  <2>2. r = IF s[1] = "*" THEN parseArray(s, Cleared) ELSE parseInline(s, Cleared)
    BY <1>1, <1>4, ParsedAccepts
  <2>3. \E words \in Seq(Seq(Char)) :
          /\ Len(words) <= kMaxArgs /\ cmd = OnlyWords(words)
          /\ \A i \in 1 .. Len(words) : Len(words[i]) <= SizeMax
    <3>1. CASE s[1] = "*"
      <4>1. PICK words \in Seq(Seq(Char)) :
              Len(words) <= kMaxArgs /\ WithinLimit(words) /\ r.cmd = OnlyWords(words)
        BY <1>4, <2>2, <3>1, ArrayHeld
      <4>2. ASSUME NEW i \in 1 .. Len(words) PROVE Len(words[i]) <= SizeMax
        <5>1. Len(words[i]) <= kMaxBulkLength
          BY <4>1 DEF WithinLimit
        <5>2. words[i] \in Seq(Char)
          BY <4>1, ElementOfSeq
        <5>3. Len(words[i]) \in Nat
          BY <5>2, LenProperties
        <5> QED BY <1>2, <5>1, <5>3
      <4> QED BY <1>1, <4>1, <4>2
    <3>2. CASE s[1] # "*"
      <4>1. PICK line, words : line = Line(s) /\ words = Words(line)
        OBVIOUS
      <4>2. r = parseInline(s, Cleared)
        BY <2>2, <3>2
      <4>3. /\ Line(s) \in Seq(Char) /\ Len(Line(s)) <= kMaxInlineLength
            /\ Len(Words(Line(s))) <= kMaxArgs /\ r.cmd = OnlyWords(Words(Line(s)))
        BY <1>4, <2>1, <4>2, InlineHeld
      <4>4. /\ line \in Seq(Char) /\ Len(line) <= kMaxInlineLength
            /\ Len(words) <= kMaxArgs /\ cmd = OnlyWords(words)
        BY <1>1, <4>1, <4>3, Zenon
      <4>5. words \in Seq(Seq(Char)) /\ \A k \in 1 .. Len(words) : Len(words[k]) <= Len(line)
        BY <4>1, <4>4, WordsAre
      <4>6. ASSUME NEW i \in 1 .. Len(words) PROVE Len(words[i]) <= SizeMax
        <5>1. words[i] \in Seq(Char) /\ Len(words[i]) <= Len(line)
          BY <4>5, ElementOfSeq
        <5>2. Len(words[i]) \in Nat /\ Len(line) \in Nat
          BY <4>4, <5>1, LenProperties
        <5> QED BY <1>2, <4>4, <5>1, <5>2
      <4> QED BY <4>4, <4>5, <4>6
    <3> QED BY <3>1, <3>2
  <2>4. PICK words \in Seq(Seq(Char)) :
          /\ Len(words) <= kMaxArgs /\ cmd = OnlyWords(words)
          /\ \A i \in 1 .. Len(words) : Len(words[i]) <= SizeMax
    BY <2>3
  <2>5. cmd.argc = Len(words) /\ \A i \in 1 .. cmd.argc : cmd.argv[i] = words[i]
    BY <2>4, OnlyWordsAre
  <2>6. Len(words) \in Nat /\ \A i \in 1 .. Len(words) : words[i] \in Seq(Char)
    BY <2>4, LenProperties, ElementOfSeq
  <2>7. Arguments(cmd)
    BY <2>4, <2>5, <2>6, Zenon DEF Arguments
  <2> QED BY <1>1, <2>7
<1> QED BY <1>3, <1>4

\* Replies stay in step with requests, whatever bytes a peer sends: each reply
\* that repeats a name, a key or a value is one frame, so a client that reads one
\* reply finds the next where it starts (appendSanitized, appendNumber and bulk).
THEOREM RepliesStayInStep == StreamSpec => []RepliesFramed
<1>1. CutsDoNotMatter => RepliesFramed
  <2> SUFFICES ASSUME CutsDoNotMatter PROVE RepliesFramed
    OBVIOUS
  <2>1. in \in Seq(Char) /\ (Parsed(in).status = "kOk" => Parsed(in).consumed = Len(in))
    BY DEF CutsDoNotMatter, Decided
  <2>2. PICK cmd : cmd = Parsed(in).cmd
    OBVIOUS
  <2>3. Arguments(cmd)
    BY <2>1, <2>2, ArgumentsAre
  <2>4. \A a \in RepliesTo(cmd) : IsFrame(a)
    BY <2>3, RepliesAreFrames
  <2> QED BY <2>2, <2>4, Zenon DEF RepliesFramed, IsFrame
<1> QED BY <1>1, WhereItIsCutDoesNotMatter, PTL
=============================================================================
