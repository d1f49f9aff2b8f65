-------------------------- MODULE ScanCursorProofs --------------------------
(***************************************************************************)
(* Proofs about the reverse-binary cursor (core/bits.cpp): for every table *)
(* size and every growth in the middle of it, a scan hands each entry to   *)
(* its visitor exactly once.                                               *)
(***************************************************************************)
EXTENDS ScanCursor, NumberLemmas

-----------------------------------------------------------------------------
(* The recursive function behind reverseBits satisfies its equation.       *)

ReversedBody(m, g, v) ==
    IF m = 0 THEN 0 ELSE (v % 2) * ((m + 1) \div 2) + g[v \div 2]

\* The loop of reverseBits ends.
LEMMA ReversedEquation ==
    Reversed = [m \in Nat |-> [v \in Nat |-> ReversedBody(m, Reversed[m \div 2], v)]]
<1> DEFINE T == [Nat -> Nat]
           Base == {0}
           base == [m \in Nat |-> [v \in Nat |-> 0]]
           step == [s \in Nat \X T |-> [v \in Nat |-> (v % 2) * ((s[1] + 1) \div 2) + s[2][v \div 2]]]
           p == [m \in Nat |-> m \div 2]
           rank == [m \in Nat |-> m]
<1>1. /\ rank \in [Nat -> Nat]
      /\ \A m \in Nat : m \notin Base => p[m] \in Nat /\ rank[p[m]] < rank[m]
  OBVIOUS
<1>2. \A m \in Nat : m \in Base => base[m] \in T
  OBVIOUS
<1>3. ASSUME NEW m \in Nat, NEW g \in T
      PROVE  /\ step[<<m, g>>] = [v \in Nat |-> (v % 2) * ((m + 1) \div 2) + g[v \div 2]]
             /\ step[<<m, g>>] \in T
  <2>1. step[<<m, g>>] = [v \in Nat |-> (v % 2) * ((m + 1) \div 2) + g[v \div 2]]
    OBVIOUS
  <2>2. ASSUME NEW v \in Nat PROVE (v % 2) * ((m + 1) \div 2) + g[v \div 2] \in Nat
    <3>1. v % 2 \in {0, 1} /\ (m + 1) \div 2 \in Nat /\ v \div 2 \in Nat
      OBVIOUS
    <3>2. g[v \div 2] \in Nat
      BY <3>1
    <3> QED BY <3>1, <3>2
  <2> QED BY <2>1, <2>2
<1>4. \A m \in Nat : base[m] = [v \in Nat |-> 0] /\ p[m] = m \div 2 /\ p[m] \in Nat
                     /\ (m \in Base <=> m = 0)
  OBVIOUS
<1>5. base[0] \in T /\ \A m \in Nat, g \in T : step[<<m, g>>] \in T
  BY <1>2, <1>3
<1> HIDE DEF T, Base, base, step, p, rank
<1>6. Descends(Nat, T, Base, base, step, p, rank)
  BY <1>1, <1>2, <1>5 DEF Descends
<1>7. PICK f \in [Nat -> T] : Solution(f, Nat, Base, base, step, p)
  BY <1>6, RecursionExists
<1>8. ASSUME NEW m \in Nat
      PROVE  f[m] = [v \in Nat |-> ReversedBody(m, f[m \div 2], v)]
  <2>1. CASE m = 0
    BY <1>4, <1>7, <2>1, ZenonT(30) DEF ReversedBody, Solution
  <2>2. CASE m # 0
    <3>1. f[m \div 2] \in T /\ p[m] = m \div 2
      BY <1>4, <1>7
    <3>2. f[m] = step[<<m, f[m \div 2]>>]
      BY <1>4, <1>7, <2>2, <3>1 DEF Solution
    <3> QED BY <1>3, <2>2, <3>1, <3>2, ZenonT(30) DEF ReversedBody
  <2> QED BY <2>1, <2>2
<1>9. f = [m \in Nat |-> [v \in Nat |-> ReversedBody(m, f[m \div 2], v)]]
  BY <1>8
<1>10. \E g : g = [m \in Nat |-> [v \in Nat |-> ReversedBody(m, g[m \div 2], v)]]
  BY <1>9, Zenon
<1> QED BY <1>10, Zenon DEF Reversed, ReversedBody

-----------------------------------------------------------------------------
(* Reversing the low bits of a number.                                     *)

Rev(N, v) == reverseBits(v, N - 1)

\* The loop of reverseBits, one bit at a time from the low end.
LEMMA RevUnfold ==
    ASSUME NEW v \in Nat
    PROVE  /\ Rev(1, v) = 0
           /\ \A N \in Nat \ {0} : Rev(2 * N, v) = (v % 2) * N + Rev(N, v \div 2)
<1>1. \A m \in Nat : Reversed[m][v] = ReversedBody(m, Reversed[m \div 2], v)
  BY ReversedEquation
<1>2. Rev(1, v) = 0
  BY <1>1 DEF Rev, reverseBits, ReversedBody
<1>3. ASSUME NEW N \in Nat \ {0} PROVE Rev(2 * N, v) = (v % 2) * N + Rev(N, v \div 2)
  <2>1. 2 * N - 1 \in Nat /\ 2 * N - 1 # 0 /\ (2 * N - 1 + 1) \div 2 = N /\ (2 * N - 1) \div 2 = N - 1
    OBVIOUS
  <2>2. Reversed[2 * N - 1][v] = (v % 2) * N + Reversed[N - 1][v \div 2]
    BY <1>1, <2>1 DEF ReversedBody
  <2> QED BY <2>2 DEF Rev, reverseBits
<1> QED BY <1>2, <1>3

\* A number is even or odd.
LEMMA Parity ==
    ASSUME NEW v \in Nat
    PROVE  /\ v \div 2 \in Nat
           /\ \/ v % 2 = 0 /\ v = 2 * (v \div 2)
              \/ v % 2 = 1 /\ v = 2 * (v \div 2) + 1
OBVIOUS

\* The reversed number has as many bits.
LEMMA RevRange == \A N \in Pow2, v \in Nat : Rev(N, v) \in 0 .. N - 1
<1> DEFINE Bad == {N \in Pow2 : \E v \in Nat : Rev(N, v) \notin 0 .. N - 1}
<1> SUFFICES ASSUME Bad # {} PROVE FALSE
  OBVIOUS
<1>1. PICK N \in Bad : \A m \in Bad : N <= m
  <2>1. Bad \subseteq Nat
    BY DEF Pow2
  <2> HIDE DEF Bad
  <2> QED BY <2>1, LeastExists
<1>2. PICK v \in Nat : Rev(N, v) \notin 0 .. N - 1
  BY <1>1
<1>3. N # 1
  BY <1>2, RevUnfold
<1>4. PICK M \in Pow2 : N = 2 * M /\ M < N
  BY <1>1, <1>3, PowersOfTwo
<1>5. M \in Nat \ {0} /\ v \div 2 \in Nat /\ v % 2 \in {0, 1}
  BY DEF Pow2
<1>6. Rev(M, v \div 2) \in 0 .. M - 1
  <2>1. M \notin Bad
    BY <1>1, <1>4, <1>5 DEF Pow2
  <2> QED BY <1>5, <2>1
<1>7. Rev(N, v) = (v % 2) * M + Rev(M, v \div 2)
  BY <1>4, <1>5, RevUnfold
<1>8. (v % 2) * M \in {0, M}
  BY <1>5
<1>9. Rev(N, v) \in 0 .. N - 1
  BY <1>4, <1>5, <1>6, <1>7, <1>8
<1> QED BY <1>2, <1>9

\* The same loop from the high end: when the table doubles, a bucket number gets
\* one more bit at the top, and the reversed number one more at the bottom.
LEMMA RevSplit ==
    \A N \in Pow2 : \A x \in 0 .. N - 1 :
        Rev(2 * N, x) = 2 * Rev(N, x) /\ Rev(2 * N, x + N) = 2 * Rev(N, x) + 1
<1> DEFINE Good(N, x) == Rev(2 * N, x) = 2 * Rev(N, x) /\ Rev(2 * N, x + N) = 2 * Rev(N, x) + 1
           Bad == {N \in Pow2 : \E x \in 0 .. N - 1 : ~Good(N, x)}
<1> SUFFICES ASSUME Bad # {} PROVE FALSE
  OBVIOUS
<1>1. PICK N \in Bad : \A m \in Bad : N <= m
  <2>1. Bad \subseteq Nat
    BY DEF Pow2
  <2> HIDE DEF Bad
  <2> QED BY <2>1, LeastExists
<1>2. PICK x \in 0 .. N - 1 : ~Good(N, x)
  BY <1>1
<1>3. N # 1
  <2> SUFFICES ASSUME N = 1 PROVE FALSE
    OBVIOUS
  <2>1. x = 0
    BY <1>2
  <2>2. Rev(1, 0) = 0 /\ Rev(1, 0 \div 2) = 0 /\ Rev(1, 1 \div 2) = 0
    BY RevUnfold
  <2>3. Rev(2 * 1, 0) = (0 % 2) * 1 + Rev(1, 0 \div 2) /\ Rev(2 * 1, 1) = (1 % 2) * 1 + Rev(1, 1 \div 2)
    BY RevUnfold
  <2> QED BY <1>2, <2>1, <2>2, <2>3
<1>4. PICK M \in Pow2 : N = 2 * M /\ M < N
  BY <1>1, <1>3, PowersOfTwo
<1> DEFINE y == x \div 2
           b == x % 2
<1>5. /\ M \in Nat \ {0} /\ N \in Nat \ {0} /\ x \in Nat /\ x + N \in Nat
      /\ y \in 0 .. M - 1 /\ b \in {0, 1}
      /\ (x + N) \div 2 = y + M /\ (x + N) % 2 = b
  <2>1. M \in Nat \ {0} /\ N \in Nat \ {0} /\ x \in Nat /\ x + N \in Nat /\ x < 2 * M
    BY <1>2, <1>4 DEF Pow2
  <2> QED BY <1>4, <2>1
<1>6. Good(M, y)
  <2>1. M \notin Bad
    BY <1>1, <1>4, <1>5
  <2> QED BY <1>5, <2>1
<1>7. /\ Rev(2 * N, x) = b * N + Rev(N, y)
      /\ Rev(2 * N, x + N) = b * N + Rev(N, y + M)
      /\ Rev(N, x) = b * M + Rev(M, y)
  BY <1>4, <1>5, RevUnfold
<1>8. Rev(M, y) \in Nat
  BY <1>5, RevRange
<1>9. b * N = 2 * (b * M) /\ b * M \in Nat
  BY <1>4, <1>5
<1> HIDE DEF b, y
<1>10. Rev(N, y) = 2 * Rev(M, y) /\ Rev(N, y + M) = 2 * Rev(M, y) + 1
  BY <1>4, <1>6
<1> QED BY <1>2, <1>7, <1>8, <1>9, <1>10

\* Reversing twice gives the number back, so no two buckets share a turn.
LEMMA RevTwice == \A N \in Pow2 : \A v \in 0 .. N - 1 : Rev(N, Rev(N, v)) = v
<1> DEFINE Bad == {N \in Pow2 : \E v \in 0 .. N - 1 : Rev(N, Rev(N, v)) # v}
<1> SUFFICES ASSUME Bad # {} PROVE FALSE
  OBVIOUS
<1>1. PICK N \in Bad : \A m \in Bad : N <= m
  <2>1. Bad \subseteq Nat
    BY DEF Pow2
  <2> HIDE DEF Bad
  <2> QED BY <2>1, LeastExists
<1>2. PICK v \in 0 .. N - 1 : Rev(N, Rev(N, v)) # v
  BY <1>1
<1>3. N # 1
  BY <1>2, RevUnfold
<1>4. PICK M \in Pow2 : N = 2 * M /\ M < N
  BY <1>1, <1>3, PowersOfTwo
<1> DEFINE u == Rev(M, v \div 2)
<1>5. M \in Nat \ {0} /\ v \in Nat /\ v \div 2 \in 0 .. M - 1
  <2>1. M \in Nat \ {0} /\ v \in Nat /\ v < 2 * M
    BY <1>2, <1>4 DEF Pow2
  <2> QED BY <2>1
<1>6. u \in 0 .. M - 1
  BY <1>5, RevRange
<1>7. Rev(M, u) = v \div 2
  <2>1. M \notin Bad
    BY <1>1, <1>4, <1>5 DEF Pow2
  <2> QED BY <1>5, <2>1
<1>8. Rev(N, v) = (v % 2) * M + u
  BY <1>4, <1>5, RevUnfold
<1> HIDE DEF u
<1>9. Rev(N, u) = 2 * Rev(M, u) /\ Rev(N, u + M) = 2 * Rev(M, u) + 1
  BY <1>4, <1>6, RevSplit
<1>10. CASE v % 2 = 0 /\ v = 2 * (v \div 2)
  <2>1. Rev(N, v) = u
    BY <1>5, <1>6, <1>8, <1>10
  <2> QED BY <1>2, <1>7, <1>9, <1>10, <2>1
<1>11. CASE v % 2 = 1 /\ v = 2 * (v \div 2) + 1
  <2>1. Rev(N, v) = u + M
    BY <1>5, <1>6, <1>8, <1>11
  <2> QED BY <1>2, <1>7, <1>9, <1>11, <2>1
<1> QED BY <1>5, <1>10, <1>11, Parity

\* Bucket 0 comes first.
LEMMA RevZero == \A N \in Pow2 : Rev(N, 0) = 0
<1> DEFINE Bad == {N \in Pow2 : Rev(N, 0) # 0}
<1> SUFFICES ASSUME Bad # {} PROVE FALSE
  OBVIOUS
<1>1. PICK N \in Bad : \A m \in Bad : N <= m
  <2>1. Bad \subseteq Nat
    BY DEF Pow2
  <2> HIDE DEF Bad
  <2> QED BY <2>1, LeastExists
<1>2. N # 1
  BY <1>1, RevUnfold
<1>3. PICK M \in Pow2 : N = 2 * M /\ M < N
  BY <1>1, <1>2, PowersOfTwo
<1>4. M \notin Bad /\ M \in Nat \ {0} /\ N \in Nat /\ 0 \div 2 = 0 /\ 0 % 2 = 0
  BY <1>1, <1>3 DEF Pow2
<1>5. Rev(N, 0) = 0 * M + Rev(M, 0)
  BY <1>3, <1>4, RevUnfold
<1> QED BY <1>1, <1>4, <1>5

\* When the table doubles, the entries of a bucket stay or move up by the old
\* bucket count.
LEMMA BucketSplits ==
    ASSUME NEW h \in Nat, NEW N \in Nat \ {0}
    PROVE  /\ h % N \in 0 .. N - 1
           /\ h % (2 * N) = h % N \/ h % (2 * N) = (h % N) + N
<1> DEFINE r == h % (2 * N)
           q == h \div (2 * N)
           D == 2 * N
<1>1. h = D * q + (h % D) /\ h % D \in 0 .. D - 1 /\ q \in Int
  <2>1. D \in Nat \ {0}
    OBVIOUS
  <2>2. h = D * (h \div D) + (h % D) /\ h % D \in 0 .. D - 1 /\ h \div D \in Int
    <3> HIDE DEF D
    <3> QED BY <2>1, Z3
  <2> QED BY <2>2
<1>2. r \in 0 .. 2 * N - 1 /\ r \in Nat
  BY <1>1
<1> HIDE DEF q
<1>3. D * q = N * (2 * q) /\ N * (2 * q) \in Int /\ N * (2 * q + 1) = N * (2 * q) + N
  BY <1>1, Z3
<1>4. h = r + N * (2 * q) /\ h = (r - N) + N * (2 * q + 1)
  <2> DEFINE z == N * (2 * q)
             w == N * (2 * q + 1)
  <2>1. h = z + r /\ w = z + N /\ z \in Int
    BY <1>1, <1>3
  <2> HIDE DEF z, w, r
  <2>2. h = r + z /\ h = (r - N) + w
    BY <1>2, <2>1
  <2> QED BY <2>2 DEF z, w
<1> HIDE DEF r, D
<1>5. ASSUME NEW a \in Int, NEW b \in Int PROVE (a + N * b) % N = a % N
  BY RemainderShift
<1>6. 2 * q \in Int /\ 2 * q + 1 \in Int /\ r - N \in Int
  BY <1>1, <1>2
<1>7. h % N = r % N /\ h % N = (r - N) % N
  <2> DEFINE a == 2 * q
             b == 2 * q + 1
  <2>1. a \in Int /\ b \in Int /\ r \in Int /\ h = r + N * a /\ h = (r - N) + N * b
    BY <1>2, <1>4, <1>6
  <2> HIDE DEF a, b
  <2>2. (r + N * a) % N = r % N /\ ((r - N) + N * b) % N = (r - N) % N
    BY <1>5, <1>6, <2>1
  <2> QED BY <2>1, <2>2
<1>8. h % N \in 0 .. N - 1
  OBVIOUS
<1>9. CASE r < N
  <2>1. r % N = r
    BY <1>2, <1>9, SmallRemainder
  <2> QED BY <1>7, <1>8, <2>1 DEF r
<1>10. CASE ~(r < N)
  <2>1. r - N \in Nat /\ r - N < N
    BY <1>2, <1>10
  <2>2. (r - N) % N = r - N
    BY <2>1, SmallRemainder
  <2>3. r = (h % N) + N
    BY <1>2, <1>7, <2>2
  <2> QED BY <1>8, <2>3 DEF r
<1> QED BY <1>9, <1>10

-----------------------------------------------------------------------------
(* The scan.                                                               *)

\* The place of a hash, or of the cursor, in the order of the scan.
Turn(h) == Rev(bucketCount, h % bucketCount)
Reached == Rev(bucketCount, cursor)

\* What has been visited is what comes before the cursor in reverse-binary
\* order, once each; EachEntryOnce does not say which entries those are.
ScanInv ==
    /\ TypeOK
    /\ ~scanned => cursor = 0
    /\ \A h \in Hashes : visits[h] = IF ScanOver \/ Turn(h) < Reached THEN 1 ELSE 0

\* The bucket counts of the table are the powers of two Bits knows.
LEMMA CountsArePow2 ==
    /\ HashRange \in Nat /\ FewestBuckets \in Nat \ {0}
    /\ BucketCounts = {b \in Pow2 : FewestBuckets <= b /\ b <= HashRange}
    /\ BucketCounts \subseteq Nat \ {0}
<1>1. HashRange \in Nat /\ FewestBuckets \in Nat \ {0}
  BY ScanAssumption DEF nextPow2
<1> QED BY <1>1 DEF BucketCounts, Pow2

\* The turns are numbers, and only the entries of the bucket at the cursor have
\* the cursor's turn.
LEMMA Turns ==
    ASSUME TypeOK
    PROVE  /\ bucketCount \in Pow2 /\ bucketCount \in Nat \ {0}
           /\ cursor \in 0 .. bucketCount - 1 /\ cursor % bucketCount = cursor
           /\ Reached \in 0 .. bucketCount - 1
           /\ \A h \in Hashes : /\ h % bucketCount \in 0 .. bucketCount - 1
                                /\ Turn(h) \in 0 .. bucketCount - 1
                                /\ Turn(h) = Reached <=> h % bucketCount = cursor
<1>1. /\ bucketCount \in Pow2 /\ bucketCount \in Nat \ {0} /\ cursor \in 0 .. bucketCount - 1
      /\ Hashes \subseteq Nat
  BY CountsArePow2 DEF TypeOK, Hashes
<1>2. cursor % bucketCount = cursor /\ cursor \in Nat
  BY <1>1, SmallRemainder
<1>3. \A h \in Hashes : h % bucketCount \in 0 .. bucketCount - 1 /\ h % bucketCount \in Nat
  BY <1>1, BucketSplits
<1>4. Reached \in 0 .. bucketCount - 1
  BY <1>1, <1>2, RevRange DEF Reached
<1>5. ASSUME NEW h \in Hashes
      PROVE  Turn(h) \in 0 .. bucketCount - 1 /\ (Turn(h) = Reached <=> h % bucketCount = cursor)
  <2>1. Turn(h) \in 0 .. bucketCount - 1
    BY <1>1, <1>3, RevRange DEF Turn
  <2>2. /\ Rev(bucketCount, Turn(h)) = h % bucketCount
        /\ Rev(bucketCount, Reached) = cursor
    BY <1>1, <1>3, RevTwice DEF Turn, Reached
  <2>3. h % bucketCount = cursor => Turn(h) = Reached
    BY DEF Turn, Reached
  <2> QED BY <2>1, <2>2, <2>3
<1> QED BY <1>1, <1>2, <1>3, <1>4, <1>5

\* One call of scanBucket takes the next turn, or ends the scan after the last.
LEMMA ScanStep ==
    ASSUME ScanInv, scanBucket
    PROVE  ScanInv'
<1> DEFINE N == bucketCount
<1>1. /\ ~ScanOver /\ bucketCount' = N /\ scanned' = TRUE
      /\ visits' = [h \in Hashes |-> IF h % N = cursor % N /\ visits[h] < 2
                                     THEN visits[h] + 1 ELSE visits[h]]
      /\ cursor' = nextCursor(cursor, N - 1)
  BY DEF scanBucket
<1>2. TypeOK
  BY DEF ScanInv
<1>3. /\ N \in Pow2 /\ N \in Nat \ {0} /\ cursor \in 0 .. N - 1 /\ cursor % N = cursor
      /\ Reached \in 0 .. N - 1
      /\ \A h \in Hashes : /\ Turn(h) \in 0 .. N - 1
                           /\ Turn(h) = Reached <=> h % N = cursor
  BY <1>2, Turns
<1>4. \A h \in Hashes : visits[h] = IF Turn(h) < Reached THEN 1 ELSE 0
  BY <1>1 DEF ScanInv
<1>5. \A h \in Hashes : visits'[h] = IF Turn(h) <= Reached THEN 1 ELSE 0
  <2> SUFFICES ASSUME NEW h \in Hashes PROVE visits'[h] = IF Turn(h) <= Reached THEN 1 ELSE 0
    OBVIOUS
  <2>1. visits'[h] = IF h % N = cursor /\ visits[h] < 2 THEN visits[h] + 1 ELSE visits[h]
    BY <1>1, <1>3
  <2>2. CASE h % N = cursor
    BY <1>3, <1>4, <2>1, <2>2
  <2>3. CASE h % N # cursor
    BY <1>3, <1>4, <2>1, <2>3
  <2> QED BY <2>2, <2>3
<1>6. visits' \in [Hashes -> 0 .. 2]
  <2>1. visits' = [h \in Hashes |-> visits'[h]]
    BY <1>1
  <2>2. \A h \in Hashes : visits'[h] \in 0 .. 2
    BY <1>5
  <2> QED BY <2>1, <2>2
<1>7. cursor' = IF Reached + 1 > N - 1 THEN 0 ELSE Rev(N, Reached + 1)
  BY <1>1 DEF nextCursor, Reached, Rev
<1>8. \A h \in Hashes : Turn(h)' = Turn(h)
  BY <1>1 DEF Turn
<1> HIDE DEF N
<1>9. CASE Reached + 1 > N - 1
  <2>1. cursor' = 0 /\ cursor' \in 0 .. N - 1
    BY <1>3, <1>7, <1>9
  <2>2. ScanOver'
    BY <1>1, <2>1 DEF ScanOver
  <2>3. \A h \in Hashes : visits'[h] = 1
    BY <1>3, <1>5, <1>9
  <2>4. TypeOK'
    BY <1>1, <1>2, <1>6, <2>1 DEF TypeOK, N, Hashes, BucketCounts
  <2> QED BY <1>1, <2>2, <2>3, <2>4 DEF ScanInv
<1>10. CASE Reached + 1 <= N - 1
  <2>1. Reached + 1 \in 0 .. N - 1 /\ Reached + 1 # 0 /\ Reached + 1 \in Nat
    BY <1>3, <1>10
  <2>2. cursor' = Rev(N, Reached + 1)
    BY <1>3, <1>7, <1>10
  <2>3. cursor' \in 0 .. N - 1 /\ Rev(N, cursor') = Reached + 1
    BY <1>3, <2>1, <2>2, RevRange, RevTwice
  <2>4. cursor' # 0
    BY <1>3, <2>1, <2>3, RevZero
  <2>5. Reached' = Reached + 1 /\ ~ScanOver'
    BY <1>1, <2>3, <2>4 DEF Reached, ScanOver, N
  <2>6. ASSUME NEW h \in Hashes PROVE visits'[h] = IF Turn(h)' < Reached' THEN 1 ELSE 0
    <3>1. Turn(h) <= Reached <=> Turn(h) < Reached + 1
      BY <1>3
    <3> QED BY <1>5, <1>8, <2>5, <3>1
  <2>7. TypeOK'
    BY <1>1, <1>2, <1>6, <2>3 DEF TypeOK, N, Hashes, BucketCounts
  <2> QED BY <1>1, <2>5, <2>6, <2>7 DEF ScanInv
<1> QED BY <1>3, <1>9, <1>10

\* Growth in the middle of a scan doubles every turn: the two halves of a bucket
\* stay on the same side of the cursor.
LEMMA GrowStep ==
    ASSUME ScanInv, maybeGrow
    PROVE  ScanInv'
<1> DEFINE N == bucketCount
<1>1. 2 * N <= HashRange /\ bucketCount' = 2 * N /\ UNCHANGED <<cursor, visits, scanned>>
  BY DEF maybeGrow
<1>2. TypeOK
  BY DEF ScanInv
<1>3. /\ N \in Pow2 /\ N \in Nat \ {0} /\ cursor \in 0 .. N - 1
      /\ Reached \in 0 .. N - 1
      /\ \A h \in Hashes : h % N \in 0 .. N - 1 /\ Turn(h) \in 0 .. N - 1
  BY <1>2, Turns
<1>4. 2 * N \in Pow2
  BY <1>3, PowersOfTwo
<1>5. Reached' = 2 * Reached
  BY <1>1, <1>3, RevSplit DEF Reached
<1>6. ASSUME NEW h \in Hashes PROVE Turn(h)' < Reached' <=> Turn(h) < Reached
  <2>1. h \in Nat
    BY CountsArePow2 DEF Hashes
  <2>2. h % (2 * N) = h % N \/ h % (2 * N) = (h % N) + N
    BY <1>3, <2>1, BucketSplits
  <2>3. Turn(h)' = Rev(2 * N, h % (2 * N)) /\ Turn(h) = Rev(N, h % N)
    BY <1>1 DEF Turn
  <2>4. Turn(h)' = 2 * Turn(h) \/ Turn(h)' = 2 * Turn(h) + 1
    BY <1>3, <2>2, <2>3, RevSplit
  <2> QED BY <1>3, <1>5, <2>4
<1>7. ScanOver' = ScanOver
  BY <1>1 DEF ScanOver
<1>8. TypeOK'
  <2>1. 2 * N \in BucketCounts /\ cursor \in 0 .. 2 * N - 1
    <3>1. FewestBuckets <= N
      BY <1>2, CountsArePow2 DEF TypeOK
    <3> QED BY <1>1, <1>3, <1>4, <3>1, CountsArePow2
  <2> QED BY <1>1, <1>2, <2>1 DEF TypeOK, Hashes, BucketCounts
<1>9. ASSUME NEW h \in Hashes
      PROVE  visits'[h] = IF ScanOver' \/ Turn(h)' < Reached' THEN 1 ELSE 0
  BY <1>1, <1>6, <1>7 DEF ScanInv
<1> QED BY <1>1, <1>8, <1>9 DEF ScanInv

\* No turn comes before the first.
LEMMA FreshScan ==
    TypeOK /\ cursor = 0 /\ ~scanned /\ visits = NotVisited => ScanInv
<1> SUFFICES ASSUME TypeOK, cursor = 0, ~scanned, visits = NotVisited PROVE ScanInv
  OBVIOUS
<1>1. \A h \in Hashes : ~(Turn(h) < Reached)
  <2>1. Reached = 0
    BY Turns, RevZero DEF Reached
  <2> QED BY <2>1, Turns
<1> QED BY <1>1 DEF ScanInv, ScanOver, NotVisited

\* For every power of two of buckets and hashes, and wherever growth falls, no
\* entry is handed out twice, and at the end of the scan each has been.
THEOREM ScanSeesEachOnce == Spec => []EachEntryOnce
<1>1. Init => ScanInv
  <2> SUFFICES ASSUME Init PROVE ScanInv
    OBVIOUS
  <2>1. TypeOK
    <3>1. bucketCount \in BucketCounts /\ 0 \in 0 .. bucketCount - 1
      BY CountsArePow2 DEF Init
    <3>2. NotVisited \in [Hashes -> 0 .. 2]
      BY DEF NotVisited
    <3> QED BY <3>1, <3>2 DEF Init, TypeOK
  <2> QED BY <2>1, FreshScan DEF Init
<1>2. ScanInv /\ [Next]_vars => ScanInv'
  <2> SUFFICES ASSUME ScanInv, [Next]_vars PROVE ScanInv'
    OBVIOUS
  <2>1. CASE UNCHANGED vars
    BY <2>1 DEF vars, ScanInv, TypeOK, ScanOver, Turn, Reached, Hashes, BucketCounts
  <2>2. CASE scanBucket
    BY <2>2, ScanStep
  <2>3. CASE maybeGrow
    BY <2>3, GrowStep
  <2>4. CASE NextScan
    <3>1. /\ cursor' = 0 /\ scanned' = FALSE /\ visits' = NotVisited
          /\ bucketCount' = bucketCount /\ cursor' = cursor
      BY <2>4 DEF NextScan, ScanOver
    <3>2. NotVisited \in [Hashes -> 0 .. 2] /\ NotVisited' = NotVisited
      BY DEF NotVisited, Hashes
    <3>3. bucketCount' \in BucketCounts /\ cursor' \in 0 .. bucketCount' - 1
      BY <3>1 DEF ScanInv, TypeOK
    <3>4. TypeOK'
      BY <3>1, <3>2, <3>3 DEF TypeOK, Hashes, BucketCounts
    <3>5. (TypeOK /\ cursor = 0 /\ ~scanned /\ visits = NotVisited)'
      BY <3>1, <3>2, <3>4
    <3> QED BY <3>5, FreshScan, PTL
  <2> QED BY <2>1, <2>2, <2>3, <2>4 DEF Next
<1>3. ScanInv => EachEntryOnce
  BY DEF ScanInv, EachEntryOnce
<1> QED BY <1>1, <1>2, <1>3, PTL DEF Spec
=============================================================================
