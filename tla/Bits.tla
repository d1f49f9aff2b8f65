-------------------------------- MODULE Bits --------------------------------
(***************************************************************************)
(* The bit arithmetic of core/bits.cpp: rounding a bucket count up to a    *)
(* power of two and the reverse-binary scan cursor.  A mask is always      *)
(* 2^w - 1, one less than a bucket count.                                  *)
(***************************************************************************)
EXTENDS Naturals

\* std::bit_ceil, halving until one is left.
BitCeil[n \in Nat] == IF n <= 1 THEN 1 ELSE 2 * BitCeil[(n + 1) \div 2]

nextPow2(n) == IF n = 0 THEN 1 ELSE BitCeil[n]

\* The loop of reverseBits: the low bit of v becomes the highest bit m covers.
Reversed[m \in Nat] ==
    [v \in Nat |-> IF m = 0 THEN 0
                   ELSE (v % 2) * ((m + 1) \div 2) + Reversed[m \div 2][v \div 2]]

reverseBits(v, mask) == Reversed[mask][v]

\* Mutant: a plain counting cursor, which meets the upper half of a bucket that
\* splits again.
CountingCursor(cursor, mask) == (cursor + 1) % (mask + 1)

\* Mutant: the carry out of the low bit does not end the cycle.
StuckCursor(cursor, mask) ==
    LET r == reverseBits(cursor, mask) + 1
    IN  IF r > mask THEN mask ELSE reverseBits(r, mask)

\* Adds one at the top bit and carries downwards; 0 when the cycle is over.
nextCursor(cursor, mask) ==
    LET r == reverseBits(cursor, mask) + 1
    IN  IF r > mask THEN 0 ELSE reverseBits(r, mask)
=============================================================================
