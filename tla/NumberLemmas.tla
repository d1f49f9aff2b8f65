---------------------------- MODULE NumberLemmas ----------------------------
(***************************************************************************)
(* Facts about natural numbers, recursion over them and the folds made of  *)
(* it that several proofs need.                                            *)
(*                                                                         *)
(* First, the least-number principle in first-order form: the library has  *)
(* induction with an operator as a parameter, which no prover at hand can  *)
(* instantiate, but that the order of the naturals is well founded, and    *)
(* that a well-founded relation has minimal elements, needs none.  A proof *)
(* by induction becomes a proof from the least counterexample.             *)
(***************************************************************************)
EXTENDS Integers, Sequences, SequencesExt, FiniteSetsExt, Bits, WellFoundedInduction, SequenceTheorems,
        TLAPS

Less == {ss \in Nat \X Nat : ss[1] < ss[2]}

\* The order of the naturals has no infinite descent.
LEMMA LessIsWellFounded == IsWellFoundedOn(Less, Nat)
BY NatLessThanWellFounded DEF OpToRel, Less

\* Every set of naturals that is not empty has a least element.
LEMMA LeastExists ==
    ASSUME NEW S, S \subseteq Nat, S # {}
    PROVE  \E m \in S : \A n \in S : m <= n
<1>1. PICK m \in S : \A n \in S : ~(<<n, m>> \in Less)
  BY LessIsWellFounded, WFMin
<1>2. \A n \in S : ~(n < m)
  BY <1>1 DEF Less
<1> QED BY <1>2

\* Min is that element: the descriptor the kernel hands out is a free one, and
\* the request that ends a conversation is the first that does.
LEMMA MinIsLeast ==
    ASSUME NEW S, S \subseteq Nat, S # {}
    PROVE  Min(S) \in S /\ \A n \in S : Min(S) <= n
BY LeastExists DEF Min

\* Max is the greatest element of a set that has a bound: a fold over the
\* arguments of a request takes them in their order.
LEMMA MaxIsGreatest ==
    ASSUME NEW S, S \subseteq Nat, S # {}, NEW b \in Nat, \A n \in S : n <= b
    PROVE  Max(S) \in S /\ \A n \in S : n <= Max(S)
<1> DEFINE Bounds == {u \in Nat : \A n \in S : n <= u}
<1>1. PICK u \in Bounds : \A v \in Bounds : u <= v
  <2>1. b \in Bounds /\ Bounds \subseteq Nat
    OBVIOUS
  <2> HIDE DEF Bounds
  <2> QED BY <2>1, LeastExists
<1>2. u \in S
  <2> SUFFICES ASSUME u \notin S PROVE FALSE
    OBVIOUS
  <2>1. \A n \in S : n <= u - 1 /\ n >= 0
    BY <1>1
  <2>2. PICK n \in S : TRUE
    OBVIOUS
  <2>3. u - 1 \in Nat
    BY <1>1, <2>1, <2>2
  <2>4. u - 1 \in Bounds
    BY <2>1, <2>3
  <2> QED BY <1>1, <2>4
<1>3. \E x \in S : \A y \in S : x >= y
  BY <1>1, <1>2
<1> QED BY <1>3 DEF Max

-----------------------------------------------------------------------------
(* Division, for a divisor that is not a literal: requests in units,       *)
(* seconds in milliseconds.                                                *)

\* The quotient is the largest whole part, rounded down.
LEMMA WholePart ==
    ASSUME NEW u \in Int, NEW r \in Nat \ {0}
    PROVE  /\ u \div r \in Int /\ (u >= 0 => u \div r \in Nat)
           /\ (u \div r) * r <= u
           /\ u - (u \div r) * r < r
<1>1. u = r * (u \div r) + (u % r) /\ u % r \in 0 .. r - 1 /\ u \div r \in Int
  BY Z3
<1>2. u >= 0 => u \div r >= 0
  <2>1. ASSUME u >= 0, u \div r < 0 PROVE FALSE
    <3>1. r * (u \div r) <= -r
      BY <1>1, <2>1, Z3
    <3> QED BY <1>1, <2>1, <3>1
  <2> QED BY <1>1, <2>1
<1>3. r * (u \div r) = (u \div r) * r
  BY <1>1
<1> QED BY <1>1, <1>2, <1>3

\* A multiple of the divisor divides evenly.
LEMMA EvenPart ==
    ASSUME NEW n \in Nat, NEW r \in Nat \ {0}
    PROVE  (n * r) \div r = n
<1>1. n * r \in Nat
  BY Z3
<1>2. DEFINE q == (n * r) \div r
<1>3. q \in Nat /\ q * r <= n * r /\ n * r - q * r < r
  BY <1>1, WholePart
<1> HIDE DEF q
<1>4. (n - q) * r = n * r - q * r
  BY <1>3, Z3
<1>5. ~(n - q >= 1)
  BY <1>3, <1>4, Z3
<1>6. ~(n - q <= -1)
  BY <1>3, <1>4, Z3
<1> QED BY <1>3, <1>5, <1>6 DEF q

\* Multiplication by a positive number keeps the order, both ways.
LEMMA ScaledOrder ==
    ASSUME NEW m \in Nat, NEW n \in Nat, NEW r \in Nat \ {0}
    PROVE  /\ m <= n => m * r <= n * r
           /\ m * r <= n * r => m <= n
           /\ m * r < (n + 1) * r => m <= n
           /\ m * r \in Nat /\ r * m = m * r /\ (n + 1) * r = n * r + r
BY Z3

\* A number below the modulus is its own remainder.
LEMMA SmallRemainder ==
    ASSUME NEW a \in Nat, NEW b \in Nat, a < b
    PROVE  a % b = a
<1>1. a = b * (a \div b) + (a % b) /\ a % b \in 0 .. b - 1 /\ a \div b \in Int
  BY Z3
<1>2. a \div b \in Nat /\ (a \div b) * b <= a
  BY WholePart
<1>3. ~(a \div b >= 1)
  BY <1>2, Z3
<1>4. a \div b = 0
  BY <1>2, <1>3
<1> QED BY <1>1, <1>4

\* Whole multiples of the modulus do not change a remainder.
LEMMA RemainderShift ==
    ASSUME NEW a \in Int, NEW b \in Int, NEW m \in Nat \ {0}
    PROVE  (a + m * b) % m = a % m
<1> DEFINE c == a + m * b
           q == a \div m
           p == c \div m
<1>1. c \in Int
  BY Z3
<1>2. a = m * q + (a % m) /\ a % m \in 0 .. m - 1 /\ q \in Int
  BY Z3
<1>3. c = m * p + (c % m) /\ c % m \in 0 .. m - 1 /\ p \in Int
  <2> HIDE DEF c
  <2> QED BY <1>1, Z3
<1> DEFINE d == p - q - b
<1>4. c = a + m * b
  OBVIOUS
<1> HIDE DEF c, q, p
<1>5. d \in Int /\ m * d = m * p - m * q - m * b
  BY <1>2, <1>3, Z3
<1>6. m * d \in Int /\ m * p \in Int /\ m * q \in Int /\ m * b \in Int
  BY <1>2, <1>3, <1>5, Z3
<1>7. m * d = (a % m) - (c % m)
  <2> DEFINE x == m * p
             y == m * q
             z == m * b
             u == a % m
             w == c % m
  <2>1. a = y + u /\ c = x + w /\ c = a + z /\ m * d = x - y - z
    BY <1>2, <1>3, <1>4, <1>5
  <2>2. x \in Int /\ y \in Int /\ z \in Int /\ u \in Int /\ w \in Int
    BY <1>2, <1>3, <1>6
  <2> HIDE DEF x, y, z, u, w
  <2>3. m * d = u - w
    BY <2>1, <2>2
  <2> QED BY <2>3 DEF u, w
<1> HIDE DEF d
<1>8. ~(d >= 1)
  <2>1. ASSUME d >= 1 PROVE FALSE
    <3>1. m * d >= m
      BY <1>5, <2>1, Z3
    <3> QED BY <1>2, <1>3, <1>6, <1>7, <3>1
  <2> QED BY <2>1
<1>9. ~(d <= -1)
  <2>1. ASSUME d <= -1 PROVE FALSE
    <3>1. m * d <= -m
      BY <1>5, <2>1, Z3
    <3> QED BY <1>2, <1>3, <1>6, <1>7, <3>1
  <2> QED BY <2>1
<1>10. d = 0
  BY <1>5, <1>8, <1>9
<1>11. m * d = 0
  BY <1>10, Z3
<1>12. c % m = a % m
  BY <1>2, <1>3, <1>7, <1>11
<1> QED BY <1>12 DEF c

-----------------------------------------------------------------------------
(* Recursive functions.  TLA+ defines one as a CHOOSE of a function that   *)
(* satisfies its equation; that there is one has to be proved.             *)

\* A recursion over S in which an argument needs at most one other, p[s], of
\* lower rank: the loops of core/bits.cpp are of this kind.
Descends(S, T, Base, base, step, p, rank) ==
    /\ T # {} /\ rank \in [S -> Nat]
    /\ \A s \in S : s \notin Base => p[s] \in S /\ rank[p[s]] < rank[s]
    /\ \A s \in S : s \in Base => base[s] \in T
    /\ \A s \in S, x \in T : step[<<s, x>>] \in T

Solution(f, S, Base, base, step, p) ==
    \A s \in S : f[s] = IF s \in Base THEN base[s] ELSE step[<<s, f[p[s]]>>]

\* Such a recursion has a solution.
LEMMA RecursionExists ==
    ASSUME NEW S, NEW T, NEW Base, NEW base, NEW step, NEW p, NEW rank,
           Descends(S, T, Base, base, step, p, rank)
    PROVE  \E f \in [S -> T] : Solution(f, S, Base, base, step, p)
<1> USE DEF Descends, Solution
<1> PICK t0 \in T : TRUE
  OBVIOUS
<1> DEFINE Val(f, s) == IF s \in Base THEN base[s] ELSE step[<<s, f[p[s]]>>]
           Good(f, n) == f \in [S -> T] /\ \A s \in S : rank[s] < n => f[s] = Val(f, s)
<1>1. \A f \in [S -> T], s \in S : Val(f, s) \in T
  OBVIOUS
<1>2. \A n \in Nat : \E f : Good(f, n)
  <2> DEFINE Bad == {n \in Nat : ~(\E f : Good(f, n))}
  <2> SUFFICES ASSUME Bad # {} PROVE FALSE
    OBVIOUS
  <2>1. PICK n \in Bad : \A m \in Bad : n <= m
    <3>1. Bad \subseteq Nat
      OBVIOUS
    <3> HIDE DEF Bad
    <3> QED BY <3>1, LeastExists
  <2>2. n # 0
    <3>1. Good([s \in S |-> t0], 0)
      OBVIOUS
    <3> QED BY <2>1, <3>1
  <2>3. PICK f : Good(f, n - 1)
    BY <2>1, <2>2
  <2> DEFINE h == [s \in S |-> Val(f, s)]
  <2>4. h \in [S -> T] /\ \A s \in S : h[s] = Val(f, s)
    BY <1>1, <2>3
  <2> HIDE DEF h
  <2>5. ASSUME NEW s \in S, rank[s] < n PROVE h[s] = Val(h, s)
    <3>1. CASE s \in Base
      BY <2>4, <3>1
    <3>2. CASE s \notin Base
      <4>1. p[s] \in S /\ rank[p[s]] < n - 1
        BY <2>1, <2>5, <3>2
      <4>2. h[p[s]] = f[p[s]]
        BY <2>3, <2>4, <4>1
      <4> QED BY <2>4, <3>2, <4>2
    <3> QED BY <3>1, <3>2
  <2>6. Good(h, n)
    BY <2>4, <2>5
  <2> QED BY <2>1, <2>6
<1>3. ASSUME NEW f, NEW n \in Nat, Good(f, n), NEW g, NEW m \in Nat, Good(g, m)
      PROVE  \A s \in S : rank[s] < n /\ rank[s] < m => f[s] = g[s]
  <2> DEFINE Differ == {s \in S : rank[s] < n /\ rank[s] < m /\ f[s] # g[s]}
             Ranks == {rank[s] : s \in Differ}
  <2> SUFFICES ASSUME Differ # {} PROVE FALSE
    OBVIOUS
  <2>1. PICK r \in Ranks : \A q \in Ranks : r <= q
    <3>1. Ranks \subseteq Nat /\ Ranks # {}
      OBVIOUS
    <3> HIDE DEF Ranks
    <3> QED BY <3>1, LeastExists
  <2>2. PICK s \in Differ : rank[s] = r
    BY <2>1
  <2>3. f[s] = Val(f, s) /\ g[s] = Val(g, s)
    BY <1>3, <2>2
  <2>4. CASE s \in Base
    BY <2>2, <2>3, <2>4
  <2>5. CASE s \notin Base
    <3>1. p[s] \in S /\ rank[p[s]] < rank[s] /\ rank[p[s]] \in Nat /\ rank[s] \in Nat
      BY <2>2, <2>5
    <3>2. p[s] \notin Differ
      <4>1. p[s] \in Differ => rank[s] <= rank[p[s]]
        BY <2>1, <2>2, Zenon
      <4> QED BY <3>1, <4>1
    <3>3. rank[p[s]] < n /\ rank[p[s]] < m
      BY <1>3, <2>2, <3>1
    <3>4. f[p[s]] = g[p[s]]
      BY <3>1, <3>2, <3>3
    <3> QED BY <2>2, <2>3, <2>5, <3>4
  <2> QED BY <2>4, <2>5
<1> DEFINE Part(n) == CHOOSE f : Good(f, n)
           F == [s \in S |-> Part(rank[s] + 1)[s]]
<1>4. \A n \in Nat : Good(Part(n), n)
  BY <1>2
<1> HIDE DEF Part
<1>5. ASSUME NEW s \in S
      PROVE  /\ F[s] \in T
             /\ \A u \in S : rank[u] <= rank[s] => F[u] = Part(rank[s] + 1)[u]
  <2>1. rank[s] + 1 \in Nat /\ Good(Part(rank[s] + 1), rank[s] + 1)
    BY <1>4
  <2>2. ASSUME NEW u \in S, rank[u] <= rank[s] PROVE F[u] = Part(rank[s] + 1)[u]
    <3>1. rank[u] + 1 \in Nat /\ Good(Part(rank[u] + 1), rank[u] + 1)
      BY <1>4
    <3>2. rank[u] < rank[s] + 1 /\ rank[u] < rank[u] + 1
      BY <2>2
    <3> QED BY <1>3, <2>1, <3>1, <3>2
  <2> QED BY <2>1, <2>2
<1>6. ASSUME NEW s \in S PROVE F[s] = Val(F, s)
  <2> DEFINE G == Part(rank[s] + 1)
  <2>1. Good(G, rank[s] + 1) /\ rank[s] < rank[s] + 1 /\ rank[s] \in Nat
    BY <1>4
  <2> HIDE DEF F
  <2>2. F[s] = G[s] /\ \A u \in S : rank[u] < rank[s] => F[u] = G[u]
    BY <1>5, <2>1
  <2> HIDE DEF G
  <2>3. G[s] = Val(G, s)
    BY <2>1
  <2>4. CASE s \in Base
    BY <2>2, <2>3, <2>4
  <2>5. CASE s \notin Base
    <3>1. F[p[s]] = G[p[s]]
      BY <2>2, <2>5
    <3> QED BY <2>2, <2>3, <2>5, <3>1
  <2> QED BY <2>4, <2>5
<1>7. F \in [S -> T]
  BY <1>5
<1> QED BY <1>6, <1>7

-----------------------------------------------------------------------------
(* bit_ceil (core/bits.cpp).                                               *)

\* The loop of bit_ceil ends.
LEMMA BitCeilEquation ==
    BitCeil = [n \in Nat |-> IF n <= 1 THEN 1 ELSE 2 * BitCeil[(n + 1) \div 2]]
<1> DEFINE Base == {0, 1}
           base == [n \in Nat |-> 1]
           step == [s \in Nat \X Nat |-> 2 * s[2]]
           p == [n \in Nat |-> (n + 1) \div 2]
           rank == [n \in Nat |-> n]
<1>1. /\ rank \in [Nat -> Nat]
      /\ \A n \in Nat : n \notin Base => p[n] \in Nat /\ rank[p[n]] < rank[n]
  OBVIOUS
<1>2. /\ \A n \in Nat : n \in Base => base[n] \in Nat
      /\ \A n \in Nat, x \in Nat : step[<<n, x>>] \in Nat
  OBVIOUS
<1>3. \A n, x \in Nat : base[n] = 1 /\ step[<<n, x>>] = 2 * x /\ p[n] = (n + 1) \div 2
                        /\ (n \in Base <=> n <= 1) /\ p[n] \in Nat
  OBVIOUS
<1> HIDE DEF Base, base, step, p, rank
<1>4. Descends(Nat, Nat, Base, base, step, p, rank)
  BY <1>1, <1>2 DEF Descends
<1>5. PICK f \in [Nat -> Nat] : Solution(f, Nat, Base, base, step, p)
  BY <1>4, RecursionExists
<1>6. ASSUME NEW n \in Nat PROVE f[n] = IF n <= 1 THEN 1 ELSE 2 * f[(n + 1) \div 2]
  <2>1. f[n] = (IF n \in Base THEN base[n] ELSE step[<<n, f[p[n]]>>]) /\ f[p[n]] \in Nat
    BY <1>3, <1>5 DEF Solution
  <2> QED BY <1>3, <2>1
<1>7. f = [n \in Nat |-> IF n <= 1 THEN 1 ELSE 2 * f[(n + 1) \div 2]]
  BY <1>6
<1>8. \E g : g = [n \in Nat |-> IF n <= 1 THEN 1 ELSE 2 * g[(n + 1) \div 2]]
  BY <1>7, Zenon
<1> QED BY <1>8, Zenon DEF BitCeil

\* bit_ceil returns a number that is at least its argument.
LEMMA BitCeilBound == \A n \in Nat : BitCeil[n] \in Nat /\ BitCeil[n] >= n
<1> DEFINE Bad == {n \in Nat : ~(BitCeil[n] \in Nat /\ BitCeil[n] >= n)}
<1> SUFFICES ASSUME Bad # {} PROVE FALSE
  OBVIOUS
<1>1. PICK n \in Bad : \A m \in Bad : n <= m
  <2>1. Bad \subseteq Nat
    OBVIOUS
  <2> HIDE DEF Bad
  <2> QED BY <2>1, LeastExists
<1>2. BitCeil[n] = IF n <= 1 THEN 1 ELSE 2 * BitCeil[(n + 1) \div 2]
  BY <1>1, BitCeilEquation
<1>3. n > 1
  BY <1>1, <1>2
<1>4. (n + 1) \div 2 \in Nat /\ (n + 1) \div 2 < n /\ 2 * ((n + 1) \div 2) >= n
  BY <1>1, <1>3
<1>5. BitCeil[(n + 1) \div 2] \in Nat /\ BitCeil[(n + 1) \div 2] >= (n + 1) \div 2
  BY <1>1, <1>4
<1> QED BY <1>1, <1>2, <1>3, <1>4, <1>5

-----------------------------------------------------------------------------
(* Bucket counts: powers of two.                                           *)

Pow2 == {n \in Nat \ {0} : nextPow2(n) = n}

\* Bucket counts are 1 and the doubles of bucket counts.
LEMMA PowersOfTwo ==
    /\ 1 \in Pow2
    /\ \A n \in Pow2 : 2 * n \in Pow2
    /\ \A n \in Pow2 : n = 1 \/ \E m \in Pow2 : n = 2 * m /\ m < n
<1>1. \A n \in Nat : BitCeil[n] = IF n <= 1 THEN 1 ELSE 2 * BitCeil[(n + 1) \div 2]
  BY BitCeilEquation
<1>2. 1 \in Pow2
  BY <1>1 DEF Pow2, nextPow2
<1>3. ASSUME NEW n \in Pow2 PROVE 2 * n \in Pow2
  <2>1. n \in Nat \ {0} /\ BitCeil[n] = n /\ (2 * n + 1) \div 2 = n /\ 2 * n \in Nat \ {0}
    BY DEF Pow2, nextPow2
  <2>2. BitCeil[2 * n] = 2 * n
    BY <1>1, <2>1
  <2> QED BY <2>1, <2>2 DEF Pow2, nextPow2
<1>4. ASSUME NEW n \in Pow2, n # 1 PROVE \E m \in Pow2 : n = 2 * m /\ m < n
  <2> DEFINE m == BitCeil[(n + 1) \div 2]
  <2>1. n \in Nat /\ n > 1 /\ BitCeil[n] = n /\ (n + 1) \div 2 \in Nat
    BY <1>4 DEF Pow2, nextPow2
  <2>2. m \in Nat /\ n = 2 * m
    BY <1>1, <2>1, BitCeilBound
  <2>3. (n + 1) \div 2 = m /\ m # 0 /\ m < n
    BY <2>1, <2>2
  <2>4. BitCeil[m] = m
    BY <2>3
  <2> QED BY <2>2, <2>3, <2>4 DEF Pow2, nextPow2
<1> QED BY <1>2, <1>3, <1>4

\* nextPow2 (core/bits.cpp) returns a bucket count.
LEMMA NextPow2IsPow2 == \A n \in Nat : nextPow2(n) \in Pow2
<1> DEFINE Bad == {n \in Nat : BitCeil[n] \notin Pow2}
<1>1. ASSUME Bad # {} PROVE FALSE
  <2>1. PICK n \in Bad : \A m \in Bad : n <= m
    <3>1. Bad \subseteq Nat
      OBVIOUS
    <3> HIDE DEF Bad
    <3> QED BY <1>1, <3>1, LeastExists
  <2>2. BitCeil[n] = IF n <= 1 THEN 1 ELSE 2 * BitCeil[(n + 1) \div 2]
    BY <2>1, BitCeilEquation
  <2>3. n > 1
    BY <2>1, <2>2, PowersOfTwo
  <2>4. (n + 1) \div 2 \in Nat /\ (n + 1) \div 2 < n
    BY <2>1, <2>3
  <2>5. BitCeil[(n + 1) \div 2] \in Pow2
    BY <2>1, <2>4
  <2> QED BY <2>1, <2>2, <2>3, <2>5, PowersOfTwo
<1> QED BY <1>1, PowersOfTwo DEF nextPow2

-----------------------------------------------------------------------------
(* Sequences put end to end.                                               *)

Appends(f, seqs, X, n) ==
    /\ f \in [1 .. n -> Seq(X)]
    /\ FlattenSeq(seqs) = f[n] /\ f[1] = seqs[1]
    /\ \A i \in 2 .. n : f[i] = f[i - 1] \o seqs[i]

\* FlattenSeq appends the sequences one at a time.
LEMMA FlattenSteps ==
    ASSUME NEW X, NEW n \in Nat \ {0}, NEW seqs \in [1 .. n -> Seq(X)]
    PROVE  \E f : Appends(f, seqs, X, n)
<1> DEFINE S == 1 .. n
           T == Seq(X)
           Base == {1}
           step == [s \in S \X T |-> s[2] \o seqs[s[1]]]
           p == [i \in S |-> i - 1]
           rank == [i \in S |-> i]
<1>1. /\ rank \in [S -> Nat] /\ T # {}
      /\ \A i \in S : i \notin Base => p[i] \in S /\ rank[p[i]] < rank[i]
      /\ \A i \in S : i \in Base => seqs[i] \in T
  OBVIOUS
<1>2. \A i \in S, x \in T : step[<<i, x>>] = x \o seqs[i] /\ step[<<i, x>>] \in T
  BY ConcatProperties
<1>3. \A i \in S : (i \in Base <=> i = 1) /\ (i # 1 => p[i] = i - 1 /\ i - 1 \in S)
  OBVIOUS
<1> HIDE DEF S, T, Base, step, p, rank
<1>4. Descends(S, T, Base, seqs, step, p, rank)
  BY <1>1, <1>2 DEF Descends
<1>5. PICK f \in [S -> T] : Solution(f, S, Base, seqs, step, p)
  BY <1>4, RecursionExists
<1>6. ASSUME NEW i \in S PROVE f[i] = IF i = 1 THEN seqs[i] ELSE f[i - 1] \o seqs[i]
  <2>1. f[i] = IF i \in Base THEN seqs[i] ELSE step[<<i, f[p[i]]>>]
    BY <1>5 DEF Solution
  <2>2. i # 1 => f[i - 1] \in T /\ p[i] = i - 1
    BY <1>3, <1>5
  <2> QED BY <1>2, <1>3, <2>1, <2>2
<1>7. f = [i \in 1 .. n |-> IF i = 1 THEN seqs[i] ELSE f[i - 1] \o seqs[i]]
  BY <1>5, <1>6 DEF S
<1> DEFINE Eq(g) == g = [i \in 1 .. n |-> IF i = 1 THEN seqs[i] ELSE g[i - 1] \o seqs[i]]
           flat == CHOOSE g : Eq(g)
<1>8. Eq(flat)
  <2>1. Eq(f)
    BY <1>7
  <2> HIDE DEF Eq
  <2> QED BY <2>1, Zenon
<1>9. Len(seqs) = n
  <2>1. seqs \in Seq(Seq(X)) /\ DOMAIN seqs = 1 .. n
    BY SeqDef
  <2>2. Len(seqs) \in Nat /\ DOMAIN seqs = 1 .. Len(seqs)
    BY <2>1, LenProperties
  <2> QED BY <2>1, <2>2
<1>10. FlattenSeq(seqs) = flat[n]
  BY <1>9 DEF FlattenSeq
<1> HIDE DEF flat
<1>11. \A i \in 1 .. n : flat[i] = IF i = 1 THEN seqs[i] ELSE flat[i - 1] \o seqs[i]
  <2> DEFINE body(i) == IF i = 1 THEN seqs[i] ELSE flat[i - 1] \o seqs[i]
  <2>1. flat = [i \in 1 .. n |-> body(i)]
    BY <1>8
  <2> HIDE DEF body
  <2>2. \A i \in 1 .. n : flat[i] = body(i)
    BY <2>1
  <2> QED BY <2>2 DEF body
<1> DEFINE Bad == {i \in 1 .. n : flat[i] # f[i]}
<1>12. ASSUME Bad # {} PROVE FALSE
  <2>1. PICK i \in Bad : \A j \in Bad : i <= j
    <3>1. Bad \subseteq Nat
      OBVIOUS
    <3> HIDE DEF Bad
    <3> QED BY <1>12, <3>1, LeastExists
  <2>2. i # 1
    BY <1>6, <1>11, <2>1 DEF S
  <2>3. i - 1 \in 1 .. n /\ i - 1 \notin Bad
    BY <2>1, <2>2
  <2>4. flat[i - 1] = f[i - 1]
    BY <2>3
  <2> QED BY <1>6, <1>11, <2>1, <2>2, <2>4, ZenonT(30) DEF S
<1>13. FlattenSeq(seqs) = f[n]
  BY <1>10, <1>12
<1>14. f \in [1 .. n -> Seq(X)] /\ f[1] = seqs[1] /\ \A i \in 2 .. n : f[i] = f[i - 1] \o seqs[i]
  <2>1. 1 \in S /\ \A i \in 2 .. n : i \in S /\ i # 1
    BY DEF S
  <2> QED BY <1>5, <1>6, <2>1 DEF S, T
<1> QED BY <1>13, <1>14 DEF Appends
=============================================================================
