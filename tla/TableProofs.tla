---------------------------- MODULE TableProofs ----------------------------
(***************************************************************************)
(* Proofs about Table (core/table.cpp), for every set of keys and values,  *)
(* every hash function and every pool: its chains, its heap buffers, its   *)
(* scan and its sampler.                                                   *)
(***************************************************************************)
EXTENDS Table, NumberLemmas, SequenceTheorems, FiniteSetTheorems, FunctionTheorems

-----------------------------------------------------------------------------
(* Chains.  nx is the next field of every block, before or after a step.   *)

LinksVia(nx, s, b) ==
    /\ b = IF s = <<>> THEN Null ELSE s[1]
    /\ \A i \in DOMAIN s : nx[s[i]] = IF i = Len(s) THEN Null ELSE s[i + 1]

ChainVia(nx, b) ==
    CHOOSE s \in BoundedSeq(Blocks, Cardinality(Blocks)) : LinksVia(nx, s, b)

\* The blocks of S, in some order, are the chain that starts at b.
Chained(nx, b, S) ==
    \E s \in Seq(Blocks) : LinksVia(nx, s, b) /\ ToSet(s) = S

\* What every loop of core/table.cpp relies on: a chain has one reading.
LEMMA LinksAgree ==
    ASSUME NEW nx, NEW b, NEW s \in Seq(Blocks), NEW t \in Seq(Blocks),
           LinksVia(nx, s, b), LinksVia(nx, t, b)
    PROVE  Len(s) <= Len(t) /\ \A i \in 1 .. Len(s) : s[i] = t[i]
<1>1. /\ Len(s) \in Nat /\ DOMAIN s = 1 .. Len(s) /\ \A i \in 1 .. Len(s) : s[i] \in Blocks
      /\ Len(t) \in Nat /\ DOMAIN t = 1 .. Len(t) /\ \A i \in 1 .. Len(t) : t[i] \in Blocks
      /\ (s = <<>> <=> Len(s) = 0) /\ (t = <<>> <=> Len(t) = 0)
  BY LenProperties, ElementOfSeq, EmptySeq
<1>2. Null \notin Blocks
  BY TableAssumption
<1> DEFINE Bad == {i \in 1 .. Len(s) : ~(i <= Len(t) /\ s[i] = t[i])}
<1>3. ASSUME Bad # {} PROVE FALSE
  <2>1. PICK i \in Bad : \A j \in Bad : i <= j
    <3>1. Bad \subseteq Nat
      BY <1>1
    <3> HIDE DEF Bad
    <3> QED BY <1>3, <3>1, LeastExists
  <2>2. i # 1
    BY <1>1, <1>2, <2>1 DEF LinksVia
  <2>3. i - 1 \in 1 .. Len(s) /\ i - 1 \notin Bad
    BY <1>1, <2>1, <2>2
  <2>4. i - 1 <= Len(t) /\ s[i - 1] = t[i - 1] /\ i - 1 \in 1 .. Len(t)
    BY <1>1, <2>3
  <2>5. nx[s[i - 1]] = s[i] /\ s[i] \in Blocks
    BY <1>1, <2>1, <2>3 DEF LinksVia
  <2>6. nx[t[i - 1]] = IF i - 1 = Len(t) THEN Null ELSE t[i]
    BY <1>1, <2>1, <2>4 DEF LinksVia
  <2>7. i - 1 # Len(t) /\ t[i] = s[i]
    BY <1>2, <2>4, <2>5, <2>6
  <2> QED BY <1>1, <2>1, <2>4, <2>7
<1>4. \A i \in 1 .. Len(s) : i <= Len(t) /\ s[i] = t[i]
  BY <1>3
<1>5. Len(s) <= Len(t)
  <2>1. CASE Len(s) = 0
    BY <1>1, <2>1
  <2>2. CASE Len(s) # 0
    BY <1>1, <1>4, <2>2
  <2> QED BY <2>1, <2>2
<1> QED BY <1>4, <1>5

LEMMA LinksUnique ==
    ASSUME NEW nx, NEW b, NEW s \in Seq(Blocks), NEW t \in Seq(Blocks),
           LinksVia(nx, s, b), LinksVia(nx, t, b)
    PROVE  s = t
<1>1. Len(s) <= Len(t) /\ Len(t) <= Len(s) /\ \A i \in 1 .. Len(s) : s[i] = t[i]
  BY LinksAgree
<1>2. Len(s) \in Nat /\ Len(t) \in Nat
  BY LenProperties
<1>3. Len(s) = Len(t)
  BY <1>1, <1>2
<1> QED BY <1>1, <1>3, SeqEqual

\* A chain met from one of its blocks on.
LEMMA LinksSuffix ==
    ASSUME NEW nx, NEW b, NEW s \in Seq(Blocks), LinksVia(nx, s, b),
           NEW k \in 1 .. Len(s)
    PROVE  /\ SubSeq(s, k, Len(s)) \in Seq(Blocks)
           /\ Len(SubSeq(s, k, Len(s))) = Len(s) - k + 1
           /\ \A i \in 1 .. Len(s) - k + 1 : SubSeq(s, k, Len(s))[i] = s[k + i - 1]
           /\ LinksVia(nx, SubSeq(s, k, Len(s)), s[k])
<1> DEFINE u == SubSeq(s, k, Len(s))
<1>1. Len(s) \in Nat /\ DOMAIN s = 1 .. Len(s) /\ \A i \in 1 .. Len(s) : s[i] \in Blocks
  BY LenProperties, ElementOfSeq
<1>2. \A i \in k .. Len(s) : s[i] \in Blocks
  BY <1>1
<1>3. /\ u \in Seq(Blocks) /\ Len(u) = Len(s) - k + 1
      /\ \A i \in 1 .. Len(s) - k + 1 : u[i] = s[k + i - 1]
  BY <1>1, <1>2, SubSeqProperties
<1> HIDE DEF u
<1>4. DOMAIN u = 1 .. Len(u) /\ u # <<>> /\ Len(u) \in Nat /\ Len(u) >= 1
  <2>1. DOMAIN u = 1 .. Len(u) /\ Len(u) \in Nat
    BY <1>3, LenProperties
  <2>2. Len(u) >= 1
    BY <1>1, <1>3
  <2> QED BY <2>1, <2>2, EmptySeq
<1>5. u[1] = s[k]
  <2>1. 1 \in 1 .. Len(s) - k + 1 /\ k + 1 - 1 = k
    BY <1>1
  <2> QED BY <1>3, <2>1
<1>6. ASSUME NEW i \in DOMAIN u PROVE nx[u[i]] = IF i = Len(u) THEN Null ELSE u[i + 1]
  <2>0. i \in Nat /\ 1 <= i /\ i <= Len(s) - k + 1 /\ k \in Nat /\ 1 <= k /\ k <= Len(s)
    BY <1>1, <1>3, <1>4
  <2>1. i \in 1 .. Len(s) - k + 1 /\ k + i - 1 \in DOMAIN s /\ u[i] = s[k + i - 1]
    BY <1>1, <1>3, <2>0
  <2>2. nx[s[k + i - 1]] = IF k + i - 1 = Len(s) THEN Null ELSE s[(k + i - 1) + 1]
    BY <2>1 DEF LinksVia
  <2>3. CASE i = Len(u)
    BY <1>1, <1>3, <2>1, <2>2, <2>3
  <2>4. CASE i # Len(u)
    <3>1. i + 1 \in 1 .. Len(s) - k + 1 /\ k + (i + 1) - 1 = (k + i - 1) + 1 /\ k + i - 1 # Len(s)
      BY <1>1, <1>3, <2>0, <2>4
    <3>2. u[i + 1] = s[k + (i + 1) - 1]
      BY <1>3, <3>1
    <3>3. u[i + 1] = s[(k + i - 1) + 1]
      BY <3>1, <3>2
    <3> QED BY <2>1, <2>2, <2>4, <3>1, <3>3
  <2> QED BY <2>3, <2>4
<1>7. LinksVia(nx, u, s[k])
  BY <1>4, <1>5, <1>6 DEF LinksVia
<1> QED BY <1>3, <1>7 DEF u

\* No loop along a chain comes back to a block.
LEMMA LinksInjective ==
    ASSUME NEW nx, NEW b, NEW s \in Seq(Blocks), LinksVia(nx, s, b)
    PROVE  \A i, j \in 1 .. Len(s) : s[i] = s[j] => i = j
<1> SUFFICES ASSUME NEW i \in 1 .. Len(s), NEW j \in 1 .. Len(s), s[i] = s[j]
             PROVE  i = j
  OBVIOUS
<1>1. SubSeq(s, i, Len(s)) = SubSeq(s, j, Len(s))
  BY LinksSuffix, LinksUnique
<1>2. Len(s) - i + 1 = Len(s) - j + 1 /\ Len(s) \in Nat
  BY <1>1, LinksSuffix, LenProperties
<1> QED BY <1>2

\* A sequence without repetitions is as long as the set of its elements.
LEMMA InjectiveLength ==
    ASSUME NEW X, NEW s \in Seq(X), \A i, j \in 1 .. Len(s) : s[i] = s[j] => i = j
    PROVE  /\ IsFiniteSet(ToSet(s)) /\ Cardinality(ToSet(s)) = Len(s)
           /\ IsFiniteSet(X) => Len(s) <= Cardinality(X)
<1>1. Len(s) \in Nat /\ DOMAIN s = 1 .. Len(s) /\ s \in [1 .. Len(s) -> X]
  BY LenProperties
<1>2. s \in [1 .. Len(s) -> ToSet(s)] /\ ToSet(s) \subseteq X
  BY <1>1 DEF ToSet
<1>3. s \in Injection(1 .. Len(s), ToSet(s)) /\ s \in Surjection(1 .. Len(s), ToSet(s))
  BY <1>1, <1>2 DEF Injection, IsInjective, Surjection, ToSet
<1>4. ExistsBijection(1 .. Len(s), ToSet(s))
  BY <1>3 DEF ExistsBijection, Bijection
<1>5. IsFiniteSet(1 .. Len(s)) /\ Cardinality(1 .. Len(s)) = Len(s)
  BY <1>1, FS_Interval
<1>6. IsFiniteSet(ToSet(s)) /\ Cardinality(ToSet(s)) = Len(s)
  BY <1>4, <1>5, FS_Bijection
<1>7. IsFiniteSet(X) => Cardinality(ToSet(s)) <= Cardinality(X)
  BY <1>2, FS_Subset
<1> QED BY <1>6, <1>7

\* The chain is what the loops find.
LEMMA ChainIs ==
    ASSUME NEW nx, NEW b, NEW s \in Seq(Blocks), LinksVia(nx, s, b)
    PROVE  ChainVia(nx, b) = s
<1> DEFINE M == BoundedSeq(Blocks, Cardinality(Blocks))
<1>1. Len(s) \in Nat /\ s \in [1 .. Len(s) -> Blocks] /\ Len(s) <= Cardinality(Blocks)
  BY LenProperties, LinksInjective, InjectiveLength, TableAssumption
<1>2. Cardinality(Blocks) \in Nat
  BY TableAssumption, FS_CardinalityType
<1>3. Len(s) \in 0 .. Cardinality(Blocks)
  BY <1>1, <1>2
<1>4. s \in M
  BY <1>1, <1>3 DEF BoundedSeq, SeqOf
<1>5. M \subseteq Seq(Blocks)
  BY <1>2 DEF BoundedSeq, SeqOf
<1>6. \A t \in M : LinksVia(nx, t, b) => t = s
  BY <1>5, LinksUnique
<1> QED BY <1>4, <1>6 DEF ChainVia

\* What a chain of the blocks of S is.
LEMMA ChainOf ==
    ASSUME NEW nx, NEW b, NEW S, Chained(nx, b, S)
    PROVE  /\ ChainVia(nx, b) \in Seq(Blocks) /\ LinksVia(nx, ChainVia(nx, b), b)
           /\ ToSet(ChainVia(nx, b)) = S /\ S \subseteq Blocks
           /\ \A i, j \in 1 .. Len(ChainVia(nx, b)) :
                 ChainVia(nx, b)[i] = ChainVia(nx, b)[j] => i = j
<1>1. PICK s \in Seq(Blocks) : LinksVia(nx, s, b) /\ ToSet(s) = S
  BY DEF Chained
<1>2. ChainVia(nx, b) = s
  BY <1>1, ChainIs
<1>3. S \subseteq Blocks
  BY <1>1, LenProperties, ElementOfSeq DEF ToSet
<1> QED BY <1>1, <1>2, <1>3, LinksInjective

-----------------------------------------------------------------------------
(* The elementary changes of a chain.                                      *)

LEMMA EmptyChain == ASSUME NEW nx PROVE Chained(nx, Null, {})
<1>1. <<>> \in Seq(Blocks) /\ DOMAIN <<>> = {} /\ ToSet(<<>>) = {}
  BY EmptySeq DEF ToSet
<1> QED BY <1>1 DEF Chained, LinksVia

\* Links that are not of the chain do not matter to it.
LEMMA ChainFrame ==
    ASSUME NEW nx, NEW ny, NEW b, NEW S, Chained(nx, b, S), \A c \in S : ny[c] = nx[c]
    PROVE  Chained(ny, b, S)
<1>1. PICK s \in Seq(Blocks) : LinksVia(nx, s, b) /\ ToSet(s) = S
  BY DEF Chained
<1>2. \A i \in DOMAIN s : s[i] \in S
  BY <1>1 DEF ToSet
<1>3. LinksVia(ny, s, b)
  BY <1>1, <1>2 DEF LinksVia
<1> QED BY <1>1, <1>3 DEF Chained

\* e->next = head; head = e.
LEMMA ChainPush ==
    ASSUME NEW nx, NEW b, NEW S, Chained(nx, b, S), NEW c \in Blocks, nx[c] = b
    PROVE  Chained(nx, c, S \cup {c})
<1>1. PICK s \in Seq(Blocks) : LinksVia(nx, s, b) /\ ToSet(s) = S
  BY DEF Chained
<1> DEFINE t == <<c>> \o s
<1>2. /\ Len(s) \in Nat /\ DOMAIN s = 1 .. Len(s) /\ (s = <<>> <=> Len(s) = 0)
      /\ <<c>> \in Seq(Blocks) /\ Len(<<c>>) = 1 /\ <<c>>[1] = c
  BY LenProperties, EmptySeq
<1>3. t \in Seq(Blocks) /\ Len(t) = Len(s) + 1
      /\ \A i \in 1 .. 1 + Len(s) : t[i] = IF i <= 1 THEN <<c>>[i] ELSE s[i - 1]
  BY <1>2, ConcatProperties
<1> HIDE DEF t
<1>4. DOMAIN t = 1 .. Len(s) + 1 /\ t[1] = c /\ t # <<>> /\ \A i \in 2 .. Len(s) + 1 : t[i] = s[i - 1]
  BY <1>2, <1>3, LenProperties, EmptySeq
<1>5. ASSUME NEW i \in DOMAIN t PROVE nx[t[i]] = IF i = Len(t) THEN Null ELSE t[i + 1]
  <2>1. CASE i = 1
    <3>1. CASE Len(s) = 0
      BY <1>1, <1>2, <1>3, <1>4, <2>1, <3>1 DEF LinksVia
    <3>2. CASE Len(s) # 0
      <4>1. t[2] = s[1] /\ b = s[1] /\ i # Len(t) /\ i + 1 = 2
        BY <1>1, <1>2, <1>3, <1>4, <2>1, <3>2 DEF LinksVia
      <4> QED BY <1>4, <2>1, <4>1
    <3> QED BY <3>1, <3>2
  <2>2. CASE i # 1
    <3>1. i - 1 \in DOMAIN s /\ t[i] = s[i - 1] /\ (i - 1 = Len(s) <=> i = Len(t))
      BY <1>2, <1>3, <1>4, <2>2
    <3>2. nx[s[i - 1]] = IF i - 1 = Len(s) THEN Null ELSE s[(i - 1) + 1]
      BY <1>1, <3>1 DEF LinksVia
    <3>3. i # Len(t) => i + 1 \in 2 .. Len(s) + 1 /\ (i + 1) - 1 = (i - 1) + 1
      BY <1>2, <1>3, <1>4
    <3>4. i # Len(t) => t[i + 1] = s[(i - 1) + 1]
      BY <1>4, <3>3
    <3> QED BY <3>1, <3>2, <3>4
  <2> QED BY <2>1, <2>2
<1>6. LinksVia(nx, t, c)
  BY <1>4, <1>5 DEF LinksVia
<1>7. ToSet(t) = S \cup {c}
  <2>1. ASSUME NEW x \in ToSet(t) PROVE x \in S \cup {c}
    <3>1. PICK i \in 1 .. Len(s) + 1 : x = t[i]
      BY <1>4 DEF ToSet
    <3>2. i # 1 => i - 1 \in DOMAIN s /\ x = s[i - 1]
      BY <1>2, <1>4, <3>1
    <3> QED BY <1>1, <1>4, <3>1, <3>2 DEF ToSet
  <2>2. ASSUME NEW x \in S PROVE x \in ToSet(t)
    <3>1. PICK i \in 1 .. Len(s) : x = s[i]
      BY <1>1, <1>2 DEF ToSet
    <3>2. i + 1 \in 2 .. Len(s) + 1 /\ (i + 1) - 1 = i
      BY <1>2
    <3>3. t[i + 1] = x /\ i + 1 \in DOMAIN t
      BY <1>2, <1>4, <3>1, <3>2
    <3> QED BY <3>3 DEF ToSet
  <2>3. c \in ToSet(t)
    <3>1. 1 \in DOMAIN t
      BY <1>2, <1>4
    <3> QED BY <1>4, <3>1 DEF ToSet
  <2> QED BY <2>1, <2>2, <2>3
<1> QED BY <1>3, <1>6, <1>7 DEF Chained

\* The rest of a chain after its first block.
LEMMA ChainPop ==
    ASSUME NEW nx, NEW b, NEW S, Chained(nx, b, S), b # Null
    PROVE  b \in S /\ S \subseteq Blocks /\ Chained(nx, nx[b], S \ {b})
<1>1. PICK s \in Seq(Blocks) : LinksVia(nx, s, b) /\ ToSet(s) = S
  BY DEF Chained
<1>2. /\ Len(s) \in Nat /\ DOMAIN s = 1 .. Len(s) /\ s # <<>> /\ Len(s) # 0 /\ b = s[1]
      /\ \A i \in 1 .. Len(s) : s[i] \in Blocks
  BY <1>1, LenProperties, EmptySeq, ElementOfSeq DEF LinksVia
<1>3. b \in S /\ S \subseteq Blocks
  <2>1. 1 \in DOMAIN s
    BY <1>2
  <2> QED BY <1>1, <1>2, <2>1 DEF ToSet
<1>4. \A i, j \in 1 .. Len(s) : s[i] = s[j] => i = j
  BY <1>1, LinksInjective
<1>5. nx[b] = IF 1 = Len(s) THEN Null ELSE s[2]
  <2>1. 1 \in DOMAIN s /\ 1 + 1 = 2
    BY <1>2
  <2>2. nx[s[1]] = IF 1 = Len(s) THEN Null ELSE s[1 + 1]
    BY <1>1, <2>1 DEF LinksVia
  <2> QED BY <1>2, <2>1, <2>2
<1>6. CASE Len(s) = 1
  <2>1. S \ {b} = {}
    BY <1>1, <1>2, <1>6 DEF ToSet
  <2> QED BY <1>3, <1>5, <1>6, <2>1, EmptyChain
<1>7. CASE Len(s) # 1
  <2> DEFINE u == SubSeq(s, 2, Len(s))
  <2>1. 2 \in 1 .. Len(s)
    BY <1>2, <1>7
  <2>2. /\ u \in Seq(Blocks) /\ Len(u) = Len(s) - 2 + 1
        /\ \A i \in 1 .. Len(s) - 2 + 1 : u[i] = s[2 + i - 1]
        /\ LinksVia(nx, u, s[2])
    BY <1>1, <2>1, LinksSuffix
  <2> HIDE DEF u
  <2>3. DOMAIN u = 1 .. Len(s) - 1 /\ \A i \in 1 .. Len(s) - 1 : u[i] = s[i + 1]
    <3>1. Len(s) - 2 + 1 = Len(s) - 1
      BY <1>2
    <3>2. DOMAIN u = 1 .. Len(s) - 1
      BY <2>2, <3>1, LenProperties
    <3>3. ASSUME NEW i \in 1 .. Len(s) - 1 PROVE u[i] = s[i + 1]
      <4>1. 2 + i - 1 = i + 1
        BY <1>2
      <4> QED BY <2>2, <3>1, <4>1
    <3> QED BY <3>2, <3>3
  <2>4. ToSet(u) = S \ {b}
    <3>1. ASSUME NEW x \in ToSet(u) PROVE x \in S /\ x # b
      <4>1. PICK i \in 1 .. Len(s) - 1 : x = s[i + 1]
        BY <2>3 DEF ToSet
      <4>2. i + 1 \in 1 .. Len(s) /\ 1 \in 1 .. Len(s) /\ i + 1 # 1
        BY <1>2
      <4> QED BY <1>1, <1>2, <1>4, <4>1, <4>2 DEF ToSet
    <3>2. ASSUME NEW x \in S, x # b PROVE x \in ToSet(u)
      <4>1. PICK i \in 1 .. Len(s) : x = s[i]
        BY <1>1, <1>2 DEF ToSet
      <4>2. i - 1 \in 1 .. Len(s) - 1 /\ (i - 1) + 1 = i
        BY <1>2, <3>2, <4>1
      <4>3. u[i - 1] = x /\ i - 1 \in DOMAIN u
        BY <2>3, <4>1, <4>2
      <4> QED BY <4>3 DEF ToSet
    <3> QED BY <3>1, <3>2
  <2> QED BY <1>3, <1>5, <1>7, <2>2, <2>4 DEF Chained
<1> QED BY <1>6, <1>7

\* Table::remove: the link that holds c takes c's own, nothing else changes.
LEMMA ChainUnlink ==
    ASSUME NEW nx, NEW ny, NEW b, NEW S, Chained(nx, b, S), NEW c \in S,
           \A x \in S : x # c => ny[x] = IF nx[x] = c THEN nx[c] ELSE nx[x]
    PROVE  Chained(ny, IF b = c THEN nx[c] ELSE b, S \ {c})
<1>1. PICK s \in Seq(Blocks) : LinksVia(nx, s, b) /\ ToSet(s) = S
  BY DEF Chained
<1> DEFINE L == Len(s)
<1>2. /\ L \in Nat /\ DOMAIN s = 1 .. L /\ (s = <<>> <=> L = 0)
      /\ \A i \in 1 .. L : s[i] \in Blocks
  BY LenProperties, EmptySeq, ElementOfSeq
<1>3. \A i, j \in 1 .. L : s[i] = s[j] => i = j
  BY <1>1, LinksInjective
<1>4. PICK p \in 1 .. L : s[p] = c
  BY <1>1, <1>2 DEF ToSet
<1>5. b = s[1] /\ L >= 1
  BY <1>1, <1>2, <1>4 DEF LinksVia
<1>6. \A i \in 1 .. L : nx[s[i]] = IF i = L THEN Null ELSE s[i + 1]
  BY <1>1, <1>2 DEF LinksVia
<1>7. Null \notin Blocks /\ c \in Blocks
  BY <1>2, <1>4, TableAssumption
<1> HIDE DEF L
<1>8. ASSUME NEW i \in 1 .. L, i # p
      PROVE  ny[s[i]] = IF i = p - 1 THEN (IF p = L THEN Null ELSE s[p + 1])
                        ELSE IF i = L THEN Null ELSE s[i + 1]
  <2>1. s[i] \in S /\ s[i] # c
    BY <1>1, <1>2, <1>3, <1>4, <1>8 DEF ToSet
  <2>2. ny[s[i]] = IF nx[s[i]] = c THEN nx[c] ELSE nx[s[i]]
    BY <2>1
  <2>3. CASE i = p - 1
    <3>1. i # L /\ i + 1 = p
      BY <1>2, <1>4, <2>3
    <3>2. nx[s[i]] = c
      BY <1>4, <1>6, <3>1
    <3>3. nx[c] = IF p = L THEN Null ELSE s[p + 1]
      BY <1>4, <1>6
    <3> QED BY <2>2, <2>3, <3>2, <3>3
  <2>4. CASE i # p - 1
    <3>1. nx[s[i]] # c
      <4>1. CASE i = L
        BY <1>6, <1>7, <4>1
      <4>2. CASE i # L
        <5>1. i + 1 \in 1 .. L /\ i + 1 # p
          BY <1>2, <1>4, <2>4, <4>2
        <5>2. s[i + 1] # c
          BY <1>3, <1>4, <5>1
        <5> QED BY <1>6, <4>2, <5>2
      <4> QED BY <4>1, <4>2
    <3> QED BY <1>6, <2>2, <2>4, <3>1
  <2> QED BY <2>3, <2>4
<1> DEFINE t == [i \in 1 .. L - 1 |-> IF i < p THEN s[i] ELSE s[i + 1]]
<1>9. L - 1 \in Nat /\ \A i \in 1 .. L - 1 : i \in 1 .. L /\ i + 1 \in 1 .. L
  BY <1>2, <1>5
<1>10. t \in Seq(Blocks) /\ Len(t) = L - 1 /\ DOMAIN t = 1 .. L - 1
  <2>1. t \in [1 .. L - 1 -> Blocks]
    BY <1>2, <1>9
  <2> HIDE DEF t
  <2>2. t \in Seq(Blocks) /\ DOMAIN t = 1 .. L - 1
    BY <1>9, <2>1
  <2> QED BY <1>9, <2>2
<1>11. \A i \in 1 .. L - 1 : t[i] = IF i < p THEN s[i] ELSE s[i + 1]
  OBVIOUS
<1> HIDE DEF t
<1>12. ASSUME NEW i \in 1 .. L - 1 PROVE ny[t[i]] = IF i = L - 1 THEN Null ELSE t[i + 1]
  <2>1. i # L - 1 => i + 1 \in 1 .. L - 1
    BY <1>9
  <2>2. CASE i < p - 1
    <3>1. i \in 1 .. L /\ i # p /\ i # p - 1 /\ i # L /\ i # L - 1 /\ i < p /\ i + 1 < p
      BY <1>2, <1>4, <1>9, <2>2
    <3>2. t[i] = s[i] /\ t[i + 1] = s[i + 1]
      BY <1>11, <2>1, <3>1
    <3> QED BY <1>8, <3>1, <3>2
  <2>3. CASE i = p - 1
    <3>1. i \in 1 .. L /\ i # p /\ i < p /\ ~(i + 1 < p) /\ (i + 1) + 1 = p + 1 /\ (i = L - 1 <=> p = L)
      BY <1>2, <1>4, <1>9, <2>3
    <3>2. t[i] = s[i] /\ (i # L - 1 => t[i + 1] = s[(i + 1) + 1])
      BY <1>11, <2>1, <3>1
    <3>3. ny[s[i]] = IF p = L THEN Null ELSE s[p + 1]
      BY <1>8, <2>3, <3>1
    <3> QED BY <3>1, <3>2, <3>3
  <2>4. CASE i > p - 1
    <3>1. /\ i + 1 \in 1 .. L /\ i + 1 # p /\ i + 1 # p - 1 /\ ~(i < p) /\ ~(i + 1 < p)
          /\ (i + 1 = L <=> i = L - 1)
      BY <1>2, <1>4, <1>9, <2>4
    <3>2. t[i] = s[i + 1] /\ (i # L - 1 => t[i + 1] = s[(i + 1) + 1])
      BY <1>11, <2>1, <3>1
    <3>3. ny[s[i + 1]] = IF i + 1 = L THEN Null ELSE s[(i + 1) + 1]
      BY <1>8, <3>1
    <3> QED BY <3>1, <3>2, <3>3
  <2> QED BY <1>4, <1>9, <2>2, <2>3, <2>4
<1> DEFINE d == IF b = c THEN nx[c] ELSE b
<1>13. d = IF t = <<>> THEN Null ELSE t[1]
  <2>1. (t = <<>> <=> L = 1) /\ (L # 1 => 1 \in 1 .. L - 1)
    BY <1>2, <1>5, <1>9, <1>10, EmptySeq
  <2>2. b = c <=> p = 1
    <3>1. 1 \in 1 .. L
      BY <1>2, <1>5
    <3> QED BY <1>3, <1>4, <1>5, <3>1
  <2>3. CASE p = 1
    <3>1. nx[c] = IF 1 = L THEN Null ELSE s[1 + 1]
      BY <1>4, <1>6, <2>3
    <3>2. L # 1 => t[1] = s[1 + 1]
      BY <1>11, <2>1, <2>3
    <3> QED BY <2>1, <2>2, <2>3, <3>1, <3>2
  <2>4. CASE p # 1
    <3>1. 1 < p /\ L # 1
      BY <1>2, <1>4, <2>4
    <3>2. t[1] = s[1]
      BY <1>11, <2>1, <3>1
    <3> QED BY <1>5, <2>1, <2>2, <2>4, <3>1, <3>2
  <2> QED BY <2>3, <2>4
<1>14. LinksVia(ny, t, d)
  BY <1>10, <1>12, <1>13 DEF LinksVia
<1>15. ToSet(t) = S \ {c}
  <2>1. ASSUME NEW x \in ToSet(t) PROVE x \in S /\ x # c
    <3>1. PICK i \in 1 .. L - 1 : x = t[i]
      BY <1>10 DEF ToSet
    <3>2. PICK j \in 1 .. L : x = s[j] /\ j # p
      <4>1. CASE i < p
        BY <1>9, <1>11, <3>1, <4>1
      <4>2. CASE ~(i < p)
        <5>1. i + 1 \in 1 .. L /\ i + 1 # p
          BY <1>4, <1>9, <4>2
        <5> QED BY <1>11, <3>1, <4>2, <5>1
      <4> QED BY <4>1, <4>2
    <3> QED BY <1>1, <1>2, <1>3, <1>4, <3>2 DEF ToSet
  <2>2. ASSUME NEW x \in S, x # c PROVE x \in ToSet(t)
    <3>1. PICK j \in 1 .. L : x = s[j] /\ j # p
      BY <1>1, <1>2, <1>4, <2>2 DEF ToSet
    <3>2. CASE j < p
      <4>1. j \in 1 .. L - 1
        BY <1>2, <1>4, <3>2
      <4>2. t[j] = x
        BY <1>11, <3>1, <3>2, <4>1
      <4> QED BY <1>10, <4>1, <4>2 DEF ToSet
    <3>3. CASE ~(j < p)
      <4>1. j - 1 \in 1 .. L - 1 /\ ~(j - 1 < p) /\ (j - 1) + 1 = j
        BY <1>2, <1>4, <3>1, <3>3
      <4>2. t[j - 1] = x
        BY <1>11, <3>1, <4>1
      <4> QED BY <1>10, <4>1, <4>2 DEF ToSet
    <3> QED BY <3>2, <3>3
  <2> QED BY <2>1, <2>2
<1> QED BY <1>10, <1>14, <1>15 DEF Chained

-----------------------------------------------------------------------------
(* rehash.                                                                 *)

\* Those of the first p blocks whose hash selects slot j.
Pushed(met, hash, n, j, p) == {met[q] : q \in {r \in 1 .. p : hash[met[r]] % n = j}}

\* Once the first p blocks are pushed, slot j starts the chain of those among
\* them whose hash selects it.
LEMMA SlotChained ==
    ASSUME NEW met \in Seq(Blocks), NEW hash, NEW n, NEW ny, NEW j,
           \A q \in 1 .. Len(met) : ny[met[q]] = Slot(met, hash, n, hash[met[q]] % n, q - 1)
    PROVE  \A p \in 0 .. Len(met) :
              Chained(ny, Slot(met, hash, n, j, p), Pushed(met, hash, n, j, p))
<1> DEFINE P(p) == {q \in 1 .. p : hash[met[q]] % n = j}
           C(p) == {met[q] : q \in P(p)}
           Bad == {p \in 0 .. Len(met) : ~Chained(ny, Slot(met, hash, n, j, p), C(p))}
<1>1. Len(met) \in Nat /\ \A q \in 1 .. Len(met) : met[q] \in Blocks
  BY LenProperties, ElementOfSeq
<1>2. \A p : Slot(met, hash, n, j, p) = IF P(p) = {} THEN Null ELSE met[Max(P(p))]
  BY DEF Slot
<1>3. ASSUME Bad # {} PROVE FALSE
  <2>1. PICK p \in Bad : \A q \in Bad : p <= q
    <3>1. Bad \subseteq Nat
      BY <1>1
    <3> HIDE DEF Bad
    <3> QED BY <1>3, <3>1, LeastExists
  <2>2. p # 0
    <3>1. P(0) = {} /\ C(0) = {}
      OBVIOUS
    <3>2. Slot(met, hash, n, j, 0) = Null
      BY <1>2, <3>1
    <3>3. Chained(ny, Slot(met, hash, n, j, 0), C(0))
      BY <3>1, <3>2, EmptyChain
    <3> QED BY <2>1, <3>3
  <2>3. p \in Nat /\ p \in 1 .. Len(met) /\ p - 1 \in 0 .. Len(met) /\ p - 1 \notin Bad
    BY <1>1, <2>1, <2>2
  <2>4. Chained(ny, Slot(met, hash, n, j, p - 1), C(p - 1))
    BY <2>3
  <2>5. CASE hash[met[p]] % n # j
    <3>1. P(p) = P(p - 1)
      BY <2>3, <2>5
    <3>2. Slot(met, hash, n, j, p) = Slot(met, hash, n, j, p - 1) /\ C(p) = C(p - 1)
      BY <1>2, <3>1
    <3> QED BY <2>1, <2>4, <3>2
  <2>6. CASE hash[met[p]] % n = j
    <3>1. p \in P(p) /\ P(p) \subseteq Nat /\ \A q \in P(p) : q <= p
      BY <2>3, <2>6
    <3>2. Max(P(p)) = p
      <4> DEFINE Q == P(p)
      <4>1. p \in Q /\ Q \subseteq Nat /\ \A q \in Q : q <= p
        BY <3>1
      <4> HIDE DEF Q
      <4>2. Max(Q) \in Q /\ \A q \in Q : q <= Max(Q)
        BY <2>3, <4>1, MaxIsGreatest
      <4> DEFINE m == Max(Q)
      <4>3. m \in Nat /\ m <= p /\ p <= m
        BY <4>1, <4>2
      <4> HIDE DEF m
      <4>4. m = p
        BY <2>3, <4>3
      <4> QED BY <4>4 DEF m, Q
    <3>3. Slot(met, hash, n, j, p) = met[p]
      BY <1>2, <3>1, <3>2
    <3>4. ny[met[p]] = Slot(met, hash, n, j, p - 1)
      BY <2>3, <2>6
    <3>5. C(p) = C(p - 1) \cup {met[p]}
      <4>1. P(p) = P(p - 1) \cup {p}
        BY <2>3, <2>6
      <4> QED BY <4>1
    <3>6. Chained(ny, met[p], C(p - 1) \cup {met[p]})
      BY <1>1, <2>3, <2>4, <3>4, ChainPush
    <3> QED BY <2>1, <3>3, <3>5, <3>6
  <2> QED BY <2>5, <2>6
<1>4. \A p : C(p) = Pushed(met, hash, n, j, p)
  BY DEF Pushed
<1>5. \A p \in 0 .. Len(met) : Chained(ny, Slot(met, hash, n, j, p), C(p))
  BY <1>3
<1> HIDE DEF C
<1> QED BY <1>4, <1>5

-----------------------------------------------------------------------------
(* One chain after the other: the order in which rehash and sampleSome     *)
(* meet the blocks.                                                        *)

Distinct(s) == \A i, j \in 1 .. Len(s) : s[i] = s[j] => i = j

\* Sequences without repetitions and with no element in common, one after the
\* other.
LEMMA DistinctConcat ==
    ASSUME NEW X, NEW s \in Seq(X), NEW t \in Seq(X), Distinct(s), Distinct(t),
           ToSet(s) \cap ToSet(t) = {}
    PROVE  Distinct(s \o t)
<1> DEFINE u == s \o t
<1>1. Len(s) \in Nat /\ Len(t) \in Nat /\ DOMAIN s = 1 .. Len(s) /\ DOMAIN t = 1 .. Len(t)
  BY LenProperties
<1>2. Len(u) = Len(s) + Len(t)
      /\ \A i \in 1 .. Len(s) + Len(t) : u[i] = IF i <= Len(s) THEN s[i] ELSE t[i - Len(s)]
  BY ConcatProperties
<1> HIDE DEF u
<1>3. SUFFICES ASSUME NEW i \in 1 .. Len(u), NEW j \in 1 .. Len(u), u[i] = u[j] PROVE i = j
  BY DEF Distinct, u
<1>4. \A k \in 1 .. Len(u) : IF k <= Len(s) THEN k \in 1 .. Len(s) ELSE k - Len(s) \in 1 .. Len(t)
  BY <1>1, <1>2
<1>5. \A k \in 1 .. Len(u) : IF k <= Len(s) THEN u[k] \in ToSet(s) ELSE u[k] \in ToSet(t)
  BY <1>1, <1>2, <1>4 DEF ToSet
<1>6. i <= Len(s) <=> j <= Len(s)
  BY <1>3, <1>5
<1>7. CASE i <= Len(s)
  BY <1>2, <1>3, <1>4, <1>6, <1>7 DEF Distinct
<1>8. CASE ~(i <= Len(s))
  <2>1. i - Len(s) = j - Len(s)
    BY <1>2, <1>3, <1>4, <1>6, <1>8 DEF Distinct
  <2> QED BY <1>1, <1>2, <2>1
<1> QED BY <1>7, <1>8

Elements(seqs, n) == UNION {ToSet(seqs[i]) : i \in 1 .. n}

\* What rehash and sampleSome meet: every block of every chain, once.
LEMMA FlattenParts ==
    ASSUME NEW X, NEW n \in Nat \ {0}, NEW seqs \in [1 .. n -> Seq(X)],
           \A i \in 1 .. n : Distinct(seqs[i]),
           \A i, j \in 1 .. n : i # j => ToSet(seqs[i]) \cap ToSet(seqs[j]) = {}
    PROVE  /\ FlattenSeq(seqs) \in Seq(X) /\ Distinct(FlattenSeq(seqs))
           /\ ToSet(FlattenSeq(seqs)) = Elements(seqs, n)
<1>0. PICK f : Appends(f, seqs, X, n)
  BY FlattenSteps
<1>1. /\ f \in [1 .. n -> Seq(X)]
      /\ FlattenSeq(seqs) = f[n] /\ f[1] = seqs[1]
      /\ \A i \in 2 .. n : f[i] = f[i - 1] \o seqs[i]
  BY <1>0 DEF Appends
<1> DEFINE Part(i) == UNION {ToSet(seqs[j]) : j \in 1 .. i}
           Bad == {i \in 1 .. n : ~(Distinct(f[i]) /\ ToSet(f[i]) = Part(i))}
<1>2. ASSUME Bad # {} PROVE FALSE
  <2>1. PICK i \in Bad : \A j \in Bad : i <= j
    <3>1. Bad \subseteq Nat
      OBVIOUS
    <3> HIDE DEF Bad
    <3> QED BY <1>2, <3>1, LeastExists
  <2>2. i # 1
    <3>1. Part(1) = ToSet(seqs[1]) /\ 1 \in 1 .. n
      OBVIOUS
    <3> QED BY <1>1, <2>1, <3>1
  <2>3. i - 1 \in 1 .. n /\ i - 1 \notin Bad /\ i \in 2 .. n /\ i \in 1 .. n
    <3>1. i \in 1 .. n
      BY <2>1
    <3> HIDE DEF Bad
    <3> QED BY <2>1, <2>2, <3>1
  <2>4. Distinct(f[i - 1]) /\ ToSet(f[i - 1]) = Part(i - 1)
    BY <2>3
  <2>5. Part(i - 1) \cap ToSet(seqs[i]) = {}
    <3>1. \A j \in 1 .. i - 1 : j \in 1 .. n /\ j # i
      BY <2>3
    <3> QED BY <2>3, <3>1
  <2>6. f[i] = f[i - 1] \o seqs[i] /\ f[i - 1] \in Seq(X) /\ seqs[i] \in Seq(X)
    BY <1>1, <2>3
  <2>7. Distinct(f[i])
    <3>1. Distinct(seqs[i]) /\ ToSet(f[i - 1]) \cap ToSet(seqs[i]) = {}
      BY <2>3, <2>4, <2>5
    <3>2. Distinct(f[i - 1] \o seqs[i])
      BY <2>4, <2>6, <3>1, DistinctConcat
    <3> QED BY <2>6, <3>2
  <2>8. ToSet(f[i]) = ToSet(f[i - 1]) \cup ToSet(seqs[i])
    <3>1. \A s : ToSet(s) = Range(s)
      BY DEF ToSet, Range
    <3> QED BY <2>6, <3>1, RangeConcatenation
  <2>9. Part(i) = Part(i - 1) \cup ToSet(seqs[i])
    <3>1. 1 .. i = (1 .. i - 1) \cup {i}
      BY <2>3
    <3> QED BY <3>1
  <2> QED BY <2>1, <2>4, <2>7, <2>8, <2>9
<1>3. n \in 1 .. n /\ n \notin Bad
  <2> HIDE DEF Bad
  <2> QED BY <1>2
<1>4. f[n] \in Seq(X) /\ Distinct(f[n]) /\ ToSet(f[n]) = Part(n)
  BY <1>1, <1>3
<1> QED BY <1>1, <1>4 DEF Elements

-----------------------------------------------------------------------------
(* The inductive invariant.                                                *)

Members(i) == {b \in Used : bucketOf(entry[b].hash) = i}

ChainInv == \A i \in DOMAIN buckets : Chained(next, buckets[i], Members(i))

\* Every entry is what was last written, under its own key.
Contents ==
    \A b \in Used : /\ key(b) \in Keys /\ value(b) \in Values
                    /\ entry[b].hash = Hash[key(b)] /\ entry[b].keyLen = KeyLen[key(b)]
                    /\ entry[b].valLen = ValLen[value(b)]
                    /\ written[key(b)] = value(b)
KeysOnce == \A b, c \in Used : key(b) = key(c) => b = c
NothingElse == \A k \in Keys : (\A b \in Used : key(b) # k) => written[k] = Null

\* Every buffer has one owner, which is a long entry, and is large enough.
Owned ==
    \A b \in Used : IF spilled(b)
                    THEN /\ entry[b].buf.ptr \in Allocated
                         /\ entry[b].keyLen + entry[b].valLen <= heap[entry[b].buf.ptr].size
                    ELSE entry[b].buf.ptr = Null
OneOwner ==
    \A b, c \in Used :
        spilled(b) /\ spilled(c) /\ entry[b].buf.ptr = entry[c].buf.ptr => b = c
NoLeak == \A h \in Allocated : \E b \in Used : spilled(b) /\ entry[b].buf.ptr = h

\* What a scan has left to visit is a chain of live entries of one bucket.
ScanInv ==
    scan # Null => /\ Chained(next, scan.at, scan.left)
                   /\ \E i \in DOMAIN buckets : scan.left \subseteq Members(i)

DataInv == Contents /\ KeysOnce /\ NothingElse /\ Owned /\ OneOwner /\ NoLeak

TableInv ==
    /\ TypeOK /\ ChainInv /\ liveCount = Cardinality(Used)
    /\ DataInv /\ ScanInv

\* The operators of Table in terms of those above, before and after a step.
LEMMA ChainDefs ==
    /\ \A i : Chain(i) = ChainVia(next, buckets[i])
    /\ \A i : Chain(i)' = ChainVia(next', buckets'[i])
BY DEF Chain, ChainFrom, Links, ChainVia, LinksVia

\* What the types say of a bucket, a block and a buffer.
LEMMA Types ==
    ASSUME TypeOK
    PROVE  /\ bucketCount \in Nat \ {0} /\ DOMAIN buckets = 0 .. bucketCount - 1
           /\ \A h \in Nat : bucketOf(h) \in DOMAIN buckets
           /\ \A b \in Used : /\ b \in Blocks /\ entry[b] \in Entry /\ entry[b] # Null
                              /\ entry[b].hash \in Nat
                              /\ entry[b].keyLen \in Nat /\ entry[b].valLen \in Nat
                              /\ entry[b].buf \in Union
           /\ \A h \in Allocated : h \in Buffers /\ heap[h] \in Chars /\ heap[h] # Null
<1>1. bucketCount \in Nat \ {0} /\ DOMAIN buckets = 0 .. bucketCount - 1
  BY DEF TypeOK
<1>2. ASSUME NEW h \in Nat PROVE bucketOf(h) \in DOMAIN buckets
  <2> DEFINE N == bucketCount
  <2>1. N \in Nat \ {0}
    BY <1>1
  <2> HIDE DEF N
  <2>2. h % N \in 0 .. N - 1
    BY <2>1, Z3
  <2> QED BY <1>1, <2>2 DEF bucketOf, N
<1>3. ASSUME NEW b \in Used
      PROVE  /\ b \in Blocks /\ entry[b] \in Entry /\ entry[b] # Null
             /\ entry[b].hash \in Nat /\ entry[b].keyLen \in Nat /\ entry[b].valLen \in Nat
             /\ entry[b].buf \in Union
  <2>1. b \in Blocks /\ entry[b] \in Entry /\ entry[b] # Null
    BY DEF TypeOK, Used
  <2> QED BY <2>1 DEF Entry
<1>4. \A h \in Allocated : h \in Buffers /\ heap[h] \in Chars /\ heap[h] # Null
  BY DEF TypeOK, Allocated
<1> QED BY <1>1, <1>2, <1>3, <1>4

\* The chain a bucket's loop walks.
LEMMA WalksMembers ==
    ASSUME TypeOK, ChainInv, NEW i \in DOMAIN buckets
    PROVE  /\ Chain(i) \in Seq(Blocks) /\ Distinct(Chain(i)) /\ InChain(i) = Members(i)
           /\ DOMAIN Chain(i) = 1 .. Len(Chain(i)) /\ Len(Chain(i)) \in Nat
<1>1. Chained(next, buckets[i], Members(i))
  BY DEF ChainInv
<1>2. /\ Chain(i) \in Seq(Blocks) /\ ToSet(Chain(i)) = Members(i)
      /\ \A p, q \in 1 .. Len(Chain(i)) : Chain(i)[p] = Chain(i)[q] => p = q
  BY <1>1, ChainOf, ChainDefs
<1>3. DOMAIN Chain(i) = 1 .. Len(Chain(i)) /\ Len(Chain(i)) \in Nat
  BY <1>2, LenProperties
<1> QED BY <1>2, <1>3 DEF Distinct, InChain

\* Table::find returns the entry of its key, and nullptr only if there is none.
LEMMA FindSound ==
    ASSUME TypeOK, ChainInv, Contents, NEW k \in Keys
    PROVE  /\ find(k) # Null => find(k) \in Used /\ key(find(k)) = k
           /\ find(k) = Null => \A b \in Used : key(b) # k
<1> DEFINE i == bucketOf(Hash[k])
           chain == Chain(i)
           hits == {p \in DOMAIN chain : Matches(chain[p], k)}
<1>1. Hash[k] \in Nat /\ Null \notin Blocks
  BY TableAssumption
<1>2. i \in DOMAIN buckets
  BY <1>1, Types
<1>3. /\ chain \in Seq(Blocks) /\ ToSet(chain) = Members(i)
      /\ DOMAIN chain = 1 .. Len(chain) /\ Len(chain) \in Nat
  BY <1>2, WalksMembers DEF InChain
<1>4. find(k) = IF hits = {} THEN Null ELSE chain[Min(hits)]
  BY DEF find
<1>5. hits # {} => Min(hits) \in hits
  <2>1. hits \subseteq Nat
    BY <1>3
  <2> HIDE DEF hits
  <2> QED BY <2>1, MinIsLeast
<1>6. hits # {} => find(k) \in Members(i) /\ Matches(find(k), k)
  <2>1. hits # {} => Min(hits) \in DOMAIN chain /\ Matches(chain[Min(hits)], k)
    BY <1>5
  <2> HIDE DEF chain
  <2>2. hits # {} => chain[Min(hits)] \in Members(i)
    BY <1>3, <2>1 DEF ToSet
  <2> QED BY <1>4, <2>1, <2>2 DEF chain
<1>7. \A b \in Members(i) : b \in Used /\ b \in Blocks
  BY DEF Members, Used
<1>8. ASSUME NEW b \in Used, key(b) = k PROVE hits # {}
  <2>1. entry[b].hash = Hash[k] /\ entry[b].keyLen = KeyLen[k]
    BY <1>8 DEF Contents
  <2>2. b \in Members(i) /\ Matches(b, k)
    BY <1>8, <2>1 DEF Members, Matches
  <2> HIDE DEF chain
  <2>3. PICK p \in DOMAIN chain : chain[p] = b
    BY <1>3, <2>2 DEF ToSet
  <2> QED BY <2>2, <2>3
<1> HIDE DEF hits
<1>9. hits # {} => find(k) # Null
  BY <1>1, <1>6, <1>7
<1> QED BY <1>4, <1>6, <1>7, <1>8, <1>9 DEF Matches

\* A block's links and hash are all its chain depends on.
LEMMA ChainsKept ==
    ASSUME TypeOK, ChainInv, ScanInv, DOMAIN buckets' = DOMAIN buckets, Used' = Used,
           UNCHANGED <<buckets, next, scan>>, \A b \in Used : entry'[b].hash = entry[b].hash
    PROVE  ChainInv' /\ ScanInv' /\ \A i : Members(i)' = Members(i)
<1>1. bucketCount' = bucketCount
  BY DEF bucketCount
<1>2. ASSUME NEW i PROVE Members(i)' = Members(i)
  BY <1>1 DEF Members, bucketOf
<1>3. ChainInv'
  BY <1>2 DEF ChainInv
<1>4. ScanInv'
  BY <1>2 DEF ScanInv
<1> QED BY <1>2, <1>3, <1>4

-----------------------------------------------------------------------------
(* assign.                                                                 *)

\* new returns a buffer: there are more of them than blocks, and every buffer
\* in use has a block of its own.
LEMMA FreshExists ==
    ASSUME TypeOK, OneOwner, NoLeak
    PROVE  FreshBuffer \in Buffers /\ heap[FreshBuffer] = Null
<1> DEFINE owner == [h \in Allocated |-> CHOOSE b \in Used : spilled(b) /\ entry[b].buf.ptr = h]
<1>1. ASSUME NEW h \in Allocated
      PROVE  owner[h] \in Blocks /\ entry[owner[h]].buf.ptr = h
  <2>1. \E b \in Used : spilled(b) /\ entry[b].buf.ptr = h
    BY DEF NoLeak
  <2>2. owner[h] \in Used /\ entry[owner[h]].buf.ptr = h
    BY <2>1
  <2> QED BY <2>2 DEF Used
<1> HIDE DEF owner
<1>2. owner \in Injection(Allocated, Blocks)
  <2>1. owner \in [Allocated -> Blocks]
    BY <1>1 DEF owner
  <2> QED BY <1>1, <2>1 DEF Injection, IsInjective
<1>3. Cardinality(Allocated) <= Cardinality(Blocks) /\ IsFiniteSet(Allocated)
  BY <1>2, FS_Injection, TableAssumption
<1>4. Allocated # Buffers
  <2>1. Cardinality(Blocks) \in Nat /\ Cardinality(Buffers) \in Nat
    BY TableAssumption, FS_CardinalityType
  <2> QED BY <1>3, <2>1, TableAssumption
<1>5. \E h \in Buffers : heap[h] = Null
  BY <1>4 DEF Allocated
<1> QED BY <1>5 DEF FreshBuffer

\* What assign does to the entries as readers see them.
Rewrites(b, v) ==
    /\ Used' = Used
    /\ \A c \in Used : c # b => /\ entry'[c] = entry[c] /\ spilled(c)' = spilled(c)
                                /\ key(c)' = key(c) /\ value(c)' = value(c)
    /\ key(b)' = key(b) /\ value(b)' = v
    /\ entry'[b].hash = entry[b].hash /\ entry'[b].keyLen = entry[b].keyLen
    /\ entry'[b].valLen = ValLen[v]

LEMMA RewriteContents ==
    ASSUME TypeOK, Contents, KeysOnce, NothingElse, NEW b \in Used, NEW v \in Values,
           Rewrites(b, v), written' = [written EXCEPT ![key(b)] = v]
    PROVE  /\ Contents' /\ KeysOnce' /\ NothingElse'
           /\ \A c \in Used : entry'[c].hash = entry[c].hash
<1>1. \A c \in Used : key(c)' = key(c) /\ value(c)' = IF c = b THEN v ELSE value(c)
  BY DEF Rewrites
<1>2. key(b) \in Keys /\ written \in [Keys -> Values \cup {Null}]
  BY DEF Contents, TypeOK
<1>3. \A c \in Used : written'[key(c)] = IF c = b THEN v ELSE written[key(c)]
  BY <1>2 DEF Contents, KeysOnce
<1>4. ASSUME NEW c \in Used'
      PROVE  /\ key(c)' \in Keys /\ value(c)' \in Values
             /\ entry'[c].hash = Hash[key(c)'] /\ entry'[c].keyLen = KeyLen[key(c)']
             /\ entry'[c].valLen = ValLen[value(c)']
             /\ written'[key(c)'] = value(c)'
  <2>1. c \in Used
    BY DEF Rewrites
  <2>2. CASE c = b
    BY <1>1, <1>3, <2>1, <2>2 DEF Rewrites, Contents
  <2>3. CASE c # b
    BY <1>1, <1>3, <2>1, <2>3 DEF Rewrites, Contents
  <2> QED BY <2>2, <2>3
<1>5. Contents'
  BY <1>4 DEF Contents
<1>6. KeysOnce'
  <2>1. \A c \in Used' : c \in Used /\ key(c)' = key(c)
    BY <1>1 DEF Rewrites
  <2>2. \A c, d \in Used' : key(c)' = key(d)' => c = d
    BY <2>1 DEF KeysOnce
  <2> QED BY <2>2 DEF KeysOnce
<1>7. NothingElse'
  <2>1. ASSUME NEW k \in Keys, \A c \in Used' : key(c)' # k PROVE written'[k] = Null
    <3>1. \A c \in Used : key(c) # k
      BY <1>1, <2>1 DEF Rewrites
    <3>2. written[k] = Null /\ k # key(b)
      BY <3>1 DEF NothingElse
    <3> QED BY <1>2, <3>2
  <2> QED BY <2>1 DEF NothingElse
<1>8. \A c \in Used : entry'[c].hash = entry[c].hash
  BY DEF Rewrites
<1> QED BY <1>5, <1>6, <1>7, <1>8

\* A new buffer for the key and the longer value.
LEMMA AssignGrowsStep ==
    ASSUME TypeOK, DataInv, NEW b \in Used, NEW v \in Values, assignGrows(b, v)
    PROVE  /\ Rewrites(b, v) /\ (Owned /\ OneOwner /\ NoLeak)'
           /\ entry' \in [Blocks -> Entry \cup {Null}] /\ heap' \in [Buffers -> Chars \cup {Null}]
<1> DEFINE h == FreshBuffer
           old == entry[b].buf.ptr
           size == entry[b].keyLen + ValLen[v]
           new == Spill(size, key(b), v)
<1>1. h \in Buffers /\ heap[h] = Null
  BY FreshExists DEF DataInv
<1>2. /\ b \in Blocks /\ entry[b] \in Entry /\ entry[b] # Null
      /\ entry[b].keyLen \in Nat /\ entry[b].valLen \in Nat /\ entry[b].buf \in Union
  BY Types
<1>3. key(b) \in Keys /\ ValLen[v] \in Nat /\ size \in Nat
  BY <1>2, TableAssumption DEF DataInv, Contents
<1>4. /\ ~Fits(entry[b].keyLen, ValLen[v])
      /\ heap' = [g \in Buffers |-> IF g = h THEN new ELSE IF g = old THEN Null ELSE heap[g]]
      /\ entry' = [entry EXCEPT ![b].valLen = ValLen[v], ![b].buf = Pointer(h)]
  BY DEF assignGrows
<1>5. new \in Chars /\ new # Null /\ new.size = size /\ new.key = key(b) /\ new.val = v
  BY <1>3, TableAssumption DEF Spill, Chars
<1>6. /\ entry' \in [Blocks -> Entry \cup {Null}]
      /\ \A c \in Blocks : c # b => entry'[c] = entry[c]
      /\ entry'[b] \in Entry /\ entry'[b] # Null
      /\ entry'[b].hash = entry[b].hash /\ entry'[b].keyLen = entry[b].keyLen
      /\ entry'[b].valLen = ValLen[v] /\ entry'[b].buf = Pointer(h)
  <2>1. Pointer(h) \in Union
    BY <1>1 DEF Pointer, Union
  <2>2. entry \in [Blocks -> Entry \cup {Null}]
    BY DEF TypeOK
  <2> DEFINE rec == [entry[b] EXCEPT !.valLen = ValLen[v], !.buf = Pointer(h)]
  <2>3. /\ rec \in Entry /\ rec.hash = entry[b].hash /\ rec.keyLen = entry[b].keyLen
        /\ rec.valLen = ValLen[v] /\ rec.buf = Pointer(h)
    BY <1>2, <1>3, <2>1 DEF Entry
  <2>4. entry' = [entry EXCEPT ![b] = rec]
    BY <1>2, <1>4, <2>2
  <2> HIDE DEF rec
  <2>5. rec # Null
    BY <2>3, TableAssumption
  <2> QED BY <1>2, <2>2, <2>3, <2>4, <2>5
<1>7. /\ heap' \in [Buffers -> Chars \cup {Null}]
      /\ heap'[h] = new /\ \A g \in Buffers : g # h => heap'[g] = IF g = old THEN Null ELSE heap[g]
  <2>1. heap \in [Buffers -> Chars \cup {Null}]
    BY DEF TypeOK
  <2> HIDE DEF new, h, old
  <2> QED BY <1>1, <1>4, <1>5, <2>1
<1>8. Used' = Used
  BY <1>2, <1>6 DEF Used
<1>9. \A c \in Used : c \in Blocks /\ (c # b => entry'[c] = entry[c] /\ spilled(c)' = spilled(c))
  BY <1>6 DEF Used, spilled
<1> HIDE DEF h, old, new, size
<1>10. ASSUME NEW c \in Used, c # b, spilled(c)
       PROVE  /\ entry[c].buf.ptr \in Allocated /\ entry[c].buf.ptr \in Buffers
              /\ entry[c].buf.ptr # h /\ entry[c].buf.ptr # old
              /\ heap'[entry[c].buf.ptr] = heap[entry[c].buf.ptr]
  <2>1. entry[c].buf.ptr \in Allocated
    BY <1>10 DEF DataInv, Owned
  <2>2. entry[c].buf.ptr \in Buffers /\ heap[entry[c].buf.ptr] # Null
    BY <2>1 DEF Allocated
  <2>3. entry[c].buf.ptr # old
    <3>1. CASE spilled(b)
      BY <1>10, <3>1 DEF DataInv, OneOwner, old
    <3>2. CASE ~spilled(b)
      BY <2>2, <3>2, TableAssumption DEF DataInv, Owned, old
    <3> QED BY <3>1, <3>2
  <2>4. entry[c].buf.ptr # h
    BY <1>1, <2>2
  <2> QED BY <1>7, <2>1, <2>2, <2>3, <2>4
<1>11. ASSUME NEW c \in Used, c # b PROVE key(c)' = key(c) /\ value(c)' = value(c)
  <2>1. CASE spilled(c)
    <3>1. entry[c].buf.ptr \in Allocated /\ entry[c].buf.ptr \in Allocated'
      BY <1>10, <1>11, <2>1 DEF Allocated
    <3> QED BY <1>9, <1>10, <1>11, <2>1, <3>1 DEF key, value, Bytes
  <2>2. CASE ~spilled(c)
    BY <1>9, <1>11, <2>2 DEF key, value, Bytes
  <2> QED BY <2>1, <2>2
<1>12. spilled(b)' /\ entry'[b].buf.ptr = h /\ h \in Allocated'
  BY <1>1, <1>4, <1>5, <1>6, <1>7 DEF spilled, Pointer, Allocated
<1>13. key(b)' = key(b) /\ value(b)' = v
  BY <1>5, <1>7, <1>12 DEF key, value, Bytes
<1>14. Rewrites(b, v)
  BY <1>6, <1>8, <1>9, <1>11, <1>13 DEF Rewrites
<1>15. Owned'
  <2>1. ASSUME NEW c \in Used'
        PROVE  IF spilled(c)'
               THEN /\ entry'[c].buf.ptr \in Allocated'
                    /\ entry'[c].keyLen + entry'[c].valLen <= heap'[entry'[c].buf.ptr].size
               ELSE entry'[c].buf.ptr = Null
    <3>1. c \in Used
      BY <1>8
    <3>2. CASE c = b
      BY <1>3, <1>5, <1>6, <1>7, <1>12, <3>2 DEF size
    <3>3. CASE c # b /\ spilled(c)
      <4>1. entry[c].buf.ptr \in Allocated'
        BY <1>10, <3>1, <3>3 DEF Allocated
      <4> QED BY <1>9, <1>10, <3>1, <3>3, <4>1 DEF DataInv, Owned
    <3>4. CASE c # b /\ ~spilled(c)
      BY <1>9, <3>1, <3>4 DEF DataInv, Owned
    <3> QED BY <3>2, <3>3, <3>4
  <2> QED BY <2>1 DEF Owned
<1>16. OneOwner'
  <2>1. \A c \in Used : spilled(c)' /\ c # b => spilled(c) /\ entry'[c].buf.ptr = entry[c].buf.ptr
    BY <1>9
  <2>2. \A c \in Used : spilled(c)' /\ c # b => entry'[c].buf.ptr # h
    BY <1>10, <2>1
  <2>3. \A c, d \in Used' :
          spilled(c)' /\ spilled(d)' /\ entry'[c].buf.ptr = entry'[d].buf.ptr => c = d
    BY <1>8, <1>12, <2>1, <2>2 DEF DataInv, OneOwner
  <2> QED BY <2>3 DEF OneOwner
<1>17. NoLeak'
  <2>1. ASSUME NEW g \in Allocated' PROVE \E c \in Used' : spilled(c)' /\ entry'[c].buf.ptr = g
    <3>1. CASE g = h
      BY <1>8, <1>12, <3>1
    <3>2. CASE g # h
      <4>1. g \in Buffers /\ g # old /\ heap[g] # Null
        BY <1>7, <3>2 DEF Allocated
      <4>2. PICK c \in Used : spilled(c) /\ entry[c].buf.ptr = g
        BY <4>1 DEF DataInv, NoLeak, Allocated
      <4>3. c # b
        BY <4>1, <4>2 DEF old
      <4> QED BY <1>8, <1>9, <4>2, <4>3
    <3> QED BY <3>1, <3>2
  <2> QED BY <2>1 DEF NoLeak
<1> QED BY <1>6, <1>7, <1>14, <1>15, <1>16, <1>17

\* The key and the shorter value move back into the block.
LEMMA AssignShrinksStep ==
    ASSUME TypeOK, DataInv, NEW b \in Used, NEW v \in Values, assignShrinks(b, v)
    PROVE  /\ Rewrites(b, v) /\ (Owned /\ OneOwner /\ NoLeak)'
           /\ entry' \in [Blocks -> Entry \cup {Null}] /\ heap' \in [Buffers -> Chars \cup {Null}]
<1> DEFINE old == entry[b].buf.ptr
           bytes == Inline(key(b), v)
<1>1. /\ b \in Blocks /\ entry[b] \in Entry /\ entry[b] # Null
      /\ entry[b].keyLen \in Nat /\ entry[b].valLen \in Nat /\ entry[b].buf \in Union
  BY Types
<1>2. key(b) \in Keys /\ ValLen[v] \in Nat
  BY TableAssumption DEF DataInv, Contents
<1>3. /\ Fits(entry[b].keyLen, ValLen[v]) /\ spilled(b)
      /\ heap' = [heap EXCEPT ![old] = Null]
      /\ entry' = [entry EXCEPT ![b].valLen = ValLen[v], ![b].buf = bytes]
  BY DEF assignShrinks
<1>4. old \in Buffers /\ heap[old] # Null
  BY <1>3 DEF DataInv, Owned, Allocated
<1>5. /\ heap' \in [Buffers -> Chars \cup {Null}] /\ heap'[old] = Null
      /\ \A g \in Buffers : g # old => heap'[g] = heap[g]
  <2>1. heap \in [Buffers -> Chars \cup {Null}]
    BY DEF TypeOK
  <2> HIDE DEF old
  <2> QED BY <1>3, <1>4, <2>1
<1>6. /\ entry' \in [Blocks -> Entry \cup {Null}]
      /\ \A c \in Blocks : c # b => entry'[c] = entry[c]
      /\ entry'[b] # Null
      /\ entry'[b].hash = entry[b].hash /\ entry'[b].keyLen = entry[b].keyLen
      /\ entry'[b].valLen = ValLen[v] /\ entry'[b].buf = bytes
  <2>1. bytes \in Union
    BY <1>2 DEF Inline, Union
  <2>2. entry \in [Blocks -> Entry \cup {Null}]
    BY DEF TypeOK
  <2> DEFINE rec == [entry[b] EXCEPT !.valLen = ValLen[v], !.buf = bytes]
  <2>3. /\ rec \in Entry /\ rec.hash = entry[b].hash /\ rec.keyLen = entry[b].keyLen
        /\ rec.valLen = ValLen[v] /\ rec.buf = bytes
    BY <1>1, <1>2, <2>1 DEF Entry
  <2>4. entry' = [entry EXCEPT ![b] = rec]
    BY <1>1, <1>3, <2>2
  <2> HIDE DEF rec
  <2>5. rec # Null
    BY <2>3, TableAssumption
  <2> QED BY <1>1, <2>2, <2>3, <2>4, <2>5
<1>7. Used' = Used
  BY <1>1, <1>6 DEF Used
<1>8. \A c \in Used : c \in Blocks /\ (c # b => entry'[c] = entry[c] /\ spilled(c)' = spilled(c))
  BY <1>6 DEF Used, spilled
<1>9. ~spilled(b)' /\ entry'[b].buf.ptr = Null /\ key(b)' = key(b) /\ value(b)' = v
  BY <1>3, <1>6 DEF spilled, key, value, Bytes, Inline
<1> HIDE DEF old, bytes
<1>10. ASSUME NEW c \in Used, c # b, spilled(c)
       PROVE  /\ entry[c].buf.ptr \in Allocated /\ entry[c].buf.ptr \in Buffers
              /\ heap'[entry[c].buf.ptr] = heap[entry[c].buf.ptr]
  <2>1. entry[c].buf.ptr \in Allocated /\ entry[c].buf.ptr # old
    BY <1>3, <1>10 DEF DataInv, Owned, OneOwner, old
  <2> QED BY <1>5, <2>1 DEF Allocated
<1>11. ASSUME NEW c \in Used, c # b PROVE key(c)' = key(c) /\ value(c)' = value(c)
  <2>1. CASE spilled(c)
    <3>1. entry[c].buf.ptr \in Allocated /\ entry[c].buf.ptr \in Allocated'
      BY <1>10, <1>11, <2>1 DEF Allocated
    <3> QED BY <1>8, <1>10, <1>11, <2>1, <3>1 DEF key, value, Bytes
  <2>2. CASE ~spilled(c)
    BY <1>8, <1>11, <2>2 DEF key, value, Bytes
  <2> QED BY <2>1, <2>2
<1>12. Rewrites(b, v)
  BY <1>6, <1>7, <1>8, <1>9, <1>11 DEF Rewrites
<1>13. Owned'
  <2>1. ASSUME NEW c \in Used'
        PROVE  IF spilled(c)'
               THEN /\ entry'[c].buf.ptr \in Allocated'
                    /\ entry'[c].keyLen + entry'[c].valLen <= heap'[entry'[c].buf.ptr].size
               ELSE entry'[c].buf.ptr = Null
    <3>1. c \in Used
      BY <1>7
    <3>2. CASE c = b
      BY <1>9, <3>2
    <3>3. CASE c # b /\ spilled(c)
      <4>1. entry[c].buf.ptr \in Allocated'
        BY <1>10, <3>1, <3>3 DEF Allocated
      <4> QED BY <1>8, <1>10, <3>1, <3>3, <4>1 DEF DataInv, Owned
    <3>4. CASE c # b /\ ~spilled(c)
      BY <1>8, <3>1, <3>4 DEF DataInv, Owned
    <3> QED BY <3>2, <3>3, <3>4
  <2> QED BY <2>1 DEF Owned
<1>14. OneOwner'
  <2>1. \A c \in Used : spilled(c)' => c # b /\ spilled(c) /\ entry'[c].buf.ptr = entry[c].buf.ptr
    BY <1>8, <1>9
  <2>2. \A c, d \in Used' :
          spilled(c)' /\ spilled(d)' /\ entry'[c].buf.ptr = entry'[d].buf.ptr => c = d
    BY <1>7, <2>1 DEF DataInv, OneOwner
  <2> QED BY <2>2 DEF OneOwner
<1>15. NoLeak'
  <2>1. ASSUME NEW g \in Allocated' PROVE \E c \in Used' : spilled(c)' /\ entry'[c].buf.ptr = g
    <3>1. g \in Buffers /\ g # old /\ heap[g] # Null
      BY <1>5 DEF Allocated
    <3>2. PICK c \in Used : spilled(c) /\ entry[c].buf.ptr = g
      BY <3>1 DEF DataInv, NoLeak, Allocated
    <3>3. c # b
      BY <3>1, <3>2 DEF old
    <3> QED BY <1>7, <1>8, <3>2, <3>3
  <2> QED BY <2>1 DEF NoLeak
<1> QED BY <1>5, <1>6, <1>12, <1>13, <1>14, <1>15

\* The value is written over the old one, in the block or in its buffer.
LEMMA AssignInPlaceStep ==
    ASSUME TypeOK, DataInv, NEW b \in Used, NEW v \in Values, assignInPlace(b, v)
    PROVE  /\ Rewrites(b, v) /\ (Owned /\ OneOwner /\ NoLeak)'
           /\ entry' \in [Blocks -> Entry \cup {Null}] /\ heap' \in [Buffers -> Chars \cup {Null}]
<1> DEFINE ptr == entry[b].buf.ptr
           bytes == [entry[b].buf EXCEPT !.val = IF spilled(b) THEN @ ELSE v]
<1>1. /\ b \in Blocks /\ entry[b] \in Entry /\ entry[b] # Null
      /\ entry[b].keyLen \in Nat /\ entry[b].valLen \in Nat /\ entry[b].buf \in Union
  BY Types
<1>2. key(b) \in Keys /\ ValLen[v] \in Nat
  BY TableAssumption DEF DataInv, Contents
<1>3. /\ spilled(b) <=> ~Fits(entry[b].keyLen, ValLen[v])
      /\ spilled(b) => ValLen[v] <= entry[b].valLen
      /\ heap' = IF spilled(b) THEN [heap EXCEPT ![ptr].val = v] ELSE heap
      /\ entry' = [entry EXCEPT ![b].valLen = ValLen[v], ![b].buf.val = IF spilled(b) THEN @ ELSE v]
  BY DEF assignInPlace
<1>4. /\ bytes \in Union /\ bytes.ptr = ptr /\ bytes.key = entry[b].buf.key
      /\ ~spilled(b) => bytes.val = v
  BY <1>1 DEF Union
<1>5. /\ entry' \in [Blocks -> Entry \cup {Null}]
      /\ \A c \in Blocks : c # b => entry'[c] = entry[c]
      /\ entry'[b] # Null
      /\ entry'[b].hash = entry[b].hash /\ entry'[b].keyLen = entry[b].keyLen
      /\ entry'[b].valLen = ValLen[v] /\ entry'[b].buf = bytes
  <2>1. entry \in [Blocks -> Entry \cup {Null}]
    BY DEF TypeOK
  <2> DEFINE rec == [entry[b] EXCEPT !.valLen = ValLen[v], !.buf = bytes]
  <2>2. entry' = [entry EXCEPT ![b] = rec]
    BY <1>1, <1>3, <2>1
  <2> HIDE DEF bytes
  <2>3. /\ rec \in Entry /\ rec.hash = entry[b].hash /\ rec.keyLen = entry[b].keyLen
        /\ rec.valLen = ValLen[v] /\ rec.buf = bytes
    BY <1>1, <1>2, <1>4 DEF Entry
  <2> HIDE DEF rec
  <2>4. rec # Null
    BY <2>3, TableAssumption
  <2> QED BY <1>1, <2>1, <2>2, <2>3, <2>4
<1> HIDE DEF bytes
<1>6. spilled(b)' = spilled(b) /\ entry'[b].buf.ptr = ptr
  BY <1>3, <1>4, <1>5 DEF spilled
<1>7. spilled(b) => ptr \in Allocated /\ ptr \in Buffers /\ heap[ptr] \in Chars
                    /\ entry[b].keyLen + entry[b].valLen <= heap[ptr].size
  BY Types DEF DataInv, Owned
<1>8. /\ heap' \in [Buffers -> Chars \cup {Null}]
      /\ \A g \in Buffers : ~(spilled(b) /\ g = ptr) => heap'[g] = heap[g]
      /\ spilled(b) => /\ heap'[ptr] \in Chars /\ heap'[ptr].size = heap[ptr].size
                       /\ heap'[ptr].key = heap[ptr].key /\ heap'[ptr].val = v
  <2>1. heap \in [Buffers -> Chars \cup {Null}]
    BY DEF TypeOK
  <2> HIDE DEF ptr
  <2>2. CASE ~spilled(b)
    BY <1>3, <2>1, <2>2
  <2>3. CASE spilled(b)
    <3> DEFINE rec == [heap[ptr] EXCEPT !.val = v]
    <3>1. rec \in Chars /\ rec.size = heap[ptr].size /\ rec.key = heap[ptr].key /\ rec.val = v
      BY <1>7, <2>3 DEF Chars
    <3>2. heap' = [heap EXCEPT ![ptr] = rec]
      BY <1>3, <1>7, <2>1, <2>3
    <3> HIDE DEF rec
    <3> QED BY <1>7, <2>1, <2>3, <3>1, <3>2
  <2> QED BY <2>2, <2>3
<1>9. Used' = Used /\ Allocated' = Allocated
  <2>1. Used' = Used
    BY <1>1, <1>5 DEF Used
  <2>2. ASSUME NEW g \in Buffers PROVE heap'[g] # Null <=> heap[g] # Null
    BY <1>7, <1>8, TableAssumption
  <2> QED BY <2>1, <2>2 DEF Allocated
<1>10. \A c \in Used : c \in Blocks /\ (c # b => entry'[c] = entry[c] /\ spilled(c)' = spilled(c))
  BY <1>5 DEF Used, spilled
<1>11. \A c \in Used : spilled(c)' = spilled(c) /\ entry'[c].buf.ptr = entry[c].buf.ptr
  BY <1>6, <1>10
<1>12. key(b)' = key(b) /\ value(b)' = v
  <2>1. CASE spilled(b)
    BY <1>6, <1>7, <1>8, <1>9, <2>1 DEF key, value, Bytes
  <2>2. CASE ~spilled(b)
    BY <1>4, <1>5, <1>6, <2>2 DEF key, value, Bytes
  <2> QED BY <2>1, <2>2
<1> HIDE DEF ptr
<1>13. ASSUME NEW c \in Used, c # b, spilled(c)
       PROVE  /\ entry[c].buf.ptr \in Allocated
              /\ heap'[entry[c].buf.ptr] = heap[entry[c].buf.ptr]
  <2>1. entry[c].buf.ptr \in Allocated /\ (spilled(b) => entry[c].buf.ptr # ptr)
    BY <1>13 DEF DataInv, Owned, OneOwner, ptr
  <2> QED BY <1>8, <2>1 DEF Allocated
<1>14. ASSUME NEW c \in Used, c # b PROVE key(c)' = key(c) /\ value(c)' = value(c)
  <2>1. CASE spilled(c)
    BY <1>9, <1>10, <1>13, <1>14, <2>1 DEF key, value, Bytes
  <2>2. CASE ~spilled(c)
    BY <1>10, <1>14, <2>2 DEF key, value, Bytes
  <2> QED BY <2>1, <2>2
<1>15. Rewrites(b, v)
  BY <1>5, <1>9, <1>10, <1>12, <1>14 DEF Rewrites
<1>16. Owned'
  <2>1. ASSUME NEW c \in Used'
        PROVE  IF spilled(c)'
               THEN /\ entry'[c].buf.ptr \in Allocated'
                    /\ entry'[c].keyLen + entry'[c].valLen <= heap'[entry'[c].buf.ptr].size
               ELSE entry'[c].buf.ptr = Null
    <3>1. c \in Used
      BY <1>9
    <3>2. CASE c = b /\ spilled(b)
      <4>1. heap[ptr].size \in Nat
        BY <1>7, <3>2 DEF Chars
      <4>2. entry'[b].keyLen + entry'[b].valLen <= heap'[ptr].size
        BY <1>1, <1>2, <1>3, <1>5, <1>7, <1>8, <3>2, <4>1
      <4> QED BY <1>6, <1>7, <1>9, <3>2, <4>2
    <3>3. CASE c # b /\ spilled(c)
      BY <1>9, <1>10, <1>13, <3>1, <3>3 DEF DataInv, Owned
    <3>4. CASE ~spilled(c)
      BY <1>11, <3>1, <3>4 DEF DataInv, Owned
    <3> QED BY <3>2, <3>3, <3>4
  <2> QED BY <2>1 DEF Owned
<1>17. OneOwner'
  <2>1. \A c, d \in Used' :
          spilled(c)' /\ spilled(d)' /\ entry'[c].buf.ptr = entry'[d].buf.ptr => c = d
    BY <1>9, <1>11 DEF DataInv, OneOwner
  <2> QED BY <2>1 DEF OneOwner
<1>18. NoLeak'
  <2>1. \A g \in Allocated' : \E c \in Used' : spilled(c)' /\ entry'[c].buf.ptr = g
    BY <1>9, <1>11 DEF DataInv, NoLeak
  <2> QED BY <2>1 DEF NoLeak
<1> QED BY <1>5, <1>8, <1>15, <1>16, <1>17, <1>18

\* Table::assign, on every path.
LEMMA AssignStep ==
    ASSUME TableInv, NEW b \in Used, NEW v \in Values, assign(b, v)
    PROVE  TableInv'
<1>1. /\ Rewrites(b, v) /\ (Owned /\ OneOwner /\ NoLeak)'
      /\ entry' \in [Blocks -> Entry \cup {Null}] /\ heap' \in [Buffers -> Chars \cup {Null}]
  BY AssignGrowsStep, AssignShrinksStep, AssignInPlaceStep DEF assign, TableInv
<1>2. /\ written' = [written EXCEPT ![key(b)] = v] /\ UNCHANGED <<buckets, next, liveCount, scan>>
  BY DEF assign
<1>3. (Contents /\ KeysOnce /\ NothingElse)' /\ \A c \in Used : entry'[c].hash = entry[c].hash
  BY <1>1, <1>2, RewriteContents DEF TableInv, DataInv
<1>4. Used' = Used
  BY <1>1 DEF Rewrites
<1>5. ChainInv' /\ ScanInv'
  BY <1>2, <1>3, <1>4, ChainsKept DEF TableInv
<1>6. TypeOK'
  <2>1. bucketCount' = bucketCount
    BY <1>2 DEF bucketCount
  <2>2. written' \in [Keys -> Values \cup {Null}]
    BY <1>2 DEF TableInv, TypeOK
  <2> QED BY <1>1, <1>2, <2>1, <2>2 DEF TableInv, TypeOK
<1>7. (liveCount = Cardinality(Used))'
  BY <1>2, <1>4 DEF TableInv
<1> QED BY <1>1, <1>3, <1>5, <1>6, <1>7 DEF TableInv, DataInv

-----------------------------------------------------------------------------
(* remove, also from within a scan.                                        *)

\* The chains after Table::remove, and what a scan that stood at b has left.
LEMMA UnlinkChains ==
    ASSUME TypeOK, ChainInv, NEW b \in Used, unlink(b)
    PROVE  /\ Used' = Used \ {b} /\ \A c \in Used' : entry'[c] = entry[c]
           /\ DOMAIN buckets' = DOMAIN buckets /\ bucketCount' = bucketCount
           /\ \A i : Members(i)' = Members(i) \ {b}
           /\ ChainInv'
           /\ \A i \in DOMAIN buckets : \A S :
                 (S \subseteq Members(i) /\ Chained(next, b, S))
                    => Chained(next', next[b], S \ {b})
           /\ buckets' \in [0 .. bucketCount - 1 -> Blocks \cup {Null}]
           /\ next' \in [Blocks -> Blocks \cup {Null}]
           /\ entry' \in [Blocks -> Entry \cup {Null}]
<1> DEFINE i == bucketOf(entry[b].hash)
<1>1. b \in Blocks /\ i \in DOMAIN buckets /\ DOMAIN buckets = 0 .. bucketCount - 1
  BY Types
<1>2. InChain(i) = Members(i) /\ b \in Members(i)
  BY <1>1, WalksMembers DEF Members
<1>3. /\ buckets \in [0 .. bucketCount - 1 -> Blocks \cup {Null}]
      /\ next \in [Blocks -> Blocks \cup {Null}]
      /\ entry \in [Blocks -> Entry \cup {Null}]
  BY DEF TypeOK
<1>4. /\ buckets' = IF buckets[i] = b THEN [buckets EXCEPT ![i] = next[b]] ELSE buckets
      /\ next' = [c \in Blocks |-> IF c = b THEN Null
                                  ELSE IF c \in InChain(i) /\ next[c] = b THEN next[b]
                                  ELSE next[c]]
      /\ entry' = [entry EXCEPT ![b] = Null]
  BY DEF unlink
<1>5. Used' = Used \ {b} /\ (\A c \in Used' : entry'[c] = entry[c])
      /\ entry' \in [Blocks -> Entry \cup {Null}]
  BY <1>1, <1>3, <1>4 DEF Used
<1>6. /\ DOMAIN buckets' = DOMAIN buckets
      /\ buckets' \in [0 .. bucketCount - 1 -> Blocks \cup {Null}]
      /\ buckets'[i] = (IF buckets[i] = b THEN next[b] ELSE buckets[i])
      /\ \A j \in DOMAIN buckets : j # i => buckets'[j] = buckets[j]
  <2> HIDE DEF i
  <2> QED BY <1>1, <1>3, <1>4
<1>7. bucketCount' = bucketCount
  BY <1>6 DEF bucketCount
<1>8. ASSUME NEW j PROVE Members(j)' = Members(j) \ {b}
  BY <1>5, <1>7 DEF Members, bucketOf
<1> HIDE DEF i
<1>9. /\ next' \in [Blocks -> Blocks \cup {Null}]
      /\ \A c \in Members(i) : c # b => next'[c] = IF next[c] = b THEN next[b] ELSE next[c]
      /\ \A c \in Used : c # b /\ c \notin Members(i) => next'[c] = next[c]
  <2>1. Members(i) \subseteq Blocks /\ Used \subseteq Blocks
    BY DEF Members, Used
  <2> QED BY <1>1, <1>2, <1>3, <1>4, <2>1
<1>10. ASSUME NEW j \in DOMAIN buckets PROVE Chained(next', buckets'[j], Members(j)')
  <2>1. Chained(next, buckets[j], Members(j))
    BY DEF ChainInv
  <2>2. CASE j = i
    <3>1. Chained(next', IF buckets[i] = b THEN next[b] ELSE buckets[i], Members(i) \ {b})
      BY <1>2, <1>9, <2>1, <2>2, ChainUnlink
    <3> QED BY <1>6, <1>8, <2>2, <3>1
  <2>3. CASE j # i
    <3>1. \A c \in Members(j) : c \in Used /\ c # b /\ c \notin Members(i)
      BY <1>2, <2>3 DEF Members
    <3>2. Members(j)' = Members(j)
      BY <1>8, <3>1
    <3>3. Chained(next', buckets[j], Members(j))
      BY <1>9, <2>1, <3>1, ChainFrame
    <3> QED BY <1>6, <2>3, <3>2, <3>3
  <2> QED BY <2>2, <2>3
<1>11. ChainInv'
  BY <1>6, <1>10 DEF ChainInv
<1>12. ASSUME NEW j \in DOMAIN buckets, NEW S, S \subseteq Members(j), Chained(next, b, S)
       PROVE  Chained(next', next[b], S \ {b})
  <2>1. b \in S
    BY <1>1, <1>12, ChainPop, TableAssumption
  <2>2. j = i
    BY <1>2, <1>12, <2>1 DEF Members
  <2>3. \A c \in S : c # b => next'[c] = IF next[c] = b THEN next[b] ELSE next[c]
    BY <1>9, <1>12, <2>2
  <2>4. Chained(next', IF b = b THEN next[b] ELSE b, S \ {b})
    BY <1>12, <2>1, <2>3, ChainUnlink
  <2> QED BY <2>4
<1> QED BY <1>5, <1>6, <1>7, <1>8, <1>9, <1>11, <1>12

\* The block and its buffer go back, and nothing else changes for a reader.
LEMMA UnlinkData ==
    ASSUME TypeOK, DataInv, NEW b \in Used, unlink(b),
           Used' = Used \ {b}, \A c \in Used' : entry'[c] = entry[c]
    PROVE  /\ DataInv' /\ heap' \in [Buffers -> Chars \cup {Null}]
           /\ written' \in [Keys -> Values \cup {Null}]
<1> DEFINE ptr == entry[b].buf.ptr
<1>1. /\ heap' = IF spilled(b) THEN [heap EXCEPT ![ptr] = Null] ELSE heap
      /\ written' = [written EXCEPT ![key(b)] = Null]
  BY DEF unlink
<1>2. heap \in [Buffers -> Chars \cup {Null}] /\ written \in [Keys -> Values \cup {Null}]
  BY DEF TypeOK
<1>3. key(b) \in Keys /\ (spilled(b) => ptr \in Buffers)
  BY DEF DataInv, Contents, Owned, Allocated
<1> HIDE DEF ptr
<1>4. /\ heap' \in [Buffers -> Chars \cup {Null}]
      /\ \A g \in Buffers : heap'[g] = IF spilled(b) /\ g = ptr THEN Null ELSE heap[g]
  BY <1>1, <1>2, <1>3
<1>5. /\ written' \in [Keys -> Values \cup {Null}]
      /\ \A k \in Keys : written'[k] = IF k = key(b) THEN Null ELSE written[k]
  BY <1>1, <1>2, <1>3
<1>6. \A c \in Used' : c \in Used /\ c # b /\ spilled(c)' = spilled(c)
                       /\ entry'[c] = entry[c]
  BY DEF spilled
<1>7. ASSUME NEW c \in Used', spilled(c)
      PROVE  /\ entry[c].buf.ptr \in Allocated /\ entry[c].buf.ptr \in Allocated'
             /\ heap'[entry[c].buf.ptr] = heap[entry[c].buf.ptr]
  <2>1. entry[c].buf.ptr \in Allocated /\ (spilled(b) => entry[c].buf.ptr # ptr)
    BY <1>6, <1>7 DEF DataInv, Owned, OneOwner, ptr
  <2> QED BY <1>4, <2>1 DEF Allocated
<1>8. ASSUME NEW c \in Used' PROVE key(c)' = key(c) /\ value(c)' = value(c)
  <2>1. CASE spilled(c)
    BY <1>6, <1>7, <2>1 DEF key, value, Bytes
  <2>2. CASE ~spilled(c)
    BY <1>6, <2>2 DEF key, value, Bytes
  <2> QED BY <2>1, <2>2
<1>9. Contents'
  <2>1. ASSUME NEW c \in Used'
        PROVE  /\ key(c)' \in Keys /\ value(c)' \in Values
               /\ entry'[c].hash = Hash[key(c)'] /\ entry'[c].keyLen = KeyLen[key(c)']
               /\ entry'[c].valLen = ValLen[value(c)']
               /\ written'[key(c)'] = value(c)'
    <3>1. key(c) # key(b)
      BY <1>6 DEF DataInv, KeysOnce
    <3> QED BY <1>5, <1>6, <1>8, <3>1 DEF DataInv, Contents
  <2> QED BY <2>1 DEF Contents
<1>10. KeysOnce'
  <2>1. \A c, d \in Used' : key(c)' = key(d)' => c = d
    BY <1>6, <1>8 DEF DataInv, KeysOnce
  <2> QED BY <2>1 DEF KeysOnce
<1>11. NothingElse'
  <2>1. ASSUME NEW k \in Keys, \A c \in Used' : key(c)' # k PROVE written'[k] = Null
    <3>1. k # key(b) => \A c \in Used : key(c) # k
      BY <1>8, <2>1
    <3> QED BY <1>5, <3>1 DEF DataInv, NothingElse
  <2> QED BY <2>1 DEF NothingElse
<1>12. Owned'
  <2>1. ASSUME NEW c \in Used'
        PROVE  IF spilled(c)'
               THEN /\ entry'[c].buf.ptr \in Allocated'
                    /\ entry'[c].keyLen + entry'[c].valLen <= heap'[entry'[c].buf.ptr].size
               ELSE entry'[c].buf.ptr = Null
    <3>1. CASE spilled(c)
      BY <1>6, <1>7, <3>1 DEF DataInv, Owned
    <3>2. CASE ~spilled(c)
      BY <1>6, <3>2 DEF DataInv, Owned
    <3> QED BY <3>1, <3>2
  <2> QED BY <2>1 DEF Owned
<1>13. OneOwner'
  <2>1. \A c, d \in Used' :
          spilled(c)' /\ spilled(d)' /\ entry'[c].buf.ptr = entry'[d].buf.ptr => c = d
    BY <1>6 DEF DataInv, OneOwner
  <2> QED BY <2>1 DEF OneOwner
<1>14. NoLeak'
  <2>1. ASSUME NEW g \in Allocated' PROVE \E c \in Used' : spilled(c)' /\ entry'[c].buf.ptr = g
    <3>1. g \in Buffers /\ heap[g] # Null /\ ~(spilled(b) /\ g = ptr)
      BY <1>4 DEF Allocated
    <3>2. PICK c \in Used : spilled(c) /\ entry[c].buf.ptr = g
      BY <3>1 DEF DataInv, NoLeak, Allocated
    <3>3. c # b
      BY <3>1, <3>2 DEF ptr
    <3> QED BY <1>6, <3>2, <3>3
  <2> QED BY <2>1 DEF NoLeak
<1> QED BY <1>4, <1>5, <1>9, <1>10, <1>11, <1>12, <1>13, <1>14 DEF DataInv

\* Table::remove, whatever becomes of the scan.
LEMMA UnlinkStep ==
    ASSUME TableInv, NEW b \in Used, unlink(b), scan' \in Scan \cup {Null}
    PROVE  TypeOK' /\ ChainInv' /\ DataInv' /\ (liveCount = Cardinality(Used))'
<1>1. TypeOK /\ ChainInv /\ DataInv /\ liveCount = Cardinality(Used)
  BY DEF TableInv
<1>2. /\ Used' = Used \ {b} /\ (\A c \in Used' : entry'[c] = entry[c])
      /\ bucketCount' = bucketCount /\ ChainInv'
      /\ buckets' \in [0 .. bucketCount - 1 -> Blocks \cup {Null}]
      /\ next' \in [Blocks -> Blocks \cup {Null}]
      /\ entry' \in [Blocks -> Entry \cup {Null}]
  BY <1>1, UnlinkChains
<1>3. DataInv' /\ heap' \in [Buffers -> Chars \cup {Null}] /\ written' \in [Keys -> Values \cup {Null}]
  BY <1>1, <1>2, UnlinkData
<1>4. IsFiniteSet(Used)
  <2>1. Used \in SUBSET Blocks
    BY DEF Used
  <2> QED BY <2>1, FS_Subset, TableAssumption
<1>5. Cardinality(Used \ {b}) = Cardinality(Used) - 1 /\ Cardinality(Used \ {b}) \in Nat
  BY <1>4, FS_RemoveElement, FS_CardinalityType
<1>6. liveCount' = Cardinality(Used') /\ liveCount' \in Nat
  BY <1>1, <1>2, <1>5 DEF unlink
<1>7. TypeOK'
  BY <1>1, <1>2, <1>3, <1>6 DEF TypeOK
<1> QED BY <1>2, <1>3, <1>6, <1>7

-----------------------------------------------------------------------------
(* insert.                                                                 *)

\* insert into a table that does not grow.
LEMMA LinkChains ==
    ASSUME TypeOK, ChainInv, NEW b \in Blocks, b \notin Used, NEW hash,
           link(b, hash), ~(liveCount + 1 > bucketCount),
           Used' = Used \cup {b}, \A c \in Used : entry'[c].hash = entry[c].hash,
           hash[b] \in Nat, entry'[b].hash = hash[b]
    PROVE  /\ ChainInv' /\ bucketCount' = bucketCount
           /\ buckets' \in [0 .. bucketCount - 1 -> Blocks \cup {Null}]
           /\ next' \in [Blocks -> Blocks \cup {Null}]
<1> DEFINE i == bucketOf(hash[b])
<1>1. i \in DOMAIN buckets /\ DOMAIN buckets = 0 .. bucketCount - 1
  BY Types
<1>2. /\ buckets \in [0 .. bucketCount - 1 -> Blocks \cup {Null}]
      /\ next \in [Blocks -> Blocks \cup {Null}]
  BY DEF TypeOK
<1>3. buckets' = [buckets EXCEPT ![i] = b] /\ next' = [next EXCEPT ![b] = buckets[i]]
  BY DEF link
<1>4. /\ DOMAIN buckets' = DOMAIN buckets
      /\ buckets' \in [0 .. bucketCount - 1 -> Blocks \cup {Null}]
      /\ next' \in [Blocks -> Blocks \cup {Null}]
      /\ buckets'[i] = b /\ \A j \in DOMAIN buckets : j # i => buckets'[j] = buckets[j]
      /\ next'[b] = buckets[i] /\ \A c \in Blocks : c # b => next'[c] = next[c]
  <2> HIDE DEF i
  <2> QED BY <1>1, <1>2, <1>3
<1>5. bucketCount' = bucketCount
  BY <1>4 DEF bucketCount
<1>6. ASSUME NEW j PROVE Members(j)' = IF j = i THEN Members(j) \cup {b} ELSE Members(j)
  BY <1>5 DEF Members, bucketOf
<1> HIDE DEF i
<1>7. ASSUME NEW j \in DOMAIN buckets PROVE Chained(next', buckets'[j], Members(j)')
  <2>1. Chained(next, buckets[j], Members(j))
    BY DEF ChainInv
  <2>2. \A c \in Members(j) : next'[c] = next[c]
    BY <1>4 DEF Members, Used
  <2>3. Chained(next', buckets[j], Members(j))
    BY <2>1, <2>2, ChainFrame
  <2>4. CASE j = i
    <3>1. Chained(next', b, Members(j) \cup {b})
      BY <1>4, <2>3, <2>4, ChainPush
    <3> QED BY <1>4, <1>6, <2>4, <3>1
  <2>5. CASE j # i
    BY <1>4, <1>6, <2>3, <2>5
  <2> QED BY <2>4, <2>5
<1>8. ChainInv'
  BY <1>4, <1>7 DEF ChainInv
<1> QED BY <1>4, <1>5, <1>8

\* The chains of all buckets, b in front of that of bucket i.
OldChains(b, i) ==
    [j \in 1 .. bucketCount |-> IF j - 1 = i THEN <<b>> \o Chain(i) ELSE Chain(j - 1)]

\* What rehash meets: every entry, the new one too, once.
LEMMA MetOnce ==
    ASSUME TypeOK, ChainInv, NEW b \in Blocks, b \notin Used, NEW i \in DOMAIN buckets,
           NEW old, old = OldChains(b, i)
    PROVE  /\ FlattenSeq(old) \in Seq(Blocks) /\ Distinct(FlattenSeq(old))
           /\ ToSet(FlattenSeq(old)) = Used \cup {b}
<1>1. bucketCount \in Nat \ {0} /\ DOMAIN buckets = 0 .. bucketCount - 1
  BY Types
<1>2. <<b>> \in Seq(Blocks) /\ Distinct(<<b>>) /\ ToSet(<<b>>) = {b}
  BY DEF Distinct, ToSet
<1>3. ASSUME NEW j \in DOMAIN buckets
      PROVE  /\ Chain(j) \in Seq(Blocks) /\ Distinct(Chain(j)) /\ ToSet(Chain(j)) = Members(j)
  BY WalksMembers DEF InChain
<1>4. b \notin Members(i)
  BY DEF Members
<1>5. /\ <<b>> \o Chain(i) \in Seq(Blocks) /\ Distinct(<<b>> \o Chain(i))
      /\ ToSet(<<b>> \o Chain(i)) = Members(i) \cup {b}
  <2>1. Chain(i) \in Seq(Blocks) /\ Distinct(Chain(i)) /\ ToSet(Chain(i)) = Members(i)
    BY <1>3
  <2>2. \A s : ToSet(s) = Range(s)
    BY DEF ToSet, Range
  <2>3. <<b>> \o Chain(i) \in Seq(Blocks) /\ ToSet(<<b>> \o Chain(i)) = ToSet(<<b>>) \cup ToSet(Chain(i))
    BY <1>2, <2>1, <2>2, ConcatProperties, RangeConcatenation, ZenonT(30)
  <2>4. Distinct(<<b>> \o Chain(i))
    BY <1>2, <1>4, <2>1, DistinctConcat
  <2> QED BY <1>2, <2>1, <2>3, <2>4
<1> DEFINE Part(j) == IF j - 1 = i THEN Members(i) \cup {b} ELSE Members(j - 1)
           N == bucketCount
<1>6. ASSUME NEW j \in 1 .. N
      PROVE  old[j] \in Seq(Blocks) /\ Distinct(old[j]) /\ ToSet(old[j]) = Part(j)
  <2>1. j - 1 \in DOMAIN buckets
    BY <1>1
  <2>2. old[j] = IF j - 1 = i THEN <<b>> \o Chain(i) ELSE Chain(j - 1)
    BY DEF OldChains
  <2>3. CASE j - 1 = i
    BY <1>5, <2>2, <2>3
  <2>4. CASE j - 1 # i
    BY <1>3, <2>1, <2>2, <2>4
  <2> QED BY <2>3, <2>4
<1>7. DOMAIN old = 1 .. N /\ old = [j \in 1 .. N |-> old[j]]
  BY DEF OldChains
<1>8. old \in [1 .. N -> Seq(Blocks)]
  BY <1>6, <1>7
<1>9. ASSUME NEW j \in 1 .. N, NEW l \in 1 .. N, j # l PROVE ToSet(old[j]) \cap ToSet(old[l]) = {}
  <2>1. Part(j) \cap Part(l) = {}
    <3>1. j - 1 # l - 1
      BY <1>1, <1>9
    <3> QED BY <3>1 DEF Members
  <2> QED BY <1>6, <2>1
<1>10. N \in Nat \ {0}
  BY <1>1
<1> HIDE DEF N
<1>11. /\ FlattenSeq(old) \in Seq(Blocks) /\ Distinct(FlattenSeq(old))
       /\ ToSet(FlattenSeq(old)) = Elements(old, N)
  <2>1. \A j \in 1 .. N : Distinct(old[j])
    BY <1>6
  <2>2. \A j, l \in 1 .. N : j # l => ToSet(old[j]) \cap ToSet(old[l]) = {}
    BY <1>9
  <2> QED BY <1>8, <1>10, <2>1, <2>2, FlattenParts
<1>12. Elements(old, N) = Used \cup {b}
  <2>1. ASSUME NEW j \in 1 .. N, NEW x \in ToSet(old[j]) PROVE x \in Used \cup {b}
    <3>1. x \in Part(j)
      BY <1>6
    <3>2. Part(j) \subseteq Used \cup {b}
      BY DEF Members
    <3> QED BY <3>1, <3>2
  <2>2. ASSUME NEW x \in Used PROVE \E j \in 1 .. N : x \in ToSet(old[j])
    <3>1. bucketOf(entry[x].hash) \in 0 .. N - 1
      BY <1>1, Types DEF N
    <3>2. bucketOf(entry[x].hash) + 1 \in 1 .. N
          /\ (bucketOf(entry[x].hash) + 1) - 1 = bucketOf(entry[x].hash)
      BY <1>10, <3>1
    <3>3. x \in Part(bucketOf(entry[x].hash) + 1)
      BY <3>2 DEF Members
    <3> QED BY <1>6, <3>2, <3>3
  <2>3. i + 1 \in 1 .. N /\ b \in ToSet(old[i + 1])
    <3>1. i + 1 \in 1 .. N /\ (i + 1) - 1 = i
      BY <1>1 DEF N
    <3>2. b \in Part(i + 1)
      BY <3>1
    <3>3. ToSet(old[i + 1]) = Part(i + 1)
      BY <1>6, <3>1
    <3> QED BY <3>1, <3>2, <3>3
  <2> QED BY <2>1, <2>2, <2>3 DEF Elements
<1> QED BY <1>11, <1>12

\* rehash spreads the entries over the new buckets.
LEMMA RehashChains ==
    ASSUME NEW met \in Seq(Blocks), Distinct(met), NEW hash, NEW n \in Pow2,
           rehash(met, hash, n), next \in [Blocks -> Blocks \cup {Null}],
           ToSet(met) = Used', \A c \in Used' : hash[c] \in Nat /\ entry'[c].hash = hash[c]
    PROVE  /\ ChainInv' /\ bucketCount' = n
           /\ buckets' \in [0 .. n - 1 -> Blocks \cup {Null}]
           /\ next' \in [Blocks -> Blocks \cup {Null}]
<1>1. n \in Nat \ {0} /\ nextPow2(n) = n
  BY DEF Pow2
<1>2. /\ Len(met) \in Nat /\ DOMAIN met = 1 .. Len(met)
      /\ \A q \in 1 .. Len(met) : met[q] \in Blocks /\ met[q] \in Used'
  BY LenProperties, ElementOfSeq DEF ToSet
<1>3. \A j, p : p \in 0 .. Len(met) => Slot(met, hash, n, j, p) \in Blocks \cup {Null}
  <2> SUFFICES ASSUME NEW j, NEW p \in 0 .. Len(met)
               PROVE  Slot(met, hash, n, j, p) \in Blocks \cup {Null}
    OBVIOUS
  <2> DEFINE P == {q \in 1 .. p : hash[met[q]] % n = j}
  <2>1. P \subseteq Nat /\ \A q \in P : q <= p /\ q \in 1 .. Len(met)
    BY <1>2
  <2>2. Slot(met, hash, n, j, p) = IF P = {} THEN Null ELSE met[Max(P)]
    BY DEF Slot
  <2>3. p \in Nat
    BY <1>2
  <2> HIDE DEF P
  <2>4. P # {} => Max(P) \in P
    BY <2>1, <2>3, MaxIsGreatest
  <2> QED BY <1>2, <2>1, <2>2, <2>4
<1>4. /\ buckets' = [j \in 0 .. n - 1 |-> Slot(met, hash, n, j, Len(met))]
      /\ buckets' \in [0 .. n - 1 -> Blocks \cup {Null}]
      /\ DOMAIN buckets' = 0 .. n - 1
  <2>1. Len(met) \in 0 .. Len(met)
    BY <1>2
  <2> QED BY <1>3, <2>1 DEF rehash
<1>5. bucketCount' = n
  BY <1>1, <1>4, FS_Interval DEF bucketCount
<1>6. ASSUME NEW q \in 1 .. Len(met)
      PROVE  next'[met[q]] = Slot(met, hash, n, hash[met[q]] % n, q - 1)
  <2>1. met[q] \in Blocks /\ met[q] \in ToSet(met)
    BY <1>2 DEF ToSet
  <2> DEFINE c == met[q]
             p == CHOOSE r \in DOMAIN met : met[r] = c
  <2>2. p = q
    <3>1. \A r \in DOMAIN met : met[r] = c => r = q
      BY <1>2 DEF Distinct
    <3>2. p \in DOMAIN met /\ met[p] = c
      BY <1>2
    <3> QED BY <3>1, <3>2
  <2>3. next'[c] = Slot(met, hash, n, hash[c] % n, p - 1)
    BY <2>1 DEF rehash
  <2> HIDE DEF p
  <2> QED BY <2>2, <2>3
<1>7. next' \in [Blocks -> Blocks \cup {Null}]
  <2>1. ASSUME NEW c \in Blocks PROVE next'[c] \in Blocks \cup {Null}
    <3>1. CASE c \in ToSet(met)
      <4>1. PICK q \in 1 .. Len(met) : c = met[q]
        BY <1>2, <3>1 DEF ToSet
      <4>2. q - 1 \in 0 .. Len(met)
        BY <1>2
      <4> QED BY <1>3, <1>6, <4>1, <4>2
    <3>2. CASE c \notin ToSet(met)
      <4>1. next'[c] = next[c]
        BY <3>2 DEF rehash
      <4> QED BY <4>1
    <3> QED BY <3>1, <3>2
  <2>2. next' = [c \in Blocks |-> next'[c]]
    BY DEF rehash
  <2> QED BY <2>1, <2>2
<1>8. ASSUME NEW j \in 0 .. n - 1 PROVE Chained(next', buckets'[j], Members(j)')
  <2>1. Len(met) \in 0 .. Len(met)
    BY <1>2
  <2> DEFINE C == Pushed(met, hash, n, j, Len(met))
  <2>2. Chained(next', Slot(met, hash, n, j, Len(met)), C)
    BY <1>6, <2>1, SlotChained
  <2>3. buckets'[j] = Slot(met, hash, n, j, Len(met))
    BY <1>4
  <2>4. C = Members(j)'
    <3>1. Members(j)' = {c \in Used' : hash[c] % n = j}
      BY <1>5 DEF Members, bucketOf
    <3>2. \A c \in Used' : \E q \in 1 .. Len(met) : met[q] = c
      BY <1>2 DEF ToSet
    <3> QED BY <1>2, <3>1, <3>2 DEF Pushed
  <2> QED BY <2>2, <2>3, <2>4
<1>9. ChainInv'
  BY <1>4, <1>8 DEF ChainInv
<1> QED BY <1>4, <1>5, <1>7, <1>9

\* insert into a table that grows.
LEMMA GrowChains ==
    ASSUME TypeOK, ChainInv, NEW b \in Blocks, b \notin Used, NEW hash,
           link(b, hash), liveCount + 1 > bucketCount,
           Used' = Used \cup {b}, hash[b] \in Nat,
           \A c \in Used' : hash[c] \in Nat /\ entry'[c].hash = hash[c]
    PROVE  /\ ChainInv' /\ bucketCount' \in Nat \ {0} /\ nextPow2(bucketCount') = bucketCount'
           /\ buckets' \in [0 .. bucketCount' - 1 -> Blocks \cup {Null}]
           /\ next' \in [Blocks -> Blocks \cup {Null}]
<1> DEFINE i == bucketOf(hash[b])
           met == FlattenSeq(OldChains(b, i))
           n == 2 * bucketCount
<1>1. i \in DOMAIN buckets
  BY Types
<1>2. bucketCount \in Pow2
  BY DEF TypeOK, Pow2
<1>3. n \in Pow2 /\ n \in Nat \ {0} /\ nextPow2(n) = n
  <2>1. n \in Pow2
    BY <1>2, PowersOfTwo
  <2> HIDE DEF n
  <2> QED BY <2>1 DEF Pow2
<1>4. rehash(met, hash, n)
  BY DEF link, OldChains, GrownCount
<1> HIDE DEF i
<1>5. met \in Seq(Blocks) /\ Distinct(met) /\ ToSet(met) = Used'
  BY <1>1, MetOnce
<1>6. next \in [Blocks -> Blocks \cup {Null}]
  BY DEF TypeOK
<1> HIDE DEF met, n
<1>7. /\ ChainInv' /\ bucketCount' = n
      /\ buckets' \in [0 .. n - 1 -> Blocks \cup {Null}]
      /\ next' \in [Blocks -> Blocks \cup {Null}]
  BY <1>3, <1>4, <1>5, <1>6, RehashChains
<1> QED BY <1>3, <1>7

\* What insert of k and v writes, in block b and in buffer h if it is long.
Fills(b, h, k, v) ==
    LET spill == ~Fits(KeyLen[k], ValLen[v])
    IN  /\ heap' = IF spill THEN [heap EXCEPT ![h] = Spill(KeyLen[k] + ValLen[v], k, v)]
                   ELSE heap
        /\ entry' = [entry EXCEPT ![b] =
               [hash |-> Hash[k], keyLen |-> KeyLen[k], valLen |-> ValLen[v],
                buf |-> IF spill THEN Pointer(h) ELSE Inline(k, v)]]

\* The new entry reads back, and the others as before.
LEMMA InsertData ==
    ASSUME TypeOK, DataInv, NEW b \in Blocks, b \notin Used, NEW k \in Keys, NEW v \in Values,
           \A c \in Used : key(c) # k, Fills(b, FreshBuffer, k, v),
           written' = [written EXCEPT ![k] = v]
    PROVE  /\ Used' = Used \cup {b} /\ entry'[b].hash = Hash[k]
           /\ \A c \in Used : entry'[c] = entry[c]
           /\ DataInv' /\ entry' \in [Blocks -> Entry \cup {Null}]
           /\ heap' \in [Buffers -> Chars \cup {Null}] /\ written' \in [Keys -> Values \cup {Null}]
<1> DEFINE h == FreshBuffer
           long == ~Fits(KeyLen[k], ValLen[v])
           size == KeyLen[k] + ValLen[v]
           new == Spill(size, k, v)
           buf == IF long THEN Pointer(h) ELSE Inline(k, v)
           rec == [hash |-> Hash[k], keyLen |-> KeyLen[k], valLen |-> ValLen[v], buf |-> buf]
<1>1. h \in Buffers /\ heap[h] = Null
  BY FreshExists DEF DataInv
<1>2. KeyLen[k] \in Nat /\ ValLen[v] \in Nat /\ size \in Nat /\ Hash[k] \in Nat
  BY TableAssumption
<1>3. new \in Chars /\ new # Null /\ new.size = size /\ new.key = k /\ new.val = v
  BY <1>2, TableAssumption DEF Spill, Chars
<1>4. /\ heap' = IF long THEN [heap EXCEPT ![h] = new] ELSE heap
      /\ entry' = [entry EXCEPT ![b] = rec]
  BY DEF Fills
<1>5. buf \in Union /\ (long => buf.ptr = h) /\ (~long => buf.ptr = Null /\ buf.key = k /\ buf.val = v)
  BY <1>1 DEF Pointer, Inline, Union
<1> HIDE DEF buf
<1>6. /\ rec \in Entry /\ rec.hash = Hash[k] /\ rec.keyLen = KeyLen[k] /\ rec.valLen = ValLen[v]
      /\ rec.buf = buf
  BY <1>2, <1>5 DEF Entry
<1> HIDE DEF rec, h, new
<1>7. rec # Null
  BY <1>6, TableAssumption
<1>8. /\ entry' \in [Blocks -> Entry \cup {Null}] /\ entry'[b] = rec
      /\ \A c \in Blocks : c # b => entry'[c] = entry[c]
  BY <1>4, <1>6 DEF TypeOK
<1>9. Used' = Used \cup {b} /\ \A c \in Used : entry'[c] = entry[c] /\ c # b /\ c \in Blocks
  BY <1>7, <1>8 DEF Used
<1>10. /\ heap' \in [Buffers -> Chars \cup {Null}]
       /\ \A g \in Buffers : heap'[g] = IF long /\ g = h THEN new ELSE heap[g]
  <2>1. heap \in [Buffers -> Chars \cup {Null}]
    BY DEF TypeOK
  <2> HIDE DEF long
  <2> QED BY <1>1, <1>3, <1>4, <2>1
<1>11. Allocated' = IF long THEN Allocated \cup {h} ELSE Allocated
  <2> HIDE DEF long
  <2> QED BY <1>1, <1>3, <1>10 DEF Allocated
<1>12. \A c \in Used : spilled(c)' = spilled(c)
  BY <1>9 DEF spilled
<1>13. spilled(b)' = long
  BY <1>6, <1>8 DEF spilled
<1> HIDE DEF long
<1>14. ASSUME NEW c \in Used, spilled(c)
       PROVE  /\ entry[c].buf.ptr \in Allocated /\ entry[c].buf.ptr \in Allocated'
              /\ entry[c].buf.ptr # h /\ heap'[entry[c].buf.ptr] = heap[entry[c].buf.ptr]
  <2>1. entry[c].buf.ptr \in Allocated
    BY <1>14 DEF DataInv, Owned
  <2> QED BY <1>1, <1>10, <1>11, <2>1 DEF Allocated
<1>15. ASSUME NEW c \in Used PROVE key(c)' = key(c) /\ value(c)' = value(c)
  <2>1. CASE spilled(c)
    BY <1>9, <1>12, <1>14, <2>1 DEF key, value, Bytes
  <2>2. CASE ~spilled(c)
    BY <1>9, <1>12, <2>2 DEF key, value, Bytes
  <2> QED BY <2>1, <2>2
<1>16. key(b)' = k /\ value(b)' = v
  <2>1. CASE long
    BY <1>1, <1>3, <1>5, <1>6, <1>8, <1>10, <1>11, <1>13, <2>1 DEF key, value, Bytes
  <2>2. CASE ~long
    BY <1>5, <1>6, <1>8, <1>13, <2>2 DEF key, value, Bytes
  <2> QED BY <2>1, <2>2
<1>17. /\ written' \in [Keys -> Values \cup {Null}]
       /\ \A l \in Keys : written'[l] = IF l = k THEN v ELSE written[l]
  BY DEF TypeOK
<1>18. Contents'
  <2>1. ASSUME NEW c \in Used'
        PROVE  /\ key(c)' \in Keys /\ value(c)' \in Values
               /\ entry'[c].hash = Hash[key(c)'] /\ entry'[c].keyLen = KeyLen[key(c)']
               /\ entry'[c].valLen = ValLen[value(c)']
               /\ written'[key(c)'] = value(c)'
    <3>1. CASE c = b
      BY <1>6, <1>8, <1>16, <1>17, <3>1
    <3>2. CASE c \in Used
      <4>1. key(c) # k
        BY <3>2
      <4> QED BY <1>9, <1>15, <1>17, <3>2, <4>1 DEF DataInv, Contents
    <3> QED BY <1>9, <3>1, <3>2
  <2> QED BY <2>1 DEF Contents
<1>19. KeysOnce'
  <2>1. \A c, d \in Used' : key(c)' = key(d)' => c = d
    BY <1>9, <1>15, <1>16 DEF DataInv, KeysOnce
  <2> QED BY <2>1 DEF KeysOnce
<1>20. NothingElse'
  <2>1. ASSUME NEW l \in Keys, \A c \in Used' : key(c)' # l PROVE written'[l] = Null
    <3>1. l # k /\ \A c \in Used : key(c) # l
      BY <1>9, <1>15, <1>16, <2>1
    <3> QED BY <1>17, <3>1 DEF DataInv, NothingElse
  <2> QED BY <2>1 DEF NothingElse
<1>21. Owned'
  <2>1. ASSUME NEW c \in Used'
        PROVE  IF spilled(c)'
               THEN /\ entry'[c].buf.ptr \in Allocated'
                    /\ entry'[c].keyLen + entry'[c].valLen <= heap'[entry'[c].buf.ptr].size
               ELSE entry'[c].buf.ptr = Null
    <3>1. CASE c = b /\ long
      <4>1. heap'[h].size = KeyLen[k] + ValLen[v] /\ h \in Allocated' /\ spilled(b)'
        BY <1>1, <1>3, <1>10, <1>11, <1>13, <3>1
      <4> QED BY <1>2, <1>5, <1>6, <1>8, <3>1, <4>1
    <3>2. CASE c = b /\ ~long
      BY <1>5, <1>6, <1>8, <1>13, <3>2
    <3>3. CASE c \in Used /\ spilled(c)
      BY <1>9, <1>12, <1>14, <3>3 DEF DataInv, Owned
    <3>4. CASE c \in Used /\ ~spilled(c)
      BY <1>9, <1>12, <3>4 DEF DataInv, Owned
    <3> QED BY <1>9, <3>1, <3>2, <3>3, <3>4
  <2> QED BY <2>1 DEF Owned
<1>22. OneOwner'
  <2>1. ASSUME NEW c \in Used', NEW d \in Used', spilled(c)', spilled(d)',
               entry'[c].buf.ptr = entry'[d].buf.ptr
        PROVE  c = d
    <3>1. \A e \in Used' : spilled(e)' => (entry'[e].buf.ptr = h <=> e = b)
      BY <1>5, <1>6, <1>8, <1>9, <1>12, <1>13, <1>14
    <3>2. CASE c = b \/ d = b
      BY <2>1, <3>1, <3>2
    <3>3. CASE c # b /\ d # b
      BY <1>9, <1>12, <2>1, <3>3 DEF DataInv, OneOwner
    <3> QED BY <3>2, <3>3
  <2> QED BY <2>1 DEF OneOwner
<1>23. NoLeak'
  <2>1. ASSUME NEW g \in Allocated' PROVE \E c \in Used' : spilled(c)' /\ entry'[c].buf.ptr = g
    <3>1. CASE g \in Allocated
      <4>1. PICK c \in Used : spilled(c) /\ entry[c].buf.ptr = g
        BY <3>1 DEF DataInv, NoLeak
      <4> QED BY <1>9, <1>12, <4>1
    <3>2. CASE g \notin Allocated
      <4>1. long /\ g = h
        BY <1>11, <3>2
      <4> QED BY <1>5, <1>6, <1>8, <1>9, <1>13, <4>1
    <3> QED BY <3>1, <3>2
  <2> QED BY <2>1 DEF NoLeak
<1>24. entry'[b].hash = Hash[k]
  BY <1>6, <1>8
<1> QED BY <1>8, <1>9, <1>10, <1>17, <1>18, <1>19, <1>20, <1>21, <1>22, <1>23, <1>24 DEF DataInv

\* Table::insert.
LEMMA InsertStep ==
    ASSUME TableInv, NEW k \in Keys, NEW v \in Values, insert(k, v)
    PROVE  TableInv'
<1> DEFINE Hashes(b) == [c \in Used \cup {b} |-> IF c = b THEN Hash[k] ELSE entry[c].hash]
<1>1. TypeOK /\ ChainInv /\ DataInv /\ liveCount = Cardinality(Used)
  BY DEF TableInv
<1>2. PICK b \in FreeBlocks : Fills(b, FreshBuffer, k, v) /\ link(b, Hashes(b))
  BY DEF insert, Fills
<1> DEFINE hash == Hashes(b)
<1>3. /\ b \in Blocks /\ b \notin Used
      /\ Fills(b, FreshBuffer, k, v) /\ link(b, hash)
      /\ liveCount' = liveCount + 1 /\ written' = [written EXCEPT ![k] = v]
      /\ scan' = scan /\ scan = Null /\ find(k) = Null
  BY <1>2 DEF insert, NoScan, FreeBlocks
<1>4. \A c \in Used : key(c) # k
  BY <1>1, <1>3, FindSound DEF DataInv
<1>5. /\ Used' = Used \cup {b} /\ entry'[b].hash = Hash[k]
      /\ \A c \in Used : entry'[c] = entry[c]
      /\ DataInv' /\ entry' \in [Blocks -> Entry \cup {Null}]
      /\ heap' \in [Buffers -> Chars \cup {Null}] /\ written' \in [Keys -> Values \cup {Null}]
  BY <1>1, <1>3, <1>4, InsertData
<1>6. /\ hash[b] = Hash[k] /\ \A c \in Used' : hash[c] \in Nat /\ entry'[c].hash = hash[c]
      /\ \A c \in Used : entry'[c].hash = entry[c].hash
  BY <1>1, <1>3, <1>5, Types, TableAssumption
<1> HIDE DEF hash
<1>7. hash[b] \in Nat /\ entry'[b].hash = hash[b]
  BY <1>5, <1>6
<1>8. /\ ChainInv' /\ bucketCount' \in Nat \ {0} /\ nextPow2(bucketCount') = bucketCount'
      /\ buckets' \in [0 .. bucketCount' - 1 -> Blocks \cup {Null}]
      /\ next' \in [Blocks -> Blocks \cup {Null}]
  <2>1. CASE liveCount + 1 > bucketCount
    BY <1>1, <1>3, <1>5, <1>6, <1>7, <2>1, GrowChains
  <2>2. CASE ~(liveCount + 1 > bucketCount)
    <3>1. /\ ChainInv' /\ bucketCount' = bucketCount
          /\ buckets' \in [0 .. bucketCount - 1 -> Blocks \cup {Null}]
          /\ next' \in [Blocks -> Blocks \cup {Null}]
      BY <1>1, <1>3, <1>5, <1>6, <1>7, <2>2, LinkChains
    <3> QED BY <1>1, <3>1 DEF TypeOK
  <2> QED BY <2>1, <2>2
<1>9. liveCount' = Cardinality(Used') /\ liveCount' \in Nat
  <2>1. Used \in SUBSET Blocks
    BY DEF Used
  <2>2. IsFiniteSet(Used)
    BY <2>1, FS_Subset, TableAssumption
  <2>3. Cardinality(Used \cup {b}) = Cardinality(Used) + 1 /\ Cardinality(Used) \in Nat
    BY <1>3, <2>2, FS_AddElement, FS_CardinalityType
  <2> QED BY <1>1, <1>3, <1>5, <2>3
<1>10. TypeOK'
  BY <1>1, <1>3, <1>5, <1>8, <1>9 DEF TypeOK
<1>11. ScanInv'
  BY <1>3 DEF ScanInv
<1> QED BY <1>5, <1>8, <1>9, <1>10, <1>11 DEF TableInv

-----------------------------------------------------------------------------
(* clear and the scan.                                                     *)

\* Table::clear.
LEMMA ClearStep ==
    ASSUME TableInv, clear
    PROVE  TableInv'
<1> DEFINE gone == UNION {InChain(i) : i \in DOMAIN buckets}
           freed == {entry[b].buf.ptr : b \in {c \in gone : spilled(c)}}
<1>1. TypeOK /\ ChainInv /\ DataInv
  BY DEF TableInv
<1>2. /\ buckets' = [i \in DOMAIN buckets |-> Null]
      /\ entry' = [b \in Blocks |-> IF b \in gone THEN Null ELSE entry[b]]
      /\ heap' = [h \in Buffers |-> IF h \in freed THEN Null ELSE heap[h]]
      /\ next' = [b \in Blocks |-> IF b \in gone THEN Null ELSE next[b]]
      /\ liveCount' = 0 /\ written' = [k \in Keys |-> Null] /\ scan' = scan /\ scan = Null
  BY DEF clear, NoScan
<1>3. gone = Used
  <2>1. \A i \in DOMAIN buckets : InChain(i) = Members(i)
    BY <1>1, WalksMembers
  <2>2. \A b \in Used : bucketOf(entry[b].hash) \in DOMAIN buckets
    BY <1>1, Types
  <2> QED BY <2>1, <2>2 DEF Members
<1>4. \A h \in Allocated : h \in freed
  BY <1>1, <1>3 DEF DataInv, NoLeak
<1> HIDE DEF gone, freed
<1>5. entry' = [b \in Blocks |-> Null] /\ Used' = {}
  BY <1>2, <1>3 DEF Used
<1>6. heap' = [h \in Buffers |-> Null] /\ Allocated' = {}
  BY <1>2, <1>4 DEF Allocated
<1>7. DOMAIN buckets' = DOMAIN buckets /\ bucketCount' = bucketCount
  BY <1>2 DEF bucketCount
<1>8. TypeOK'
  <2>1. /\ bucketCount \in Nat \ {0} /\ nextPow2(bucketCount) = bucketCount
        /\ DOMAIN buckets = 0 .. bucketCount - 1
        /\ next \in [Blocks -> Blocks \cup {Null}]
    BY <1>1 DEF TypeOK
  <2>2. buckets' \in [0 .. bucketCount - 1 -> Blocks \cup {Null}]
    BY <1>2, <2>1
  <2>3. next' \in [Blocks -> Blocks \cup {Null}]
    BY <1>2, <2>1
  <2>4. entry' \in [Blocks -> Entry \cup {Null}] /\ heap' \in [Buffers -> Chars \cup {Null}]
    BY <1>5, <1>6
  <2>5. liveCount' \in Nat /\ scan' \in Scan \cup {Null} /\ written' \in [Keys -> Values \cup {Null}]
    BY <1>2
  <2> QED BY <1>7, <2>1, <2>2, <2>3, <2>4, <2>5 DEF TypeOK
<1>9. ChainInv'
  <2>1. ASSUME NEW i \in DOMAIN buckets' PROVE Chained(next', buckets'[i], Members(i)')
    <3>1. Members(i)' = {} /\ buckets'[i] = Null
      BY <1>2, <1>5, <1>7 DEF Members
    <3> QED BY <3>1, EmptyChain
  <2> QED BY <2>1 DEF ChainInv
<1>10. liveCount' = Cardinality(Used')
  BY <1>2, <1>5, FS_EmptySet
<1>11. DataInv'
  BY <1>2, <1>5, <1>6 DEF DataInv, Contents, KeysOnce, NothingElse, Owned, OneOwner, NoLeak
<1>12. ScanInv'
  BY <1>2 DEF ScanInv
<1> QED BY <1>8, <1>9, <1>10, <1>11, <1>12 DEF TableInv

\* A step of a scan that changes nothing but the scan.
LEMMA ScanOnly ==
    ASSUME TableInv, UNCHANGED <<buckets, next, entry, heap, liveCount, written>>,
           scan' \in Scan \cup {Null}
    PROVE  /\ TypeOK' /\ ChainInv' /\ (liveCount = Cardinality(Used))' /\ DataInv'
           /\ \A i : Members(i)' = Members(i)
<1>1. TypeOK'
  BY DEF TableInv, TypeOK, bucketCount
<1>2. Used' = Used /\ Allocated' = Allocated /\ bucketCount' = bucketCount
  BY DEF Used, Allocated, bucketCount
<1>3. \A b : spilled(b)' = spilled(b) /\ key(b)' = key(b) /\ value(b)' = value(b)
  BY <1>2 DEF spilled, key, value, Bytes
<1>4. \A i : Members(i)' = Members(i)
  BY <1>2 DEF Members, bucketOf
<1>5. ChainInv'
  BY <1>4 DEF TableInv, ChainInv
<1>6. (liveCount = Cardinality(Used))'
  BY <1>2 DEF TableInv
<1>7. (Contents /\ KeysOnce /\ NothingElse)'
  BY <1>2, <1>3 DEF TableInv, DataInv, Contents, KeysOnce, NothingElse
<1>8. (Owned /\ OneOwner /\ NoLeak)'
  BY <1>2, <1>3 DEF TableInv, DataInv, Owned, OneOwner, NoLeak
<1> QED BY <1>1, <1>4, <1>5, <1>6, <1>7, <1>8 DEF DataInv

\* Table::scanBucket reads the head of the chain.
LEMMA ScanStep ==
    ASSUME TableInv, NEW cursor \in DOMAIN buckets, scanBucket(cursor)
    PROVE  TableInv'
<1>1. TypeOK /\ ChainInv
  BY DEF TableInv
<1>2. PICK i \in DOMAIN buckets : i = bucketOf(cursor) /\ buckets[i] \in Blocks \cup {Null}
  <2>1. DOMAIN buckets = 0 .. bucketCount - 1 /\ bucketCount \in Nat \ {0}
        /\ \A h \in Nat : bucketOf(h) \in DOMAIN buckets
    BY <1>1, Types
  <2>2. cursor \in Nat
    BY <2>1
  <2>3. buckets \in [0 .. bucketCount - 1 -> Blocks \cup {Null}]
    BY <1>1 DEF TypeOK
  <2> QED BY <2>1, <2>2, <2>3
<1>3. InChain(i) = Members(i) /\ Chained(next, buckets[i], Members(i)) /\ Members(i) \subseteq Blocks
  BY <1>1, <1>2, WalksMembers DEF ChainInv, Members, Used
<1>4. /\ scan' = [at |-> buckets[i], left |-> Members(i)]
      /\ UNCHANGED <<buckets, next, entry, heap, liveCount, written>>
  BY <1>2, <1>3 DEF scanBucket
<1>5. scan' \in Scan /\ scan'.at = buckets[i] /\ scan'.left = Members(i)
  BY <1>2, <1>3, <1>4 DEF Scan
<1>6. /\ TypeOK' /\ ChainInv' /\ (liveCount = Cardinality(Used))' /\ DataInv'
      /\ \A j : Members(j)' = Members(j)
  BY <1>4, <1>5, ScanOnly
<1>7. ScanInv'
  <2>1. next' = next /\ DOMAIN buckets' = DOMAIN buckets
    BY <1>4
  <2>2. Chained(next', scan'.at, scan'.left) /\ scan'.left \subseteq Members(i)'
    BY <1>3, <1>5, <1>6, <2>1
  <2> QED BY <1>2, <2>1, <2>2 DEF ScanInv
<1> QED BY <1>6, <1>7 DEF TableInv

\* The visitor's turn: the link was read before it may have removed the entry.
LEMMA VisitStep ==
    ASSUME TableInv, NEW removes \in BOOLEAN, visit(removes)
    PROVE  TableInv'
<1> DEFINE b == scan.at
           S == scan.left
<1>1. TypeOK /\ ChainInv /\ ScanInv
  BY DEF TableInv
<1>2. /\ scan # Null /\ b # Null /\ scan' = [at |-> next[b], left |-> S \ {b}]
      /\ IF removes THEN unlink(b) ELSE UNCHANGED <<buckets, next, entry, heap, liveCount, written>>
  BY DEF visit, NoScan
<1>3. PICK i \in DOMAIN buckets : S \subseteq Members(i)
  BY <1>1, <1>2 DEF ScanInv
<1>4. Chained(next, b, S)
  BY <1>1, <1>2 DEF ScanInv
<1> HIDE DEF b, S
<1>5. b \in S /\ S \subseteq Blocks /\ Chained(next, next[b], S \ {b})
  BY <1>2, <1>4, ChainPop
<1>6. b \in Used /\ b \in Blocks
  BY <1>3, <1>5 DEF Members
<1>7. scan' \in Scan /\ scan'.at = next[b] /\ scan'.left = S \ {b}
  <2>1. next[b] \in Blocks \cup {Null}
    BY <1>1, <1>6 DEF TypeOK
  <2> QED BY <1>2, <1>5, <2>1 DEF Scan
<1>8. CASE removes
  <2>1. unlink(b)
    BY <1>2, <1>8
  <2>2. TypeOK' /\ ChainInv' /\ DataInv' /\ (liveCount = Cardinality(Used))'
    BY <1>6, <1>7, <2>1, UnlinkStep
  <2>3. /\ DOMAIN buckets' = DOMAIN buckets /\ Members(i)' = Members(i) \ {b}
        /\ Chained(next', next[b], S \ {b})
    BY <1>1, <1>3, <1>4, <1>6, <2>1, UnlinkChains
  <2>4. scan'.left \subseteq Members(i)' /\ Chained(next', scan'.at, scan'.left)
    BY <1>3, <1>7, <2>3
  <2>5. ScanInv'
    BY <2>3, <2>4 DEF ScanInv
  <2> QED BY <2>2, <2>5 DEF TableInv
<1>9. CASE ~removes
  <2>1. UNCHANGED <<buckets, next, entry, heap, liveCount, written>>
    BY <1>2, <1>9
  <2>2. /\ TypeOK' /\ ChainInv' /\ (liveCount = Cardinality(Used))' /\ DataInv'
        /\ \A j : Members(j)' = Members(j)
    BY <1>7, <2>1, ScanOnly
  <2>3. scan'.left \subseteq Members(i)' /\ Chained(next', scan'.at, scan'.left)
        /\ DOMAIN buckets' = DOMAIN buckets
    BY <1>3, <1>5, <1>7, <2>1, <2>2
  <2>4. ScanInv'
    BY <2>3 DEF ScanInv
  <2> QED BY <2>2, <2>4 DEF TableInv
<1> QED BY <1>8, <1>9

-----------------------------------------------------------------------------
(* Theorems.                                                               *)

\* Table's constructor.
LEMMA InitStep == Init => TableInv
<1> SUFFICES ASSUME Init PROVE TableInv
  OBVIOUS
<1> DEFINE p == nextPow2(InitialBuckets)
           n == IF p > kMinBuckets THEN p ELSE kMinBuckets
<1>1. n \in Nat \ {0} /\ nextPow2(n) = n
  <2>1. p \in Pow2 /\ kMinBuckets \in Pow2
    BY NextPow2IsPow2, TableAssumption DEF Pow2
  <2> HIDE DEF p
  <2>2. n \in Pow2
    BY <2>1
  <2> HIDE DEF n
  <2> QED BY <2>2 DEF Pow2
<1>2. buckets = [i \in 0 .. n - 1 |-> Null]
  BY DEF Init
<1> HIDE DEF n
<1>3. DOMAIN buckets = 0 .. n - 1 /\ bucketCount = n
  BY <1>1, <1>2, FS_Interval DEF bucketCount
<1>4. /\ next = [b \in Blocks |-> Null] /\ entry = [b \in Blocks |-> Null]
      /\ heap = [h \in Buffers |-> Null] /\ liveCount = 0 /\ scan = Null
      /\ written = [k \in Keys |-> Null]
  BY DEF Init
<1>5. Used = {} /\ Allocated = {}
  BY <1>4 DEF Used, Allocated
<1>6. TypeOK
  BY <1>1, <1>2, <1>3, <1>4 DEF TypeOK
<1>7. ChainInv
  <2>1. ASSUME NEW i \in DOMAIN buckets PROVE Chained(next, buckets[i], Members(i))
    <3>1. Members(i) = {} /\ buckets[i] = Null
      BY <1>2, <1>3, <1>5 DEF Members
    <3> QED BY <3>1, EmptyChain
  <2> QED BY <2>1 DEF ChainInv
<1>8. liveCount = Cardinality(Used)
  BY <1>4, <1>5, FS_EmptySet
<1>9. DataInv
  BY <1>4, <1>5 DEF DataInv, Contents, KeysOnce, NothingElse, Owned, OneOwner, NoLeak
<1>10. ScanInv
  BY <1>4 DEF ScanInv
<1> QED BY <1>6, <1>7, <1>8, <1>9, <1>10 DEF TableInv

\* Every operation of core/table.cpp keeps the table's chains, bytes, buffers
\* and scan sound.
THEOREM TableInvariant == Spec => []TableInv
<1>1. Init => TableInv
  BY InitStep
<1>2. TableInv /\ [Next]_vars => TableInv'
  <2> SUFFICES ASSUME TableInv, [Next]_vars PROVE TableInv'
    OBVIOUS
  <2>0. ASSUME NEW k \in Keys, find(k) # Null PROVE find(k) \in Used
    BY <2>0, FindSound DEF TableInv, DataInv
  <2>1. CASE \E k \in Keys, v \in Values : insert(k, v)
    BY <2>1, InsertStep
  <2>2. CASE \E k \in Keys, v \in Values : find(k) # Null /\ assign(find(k), v)
    BY <2>0, <2>2, AssignStep
  <2>3. ASSUME NEW k \in Keys, find(k) # Null, remove(find(k)) PROVE TableInv'
    <3>1. find(k) \in Used
      BY <2>0, <2>3
    <3>2. unlink(find(k)) /\ scan' = scan /\ scan = Null
      BY <2>3 DEF remove, NoScan
    <3>3. TypeOK' /\ ChainInv' /\ DataInv' /\ (liveCount = Cardinality(Used))'
      BY <3>1, <3>2, UnlinkStep
    <3>4. ScanInv'
      BY <3>2 DEF ScanInv
    <3> QED BY <3>3, <3>4 DEF TableInv
  <2>4. CASE clear
    BY <2>4, ClearStep
  <2>5. CASE \E cursor \in DOMAIN buckets : scanBucket(cursor)
    BY <2>5, ScanStep
  <2>6. CASE \E removes \in BOOLEAN : visit(removes)
    BY <2>6, VisitStep
  <2>7. CASE scanDone
    <3>1. scan' = Null /\ UNCHANGED <<buckets, next, entry, heap, liveCount, written>>
      BY <2>7 DEF scanDone
    <3>2. TypeOK' /\ ChainInv' /\ (liveCount = Cardinality(Used))' /\ DataInv'
      BY <3>1, ScanOnly
    <3>3. ScanInv'
      BY <3>1 DEF ScanInv
    <3> QED BY <3>2, <3>3 DEF TableInv
  <2>8. CASE UNCHANGED vars
    <3>1. scan' = scan /\ UNCHANGED <<buckets, next, entry, heap, liveCount, written>>
      BY <2>8 DEF vars
    <3>2. scan' \in Scan \cup {Null}
      BY <3>1 DEF TableInv, TypeOK
    <3>3. /\ TypeOK' /\ ChainInv' /\ (liveCount = Cardinality(Used))' /\ DataInv'
          /\ \A i : Members(i)' = Members(i)
      BY <3>1, <3>2, ScanOnly
    <3>4. ScanInv'
      BY <3>1, <3>3 DEF TableInv, ScanInv
    <3> QED BY <3>3, <3>4 DEF TableInv
  <2> QED BY <2>1, <2>2, <2>3, <2>4, <2>5, <2>6, <2>7, <2>8 DEF Next
<1> QED BY <1>1, <1>2, PTL DEF Spec

\* Every entry hangs in the chain its hash selects, once, and liveCount_ counts
\* them, through growth, removal and reuse of blocks.
THEOREM ChainsAreSound == Spec => []ChainsSound
<1>1. TableInv => ChainsSound
  <2> SUFFICES ASSUME TableInv PROVE ChainsSound
    OBVIOUS
  <2>1. ASSUME NEW i \in DOMAIN buckets
        PROVE  IsInjective(Chain(i)) /\ InChain(i) = {b \in Used : bucketOf(entry[b].hash) = i}
    <3>1. /\ Distinct(Chain(i)) /\ InChain(i) = Members(i) /\ DOMAIN Chain(i) = 1 .. Len(Chain(i))
      BY WalksMembers DEF TableInv
    <3> QED BY <3>1 DEF Distinct, IsInjective, Members
  <2> QED BY <2>1 DEF ChainsSound, TableInv
<1> QED BY <1>1, TableInvariant, PTL

\* Long entries own their buffers one to one, and no buffer is too small.
THEOREM SpillIsOwned == Spec => []SpillOwned
<1>1. TableInv => SpillOwned
  <2> SUFFICES ASSUME TableInv PROVE SpillOwned
    OBVIOUS
  <2> DEFINE long == {b \in Used : spilled(b)}
             f == [b \in long |-> entry[b].buf.ptr]
  <2>1. /\ \A b \in long : entry[b].buf.ptr \in Allocated
        /\ \A h \in Allocated : \E b \in long : entry[b].buf.ptr = h
        /\ \A b, c \in long : entry[b].buf.ptr = entry[c].buf.ptr => b = c
        /\ \A b \in long : entry[b].keyLen + entry[b].valLen <= heap[entry[b].buf.ptr].size
    BY DEF TableInv, DataInv, Owned, OneOwner, NoLeak
  <2>2. IsFiniteSet(long)
    <3>1. long \in SUBSET Blocks
      BY DEF Used
    <3> QED BY <3>1, FS_Subset, TableAssumption
  <2> HIDE DEF long
  <2>3. f \in Bijection(long, Allocated)
    <3>1. f \in [long -> Allocated]
      BY <2>1
    <3>2. \A b, c \in long : f[b] = f[c] => b = c
      BY <2>1
    <3>3. \A h \in Allocated : \E b \in long : f[b] = h
      BY <2>1
    <3> HIDE DEF f
    <3> QED BY <3>1, <3>2, <3>3 DEF Bijection, Injection, Surjection, IsInjective
  <2>4. Cardinality(long) = Cardinality(Allocated)
    BY <2>2, <2>3, FS_Bijection DEF ExistsBijection
  <2>5. {entry[b].buf.ptr : b \in long} = Allocated
    BY <2>1
  <2> QED BY <2>1, <2>4, <2>5 DEF SpillOwned, long
<1> QED BY <1>1, TableInvariant, PTL

\* scanBucket hands every entry of its chain over once, and only live ones.
THEOREM ScanVisits == Spec => []ScanVisitsChain
<1>1. TableInv => ScanVisitsChain
  <2> SUFFICES ASSUME TableInv, scan # Null
               PROVE  IF scan.at = Null THEN scan.left = {} ELSE scan.at \in scan.left \cap Used
    BY DEF ScanVisitsChain, NoScan
  <2>1. Chained(next, scan.at, scan.left) /\ scan.left \subseteq Used
    BY DEF TableInv, ScanInv, Members
  <2>2. CASE scan.at = Null
    <3>1. PICK s \in Seq(Blocks) : LinksVia(next, s, Null) /\ ToSet(s) = scan.left
      BY <2>1, <2>2 DEF Chained
    <3>2. s = <<>>
      <4>1. s # <<>> => s[1] \in Blocks
        BY EmptySeq, LenProperties, ElementOfSeq
      <4> QED BY <3>1, <4>1, TableAssumption DEF LinksVia
    <3>3. ToSet(s) = {}
      BY <3>2 DEF ToSet
    <3> QED BY <2>2, <3>1, <3>3
  <2>3. CASE scan.at # Null
    BY <2>1, <2>3, ChainPop
  <2> QED BY <2>2, <2>3
<1> QED BY <1>1, TableInvariant, PTL

\* find and value() answer what was last written under a key.
THEOREM ReadsWhatWasWritten == Spec => []ReadsBack
<1>1. TableInv => ReadsBack
  <2> SUFFICES ASSUME TableInv, NEW k \in Keys
               PROVE  written[k] = (IF find(k) = Null THEN Null ELSE value(find(k)))
    BY DEF ReadsBack
  <2>1. /\ find(k) # Null => find(k) \in Used /\ key(find(k)) = k
        /\ find(k) = Null => \A b \in Used : key(b) # k
    BY FindSound DEF TableInv, DataInv
  <2> QED BY <2>1 DEF TableInv, DataInv, Contents, NothingElse
<1> QED BY <1>1, TableInvariant, PTL

\* Buckets fewer than the whole table apart are different buckets.
LEMMA ApartRemainders ==
    ASSUME NEW a \in Nat, NEW b \in Nat, NEW m \in Nat \ {0}, a < b, b - a < m
    PROVE  a % m # b % m
<1> DEFINE p == a \div m
           q == b \div m
<1>1. a = m * p + (a % m) /\ b = m * q + (b % m) /\ p \in Int /\ q \in Int
      /\ a % m \in Int /\ b % m \in Int
  BY Z3
<1> HIDE DEF p, q
<1>2. SUFFICES ASSUME a % m = b % m PROVE FALSE
  OBVIOUS
<1> DEFINE r == a % m
<1>3. a = m * p + r /\ b = m * q + r /\ r \in Int
  BY <1>1, <1>2
<1> HIDE DEF r
<1>4. b - a = m * (q - p) /\ q - p \in Int
  BY <1>1, <1>3, Z3
<1>5. q - p >= 1 => m * (q - p) >= m
  BY <1>4, Z3
<1>6. q - p <= 0 => m * (q - p) <= 0
  BY <1>4, Z3
<1> QED BY <1>4, <1>5, <1>6

\* The i-th bucket of a walk of w buckets from start.
WalkChains(start, w) == [i \in 1 .. w |-> Chain((start + i - 1) % bucketCount)]

\* What a walk of sampleSome meets: no block twice, and every block if it
\* covers the table.
LEMMA WalkOnce ==
    ASSUME TypeOK, ChainInv, NEW start \in DOMAIN buckets, NEW w \in 1 .. bucketCount,
           NEW walk, walk = FlattenSeq(WalkChains(start, w))
    PROVE  /\ walk \in Seq(Blocks) /\ Distinct(walk)
           /\ w = bucketCount => ToSet(walk) = Used
<1>0. PICK N \in Nat \ {0} : N = bucketCount /\ DOMAIN buckets = 0 .. N - 1
  BY Types
<1> DEFINE At(i) == (start + i - 1) % N
<1>1. \A h \in Nat : h % N \in DOMAIN buckets
  BY <1>0, Types DEF bucketOf
<1>2. w \in Nat \ {0} /\ w <= N /\ start \in Nat /\ start < N
  BY <1>0
<1>3. \A i \in 1 .. w : start + i - 1 \in Nat
  BY <1>2
<1>4. ASSUME NEW i \in 1 .. w PROVE At(i) \in DOMAIN buckets
  BY <1>1, <1>3
<1>5. ASSUME NEW i \in 1 .. w, NEW j \in 1 .. w, i # j PROVE At(i) # At(j)
  <2> DEFINE a == start + i - 1
             b == start + j - 1
  <2>1. a \in Nat /\ b \in Nat /\ (a < b \/ b < a) /\ b - a < N /\ a - b < N
    BY <1>2, <1>5
  <2> HIDE DEF a, b
  <2>2. a % N # b % N
    BY <2>1, ApartRemainders
  <2> QED BY <2>2 DEF a, b
<1> HIDE DEF At
<1> DEFINE seqs == WalkChains(start, w)
<1>6. DOMAIN seqs = 1 .. w /\ seqs = [i \in 1 .. w |-> seqs[i]]
      /\ \A i \in 1 .. w : seqs[i] = Chain(At(i))
  BY <1>0 DEF WalkChains, At
<1> HIDE DEF seqs
<1>7. ASSUME NEW i \in 1 .. w
      PROVE  /\ seqs[i] \in Seq(Blocks) /\ Distinct(seqs[i]) /\ ToSet(seqs[i]) = Members(At(i))
  BY <1>4, <1>6, WalksMembers DEF InChain
<1>8. seqs \in [1 .. w -> Seq(Blocks)]
  BY <1>6, <1>7
<1>9. ASSUME NEW i \in 1 .. w, NEW j \in 1 .. w, i # j PROVE ToSet(seqs[i]) \cap ToSet(seqs[j]) = {}
  <2>1. Members(At(i)) \cap Members(At(j)) = {}
    BY <1>5, <1>9 DEF Members
  <2> QED BY <1>7, <2>1
<1>10. walk \in Seq(Blocks) /\ Distinct(walk) /\ ToSet(walk) = Elements(seqs, w)
  <2>1. \A i \in 1 .. w : Distinct(seqs[i])
    BY <1>7
  <2>2. \A i, j \in 1 .. w : i # j => ToSet(seqs[i]) \cap ToSet(seqs[j]) = {}
    BY <1>9
  <2>3. walk = FlattenSeq(seqs)
    BY DEF seqs
  <2>4. w \in Nat \ {0}
    BY <1>2
  <2>5. /\ FlattenSeq(seqs) \in Seq(Blocks) /\ Distinct(FlattenSeq(seqs))
        /\ ToSet(FlattenSeq(seqs)) = Elements(seqs, w)
    BY <1>8, <2>1, <2>2, <2>4, FlattenParts
  <2> QED BY <2>3, <2>5
<1>11. ASSUME w = N PROVE Elements(seqs, w) = Used
  <2>1. \A i \in 1 .. w : ToSet(seqs[i]) \subseteq Used
    BY <1>7 DEF Members
  <2>2. ASSUME NEW x \in Used PROVE \E i \in 1 .. w : x \in ToSet(seqs[i])
    <3>1. PICK j \in 0 .. N - 1 : j = bucketOf(entry[x].hash)
      BY <1>0, Types
    <3>2. PICK i \in 1 .. w : At(i) = j
      <4>1. CASE j >= start
        <5> DEFINE i == j - start + 1
        <5>1. i \in 1 .. w /\ start + i - 1 = j
          BY <1>2, <1>11, <4>1
        <5>2. j % N = j
          BY <3>1, SmallRemainder
        <5> QED BY <5>1, <5>2 DEF At
      <4>2. CASE j < start
        <5> DEFINE i == (N + j) - start + 1
        <5>1. i \in 1 .. w /\ start + i - 1 = j + N * 1
          BY <1>2, <1>11, <4>2
        <5>2. (j + N * 1) % N = j
          <6>1. j % N = j
            BY <3>1, SmallRemainder
          <6>2. (j + N * 1) % N = j % N
            <7>1. PICK one \in Int : one = 1
              OBVIOUS
            <7>2. (j + N * one) % N = j % N
              BY <3>1, RemainderShift
            <7> QED BY <7>1, <7>2
          <6> QED BY <6>1, <6>2
        <5> QED BY <5>1, <5>2 DEF At
      <4> QED BY <1>2, <4>1, <4>2
    <3>3. x \in Members(j)
      BY <3>1 DEF Members
    <3> QED BY <1>7, <3>2, <3>3
  <2> QED BY <2>1, <2>2 DEF Elements
<1> QED BY <1>0, <1>10, <1>11

\* sampleSome returns distinct entries, and as many as were asked for or all
\* there are whenever its budget covers the table.
THEOREM SampleIsDistinct == Spec => []SampleDistinct
<1>1. TableInv => SampleDistinct
  <2> SUFFICES ASSUME TableInv, NEW n \in 1 .. Cardinality(Blocks), NEW start \in DOMAIN buckets
               PROVE  /\ IsInjective(sampleSome(n, start))
                      /\ n * SampleBuckets >= bucketCount =>
                             Len(sampleSome(n, start)) = (IF n < liveCount THEN n ELSE liveCount)
    BY DEF SampleDistinct
  <2>1. TypeOK /\ ChainInv /\ liveCount = Cardinality(Used)
    BY DEF TableInv
  <2> DEFINE w == IF n * SampleBuckets < bucketCount THEN n * SampleBuckets ELSE bucketCount
             walk == FlattenSeq(WalkChains(start, w))
             m == IF n < Len(walk) THEN n ELSE Len(walk)
             out == SubSeq(walk, 1, m)
  <2>2. n \in Nat \ {0} /\ SampleBuckets \in Nat \ {0} /\ bucketCount \in Nat \ {0}
    BY <2>1, Types, TableAssumption
  <2>3. n * SampleBuckets \in Nat \ {0}
    BY <2>2, Z3
  <2>4. w \in 1 .. bucketCount /\ (n * SampleBuckets >= bucketCount => w = bucketCount)
    BY <2>2, <2>3
  <2>5. sampleSome(n, start) = out
    BY DEF sampleSome, WalkChains
  <2> HIDE DEF w
  <2>6. /\ walk \in Seq(Blocks) /\ Distinct(walk)
        /\ w = bucketCount => ToSet(walk) = Used
    BY <2>1, <2>4, WalkOnce
  <2> HIDE DEF walk
  <2>7. Len(walk) \in Nat /\ \A i \in 1 .. Len(walk) : walk[i] \in Blocks
    BY <2>6, LenProperties, ElementOfSeq
  <2>8. m \in Nat /\ m <= Len(walk) /\ \A i \in 1 .. m : i \in 1 .. Len(walk)
    BY <2>2, <2>7
  <2>9. out \in Seq(Blocks) /\ Len(out) = m /\ \A i \in 1 .. m : out[i] = walk[i]
    <3> HIDE DEF m
    <3>1. \A i \in 1 .. m : walk[i] \in Blocks
      BY <2>7, <2>8
    <3>2. /\ out \in Seq(Blocks) /\ Len(out) = IF 1 <= m THEN m - 1 + 1 ELSE 0
          /\ \A i \in 1 .. m - 1 + 1 : out[i] = walk[1 + i - 1]
      BY <2>8, <3>1, SubSeqProperties
    <3>3. m - 1 + 1 = m /\ \A i \in 1 .. m : 1 + i - 1 = i
      BY <2>8
    <3> QED BY <2>8, <3>2, <3>3
  <2>10. IsInjective(out)
    <3>1. DOMAIN out = 1 .. m
      BY <2>9, LenProperties
    <3> HIDE DEF m, out
    <3> QED BY <2>6, <2>8, <2>9, <3>1 DEF IsInjective, Distinct
  <2>11. ASSUME w = bucketCount PROVE Len(walk) = liveCount
    BY <2>1, <2>6, <2>11, InjectiveLength DEF Distinct
  <2>12. n * SampleBuckets >= bucketCount => Len(out) = (IF n < liveCount THEN n ELSE liveCount)
    BY <2>4, <2>9, <2>11
  <2> HIDE DEF out
  <2> QED BY <2>5, <2>10, <2>12
<1> QED BY <1>1, TableInvariant, PTL
=============================================================================
