----------------------------- MODULE ListProofs -----------------------------
(***************************************************************************)
(* Induction over the natural numbers, and what filtering a list returns.  *)
(***************************************************************************)
EXTENDS Lists, Integers, FiniteSetTheorems, WellFoundedInduction, NaturalsInduction, TLAPS

----------------------------------------------------------------------------
(* Subsequences *)

\* A set of natural numbers has a least element.  Induction below is this lemma,
\* applied to the numbers for which a claim would fail.
LEMMA LeastNatural ==
    ASSUME NEW T \in SUBSET Nat, T # {}
    PROVE  \E n \in T : \A m \in T : n <= m
<1>1. \E n \in T : \A m \in T : ~(<<m, n>> \in OpToRel(<, Nat))
  BY NatLessThanWellFounded, WFMin, Zenon
<1>2. PICK n \in T : \A m \in T : ~(m < n)
  BY <1>1, Zenon DEF OpToRel
<1>3. \A m \in T : n <= m
  BY <1>2
<1> QED BY <1>3

\* What holds at 0 and goes from each number below n to the next holds up to n.
LEMMA IntervalInduction ==
    ASSUME NEW n \in Nat, NEW T, 0 \in T, \A m \in 0 .. n - 1 : m \in T => m + 1 \in T
    PROVE  \A m \in 0 .. n : m \in T
<1> DEFINE Bad == {m \in Nat : m <= n /\ m \notin T}
<1> SUFFICES ASSUME Bad # {} PROVE FALSE
  OBVIOUS
<1>1. PICK b \in Bad : \A x \in Bad : b <= x
  <2>1. Bad \in SUBSET Nat
    OBVIOUS
  <2> HIDE DEF Bad
  <2> QED BY <2>1, LeastNatural
<1>2. b \in Nat /\ b <= n /\ b \notin T /\ b # 0
  OBVIOUS
<1>3. b - 1 \in Nat /\ b - 1 \in 0 .. n - 1 /\ b - 1 <= n /\ ~(b <= b - 1) /\ b - 1 + 1 = b
  BY <1>2
<1>4. b - 1 \in T
  BY <1>1, <1>3
<1> QED BY <1>2, <1>3, <1>4

\* The number of elements of S up to i.
Rank(S, i) == Cardinality({j \in S : j <= i})

LEMMA RankFinite ==
    ASSUME NEW n \in Nat, NEW S \in SUBSET (1 .. n)
    PROVE  /\ IsFiniteSet(S) /\ Cardinality(S) \in Nat
           /\ \A i : IsFiniteSet({j \in S : j <= i}) /\ Rank(S, i) \in Nat
<1>1. IsFiniteSet(1 .. n)
  BY FS_Interval
<1>2. \A X \in SUBSET (1 .. n) : IsFiniteSet(X) /\ Cardinality(X) \in Nat
  BY <1>1, FS_Subset, FS_CardinalityType
<1>3. \A i : {j \in S : j <= i} \in SUBSET (1 .. n)
  OBVIOUS
<1> QED BY <1>2, <1>3 DEF Rank

\* The least element of S above i, or of all of S, has the next rank.
LEMMA RankNext ==
    ASSUME NEW n \in Nat, NEW S \in SUBSET (1 .. n), NEW i \in 0 .. n,
           NEW m \in S, i < m, \A x \in S : i < x => m <= x
    PROVE  Rank(S, m) = Rank(S, i) + 1
<1>0. i \in Int /\ \A x \in S : x \in Int
  OBVIOUS
<1>1. {j \in S : j <= m} = {j \in S : j <= i} \union {m}
  <2>1. ASSUME NEW j \in S PROVE j <= m <=> (j <= i \/ j = m)
    BY <1>0
  <2> QED BY <1>0, <2>1
<1>2. m \notin {j \in S : j <= i}
  BY <1>0
<1>3. IsFiniteSet({j \in S : j <= i})
  BY RankFinite
<1> QED BY <1>1, <1>2, <1>3, FS_AddElement DEF Rank

\* Every rank from 1 to the size of S is that of an element of S.
LEMMA RankExists ==
    ASSUME NEW n \in Nat, NEW S \in SUBSET (1 .. n), NEW k \in 1 .. Cardinality(S)
    PROVE  \E i \in S : Rank(S, i) = k
<1> DEFINE Bad == {x \in Nat : x \in 1 .. Cardinality(S) /\ ~\E i \in S : Rank(S, i) = x}
<1> SUFFICES ASSUME Bad # {} PROVE FALSE
  BY RankFinite
<1>1. PICK b \in Bad : \A x \in Bad : b <= x
  <2>1. Bad \in SUBSET Nat
    OBVIOUS
  <2> HIDE DEF Bad
  <2> QED BY <2>1, LeastNatural
<1>2. b \in 1 .. Cardinality(S) /\ ~\E i \in S : Rank(S, i) = b
  OBVIOUS
<1>3. \E i \in 0 .. n : Rank(S, i) = b - 1
  <2>1. CASE b = 1
    <3>1. {j \in S : j <= 0} = {}
      <4>1. \A j \in S : j \in Int /\ 1 <= j
        OBVIOUS
      <4>2. \A j \in S : ~(j <= 0)
        BY <4>1
      <4> QED BY <4>2
    <3>2. Rank(S, 0) = 0
      BY <3>1, FS_EmptySet DEF Rank
    <3> QED BY <2>1, <3>2
  <2>2. CASE b # 1
    <3>0. b \in Nat /\ Cardinality(S) \in Nat
      BY RankFinite
    <3>1. b - 1 \in Nat /\ b - 1 \in 1 .. Cardinality(S) /\ ~(b <= b - 1)
      BY <1>2, <2>2, <3>0
    <3>2. b - 1 \notin Bad
      BY <1>1, <3>1
    <3>3. \E i \in S : Rank(S, i) = b - 1
      BY <3>1, <3>2
    <3> QED BY <3>3
  <2> QED BY <2>1, <2>2
<1>4. PICK i \in 0 .. n : Rank(S, i) = b - 1
  BY <1>3
<1>5. {x \in S : i < x} # {}
  <2> SUFFICES ASSUME \A x \in S : ~(i < x) PROVE FALSE
    OBVIOUS
  <2>0. i \in Int /\ \A x \in S : x \in Int
    OBVIOUS
  <2>1. {j \in S : j <= i} = S
    <3>1. \A x \in S : x <= i
      BY <2>0
    <3> QED BY <3>1
  <2>2. Rank(S, i) = Cardinality(S)
    BY <2>1 DEF Rank
  <2> QED BY <1>2, <1>4, <2>2, RankFinite
<1>6. PICK m \in S : i < m /\ \A x \in S : i < x => m <= x
  <2>1. {x \in S : i < x} \in SUBSET Nat
    <3>1. \A x \in S : x \in Nat
      OBVIOUS
    <3> QED BY <3>1
  <2>2. \E m \in {x \in S : i < x} : \A x \in {y \in S : i < y} : m <= x
    BY <1>5, <2>1, LeastNatural
  <2> QED BY <2>2
<1>7. Rank(S, m) = b
  BY <1>4, <1>6, RankNext, RankFinite
<1> QED BY <1>2, <1>7

\* An element further back has a higher rank.
LEMMA RankMonotone ==
    ASSUME NEW n \in Nat, NEW S \in SUBSET (1 .. n), NEW i \in S, NEW j \in S, i < j
    PROVE  Rank(S, i) < Rank(S, j)
<1>0. \A x \in S : x \in Int
  OBVIOUS
<1>1. {x \in S : x <= i} \subseteq {x \in S : x <= j}
  <2>1. \A x \in S : x <= i => x <= j
    BY <1>0
  <2> QED BY <2>1
<1>2. j \in {x \in S : x <= j} /\ j \notin {x \in S : x <= i}
  BY <1>0
<1>3. {x \in S : x <= i} # {x \in S : x <= j}
  BY <1>2
<1>4. IsFiniteSet({x \in S : x <= j})
  BY RankFinite
<1>5. Cardinality({x \in S : x <= i}) <= Cardinality({x \in S : x <= j})
  BY <1>1, <1>4, FS_Subset
<1>6. Cardinality({x \in S : x <= i}) # Cardinality({x \in S : x <= j})
  BY <1>1, <1>3, <1>4, FS_Subset
<1>7. Rank(S, i) \in Nat /\ Rank(S, j) \in Nat
  BY RankFinite
<1>8. Rank(S, i) <= Rank(S, j) /\ Rank(S, i) # Rank(S, j)
  BY <1>5, <1>6 DEF Rank
<1> QED BY <1>7, <1>8

\* The place in s that the k-th element of Subsequence(s, S) comes from.
Place(S, k) == CHOOSE i \in S : Cardinality({j \in S : j <= i}) = k

\* Subsequence keeps the elements at the places in S, each of them once and in order.
LEMMA SubsequenceFacts ==
    ASSUME NEW X, NEW s \in Seq(X), NEW S \in SUBSET DOMAIN s
    PROVE  /\ Subsequence(s, S) \in Seq(X)
           /\ Len(Subsequence(s, S)) = Cardinality(S) /\ Cardinality(S) \in Nat
           /\ \A k \in 1 .. Cardinality(S) :
                 Place(S, k) \in S /\ Subsequence(s, S)[k] = s[Place(S, k)]
           /\ \A k, l \in 1 .. Cardinality(S) : k < l => Place(S, k) < Place(S, l)
           /\ \A i \in S : \E k \in 1 .. Cardinality(S) : Subsequence(s, S)[k] = s[i]
<1>1. Len(s) \in Nat /\ DOMAIN s = 1 .. Len(s) /\ \A i \in 1 .. Len(s) : s[i] \in X
  OBVIOUS
<1>2. S \in SUBSET (1 .. Len(s)) /\ Cardinality(S) \in Nat /\ IsFiniteSet(S)
  BY <1>1, RankFinite
<1>3. ASSUME NEW k \in 1 .. Cardinality(S)
      PROVE  Place(S, k) \in S /\ Rank(S, Place(S, k)) = k
  <2>1. \E i \in S : Rank(S, i) = k
    BY <1>1, <1>2, RankExists
  <2> QED BY <2>1 DEF Place, Rank
<1>4. Subsequence(s, S) = [k \in 1 .. Cardinality(S) |-> s[Place(S, k)]]
  BY DEF Subsequence, Place
<1>5. \A k \in 1 .. Cardinality(S) : s[Place(S, k)] \in X
  BY <1>1, <1>2, <1>3
<1>6. Subsequence(s, S) \in Seq(X) /\ Len(Subsequence(s, S)) = Cardinality(S)
  BY <1>2, <1>4, <1>5
<1>7. ASSUME NEW k \in 1 .. Cardinality(S), NEW l \in 1 .. Cardinality(S), k < l
      PROVE  Place(S, k) < Place(S, l)
  <2>1. /\ Place(S, k) \in Nat /\ Place(S, l) \in Nat
        /\ Place(S, k) \in S /\ Place(S, l) \in S
        /\ Rank(S, Place(S, k)) = k /\ Rank(S, Place(S, l)) = l
    BY <1>2, <1>3
  <2>2. CASE Place(S, l) < Place(S, k)
    <3>1. Rank(S, Place(S, l)) < Rank(S, Place(S, k))
      BY <1>1, <1>2, <2>1, <2>2, RankMonotone
    <3> QED BY <1>2, <1>7, <2>1, <3>1
  <2>3. CASE Place(S, l) = Place(S, k)
    BY <1>2, <1>7, <2>1, <2>3
  <2> QED BY <2>1, <2>2, <2>3
<1>8. ASSUME NEW i \in S
      PROVE  \E k \in 1 .. Cardinality(S) : Subsequence(s, S)[k] = s[i]
  <2>1. Rank(S, i) \in 1 .. Cardinality(S)
    <3>1. {j \in S : j <= i} \subseteq S /\ i \in {j \in S : j <= i}
      BY <1>2
    <3>2. Cardinality({j \in S : j <= i}) <= Cardinality(S)
      BY <1>2, <3>1, FS_Subset
    <3>3. IsFiniteSet({j \in S : j <= i}) /\ Cardinality({j \in S : j <= i}) \in Nat
      BY <1>2, <3>1, FS_Subset, FS_CardinalityType
    <3>4. Cardinality({j \in S : j <= i}) # 0
      BY <3>1, <3>3, FS_EmptySet
    <3> QED BY <1>2, <3>2, <3>3, <3>4 DEF Rank
  <2>2. Place(S, Rank(S, i)) = i
    <3>1. /\ Place(S, Rank(S, i)) \in S
          /\ Rank(S, Place(S, Rank(S, i))) = Rank(S, i)
      BY <1>3, <2>1
    <3>2. Place(S, Rank(S, i)) \in Nat /\ i \in Nat
      BY <1>2, <3>1
    <3>3. CASE Place(S, Rank(S, i)) < i
      <4>1. Rank(S, Place(S, Rank(S, i))) < Rank(S, i)
        BY <1>1, <1>2, <3>1, <3>3, RankMonotone
      <4> QED BY <2>1, <3>1, <4>1
    <3>4. CASE i < Place(S, Rank(S, i))
      <4>1. Rank(S, i) < Rank(S, Place(S, Rank(S, i)))
        BY <1>1, <1>2, <3>1, <3>4, RankMonotone
      <4> QED BY <2>1, <3>1, <4>1
    <3> QED BY <3>2, <3>3, <3>4
  <2> QED BY <1>4, <2>1, <2>2
<1> QED BY <1>2, <1>3, <1>4, <1>6, <1>7, <1>8

----------------------------------------------------------------------------
(* Sums *)

\* A sum stays below any bound that grows with every number by at least that number.
LEMMA TotalBound ==
    ASSUME NEW s \in Seq(Nat), NEW w \in [0 .. Len(s) -> Nat],
           \A i \in 1 .. Len(s) : w[i - 1] + s[i] <= w[i]
    PROVE  Total(s) \in Nat /\ Total(s) <= w[Len(s)]
<1> DEFINE K == Len(s)
           Summed(k, f) == f = [i \in 0 .. k |-> IF i = 0 THEN 0 ELSE f[i - 1] + s[i]]
           sum == CHOOSE f : Summed(K, f)
<1>1. Total(s) = sum[K]
  BY DEF Total
<1>2. K \in Nat /\ \A i \in 1 .. K : s[i] \in Nat
  OBVIOUS
<1>3. \E f : Summed(K, f)
  <2> DEFINE T == {k \in Nat : \E f : Summed(k, f)}
  <2>1. 0 \in T
    <3>1. \A i \in 0 .. 0 : i = 0
      OBVIOUS
    <3>2. Summed(0, [i \in 0 .. 0 |-> 0])
      BY <3>1
    <3> QED BY <3>2
  <2>2. ASSUME NEW k \in Nat, k \in T PROVE k + 1 \in T
    <3>1. PICK f : Summed(k, f)
      BY <2>2
    <3> DEFINE g == [i \in 0 .. k + 1 |-> IF i <= k THEN f[i] ELSE f[k] + s[i]]
    <3>2. ASSUME NEW i \in 0 .. k + 1
          PROVE  g[i] = IF i = 0 THEN 0 ELSE g[i - 1] + s[i]
      <4>1. CASE i <= k
        <5>1. i \in 0 .. k /\ g[i] = f[i]
          BY <4>1
        <5>2. f[i] = IF i = 0 THEN 0 ELSE f[i - 1] + s[i]
          BY <3>1, <5>1
        <5>3. CASE i = 0
          BY <5>1, <5>2, <5>3
        <5>4. CASE i # 0
          <6>1. i - 1 \in 0 .. k + 1 /\ i - 1 <= k
            BY <4>1, <5>4
          <6>2. g[i - 1] = f[i - 1]
            BY <6>1
          <6> QED BY <5>1, <5>2, <5>4, <6>2
        <5> QED BY <5>3, <5>4
      <4>2. CASE ~(i <= k)
        <5>1. i # 0 /\ i - 1 = k /\ k \in 0 .. k + 1 /\ k <= k
          BY <4>2
        <5>2. g[k] = f[k] /\ g[i] = f[k] + s[i]
          BY <4>2, <5>1
        <5> QED BY <5>1, <5>2
      <4> QED BY <4>1, <4>2
    <3>3. Summed(k + 1, g)
      <4>1. g = [i \in 0 .. k + 1 |-> g[i]]
        OBVIOUS
      <4> HIDE DEF g
      <4> QED BY <3>2, <4>1
    <3>4. \E h : Summed(k + 1, h)
      BY <3>3
    <3> HIDE DEF Summed
    <3> QED BY <3>4
  <2> HIDE DEF Summed
  <2>3. K \in T
    <3>1. \A m \in 0 .. K - 1 : m \in T => m + 1 \in T
      BY <1>2, <2>2
    <3> HIDE DEF T, K
    <3>2. \A m \in 0 .. K : m \in T
      BY <1>2, <2>1, <3>1, IntervalInduction
    <3> QED BY <1>2, <3>2
  <2> QED BY <2>3
<1>4. sum = [i \in 0 .. K |-> IF i = 0 THEN 0 ELSE sum[i - 1] + s[i]]
  <2> HIDE DEF Summed
  <2>1. Summed(K, sum)
    BY <1>3
  <2> QED BY <2>1 DEF Summed
<1> HIDE DEF sum
<1>5. sum[0] = 0 /\ \A i \in 1 .. K : sum[i] = sum[i - 1] + s[i]
  <2>1. 0 \in 0 .. K /\ \A i \in 1 .. K : i \in 0 .. K /\ i # 0
    BY <1>2
  <2> QED BY <1>4, <2>1
<1> DEFINE T == {i \in Nat : i <= K => sum[i] \in Nat /\ sum[i] <= w[i]}
<1>6. 0 \in T
  <2>1. w[0] \in Nat
    BY <1>2
  <2> QED BY <1>5, <2>1
<1>7. ASSUME NEW i \in 0 .. K - 1, i \in T PROVE i + 1 \in T
  <2>1. i \in Nat /\ i <= K /\ i + 1 \in 1 .. K /\ i + 1 - 1 = i /\ i + 1 \in Nat
    BY <1>2
  <2>2. sum[i] \in Nat /\ sum[i] <= w[i] /\ w[i] \in Nat /\ w[i + 1] \in Nat
    <3>1. i \in 0 .. Len(s) /\ i + 1 \in 0 .. Len(s)
      BY <1>2, <2>1
    <3>2. w[i] \in Nat /\ w[i + 1] \in Nat
      BY <3>1
    <3>3. sum[i] \in Nat /\ sum[i] <= w[i]
      BY <1>7, <2>1
    <3> QED BY <3>2, <3>3
  <2>3. sum[i + 1] = sum[i] + s[i + 1] /\ s[i + 1] \in Nat /\ w[i] + s[i + 1] <= w[i + 1]
    BY <1>2, <1>5, <2>1
  <2>4. sum[i + 1] \in Nat /\ sum[i + 1] <= w[i + 1]
    BY <2>2, <2>3, SMTT(30)
  <2> QED BY <2>1, <2>4
<1>8. K \in T
  <2>1. \A i \in 0 .. K : i \in T
    <3> HIDE DEF T, K
    <3> QED BY <1>2, <1>6, <1>7, IntervalInduction
  <2> QED BY <1>2, <2>1
<1>9. sum[K] \in Nat /\ sum[K] <= w[K]
  BY <1>2, <1>8
<1> QED BY <1>1, <1>9

\* Numbers of at most b each add up to at most b for each of them.
LEMMA TotalEach ==
    ASSUME NEW s \in Seq(Nat), NEW b \in Nat, \A i \in 1 .. Len(s) : s[i] <= b
    PROVE  Total(s) \in Nat /\ Total(s) <= Len(s) * b
<1> DEFINE w == [i \in 0 .. Len(s) |-> i * b]
<1>1. Len(s) \in Nat /\ \A i \in 1 .. Len(s) : s[i] \in Nat
  OBVIOUS
<1>2. \A i \in Nat : i * b \in Nat
  OBVIOUS
<1>3. w \in [0 .. Len(s) -> Nat]
  BY <1>1, <1>2
<1>4. ASSUME NEW i \in 1 .. Len(s) PROVE w[i - 1] + s[i] <= w[i]
  <2>1. i \in 0 .. Len(s) /\ i - 1 \in 0 .. Len(s)
    BY <1>1
  <2>2. (i - 1) * b = i * b - b
    BY <1>1
  <2>3. i * b \in Nat /\ s[i] \in Nat /\ s[i] <= b
    BY <1>1, <1>2
  <2> QED BY <2>1, <2>2, <2>3
<1>5. w[Len(s)] = Len(s) * b
  BY <1>1
<1> HIDE DEF w
<1>6. Total(s) \in Nat /\ Total(s) <= w[Len(s)]
  BY <1>3, <1>4, TotalBound
<1> QED BY <1>5, <1>6

=============================================================================
