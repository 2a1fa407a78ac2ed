------------------------ MODULE LatencyStatsProofs ------------------------
(***************************************************************************)
(* Proofs about the operators of LatencyStats, for any samples.            *)
(*                                                                         *)
(* The percentiles are computed from a rank in the sorted copy; IsPercen-  *)
(* tile counts the samples as they were recorded.  Two facts lead from one *)
(* to the other: the copy is a permutation of the samples, so a set of     *)
(* samples is counted the same in both, and it is ascending, so the        *)
(* samples below a value are a first part of it.  That there is a sorted   *)
(* copy at all is shown by the place a stable sort would give each sample, *)
(* without induction.                                                      *)
(***************************************************************************)
EXTENDS LatencyStats, FiniteSetTheorems, WellFoundedInduction, TLAPS

\* The positions of n samples.
LEMMA Positions == ASSUME NEW n \in Nat
                   PROVE  IsFiniteSet(1 .. n) /\ Cardinality(1 .. n) = n
<1>1. 1 \in Int /\ n \in Int /\ (1 > n => n = 0) /\ n - 1 + 1 = n
  OBVIOUS
<1> QED BY <1>1, FS_Interval

-----------------------------------------------------------------------------
(* Sorting *)

\* The positions of the samples that a stable sort puts in front of the one at k.
Before(samples, k) ==
  {j \in DOMAIN samples : \/ samples[j] < samples[k]
                          \/ samples[j] = samples[k] /\ j < k}

\* They are fewer than the samples, as k is not among them.
LEMMA BeforeCounts ==
  ASSUME NEW samples \in Seq(Nat), NEW k \in DOMAIN samples
  PROVE  /\ IsFiniteSet(Before(samples, k))
         /\ Cardinality(Before(samples, k)) \in 0 .. Len(samples) - 1
<1>1. DOMAIN samples = 1 .. Len(samples) /\ Len(samples) \in Nat
  OBVIOUS
<1>2. IsFiniteSet(DOMAIN samples) /\ Cardinality(DOMAIN samples) = Len(samples)
  BY <1>1, Positions
<1>3. k \notin Before(samples, k) /\ Before(samples, k) \subseteq DOMAIN samples
  <2>1. samples[k] \in Nat /\ k \in Nat
    BY <1>1
  <2> QED BY <2>1 DEF Before
<1> DEFINE B == Before(samples, k)
<1>4. IsFiniteSet(B \cup {k}) /\ IsFiniteSet(B)
  BY <1>2, <1>3, FS_Subset
<1>5. Cardinality(B \cup {k}) = Cardinality(B) + 1
  BY <1>3, <1>4, FS_AddElement
<1>6. Cardinality(B \cup {k}) <= Len(samples)
  <2>1. B \cup {k} \subseteq DOMAIN samples
    BY <1>3
  <2> HIDE DEF B
  <2> QED BY <1>2, <2>1, FS_Subset
<1>7. Cardinality(B) \in Nat
  BY <1>4, FS_CardinalityType
<1> HIDE DEF B
<1>8. Cardinality(B) \in 0 .. Len(samples) - 1
  BY <1>1, <1>5, <1>6, <1>7
<1> QED BY <1>4, <1>8 DEF B

\* A sample that comes later has more in front of it.
LEMMA BeforeIncreases ==
  ASSUME NEW samples \in Seq(Nat), NEW j \in DOMAIN samples, NEW k \in DOMAIN samples,
         samples[j] < samples[k] \/ (samples[j] = samples[k] /\ j < k)
  PROVE  Cardinality(Before(samples, j)) < Cardinality(Before(samples, k))
<1> DEFINE B == Before(samples, j)
           C == Before(samples, k)
<1>1. /\ \A m \in DOMAIN samples : samples[m] \in Nat /\ m \in Nat
      /\ IsFiniteSet(B) /\ IsFiniteSet(C)
      /\ Cardinality(B) \in Nat /\ Cardinality(C) \in Nat
  BY BeforeCounts
<1>2. j \notin B /\ B \cup {j} \subseteq C
  BY <1>1 DEF Before
<1> HIDE DEF B, C
<1>3. Cardinality(B \cup {j}) = Cardinality(B) + 1
  BY <1>1, <1>2, FS_AddElement
<1>4. Cardinality(B \cup {j}) <= Cardinality(C)
  BY <1>1, <1>2, FS_Subset
<1>5. Cardinality(B) < Cardinality(C)
  BY <1>1, <1>3, <1>4
<1> QED BY <1>5 DEF B, C

\* The samples can be sorted, what std::sort relies on: the place of a sample is one
\* more than the number of samples in front of it.
LEMMA Sortable ==
  ASSUME NEW samples \in Seq(Nat)
  PROVE  \E q \in [DOMAIN samples -> DOMAIN samples] : Sorts(q, samples)
<1> DEFINE D == DOMAIN samples
           place == [k \in D |-> Cardinality(Before(samples, k)) + 1]
<1>1. D = 1 .. Len(samples) /\ Len(samples) \in Nat
  OBVIOUS
<1>2. \A k \in D : samples[k] \in Nat /\ k \in Nat /\ Cardinality(Before(samples, k)) \in Nat
  BY <1>1, BeforeCounts
<1>3. place \in [D -> D]
  <2>1. ASSUME NEW k \in D PROVE Cardinality(Before(samples, k)) + 1 \in D
    <3>1. Cardinality(Before(samples, k)) \in 0 .. Len(samples) - 1
      BY BeforeCounts
    <3> QED BY <1>1, <3>1
  <2> QED BY <2>1
<1>4. \A j, k \in D : samples[j] < samples[k] => place[j] < place[k]
  BY <1>2, BeforeIncreases
<1>5. \A j, k \in D : j # k => place[j] # place[k]
  <2>1. \A j, k \in D : j # k => \/ samples[j] < samples[k] \/ samples[k] < samples[j]
                                 \/ samples[j] = samples[k] /\ (j < k \/ k < j)
    BY <1>2
  <2> QED BY <1>2, <2>1, BeforeIncreases
<1> HIDE DEF place
<1>6. place \in Injection(D, D)
  BY <1>3, <1>5 DEF Injection, IsInjective
<1>7. place \in Surjection(D, D)
  <2>1. IsFiniteSet(D)
    BY <1>1, Positions
  <2> QED BY <1>6, <2>1, FS_Injection
<1> DEFINE q == [m \in D |-> CHOOSE k \in D : place[k] = m]
<1>8. \A m \in D : q[m] \in D /\ place[q[m]] = m
  BY <1>7 DEF Surjection
<1>9. q \in [D -> D]
  BY <1>8
<1> HIDE DEF q
<1>10. Sorts(q, samples)
  <2> SUFFICES ASSUME NEW j \in D, NEW k \in D, j < k
               PROVE  q[j] # q[k] /\ samples[q[j]] <= samples[q[k]]
    BY DEF Sorts
  <2>1. q[j] \in D /\ q[k] \in D /\ place[q[j]] = j /\ place[q[k]] = k /\ ~(k < j) /\ j # k
    BY <1>1, <1>8
  <2>2. ~(samples[q[k]] < samples[q[j]])
    BY <1>4, <2>1
  <2>3. samples[q[j]] \in Nat /\ samples[q[k]] \in Nat
    BY <1>2, <2>1
  <2> QED BY <2>1, <2>2, <2>3
<1> QED BY <1>9, <1>10

\* What std::sort leaves: a permutation of the samples, in ascending order.
LEMMA SortedFacts ==
  ASSUME NEW samples \in Seq(Nat)
  PROVE  /\ Sorted(samples) \in Seq(Nat) /\ Len(Sorted(samples)) = Len(samples)
         /\ \A j, k \in DOMAIN samples : j <= k => Sorted(samples)[j] <= Sorted(samples)[k]
         /\ \E p \in Bijection(DOMAIN samples, DOMAIN samples) :
              \A k \in DOMAIN samples : Sorted(samples)[k] = samples[p[k]]
<1> DEFINE D == DOMAIN samples
<1>1. D = 1 .. Len(samples) /\ Len(samples) \in Nat /\ \A k \in D : samples[k] \in Nat
  OBVIOUS
<1>2. PICK p \in [D -> D] : Sorts(p, samples) /\ Sorted(samples) = [k \in D |-> samples[p[k]]]
  <2> DEFINE c == CHOOSE q \in [D -> D] : Sorts(q, samples)
  <2>1. c \in [D -> D] /\ Sorts(c, samples)
    BY Sortable
  <2>2. Sorted(samples) = [k \in D |-> samples[c[k]]]
    BY DEF Sorted
  <2> HIDE DEF c
  <2> QED BY <2>1, <2>2
<1>3. p \in Bijection(D, D)
  <2>1. \A j, k \in D : j # k => p[j] # p[k]
    <3>1. \A j, k \in D : j # k => j < k \/ k < j
      BY <1>1
    <3> QED BY <1>2, <3>1 DEF Sorts
  <2>2. p \in Injection(D, D)
    BY <1>2, <2>1 DEF Injection, IsInjective
  <2>3. p \in Surjection(D, D)
    <3>1. IsFiniteSet(D)
      BY <1>1, Positions
    <3> QED BY <2>2, <3>1, FS_Injection
  <2> QED BY <2>2, <2>3 DEF Bijection
<1>4. Sorted(samples) \in Seq(Nat) /\ Len(Sorted(samples)) = Len(samples)
  <2>1. [k \in 1 .. Len(samples) |-> samples[p[k]]] \in Seq(Nat)
    BY <1>1, <1>2
  <2>2. Len([k \in 1 .. Len(samples) |-> samples[p[k]]]) = Len(samples)
    BY <1>1
  <2> QED BY <1>1, <1>2, <2>1, <2>2
<1>5. \A k \in D : Sorted(samples)[k] = samples[p[k]]
  BY <1>2
<1>6. \A j, k \in D : j <= k => Sorted(samples)[j] <= Sorted(samples)[k]
  <2> SUFFICES ASSUME NEW j \in D, NEW k \in D, j <= k
               PROVE  samples[p[j]] <= samples[p[k]]
    BY <1>5
  <2>1. CASE j = k
    BY <1>1, <1>2, <2>1
  <2>2. CASE j # k
    BY <1>1, <1>2, <2>2 DEF Sorts
  <2> QED BY <2>1, <2>2
<1> QED BY <1>3, <1>4, <1>5, <1>6

-----------------------------------------------------------------------------
(* Percentiles *)

\* A set of positions of samples is as large as the set of positions in the sorted
\* copy.
LEMMA CountsAreKept ==
  ASSUME NEW D, IsFiniteSet(D), NEW p \in Bijection(D, D), NEW S \in SUBSET D
  PROVE  Cardinality(S) = Cardinality({k \in D : p[k] \in S})
<1> DEFINE T == {k \in D : p[k] \in S}
           f == [k \in T |-> p[k]]
<1>1. p \in [D -> D] /\ (\A j, k \in D : p[j] = p[k] => j = k)
      /\ \A d \in D : \E k \in D : p[k] = d
  BY DEF Bijection, Injection, Surjection, IsInjective
<1>2. f \in [T -> S] /\ (\A j, k \in T : f[j] = f[k] => j = k)
      /\ \A d \in S : \E k \in T : f[k] = d
  BY <1>1
<1>3. f \in Bijection(T, S)
  <2> HIDE DEF f, T
  <2> QED BY <1>2 DEF Bijection, Injection, Surjection, IsInjective
<1>4. IsFiniteSet(T)
  BY FS_Subset
<1> HIDE DEF f, T
<1>5. Cardinality(S) = Cardinality(T)
  BY <1>3, <1>4, FS_Bijection DEF ExistsBijection
<1> QED BY <1>5 DEF T

\* The places of the sorted copy whose samples are below v, or up to v.
SortedBelow(samples, v) == {k \in DOMAIN samples : 1000 * Sorted(samples)[k] < v}
SortedUpTo(samples, v) == {k \in DOMAIN samples : 1000 * Sorted(samples)[k] <= v}

\* Below and UpTo count the samples, and the sorted copy as well.
LEMMA CountsOfSorted ==
  ASSUME NEW samples \in Seq(Nat), NEW v
  PROVE  /\ Below(samples, v) = Cardinality(SortedBelow(samples, v))
         /\ UpTo(samples, v) = Cardinality(SortedUpTo(samples, v))
<1> DEFINE D == DOMAIN samples
           s == Sorted(samples)
           below == {k \in D : 1000 * s[k] < v}
           upTo == {k \in D : 1000 * s[k] <= v}
           S == {k \in D : 1000 * samples[k] < v}
           T == {k \in D : 1000 * samples[k] <= v}
<1>1. IsFiniteSet(D)
  <2>1. D = 1 .. Len(samples) /\ Len(samples) \in Nat
    OBVIOUS
  <2> QED BY <2>1, Positions
<1>2. PICK p \in Bijection(D, D) : \A k \in D : s[k] = samples[p[k]]
  BY SortedFacts
<1>3. \A k \in D : p[k] \in D
  BY DEF Bijection, Injection
<1>4. ASSUME NEW k \in D PROVE (k \in below <=> p[k] \in S) /\ (k \in upTo <=> p[k] \in T)
  <2>1. p[k] \in D /\ s[k] = samples[p[k]]
    BY <1>2, <1>3
  <2> HIDE DEF s, D
  <2>2. (k \in below <=> 1000 * s[k] < v) /\ (k \in upTo <=> 1000 * s[k] <= v)
    OBVIOUS
  <2>3. /\ p[k] \in S <=> 1000 * samples[p[k]] < v
        /\ p[k] \in T <=> 1000 * samples[p[k]] <= v
    BY <2>1
  <2> QED BY <2>1, <2>2, <2>3
<1>5. S \in SUBSET D /\ T \in SUBSET D /\ below \subseteq D /\ upTo \subseteq D
  OBVIOUS
<1>6. Below(samples, v) = Cardinality(S) /\ UpTo(samples, v) = Cardinality(T)
  BY DEF Below, UpTo
<1> HIDE DEF S, T, below, upTo, D
<1>7. {k \in D : p[k] \in S} = below /\ {k \in D : p[k] \in T} = upTo
  BY <1>4, <1>5
<1>8. Cardinality(S) = Cardinality(below) /\ Cardinality(T) = Cardinality(upTo)
  BY <1>1, <1>5, <1>7, CountsAreKept
<1> QED BY <1>6, <1>8 DEF below, upTo, D, SortedBelow, SortedUpTo

\* A set of places is among the first m, or has all of them.
Within(S, m) == S \subseteq 1 .. m
Fills(S, m) == 1 .. m \subseteq S

\* How many places are below v and up to v is bounded by where they lie.
LEMMA SortedCounts ==
  ASSUME NEW samples \in Seq(Nat), NEW v, NEW m, m \in Nat
  PROVE  /\ Cardinality(SortedBelow(samples, v)) \in Nat
         /\ Cardinality(SortedUpTo(samples, v)) \in Nat
         /\ Within(SortedBelow(samples, v), m) => Cardinality(SortedBelow(samples, v)) <= m
         /\ Fills(SortedUpTo(samples, v), m) => m <= Cardinality(SortedUpTo(samples, v))
<1> DEFINE D == DOMAIN samples
           M == 1 .. m
           below == SortedBelow(samples, v)
           upTo == SortedUpTo(samples, v)
<1>1. IsFiniteSet(D)
  <2>1. D = 1 .. Len(samples) /\ Len(samples) \in Nat
    OBVIOUS
  <2> QED BY <2>1, Positions
<1>2. IsFiniteSet(M) /\ Cardinality(M) = m
  BY Positions
<1>3. below \subseteq D /\ upTo \subseteq D
  BY DEF SortedBelow, SortedUpTo
<1> HIDE DEF D, M, below, upTo
<1>4. IsFiniteSet(below) /\ IsFiniteSet(upTo)
  BY <1>1, <1>3, FS_Subset
<1>5. below \subseteq M => Cardinality(below) <= m
  BY <1>2, FS_Subset
<1>6. M \subseteq upTo => m <= Cardinality(upTo)
  BY <1>2, <1>4, FS_Subset
<1>7. Cardinality(below) \in Nat /\ Cardinality(upTo) \in Nat
  BY <1>4, FS_CardinalityType
<1> QED BY <1>5, <1>6, <1>7 DEF M, below, upTo, Within, Fills

\* The rank and the interpolated value are products of two variables, which the
\* provers take badly: they get names, and two lemmas say what is needed of them.
Rank(n, pct) == pct * (n - 1)
Mix(a, b, frac) == a * (1000 - frac) + b * frac

AtRank(samples, rank, v) ==
  1000 * Below(samples, v) < rank + 1000 /\ rank < 1000 * UpTo(samples, v)

Interpolated(sorted, rank) ==
  LET lower == rank \div 1000
      upper == lower + 1
      frac == rank % 1000
  IN  IF upper >= Len(sorted) THEN 1000 * Last(sorted)
      ELSE Mix(sorted[lower + 1], sorted[upper + 1], frac)

\* percentile() and IsPercentile in terms of the rank.
LEMMA InTermsOfRank ==
  ASSUME NEW samples, NEW sorted, NEW pct, NEW v
  PROVE  /\ Percentile(sorted, pct) = Interpolated(sorted, Rank(Len(sorted), pct))
         /\ IsPercentile(samples, pct, v) <=> AtRank(samples, Rank(Len(samples), pct), v)
BY DEF Percentile, Interpolated, Rank, Mix, IsPercentile, AtRank

\* The rank lies within the sorted copy.
LEMMA RankType ==
  ASSUME NEW n \in Nat, n # 0, NEW pct \in Nat, pct < 1000
  PROVE  Rank(n, pct) \in Nat /\ Rank(n, pct) <= 1000 * (n - 1)
BY DEF Rank

\* Division with rest.
LEMMA Division ==
  ASSUME NEW r \in Nat
  PROVE  LET l == r \div 1000
             f == r % 1000
         IN  l \in Nat /\ f \in Nat /\ f < 1000 /\ r = 1000 * l + f
OBVIOUS

\* The interpolated value lies between its neighbours.
LEMMA MixIsBetween ==
  ASSUME NEW a, NEW b, NEW f, a \in Nat, b \in Nat, a <= b, f \in Nat, f < 1000
  PROVE  /\ Mix(a, b, f) \in Nat /\ 1000 * a <= Mix(a, b, f) /\ Mix(a, b, f) <= 1000 * b
         /\ f = 0 => Mix(a, b, f) = 1000 * a
BY DEF Mix

\* v is at the l-th sample of the sorted copy, or above it and not above the next:
\* then it is of a rank from there up to the next.
LEMMA ByRank ==
  ASSUME NEW samples \in Seq(Nat), NEW v \in Nat, NEW l \in Nat, l < Len(samples),
         NEW rank \in Nat, 1000 * l <= rank, rank < 1000 * (l + 1),
         \/ v = 1000 * Sorted(samples)[l + 1]
         \/ /\ 1000 * l < rank /\ l + 2 <= Len(samples)
            /\ 1000 * Sorted(samples)[l + 1] <= v /\ v <= 1000 * Sorted(samples)[l + 2]
  PROVE  AtRank(samples, rank, v)
<1> DEFINE D == DOMAIN samples
           n == Len(samples)
           s == Sorted(samples)
           below == SortedBelow(samples, v)
           upTo == SortedUpTo(samples, v)
<1>1. n \in Nat /\ D = 1 .. n /\ IsFiniteSet(D)
  BY Positions
<1>2. s \in Seq(Nat) /\ Len(s) = n
  BY SortedFacts
<1>3. \A j, k \in 1 .. n : j <= k => s[j] <= s[k]
  <2>1. \A j, k \in D : j <= k => s[j] <= s[k]
    BY SortedFacts
  <2> HIDE DEF D, n, s
  <2> QED BY <1>1, <2>1
<1>4. \A k \in 1 .. n : s[k] \in Nat
  BY <1>2
<1>5. Below(samples, v) = Cardinality(below) /\ UpTo(samples, v) = Cardinality(upTo)
  BY CountsOfSorted
<1>6. /\ below \subseteq D /\ \A k \in below : 1000 * s[k] < v
      /\ upTo \subseteq D /\ \A k \in D : 1000 * s[k] <= v => k \in upTo
  BY DEF SortedBelow, SortedUpTo
<1>7. \/ v = 1000 * s[l + 1]
      \/ /\ 1000 * l < rank /\ l + 2 <= n
         /\ 1000 * s[l + 1] <= v /\ v <= 1000 * s[l + 2]
  OBVIOUS
<1> HIDE DEF D, n, s, below, upTo
<1>8. l < n /\ l + 1 \in Nat /\ 1000 * s[l + 1] <= v
  <2>1. l < n
    BY DEF n
  <2>2. l + 1 \in 1 .. n
    BY <1>1, <2>1
  <2>3. s[l + 1] \in Nat
    BY <1>4, <2>2
  <2> QED BY <1>7, <2>1, <2>3
<1>9. /\ \A k \in 1 .. l + 1 : k \in 1 .. n /\ 1000 * s[k] <= v
      /\ v = 1000 * s[l + 1] => \A k \in 1 .. n : 1000 * s[k] < v => k \in 1 .. l
      /\ l + 2 <= n /\ v <= 1000 * s[l + 2]
           => \A k \in 1 .. n : 1000 * s[k] < v => k \in 1 .. l + 1
  <2>1. l + 1 \in 1 .. n
    BY <1>1, <1>8
  <2>2. ASSUME NEW k \in 1 .. l + 1 PROVE k \in 1 .. n /\ 1000 * s[k] <= v
    <3>1. k \in 1 .. n /\ k <= l + 1
      BY <1>1, <1>8
    <3>2. s[k] <= s[l + 1] /\ s[k] \in Nat /\ s[l + 1] \in Nat
      BY <1>3, <1>4, <2>1, <3>1
    <3> QED BY <1>8, <3>1, <3>2
  <2>3. ASSUME v = 1000 * s[l + 1], NEW k \in 1 .. n, 1000 * s[k] < v
        PROVE  k \in 1 .. l
    <3>1. s[k] \in Nat /\ s[l + 1] \in Nat
      BY <1>4, <2>1
    <3>2. ~(s[l + 1] <= s[k])
      BY <2>3, <3>1
    <3>3. ~(l + 1 <= k)
      BY <1>3, <2>1, <3>2
    <3> QED BY <1>1, <3>3
  <2>4. ASSUME l + 2 <= n, v <= 1000 * s[l + 2], NEW k \in 1 .. n, 1000 * s[k] < v
        PROVE  k \in 1 .. l + 1
    <3>1. l + 2 \in 1 .. n
      BY <1>1, <2>4
    <3>2. s[k] \in Nat /\ s[l + 2] \in Nat
      BY <1>4, <3>1
    <3>3. ~(s[l + 2] <= s[k])
      BY <2>4, <3>2
    <3>4. ~(l + 2 <= k)
      BY <1>3, <3>1, <3>3
    <3> QED BY <1>1, <3>4
  <2> QED BY <2>2, <2>3, <2>4
<1>10. Cardinality(upTo) \in Nat /\ l + 1 <= Cardinality(upTo)
  <2> DEFINE m == l + 1
  <2>1. Fills(upTo, m) /\ m \in Nat
    BY <1>1, <1>6, <1>8, <1>9 DEF Fills
  <2> HIDE DEF m
  <2>2. Cardinality(upTo) \in Nat /\ m <= Cardinality(upTo)
    BY <2>1, SortedCounts DEF upTo
  <2> QED BY <2>2 DEF m
<1>11. Cardinality(below) \in Nat /\ 1000 * Cardinality(below) < rank + 1000
  <2>1. CASE v = 1000 * s[l + 1]
    <3>1. Within(below, l)
      BY <1>1, <1>6, <1>9, <2>1 DEF Within
    <3>2. Cardinality(below) \in Nat /\ Cardinality(below) <= l
      BY <3>1, SortedCounts DEF below
    <3> QED BY <3>2
  <2>2. CASE 1000 * l < rank /\ l + 2 <= n /\ v <= 1000 * s[l + 2]
    <3> DEFINE m == l + 1
    <3>1. Within(below, m) /\ m \in Nat
      BY <1>1, <1>6, <1>8, <1>9, <2>2 DEF Within
    <3> HIDE DEF m
    <3>2. Cardinality(below) \in Nat /\ Cardinality(below) <= m
      BY <3>1, SortedCounts DEF below
    <3> QED BY <2>2, <3>2 DEF m
  <2> QED BY <1>7, <2>1, <2>2
<1> QED BY <1>5, <1>10, <1>11 DEF AtRank

\* lower and frac of percentile()
Place(rank) == rank \div 1000
Frac(rank) == rank % 1000

\* The place of a rank is one of the sorted copy.
LEMMA PlaceOfRank ==
  ASSUME NEW n \in Nat, NEW rank \in Nat, n # 0, rank <= 1000 * (n - 1)
  PROVE  /\ Place(rank) \in Nat /\ Frac(rank) \in Nat /\ Frac(rank) < 1000 /\ Place(rank) < n
         /\ 1000 * Place(rank) <= rank /\ rank < 1000 * (Place(rank) + 1)
         /\ Frac(rank) # 0 => 1000 * Place(rank) < rank
<1>1. /\ Place(rank) \in Nat /\ Frac(rank) \in Nat /\ Frac(rank) < 1000
      /\ rank = 1000 * Place(rank) + Frac(rank)
  BY Division DEF Place, Frac
<1> QED BY <1>1

\* Both branches of percentile(): the last sample, or between two neighbours.
LEMMA InterpolatedBetween ==
  ASSUME NEW samples \in Seq(Nat), NEW n \in Nat, n # 0, n = Len(samples),
         NEW rank \in Nat, rank <= 1000 * (n - 1)
  PROVE  LET s == Sorted(samples)
             l == Place(rank)
             v == Interpolated(s, rank)
         IN  /\ v \in Nat
             /\ l + 1 >= n \/ Frac(rank) = 0 => v = 1000 * s[l + 1]
             /\ l + 2 <= n => /\ 1000 * s[l + 1] <= v /\ v <= 1000 * s[l + 2]
                              /\ v = Mix(s[l + 1], s[l + 2], Frac(rank))
<1> DEFINE s == Sorted(samples)
           l == Place(rank)
           f == Frac(rank)
<1>1. s \in Seq(Nat) /\ Len(s) = n
  BY SortedFacts
<1>2. DOMAIN samples = 1 .. n /\ \A k \in 1 .. n : s[k] \in Nat
  BY <1>1
<1>3. l \in Nat /\ f \in Nat /\ f < 1000 /\ l < n
  BY PlaceOfRank
<1> HIDE DEF l, f
<1>4. CASE l + 1 >= n
  <2>1. Interpolated(s, rank) = 1000 * s[n]
    BY <1>1, <1>3, <1>4 DEF l, Interpolated, Last, Place
  <2>2. l + 1 = n /\ n \in 1 .. n /\ ~(l + 2 <= n)
    BY <1>3, <1>4
  <2>3. 1000 * s[n] \in Nat
    BY <1>2, <2>2
  <2> QED BY <2>1, <2>2, <2>3 DEF l, f
<1>5. CASE ~(l + 1 >= n)
  <2>1. l + 1 \in 1 .. n /\ l + 2 \in 1 .. n /\ (l + 1) + 1 = l + 2 /\ l + 2 <= n
    BY <1>3, <1>5
  <2>2. Interpolated(s, rank) = Mix(s[l + 1], s[l + 2], f)
    BY <1>1, <1>3, <1>5, <2>1 DEF l, f, Interpolated, Place, Frac
  <2>3. s[l + 1] \in Nat /\ s[l + 2] \in Nat /\ s[l + 1] <= s[l + 2]
    <3>1. \A j, k \in DOMAIN samples : j <= k => s[j] <= s[k]
      BY SortedFacts
    <3>2. l + 1 <= l + 2
      BY <1>3
    <3> HIDE DEF s
    <3> QED BY <1>2, <2>1, <3>1, <3>2
  <2> DEFINE a == s[l + 1]
             b == s[l + 2]
             v == Mix(a, b, f)
  <2> HIDE DEF s
  <2>4. /\ v \in Nat /\ 1000 * a <= v /\ v <= 1000 * b
        /\ f = 0 => v = 1000 * a
    <3>1. a \in Nat /\ b \in Nat /\ a <= b /\ f \in Nat /\ f < 1000
      BY <1>3, <2>3
    <3> HIDE DEF a, b
    <3>2. /\ Mix(a, b, f) \in Nat /\ 1000 * a <= Mix(a, b, f) /\ Mix(a, b, f) <= 1000 * b
          /\ f = 0 => Mix(a, b, f) = 1000 * a
      BY <3>1, MixIsBetween
    <3> QED BY <3>2
  <2> QED BY <1>5, <2>1, <2>2, <2>4 DEF s, l, f
<1> QED BY <1>4, <1>5

\* The interpolated value is of the rank it is computed for.
LEMMA InterpolatedAtRank ==
  ASSUME NEW samples \in Seq(Nat), NEW n \in Nat, n # 0, n = Len(samples),
         NEW rank \in Nat, rank <= 1000 * (n - 1)
  PROVE  AtRank(samples, rank, Interpolated(Sorted(samples), rank))
<1> DEFINE s == Sorted(samples)
           l == Place(rank)
           v == Interpolated(s, rank)
<1>1. /\ v \in Nat
      /\ l + 1 >= n \/ Frac(rank) = 0 => v = 1000 * s[l + 1]
      /\ l + 2 <= n => 1000 * s[l + 1] <= v /\ v <= 1000 * s[l + 2]
  BY InterpolatedBetween
<1>2. /\ l \in Nat /\ l < n /\ 1000 * l <= rank /\ rank < 1000 * (l + 1)
      /\ Frac(rank) # 0 => 1000 * l < rank
  BY PlaceOfRank
<1> HIDE DEF l, v
<1>3. l + 1 >= n \/ l + 2 <= n
  BY <1>2
<1>4. /\ l < Len(samples)
      /\ \/ v = 1000 * Sorted(samples)[l + 1]
         \/ /\ 1000 * l < rank /\ l + 2 <= Len(samples)
            /\ 1000 * Sorted(samples)[l + 1] <= v /\ v <= 1000 * Sorted(samples)[l + 2]
  BY <1>1, <1>2, <1>3
<1>5. AtRank(samples, rank, v)
  BY <1>1, <1>2, <1>4, ByRank
<1> QED BY <1>5 DEF v

\* percentile() of the sorted copy is a percentile of the samples by count: fewer than
\* rank + 1 samples are below it and more than rank are up to it, whatever the samples.
THEOREM PercentileByCount ==
  ASSUME NEW samples \in Seq(Nat), samples # << >>, NEW pct \in Nat, pct < 1000
  PROVE  IsPercentile(samples, pct, Percentile(Sorted(samples), pct))
<1> DEFINE n == Len(samples)
           rank == Rank(n, pct)
<1>1. n \in Nat /\ n # 0
  OBVIOUS
<1>2. rank \in Nat /\ rank <= 1000 * (n - 1)
  <2> HIDE DEF n
  <2> QED BY <1>1, RankType
<1>3. AtRank(samples, rank, Interpolated(Sorted(samples), rank))
  <2> HIDE DEF rank
  <2> QED BY <1>1, <1>2, InterpolatedAtRank
<1>4. Len(Sorted(samples)) = n
  BY SortedFacts
<1> QED BY <1>3, <1>4, InTermsOfRank

\* So is the sample that the benchmark's table of sizes picks by its own index p99_idx,
\* which rounds the rank down and does not interpolate.
THEOREM P99IndexByCount ==
  ASSUME NEW samples \in Seq(Nat), samples # << >>
  PROVE  IsPercentile(samples, 990, 1000 * Sorted(samples)[p99_idx(Sorted(samples)) + 1])
<1> DEFINE n == Len(samples)
           rank == Rank(n, 990)
           s == Sorted(samples)
           l == Place(rank)
           v == 1000 * s[l + 1]
<1>1. n \in Nat /\ n # 0 /\ 990 \in Nat /\ 990 < 1000
  OBVIOUS
<1>2. s \in Seq(Nat) /\ Len(s) = n
  BY SortedFacts
<1>3. rank \in Nat /\ rank <= 1000 * (n - 1)
  BY <1>1, RankType
<1>4. /\ l \in Nat /\ l < n
      /\ 1000 * l <= rank /\ rank < 1000 * (l + 1)
  <2> HIDE DEF rank
  <2> QED BY <1>1, <1>3, PlaceOfRank
<1>5. p99_idx(s) = l
  BY <1>2 DEF p99_idx, Rank, Place
<1>6. v \in Nat
  <2> HIDE DEF l
  <2>1. l + 1 \in 1 .. n
    BY <1>1, <1>4
  <2>2. s[l + 1] \in Nat
    BY <1>2, <2>1
  <2> QED BY <2>2
<1>7. v = 1000 * Sorted(samples)[l + 1]
  OBVIOUS
<1>8. AtRank(samples, rank, v)
  <2> HIDE DEF v, l, rank, s
  <2> QED BY <1>3, <1>4, <1>6, <1>7, ByRank
<1> QED BY <1>5, <1>8, InTermsOfRank

-----------------------------------------------------------------------------
(* The lines of a report: percentiles *)

\* More weight for the greater neighbour.
LEMMA MixGrows ==
  ASSUME NEW a \in Nat, NEW b \in Nat, a <= b, NEW f \in Nat, NEW g \in Nat, f <= g, g < 1000
  PROVE  Mix(a, b, f) <= Mix(a, b, g)
<1>1. PICK d \in Nat, e \in Nat : b = a + d /\ g = f + e
  <2>1. b - a \in Nat /\ g - f \in Nat /\ b = a + (b - a) /\ g = f + (g - f)
    OBVIOUS
  <2> QED BY <2>1
<1>2. \A h \in Nat : Mix(a, a + d, h) = 1000 * a + d * h
  BY DEF Mix
<1>3. d * (f + e) = d * f + d * e /\ d * e \in Nat /\ d * f \in Nat
  OBVIOUS
<1>4. Mix(a, b, f) = 1000 * a + d * f /\ Mix(a, b, g) = 1000 * a + d * (f + e)
  BY <1>1, <1>2
<1> QED BY <1>3, <1>4

\* A percentile lies between minimum and maximum, and a greater rank has no smaller one.
LEMMA InterpolatedInOrder ==
  ASSUME NEW samples \in Seq(Nat), NEW n \in Nat, n # 0, n = Len(samples),
         NEW rank \in Nat, NEW higher \in Nat, rank <= higher, higher <= 1000 * (n - 1)
  PROVE  LET s == Sorted(samples)
         IN  /\ 1000 * s[1] <= Interpolated(s, rank)
             /\ Interpolated(s, rank) <= Interpolated(s, higher)
             /\ Interpolated(s, higher) <= 1000 * s[n]
<1> DEFINE s == Sorted(samples)
<1>1. \A j \in 1 .. n : s[j] \in Nat
  BY SortedFacts
<1>2. \A j, k \in 1 .. n : j <= k => s[j] <= s[k]
  <2>1. \A j, k \in DOMAIN samples : j <= k => s[j] <= s[k]
    BY SortedFacts
  <2>2. DOMAIN samples = 1 .. n
    OBVIOUS
  <2> HIDE DEF s
  <2> QED BY <2>1, <2>2
<1> DEFINE Here(r) ==
             LET l == Place(r)
                 v == Interpolated(s, r)
             IN  /\ v \in Nat /\ l \in Nat /\ l < n /\ Frac(r) \in Nat /\ Frac(r) < 1000
                 /\ r = 1000 * l + Frac(r)
                 /\ l + 1 >= n => v = 1000 * s[l + 1]
                 /\ l + 2 <= n => /\ 1000 * s[l + 1] <= v /\ v <= 1000 * s[l + 2]
                                  /\ v = Mix(s[l + 1], s[l + 2], Frac(r))
<1>3. ASSUME NEW r \in Nat, r <= 1000 * (n - 1) PROVE Here(r)
  <2>1. /\ Place(r) \in Nat /\ Place(r) < n /\ Frac(r) \in Nat /\ Frac(r) < 1000
    BY <1>3, PlaceOfRank
  <2>2. r = 1000 * Place(r) + Frac(r)
    BY Division DEF Place, Frac
  <2> QED BY <1>3, <2>1, <2>2, InterpolatedBetween
<1>4. Here(rank) /\ Here(higher)
  BY <1>3
<1> DEFINE l == Place(rank)
           m == Place(higher)
           v == Interpolated(s, rank)
           w == Interpolated(s, higher)
           f == Frac(rank)
           g == Frac(higher)
<1>5. /\ v \in Nat /\ l \in Nat /\ l < n /\ f \in Nat /\ f < 1000 /\ rank = 1000 * l + f
      /\ l + 1 >= n => v = 1000 * s[l + 1]
      /\ l + 2 <= n => 1000 * s[l + 1] <= v /\ v <= 1000 * s[l + 2] /\ v = Mix(s[l + 1], s[l + 2], f)
      /\ w \in Nat /\ m \in Nat /\ m < n /\ g \in Nat /\ g < 1000 /\ higher = 1000 * m + g
      /\ m + 1 >= n => w = 1000 * s[m + 1]
      /\ m + 2 <= n => 1000 * s[m + 1] <= w /\ w <= 1000 * s[m + 2] /\ w = Mix(s[m + 1], s[m + 2], g)
  BY <1>4
<1> HIDE DEF s, l, m, v, w, f, g, Here
<1>6. /\ l + 1 \in 1 .. n /\ m + 1 \in 1 .. n /\ 1 \in 1 .. n /\ n \in 1 .. n
      /\ l + 1 >= n \/ (l + 2 \in 1 .. n /\ l + 2 <= n)
      /\ m + 1 >= n \/ (m + 2 \in 1 .. n /\ m + 2 <= n)
      /\ 1 <= l + 1 /\ m + 1 <= n
  <2>1. l \in Nat /\ l < n /\ m \in Nat /\ m < n
    BY <1>5
  <2>2. n >= 1 /\ 1 \in 1 .. n /\ n \in 1 .. n
    OBVIOUS
  <2>3. ASSUME NEW k \in Nat, k < n
        PROVE  k + 1 \in 1 .. n /\ 1 <= k + 1 /\ (k + 1 >= n \/ (k + 2 \in 1 .. n /\ k + 2 <= n))
    BY <2>3
  <2> QED BY <2>1, <2>2, <2>3
<1>7. 1000 * s[1] <= v
  <2>1. s[1] <= s[l + 1] /\ s[1] \in Nat /\ s[l + 1] \in Nat
    BY <1>1, <1>2, <1>6
  <2>2. 1000 * s[l + 1] <= v
    BY <1>5, <1>6, <2>1
  <2>3. v \in Nat
    BY <1>5
  <2> QED BY <2>1, <2>2, <2>3
<1>8. w <= 1000 * s[n]
  <2>1. CASE m + 1 >= n
    <3>1. m \in Nat /\ w = 1000 * s[m + 1] /\ s[n] \in Nat
      BY <1>1, <1>5, <1>6, <2>1
    <3>2. m + 1 = n
      BY <1>6, <2>1, <3>1
    <3> QED BY <3>1, <3>2
  <2>2. CASE m + 2 \in 1 .. n /\ m + 2 <= n
    <3>1. s[m + 2] <= s[n] /\ s[m + 2] \in Nat /\ s[n] \in Nat
      BY <1>1, <1>2, <1>6, <2>2
    <3> QED BY <1>5, <2>2, <3>1
  <2> QED BY <1>6, <2>1, <2>2
<1>9. v <= w
  <2>1. l <= m
    BY <1>5
  <2>2. CASE l = m /\ l + 1 >= n
    BY <1>5, <2>2
  <2>3. CASE l = m /\ l + 2 \in 1 .. n /\ l + 2 <= n
    <3>1. f <= g
      BY <1>5, <2>3
    <3>2. l + 1 <= l + 2
      BY <1>5
    <3>3. s[l + 1] \in Nat /\ s[l + 2] \in Nat /\ s[l + 1] <= s[l + 2]
      BY <1>1, <1>2, <1>6, <2>3, <3>2
    <3>4. v = Mix(s[l + 1], s[l + 2], f) /\ w = Mix(s[l + 1], s[l + 2], g)
      BY <1>5, <2>3
    <3>5. f \in Nat /\ g \in Nat /\ f < 1000 /\ g < 1000
      BY <1>5
    <3> QED BY <3>1, <3>3, <3>4, <3>5, MixGrows
  <2>4. CASE l < m
    <3>1. l + 2 <= m + 1 /\ l + 2 \in 1 .. n /\ l + 2 <= n
      BY <1>5, <2>4
    <3>2. s[l + 2] <= s[m + 1] /\ s[l + 2] \in Nat /\ s[m + 1] \in Nat
      BY <1>1, <1>2, <1>6, <3>1
    <3>3. v <= 1000 * s[l + 2]
      BY <1>5, <3>1
    <3>4. 1000 * s[m + 1] <= w
      BY <1>5, <1>6, <3>2
    <3>5. v \in Nat /\ w \in Nat
      BY <1>5
    <3> QED BY <3>2, <3>3, <3>4, <3>5
  <2> QED BY <1>5, <1>6, <2>1, <2>2, <2>3, <2>4
<1> QED BY <1>7, <1>8, <1>9 DEF s, v, w

-----------------------------------------------------------------------------
(* The lines of a report: sums *)

\* Induction over the natural numbers, for a set.
LEMMA NatSetInduction ==
  ASSUME NEW S, 0 \in S, \A n \in Nat : n \in S => n + 1 \in S
  PROVE  \A n \in Nat : n \in S
<1> DEFINE T == Nat \ S
<1> SUFFICES ASSUME T # {} PROVE FALSE
  OBVIOUS
<1>1. PICK x \in T : \A y \in T : ~(<<y, x>> \in OpToRel(<, Nat))
  BY NatLessThanWellFounded, WFMin, T \subseteq Nat
<1>2. x - 1 \in Nat /\ x - 1 < x /\ (x - 1) + 1 = x
  BY x \in Nat, x # 0
<1>3. x - 1 \in T
  BY <1>2
<1>4. <<x - 1, x>> \in OpToRel(<, Nat)
  BY <1>2 DEF OpToRel
<1> QED BY <1>1, <1>3, <1>4

\* f has the sums of the first 0, 1, ..., n members of s.
PartialSums(f, s, n) ==
  /\ f \in [0 .. n -> Int] /\ f[0] = 0
  /\ \A k \in 1 .. n : f[k] = f[k - 1] + s[k]

\* There are such sums.
LEMMA SumsExist ==
  ASSUME NEW n \in Nat, NEW s, \A k \in 1 .. n : s[k] \in Int
  PROVE  \E f : PartialSums(f, s, n)
<1> DEFINE S == {m \in Nat : m <= n => \E f : PartialSums(f, s, m)}
<1>1. 0 \in S
  <2>1. PartialSums([k \in 0 .. 0 |-> 0], s, 0)
    BY DEF PartialSums
  <2> QED BY <2>1
<1>2. ASSUME NEW m \in Nat, m \in S PROVE m + 1 \in S
  <2> SUFFICES ASSUME m + 1 <= n PROVE \E f : PartialSums(f, s, m + 1)
    OBVIOUS
  <2>1. PICK f : PartialSums(f, s, m)
    BY <1>2
  <2> DEFINE g == [k \in 0 .. m + 1 |-> IF k <= m THEN f[k] ELSE f[m] + s[m + 1]]
  <2>2. s[m + 1] \in Int /\ f[m] \in Int /\ \A k \in 0 .. m : f[k] \in Int
    BY <2>1 DEF PartialSums
  <2>3. g \in [0 .. m + 1 -> Int] /\ g[0] = 0
    BY <2>1, <2>2 DEF PartialSums
  <2>4. ASSUME NEW k \in 1 .. m + 1 PROVE g[k] = g[k - 1] + s[k]
    <3>1. CASE k <= m
      <4>1. k \in 1 .. m /\ k \in 0 .. m + 1 /\ k - 1 \in 0 .. m + 1 /\ k - 1 <= m
        BY <3>1
      <4>2. g[k] = f[k] /\ g[k - 1] = f[k - 1]
        BY <3>1, <4>1
      <4> QED BY <2>1, <4>1, <4>2 DEF PartialSums
    <3>2. CASE ~(k <= m)
      <4>1. k = m + 1 /\ k \in 0 .. m + 1 /\ k - 1 = m /\ m \in 0 .. m + 1
        BY <3>2
      <4>2. g[k] = f[m] + s[k] /\ g[m] = f[m]
        BY <3>2, <4>1
      <4> QED BY <4>1, <4>2
    <3> QED BY <3>1, <3>2
  <2>5. PartialSums(g, s, m + 1)
    <3> HIDE DEF g
    <3> QED BY <2>3, <2>4 DEF PartialSums
  <2> QED BY <2>5
<1> HIDE DEF S
<1>3. n \in S
  BY <1>1, <1>2, NatSetInduction
<1> QED BY <1>3 DEF S

\* There is one such function only.
LEMMA SumsUnique ==
  ASSUME NEW n \in Nat, NEW s, NEW f, NEW g, PartialSums(f, s, n),
         g[0] = 0, \A k \in 1 .. n : g[k] = g[k - 1] + s[k]
  PROVE  \A k \in 0 .. n : g[k] = f[k]
<1> DEFINE S == {m \in Nat : m <= n => g[m] = f[m]}
<1>1. 0 \in S
  BY DEF PartialSums
<1>2. ASSUME NEW m \in Nat, m \in S PROVE m + 1 \in S
  <2> SUFFICES ASSUME m + 1 <= n PROVE g[m + 1] = f[m + 1]
    OBVIOUS
  <2>1. m + 1 \in 1 .. n /\ (m + 1) - 1 = m /\ m <= n
    OBVIOUS
  <2>2. g[m] = f[m]
    BY <1>2, <2>1
  <2>3. g[m + 1] = g[m] + s[m + 1]
    BY <2>1
  <2>4. f[m + 1] = f[m] + s[m + 1]
    BY <2>1 DEF PartialSums
  <2> QED BY <2>2, <2>3, <2>4
<1> HIDE DEF S
<1>3. \A m \in Nat : m \in S
  BY <1>1, <1>2, NatSetInduction
<1> QED BY <1>3 DEF S

\* The recursive function of SumOf computes them.
LEMMA SumOfIsSum ==
  ASSUME NEW s \in Seq(Int)
  PROVE  \E f : PartialSums(f, s, Len(s)) /\ SumOf(s) = f[Len(s)]
<1> DEFINE n == Len(s)
           Sums(g) == g = [k \in 0 .. n |-> IF k = 0 THEN 0 ELSE g[k - 1] + s[k]]
           sum == CHOOSE g : Sums(g)
<1>1. n \in Nat /\ \A k \in 1 .. n : s[k] \in Int
  OBVIOUS
<1>2. SumOf(s) = sum[n]
  BY DEF SumOf
<1> HIDE DEF n
<1>3. PICK f : PartialSums(f, s, n)
  BY <1>1, SumsExist
<1>4. \E g : Sums(g)
  <2>1. ASSUME NEW k \in 0 .. n PROVE f[k] = IF k = 0 THEN 0 ELSE f[k - 1] + s[k]
    <3>1. k = 0 \/ k \in 1 .. n
      BY <1>1
    <3> QED BY <1>3, <3>1 DEF PartialSums
  <2>2. f = [k \in 0 .. n |-> f[k]]
    BY <1>3 DEF PartialSums
  <2>3. Sums(f)
    BY <2>1, <2>2
  <2> QED BY <2>3
<1>5. Sums(sum)
  <2> HIDE DEF Sums
  <2> QED BY <1>4
<1> HIDE DEF sum
<1>6. \A k \in 0 .. n : sum[k] = IF k = 0 THEN 0 ELSE sum[k - 1] + s[k]
  BY <1>5
<1>7. sum[0] = 0 /\ \A k \in 1 .. n : sum[k] = sum[k - 1] + s[k]
  BY <1>1, <1>6
<1>8. sum[n] = f[n]
  BY <1>1, <1>3, <1>7, SumsUnique
<1> QED BY <1>2, <1>3, <1>8 DEF n

\* What grows faster at every step ends above.
LEMMA StepByStep ==
  ASSUME NEW n \in Nat, NEW f \in [0 .. n -> Int], NEW g \in [0 .. n -> Int],
         f[0] <= g[0], \A k \in 1 .. n : f[k] - f[k - 1] <= g[k] - g[k - 1]
  PROVE  f[n] <= g[n]
<1> DEFINE S == {m \in Nat : m <= n => f[m] <= g[m]}
<1>1. 0 \in S
  OBVIOUS
<1>2. ASSUME NEW m \in Nat, m \in S PROVE m + 1 \in S
  <2> SUFFICES ASSUME m + 1 <= n PROVE f[m + 1] <= g[m + 1]
    OBVIOUS
  <2>1. m + 1 \in 1 .. n /\ (m + 1) - 1 = m /\ m <= n /\ m \in 0 .. n /\ m + 1 \in 0 .. n
    OBVIOUS
  <2>2. f[m] <= g[m] /\ f[m + 1] - f[m] <= g[m + 1] - g[m]
    BY <1>2, <2>1
  <2>3. f[m] \in Int /\ g[m] \in Int /\ f[m + 1] \in Int /\ g[m + 1] \in Int
    BY <2>1
  <2> QED BY <2>2, <2>3
<1> HIDE DEF S
<1>3. n \in S
  BY <1>1, <1>2, NatSetInduction
<1> QED BY <1>3 DEF S

\* Products of two variables.
LEMMA LineGrows ==
  ASSUME NEW c \in Int, NEW k \in Int
  PROVE  c * k \in Int /\ c * k - c * (k - 1) = c /\ c * 0 = 0
OBVIOUS

\* c * (j - k) is multiplied out.
LEMMA Distributes ==
  ASSUME NEW c \in Int, NEW j \in Int, NEW k \in Int
  PROVE  c * (j - k) = c * j - c * k /\ c * j \in Int /\ c * k \in Int
OBVIOUS

\* A factor that is not negative keeps the order.
LEMMA OrderKept ==
  ASSUME NEW c \in Nat, NEW j \in Int, NEW k \in Int, j <= k
  PROVE  c * j <= c * k /\ c * j \in Int /\ c * k \in Int
<1>1. c * (k - j) = c * k - c * j /\ c * j \in Int /\ c * k \in Int
  BY Distributes
<1>2. k - j \in Nat
  OBVIOUS
<1>3. c * (k - j) \in Nat
  BY <1>2
<1> QED BY <1>1, <1>3

\* The square of the thousandths (Zenon counts a numeral out).
Million == 1000 * 1000

\* k squares of deviations from the mean add up to q, the deviations to e: then these are
\* the squares of the deviations from a place that is a further away.
Moved(q, e, a, k) == Million * q + 2000 * (a * e) + (a * a) * k

\* Squares are not negative, and y is twice as far from 0 as a.
LEMMA SquareBounds ==
  ASSUME NEW a \in Int, NEW y \in Int
  PROVE  /\ y * y >= 0 /\ y * y \in Int
         /\ (a >= 0 /\ y >= 2 * a) \/ (a <= 0 /\ y <= 2 * a) => y * y >= 4 * (a * a)
<1>1. y * y >= 0 /\ y * y \in Int /\ a * a >= 0 /\ a * a \in Int
  OBVIOUS
<1>2. ASSUME NEW b \in Nat, NEW t \in Nat PROVE (2 * b + t) * (2 * b + t) >= 4 * (b * b)
  <2>1. (2 * b + t) * (2 * b + t) = 4 * (b * b) + 4 * (b * t) + t * t
    OBVIOUS
  <2>2. b * t \in Nat /\ t * t \in Nat /\ b * b \in Nat
    OBVIOUS
  <2> QED BY <2>1, <2>2
<1>3. CASE a >= 0 /\ y >= 2 * a
  <2>1. a \in Nat /\ y - 2 * a \in Nat /\ y = 2 * a + (y - 2 * a)
    BY <1>3
  <2> QED BY <1>1, <1>2, <2>1
<1>4. CASE a <= 0 /\ y <= 2 * a
  <2>1. -a \in Nat /\ 2 * a - y \in Nat /\ -y = 2 * (-a) + (2 * a - y)
    BY <1>4
  <2>2. (-y) * (-y) = y * y /\ (-a) * (-a) = a * a
    OBVIOUS
  <2>3. (-y) * (-y) >= 4 * ((-a) * (-a))
    BY <1>2, <2>1
  <2> QED BY <1>1, <2>2, <2>3
<1> QED BY <1>1, <1>3, <1>4

\* The mean lies between minimum and maximum.
LEMMA MeanBetween ==
  ASSUME NEW s \in Seq(Nat), NEW n \in Nat, n = Len(s), NEW min \in Nat, NEW max \in Nat,
         \A k \in 1 .. n : min <= s[k] /\ s[k] <= max
  PROVE  SumOf(s) \in Int /\ n * min <= SumOf(s) /\ SumOf(s) <= n * max
<1>1. \A k \in 1 .. n : s[k] \in Nat
  OBVIOUS
<1>2. PICK f : PartialSums(f, s, n) /\ SumOf(s) = f[n]
  <2>1. s \in Seq(Int)
    OBVIOUS
  <2> QED BY <2>1, SumOfIsSum
<1>3. /\ f \in [0 .. n -> Int] /\ f[0] = 0
      /\ \A k \in 1 .. n : f[k] - f[k - 1] = s[k]
  <2>1. f \in [0 .. n -> Int] /\ f[0] = 0 /\ \A k \in 1 .. n : f[k] = f[k - 1] + s[k]
    BY <1>2 DEF PartialSums
  <2>2. ASSUME NEW k \in 1 .. n PROVE f[k] - f[k - 1] = s[k]
    <3>1. k - 1 \in 0 .. n
      OBVIOUS
    <3>2. f[k - 1] \in Int /\ f[k] = f[k - 1] + s[k]
      BY <2>1, <3>1
    <3>3. s[k] \in Int
      BY <1>1
    <3> QED BY <3>2, <3>3
  <2> QED BY <2>1, <2>2
<1>4. ASSUME NEW c \in Nat
      PROVE  \E g \in [0 .. n -> Int] :
               g[0] = 0 /\ g[n] = n * c /\ \A k \in 1 .. n : g[k] - g[k - 1] = c
  <2> DEFINE g == [k \in 0 .. n |-> c * k]
  <2>1. g \in [0 .. n -> Int] /\ g[0] = 0
    BY LineGrows
  <2>2. ASSUME NEW k \in 1 .. n PROVE g[k] - g[k - 1] = c
    <3>1. k \in 0 .. n /\ k - 1 \in 0 .. n /\ k \in Int
      OBVIOUS
    <3>2. g[k] = c * k /\ g[k - 1] = c * (k - 1)
      BY <3>1
    <3> QED BY <3>1, <3>2, LineGrows
  <2>3. g[n] = n * c
    OBVIOUS
  <2> QED BY <2>1, <2>2, <2>3
<1>5. n * min <= SumOf(s)
  <2>1. PICK g \in [0 .. n -> Int] :
          g[0] = 0 /\ g[n] = n * min /\ \A k \in 1 .. n : g[k] - g[k - 1] = min
    BY <1>4
  <2>2. g[0] <= f[0] /\ \A k \in 1 .. n : g[k] - g[k - 1] <= f[k] - f[k - 1]
    BY <1>3, <2>1
  <2>3. g[n] <= f[n]
    BY <1>3, <2>2, StepByStep
  <2> QED BY <1>2, <2>1, <2>3
<1>6. SumOf(s) <= n * max
  <2>1. PICK g \in [0 .. n -> Int] :
          g[0] = 0 /\ g[n] = n * max /\ \A k \in 1 .. n : g[k] - g[k - 1] = max
    BY <1>4
  <2>2. f[0] <= g[0] /\ \A k \in 1 .. n : f[k] - f[k - 1] <= g[k] - g[k - 1]
    BY <1>3, <2>1
  <2>3. f[n] <= g[n]
    BY <1>3, <2>2, StepByStep
  <2> QED BY <1>2, <2>1, <2>3
<1> QED BY <1>2, <1>3, <1>5, <1>6

\* Half of the samples, rounded up, are up to the median, and as many are not below it.
LEMMA MedianHalves ==
  ASSUME NEW samples \in Seq(Nat), NEW n \in Nat, n # 0, n = Len(samples), NEW k \in 1 .. n
  PROVE  LET s == Sorted(samples)
             half == n \div 2
             med == Percentile(s, 500)
         IN  /\ med \in Nat
             /\ k > half => med <= 1000 * s[k]
             /\ k <= n - half => 1000 * s[k] <= med
<1> DEFINE s == Sorted(samples)
           half == n \div 2
           rank == 500 * (n - 1)
           l == Place(rank)
           v == Interpolated(s, rank)
<1>1. rank \in Nat /\ rank <= 1000 * (n - 1)
  OBVIOUS
<1>2. Percentile(s, 500) = v
  <2>1. Len(s) = n
    BY SortedFacts
  <2>2. Percentile(s, 500) = Interpolated(s, Rank(Len(s), 500))
    BY InTermsOfRank
  <2>3. Rank(Len(s), 500) = rank
    BY <2>1 DEF Rank
  <2> QED BY <2>2, <2>3
<1>3. /\ v \in Nat
      /\ l + 1 >= n \/ Frac(rank) = 0 => v = 1000 * s[l + 1]
      /\ l + 2 <= n => 1000 * s[l + 1] <= v /\ v <= 1000 * s[l + 2]
  <2> HIDE DEF rank
  <2> QED BY <1>1, InterpolatedBetween
<1>4. /\ half \in Nat /\ half < n /\ (n = 2 * half \/ n = 2 * half + 1)
      /\ l \in Nat /\ l < n /\ Frac(rank) \in Nat /\ Frac(rank) < 1000
      /\ 500 * (n - 1) = 1000 * l + Frac(rank)
  <2>1. half \in Nat /\ half < n /\ (n = 2 * half \/ n = 2 * half + 1)
    OBVIOUS
  <2>2. l \in Nat /\ l < n /\ Frac(rank) \in Nat /\ Frac(rank) < 1000
    <3> HIDE DEF rank
    <3> QED BY <1>1, PlaceOfRank
  <2>3. rank = 1000 * l + Frac(rank)
    <3> HIDE DEF rank
    <3> QED BY <1>1, Division DEF Place, Frac
  <2> QED BY <2>1, <2>2, <2>3
<1>5. \A j \in 1 .. n : /\ s[j] \in Nat
                        /\ j <= k => s[j] <= s[k]
                        /\ k <= j => s[k] <= s[j]
  <2>1. \A i, j \in DOMAIN samples : i <= j => s[i] <= s[j]
    BY SortedFacts
  <2>2. DOMAIN samples = 1 .. n /\ \A j \in 1 .. n : s[j] \in Nat
    BY SortedFacts
  <2> HIDE DEF s
  <2> QED BY <2>1, <2>2
<1> DEFINE f == Frac(rank)
<1>6. s[k] \in Nat
  BY <1>5
<1> HIDE DEF s, half, l, f, v
<1>7. CASE n = 2 * half + 1
  <2>1. l = half /\ f = 0 /\ l + 1 \in 1 .. n
    BY <1>4, <1>7 DEF f
  <2>2. v = 1000 * s[l + 1] /\ s[l + 1] \in Nat
    BY <1>3, <1>5, <2>1 DEF f
  <2>3. (k > half => l + 1 <= k) /\ (k <= n - half => k <= l + 1)
    BY <1>4, <1>7, <2>1
  <2>4. (k > half => s[l + 1] <= s[k]) /\ (k <= n - half => s[k] <= s[l + 1])
    BY <1>5, <2>1, <2>3
  <2>5. (k > half => v <= 1000 * s[k]) /\ (k <= n - half => 1000 * s[k] <= v)
    BY <1>6, <2>2, <2>4
  <2> QED BY <1>2, <1>3, <2>5 DEF s, half, v
<1>8. CASE n = 2 * half
  <2>1. l + 1 = half /\ l + 2 <= n /\ l + 1 \in 1 .. n /\ l + 2 \in 1 .. n
    BY <1>4, <1>8 DEF f
  <2>2. 1000 * s[l + 1] <= v /\ v <= 1000 * s[l + 2] /\ s[l + 1] \in Nat /\ s[l + 2] \in Nat
    BY <1>3, <1>5, <2>1
  <2>3. (k > half => l + 2 <= k) /\ (k <= n - half => k <= l + 1)
    BY <1>4, <1>8, <2>1
  <2>4. (k > half => s[l + 2] <= s[k]) /\ (k <= n - half => s[k] <= s[l + 1])
    BY <1>5, <2>1, <2>3
  <2>5. (k > half => v <= 1000 * s[k]) /\ (k <= n - half => 1000 * s[k] <= v)
    BY <1>3, <1>6, <2>2, <2>4
  <2> QED BY <1>2, <1>3, <2>5 DEF s, half, v
<1> QED BY <1>4, <1>7, <1>8

\* The members that are at least B, half of them, give the sum of all.
LEMMA HalfOfTheSum ==
  ASSUME NEW n \in Nat, NEW half \in Nat, half <= n, NEW B \in Nat,
         NEW h \in [0 .. n -> Int], h[0] = 0,
         \A k \in 1 .. n : h[k] - h[k - 1] >= 0,
         \/ \A k \in 1 .. n : k > half => h[k] - h[k - 1] >= B
         \/ \A k \in 1 .. n : k <= n - half => h[k] - h[k - 1] >= B
  PROVE  B * (n - half) <= h[n]
<1> DEFINE u == [k \in 0 .. n |-> IF k <= half THEN 0 ELSE B * (k - half)]
           w == [k \in 0 .. n |-> IF k <= n - half THEN B * k ELSE B * (n - half)]
<1>1. \A j \in Int : B * j \in Int /\ B * j - B * (j - 1) = B /\ B * 0 = 0
  BY LineGrows
<1>2. n - half \in Nat /\ \A k \in 1 .. n : k \in 0 .. n /\ k - 1 \in 0 .. n
  OBVIOUS
<1>3. CASE \A k \in 1 .. n : k > half => h[k] - h[k - 1] >= B
  <2>1. u \in [0 .. n -> Int] /\ u[0] = 0
    BY <1>1
  <2>2. u[n] = B * (n - half)
    <3>1. CASE n <= half
      <4>1. n - half = 0 /\ n \in 0 .. n
        BY <3>1
      <4> QED BY <1>1, <3>1, <4>1
    <3> QED BY <3>1
  <2>3. ASSUME NEW k \in 1 .. n PROVE u[k] - u[k - 1] <= h[k] - h[k - 1]
    <3>1. k \in 0 .. n /\ k - 1 \in 0 .. n
      BY <1>2
    <3>2. h[k] \in Int /\ h[k - 1] \in Int
      BY <3>1
    <3>3. CASE k <= half
      <4>1. u[k] = 0 /\ u[k - 1] = 0
        BY <3>1, <3>3
      <4> QED BY <3>2, <4>1
    <3>4. CASE k > half
      <4>1. k - half \in Int /\ (k - 1) - half = (k - half) - 1
        OBVIOUS
      <4>2. u[k] = B * (k - half)
        BY <3>1, <3>4
      <4>3. u[k - 1] = B * ((k - half) - 1)
        <5>1. CASE k - 1 <= half
          <6>1. (k - half) - 1 = 0 /\ u[k - 1] = 0
            BY <3>1, <3>4, <5>1
          <6> QED BY <1>1, <6>1
        <5>2. CASE ~(k - 1 <= half)
          BY <3>1, <4>1, <5>2
        <5> QED BY <5>1, <5>2
      <4>4. u[k] - u[k - 1] = B
        BY <1>1, <4>1, <4>2, <4>3
      <4> QED BY <1>3, <3>2, <3>4, <4>4
    <3> QED BY <3>3, <3>4
  <2> HIDE DEF u
  <2>4. u[0] <= h[0] /\ \A k \in 1 .. n : u[k] - u[k - 1] <= h[k] - h[k - 1]
    BY <2>1, <2>3
  <2>5. u[n] <= h[n]
    BY <2>1, <2>4, StepByStep
  <2> QED BY <2>2, <2>5
<1>4. CASE \A k \in 1 .. n : k <= n - half => h[k] - h[k - 1] >= B
  <2>1. w \in [0 .. n -> Int] /\ w[0] = 0
    BY <1>1, <1>2
  <2>2. w[n] = B * (n - half)
    <3>1. CASE n <= n - half
      <4>1. n - half = n /\ n \in 0 .. n
        BY <3>1
      <4> QED BY <3>1, <4>1
    <3> QED BY <3>1
  <2>3. ASSUME NEW k \in 1 .. n PROVE w[k] - w[k - 1] <= h[k] - h[k - 1]
    <3>1. k \in 0 .. n /\ k - 1 \in 0 .. n /\ k \in Int
      BY <1>2
    <3>2. h[k] \in Int /\ h[k - 1] \in Int
      BY <3>1
    <3>3. CASE k <= n - half
      <4>1. k - 1 <= n - half
        BY <3>3
      <4>2. w[k] = B * k /\ w[k - 1] = B * (k - 1)
        BY <3>1, <3>3, <4>1
      <4>3. w[k] - w[k - 1] = B
        BY <1>1, <3>1, <4>2
      <4> QED BY <1>4, <3>2, <3>3, <4>3
    <3>4. CASE k > n - half
      <4>1. w[k] = B * (n - half)
        BY <3>1, <3>4
      <4>2. w[k - 1] = B * (n - half)
        <5>1. CASE k - 1 <= n - half
          <6>1. k - 1 = n - half
            BY <3>4, <5>1
          <6> QED BY <3>1, <5>1, <6>1
        <5>2. CASE ~(k - 1 <= n - half)
          BY <3>1, <5>2
        <5> QED BY <5>1, <5>2
      <4>3. w[k] - w[k - 1] = 0
        BY <1>1, <1>2, <4>1, <4>2
      <4> QED BY <3>2, <4>3
    <3> QED BY <3>3, <3>4
  <2> HIDE DEF w
  <2>4. w[0] <= h[0] /\ \A k \in 1 .. n : w[k] - w[k - 1] <= h[k] - h[k - 1]
    BY <2>1, <2>3
  <2>5. w[n] <= h[n]
    BY <2>1, <2>4, StepByStep
  <2> QED BY <2>2, <2>5
<1> QED BY <1>3, <1>4

\* Mean and median differ by at most the standard deviation.  With a for the distance of the
\* median from the mean and d for the deviation of a sample, the squares of d + a add up to
\* those of d and of a, as the deviations add up to 0; and they are at least 4 * a * a for
\* the half of the samples that lies beyond the median.
LEMMA MeanNearMedian ==
  ASSUME NEW samples \in Seq(Nat), NEW n \in Nat, n # 0, n = Len(samples)
  PROVE  LET s == Sorted(samples)
             gap == 1000 * SumOf(s) - n * Percentile(s, 500)
         IN  n * gap * gap <= Million * sq_sum(s)
<1> DEFINE s == Sorted(samples)
           M == Percentile(s, 500)
           S == SumOf(s)
           half == n \div 2
           a == n * M - 1000 * S
           d == [k \in 1 .. n |-> n * s[k] - S]
           q == [k \in 1 .. n |-> d[k] * d[k]]
<1>1. s \in Seq(Nat) /\ Len(s) = n /\ DOMAIN s = 1 .. n /\ \A k \in 1 .. n : s[k] \in Nat
  BY SortedFacts
<1>2. /\ M \in Nat
      /\ \A k \in 1 .. n : /\ k > half => M <= 1000 * s[k]
                           /\ k <= n - half => 1000 * s[k] <= M
  <2>1. 1 \in 1 .. n
    OBVIOUS
  <2> QED BY <2>1, MedianHalves
<1>3. half \in Nat /\ half <= n /\ 2 * (n - half) >= n
  OBVIOUS
<1>4. sq_sum(s) = SumOf(q)
  BY <1>1 DEF sq_sum
<1> HIDE DEF s, M, half
<1>5. PICK X : PartialSums(X, s, n) /\ S = X[n]
  <2>1. s \in Seq(Int)
    BY <1>1
  <2> QED BY <1>1, <2>1, SumOfIsSum
<1>6. S \in Int
  BY <1>5 DEF PartialSums
<1> HIDE DEF S
<1>7. \A k \in 1 .. n : d[k] = n * s[k] - S /\ d[k] \in Int /\ q[k] = d[k] * d[k] /\ q[k] \in Int
  BY <1>1, <1>6
<1> HIDE DEF d
<1>8. PICK Q : PartialSums(Q, q, n) /\ SumOf(q) = Q[n]
  <2>1. q \in Seq(Int) /\ Len(q) = n
    BY <1>7
  <2> HIDE DEF q
  <2> QED BY <2>1, SumOfIsSum
<1> HIDE DEF q
<1>9. a \in Int /\ n * M \in Int
  BY <1>2, <1>6
<1> DEFINE e == [k \in 0 .. n |-> n * X[k] - k * S]
<1>10. e \in [0 .. n -> Int] /\ e[0] = 0 /\ e[n] = 0
  <2>1. X \in [0 .. n -> Int] /\ X[0] = 0
    BY <1>5 DEF PartialSums
  <2> QED BY <1>5, <1>6, <2>1
<1>11. ASSUME NEW k \in 1 .. n PROVE e[k] - e[k - 1] = d[k]
  <2>1. k \in 0 .. n /\ k - 1 \in 0 .. n /\ k \in Int
    OBVIOUS
  <2>2. X[k] \in Int /\ X[k - 1] \in Int /\ X[k] = X[k - 1] + s[k]
    BY <1>5, <2>1 DEF PartialSums
  <2>3. s[k] \in Int /\ n \in Int
    BY <1>1
  <2>4. e[k] = n * X[k] - S * k /\ e[k - 1] = n * X[k - 1] - S * (k - 1)
    BY <1>6, <2>1
  <2>5. S * k - S * (k - 1) = S /\ S * k \in Int /\ S * (k - 1) \in Int
    BY <1>6, <2>1, LineGrows
  <2>6. n * s[k] = n * X[k] - n * X[k - 1] /\ n * X[k] \in Int /\ n * X[k - 1] \in Int
    <3>1. s[k] = X[k] - X[k - 1]
      BY <2>2, <2>3
    <3>2. n * (X[k] - X[k - 1]) = n * X[k] - n * X[k - 1]
      BY <2>2, <2>3, Distributes
    <3> QED BY <2>2, <3>1, <3>2
  <2> QED BY <1>6, <1>7, <2>4, <2>5, <2>6
<1> HIDE DEF e, a
<1> DEFINE A == a * a
           h == [k \in 0 .. n |-> Moved(Q[k], e[k], a, k)]
<1>12. A \in Nat /\ Million \in Nat
  BY <1>9, SquareBounds DEF Million
<1>13. h \in [0 .. n -> Int] /\ h[0] = 0 /\ h[n] = Million * Q[n] + A * n
  <2>1. Q \in [0 .. n -> Int] /\ Q[0] = 0
    BY <1>8 DEF PartialSums
  <2> HIDE DEF A
  <2>2. ASSUME NEW k \in 0 .. n PROVE Moved(Q[k], e[k], a, k) \in Int
    <3>1. Q[k] \in Int /\ e[k] \in Int /\ k \in Int
      BY <1>10, <2>1
    <3>2. Million * Q[k] \in Int /\ a * e[k] \in Int /\ A * k \in Int
      BY <1>9, <1>12, <3>1
    <3> QED BY <3>2 DEF Moved, A
  <2>3. a * 0 = 0 /\ A * 0 = 0 /\ Million * 0 = 0 /\ A * n \in Int
    BY <1>9, <1>12
  <2>4. Million * Q[n] \in Int
    BY <1>12, <2>1
  <2>5. h[0] = Million * Q[0] + 2000 * (a * e[0]) + A * 0
    BY DEF Moved, A
  <2>6. h[n] = Million * Q[n] + 2000 * (a * e[n]) + A * n
    BY DEF Moved, A
  <2>7. h \in [0 .. n -> Int]
    BY <2>2
  <2> HIDE DEF h
  <2>8. h[0] = 0
    BY <1>10, <2>1, <2>3, <2>5
  <2>9. h[n] = Million * Q[n] + A * n
    BY <1>10, <2>3, <2>4, <2>6
  <2> QED BY <2>7, <2>8, <2>9
<1>14. ASSUME NEW k \in 1 .. n PROVE h[k] - h[k - 1] = (1000 * d[k] + a) * (1000 * d[k] + a)
  <2>1. k \in 0 .. n /\ k - 1 \in 0 .. n /\ k \in Int
    OBVIOUS
  <2>2. Q[k - 1] \in Int /\ Q[k] = Q[k - 1] + d[k] * d[k]
    BY <1>7, <1>8, <2>1 DEF PartialSums
  <2>3. e[k] \in Int /\ e[k - 1] \in Int /\ d[k] \in Int /\ e[k] - e[k - 1] = d[k]
    BY <1>7, <1>10, <1>11, <2>1
  <2>4. e[k] = e[k - 1] + d[k]
    BY <2>3
  <2> DEFINE x == d[k]
             y == e[k - 1]
             z == Q[k - 1]
  <2>5. h[k] = Moved(z + x * x, y + x, a, k) /\ h[k - 1] = Moved(z, y, a, k - 1)
    BY <2>1, <2>2, <2>4
  <2>6. x \in Int /\ y \in Int /\ z \in Int /\ a \in Int /\ Million \in Int
    BY <1>9, <1>12, <2>2, <2>3
  <2> HIDE DEF x, y, z, h, A
  <2>7. (1000 * x + a) * (1000 * x + a) = Million * (x * x) + 2000 * (a * x) + a * a
    BY <2>6 DEF Million
  <2>8. Million * (z + x * x) = Million * z + Million * (x * x)
    BY <2>6
  <2>9. a * (y + x) = a * y + a * x /\ (a * a) * k = (a * a) * (k - 1) + a * a
    BY <2>1, <2>6
  <2>10. /\ Million * z \in Int /\ Million * (x * x) \in Int /\ a * y \in Int /\ a * x \in Int
         /\ (a * a) * (k - 1) \in Int /\ a * a \in Int
    BY <2>1, <2>6
  <2> DEFINE mz == Million * z
             mx == Million * (x * x)
             ay == a * y
             ax == a * x
             ak == (a * a) * (k - 1)
  <2>11. h[k] = (mz + mx) + 2000 * (ay + ax) + (ak + A)
    BY <2>5, <2>8, <2>9 DEF Moved, A
  <2>12. h[k - 1] = mz + 2000 * ay + ak
    BY <2>5 DEF Moved
  <2>13. (1000 * x + a) * (1000 * x + a) = mx + 2000 * ax + A
    BY <2>7 DEF A
  <2>14. mz \in Int /\ mx \in Int /\ ay \in Int /\ ax \in Int /\ ak \in Int /\ A \in Int
    BY <1>12, <2>10
  <2> HIDE DEF mz, mx, ay, ax, ak
  <2>15. h[k] - h[k - 1] = mx + 2000 * ax + A
    BY <2>11, <2>12, <2>14
  <2> QED BY <2>13, <2>15 DEF x
<1> HIDE DEF h
<1>15. ASSUME NEW k \in 1 .. n
       PROVE  /\ h[k] - h[k - 1] >= 0
              /\ a >= 0 /\ k > half => h[k] - h[k - 1] >= 4 * A
              /\ a <= 0 /\ k <= n - half => h[k] - h[k - 1] >= 4 * A
  <2> DEFINE y == 1000 * d[k] + a
  <2>1. y \in Int /\ d[k] \in Int
    BY <1>7, <1>9
  <2>2. s[k] \in Int /\ 1000 * s[k] \in Int /\ M \in Int
    BY <1>1, <1>2
  <2>3. 1000 * d[k] = n * (1000 * s[k]) - 1000 * S
    <3>1. n * (1000 * s[k]) = 1000 * (n * s[k]) /\ n * s[k] \in Int
      BY <2>2
    <3> QED BY <1>6, <1>7, <3>1
  <2>4. k > half => y >= 2 * a
    <3> SUFFICES ASSUME k > half PROVE y >= 2 * a
      OBVIOUS
    <3> DEFINE x == 1000 * s[k]
    <3>1. M <= x /\ x \in Int
      BY <1>2, <2>2
    <3> HIDE DEF x
    <3>2. n * M <= n * x /\ n * x \in Int
      BY <2>2, <3>1, OrderKept, ZenonT(60)
    <3>3. 1000 * d[k] = n * x - 1000 * S
      BY <2>3 DEF x
    <3> QED BY <1>6, <1>9, <2>1, <3>2, <3>3 DEF a
  <2>5. k <= n - half => y <= 2 * a
    <3> SUFFICES ASSUME k <= n - half PROVE y <= 2 * a
      OBVIOUS
    <3> DEFINE x == 1000 * s[k]
    <3>1. x <= M /\ x \in Int
      BY <1>2, <2>2
    <3> HIDE DEF x
    <3>2. n * x <= n * M /\ n * x \in Int
      BY <2>2, <3>1, OrderKept, ZenonT(60)
    <3>3. 1000 * d[k] = n * x - 1000 * S
      BY <2>3 DEF x
    <3> QED BY <1>6, <1>9, <2>1, <3>2, <3>3 DEF a
  <2>6. h[k] - h[k - 1] = y * y
    BY <1>14
  <2> HIDE DEF y
  <2>7. /\ y * y >= 0
        /\ (a >= 0 /\ y >= 2 * a) \/ (a <= 0 /\ y <= 2 * a) => y * y >= 4 * (a * a)
    BY <1>9, <2>1, SquareBounds
  <2> QED BY <2>4, <2>5, <2>6, <2>7
<1> DEFINE B == 4 * A
<1> HIDE DEF A
<1>16. B * (n - half) <= h[n]
  <2>1. B \in Nat
    BY <1>12
  <2>2. \/ \A k \in 1 .. n : k > half => h[k] - h[k - 1] >= B
        \/ \A k \in 1 .. n : k <= n - half => h[k] - h[k - 1] >= B
    BY <1>9, <1>15
  <2>3. \A k \in 1 .. n : h[k] - h[k - 1] >= 0
    BY <1>15
  <2> HIDE DEF B
  <2> QED BY <1>3, <1>13, <2>1, <2>2, <2>3, HalfOfTheSum
<1>17. 2 * (A * n) <= B * (n - half) /\ A * n \in Int /\ B * (n - half) \in Int
  <2>1. 2 * A \in Nat /\ n \in Int /\ 2 * (n - half) \in Int
    BY <1>3, <1>12
  <2>2. (2 * A) * n <= (2 * A) * (2 * (n - half))
    BY <1>3, <2>1, OrderKept
  <2>3. (2 * A) * n = 2 * (A * n) /\ (2 * A) * (2 * (n - half)) = (4 * A) * (n - half)
    BY <1>3, <1>12
  <2> QED BY <1>3, <1>12, <2>2, <2>3
<1>18. A * n <= Million * Q[n] /\ Q[n] \in Int
  <2>1. Q[n] \in Int
    BY <1>8 DEF PartialSums
  <2> DEFINE mq == Million * Q[n]
             an == A * n
  <2>2. mq \in Int /\ an \in Int /\ B * (n - half) \in Int
    BY <1>12, <1>17, <2>1
  <2>3. h[n] = mq + an /\ B * (n - half) <= h[n] /\ 2 * an <= B * (n - half)
    BY <1>13, <1>16, <1>17
  <2> HIDE DEF B, mq, an
  <2>4. an <= mq
    BY <2>2, <2>3
  <2> QED BY <2>1, <2>4 DEF mq, an
<1> DEFINE gap == 1000 * S - n * M
<1>19. n * gap * gap = A * n
  <2>1. gap = -a
    BY <1>6, <1>9 DEF a
  <2>2. \A b \in Int : n * (-b) * (-b) = (b * b) * n
    OBVIOUS
  <2> QED BY <1>9, <2>1, <2>2 DEF A
<1> QED BY <1>4, <1>8, <1>18, <1>19 DEF s, S, M

\* A report is consistent, whatever the samples: the percentiles lie in order between
\* minimum and maximum, so does the mean, and mean and median differ by at most the
\* standard deviation.
THEOREM ReportFits ==
  ASSUME NEW samples \in Seq(Nat), samples # << >>
  PROVE  LET r == Report(Sorted(samples))
             n == Len(samples)
             gap == 1000 * r.sum - n * r.med
         IN  /\ 1000 * r.min <= r.med /\ r.med <= r.p95 /\ r.p95 <= r.p99
             /\ r.p99 <= r.p999 /\ r.p999 <= 1000 * r.max
             /\ n * r.min <= r.sum /\ r.sum <= n * r.max
             /\ n * gap * gap <= 1000 * 1000 * r.sq_sum
<1> DEFINE s == Sorted(samples)
           r == Report(s)
           n == Len(samples)
           P(rank) == Interpolated(s, rank)
<1>1. n \in Nat /\ n # 0 /\ 1 \in 1 .. n /\ n \in 1 .. n
  OBVIOUS
<1>2. s \in Seq(Nat) /\ Len(s) = n /\ s # << >>
  BY <1>1, SortedFacts
<1>3. r.min = s[1] /\ r.max = s[n] /\ r.sum = SumOf(s) /\ r.sq_sum = sq_sum(s)
  BY <1>2 DEF Report, Last
<1>4. /\ r.med = Percentile(s, 500) /\ r.p95 = Percentile(s, 950)
      /\ r.p99 = Percentile(s, 990) /\ r.p999 = Percentile(s, 999)
  BY DEF Report
<1>5. /\ Percentile(s, 500) = P(Rank(n, 500)) /\ Percentile(s, 950) = P(Rank(n, 950))
      /\ Percentile(s, 990) = P(Rank(n, 990)) /\ Percentile(s, 999) = P(Rank(n, 999))
  <2>1. ASSUME NEW pct PROVE Percentile(s, pct) = P(Rank(Len(s), pct))
    BY InTermsOfRank
  <2> HIDE DEF s
  <2> QED BY <1>2, <2>1
<1>6. \A j, k \in {500, 950, 990, 999} :
        j <= k => Rank(n, j) \in Nat /\ Rank(n, k) \in Nat
                  /\ Rank(n, j) <= Rank(n, k) /\ Rank(n, k) <= 1000 * (n - 1)
  <2> HIDE DEF n
  <2> QED BY <1>1 DEF Rank
<1> HIDE DEF s, n, r
<1>7. \A j, k \in {500, 950, 990, 999} :
        j <= k => /\ 1000 * s[1] <= P(Rank(n, j)) /\ P(Rank(n, j)) <= P(Rank(n, k))
                  /\ P(Rank(n, k)) <= 1000 * s[n]
  <2> SUFFICES ASSUME NEW j \in {500, 950, 990, 999}, NEW k \in {500, 950, 990, 999}, j <= k
               PROVE  /\ 1000 * s[1] <= P(Rank(n, j)) /\ P(Rank(n, j)) <= P(Rank(n, k))
                      /\ P(Rank(n, k)) <= 1000 * s[n]
    OBVIOUS
  <2> DEFINE u == Rank(n, j)
             v == Rank(n, k)
  <2>1. u \in Nat /\ v \in Nat /\ u <= v /\ v <= 1000 * (n - 1)
    BY <1>6
  <2> HIDE DEF u, v
  <2>2. 1000 * s[1] <= P(u) /\ P(u) <= P(v) /\ P(v) <= 1000 * s[n]
    BY <1>1, <2>1, InterpolatedInOrder DEF s, n
  <2> QED BY <2>2 DEF u, v
<1>8. /\ 1000 * r.min <= r.med /\ r.med <= r.p95 /\ r.p95 <= r.p99
      /\ r.p99 <= r.p999 /\ r.p999 <= 1000 * r.max
  <2> HIDE DEF P
  <2> QED BY <1>3, <1>4, <1>5, <1>7
<1>9. n * r.min <= r.sum /\ r.sum <= n * r.max
  <2>1. \A k \in 1 .. n : s[1] <= s[k] /\ s[k] <= s[n]
    <3>1. \A j, k \in DOMAIN samples : j <= k => s[j] <= s[k]
      BY SortedFacts DEF s
    <3>2. DOMAIN samples = 1 .. n
      BY DEF n
    <3> QED BY <1>1, <3>1, <3>2
  <2>2. s[1] \in Nat /\ s[n] \in Nat
    BY <1>1, <1>2
  <2>3. n * s[1] <= SumOf(s) /\ SumOf(s) <= n * s[n]
    BY <1>1, <1>2, <2>1, <2>2, MeanBetween
  <2> QED BY <1>3, <2>3
<1> DEFINE gap == 1000 * r.sum - n * r.med
<1>10. n * gap * gap <= 1000 * 1000 * r.sq_sum
  <2> DEFINE g == 1000 * SumOf(s) - n * Percentile(s, 500)
  <2>1. n * g * g <= Million * sq_sum(s)
    BY <1>1, MeanNearMedian DEF s, n
  <2>2. gap = g /\ r.sq_sum = sq_sum(s)
    BY <1>3, <1>4
  <2> HIDE DEF g, gap
  <2> QED BY <2>1, <2>2 DEF Million
<1> QED BY <1>8, <1>9, <1>10 DEF r, n, s
=============================================================================
