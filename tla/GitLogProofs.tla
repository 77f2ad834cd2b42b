----------------------------- MODULE GitLogProofs -----------------------------
(***************************************************************************)
(* What holds of the git log pipeline for any repositories, logs, slots    *)
(* and faults.                                                             *)
(***************************************************************************)
EXTENDS GitLog, ListProofs

-----------------------------------------------------------------------------
(* The pony factor is what it promises to be: taking the authors with the   *)
(* most commits first, the number that first reaches half of the commits is *)
(* the least number of authors that can.                                    *)

-------------------------------------------------------------------------------
(* Sums.                                                                    *)

Some(s) == CHOOSE y \in s : TRUE
IsTotals(sums, counts, S) ==
  sums = [s \in SUBSET S |-> IF s = {} THEN 0 ELSE counts[Some(s)] + sums[s \ {Some(s)}]]

LEMMA SomeIn == ASSUME NEW s, s # {} PROVE Some(s) \in s
BY DEF Some

LEMMA SumIsTotal ==
  ASSUME NEW counts, NEW S
  PROVE  SumFunctionOnSet(counts, S) = (CHOOSE sums : IsTotals(sums, counts, S))[S]
BY DEF SumFunctionOnSet, FoldFunctionOnSet, MapThenFoldSet, IsTotals, Some

(* There is such a function, built up over the sizes of the subsets.        *)
LEMMA TotalsExist ==
  ASSUME NEW S, IsFiniteSet(S), NEW counts, \A x \in S : counts[x] \in Nat
  PROVE  \E sums \in [SUBSET S -> Nat] : IsTotals(sums, counts, S)
<1> DEFINE next(f, s) == IF s = {} THEN 0 ELSE counts[Some(s)] + f[s \ {Some(s)}]
           Upto(f, n) == \A s \in SUBSET S : Cardinality(s) <= n => f[s] = next(f, s)
           Sizes == {n \in Nat : \E f \in [SUBSET S -> Nat] : Upto(f, n)}
<1>1. ASSUME NEW s \in SUBSET S
      PROVE  /\ IsFiniteSet(s) /\ Cardinality(s) \in Nat /\ Cardinality(s) <= Cardinality(S)
             /\ Cardinality(s) = 0 <=> s = {}
  BY FS_Subset, FS_CardinalityType, FS_EmptySet
<1>2. 0 \in Sizes
  <2> DEFINE f == [s \in SUBSET S |-> 0]
  <2>1. \A s \in SUBSET S : Cardinality(s) <= 0 => s = {}
    BY <1>1
  <2>2. f \in [SUBSET S -> Nat] /\ \A s \in SUBSET S : f[s] = 0
    OBVIOUS
  <2> HIDE DEF f
  <2>3. Upto(f, 0)
    BY <2>1, <2>2
  <2> QED BY <2>2, <2>3
<1>3. ASSUME NEW n \in Sizes PROVE n + 1 \in Sizes
  <2>1. PICK f \in [SUBSET S -> Nat] : Upto(f, n)
    OBVIOUS
  <2> DEFINE g == [s \in SUBSET S |-> next(f, s)]
  <2>2. ASSUME NEW s \in SUBSET S
        PROVE  next(f, s) \in Nat
    <3>1. CASE s = {}
      BY <3>1
    <3>2. CASE s # {}
      <4>1. Some(s) \in S /\ s \ {Some(s)} \in SUBSET S
        BY <3>2, SomeIn
      <4>2. f[s \ {Some(s)}] \in Nat /\ counts[Some(s)] \in Nat
        BY <4>1
      <4> QED BY <3>2, <4>2
    <3> QED BY <3>1, <3>2
  <2>3. g \in [SUBSET S -> Nat] /\ \A s \in SUBSET S : g[s] = next(f, s)
    BY <2>2
  <2>4. \A s \in SUBSET S : Cardinality(s) <= n => g[s] = f[s]
    BY <2>1, <2>3
  <2>5. ASSUME NEW s \in SUBSET S, Cardinality(s) <= n + 1
        PROVE  g[s] = next(g, s)
    <3>1. CASE s = {}
      BY <2>3, <3>1
    <3>2. CASE s # {}
      <4>1. Some(s) \in s
        BY <3>2, SomeIn
      <4>2. Cardinality(s \ {Some(s)}) <= n
        BY <1>1, <2>5, <4>1, OneLess
      <4>3. g[s \ {Some(s)}] = f[s \ {Some(s)}]
        BY <2>4, <4>2
      <4>4. g[s] = next(f, s)
        BY <2>3
      <4> QED BY <3>2, <4>3, <4>4
    <3> QED BY <3>1, <3>2
  <2> HIDE DEF g
  <2>6. Upto(g, n + 1)
    BY <2>5
  <2>7. \E h \in [SUBSET S -> Nat] : Upto(h, n + 1)
    <3> HIDE DEF Upto
    <3> QED BY <2>3, <2>6
  <2>8. n + 1 \in Nat
    OBVIOUS
  <2> HIDE DEF Upto
  <2> QED BY <2>7, <2>8
<1>4. Nat \subseteq Sizes
  <2> HIDE DEF Sizes
  <2> QED BY <1>2, <1>3, Induction
<1>5. Cardinality(S) \in Nat
  BY FS_CardinalityType
<1>6. PICK f \in [SUBSET S -> Nat] : Upto(f, Cardinality(S))
  BY <1>4, <1>5
<1>7. \A s \in SUBSET S : f[s] = next(f, s)
  BY <1>1, <1>6
<1>8. f = [s \in SUBSET S |-> next(f, s)]
  BY <1>7
<1> QED BY <1>8 DEF IsTotals

(* Such functions agree on the sets they share, again by size.              *)
LEMMA TotalsAgree ==
  ASSUME NEW S, IsFiniteSet(S), NEW T \in SUBSET S, NEW counts, NEW f, NEW g,
         IsTotals(f, counts, S), IsTotals(g, counts, T)
  PROVE  f[T] = g[T]
<1> DEFINE Agree(n) == \A s \in SUBSET T : Cardinality(s) = n => f[s] = g[s]
           Sizes == {n \in Nat : Agree(n)}
<1>1. ASSUME NEW s \in SUBSET T
      PROVE  IsFiniteSet(s) /\ Cardinality(s) \in Nat /\ (Cardinality(s) = 0 <=> s = {})
  <2>1. s \in SUBSET S
    OBVIOUS
  <2> QED BY <2>1, FS_Subset, FS_CardinalityType, FS_EmptySet
<1>2. ASSUME NEW s \in SUBSET T
      PROVE  /\ f[s] = IF s = {} THEN 0 ELSE counts[Some(s)] + f[s \ {Some(s)}]
             /\ g[s] = IF s = {} THEN 0 ELSE counts[Some(s)] + g[s \ {Some(s)}]
  <2>1. s \in SUBSET S
    OBVIOUS
  <2>2. f[s] = IF s = {} THEN 0 ELSE counts[Some(s)] + f[s \ {Some(s)}]
    BY <2>1, Zenon DEF IsTotals
  <2>3. g[s] = IF s = {} THEN 0 ELSE counts[Some(s)] + g[s \ {Some(s)}]
    BY Zenon DEF IsTotals
  <2> QED BY <2>2, <2>3
<1>3. 0 \in Sizes
  BY <1>1, <1>2
<1>4. ASSUME NEW n \in Sizes \cap Nat PROVE n + 1 \in Sizes
  <2>1. ASSUME NEW s \in SUBSET T, Cardinality(s) = n + 1 PROVE f[s] = g[s]
    <3>1. s # {}
      BY <1>1, <2>1
    <3>2. Some(s) \in s
      BY <3>1, SomeIn
    <3>3. Cardinality(s \ {Some(s)}) = n
      BY <1>1, <2>1, <3>2, OneLess
    <3>4. f[s \ {Some(s)}] = g[s \ {Some(s)}]
      BY <3>3
    <3> QED BY <1>2, <3>1, <3>4
  <2> QED BY <2>1
<1>5. Nat \subseteq Sizes
  <2> HIDE DEF Sizes
  <2> QED BY <1>3, <1>4, Induction
<1>6. Agree(Cardinality(T))
  BY <1>1, <1>5
<1> QED BY <1>6

LEMMA SumOfTotals ==
  ASSUME NEW S, IsFiniteSet(S), NEW counts, \A x \in S : counts[x] \in Nat
  PROVE  \E f \in [SUBSET S -> Nat] : IsTotals(f, counts, S) /\ SumFunctionOnSet(counts, S) = f[S]
<1> DEFINE f == CHOOSE sums : IsTotals(sums, counts, S)
<1>1. PICK g \in [SUBSET S -> Nat] : IsTotals(g, counts, S)
  BY TotalsExist
<1>2. IsTotals(f, counts, S)
  BY <1>1
<1>3. SumFunctionOnSet(counts, S) = f[S]
  BY SumIsTotal
<1> HIDE DEF f
<1>4. f[S] = g[S]
  BY <1>1, <1>2, TotalsAgree
<1> QED BY <1>1, <1>3, <1>4

LEMMA SumType ==
  ASSUME NEW S, IsFiniteSet(S), NEW counts, \A x \in S : counts[x] \in Nat
  PROVE  SumFunctionOnSet(counts, S) \in Nat
<1>1. PICK f \in [SUBSET S -> Nat] : SumFunctionOnSet(counts, S) = f[S]
  BY SumOfTotals
<1> QED BY <1>1

LEMMA SumOfNothing == ASSUME NEW counts PROVE SumFunctionOnSet(counts, {}) = 0
<1>1. IsFiniteSet({})
  BY FS_EmptySet
<1>2. PICK f : IsTotals(f, counts, {}) /\ SumFunctionOnSet(counts, {}) = f[{}]
  BY <1>1, SumOfTotals
<1> QED BY <1>2 DEF IsTotals

LEMMA SumTakesSome ==
  ASSUME NEW S, IsFiniteSet(S), S # {}, NEW counts, \A x \in S : counts[x] \in Nat
  PROVE  SumFunctionOnSet(counts, S) = counts[Some(S)] + SumFunctionOnSet(counts, S \ {Some(S)})
<1> DEFINE rest == S \ {Some(S)}
<1>1. PICK f : IsTotals(f, counts, S) /\ SumFunctionOnSet(counts, S) = f[S]
  BY SumOfTotals
<1>2. IsFiniteSet(rest)
  BY FS_Subset
<1>3. PICK g : IsTotals(g, counts, rest) /\ SumFunctionOnSet(counts, rest) = g[rest]
  BY <1>2, SumOfTotals
<1>4. f[S] = counts[Some(S)] + f[rest]
  BY <1>1 DEF IsTotals
<1> HIDE DEF rest
<1>5. rest \in SUBSET S
  BY DEF rest
<1>6. f[rest] = g[rest]
  BY <1>1, <1>3, <1>5, TotalsAgree
<1> QED BY <1>1, <1>3, <1>4, <1>6 DEF rest

(* The order of the additions does not matter: any element can be first.    *)
LEMMA SumTakesAny ==
  ASSUME NEW S, IsFiniteSet(S), NEW counts, \A x \in S : counts[x] \in Nat, NEW e \in S
  PROVE  SumFunctionOnSet(counts, S) = counts[e] + SumFunctionOnSet(counts, S \ {e})
<1> DEFINE Sum(T) == SumFunctionOnSet(counts, T)
           AnyFirst(n) == \A T \in SUBSET S : Cardinality(T) = n =>
                       \A x \in T : Sum(T) = counts[x] + Sum(T \ {x})
           Sizes == {n \in Nat : AnyFirst(n)}
<1>1. ASSUME NEW T \in SUBSET S
      PROVE  /\ IsFiniteSet(T) /\ Cardinality(T) \in Nat /\ Sum(T) \in Nat
             /\ Cardinality(T) = 0 <=> T = {}
  BY FS_Subset, FS_CardinalityType, FS_EmptySet, SumType
<1>2. ASSUME NEW T \in SUBSET S, T # {}
      PROVE  Some(T) \in T /\ Sum(T) = counts[Some(T)] + Sum(T \ {Some(T)})
  BY <1>1, <1>2, SomeIn, SumTakesSome
<1> HIDE DEF Sum
<1>3. 0 \in Sizes
  BY <1>1
<1>4. ASSUME NEW n \in Sizes \cap Nat PROVE n + 1 \in Sizes
  <2>1. ASSUME NEW T \in SUBSET S, Cardinality(T) = n + 1, NEW x \in T
        PROVE  Sum(T) = counts[x] + Sum(T \ {x})
    <3> DEFINE y == Some(T)
    <3>1. y \in T /\ Sum(T) = counts[y] + Sum(T \ {y})
      BY <1>2, <2>1
    <3> HIDE DEF y
    <3>2. CASE x = y
      BY <3>1, <3>2
    <3>3. CASE x # y
      <4> DEFINE both == (T \ {x}) \ {y}
      <4>1. Cardinality(T \ {x}) = n /\ Cardinality(T \ {y}) = n
        BY <1>1, <2>1, <3>1, OneLess
      <4>2. (T \ {y}) \ {x} = both /\ x \in T \ {y} /\ y \in T \ {x} /\ both \in SUBSET S
        BY <2>1, <3>1, <3>3
      <4>3. Sum(T \ {y}) = counts[x] + Sum(both) /\ Sum(T \ {x}) = counts[y] + Sum(both)
        BY <4>1, <4>2
      <4>4. counts[x] \in Nat /\ counts[y] \in Nat /\ Sum(both) \in Nat
        BY <1>1, <2>1, <3>1, <4>2
      <4> HIDE DEF both
      <4> QED BY <3>1, <4>3, <4>4
    <3> QED BY <3>2, <3>3
  <2> QED BY <2>1
<1>5. Nat \subseteq Sizes
  <2> HIDE DEF Sizes
  <2> QED BY <1>3, <1>4, Induction
<1>6. AnyFirst(Cardinality(S))
  BY <1>1, <1>5
<1> QED BY <1>6 DEF Sum

(* Equal counts have equal sums.                                            *)
LEMMA SumsAgree ==
  ASSUME NEW S, IsFiniteSet(S), NEW c, NEW d, \A x \in S : c[x] \in Nat /\ c[x] = d[x]
  PROVE  SumFunctionOnSet(c, S) = SumFunctionOnSet(d, S)
<1>1. PICK f : IsTotals(f, c, S) /\ SumFunctionOnSet(c, S) = f[S]
  BY SumOfTotals
<1>2. PICK g : IsTotals(g, d, S) /\ SumFunctionOnSet(d, S) = g[S]
  BY SumOfTotals
<1>3. ASSUME NEW s \in SUBSET S
      PROVE  (IF s = {} THEN 0 ELSE c[Some(s)] + g[s \ {Some(s)}])
             = (IF s = {} THEN 0 ELSE d[Some(s)] + g[s \ {Some(s)}])
  BY SomeIn
<1>4. IsTotals(g, c, S)
  BY <1>2, <1>3, Zenon DEF IsTotals
<1> QED BY <1>1, <1>2, <1>4, TotalsAgree
-------------------------------------------------------------------------------
(* The pony factor.                                                         *)

(* No authors, as many as these, have more commits than the first ones.     *)
LEMMA FirstHaveMost ==
  ASSUME NEW S, IsFiniteSet(S), NEW counts \in [S -> Nat], NEW list \in SetToSeqs(S),
         \A i, j \in DOMAIN list : i < j => counts[list[i]] >= counts[list[j]],
         NEW T \in SUBSET S
  PROVE  SumFunctionOnSet(counts, T) <= SumFunctionOnSet(counts, {list[i] : i \in 1..Cardinality(T)})
<1> DEFINE size == Cardinality(S)
           first(n) == {list[i] : i \in 1..n}
           Sum(X) == SumFunctionOnSet(counts, X)
           Most(n) == n <= size => \A X \in SUBSET S : Cardinality(X) = n => Sum(X) <= Sum(first(n))
           Sizes == {n \in Nat : Most(n)}
<1>1. /\ size \in Nat /\ list \in [1..size -> S] /\ DOMAIN list = 1..size
      /\ \A i, j \in 1..size : i # j => list[i] # list[j]
      /\ \A x \in S : \E i \in 1..size : list[i] = x
  BY ListOfSet
<1>2. ASSUME NEW X \in SUBSET S
      PROVE  IsFiniteSet(X) /\ Cardinality(X) \in Nat /\ Cardinality(X) <= size /\ Sum(X) \in Nat
             /\ (Cardinality(X) = 0 <=> X = {})
  BY FS_Subset, FS_CardinalityType, FS_EmptySet, SumType
<1>3. ASSUME NEW X \in SUBSET S, NEW x \in X
      PROVE  Sum(X) = counts[x] + Sum(X \ {x})
  BY <1>2, SumTakesAny
<1>4. ASSUME NEW n \in 0..size
      PROVE  first(n) \in SUBSET S /\ Cardinality(first(n)) = n
  <2>1. first(n) \in SUBSET S
    BY <1>1
  <2>2. Cardinality(first(n)) = n
    <3> DEFINE those == first(n)
    <3>1. those = {list[i] : i \in 1..n}
      OBVIOUS
    <3> HIDE DEF those
    <3>2. Cardinality(those) = n
      BY <3>1, FirstSize
    <3> QED BY <3>2 DEF those
  <2> QED BY <2>1, <2>2
<1> HIDE DEF Sum
<1>5. 0 \in Sizes
  <2>1. first(0) = {}
    OBVIOUS
  <2>2. Sum({}) \in Nat
    BY <1>2
  <2> QED BY <1>2, <2>1, <2>2
<1>6. ASSUME NEW n \in Sizes \cap Nat PROVE n + 1 \in Sizes
  <2>1. ASSUME n + 1 <= size, NEW X \in SUBSET S, Cardinality(X) = n + 1
        PROVE  Sum(X) <= Sum(first(n + 1))
    <3>1. n \in 0..size /\ n + 1 \in 1..size
      BY <1>1, <2>1
    <3>2. first(n + 1) = first(n) \cup {list[n + 1]} /\ list[n + 1] \notin first(n) /\ list[n + 1] \in S
      <4>1. 1..(n + 1) = 1..n \cup {n + 1}
        OBVIOUS
      <4>2. \A i \in 1..n : list[i] # list[n + 1]
        BY <1>1, <3>1
      <4> QED BY <1>1, <3>1, <4>1, <4>2
    <3>3. first(n) \in SUBSET S /\ first(n + 1) \in SUBSET S
          /\ Cardinality(first(n)) = n /\ Cardinality(first(n + 1)) = n + 1
      BY <1>4, <3>1
    <3>4. PICK t \in X : t \notin first(n)
      <4>1. X \in SUBSET first(n) => Cardinality(X) <= n
        BY <1>2, <3>3, FS_Subset
      <4> QED BY <2>1, <4>1
    <3>5. PICK k \in 1..size : list[k] = t
      BY <1>1, <2>1
    <3>6. k >= n + 1
      BY <1>1, <3>4, <3>5
    <3>7. counts[t] <= counts[list[n + 1]] /\ counts[t] \in Nat /\ counts[list[n + 1]] \in Nat
      <4>1. counts[t] \in Nat /\ counts[list[n + 1]] \in Nat
        BY <1>1, <2>1, <3>1
      <4>2. k = n + 1 \/ n + 1 < k
        BY <1>1, <3>6
      <4> QED BY <1>1, <3>1, <3>5, <4>1, <4>2
    <3>8. Sum(X \ {t}) <= Sum(first(n))
      <4>1. Cardinality(X \ {t}) = n /\ X \ {t} \in SUBSET S /\ n <= size
        <5>1. IsFiniteSet(X)
          BY <1>2
        <5>2. Cardinality(X \ {t}) = Cardinality(X) - 1
          BY <5>1, OneLess
        <5> QED BY <1>1, <2>1, <3>1, <5>2
      <4> QED BY <4>1
    <3>9. Sum(X) = counts[t] + Sum(X \ {t}) /\ Sum(X \ {t}) \in Nat
      BY <1>2, <1>3, <2>1
    <3>10. Sum(first(n + 1)) = counts[list[n + 1]] + Sum(first(n)) /\ Sum(first(n)) \in Nat
      <4>1. first(n + 1) \ {list[n + 1]} = first(n) /\ list[n + 1] \in first(n + 1)
        BY <3>2
      <4> QED BY <1>2, <1>3, <3>3, <4>1
    <3> HIDE DEF first
    <3> QED BY <3>7, <3>8, <3>9, <3>10
  <2> QED BY <2>1
<1>7. Nat \subseteq Sizes
  <2> HIDE DEF Sizes
  <2> QED BY <1>5, <1>6, Induction
<1>8. Most(Cardinality(T)) /\ Cardinality(T) <= size
  BY <1>2, <1>7
<1> QED BY <1>8 DEF Sum

LEMMA SortedAuthors ==
  ASSUME NEW S, IsFiniteSet(S), NEW counts \in [S -> Nat], NEW sorted,
         sorted = CHOOSE list \in SetToSeqs(S) :
                    \A i, j \in DOMAIN list : i < j => counts[list[i]] >= counts[list[j]]
  PROVE  /\ sorted \in SetToSeqs(S)
         /\ \A i, j \in DOMAIN sorted : i < j => counts[sorted[i]] >= counts[sorted[j]]
<1> DEFINE rel == {xy \in S \X S : counts[xy[1]] >= counts[xy[2]]}
           Falls(list) == \A i, j \in DOMAIN list : i < j => counts[list[i]] >= counts[list[j]]
<1>1. \A x, y \in S : <<x, y>> \in rel <=> counts[x] >= counts[y]
  OBVIOUS
<1>2. IsOrder(rel, S)
  <2> HIDE DEF rel
  <2> QED BY <1>1 DEF IsOrder
<1> HIDE DEF rel
<1>3. PICK list \in SetToSeqs(S) : Sorted(list, rel)
  BY <1>2, SortedListExists
<1>4. Falls(list)
  <2>1. \A i \in DOMAIN list : list[i] \in S
    BY ListOfSet
  <2> QED BY <1>1, <1>3, <2>1 DEF Sorted
<1>5. sorted = CHOOSE l \in SetToSeqs(S) : Falls(l)
  OBVIOUS
<1> HIDE DEF Falls
<1>6. sorted \in SetToSeqs(S) /\ Falls(sorted)
  BY <1>3, <1>4, <1>5
<1> QED BY <1>6 DEF Falls

(* compute_pony_factor returns the least number of authors with half of the *)
(* commits: its loop over the sorted counts stops at a number that no other *)
(* choice of authors beats, for any authors, counts and order of ties       *)
(* (metrics/pony_factor.py).                                                *)
THEOREM PonyFactorIsLeast ==
  ASSUME NEW S, IsFiniteSet(S), NEW counts \in [S -> Nat]
  PROVE  /\ ComputePonyFactor(counts) \in HalfBy(counts) /\ ComputePonyFactor(counts) \in Nat
         /\ \A n \in HalfBy(counts) : ComputePonyFactor(counts) <= n
<1> DEFINE sorted == Ordered(S, LAMBDA x, y : counts[x] >= counts[y])
           first(n) == {sorted[i] : i \in 1..n}
           Sum(T) == SumFunctionOnSet(counts, T)
           size == Cardinality(S)
           enough == {n \in 0..Len(sorted) : 2 * Sum(first(n)) >= Sum(S)}
           least == CHOOSE n \in enough : \A k \in enough : n <= k
<1>1. DOMAIN counts = S
  OBVIOUS
<1>2. ComputePonyFactor(counts) = least
  BY <1>1 DEF ComputePonyFactor, SumFunction
<1>3. ASSUME NEW T \in SUBSET S
      PROVE  Cardinality(T) \in 0..size /\ Sum(T) \in Nat
  BY FS_Subset, FS_CardinalityType, SumType
<1>4. /\ sorted \in SetToSeqs(S)
      /\ \A i, j \in DOMAIN sorted : i < j => counts[sorted[i]] >= counts[sorted[j]]
  <2>1. sorted = CHOOSE list \in SetToSeqs(S) :
                   \A i, j \in DOMAIN list : i < j => counts[list[i]] >= counts[list[j]]
    BY DEF Ordered
  <2> HIDE DEF sorted
  <2> QED BY <2>1, SortedAuthors
<1> HIDE DEF sorted
<1>5. size \in Nat /\ Len(sorted) = size /\ first(size) = S /\ sorted \in [1..size -> S]
  <2>1. size \in Nat /\ Len(sorted) = size /\ sorted \in [1..size -> S]
        /\ \A x \in S : \E i \in 1..size : sorted[i] = x
    BY <1>4, ListOfSet
  <2> QED BY <2>1
<1>6. ASSUME NEW n \in 0..size PROVE first(n) \in SUBSET S /\ Cardinality(first(n)) = n
  <2> DEFINE those == first(n)
  <2>1. those = {sorted[i] : i \in 1..n}
    OBVIOUS
  <2>2. those \in SUBSET S
    BY <1>5
  <2> HIDE DEF those
  <2>3. Cardinality(those) = n
    BY <1>4, <2>1, FirstSize
  <2> QED BY <2>2, <2>3 DEF those
<1>7. ASSUME NEW T \in SUBSET S PROVE Sum(T) <= Sum(first(Cardinality(T)))
  BY <1>4, FirstHaveMost
<1>8. HalfBy(counts) = {Cardinality(T) : T \in {U \in SUBSET S : 2 * Sum(U) >= Sum(S)}}
  BY <1>1 DEF HalfBy, SumFunction
<1> HIDE DEF first, Sum
<1>9. size \in enough
  <2>1. 2 * Sum(S) >= Sum(S)
    BY <1>3
  <2> QED BY <1>5, <2>1
<1>10. least \in enough /\ \A k \in enough : least <= k
  <2>1. enough \subseteq Nat
    BY <1>5
  <2> HIDE DEF enough
  <2>2. \E n \in enough : \A k \in enough : n <= k
    BY <1>9, <2>1, LeastElement
  <2> QED BY <2>2
<1> HIDE DEF least
<1>11. least \in HalfBy(counts)
  <2>1. first(least) \in SUBSET S /\ Cardinality(first(least)) = least
    BY <1>5, <1>6, <1>10
  <2>2. 2 * Sum(first(least)) >= Sum(S)
    BY <1>10
  <2> QED BY <1>8, <2>1, <2>2
<1>12. ASSUME NEW n \in HalfBy(counts) PROVE least <= n
  <2>1. PICK T \in SUBSET S : n = Cardinality(T) /\ 2 * Sum(T) >= Sum(S)
    BY <1>8
  <2>2. n \in 0..size /\ Sum(T) <= Sum(first(n)) /\ Sum(T) \in Nat /\ Sum(S) \in Nat /\ Sum(first(n)) \in Nat
    BY <1>3, <1>6, <1>7, <2>1
  <2>3. 2 * Sum(first(n)) >= Sum(S)
    BY <2>1, <2>2
  <2>4. n \in enough
    BY <1>5, <2>2, <2>3
  <2> QED BY <1>10, <2>4
<1>13. least \in Nat
  BY <1>5, <1>10
<1> QED BY <1>2, <1>11, <1>12, <1>13
-----------------------------------------------------------------------------

(* What a busy slot knows: its batch, whose marks are terminal failures,    *)
(* and, once statistics are committed, the log they came from.              *)
KnowsBatch(s) ==
  /\ {"pc", "job", "at", "failed"} \subseteq DOMAIN slots[s]
  /\ slots[s].failed \subseteq terminal
KnowsLog(s) ==
  /\ slots[s].pc \in {"load", "persist"} => slots[s].path = slots[s].log
  /\ slots[s].pc = "audit" =>
       /\ slots[s].log # 0 => <<Repo(s), slots[s].log>> \in persisted
       /\ slots[s].path # 0 => slots[s].path = slots[s].log

SlotsKnow ==
  /\ slots = [s \in Slots |-> slots[s]]
  /\ \A s \in Slots : Busy(s) => KnowsBatch(s) /\ KnowsLog(s)

(* The rows of the audit are records: an older one loses its path and keeps *)
(* the rest.                                                                *)
AuditRows == \A a \in artifacts : {"repo", "status", "path"} \subseteq DOMAIN a

Inv == SlotsKnow /\ AuditRows /\ HiddenIsTerminal /\ ProcessedIsPersisted
-------------------------------------------------------------------------------
(* Answers of git, and the steps of one slot.                               *)

(* A failure that _is_terminal_git_failure accepts was not throttled.        *)
LEMMA TerminalAnswer ==
  ASSUME NEW answer \in Answers, IsTerminal(answer)
  PROVE  answer.message = {"not found"}
<1>1. answer \in {[ok |-> TRUE, message |-> {}]} \/ answer \in [ok : {FALSE}, message : SUBSET {"rate limit", "not found"}]
  BY DEF Answers
<1>2. CASE answer = [ok |-> TRUE, message |-> {}]
  BY <1>2 DEF IsTerminal
<1>3. CASE answer \in [ok : {FALSE}, message : SUBSET {"rate limit", "not found"}]
  <2>1. answer.message \subseteq {"rate limit", "not found"}
    BY <1>3
  <2> QED BY <2>1 DEF IsTerminal, IsRateLimit
<1> QED BY <1>1, <1>2, <1>3

LEMMA ParsedAnswer == ParseResults \subseteq Answers
<1> SUFFICES ASSUME NEW answers \in [1..(MaxRetries + 1) -> Answers]
             PROVE  ParseWithBackoff(answers) \in Answers
  BY DEF ParseResults
<1> DEFINE final == {i \in DOMAIN answers : ~IsRateLimit(answers[i])} \cup {Len(answers)}
<1>1. Len(answers) = MaxRetries + 1 /\ DOMAIN answers = 1..(MaxRetries + 1)
  BY GitLogConstants DEF GitLogConstants
<1>2. final \subseteq 1..(MaxRetries + 1) /\ final # {}
  BY <1>1, GitLogConstants DEF GitLogConstants
<1>3. final \subseteq Nat
  BY <1>2, GitLogConstants DEF GitLogConstants
<1> HIDE DEF final
<1>4. \E i \in final : \A j \in final : i <= j
  BY <1>2, <1>3, LeastElement
<1>5. (CHOOSE i \in final : \A j \in final : i <= j) \in final
  BY <1>4
<1>6. answers[CHOOSE i \in final : \A j \in final : i <= j] \in Answers
  BY <1>1, <1>2, <1>5
<1> QED BY <1>6 DEF ParseWithBackoff, final

(* A step gives one slot a new state and leaves the others alone.           *)
LEMMA GoSlot ==
  ASSUME SlotsKnow, NEW s \in Slots, NEW state, Go(s, state)
  PROVE  /\ slots' = [t \in Slots |-> slots'[t]]
         /\ slots'[s] = state
         /\ \A t \in Slots \ {s} : slots'[t] = slots[t]
BY DEF SlotsKnow, Go

(* The fields a slot goes on with, and those it keeps.                      *)
LEMMA ProceedSlot ==
  ASSUME SlotsKnow, NEW s \in Slots, NEW pc, NEW fields, Proceed(s, pc, fields),
         DOMAIN fields \cap {"pc", "job", "at"} = {}
  PROVE  /\ slots' = [t \in Slots |-> slots'[t]]
         /\ \A t \in Slots \ {s} : slots'[t] = slots[t]
         /\ {"pc", "job", "at", "failed"} \subseteq DOMAIN slots'[s]
         /\ slots'[s].pc = pc
         /\ Repo(s)' = Repo(s) /\ slots'[s].job = slots[s].job /\ slots'[s].at = slots[s].at
         /\ \A x \in DOMAIN fields : slots'[s][x] = fields[x]
         /\ "failed" \notin DOMAIN fields => slots'[s].failed = slots[s].failed
<1> DEFINE state == Over(fields, Over([pc |-> pc], Kept(s)))
<1>1. Go(s, state)
  BY DEF Proceed
<1>2. DOMAIN state = DOMAIN fields \cup {"pc", "job", "at", "failed"}
  BY DEF Over, Kept
<1>3. \A x \in DOMAIN fields : state[x] = fields[x]
  BY DEF Over
<1>4. state.pc = pc /\ state.job = slots[s].job /\ state.at = slots[s].at
  BY DEF Over, Kept
<1>5. "failed" \notin DOMAIN fields => state.failed = slots[s].failed
  BY DEF Over, Kept
<1> HIDE DEF state
<1>6. slots'[s] = state
  BY <1>1, GoSlot
<1>7. Repo(s)' = Repo(s)
  BY <1>4, <1>6 DEF Repo
<1> QED BY <1>1, <1>2, <1>3, <1>4, <1>5, <1>6, <1>7, GoSlot

(* What the other slots know, and the rows of the audit, stay true while    *)
(* the histories grow.                                                      *)
LEMMA OneSlotMoves ==
  ASSUME SlotsKnow, NEW s \in Slots,
         slots' = [t \in Slots |-> slots'[t]],
         \A t \in Slots \ {s} : slots'[t] = slots[t],
         terminal \subseteq terminal', persisted \subseteq persisted',
         Busy(s)' => KnowsBatch(s)' /\ KnowsLog(s)'
  PROVE  SlotsKnow'
<1> SUFFICES ASSUME NEW t \in Slots, t # s, Busy(t)'
             PROVE  KnowsBatch(t)' /\ KnowsLog(t)'
  BY DEF SlotsKnow
<1>1. slots'[t] = slots[t]
  OBVIOUS
<1>2. KnowsBatch(t) /\ KnowsLog(t)
  BY <1>1 DEF SlotsKnow, Busy
<1> QED BY <1>1, <1>2 DEF KnowsBatch, KnowsLog, Repo

LEMMA SlotFails ==
  ASSUME SlotsKnow, NEW s \in Slots, Fail(s),
         terminal \subseteq terminal', persisted \subseteq persisted'
  PROVE  SlotsKnow'
<1>1. Go(s, Idle)
  BY DEF Fail
<1>2. ~ Busy(s)'
  BY <1>1, GoSlot DEF Busy, Idle
<1> QED BY <1>1, <1>2, GoSlot, OneSlotMoves

LEMMA AuditStays ==
  ASSUME ProcessedIsPersisted, AuditRows, UNCHANGED artifacts, persisted \subseteq persisted'
  PROVE  ProcessedIsPersisted' /\ AuditRows'
BY DEF ProcessedIsPersisted, AuditRows

LEMMA HiddenStays ==
  ASSUME HiddenIsTerminal, UNCHANGED visible, terminal \subseteq terminal'
  PROVE  HiddenIsTerminal'
BY DEF HiddenIsTerminal
-------------------------------------------------------------------------------
(* The steps of a batch.                                                    *)

LEMMA ParseRepoKeeps ==
  ASSUME Inv, NEW s \in Slots, ParseRepo(s)
  PROVE  Inv'
<1>1. UNCHANGED <<artifacts, visible, persisted>> /\ terminal \subseteq terminal'
  BY DEF ParseRepo
<1>2. KnowsBatch(s)
  BY DEF Inv, SlotsKnow, ParseRepo, Busy
<1>3. SlotsKnow'
  <2>1. CASE Fail(s)
    BY <1>1, <2>1, SlotFails DEF Inv
  <2>2. ASSUME NEW answer \in ParseResults, answer.ok,
               Proceed(s, "store", [log |-> now])
        PROVE  SlotsKnow'
    <3>1. /\ slots' = [t \in Slots |-> slots'[t]]
          /\ \A t \in Slots \ {s} : slots'[t] = slots[t]
          /\ {"pc", "job", "at", "failed"} \subseteq DOMAIN slots'[s]
          /\ slots'[s].pc = "store"
          /\ slots'[s].failed = slots[s].failed
      BY <2>2, ProceedSlot DEF Inv
    <3>2. KnowsBatch(s)' /\ KnowsLog(s)'
      BY <1>1, <1>2, <3>1 DEF KnowsBatch, KnowsLog
    <3> QED BY <1>1, <3>1, <3>2, OneSlotMoves DEF Inv
  <2>3. ASSUME NEW answer \in ParseResults, ~answer.ok,
               Proceed(s, "audit", [log |-> 0, path |-> 0,
                 failed |-> slots[s].failed \cup (IF IsTerminal(answer) THEN {Repo(s)} ELSE {})]),
               terminal' = IF ~answer.ok /\ answer.message = {"not found"}
                           THEN terminal \cup {Repo(s)} ELSE terminal
        PROVE  SlotsKnow'
    <3> DEFINE marked == slots[s].failed \cup (IF IsTerminal(answer) THEN {Repo(s)} ELSE {})
               fields == [log |-> 0, path |-> 0, failed |-> marked]
    <3>1. Proceed(s, "audit", fields) /\ DOMAIN fields = {"log", "path", "failed"}
      BY <2>3
    <3>2. fields.log = 0 /\ fields.path = 0 /\ fields.failed = marked
      OBVIOUS
    <3>3. marked \subseteq terminal'
      BY <1>2, <2>3, ParsedAnswer, TerminalAnswer DEF KnowsBatch
    <3> HIDE DEF marked, fields
    <3>4. /\ slots' = [t \in Slots |-> slots'[t]]
          /\ \A t \in Slots \ {s} : slots'[t] = slots[t]
          /\ {"pc", "job", "at", "failed"} \subseteq DOMAIN slots'[s]
          /\ \A x \in DOMAIN fields : slots'[s][x] = fields[x]
      BY <3>1, ProceedSlot DEF Inv
    <3>5. slots'[s].log = 0 /\ slots'[s].path = 0 /\ slots'[s].failed = marked
      BY <3>1, <3>2, <3>4
    <3>6. slots'[s].pc = "audit"
      BY <3>1, ProceedSlot DEF Inv
    <3>7. KnowsBatch(s)' /\ KnowsLog(s)'
      BY <3>3, <3>4, <3>5, <3>6 DEF KnowsBatch, KnowsLog
    <3> QED BY <1>1, <3>4, <3>7, OneSlotMoves DEF Inv
  <2>4. Fail(s) \/ \E answer \in ParseResults :
             /\ IF answer.ok
                THEN Proceed(s, "store", [log |-> now])
                ELSE Proceed(s, "audit", [log |-> 0, path |-> 0,
                       failed |-> slots[s].failed \cup (IF IsTerminal(answer) THEN {Repo(s)} ELSE {})])
             /\ terminal' = IF ~answer.ok /\ answer.message = {"not found"}
                            THEN terminal \cup {Repo(s)} ELSE terminal
    BY DEF ParseRepo
  <2> QED BY <2>1, <2>2, <2>3, <2>4
<1> QED BY <1>1, <1>3, AuditStays, HiddenStays DEF Inv

(* A slot that reads keeps its log, and what it has read so far.            *)
LEMMA ReadsOn ==
  ASSUME NEW s \in Slots, StoreArtifact(s) \/ LoadStatistics(s)
  PROVE  \/ Fail(s) \/ Proceed(s, "audit", [log |-> 0, path |-> 0])
         \/ \E pc \in {"load", "persist"} : \E fields :
              /\ Proceed(s, pc, fields)
              /\ DOMAIN fields = {"log", "path", "row", "known", "date"}
              /\ fields.log = slots[s].log /\ fields.path = slots[s].log
<1>1. ASSUME NEW authors, NEW row, NEW known, NEW date, Read(s, authors, row, known, date)
      PROVE  \E pc \in {"load", "persist"} : \E fields :
               /\ Proceed(s, pc, fields)
               /\ DOMAIN fields = {"log", "path", "row", "known", "date"}
               /\ fields.log = slots[s].log /\ fields.path = slots[s].log
  <2> DEFINE fields == [log |-> slots[s].log, path |-> slots[s].log, row |-> row, known |-> known, date |-> date]
  <2>1. /\ DOMAIN fields = {"log", "path", "row", "known", "date"}
        /\ fields.log = slots[s].log /\ fields.path = slots[s].log
    OBVIOUS
  <2>2. Proceed(s, "load", fields) \/ Proceed(s, "persist", fields)
    BY <1>1 DEF Read
  <2> HIDE DEF fields
  <2> QED BY <2>1, <2>2
<1>2. CASE StoreArtifact(s)
  <2>1. \/ \E authors : Read(s, authors, <<>>, {}, dates[Repo(s)])
        \/ Fail(s) \/ Proceed(s, "audit", [log |-> 0, path |-> 0])
    BY <1>2, Zenon DEF StoreArtifact
  <2> QED BY <1>1, <2>1, Zenon
<1>3. CASE LoadStatistics(s)
  <2>1. \E authors, row, known, date : Read(s, authors, row, known, date)
    BY <1>3, Zenon DEF LoadStatistics
  <2> QED BY <1>1, <2>1, Zenon
<1> QED BY <1>2, <1>3

LEMMA ReadingKeeps ==
  ASSUME Inv, NEW s \in Slots, StoreArtifact(s) \/ LoadStatistics(s)
  PROVE  Inv'
<1>1. UNCHANGED <<artifacts, visible, persisted, terminal>>
  BY DEF StoreArtifact, LoadStatistics, history
<1>2. KnowsBatch(s)
  BY DEF Inv, SlotsKnow, StoreArtifact, LoadStatistics, Busy
<1>3. ASSUME NEW pc, NEW fields, NEW log,
             Proceed(s, pc, fields), DOMAIN fields \cap {"pc", "job", "at", "failed"} = {},
             {"log", "path"} \subseteq DOMAIN fields, fields.log = log, fields.path = log,
             pc \in {"load", "persist"} \/ (pc = "audit" /\ log = 0)
      PROVE  SlotsKnow'
  <2>1. /\ slots' = [t \in Slots |-> slots'[t]]
        /\ \A t \in Slots \ {s} : slots'[t] = slots[t]
        /\ {"pc", "job", "at", "failed"} \subseteq DOMAIN slots'[s]
        /\ slots'[s].pc = pc
        /\ slots'[s].log = log /\ slots'[s].path = log
        /\ slots'[s].failed = slots[s].failed
    BY <1>3, ProceedSlot DEF Inv
  <2>2. KnowsBatch(s)' /\ KnowsLog(s)'
    BY <1>1, <1>2, <1>3, <2>1 DEF KnowsBatch, KnowsLog
  <2> QED BY <1>1, <2>1, <2>2, OneSlotMoves DEF Inv
<1>4. ASSUME Proceed(s, "audit", [log |-> 0, path |-> 0])
      PROVE  SlotsKnow'
  BY <1>3, <1>4
<1>5. ASSUME Fail(s) PROVE SlotsKnow'
  BY <1>1, <1>5, SlotFails DEF Inv
<1>6. SlotsKnow'
  BY <1>3, <1>4, <1>5, ReadsOn
<1> QED BY <1>1, <1>6, AuditStays, HiddenStays DEF Inv

LEMMA PersistStatisticsKeeps ==
  ASSUME Inv, NEW s \in Slots, PersistStatistics(s)
  PROVE  Inv'
<1>1. /\ UNCHANGED <<artifacts, visible, terminal>>
      /\ terminal \subseteq terminal' /\ persisted \subseteq persisted'
  BY DEF PersistStatistics
<1>2. KnowsBatch(s) /\ slots[s].path = slots[s].log
  BY DEF Inv, SlotsKnow, KnowsLog, PersistStatistics, Busy
<1>3. ASSUME persisted' = persisted \cup {<<Repo(s), slots[s].log>>},
             Proceed(s, "audit", [log |-> slots[s].log, path |-> slots[s].path])
      PROVE  SlotsKnow'
  <2>1. /\ slots' = [t \in Slots |-> slots'[t]]
        /\ \A t \in Slots \ {s} : slots'[t] = slots[t]
        /\ {"pc", "job", "at", "failed"} \subseteq DOMAIN slots'[s]
        /\ slots'[s].pc = "audit"
        /\ Repo(s)' = Repo(s)
        /\ slots'[s].log = slots[s].log /\ slots'[s].path = slots[s].path
        /\ slots'[s].failed = slots[s].failed
    BY <1>3, ProceedSlot DEF Inv
  <2>2. KnowsBatch(s)' /\ KnowsLog(s)'
    BY <1>1, <1>2, <1>3, <2>1 DEF KnowsBatch, KnowsLog
  <2> QED BY <1>1, <2>1, <2>2, OneSlotMoves DEF Inv
<1>4. ASSUME Proceed(s, "next", <<>>)
      PROVE  SlotsKnow'
  <2>1. /\ slots' = [t \in Slots |-> slots'[t]]
        /\ \A t \in Slots \ {s} : slots'[t] = slots[t]
        /\ {"pc", "job", "at", "failed"} \subseteq DOMAIN slots'[s]
        /\ slots'[s].pc = "next"
        /\ slots'[s].failed = slots[s].failed
    BY <1>4, ProceedSlot DEF Inv
  <2>2. KnowsBatch(s)' /\ KnowsLog(s)'
    BY <1>1, <1>2, <2>1 DEF KnowsBatch, KnowsLog
  <2> QED BY <1>1, <2>1, <2>2, OneSlotMoves DEF Inv
<1>5. SlotsKnow'
  <2>1. \/ /\ persisted' = persisted \cup {<<Repo(s), slots[s].log>>}
           /\ Proceed(s, "audit", [log |-> slots[s].log, path |-> slots[s].path])
        \/ Proceed(s, "next", <<>>)
    BY Zenon DEF PersistStatistics
  <2> QED BY <1>3, <1>4, <2>1
<1> QED BY <1>1, <1>5, AuditStays, HiddenStays DEF Inv

(* The new row is about the log the slot committed; older rows lose paths.  *)
LEMMA RecordAttemptKeeps ==
  ASSUME Inv, NEW s \in Slots, RecordAttempt(s)
  PROVE  Inv'
<1>1. UNCHANGED <<visible, persisted, terminal>>
  BY DEF RecordAttempt, history
<1>2. KnowsBatch(s) /\ KnowsLog(s) /\ slots[s].pc = "audit"
  BY DEF Inv, SlotsKnow, RecordAttempt, Busy
<1>3. SlotsKnow'
  <2>1. Proceed(s, "next", <<>>)
    BY DEF RecordAttempt
  <2>2. /\ slots' = [t \in Slots |-> slots'[t]]
        /\ \A t \in Slots \ {s} : slots'[t] = slots[t]
        /\ {"pc", "job", "at", "failed"} \subseteq DOMAIN slots'[s]
        /\ slots'[s].pc = "next"
        /\ slots'[s].failed = slots[s].failed
    BY <2>1, ProceedSlot DEF Inv
  <2>3. KnowsBatch(s)' /\ KnowsLog(s)'
    BY <1>1, <1>2, <2>2 DEF KnowsBatch, KnowsLog
  <2> QED BY <1>1, <2>2, <2>3, OneSlotMoves DEF Inv
<1> DEFINE row == [repo |-> Repo(s), ordinal |-> slots[s].job.ordinal,
                   status |-> StatusOf(slots[s].log), path |-> slots[s].path]
           older == {a \in artifacts : a.repo = Repo(s) /\ slots[s].path # 0}
<1>4. CASE artifacts' = (artifacts \ older) \cup {[a EXCEPT !.path = 0] : a \in older} \cup {row}
  <2>1. ASSUME NEW a \in artifacts
        PROVE  /\ {"repo", "status", "path"} \subseteq DOMAIN [a EXCEPT !.path = 0]
               /\ [a EXCEPT !.path = 0].repo = a.repo
               /\ [a EXCEPT !.path = 0].status = a.status
               /\ [a EXCEPT !.path = 0].path = 0
    BY DEF Inv, AuditRows
  <2>2. ASSUME row.status = "processed"
        PROVE  /\ <<row.repo, slots[s].log>> \in persisted
               /\ row.path # 0 => row.path = slots[s].log
    <3>1. slots[s].log # 0
      BY <2>2 DEF StatusOf
    <3> QED BY <1>2, <3>1 DEF KnowsLog
  <2>3. \A a \in artifacts : {"repo", "status", "path"} \subseteq DOMAIN a
    BY DEF Inv, AuditRows
  <2>4. AuditRows'
    BY <1>4, <2>1, <2>3 DEF AuditRows
  <2>5. ASSUME NEW a \in artifacts', a.status = "processed"
        PROVE  /\ \E p \in persisted : p[1] = a.repo
               /\ a.path # 0 => <<a.repo, a.path>> \in persisted
    <3>1. CASE a \in artifacts
      BY <2>5, <3>1 DEF Inv, ProcessedIsPersisted
    <3>2. CASE \E b \in older : a = [b EXCEPT !.path = 0]
      <4>1. PICK b \in artifacts : a = [b EXCEPT !.path = 0]
        BY <3>2
      <4>2. a.repo = b.repo /\ a.status = b.status /\ a.path = 0
        BY <2>1, <4>1
      <4> QED BY <2>5, <4>2 DEF Inv, ProcessedIsPersisted
    <3>3. CASE a = row
      <4>1. <<a.repo, slots[s].log>> \in persisted /\ (a.path # 0 => a.path = slots[s].log)
        BY <2>2, <2>5, <3>3
      <4> QED BY <4>1
    <3> HIDE DEF row, older
    <3> QED BY <1>4, <3>1, <3>2, <3>3
  <2>6. ProcessedIsPersisted'
    BY <1>1, <2>5 DEF ProcessedIsPersisted
  <2> QED BY <1>1, <1>3, <2>4, <2>6, HiddenStays DEF Inv
<1>5. CASE UNCHANGED artifacts
  BY <1>1, <1>3, <1>5, AuditStays, HiddenStays DEF Inv
<1> QED BY <1>4, <1>5 DEF RecordAttempt

LEMMA NextRepoKeeps ==
  ASSUME Inv, NEW s \in Slots, NextRepo(s)
  PROVE  Inv'
<1>1. UNCHANGED <<artifacts, persisted, terminal>>
  BY DEF NextRepo, history
<1>2. KnowsBatch(s)
  BY DEF Inv, SlotsKnow, NextRepo, Busy
<1>3. CASE Go(s, [slots[s] EXCEPT !.pc = "parse", !.at = @ + 1]) /\ UNCHANGED visible
  <2> DEFINE state == [slots[s] EXCEPT !.pc = "parse", !.at = @ + 1]
  <2>1. state.pc = "parse" /\ state.failed = slots[s].failed /\ DOMAIN state = DOMAIN slots[s]
    BY <1>2 DEF KnowsBatch
  <2> HIDE DEF state
  <2>2. slots'[s] = state
    BY <1>3, GoSlot DEF Inv, state
  <2>3. KnowsBatch(s)' /\ KnowsLog(s)'
    BY <1>1, <1>2, <2>1, <2>2 DEF KnowsBatch, KnowsLog
  <2>4. SlotsKnow'
    BY <1>1, <1>3, <2>3, GoSlot, OneSlotMoves DEF Inv
  <2> QED BY <1>1, <1>3, <2>4, AuditStays, HiddenStays DEF Inv
<1>4. CASE Go(s, Idle) /\ visible' = visible \ slots[s].failed
  <2>1. ~ Busy(s)'
    BY <1>4, GoSlot DEF Inv, Busy, Idle
  <2>2. SlotsKnow'
    BY <1>1, <1>4, <2>1, GoSlot, OneSlotMoves DEF Inv
  <2>3. HiddenIsTerminal'
    BY <1>1, <1>2, <1>4 DEF Inv, HiddenIsTerminal, KnowsBatch
  <2> QED BY <1>1, <2>2, <2>3, AuditStays DEF Inv
<1> QED BY <1>3, <1>4 DEF NextRepo

LEMMA FetchKeeps ==
  ASSUME Inv, NEW s \in Slots, Fetch(s)
  PROVE  Inv'
<1>1. UNCHANGED <<artifacts, visible, persisted, terminal>>
  BY DEF Fetch, history
<1>2. PICK job : Go(s, [pc |-> "parse", job |-> job, at |-> 1, failed |-> {}])
  BY DEF Fetch
<1>3. slots'[s] = [pc |-> "parse", job |-> job, at |-> 1, failed |-> {}]
  BY <1>2, GoSlot DEF Inv
<1>4. KnowsBatch(s)' /\ KnowsLog(s)'
  BY <1>3 DEF KnowsBatch, KnowsLog
<1>5. SlotsKnow'
  BY <1>1, <1>2, <1>4, GoSlot, OneSlotMoves DEF Inv
<1> QED BY <1>1, <1>5, AuditStays, HiddenStays DEF Inv
-------------------------------------------------------------------------------
(* The invariant.                                                           *)

LEMMA InitInv == Init => Inv
<1> SUFFICES ASSUME Init PROVE Inv
  OBVIOUS
<1>1. SlotsKnow
  BY DEF Init, SlotsKnow, Busy, Idle
<1>2. AuditRows /\ HiddenIsTerminal /\ ProcessedIsPersisted
  BY DEF Init, AuditRows, HiddenIsTerminal, ProcessedIsPersisted
<1> QED BY <1>1, <1>2 DEF Inv

LEMMA WorkKeeps ==
  ASSUME Inv, NEW s \in Slots, Fetch(s) \/ Work(s)
  PROVE  Inv'
BY ParseRepoKeeps, ReadingKeeps, PersistStatisticsKeeps,
   RecordAttemptKeeps, NextRepoKeeps, FetchKeeps DEF Work

(* A seed and the pony factors leave slots, rows and marks alone; a killed  *)
(* worker forgets its batches.                                              *)
LEMMA WorkflowKeeps ==
  ASSUME Inv, SeedGitlogBatches \/ EndWork \/ MaterializePony
  PROVE  Inv'
<1>1. UNCHANGED <<artifacts, visible, persisted, terminal>>
  BY DEF SeedGitlogBatches, EndWork, MaterializePony, history
<1>2. slots' = slots \/ slots' = [s \in Slots |-> Idle]
  BY DEF SeedGitlogBatches, EndWork, MaterializePony, jobs
<1>3. SlotsKnow'
  BY <1>1, <1>2 DEF Inv, SlotsKnow, KnowsBatch, KnowsLog, Busy, Idle, Repo
<1> QED BY <1>1, <1>3, AuditStays, HiddenStays DEF Inv

LEMMA NextInv == Inv /\ [Next]_vars => Inv'
<1> SUFFICES ASSUME Inv, [Next]_vars PROVE Inv'
  OBVIOUS
<1>1. CASE Next
  BY <1>1, WorkKeeps, WorkflowKeeps DEF Next
<1>2. CASE UNCHANGED vars
  <2>1. UNCHANGED <<slots, artifacts, visible, persisted, terminal>>
    BY <1>2 DEF vars, jobs, history
  <2> QED BY <2>1 DEF Inv, SlotsKnow, AuditRows, HiddenIsTerminal, ProcessedIsPersisted,
                      KnowsBatch, KnowsLog, Busy, Repo
<1> QED BY <1>1, <1>2

THEOREM SpecInv == Spec => []Inv
BY InitInv, NextInv, PTL DEF Spec

(* A processed row of gitlog_artifacts names a log whose statistics were    *)
(* committed (gitlog/runtime.py commits them before, and apart from, the    *)
(* row), whichever services fail and whenever the worker is killed.         *)
THEOREM ProcessedIsPersistedAlways == Spec => []ProcessedIsPersisted
<1>1. Inv => ProcessedIsPersisted
  BY DEF Inv
<1> QED BY <1>1, SpecInv, PTL

(* A repository the pipeline hides met a terminal failure of git: throttling*)
(* alone, with any number of retries, hides none (gitlog/runtime.py).       *)
THEOREM HiddenIsTerminalAlways == Spec => []HiddenIsTerminal
<1>1. Inv => HiddenIsTerminal
  BY DEF Inv
<1> QED BY <1>1, SpecInv, PTL

-------------------------------------------------------------------------------
(* Dormant repositories.                                                    *)

(* A bounded set of numbers has a greatest one.                             *)
LEMMA MaximumIs ==
  ASSUME NEW n \in Nat, NEW S, S \subseteq 0..n, S # {}
  PROVE  Maximum(S) \in S /\ \A y \in S : y <= Maximum(S)
<1>1. \E x \in S : \A y \in S : y <= x
  BY GreatestElement
<1> QED BY <1>1 DEF Maximum

LEMMA Quotient ==
  ASSUME NEW a \in Nat, NEW d \in Nat \ {0}, NEW k \in Nat, a < d * k
  PROVE  a \div d \in 0..(k - 1)
<1>1. a \div d \in Nat /\ a % d \in 0..(d - 1) /\ a = d * (a \div d) + (a % d)
  OBVIOUS
<1> QED BY <1>1

LEMMA RepoIdsFinite == IsFiniteSet(RepoIds)
<1>1. RepoIds = {Repos[i] : i \in 1..Len(Repos)} /\ Len(Repos) \in Nat
  BY GitLogConstants DEF GitLogConstants, RepoIds, ToSet
<1>2. IsFiniteSet(1..Len(Repos))
  BY <1>1, FS_Interval
<1>3. Repos \in Surjection(1..Len(Repos), RepoIds)
  BY <1>1, GitLogConstants, SMTT(20) DEF GitLogConstants, RepoIds, Surjection
<1> QED BY <1>2, <1>3, FS_Surjection

(* No cadence is longer than K: a repository is not older than itself, so   *)
(* its rank is at most the last one.                                        *)
LEMMA CadenceBounded ==
  ASSUME dates \in [RepoIds -> Nat], NEW dormant, dormant \subseteq RepoIds, NEW r \in dormant
  PROVE  ComputeDormantCadence(r, dormant) \in 1..K
<1> DEFINE dated == {q \in dormant : dates[q] # 0}
           older == {q \in dated : Older(r, q)}
           rank == Cardinality(older)
           last == Cardinality(dated) - 1
<1>1. K \in Nat \ {0}
  BY GitLogConstants DEF GitLogConstants
<1>2. CASE r \notin dated
  BY <1>1, <1>2 DEF ComputeDormantCadence
<1>3. CASE r \in dated
  <2>1. ~Older(r, r)
    <3>1. \A i, j \in DOMAIN Repos : Repos[i] = r /\ Repos[j] = r => ~(i < j)
      BY GitLogConstants DEF GitLogConstants
    <3>2. dates[r] \in Nat
      OBVIOUS
    <3> QED BY <3>1, <3>2 DEF Older, Before
  <2>2. IsFiniteSet(dated) /\ IsFiniteSet(dated \ {r}) /\ older \subseteq dated \ {r}
    BY <2>1, RepoIdsFinite, FS_Subset
  <2>3. Cardinality(dated) \in Nat /\ Cardinality(dated \ {r}) = Cardinality(dated) - 1
    BY <1>3, <2>2, FS_CardinalityType, FS_RemoveElement
  <2>4. rank \in Nat /\ rank <= last /\ last \in Nat
    BY <2>2, <2>3, FS_CardinalityType, FS_Subset
  <2> HIDE DEF rank, last, older, dated
  <2>5. CASE last = 0
    BY <1>1, <1>3, <2>5 DEF ComputeDormantCadence, dated, last
  <2>6. CASE last # 0
    <3> DEFINE a == rank * (K - 1) + last - 1
    <3>1. rank * (K - 1) <= last * (K - 1) /\ rank * (K - 1) \in Nat /\ last * (K - 1) \in Nat
      BY <1>1, <2>4
    <3>2. last * (K - 1) + last = last * K
      BY <1>1, <2>4
    <3>3. a \in Nat /\ a < last * K
      BY <1>1, <2>4, <2>6, <3>1, <3>2
    <3> HIDE DEF a
    <3>4. a \div last \in 0..(K - 1)
      BY <1>1, <2>4, <2>6, <3>3, Quotient
    <3>5. ComputeDormantCadence(r, dormant) = 1 + (a \div last)
      BY <1>3, <2>6 DEF ComputeDormantCadence, dated, last, rank, older, a
    <3> QED BY <1>1, <3>4, <3>5
  <2> QED BY <2>5, <2>6
<1> QED BY <1>2, <1>3

(* A log that is not empty has a latest commit, the first of its time.      *)
LEMMA DateOfLog ==
  ASSUME NEW r \in RepoIds, NEW n \in Nat
  PROVE  LatestCommitDate(Log(r, n)) \in Nat
<1> DEFINE log == Log(r, n)
           later(line, other) ==
             \/ other[2].time < line[2].time
             \/ other[2].time = line[2].time /\ line[1] <= other[1]
<1>1. ASSUME NEW line \in log PROVE line[1] \in Nat /\ line[2].time \in 0..n
  BY GitLogConstants DEF GitLogConstants, RepoIds, Log
<1> HIDE DEF log
<1>2. CASE log = {}
  BY <1>2 DEF LatestCommitDate, log
<1>3. CASE log # {}
  <2> DEFINE times == {line[2].time : line \in log}
  <2>1. times \subseteq 0..n /\ times # {}
    BY <1>1, <1>3
  <2>2. PICK t \in times : \A y \in times : y <= t
    BY <2>1, MaximumIs
  <2> DEFINE lines == {x[1] : x \in {line \in log : line[2].time = t}}
  <2>3. lines \subseteq Nat /\ lines # {}
    <3>1. \A line \in log : line[1] \in Nat
      BY <1>1
    <3>2. \E line \in log : line[2].time = t
      BY <2>2
    <3> QED BY <3>1, <3>2
  <2>4. PICK i \in lines : \A j \in lines : i <= j
    BY <2>3, LeastElement
  <2>5. PICK line \in log : line[2].time = t /\ line[1] = i
    BY <2>4
  <2>6. \A other \in log : later(line, other)
    <3> SUFFICES ASSUME NEW other \in log PROVE later(line, other)
      OBVIOUS
    <3>1. other[2].time <= t /\ other[2].time \in 0..n /\ t \in 0..n
      BY <1>1, <2>1, <2>2
    <3>2. CASE other[2].time < t
      BY <2>5, <3>2
    <3>3. CASE other[2].time = t
      <4>1. i <= other[1]
        BY <2>4, <3>3
      <4> QED BY <2>5, <3>3, <4>1
    <3> QED BY <3>1, <3>2, <3>3
  <2> DEFINE newest == CHOOSE x \in log : \A other \in log : later(x, other)
  <2>7. newest \in log
    BY <2>6
  <2>8. Latest(log) = newest[2]
    BY DEF Latest
  <2> HIDE DEF newest
  <2> QED BY <1>1, <1>3, <2>7, <2>8 DEF LatestCommitDate, log
<1> QED BY <1>2, <1>3

(* What the ordinals and dates are, besides Inv.                            *)
Ordinals ==
  /\ now \in Nat
  /\ \A a \in artifacts : "ordinal" \in DOMAIN a /\ a.ordinal \in 1..now
  /\ \A job \in todo : "ordinal" \in DOMAIN job /\ job.ordinal \in 1..now
KnowsOrdinal(s) ==
  /\ slots[s].job.ordinal \in 1..now
  /\ slots[s].pc \in {"store", "load", "persist"} => slots[s].log \in Nat
SlotsTimed == \A s \in Slots : Busy(s) => KnowsOrdinal(s)
Dated == dates \in [RepoIds -> Nat] /\ visible \subseteq RepoIds

(* A repository is passed over only within K of its last success.           *)
PassedSoon ==
  /\ passed = [r \in RepoIds |-> passed[r]]
  /\ \A r \in RepoIds : \A n \in passed[r] : n \in Nat /\ n < LastSuccess(r) + K

TimedInv == Inv /\ Ordinals /\ SlotsTimed /\ Dated /\ PassedSoon

Successes(r) == {a.ordinal : a \in {x \in artifacts : x.repo = r /\ x.status = "processed"}} \cup {0}

LEMMA LastIsLargest ==
  ASSUME Ordinals, NEW r
  PROVE  /\ LastSuccess(r) \in Successes(r) /\ LastSuccess(r) \in 0..now
         /\ \A n \in Successes(r) : n <= LastSuccess(r)
<1>1. Successes(r) \subseteq 0..now /\ Successes(r) # {}
  BY DEF Ordinals, Successes
<1>2. LastSuccess(r) = Maximum(Successes(r))
  BY DEF LastSuccess, Successes
<1> QED BY <1>1, <1>2, MaximumIs DEF Ordinals

LEMMA OrdinalIsNext == ASSUME Ordinals PROVE NextOrdinal \in 1..(now + 1)
<1> DEFINE S == {a.ordinal : a \in artifacts} \cup {0}
<1>1. S \subseteq 0..now /\ S # {}
  BY DEF Ordinals
<1>2. Maximum(S) \in 0..now
  BY <1>1, MaximumIs DEF Ordinals
<1> QED BY <1>2 DEF NextOrdinal, Ordinals

(* Successes are never taken back.                                          *)
LEMMA PassedStays ==
  ASSUME Ordinals, Ordinals', PassedSoon, UNCHANGED passed,
         \A r \in RepoIds : Successes(r) \subseteq Successes(r)'
  PROVE  PassedSoon'
<1> SUFFICES ASSUME NEW r \in RepoIds, NEW n \in passed[r]
             PROVE  n \in Nat /\ n < LastSuccess(r)' + K
  BY DEF PassedSoon
<1>1. n \in Nat /\ n < LastSuccess(r) + K
  BY DEF PassedSoon
<1>2. LastSuccess(r) \in Successes(r) /\ LastSuccess(r) \in Nat
  BY LastIsLargest DEF Ordinals
<1>3. LastSuccess(r)' \in Nat /\ \A m \in Successes(r)' : m <= LastSuccess(r)'
  <2>1. Successes(r)' \subseteq 0..now' /\ Successes(r)' # {}
    BY DEF Ordinals, Successes
  <2>2. LastSuccess(r)' = Maximum(Successes(r)')
    BY DEF LastSuccess, Successes
  <2>3. now' \in Nat
    BY DEF Ordinals
  <2> QED BY <2>1, <2>2, <2>3, MaximumIs
<1>4. LastSuccess(r) <= LastSuccess(r)'
  BY <1>2, <1>3
<1>5. K \in Nat
  BY GitLogConstants DEF GitLogConstants
<1> QED BY <1>1, <1>2, <1>3, <1>4, <1>5

(* Steps of a slot: clock and waiting batches stay, or a batch is taken.    *)
LEMMA SlotTimes ==
  ASSUME SlotsTimed, UNCHANGED now, NEW s \in Slots,
         \A t \in Slots \ {s} : slots'[t] = slots[t],
         Busy(s)' => KnowsOrdinal(s)'
  PROVE  SlotsTimed'
<1> SUFFICES ASSUME NEW t \in Slots, t # s, Busy(t)' PROVE KnowsOrdinal(t)'
  BY DEF SlotsTimed
<1>1. slots'[t] = slots[t] /\ KnowsOrdinal(t)
  BY DEF SlotsTimed, Busy
<1> QED BY <1>1 DEF KnowsOrdinal

LEMMA ProceedTimes ==
  ASSUME Inv, SlotsTimed, UNCHANGED now, NEW s \in Slots, Busy(s), NEW pc, NEW fields,
         Proceed(s, pc, fields), DOMAIN fields \cap {"pc", "job", "at"} = {},
         pc \in {"store", "load", "persist"} => "log" \in DOMAIN fields /\ fields.log \in Nat
  PROVE  SlotsTimed'
<1>1. /\ \A t \in Slots \ {s} : slots'[t] = slots[t]
      /\ slots'[s].pc = pc /\ slots'[s].job = slots[s].job
      /\ \A x \in DOMAIN fields : slots'[s][x] = fields[x]
  BY ProceedSlot DEF Inv
<1>2. KnowsOrdinal(s)'
  BY <1>1 DEF SlotsTimed, KnowsOrdinal
<1> QED BY <1>1, <1>2, SlotTimes

LEMMA FailTimes ==
  ASSUME Inv, SlotsTimed, UNCHANGED now, NEW s \in Slots, Fail(s)
  PROVE  SlotsTimed'
<1>1. Go(s, Idle)
  BY DEF Fail
<1>2. ~Busy(s)' /\ \A t \in Slots \ {s} : slots'[t] = slots[t]
  BY <1>1, GoSlot DEF Inv, Busy, Idle
<1> QED BY <1>2, SlotTimes

LEMMA ParseTimes == ASSUME TimedInv, NEW s \in Slots, ParseRepo(s) PROVE SlotsTimed'
<1>1. Busy(s) /\ UNCHANGED now /\ now \in Nat
  BY DEF ParseRepo, Busy, TimedInv, Ordinals
<1>2. ASSUME Proceed(s, "store", [log |-> now]) PROVE SlotsTimed'
  BY <1>1, <1>2, ProceedTimes DEF TimedInv
<1>3. ASSUME NEW failed, Proceed(s, "audit", [log |-> 0, path |-> 0, failed |-> failed]) PROVE SlotsTimed'
  BY <1>1, <1>3, ProceedTimes DEF TimedInv
<1>4. Fail(s) \/ Proceed(s, "store", [log |-> now])
      \/ \E failed : Proceed(s, "audit", [log |-> 0, path |-> 0, failed |-> failed])
  BY Zenon DEF ParseRepo
<1> QED BY <1>1, <1>2, <1>3, <1>4, FailTimes DEF TimedInv

LEMMA ReadTimes ==
  ASSUME TimedInv, NEW s \in Slots, StoreArtifact(s) \/ LoadStatistics(s)
  PROVE  SlotsTimed'
<1>1. Busy(s) /\ UNCHANGED now /\ slots[s].log \in Nat
  BY DEF StoreArtifact, LoadStatistics, Busy, TimedInv, SlotsTimed, KnowsOrdinal
<1>2. ASSUME NEW pc \in {"load", "persist"}, NEW fields, Proceed(s, pc, fields),
             DOMAIN fields = {"log", "path", "row", "known", "date"}, fields.log = slots[s].log
      PROVE  SlotsTimed'
  BY <1>1, <1>2, ProceedTimes DEF TimedInv
<1>3. ASSUME Proceed(s, "audit", [log |-> 0, path |-> 0]) PROVE SlotsTimed'
  BY <1>1, <1>3, ProceedTimes DEF TimedInv
<1> QED BY <1>1, <1>2, <1>3, ReadsOn, FailTimes DEF TimedInv

LEMMA PersistTimes == ASSUME TimedInv, NEW s \in Slots, PersistStatistics(s) PROVE SlotsTimed' /\ Dated'
<1>1. Busy(s) /\ UNCHANGED <<now, visible>> /\ slots[s].log \in Nat
  BY DEF PersistStatistics, Busy, TimedInv, SlotsTimed, KnowsOrdinal
<1>2. ASSUME Proceed(s, "audit", [log |-> slots[s].log, path |-> slots[s].path]) PROVE SlotsTimed'
  BY <1>1, <1>2, ProceedTimes DEF TimedInv
<1>3. ASSUME Proceed(s, "next", <<>>) PROVE SlotsTimed'
  BY <1>1, <1>3, ProceedTimes DEF TimedInv
<1>4. Proceed(s, "audit", [log |-> slots[s].log, path |-> slots[s].path]) \/ Proceed(s, "next", <<>>)
  BY Zenon DEF PersistStatistics
<1>5. UNCHANGED dates \/ dates' = [dates EXCEPT ![Repo(s)] = LatestCommitDate(Log(Repo(s), slots[s].log))]
  BY Zenon DEF PersistStatistics, statistics
<1>6. dates' \in [RepoIds -> Nat]
  <2>1. CASE UNCHANGED dates
    BY <2>1 DEF TimedInv, Dated
  <2>2. CASE dates' = [dates EXCEPT ![Repo(s)] = LatestCommitDate(Log(Repo(s), slots[s].log))]
    <3>1. Repo(s) \in RepoIds => LatestCommitDate(Log(Repo(s), slots[s].log)) \in Nat
      BY <1>1, DateOfLog
    <3> QED BY <2>2, <3>1 DEF TimedInv, Dated
  <2> QED BY <1>5, <2>1, <2>2
<1> QED BY <1>1, <1>2, <1>3, <1>4, <1>6 DEF TimedInv, Dated

(* Rows that lose their paths remain successes of their ordinals.           *)
LEMMA RecordTimes ==
  ASSUME TimedInv, NEW s \in Slots, RecordAttempt(s)
  PROVE  SlotsTimed' /\ Ordinals' /\ PassedSoon'
<1> DEFINE row == [repo |-> Repo(s), ordinal |-> slots[s].job.ordinal,
                   status |-> StatusOf(slots[s].log), path |-> slots[s].path]
           older == {a \in artifacts : a.repo = Repo(s) /\ slots[s].path # 0}
<1>1. Busy(s) /\ UNCHANGED <<now, todo, passed>> /\ Proceed(s, "next", <<>>)
  BY DEF RecordAttempt, Busy, history
<1>2. SlotsTimed'
  BY <1>1, ProceedTimes DEF TimedInv
<1>3. slots[s].job.ordinal \in 1..now
  BY <1>1 DEF TimedInv, SlotsTimed, KnowsOrdinal
<1>4. \A a \in artifacts : {"repo", "status", "path", "ordinal"} \subseteq DOMAIN a /\ a.ordinal \in 1..now
  BY DEF TimedInv, Ordinals, Inv, AuditRows
<1>5. CASE artifacts' = (artifacts \ older) \cup {[a EXCEPT !.path = 0] : a \in older} \cup {row}
  <2>1. ASSUME NEW a \in artifacts
        PROVE  /\ DOMAIN [a EXCEPT !.path = 0] = DOMAIN a
               /\ [a EXCEPT !.path = 0].repo = a.repo /\ [a EXCEPT !.path = 0].status = a.status
               /\ [a EXCEPT !.path = 0].ordinal = a.ordinal
    BY <1>4
  <2>2. DOMAIN row = {"repo", "ordinal", "status", "path"} /\ row.ordinal = slots[s].job.ordinal
    OBVIOUS
  <2> HIDE DEF row
  <2>3. \A a \in artifacts' : "ordinal" \in DOMAIN a /\ a.ordinal \in 1..now
    BY <1>3, <1>4, <1>5, <2>1, <2>2
  <2>4. \A r \in RepoIds : Successes(r) \subseteq Successes(r)'
    <3> SUFFICES ASSUME NEW r \in RepoIds, NEW a \in artifacts, a.repo = r, a.status = "processed"
                 PROVE  \E b \in artifacts' : b.repo = r /\ b.status = "processed" /\ b.ordinal = a.ordinal
      BY DEF Successes
    <3>1. CASE a \in older
      BY <1>5, <2>1, <3>1
    <3>2. CASE a \notin older
      BY <1>5, <3>2
    <3> QED BY <3>1, <3>2
  <2>5. Ordinals'
    BY <1>1, <2>3 DEF TimedInv, Ordinals
  <2> QED BY <1>1, <1>2, <2>4, <2>5, PassedStays DEF TimedInv
<1>6. CASE UNCHANGED artifacts
  <2>1. Ordinals'
    BY <1>1, <1>6 DEF TimedInv, Ordinals
  <2>2. \A r \in RepoIds : Successes(r) \subseteq Successes(r)'
    BY <1>6 DEF Successes
  <2> QED BY <1>1, <1>2, <2>1, <2>2, PassedStays DEF TimedInv
<1> QED BY <1>5, <1>6 DEF RecordAttempt

LEMMA NextRepoTimes == ASSUME TimedInv, NEW s \in Slots, NextRepo(s) PROVE SlotsTimed' /\ Dated'
<1>1. Busy(s) /\ UNCHANGED <<now, dates>> /\ visible' \subseteq visible
  BY DEF NextRepo, Busy, statistics
<1>2. CASE Go(s, Idle)
  BY <1>1, <1>2, GoSlot, SlotTimes DEF TimedInv, Inv, Busy, Idle, Dated
<1>3. CASE Go(s, [slots[s] EXCEPT !.pc = "parse", !.at = @ + 1])
  <2> DEFINE state == [slots[s] EXCEPT !.pc = "parse", !.at = @ + 1]
  <2>1. state.pc = "parse" /\ state.job = slots[s].job
    BY <1>1 DEF TimedInv, Inv, SlotsKnow, KnowsBatch
  <2> HIDE DEF state
  <2>2. slots'[s] = state /\ \A t \in Slots \ {s} : slots'[t] = slots[t]
    BY <1>3, GoSlot DEF TimedInv, Inv, state
  <2>3. KnowsOrdinal(s)'
    BY <1>1, <2>1, <2>2 DEF TimedInv, SlotsTimed, KnowsOrdinal
  <2> QED BY <1>1, <2>2, <2>3, SlotTimes DEF TimedInv, Dated
<1> QED BY <1>2, <1>3 DEF NextRepo

LEMMA FetchTimes == ASSUME TimedInv, NEW s \in Slots, Fetch(s) PROVE SlotsTimed' /\ Ordinals'
<1>1. PICK job \in todo :
        /\ todo' = todo \ {job}
        /\ Go(s, [pc |-> "parse", job |-> [job EXCEPT !.repos = ResolveRepos(@)], at |-> 1, failed |-> {}])
  BY DEF Fetch
<1>2. UNCHANGED <<now, artifacts>>
  BY DEF Fetch
<1> DEFINE resolved == [job EXCEPT !.repos = ResolveRepos(@)]
<1>3. resolved.ordinal \in 1..now
  BY DEF TimedInv, Ordinals
<1> HIDE DEF resolved
<1>4. /\ slots'[s] = [pc |-> "parse", job |-> resolved, at |-> 1, failed |-> {}]
      /\ \A t \in Slots \ {s} : slots'[t] = slots[t]
  BY <1>1, GoSlot DEF TimedInv, Inv, resolved
<1>5. KnowsOrdinal(s)'
  BY <1>2, <1>3, <1>4 DEF KnowsOrdinal
<1>6. Ordinals'
  BY <1>1, <1>2 DEF TimedInv, Ordinals
<1> QED BY <1>2, <1>4, <1>5, <1>6, SlotTimes DEF TimedInv

(* The seed passes over what is dormant and not yet due.                    *)
LEMMA SeedTimes ==
  ASSUME TimedInv, SeedGitlogBatches
  PROVE  SlotsTimed' /\ Ordinals' /\ Dated' /\ PassedSoon'
<1>1. /\ now' = now + 1 /\ UNCHANGED <<slots, artifacts, visible, dates>>
      /\ passed' = [r \in RepoIds |-> IF r \in Dormant \ Due THEN passed[r] \cup {NextOrdinal} ELSE {}]
      /\ \A job \in todo' \ todo : job \in Batches(Scheduled)
  BY DEF SeedGitlogBatches, statistics
<1>2. now \in Nat /\ now' \in Nat
  BY <1>1 DEF TimedInv, Ordinals
<1>3. SlotsTimed'
  BY <1>1, <1>2 DEF TimedInv, SlotsTimed, KnowsOrdinal, Busy
<1>4. NextOrdinal \in 1..now'
  BY <1>1, OrdinalIsNext DEF TimedInv
<1>5. \A job \in Batches(Scheduled) : "ordinal" \in DOMAIN job /\ job.ordinal = NextOrdinal
  BY DEF Batches
<1>6. Ordinals'
  <2>1. \A job \in todo' : "ordinal" \in DOMAIN job /\ job.ordinal \in 1..now'
    BY <1>1, <1>2, <1>4, <1>5 DEF TimedInv, Ordinals
  <2> QED BY <1>1, <1>2, <2>1 DEF TimedInv, Ordinals
<1>7. \A r : LastSuccess(r)' = LastSuccess(r)
  BY <1>1 DEF LastSuccess
<1>8. ASSUME NEW r \in Dormant \ Due PROVE NextOrdinal \in Nat /\ NextOrdinal < LastSuccess(r) + K
  <2>1. Dormant \subseteq RepoIds
    BY DEF Dormant, TimedInv, Dated
  <2>2. ComputeDormantCadence(r, Dormant) \in 1..K
    BY <2>1, CadenceBounded DEF TimedInv, Dated
  <2>3. ~(NextOrdinal - LastSuccess(r) >= ComputeDormantCadence(r, Dormant))
    BY DEF Due, IsDue
  <2>4. LastSuccess(r) \in 0..now /\ K \in Nat
    BY LastIsLargest, GitLogConstants DEF TimedInv, GitLogConstants
  <2> QED BY <1>2, <1>4, <2>2, <2>3, <2>4
<1>9. PassedSoon'
  <2>1. \A r \in RepoIds : \A n \in passed'[r] : n \in Nat /\ n < LastSuccess(r) + K
    BY <1>1, <1>8 DEF TimedInv, PassedSoon
  <2>2. passed' = [r \in RepoIds |-> passed'[r]]
    BY <1>1
  <2> QED BY <1>7, <2>1, <2>2 DEF PassedSoon
<1> QED BY <1>1, <1>3, <1>6, <1>9 DEF TimedInv, Dated

LEMMA TimedInit == Init => TimedInv
<1> SUFFICES ASSUME Init PROVE TimedInv
  OBVIOUS
<1>1. Ordinals /\ SlotsTimed /\ Dated
  BY GitLogConstants DEF Init, Ordinals, SlotsTimed, Dated, Busy, Idle, GitLogConstants
<1>2. PassedSoon
  BY DEF Init, PassedSoon
<1> QED BY <1>1, <1>2, InitInv DEF TimedInv

(* Steps that leave rows of the audit and of passed seeds alone.            *)
LEMMA AuditKept ==
  ASSUME TimedInv, UNCHANGED <<now, artifacts, passed>>, todo' \subseteq todo
  PROVE  Ordinals' /\ PassedSoon'
<1>1. Ordinals'
  BY DEF TimedInv, Ordinals
<1>2. \A r : LastSuccess(r)' = LastSuccess(r)
  BY DEF LastSuccess
<1> QED BY <1>1, <1>2 DEF TimedInv, PassedSoon

LEMMA TimedNext == TimedInv /\ [Next]_vars => TimedInv'
<1> SUFFICES ASSUME TimedInv, [Next]_vars PROVE TimedInv'
  OBVIOUS
<1>1. Inv'
  BY NextInv DEF TimedInv
<1>2. ASSUME NEW s \in Slots, ParseRepo(s) \/ StoreArtifact(s) \/ LoadStatistics(s) \/ NextRepo(s)
      PROVE  TimedInv'
  <2>1. UNCHANGED <<now, artifacts, passed, dates>> /\ todo' = todo
    BY <1>2 DEF ParseRepo, StoreArtifact, LoadStatistics, NextRepo, Fail, statistics, history
  <2>2. UNCHANGED visible \/ NextRepo(s)
    BY <1>2 DEF ParseRepo, StoreArtifact, LoadStatistics
  <2>3. Dated'
    BY <2>1, <2>2, NextRepoTimes DEF TimedInv, Dated
  <2>4. SlotsTimed'
    BY <1>2, ParseTimes, ReadTimes, NextRepoTimes
  <2> QED BY <1>1, <2>1, <2>3, <2>4, AuditKept DEF TimedInv
<1>3. ASSUME NEW s \in Slots, PersistStatistics(s) PROVE TimedInv'
  <2>1. UNCHANGED <<now, artifacts, passed, todo>>
    BY <1>3 DEF PersistStatistics
  <2> QED BY <1>1, <1>3, <2>1, PersistTimes, AuditKept DEF TimedInv
<1>4. ASSUME NEW s \in Slots, RecordAttempt(s) PROVE TimedInv'
  <2>1. UNCHANGED <<visible, dates>>
    BY <1>4 DEF RecordAttempt, statistics
  <2> QED BY <1>1, <1>4, <2>1, RecordTimes DEF TimedInv, Dated
<1>5. ASSUME NEW s \in Slots, Fetch(s) PROVE TimedInv'
  <2>1. UNCHANGED <<now, artifacts, passed, visible, dates>> /\ todo' \subseteq todo
    BY <1>5 DEF Fetch, statistics, history
  <2> QED BY <1>1, <1>5, <2>1, FetchTimes, AuditKept DEF TimedInv, Dated
<1>6. CASE SeedGitlogBatches
  BY <1>1, <1>6, SeedTimes DEF TimedInv
<1>7. CASE EndWork \/ MaterializePony \/ UNCHANGED vars
  <2>1. UNCHANGED <<now, artifacts, passed, visible, dates, todo>>
    BY <1>7 DEF EndWork, MaterializePony, vars, statistics, history, jobs
  <2>2. slots' = slots \/ slots' = [s \in Slots |-> Idle]
    BY <1>7 DEF EndWork, MaterializePony, vars, jobs
  <2>3. SlotsTimed'
    BY <2>1, <2>2 DEF TimedInv, SlotsTimed, KnowsOrdinal, Busy, Idle
  <2> QED BY <1>1, <2>1, <2>3, AuditKept DEF TimedInv, Dated
<1> QED BY <1>2, <1>3, <1>4, <1>5, <1>6, <1>7 DEF Next, Work

THEOREM SpecTimed == Spec => []TimedInv
BY TimedInit, TimedNext, PTL DEF Spec

(* "fully dormant repos get cadence k" (seed_gitlog.py): fewer than K seed  *)
(* ordinals pass a repository over after its last success, for any number   *)
(* of repositories, commit dates, slots and faults, also when a batch that  *)
(* an earlier worker left behind is recorded after later seeds.             *)
THEOREM DormantReturnAlways == Spec => []DormantReturn
<1>1. TimedInv => DormantReturn
  <2> SUFFICES ASSUME TimedInv, NEW r \in RepoIds
               PROVE  Cardinality({n \in passed[r] : n > LastSuccess(r)}) < K
    BY DEF DormantReturn
  <2> DEFINE last == LastSuccess(r)
             since == {n \in passed[r] : n > last}
  <2>1. last \in Nat /\ K \in Nat \ {0}
    BY LastIsLargest, GitLogConstants DEF TimedInv, Ordinals, GitLogConstants
  <2>2. \A n \in passed[r] : n \in Nat /\ n < last + K
    BY DEF TimedInv, PassedSoon
  <2> HIDE DEF last
  <2>3. since \subseteq (last + 1)..(last + K - 1)
    BY <2>1, <2>2
  <2>4. IsFiniteSet((last + 1)..(last + K - 1)) /\ Cardinality((last + 1)..(last + K - 1)) = K - 1
    <3>1. last + 1 \in Int /\ last + K - 1 \in Int
      BY <2>1
    <3> DEFINE a == last + 1
               b == last + K - 1
    <3>2. IsFiniteSet(a..b) /\ Cardinality(a..b) = IF a > b THEN 0 ELSE b - a + 1
      BY <3>1, FS_Interval
    <3> QED BY <2>1, <3>2
  <2>5. Cardinality(since) <= K - 1 /\ Cardinality(since) \in Nat
    BY <2>3, <2>4, FS_Subset, FS_CardinalityType
  <2> QED BY <2>1, <2>5 DEF last
<1> QED BY <1>1, SpecTimed, PTL

-------------------------------------------------------------------------------
(* Lists of repositories, and what is counted.                              *)

(* Rows in the order of their ids: each of them once.                       *)
LEMMA ByIdLists ==
  ASSUME NEW rows, rows \subseteq RepoIds
  PROVE  ById(rows) \in Seq(RepoIds) /\ ToSet(ById(rows)) = rows
<1> DEFINE rel == {qr \in rows \X rows : Before(qr[1], qr[2])}
           InOrder(list) == \A i, j \in DOMAIN list : i < j => Before(list[i], list[j])
           ids == CHOOSE list \in SetToSeqs(rows) : InOrder(list)
<1>1. IsFiniteSet(rows)
  BY RepoIdsFinite, FS_Subset
<1>2. \A q, r \in rows : <<q, r>> \in rel <=> Before(q, r)
  OBVIOUS
<1>3. IsOrder(rel, rows)
  <2>1. DOMAIN Repos \subseteq Nat /\ \A r \in rows : \E i \in DOMAIN Repos : Repos[i] = r
    BY GitLogConstants DEF GitLogConstants, RepoIds, ToSet
  <2>2. ASSUME NEW q \in rows, NEW r \in rows, q # r PROVE Before(q, r) \/ Before(r, q)
    <3>1. PICK i \in DOMAIN Repos : Repos[i] = q
      BY <2>1
    <3>2. PICK j \in DOMAIN Repos : Repos[j] = r
      BY <2>1
    <3>3. i < j \/ j < i
      BY <2>1, <2>2, <3>1, <3>2
    <3> QED BY <3>1, <3>2, <3>3 DEF Before
  <2>3. ASSUME NEW q, NEW r, NEW p, Before(q, r), Before(r, p) PROVE Before(q, p)
    <3>1. PICK i, j \in DOMAIN Repos : i < j /\ Repos[i] = q /\ Repos[j] = r
      BY <2>3 DEF Before
    <3>2. PICK k, l \in DOMAIN Repos : k < l /\ Repos[k] = r /\ Repos[l] = p
      BY <2>3 DEF Before
    <3>3. j = k
      BY <3>1, <3>2, GitLogConstants DEF GitLogConstants
    <3>4. i < l
      BY <2>1, <3>1, <3>2, <3>3
    <3> QED BY <3>1, <3>2, <3>4 DEF Before
  <2> HIDE DEF rel
  <2> QED BY <1>2, <2>2, <2>3 DEF IsOrder
<1> HIDE DEF rel
<1>4. PICK list \in SetToSeqs(rows) : Sorted(list, rel)
  BY <1>1, <1>3, SortedListExists
<1>5. InOrder(list)
  <2>1. \A i \in DOMAIN list : list[i] \in rows
    BY <1>1, ListOfSet
  <2> QED BY <1>2, <1>4, <2>1 DEF Sorted
<1> HIDE DEF InOrder
<1>6. ids \in SetToSeqs(rows)
  BY <1>4, <1>5
<1>7. ById(rows) = ids
  BY DEF ById, Ordered, InOrder
<1> HIDE DEF ids
<1>8. ids \in Seq(rows) /\ ToSet(ids) = rows
  BY <1>1, <1>6, ListOfSet
<1> QED BY <1>7, <1>8

LEMMA Products == \A x, y \in Nat : x * y = y * x /\ x * y \in Nat
OBVIOUS

(* A batch is a part of the schedule, and none is empty.                    *)
LEMMA BatchSizes ==
  ASSUME NEW ids \in Seq(RepoIds), NEW job \in Batches(ids)
  PROVE  job.repos \in Seq(RepoIds) /\ Len(job.repos) \in 1..BatchSize
<1> DEFINE n == Len(ids)
           count == (n + BatchSize - 1) \div BatchSize
<1>1. BatchSize \in Nat \ {0} /\ n \in Nat
  BY GitLogConstants DEF GitLogConstants
<1>2. PICK i \in 1..count :
        job.repos = SubSeq(ids, (i - 1) * BatchSize + 1, IF i * BatchSize < n THEN i * BatchSize ELSE n)
  BY DEF Batches
<1> DEFINE before == (i - 1) * BatchSize
           end == IF i * BatchSize < n THEN i * BatchSize ELSE n
<1>3. before \in Nat /\ i * BatchSize = before + BatchSize /\ before + 1 <= n
  <2>1. count \in Nat /\ count * BatchSize <= n + BatchSize - 1
    <3> DEFINE a == n + BatchSize - 1
    <3>1. a \in Nat
      BY <1>1
    <3> HIDE DEF a, n
    <3>2. a \div BatchSize \in Nat /\ a % BatchSize \in 0..(BatchSize - 1)
          /\ a = BatchSize * (a \div BatchSize) + (a % BatchSize)
      BY <1>1, <3>1
    <3>3. (a \div BatchSize) * BatchSize = BatchSize * (a \div BatchSize)
          /\ BatchSize * (a \div BatchSize) \in Nat
      BY <1>1, <3>2, Products
    <3> QED BY <1>1, <3>1, <3>2, <3>3 DEF a
  <2> HIDE DEF count, n
  <2>2. i \in Nat \ {0} /\ i <= count
    BY <2>1
  <2>3. i * BatchSize <= count * BatchSize /\ i * BatchSize \in Nat /\ count * BatchSize \in Nat
    BY <1>1, <2>1, <2>2
  <2>4. before \in Nat /\ i * BatchSize = before + BatchSize
    BY <1>1, <2>2
  <2> QED BY <1>1, <2>1, <2>3, <2>4
<1> HIDE DEF before, n
<1>4. end \in (before + 1)..(before + BatchSize) /\ end <= n
  BY <1>1, <1>3
<1>5. job.repos = SubSeq(ids, before + 1, end)
  BY <1>2 DEF before, n
<1> HIDE DEF end
<1>6. before + 1 \in 1..(n + 1) /\ end \in 0..n /\ end \in Nat
  BY <1>1, <1>3, <1>4
<1>7. \A k \in (before + 1)..end : ids[k] \in RepoIds
  BY <1>3, <1>4, <1>6 DEF n
<1>8. SubSeq(ids, before + 1, end) \in Seq(RepoIds)
      /\ Len(SubSeq(ids, before + 1, end)) = end - before
  BY <1>3, <1>4, <1>6, <1>7 DEF n
<1>9. end - before \in 1..BatchSize
  BY <1>1, <1>3, <1>4, <1>6
<1> QED BY <1>5, <1>8, <1>9

LEMMA LogFinite == ASSUME NEW r \in RepoIds, NEW n PROVE IsFiniteSet(Log(r, n))
<1> DEFINE lines == {i \in DOMAIN Commits[r] :
             LET c == Commits[r][i] IN c.ok /\ c.time <= n /\ c.time + Window > n}
           f == [i \in lines |-> <<i, Commits[r][i]>>]
<1>1. Commits[r] \in Seq(ToSet(Commits[r]))
  BY GitLogConstants DEF GitLogConstants, RepoIds
<1>2. IsFiniteSet(DOMAIN Commits[r])
  <2> DEFINE size == Len(Commits[r])
  <2>1. DOMAIN Commits[r] = 1..size /\ size \in Int /\ 1 \in Int
    BY <1>1
  <2> HIDE DEF size
  <2>2. IsFiniteSet(1..size)
    BY <2>1, FS_Interval
  <2> QED BY <2>1, <2>2
<1>3. IsFiniteSet(lines)
  BY <1>2, FS_Subset
<1>4. Log(r, n) = {f[i] : i \in lines}
  BY DEF Log
<1>5. DOMAIN f = lines
  OBVIOUS
<1> HIDE DEF f, lines
<1> QED BY <1>3, <1>4, <1>5, FiniteImage

(* Every author of a log has a number of commits.                           *)
LEMMA AuthorsCounted ==
  ASSUME NEW log, IsFiniteSet(log)
  PROVE  LET counts == AggregateContributors(log)
         IN  IsFiniteSet(DOMAIN counts) /\ counts \in [DOMAIN counts -> Nat]
<1> DEFINE counts == AggregateContributors(log)
           f == [line \in log |-> NormalizeEmail(line[2].email)]
           emails == {f[line] : line \in log}
           humans == {e \in {NormalizeEmail(line[2].email) : line \in log} : ~IsBot(Latest(Group(log, e)))}
<1>1. IsFiniteSet(emails)
  <2> HIDE DEF f
  <2>1. DOMAIN f = log
    BY DEF f
  <2> QED BY <2>1, FiniteImage
<1>2. humans \subseteq emails
  OBVIOUS
<1>3. IsFiniteSet(humans)
  BY <1>1, <1>2, FS_Subset
<1>4. \A e : Cardinality(Group(log, e)) \in Nat
  <2>1. \A e : Group(log, e) \subseteq log
    BY DEF Group
  <2> QED BY <2>1, FS_Subset, FS_CardinalityType
<1>5. counts = [e \in humans |-> Cardinality(Group(log, e))]
  BY DEF AggregateContributors
<1> HIDE DEF humans, counts
<1>6. DOMAIN counts = humans /\ counts \in [humans -> Nat]
  BY <1>4, <1>5
<1>7. IsFiniteSet(DOMAIN counts) /\ counts \in [DOMAIN counts -> Nat]
  BY <1>3, <1>6
<1> QED BY <1>7 DEF counts

(* The rows of a batch, those of contributors a slot has read, the edges,   *)
(* and the scores.                                                          *)
KnowsRepos(s) ==
  slots[s].job.repos \in Seq(RepoIds) /\ slots[s].at \in DOMAIN slots[s].job.repos
KnowsRows(s) ==
  slots[s].pc \in {"load", "persist"} =>
    /\ slots[s].pc = "persist" =>
         DOMAIN slots[s].row = DOMAIN AggregateContributors(Log(Repo(s), slots[s].log))
    /\ \A e \in DOMAIN slots[s].row : slots[s].row[e] # Unset => slots[s].row[e] \in Rows(e)

Waiting ==
  \A job \in todo : /\ "repos" \in DOMAIN job
                    /\ job.repos \in Seq(RepoIds) /\ Len(job.repos) \in 1..BatchSize
SlotsCounted == \A s \in Slots : Busy(s) => KnowsRepos(s) /\ KnowsRows(s)
Counted ==
  /\ IsFiniteSet(DOMAIN edges)
  /\ \A edge \in DOMAIN edges :
       edge[1] \in contributors /\ edge[2] \in RepoIds /\ edges[edge] \in Nat
Audited == \A a \in artifacts : a.repo \in RepoIds
Scored == pony \in [RepoIds \cup Projects -> Nat \cup {Unset}]
Bounds == now \in 0..Runs /\ stage \in {"over", "working", "materializing"} /\ faults \in 0..Faults

CountedInv == TimedInv /\ Waiting /\ SlotsCounted /\ Counted /\ Audited /\ Scored /\ Bounds

LEMMA SlotCounts ==
  ASSUME SlotsCounted, contributors \subseteq contributors', NEW s \in Slots,
         \A t \in Slots \ {s} : slots'[t] = slots[t],
         Busy(s)' => KnowsRepos(s)' /\ KnowsRows(s)'
  PROVE  SlotsCounted'
<1> SUFFICES ASSUME NEW t \in Slots, t # s, Busy(t)' PROVE KnowsRepos(t)' /\ KnowsRows(t)'
  BY DEF SlotsCounted
<1>1. slots'[t] = slots[t]
  OBVIOUS
<1>2. KnowsRepos(t) /\ KnowsRows(t)
  BY <1>1 DEF SlotsCounted, Busy
<1>3. \A e : Rows(e) \subseteq Rows(e)'
  BY DEF Rows
<1>4. Repo(t)' = Repo(t)
  BY <1>1 DEF Repo
<1>5. KnowsRepos(t)'
  BY <1>1, <1>2 DEF KnowsRepos
<1>6. KnowsRows(t)'
  BY <1>1, <1>2, <1>3, <1>4 DEF KnowsRows
<1> QED BY <1>5, <1>6

LEMMA ProceedCounts ==
  ASSUME Inv, SlotsCounted, contributors \subseteq contributors', NEW s \in Slots, Busy(s),
         NEW pc, pc \notin {"load", "persist"}, NEW fields,
         Proceed(s, pc, fields), DOMAIN fields \cap {"pc", "job", "at"} = {}
  PROVE  SlotsCounted'
<1>1. /\ \A t \in Slots \ {s} : slots'[t] = slots[t]
      /\ slots'[s].pc = pc /\ slots'[s].job = slots[s].job /\ slots'[s].at = slots[s].at
  BY ProceedSlot DEF Inv
<1>2. KnowsRepos(s)' /\ KnowsRows(s)'
  BY <1>1 DEF SlotsCounted, KnowsRepos, KnowsRows
<1> QED BY <1>1, <1>2, SlotCounts

LEMMA FailCounts ==
  ASSUME Inv, SlotsCounted, contributors \subseteq contributors', NEW s \in Slots, Fail(s)
  PROVE  SlotsCounted'
<1>1. Go(s, Idle)
  BY DEF Fail
<1>2. ~Busy(s)' /\ \A t \in Slots \ {s} : slots'[t] = slots[t]
  BY <1>1, GoSlot DEF Inv, Busy, Idle
<1> QED BY <1>2, SlotCounts

LEMMA ParseCounts == ASSUME CountedInv, NEW s \in Slots, ParseRepo(s) PROVE SlotsCounted'
<1>1. Busy(s) /\ contributors \subseteq contributors' /\ Inv /\ SlotsCounted
  BY DEF ParseRepo, Busy, CountedInv, TimedInv, statistics
<1>2. ASSUME Proceed(s, "store", [log |-> now]) PROVE SlotsCounted'
  BY <1>1, <1>2, ProceedCounts
<1>3. ASSUME NEW failed, Proceed(s, "audit", [log |-> 0, path |-> 0, failed |-> failed]) PROVE SlotsCounted'
  BY <1>1, <1>3, ProceedCounts
<1>4. Fail(s) \/ Proceed(s, "store", [log |-> now])
      \/ \E failed : Proceed(s, "audit", [log |-> 0, path |-> 0, failed |-> failed])
  BY Zenon DEF ParseRepo
<1> QED BY <1>1, <1>2, <1>3, <1>4, FailCounts

(* The rows read are of contributors of the log that will be committed, and *)
(* of all of them once the slot goes on.                                    *)
LEMMA ReadCounts ==
  ASSUME CountedInv, NEW s \in Slots, Busy(s), UNCHANGED contributors,
         NEW row, NEW known, NEW date,
         Read(s, DOMAIN AggregateContributors(Log(Repo(s), slots[s].log)), row, known, date),
         \A e \in DOMAIN row : row[e] # Unset => row[e] \in Rows(e)
  PROVE  SlotsCounted'
<1> DEFINE authors == DOMAIN AggregateContributors(Log(Repo(s), slots[s].log))
           fields == [log |-> slots[s].log, path |-> slots[s].log, row |-> row, known |-> known, date |-> date]
<1>1. Inv /\ SlotsCounted
  BY DEF CountedInv, TimedInv
<1>2. PICK pc \in {"load", "persist"} :
        Proceed(s, pc, fields) /\ (pc = "persist" => DOMAIN row = authors)
  BY DEF Read
<1>3. /\ DOMAIN fields = {"log", "path", "row", "known", "date"}
      /\ fields.log = slots[s].log /\ fields.row = row
  OBVIOUS
<1> HIDE DEF fields
<1>4. /\ \A t \in Slots \ {s} : slots'[t] = slots[t]
      /\ slots'[s].pc = pc /\ slots'[s].job = slots[s].job /\ slots'[s].at = slots[s].at
      /\ slots'[s].log = slots[s].log /\ slots'[s].row = row
  BY <1>1, <1>2, <1>3, ProceedSlot DEF Inv
<1>5. Repo(s)' = Repo(s) /\ KnowsRepos(s)'
  BY <1>1, <1>4 DEF SlotsCounted, KnowsRepos, Repo
<1>6. \A e \in DOMAIN row : row[e] # Unset => row[e] \in Rows(e)'
  BY DEF Rows
<1> HIDE DEF authors
<1>7. KnowsRows(s)'
  BY <1>2, <1>4, <1>5, <1>6 DEF KnowsRows, authors
<1> QED BY <1>1, <1>4, <1>5, <1>7, SlotCounts

LEMMA StoreCounts == ASSUME CountedInv, NEW s \in Slots, StoreArtifact(s) PROVE SlotsCounted'
<1>1. Busy(s) /\ UNCHANGED contributors /\ Inv /\ SlotsCounted
  BY DEF StoreArtifact, Busy, CountedInv, TimedInv, statistics
<1>2. ASSUME Read(s, DOMAIN AggregateContributors(Log(Repo(s), slots[s].log)), <<>>, {}, dates[Repo(s)])
      PROVE  SlotsCounted'
  <2>1. DOMAIN <<>> = {}
    OBVIOUS
  <2>2. \A e \in DOMAIN <<>> : <<>>[e] # Unset => <<>>[e] \in Rows(e)
    BY <2>1
  <2> QED BY <1>1, <1>2, <2>2, ReadCounts, Zenon
<1>3. ASSUME Proceed(s, "audit", [log |-> 0, path |-> 0]) PROVE SlotsCounted'
  BY <1>1, <1>3, ProceedCounts
<1>4. \/ Read(s, DOMAIN AggregateContributors(Log(Repo(s), slots[s].log)), <<>>, {}, dates[Repo(s)])
      \/ Fail(s) \/ Proceed(s, "audit", [log |-> 0, path |-> 0])
  BY Zenon DEF StoreArtifact
<1> QED BY <1>1, <1>2, <1>3, <1>4, FailCounts

LEMMA LoadCounts == ASSUME CountedInv, NEW s \in Slots, LoadStatistics(s) PROVE SlotsCounted'
<1>1. Busy(s) /\ UNCHANGED contributors /\ KnowsRows(s) /\ slots[s].pc = "load"
  BY DEF LoadStatistics, Busy, CountedInv, SlotsCounted, statistics
<1>2. PICK e : \E c \in IF Rows(e) = {} THEN {Unset} ELSE Rows(e) : \E known, date :
        Read(s, DOMAIN AggregateContributors(Log(Repo(s), slots[s].log)),
             Over([x \in {e} |-> c], slots[s].row), known, date)
  BY Zenon DEF LoadStatistics
<1>5. PICK c \in IF Rows(e) = {} THEN {Unset} ELSE Rows(e) : \E known, date :
        Read(s, DOMAIN AggregateContributors(Log(Repo(s), slots[s].log)),
             Over([x \in {e} |-> c], slots[s].row), known, date)
  BY <1>2
<1> DEFINE row == Over([x \in {e} |-> c], slots[s].row)
<1>3. c = Unset \/ c \in Rows(e)
  OBVIOUS
<1>4. ASSUME NEW x \in DOMAIN row, row[x] # Unset PROVE row[x] \in Rows(x)
  <2>1. DOMAIN row = {e} \cup DOMAIN slots[s].row
    BY DEF Over
  <2>2. CASE x = e
    <3>1. row[x] = c
      BY <2>2 DEF Over
    <3> QED BY <1>3, <1>4, <2>2, <3>1
  <2>3. CASE x # e
    <3>1. x \in DOMAIN slots[s].row /\ row[x] = slots[s].row[x]
      BY <1>4, <2>1, <2>3 DEF Over
    <3> QED BY <1>1, <1>4, <3>1 DEF KnowsRows
  <2> QED BY <2>2, <2>3
<1> HIDE DEF row
<1> QED BY <1>1, <1>5, <1>4, ReadCounts DEF row

LEMMA RepoKnown == ASSUME SlotsCounted, NEW s \in Slots, Busy(s) PROVE Repo(s) \in RepoIds
<1>1. KnowsRepos(s)
  BY DEF SlotsCounted
<1> QED BY <1>1 DEF KnowsRepos, Repo

(* A committed edge leads from a row of its author to the repository, with  *)
(* a number of commits, and there are finitely many.                        *)
LEMMA PersistCounts ==
  ASSUME CountedInv, NEW s \in Slots, PersistStatistics(s)
  PROVE  SlotsCounted' /\ Counted'
<1> DEFINE r == Repo(s)
           counts == AggregateContributors(Log(r, slots[s].log))
<1>1. Busy(s) /\ Inv /\ SlotsCounted /\ r \in RepoIds /\ slots[s].pc = "persist" /\ Counted
  <2>1. Busy(s) /\ slots[s].pc = "persist"
    BY DEF PersistStatistics, Busy
  <2> QED BY <2>1, RepoKnown DEF CountedInv, TimedInv
<1>2. IsFiniteSet(DOMAIN counts) /\ counts \in [DOMAIN counts -> Nat]
  BY <1>1, LogFinite, AuthorsCounted
<1>3. DOMAIN RowOf(s) = DOMAIN counts /\ \A e \in DOMAIN counts : RowOf(s)[e][1] = e
  <2>1. KnowsRows(s)
    BY <1>1 DEF SlotsCounted
  <2>2. DOMAIN slots[s].row = DOMAIN counts
        /\ \A e \in DOMAIN slots[s].row : slots[s].row[e] # Unset => slots[s].row[e][1] = e
    BY <1>1, <2>1 DEF KnowsRows, Rows
  <2> HIDE DEF counts
  <2> QED BY <2>2 DEF RowOf
<1>4. contributors \subseteq contributors'
      /\ \/ Proceed(s, "audit", [log |-> slots[s].log, path |-> slots[s].path])
         \/ Proceed(s, "next", <<>>)
  <2>1. contributors' = contributors \cup {RowOf(s)[e] : e \in DOMAIN counts} \/ UNCHANGED contributors
    BY DEF PersistStatistics, statistics
  <2>2. Proceed(s, "audit", [log |-> slots[s].log, path |-> slots[s].path]) \/ Proceed(s, "next", <<>>)
    BY Zenon DEF PersistStatistics
  <2> QED BY <2>1, <2>2
<1>5. SlotsCounted'
  <2>1. ASSUME Proceed(s, "audit", [log |-> slots[s].log, path |-> slots[s].path]) PROVE SlotsCounted'
    BY <1>1, <1>4, <2>1, ProceedCounts
  <2>2. ASSUME Proceed(s, "next", <<>>) PROVE SlotsCounted'
    BY <1>1, <1>4, <2>2, ProceedCounts
  <2> QED BY <1>4, <2>1, <2>2
<1> DEFINE f == [e \in DOMAIN counts |-> <<RowOf(s)[e], r>>]
           new == {f[e] : e \in DOMAIN counts}
<1>6. CASE /\ contributors' = contributors \cup {RowOf(s)[e] : e \in DOMAIN counts}
           /\ edges' = Over(Contributed(s, counts), edges)
  <2>1. IsFiniteSet(new)
    <3>1. DOMAIN f = DOMAIN counts
      OBVIOUS
    <3> HIDE DEF f, counts
    <3> QED BY <1>2, <3>1, FiniteImage
  <2> HIDE DEF counts
  <2>2. Contributed(s, counts) = [edge \in new |-> counts[edge[1][1]]]
    BY DEF Contributed
  <2>3. ASSUME NEW edge \in new
        PROVE  edge[1] \in contributors' /\ edge[2] \in RepoIds /\ counts[edge[1][1]] \in Nat
    <3>1. PICK e \in DOMAIN counts : edge = <<RowOf(s)[e], r>>
      OBVIOUS
    <3> HIDE DEF new
    <3>2. edge[1] = RowOf(s)[e] /\ edge[2] = r /\ edge[1][1] = e
      BY <1>3, <3>1
    <3> HIDE DEF r
    <3> QED BY <1>1, <1>2, <1>6, <3>2
  <2> HIDE DEF new
  <2>4. /\ DOMAIN edges' = new \cup DOMAIN edges
        /\ \A edge \in new : edges'[edge] = counts[edge[1][1]]
        /\ \A edge \in DOMAIN edges \ new : edges'[edge] = edges[edge]
    BY <1>6, <2>2 DEF Over
  <2>5. IsFiniteSet(DOMAIN edges')
    BY <1>1, <2>1, <2>4, FS_Union DEF Counted
  <2> HIDE DEF f, r
  <2>6. ASSUME NEW edge \in DOMAIN edges'
        PROVE  edge[1] \in contributors' /\ edge[2] \in RepoIds /\ edges'[edge] \in Nat
    <3>1. CASE edge \in new
      BY <2>3, <2>4, <3>1
    <3>2. CASE edge \notin new
      <4>1. edge \in DOMAIN edges /\ edges'[edge] = edges[edge]
        BY <2>4, <3>2
      <4>2. edge[1] \in contributors /\ edge[2] \in RepoIds /\ edges[edge] \in Nat
        BY <1>1, <4>1 DEF Counted
      <4> QED BY <1>4, <4>1, <4>2
    <3> QED BY <3>1, <3>2
  <2> QED BY <1>5, <2>5, <2>6 DEF Counted
<1>7. CASE UNCHANGED <<contributors, edges>>
  BY <1>1, <1>5, <1>7 DEF Counted
<1> QED BY <1>6, <1>7 DEF PersistStatistics, statistics

(* A batch is resolved to the rows it names; all of them are there.         *)
LEMMA FetchCounts ==
  ASSUME CountedInv, NEW s \in Slots, Fetch(s)
  PROVE  SlotsCounted' /\ Waiting'
<1>1. PICK job \in todo :
        /\ todo' = todo \ {job}
        /\ Go(s, [pc |-> "parse", job |-> [job EXCEPT !.repos = ResolveRepos(@)], at |-> 1, failed |-> {}])
  BY DEF Fetch
<1>2. UNCHANGED contributors /\ Inv /\ SlotsCounted /\ Waiting
  BY DEF Fetch, CountedInv, TimedInv, statistics
<1> DEFINE ids == ResolveRepos(job.repos)
           resolved == [job EXCEPT !.repos = ids]
<1>3. "repos" \in DOMAIN job /\ job.repos \in Seq(RepoIds) /\ Len(job.repos) \in 1..BatchSize
  BY <1>1, <1>2 DEF Waiting
<1>4. ids \in Seq(RepoIds) /\ 1 \in DOMAIN ids
  <2>1. ToSet(job.repos) \subseteq RepoIds /\ job.repos[1] \in ToSet(job.repos)
    BY <1>3 DEF ToSet
  <2>2. ids \in Seq(RepoIds) /\ ToSet(ids) = ToSet(job.repos)
    BY <2>1, ByIdLists DEF ResolveRepos
  <2> HIDE DEF ids
  <2>3. \E i \in DOMAIN ids : ids[i] = job.repos[1]
    BY <2>1, <2>2 DEF ToSet
  <2> QED BY <2>2, <2>3
<1>5. resolved.repos = ids
  BY <1>3
<1> HIDE DEF resolved, ids
<1>6. /\ slots'[s] = [pc |-> "parse", job |-> resolved, at |-> 1, failed |-> {}]
      /\ \A t \in Slots \ {s} : slots'[t] = slots[t]
  BY <1>1, <1>2, GoSlot DEF Inv, resolved, ids
<1>7. KnowsRepos(s)' /\ KnowsRows(s)'
  BY <1>4, <1>5, <1>6 DEF KnowsRepos, KnowsRows
<1>8. SlotsCounted'
  BY <1>2, <1>6, <1>7, SlotCounts
<1> QED BY <1>1, <1>2, <1>8 DEF Waiting

LEMMA NextRepoCounts == ASSUME CountedInv, NEW s \in Slots, NextRepo(s) PROVE SlotsCounted'
<1>1. Busy(s) /\ UNCHANGED contributors /\ Inv /\ SlotsCounted
  BY DEF NextRepo, Busy, CountedInv, TimedInv, statistics
<1>2. CASE Go(s, Idle)
  <2>1. ~Busy(s)' /\ \A t \in Slots \ {s} : slots'[t] = slots[t]
    BY <1>1, <1>2, GoSlot DEF Inv, Busy, Idle
  <2> QED BY <1>1, <2>1, SlotCounts
<1>3. CASE Go(s, [slots[s] EXCEPT !.pc = "parse", !.at = @ + 1]) /\ slots[s].at < Len(slots[s].job.repos)
  <2> DEFINE state == [slots[s] EXCEPT !.pc = "parse", !.at = @ + 1]
  <2>1. state.pc = "parse" /\ state.job = slots[s].job /\ state.at = slots[s].at + 1
    BY <1>1 DEF Inv, SlotsKnow, KnowsBatch
  <2> HIDE DEF state
  <2>2. slots'[s] = state /\ \A t \in Slots \ {s} : slots'[t] = slots[t]
    BY <1>1, <1>3, GoSlot DEF Inv, state
  <2>3. KnowsRepos(s)
    BY <1>1 DEF SlotsCounted
  <2>4. slots[s].at + 1 \in DOMAIN slots[s].job.repos
    BY <1>3, <2>3 DEF KnowsRepos
  <2>5. KnowsRepos(s)' /\ KnowsRows(s)'
    BY <2>1, <2>2, <2>3, <2>4 DEF KnowsRepos, KnowsRows
  <2> QED BY <1>1, <2>2, <2>5, SlotCounts
<1> QED BY <1>2, <1>3 DEF NextRepo

LEMMA SeedCounts == ASSUME CountedInv, SeedGitlogBatches PROVE SlotsCounted' /\ Waiting'
<1>1. /\ UNCHANGED <<slots, contributors>>
      /\ \A job \in todo' \ todo : job \in Batches(Scheduled)
  BY DEF SeedGitlogBatches, statistics
<1>2. Scheduled \in Seq(RepoIds)
  <2>1. visible \ Dormant \subseteq RepoIds /\ Due \subseteq RepoIds
    BY DEF CountedInv, TimedInv, Dated, Due, Dormant
  <2>2. ById(visible \ Dormant) \in Seq(RepoIds) /\ ById(Due) \in Seq(RepoIds)
    BY <2>1, ByIdLists
  <2> QED BY <2>2 DEF Scheduled
<1>3. \A job \in Batches(Scheduled) : job.repos \in Seq(RepoIds) /\ Len(job.repos) \in 1..BatchSize
  BY <1>2, BatchSizes
<1>4. \A job \in Batches(Scheduled) : "repos" \in DOMAIN job
  BY DEF Batches
<1>5. Waiting'
  BY <1>1, <1>3, <1>4 DEF CountedInv, Waiting
<1>6. SlotsCounted'
  BY <1>1 DEF CountedInv, SlotsCounted, KnowsRepos, KnowsRows, Busy, Repo, Rows
<1> QED BY <1>5, <1>6

(* Commits by e-mail are numbers, of finitely many e-mails.                 *)
LEMMA EmailsCounted ==
  ASSUME Counted, NEW rs
  PROVE  LET counts == CountsByEmail(rs)
         IN  IsFiniteSet(DOMAIN counts) /\ counts \in [DOMAIN counts -> Nat]
<1> DEFINE mine == {edge \in DOMAIN edges : edge[2] \in rs}
           f == [edge \in mine |-> edge[1][1]]
           emails == {f[edge] : edge \in mine}
           counts == CountsByEmail(rs)
<1>1. IsFiniteSet(mine) /\ mine \subseteq DOMAIN edges
  BY FS_Subset DEF Counted
<1>2. IsFiniteSet(emails)
  <2>1. DOMAIN f = mine
    OBVIOUS
  <2> HIDE DEF f, mine
  <2> QED BY <1>1, <2>1, FiniteImage
<1>3. emails = {edge[1][1] : edge \in mine}
  OBVIOUS
<1>4. \A e : SumFunctionOnSet(edges, {edge \in mine : edge[1][1] = e}) \in Nat
  <2> SUFFICES ASSUME NEW e PROVE SumFunctionOnSet(edges, {edge \in mine : edge[1][1] = e}) \in Nat
    OBVIOUS
  <2> DEFINE S == {edge \in mine : edge[1][1] = e}
  <2>1. S \subseteq mine
    OBVIOUS
  <2>2. IsFiniteSet(S) /\ \A edge \in S : edges[edge] \in Nat
    BY <1>1, <2>1, FS_Subset DEF Counted
  <2> HIDE DEF S
  <2>3. SumFunctionOnSet(edges, S) \in Nat
    BY <2>2, SumType
  <2> QED BY <2>3 DEF S
<1>5. counts = [e \in {edge[1][1] : edge \in mine} |-> SumFunctionOnSet(edges, {edge \in mine : edge[1][1] = e})]
  BY DEF CountsByEmail
<1> HIDE DEF counts, emails
<1>6. DOMAIN counts = emails /\ counts \in [emails -> Nat]
  BY <1>3, <1>4, <1>5
<1>7. IsFiniteSet(DOMAIN counts) /\ counts \in [DOMAIN counts -> Nat]
  BY <1>2, <1>6
<1> QED BY <1>7 DEF counts

LEMMA MaterializeScores == ASSUME CountedInv, MaterializePony PROVE Scored'
<1>1. \A rs : ComputePonyFactor(CountsByEmail(rs)) \in Nat
  <2> SUFFICES ASSUME NEW rs PROVE ComputePonyFactor(CountsByEmail(rs)) \in Nat
    OBVIOUS
  <2> DEFINE counts == CountsByEmail(rs)
  <2>1. IsFiniteSet(DOMAIN counts) /\ counts \in [DOMAIN counts -> Nat]
    BY EmailsCounted DEF CountedInv
  <2> HIDE DEF counts
  <2>2. ComputePonyFactor(counts) \in Nat
    BY <2>1, PonyFactorIsLeast
  <2> QED BY <2>2 DEF counts
<1> DEFINE score(x) ==
             CASE x \in Targets -> ComputePonyFactor(CountsByEmail({x}))
               [] x \in {ProjectOf[r] : r \in Targets} -> ComputePonyFactor(CountsByEmail(Members(x)))
               [] OTHER -> pony[x]
<1>2. pony' = [x \in RepoIds \cup Projects |-> score(x)]
  BY DEF MaterializePony
<1>3. \A x \in RepoIds \cup Projects : pony[x] \in Nat \cup {Unset}
  BY DEF CountedInv, Scored
<1>4. \A x \in RepoIds \cup Projects : score(x) \in Nat \cup {Unset}
  BY <1>1, <1>3
<1> HIDE DEF score
<1> QED BY <1>2, <1>4 DEF Scored

(* Rows that lose their paths keep their repositories and ordinals.         *)
LEMMA RowsAfterAttempt ==
  ASSUME CountedInv, NEW s \in Slots, RecordAttempt(s), ~Fault \/ artifacts' # artifacts
  PROVE  /\ \A a \in artifacts : \E b \in artifacts' : b.repo = a.repo /\ b.ordinal = a.ordinal
         /\ \A b \in artifacts' : \/ b.repo = Repo(s) /\ b.ordinal = slots[s].job.ordinal
                                 \/ \E a \in artifacts : b.repo = a.repo /\ b.ordinal = a.ordinal
         /\ \E b \in artifacts' : b.repo = Repo(s) /\ b.ordinal = slots[s].job.ordinal
<1> DEFINE row == [repo |-> Repo(s), ordinal |-> slots[s].job.ordinal,
                   status |-> StatusOf(slots[s].log), path |-> slots[s].path]
           older == {a \in artifacts : a.repo = Repo(s) /\ slots[s].path # 0}
           bare(a) == [a EXCEPT !.path = 0]
<1>1. artifacts' = (artifacts \ older) \cup {bare(a) : a \in older} \cup {row}
  BY DEF RecordAttempt
<1>2. ASSUME NEW a \in artifacts PROVE bare(a).repo = a.repo /\ bare(a).ordinal = a.ordinal
  BY DEF CountedInv, TimedInv, Inv, AuditRows, Ordinals
<1>3. row.repo = Repo(s) /\ row.ordinal = slots[s].job.ordinal
  OBVIOUS
<1>4. older \subseteq artifacts
  OBVIOUS
<1> HIDE DEF row, older, bare
<1>5. \A a \in artifacts : \E b \in artifacts' : b.repo = a.repo /\ b.ordinal = a.ordinal
  BY <1>1, <1>2, <1>4
<1>6. \A b \in artifacts' : \/ b.repo = Repo(s) /\ b.ordinal = slots[s].job.ordinal
                           \/ \E a \in artifacts : b.repo = a.repo /\ b.ordinal = a.ordinal
  BY <1>1, <1>2, <1>3, <1>4
<1>7. \E b \in artifacts' : b.repo = Repo(s) /\ b.ordinal = slots[s].job.ordinal
  BY <1>1, <1>3
<1> QED BY <1>5, <1>6, <1>7

LEMMA AttemptAudited == ASSUME CountedInv, NEW s \in Slots, RecordAttempt(s) PROVE Audited' /\ SlotsCounted'
<1>1. Busy(s) /\ UNCHANGED contributors /\ Inv /\ SlotsCounted /\ Proceed(s, "next", <<>>)
  BY DEF RecordAttempt, Busy, CountedInv, TimedInv, statistics
<1>2. SlotsCounted'
  BY <1>1, ProceedCounts
<1>3. Repo(s) \in RepoIds
  BY <1>1, RepoKnown
<1>4. CASE artifacts' = artifacts
  BY <1>2, <1>4 DEF CountedInv, Audited
<1>5. CASE artifacts' # artifacts
  BY <1>2, <1>3, <1>5, RowsAfterAttempt DEF CountedInv, Audited
<1> QED BY <1>4, <1>5

LEMMA CountedInit == Init => CountedInv
<1> SUFFICES ASSUME Init PROVE CountedInv
  OBVIOUS
<1>1. Waiting /\ SlotsCounted /\ Audited
  BY DEF Init, Waiting, SlotsCounted, Audited, Busy, Idle
<1>2. Counted
  BY FS_EmptySet DEF Init, Counted
<1>3. Scored /\ Bounds
  BY GitLogConstants DEF Init, Scored, Bounds, GitLogConstants
<1> QED BY <1>1, <1>2, <1>3, TimedInit DEF CountedInv

(* Faults are counted up to their bound, and seeds up to theirs.            *)
LEMMA BoundsStay == ASSUME Bounds, [Next]_vars PROVE Bounds'
<1>1. faults' = faults \/ Fault
  <2>1. ASSUME NEW s \in Slots, Fetch(s) \/ Work(s) PROVE faults' = faults \/ Fault
    BY <2>1 DEF Fetch, Work, ParseRepo, StoreArtifact, LoadStatistics, PersistStatistics, RecordAttempt, NextRepo
  <2>2. SeedGitlogBatches \/ EndWork \/ MaterializePony \/ UNCHANGED vars => faults' = faults \/ Fault
    BY DEF SeedGitlogBatches, EndWork, MaterializePony, vars
  <2> QED BY <2>1, <2>2 DEF Next
<1>2. faults' \in 0..Faults
  <2>1. Faults \in Nat
    BY GitLogConstants DEF GitLogConstants
  <2> QED BY <1>1, <2>1 DEF Bounds, Fault, MayFail
<1>3. now' \in 0..Runs /\ stage' \in {"over", "working", "materializing"}
  <2>1. ASSUME NEW s \in Slots, Fetch(s) \/ Work(s) PROVE UNCHANGED <<now, stage>>
    BY <2>1 DEF Fetch, Work, ParseRepo, StoreArtifact, LoadStatistics, PersistStatistics, RecordAttempt, NextRepo
  <2>2. CASE SeedGitlogBatches
    <3>1. Runs \in Nat
      BY GitLogConstants DEF GitLogConstants
    <3> QED BY <2>2, <3>1 DEF SeedGitlogBatches, Bounds
  <2>3. CASE EndWork \/ MaterializePony \/ UNCHANGED vars
    BY <2>3 DEF EndWork, MaterializePony, vars, Bounds
  <2> QED BY <2>1, <2>2, <2>3 DEF Next, Bounds
<1> QED BY <1>2, <1>3 DEF Bounds

LEMMA CountedNext == CountedInv /\ [Next]_vars => CountedInv'
<1> SUFFICES ASSUME CountedInv, [Next]_vars PROVE CountedInv'
  OBVIOUS
<1>1. TimedInv' /\ Bounds'
  BY TimedNext, BoundsStay DEF CountedInv
<1>2. ASSUME NEW s \in Slots, ParseRepo(s) \/ StoreArtifact(s) \/ LoadStatistics(s) \/ NextRepo(s)
      PROVE  CountedInv'
  <2>1. UNCHANGED <<todo, contributors, edges, artifacts, pony>>
    BY <1>2 DEF ParseRepo, StoreArtifact, LoadStatistics, NextRepo, Fail, statistics
  <2>2. SlotsCounted'
    BY <1>2, ParseCounts, StoreCounts, LoadCounts, NextRepoCounts
  <2> QED BY <1>1, <2>1, <2>2 DEF CountedInv, Waiting, Counted, Audited, Scored
<1>3. ASSUME NEW s \in Slots, PersistStatistics(s) PROVE CountedInv'
  <2>1. UNCHANGED <<todo, artifacts, pony>>
    BY <1>3 DEF PersistStatistics
  <2> QED BY <1>1, <1>3, <2>1, PersistCounts DEF CountedInv, Waiting, Audited, Scored
<1>4. ASSUME NEW s \in Slots, RecordAttempt(s) PROVE CountedInv'
  <2>1. UNCHANGED <<todo, contributors, edges, pony>>
    BY <1>4 DEF RecordAttempt, statistics
  <2> QED BY <1>1, <1>4, <2>1, AttemptAudited DEF CountedInv, Waiting, Counted, Scored
<1>5. ASSUME NEW s \in Slots, Fetch(s) PROVE CountedInv'
  <2>1. UNCHANGED <<contributors, edges, artifacts, pony>>
    BY <1>5 DEF Fetch, statistics
  <2> QED BY <1>1, <1>5, <2>1, FetchCounts DEF CountedInv, Counted, Audited, Scored
<1>6. CASE SeedGitlogBatches
  <2>1. UNCHANGED <<contributors, edges, artifacts, pony>>
    BY <1>6 DEF SeedGitlogBatches, statistics
  <2> QED BY <1>1, <1>6, <2>1, SeedCounts DEF CountedInv, Counted, Audited, Scored
<1>7. CASE EndWork \/ MaterializePony \/ UNCHANGED vars
  <2>1. UNCHANGED <<todo, contributors, edges, artifacts>>
    BY <1>7 DEF EndWork, MaterializePony, vars, statistics, jobs
  <2>2. slots' = slots \/ slots' = [s \in Slots |-> Idle]
    BY <1>7 DEF EndWork, MaterializePony, vars, jobs
  <2>3. SlotsCounted'
    BY <2>1, <2>2 DEF CountedInv, SlotsCounted, KnowsRepos, KnowsRows, Busy, Idle, Repo, Rows
  <2>4. Scored'
    <3>1. CASE MaterializePony
      BY <3>1, MaterializeScores
    <3>2. CASE EndWork \/ UNCHANGED vars
      BY <3>2 DEF EndWork, vars, CountedInv, Scored
    <3> QED BY <1>7, <3>1, <3>2
  <2> QED BY <1>1, <2>1, <2>3, <2>4 DEF CountedInv, Waiting, Counted, Audited
<1> QED BY <1>2, <1>3, <1>4, <1>5, <1>6, <1>7 DEF Next, Work

THEOREM SpecCounted == Spec => []CountedInv
BY CountedInit, CountedNext, PTL DEF Spec

(* The batches name repositories and are not longer than they may be, every *)
(* edge leads from a contributor that is stored to a repository, and every  *)
(* pony factor is a number, for any repositories, logs and faults: what the *)
(* sort of rows by id, the division into batches, the rows read before a    *)
(* commit and the algorithm of metrics/pony_factor.py return.               *)
THEOREM GitLogTyped == Spec => []TypeOK
<1>1. CountedInv => TypeOK
  <2> SUFFICES ASSUME CountedInv PROVE TypeOK
    OBVIOUS
  <2>1. \A job \in todo : ToSet(job.repos) \subseteq RepoIds /\ Len(job.repos) \in 1..BatchSize
    BY DEF CountedInv, Waiting, ToSet
  <2>2. \A s \in Slots : Busy(s) => slots[s].at \in DOMAIN slots[s].job.repos
    BY DEF CountedInv, SlotsCounted, KnowsRepos
  <2>3. now \in 0..Runs /\ stage \in {"over", "working", "materializing"} /\ faults \in 0..Faults
    BY DEF CountedInv, Bounds
  <2>4. dates \in [RepoIds -> Nat] /\ visible \subseteq RepoIds
    BY DEF CountedInv, TimedInv, Dated
  <2>5. \A edge \in DOMAIN edges : edge[1] \in contributors /\ edge[2] \in RepoIds
    BY DEF CountedInv, Counted
  <2>6. \A a \in artifacts : a.ordinal \in 1..now
    BY DEF CountedInv, TimedInv, Ordinals
  <2>7. pony \in [RepoIds \cup Projects -> Nat \cup {Unset}]
    BY DEF CountedInv, Scored
  <2> QED BY <2>1, <2>2, <2>3, <2>4, <2>5, <2>6, <2>7 DEF TypeOK
<1> QED BY <1>1, SpecCounted, PTL
-------------------------------------------------------------------------------
(* Pony factors.                                                            *)

(* Whose edges a pony factor is about, and whether they have changed since  *)
(* it was computed.                                                         *)
Owned(x) == IF x \in RepoIds THEN {x} ELSE Members(x)
Stale(x) == pony[x] # Unset /\ pony[x] # ComputePonyFactor(CountsByEmail(Owned(x)))

(* The seeds whose batches are still to be done, and the latest one with a  *)
(* row.                                                                     *)
Pending == {job.ordinal : job \in todo} \cup {slots[s].job.ordinal : s \in {t \in Slots : Busy(t)}}
LatestSeed == NextOrdinal - 1

(* A stale pony factor is about a repository that the next rows, or those   *)
(* already there, make a target: of the latest seed, after which none of an *)
(* older or a later one is recorded before the pony factors are computed.   *)
WillBeSeen(x) ==
  \/ \E s \in Slots : slots[s].pc = "audit" /\ Repo(s) \in Owned(x)
  \/ stage # "over" /\ Owned(x) \cap Targets # {} /\ Pending \subseteq {LatestSeed}
Recomputed ==
  faults = 0 =>
    /\ stage # "working" => Pending = {}
    /\ \E o \in {LatestSeed, LatestSeed + 1} : Pending \subseteq {o}
    /\ \A x \in RepoIds \cup Projects : Stale(x) => WillBeSeen(x)

FreshInv == CountedInv /\ Recomputed

(* Commits by e-mail depend on the edges to the repositories alone.         *)
LEMMA CountsAgree ==
  ASSUME Counted, NEW rs,
         \A edge : edge[2] \in rs => (edge \in DOMAIN edges' <=> edge \in DOMAIN edges),
         \A edge \in DOMAIN edges : edge[2] \in rs => edges'[edge] = edges[edge]
  PROVE  CountsByEmail(rs)' = CountsByEmail(rs)
<1> DEFINE mine == {edge \in DOMAIN edges : edge[2] \in rs}
           those(e) == {edge \in mine : edge[1][1] = e}
<1>1. mine = {edge \in DOMAIN edges' : edge[2] \in rs}
  OBVIOUS
<1>2. IsFiniteSet(mine)
  BY FS_Subset DEF Counted
<1>3. ASSUME NEW e PROVE SumFunctionOnSet(edges', those(e)) = SumFunctionOnSet(edges, those(e))
  <2> DEFINE S == those(e)
  <2>1. IsFiniteSet(S)
    BY <1>2, FS_Subset
  <2>2. \A edge \in S : edges[edge] \in Nat /\ edges[edge] = edges'[edge]
    BY DEF Counted
  <2> HIDE DEF S
  <2>3. SumFunctionOnSet(edges', S) = SumFunctionOnSet(edges, S)
    BY <2>1, <2>2, SumsAgree
  <2> QED BY <2>3 DEF S
<1>4. CountsByEmail(rs) = [e \in {edge[1][1] : edge \in mine} |-> SumFunctionOnSet(edges, those(e))]
  BY DEF CountsByEmail
<1>5. CountsByEmail(rs)' = [e \in {edge[1][1] : edge \in mine} |-> SumFunctionOnSet(edges', those(e))]
  BY <1>1 DEF CountsByEmail
<1> HIDE DEF mine, those
<1> QED BY <1>3, <1>4, <1>5

LEMMA StaleStays ==
  ASSUME UNCHANGED <<pony, edges>>, NEW x PROVE Stale(x)' = Stale(x)
BY DEF Stale, Owned, Members, CountsByEmail

LEMMA PendingMoves ==
  ASSUME todo' \subseteq todo, NEW s \in Slots, \A t \in Slots \ {s} : slots'[t] = slots[t],
         Busy(s)' => slots'[s].job.ordinal \in Pending
  PROVE  Pending' \subseteq Pending
BY DEF Pending, Busy

(* Steps that neither store edges nor record attempts leave what is stale   *)
(* to be seen.                                                              *)
LEMMA QuietStep ==
  ASSUME Recomputed, UNCHANGED <<pony, edges, artifacts, stage>>, faults' = 0 => faults = 0,
         Pending' \subseteq Pending,
         \A t \in Slots : slots[t].pc = "audit" => slots'[t] = slots[t]
  PROVE  Recomputed'
<1> SUFFICES ASSUME faults' = 0
             PROVE  /\ stage' # "working" => Pending' = {}
                    /\ \E o \in {LatestSeed', LatestSeed' + 1} : Pending' \subseteq {o}
                    /\ \A x \in RepoIds \cup Projects : Stale(x)' => WillBeSeen(x)'
  BY DEF Recomputed, Projects, RepoIds
<1>1. LatestSeed' = LatestSeed /\ Targets' = Targets
  BY DEF LatestSeed, NextOrdinal, Targets
<1>2. ASSUME NEW x \in RepoIds \cup Projects, Stale(x)' PROVE WillBeSeen(x)'
  <2>1. WillBeSeen(x)
    BY <1>2, StaleStays DEF Recomputed
  <2>2. Owned(x)' = Owned(x)
    BY DEF Owned, Members
  <2>3. CASE \E s \in Slots : slots[s].pc = "audit" /\ Repo(s) \in Owned(x)
    BY <2>2, <2>3 DEF WillBeSeen, Repo
  <2>4. CASE stage # "over" /\ Owned(x) \cap Targets # {} /\ Pending \subseteq {LatestSeed}
    BY <1>1, <2>2, <2>4 DEF WillBeSeen
  <2> QED BY <2>1, <2>3, <2>4 DEF WillBeSeen
<1> QED BY <1>1, <1>2 DEF Recomputed

LEMMA FaultsGrow == ASSUME Bounds, [Next]_vars, faults' = 0 PROVE faults = 0 /\ ~Fault
<1>1. faults \in Nat /\ (faults' = faults \/ Fault)
  <2>1. ASSUME NEW s \in Slots, Fetch(s) \/ Work(s) PROVE faults' = faults \/ Fault
    BY <2>1 DEF Fetch, Work, ParseRepo, StoreArtifact, LoadStatistics, PersistStatistics, RecordAttempt, NextRepo
  <2>2. SeedGitlogBatches \/ EndWork \/ MaterializePony \/ UNCHANGED vars => faults' = faults \/ Fault
    BY DEF SeedGitlogBatches, EndWork, MaterializePony, vars
  <2> QED BY <2>1, <2>2 DEF Next, Bounds
<1> QED BY <1>1 DEF Fault

LEMMA ProceedPending ==
  ASSUME Inv, UNCHANGED todo, NEW s \in Slots, Busy(s), NEW pc, NEW fields,
         Proceed(s, pc, fields), DOMAIN fields \cap {"pc", "job", "at"} = {}
  PROVE  Pending' \subseteq Pending /\ \A t \in Slots \ {s} : slots'[t] = slots[t]
<1>1. (\A t \in Slots \ {s} : slots'[t] = slots[t]) /\ slots'[s].job = slots[s].job
  BY ProceedSlot DEF Inv
<1>2. slots'[s].job.ordinal \in Pending
  BY <1>1 DEF Pending
<1> QED BY <1>1, <1>2, PendingMoves

LEMMA IdlePending ==
  ASSUME Inv, UNCHANGED todo, NEW s \in Slots, Go(s, Idle)
  PROVE  Pending' \subseteq Pending /\ \A t \in Slots \ {s} : slots'[t] = slots[t]
<1>1. (\A t \in Slots \ {s} : slots'[t] = slots[t]) /\ ~Busy(s)'
  BY GoSlot DEF Inv, Busy, Idle
<1> QED BY <1>1, PendingMoves

LEMMA QuietWork ==
  ASSUME FreshInv, [Next]_vars, NEW s \in Slots,
         ParseRepo(s) \/ StoreArtifact(s) \/ LoadStatistics(s) \/ NextRepo(s) \/ Fetch(s)
  PROVE  Recomputed'
<1>1. UNCHANGED <<pony, edges, artifacts, stage>> /\ slots[s].pc # "audit" /\ Inv
  BY DEF ParseRepo, StoreArtifact, LoadStatistics, NextRepo, Fetch, statistics, Busy, FreshInv, CountedInv, TimedInv
<1>2. faults' = 0 => faults = 0
  BY FaultsGrow DEF FreshInv, CountedInv
<1>3. Pending' \subseteq Pending /\ \A t \in Slots \ {s} : slots'[t] = slots[t]
  <2>1. CASE ParseRepo(s)
    <3>1. UNCHANGED todo /\ Busy(s)
      BY <2>1 DEF ParseRepo, Fail, Busy
    <3>2. ASSUME Proceed(s, "store", [log |-> now])
          PROVE  Pending' \subseteq Pending /\ \A t \in Slots \ {s} : slots'[t] = slots[t]
      BY <1>1, <3>1, <3>2, ProceedPending
    <3>3. ASSUME NEW failed, Proceed(s, "audit", [log |-> 0, path |-> 0, failed |-> failed])
          PROVE  Pending' \subseteq Pending /\ \A t \in Slots \ {s} : slots'[t] = slots[t]
      BY <1>1, <3>1, <3>3, ProceedPending
    <3>4. Fail(s) \/ Proceed(s, "store", [log |-> now])
          \/ \E failed : Proceed(s, "audit", [log |-> 0, path |-> 0, failed |-> failed])
      BY <2>1, Zenon DEF ParseRepo
    <3> QED BY <1>1, <3>1, <3>2, <3>3, <3>4, IdlePending DEF Fail
  <2>2. CASE StoreArtifact(s) \/ LoadStatistics(s)
    <3>1. UNCHANGED todo /\ Busy(s)
      BY <2>2 DEF StoreArtifact, LoadStatistics, Fail, Busy
    <3>2. ASSUME NEW pc, NEW fields, Proceed(s, pc, fields),
                 DOMAIN fields = {"log", "path", "row", "known", "date"}
          PROVE  Pending' \subseteq Pending /\ \A t \in Slots \ {s} : slots'[t] = slots[t]
      BY <1>1, <3>1, <3>2, ProceedPending
    <3>3. ASSUME Proceed(s, "audit", [log |-> 0, path |-> 0])
          PROVE  Pending' \subseteq Pending /\ \A t \in Slots \ {s} : slots'[t] = slots[t]
      BY <1>1, <3>1, <3>3, ProceedPending
    <3> QED BY <1>1, <2>2, <3>1, <3>2, <3>3, ReadsOn, IdlePending DEF Fail
  <2>3. CASE NextRepo(s)
    <3>1. UNCHANGED todo /\ Busy(s)
      BY <2>3 DEF NextRepo, Busy
    <3>2. CASE Go(s, [slots[s] EXCEPT !.pc = "parse", !.at = @ + 1])
      <4> DEFINE state == [slots[s] EXCEPT !.pc = "parse", !.at = @ + 1]
      <4>1. state.job = slots[s].job
        BY <1>1, <3>1 DEF Inv, SlotsKnow, KnowsBatch
      <4> HIDE DEF state
      <4>2. slots'[s] = state /\ \A t \in Slots \ {s} : slots'[t] = slots[t]
        BY <1>1, <3>2, GoSlot DEF Inv, state
      <4>3. slots'[s].job.ordinal \in Pending
        BY <3>1, <4>1, <4>2 DEF Pending
      <4> QED BY <3>1, <4>2, <4>3, PendingMoves
    <3> QED BY <1>1, <2>3, <3>1, <3>2, IdlePending DEF NextRepo
  <2>4. CASE Fetch(s)
    <3>1. PICK job \in todo :
            /\ todo' = todo \ {job}
            /\ Go(s, [pc |-> "parse", job |-> [job EXCEPT !.repos = ResolveRepos(@)], at |-> 1, failed |-> {}])
      BY <2>4 DEF Fetch
    <3> DEFINE resolved == [job EXCEPT !.repos = ResolveRepos(@)]
    <3>2. resolved.ordinal = job.ordinal
      BY DEF FreshInv, CountedInv, TimedInv, Ordinals
    <3> HIDE DEF resolved
    <3>3. /\ slots'[s] = [pc |-> "parse", job |-> resolved, at |-> 1, failed |-> {}]
          /\ \A t \in Slots \ {s} : slots'[t] = slots[t]
      BY <1>1, <3>1, GoSlot DEF Inv, resolved
    <3>4. slots'[s].job.ordinal \in Pending
      BY <3>2, <3>3 DEF Pending
    <3> QED BY <3>1, <3>3, <3>4, PendingMoves
  <2> QED BY <2>1, <2>2, <2>3, <2>4
<1>4. \A t \in Slots : slots[t].pc = "audit" => slots'[t] = slots[t]
  BY <1>1, <1>3
<1> QED BY <1>1, <1>2, <1>3, <1>4, QuietStep DEF FreshInv

(* Without faults, jobs run only while the worker does.                     *)
LEMMA WorkingWhenBusy ==
  ASSUME Recomputed, faults = 0, NEW s \in Slots, Busy(s)
  PROVE  stage = "working"
<1>1. slots[s].job.ordinal \in Pending
  BY DEF Pending
<1> QED BY <1>1 DEF Recomputed

(* A commit of statistics makes pony factors stale, and its slot goes on to *)
(* the row that makes their repository a target.                            *)
LEMMA PersistFresh ==
  ASSUME FreshInv, [Next]_vars, NEW s \in Slots, PersistStatistics(s)
  PROVE  Recomputed'
<1> DEFINE r == Repo(s)
           counts == AggregateContributors(Log(r, slots[s].log))
<1>1. /\ UNCHANGED <<todo, pony, artifacts, stage>>
      /\ slots[s].pc = "persist" /\ Busy(s) /\ Inv
  BY DEF PersistStatistics, Busy, FreshInv, CountedInv, TimedInv
<1>2. faults' = 0 => faults = 0
  BY FaultsGrow DEF FreshInv, CountedInv
<1>3. CASE UNCHANGED statistics /\ Proceed(s, "next", <<>>)
  <2>1. Pending' \subseteq Pending /\ \A t \in Slots \ {s} : slots'[t] = slots[t]
    BY <1>1, <1>3, ProceedPending
  <2>2. \A t \in Slots : slots[t].pc = "audit" => slots'[t] = slots[t]
    BY <1>1, <2>1
  <2>3. UNCHANGED edges
    BY <1>3 DEF statistics
  <2> QED BY <1>1, <1>2, <2>1, <2>2, <2>3, QuietStep DEF FreshInv
<1>4. CASE /\ edges' = Over(Contributed(s, counts), edges)
           /\ Proceed(s, "audit", [log |-> slots[s].log, path |-> slots[s].path])
  <2>1. Pending' \subseteq Pending /\ \A t \in Slots \ {s} : slots'[t] = slots[t]
    BY <1>1, <1>4, ProceedPending
  <2>2. slots'[s].pc = "audit" /\ Repo(s)' = r
    BY <1>1, <1>4, ProceedSlot DEF Inv
  <2>3. SUFFICES ASSUME faults' = 0
                 PROVE  /\ stage' # "working" => Pending' = {}
                        /\ \E o \in {LatestSeed', LatestSeed' + 1} : Pending' \subseteq {o}
                        /\ \A x \in RepoIds \cup Projects : Stale(x)' => WillBeSeen(x)'
    BY DEF Recomputed, Projects, RepoIds
  <2>4. LatestSeed' = LatestSeed /\ Targets' = Targets
    BY <1>1 DEF LatestSeed, NextOrdinal, Targets
  <2>5. ASSUME NEW x \in RepoIds \cup Projects, Stale(x)' PROVE WillBeSeen(x)'
    <3>1. Owned(x)' = Owned(x)
      BY DEF Owned, Members
    <3>2. CASE r \in Owned(x)
      BY <2>2, <3>1, <3>2 DEF WillBeSeen
    <3>3. CASE r \notin Owned(x)
      <4>1. \A edge \in DOMAIN Contributed(s, counts) : edge[2] = r
        BY DEF Contributed
      <4>2. CountsByEmail(Owned(x))' = CountsByEmail(Owned(x))
        <5> DEFINE rs == Owned(x)  f == Contributed(s, counts)
        <5>1. DOMAIN edges' = DOMAIN f \cup DOMAIN edges
              /\ \A edge \in DOMAIN edges \ DOMAIN f : edges'[edge] = edges[edge]
          BY <1>4 DEF Over
        <5>2. rs' = rs
          BY <3>1
        <5>3. \A edge : edge[2] \in rs => edge \notin DOMAIN f
          BY <3>3, <4>1
        <5> HIDE DEF f, rs
        <5>4. CountsByEmail(rs)' = CountsByEmail(rs)
          <6> DEFINE same == rs
          <6>1. \A edge : edge[2] \in same => (edge \in DOMAIN edges' <=> edge \in DOMAIN edges)
            BY <5>1, <5>3
          <6>2. \A edge \in DOMAIN edges : edge[2] \in same => edges'[edge] = edges[edge]
            BY <5>1, <5>3
          <6> QED BY <5>2, <6>1, <6>2, CountsAgree DEF FreshInv, CountedInv, CountsByEmail
        <5> QED BY <5>4 DEF rs
      <4>3. Stale(x)
        BY <1>1, <2>5, <4>2 DEF Stale
      <4>4. WillBeSeen(x)
        BY <1>2, <2>3, <4>3 DEF FreshInv, Recomputed
      <4>5. CASE \E t \in Slots : slots[t].pc = "audit" /\ Repo(t) \in Owned(x)
        <5>1. PICK t \in Slots : slots[t].pc = "audit" /\ Repo(t) \in Owned(x)
          BY <4>5
        <5>2. slots'[t] = slots[t]
          BY <1>1, <2>1, <5>1
        <5> QED BY <3>1, <5>1, <5>2 DEF WillBeSeen, Repo
      <4>6. CASE stage # "over" /\ Owned(x) \cap Targets # {} /\ Pending \subseteq {LatestSeed}
        BY <1>1, <2>1, <2>4, <3>1, <4>6 DEF WillBeSeen
      <4> QED BY <4>4, <4>5, <4>6 DEF WillBeSeen
    <3> QED BY <3>2, <3>3
  <2>6. stage' # "working" => Pending' = {}
    BY <1>1, <1>2, <2>1, <2>3 DEF FreshInv, Recomputed
  <2>7. \E o \in {LatestSeed', LatestSeed' + 1} : Pending' \subseteq {o}
    BY <1>2, <2>1, <2>3, <2>4 DEF FreshInv, Recomputed
  <2> QED BY <2>5, <2>6, <2>7
<1>5. \/ UNCHANGED statistics /\ Proceed(s, "next", <<>>)
      \/ /\ edges' = Over(Contributed(s, counts), edges)
         /\ Proceed(s, "audit", [log |-> slots[s].log, path |-> slots[s].path])
  BY Zenon DEF PersistStatistics
<1> QED BY <1>3, <1>4, <1>5

(* The greatest ordinal of a row.                                           *)
RowOrdinals == {a.ordinal : a \in artifacts} \cup {0}

LEMMA SeedIsLargest ==
  ASSUME Ordinals
  PROVE  /\ LatestSeed \in RowOrdinals /\ LatestSeed \in 0..now
         /\ \A n \in RowOrdinals : n <= LatestSeed
<1>1. RowOrdinals \subseteq 0..now /\ RowOrdinals # {} /\ now \in Nat
  BY DEF Ordinals, RowOrdinals
<1>2. Maximum(RowOrdinals) \in 0..now
      /\ Maximum(RowOrdinals) \in RowOrdinals /\ \A n \in RowOrdinals : n <= Maximum(RowOrdinals)
  BY <1>1, MaximumIs
<1>3. LatestSeed = NextOrdinal - 1 /\ NextOrdinal = 1 + Maximum(RowOrdinals)
  BY Zenon DEF LatestSeed, NextOrdinal, RowOrdinals
<1>4. LatestSeed = Maximum(RowOrdinals)
  BY <1>1, <1>2, <1>3
<1> QED BY <1>2, <1>4

LEMMA NextSeedIsLargest ==
  ASSUME Ordinals'
  PROVE  /\ LatestSeed' \in RowOrdinals' /\ LatestSeed' \in Nat
         /\ \A n \in RowOrdinals' : n <= LatestSeed'
<1>1. RowOrdinals' \subseteq 0..now' /\ RowOrdinals' # {} /\ now' \in Nat
  BY DEF Ordinals, RowOrdinals
<1>2. Maximum(RowOrdinals') \in Nat
      /\ Maximum(RowOrdinals') \in RowOrdinals' /\ \A n \in RowOrdinals' : n <= Maximum(RowOrdinals')
  <2> DEFINE S == RowOrdinals'  last == now'
  <2> HIDE DEF S, last
  <2>1. S \subseteq 0..last /\ S # {} /\ last \in Nat
    BY <1>1 DEF S, last
  <2>2. Maximum(S) \in S /\ \A n \in S : n <= Maximum(S)
    BY <2>1, MaximumIs
  <2>3. \A n \in S : n \in Nat
    BY <2>1
  <2>4. Maximum(S) \in Nat
    BY <2>2, <2>3
  <2> QED BY <2>2, <2>4 DEF S
<1>3. LatestSeed' = NextOrdinal' - 1 /\ NextOrdinal' = 1 + Maximum(RowOrdinals')
  BY Zenon DEF LatestSeed, NextOrdinal, RowOrdinals
<1>4. LatestSeed' = Maximum(RowOrdinals')
  BY <1>1, <1>2, <1>3
<1> QED BY <1>2, <1>4

(* A row makes its repository a target of the seed of its job, which is     *)
(* the latest one with a row from then on.                                  *)
LEMMA RecordFresh ==
  ASSUME FreshInv, [Next]_vars, NEW s \in Slots, RecordAttempt(s)
  PROVE  Recomputed'
<1> DEFINE o == slots[s].job.ordinal
<1>1. /\ UNCHANGED <<todo, pony, edges, stage>> /\ Proceed(s, "next", <<>>)
      /\ slots[s].pc = "audit" /\ Busy(s) /\ Inv /\ Ordinals /\ Recomputed /\ TimedInv
  BY DEF RecordAttempt, Busy, FreshInv, CountedInv, TimedInv, statistics
<1>2. SUFFICES ASSUME faults' = 0
               PROVE  /\ stage' # "working" => Pending' = {}
                      /\ \E n \in {LatestSeed', LatestSeed' + 1} : Pending' \subseteq {n}
                      /\ \A x \in RepoIds \cup Projects : Stale(x)' => WillBeSeen(x)'
  BY DEF Recomputed, Projects, RepoIds
<1>3. faults = 0 /\ ~Fault
  BY <1>2, FaultsGrow DEF FreshInv, CountedInv
<1>4. Pending' \subseteq Pending /\ \A t \in Slots \ {s} : slots'[t] = slots[t]
  BY <1>1, ProceedPending
<1>5. stage = "working"
  BY <1>1, <1>3, WorkingWhenBusy
<1>6. /\ \A a \in artifacts : \E b \in artifacts' : b.repo = a.repo /\ b.ordinal = a.ordinal
      /\ \A b \in artifacts' : \/ b.repo = Repo(s) /\ b.ordinal = o
                              \/ \E a \in artifacts : b.repo = a.repo /\ b.ordinal = a.ordinal
      /\ \E b \in artifacts' : b.repo = Repo(s) /\ b.ordinal = o
  BY <1>3, RowsAfterAttempt DEF FreshInv
<1>7. o \in Pending /\ Pending \subseteq {o} /\ (o = LatestSeed \/ o = LatestSeed + 1)
  <2>1. o \in Pending
    BY <1>1 DEF Pending
  <2> QED BY <1>1, <1>3, <2>1 DEF Recomputed
<1>8. LatestSeed' = o
  <2>1. LatestSeed \in Nat /\ \A a \in artifacts : a.ordinal <= LatestSeed
    BY <1>1, SeedIsLargest DEF RowOrdinals, Ordinals
  <2>2. Ordinals'
    BY TimedNext, <1>1 DEF TimedInv
  <2>3. /\ LatestSeed' \in RowOrdinals' /\ LatestSeed' \in Nat
        /\ \A n \in RowOrdinals' : n <= LatestSeed'
    BY <2>2, NextSeedIsLargest
  <2>4. o \in Nat /\ LatestSeed <= o
    BY <1>1, <1>7, <2>1 DEF SlotsTimed, KnowsOrdinal, TimedInv, Ordinals
  <2>5. o <= LatestSeed'
    BY <1>6, <2>3 DEF RowOrdinals
  <2>6. LatestSeed' <= o
    <3>1. CASE LatestSeed' = 0
      BY <2>4, <3>1
    <3>2. CASE LatestSeed' # 0
      <4>1. PICK b \in artifacts' : b.ordinal = LatestSeed'
        BY <2>3, <3>2 DEF RowOrdinals
      <4>2. CASE b.ordinal = o
        BY <2>4, <4>1, <4>2
      <4>3. CASE \E a \in artifacts : b.ordinal = a.ordinal
        <5>1. PICK a \in artifacts : b.ordinal = a.ordinal
          BY <4>3
        <5>2. LatestSeed' <= LatestSeed
          BY <2>1, <4>1, <5>1
        <5> QED BY <2>1, <2>3, <2>4, <5>2
      <4> QED BY <1>6, <4>1, <4>2, <4>3
    <3> QED BY <3>1, <3>2
  <2> QED BY <2>3, <2>4, <2>5, <2>6
<1>9. Targets' = {a.repo : a \in {b \in artifacts' : b.ordinal = o}}
      /\ Targets = {a.repo : a \in {b \in artifacts : b.ordinal = LatestSeed}}
  BY <1>8 DEF Targets, LatestSeed
<1>10. Repo(s) \in Targets' /\ (o = LatestSeed => Targets \subseteq Targets')
  BY <1>6, <1>9
<1>11. ASSUME NEW x \in RepoIds \cup Projects, Stale(x)' PROVE WillBeSeen(x)'
  <2>1. WillBeSeen(x)
    BY <1>1, <1>3, <1>11, StaleStays DEF Recomputed
  <2>2. Owned(x)' = Owned(x)
    BY DEF Owned, Members
  <2>3. CASE Repo(s) \in Owned(x)
    BY <1>1, <1>4, <1>5, <1>7, <1>8, <1>10, <2>2, <2>3 DEF WillBeSeen
  <2>4. CASE \E t \in Slots \ {s} : slots[t].pc = "audit" /\ Repo(t) \in Owned(x)
    <3>1. PICK t \in Slots \ {s} : slots[t].pc = "audit" /\ Repo(t) \in Owned(x)
      BY <2>4
    <3>2. slots'[t] = slots[t]
      BY <1>4, <3>1
    <3> QED BY <2>2, <3>1, <3>2 DEF WillBeSeen, Repo
  <2>5. CASE Owned(x) \cap Targets # {} /\ Pending \subseteq {LatestSeed}
    <3>1. o = LatestSeed
      BY <1>7, <2>5
    <3>2. Owned(x)' \cap Targets' # {}
      BY <1>10, <2>2, <2>5, <3>1
    <3> QED BY <1>1, <1>4, <1>5, <1>7, <1>8, <3>2 DEF WillBeSeen
  <2> QED BY <2>1, <2>3, <2>4, <2>5 DEF WillBeSeen
<1> QED BY <1>1, <1>4, <1>5, <1>7, <1>8, <1>11

(* When the worker is done nothing is stale but what the targets make be    *)
(* recomputed, and when that is done nothing is.                            *)
LEMMA EndFresh == ASSUME FreshInv, [Next]_vars, EndWork PROVE Recomputed'
<1>1. UNCHANGED <<todo, pony, edges, artifacts>> /\ stage = "working" /\ stage' = "materializing"
  BY DEF EndWork, statistics
<1>2. SUFFICES ASSUME faults' = 0
               PROVE  /\ Pending' = {}
                      /\ \A x \in RepoIds \cup Projects : Stale(x)' => WillBeSeen(x)'
  BY DEF Recomputed, Projects, RepoIds
<1>3. faults = 0 /\ ~Fault
  BY <1>2, FaultsGrow DEF FreshInv, CountedInv
<1>4. todo = {} /\ (\A s \in Slots : ~Busy(s)) /\ UNCHANGED slots
  BY <1>3 DEF EndWork
<1>5. Pending' = {}
  BY <1>1, <1>4 DEF Pending, Busy
<1>6. LatestSeed' = LatestSeed /\ Targets' = Targets
  BY <1>1 DEF LatestSeed, NextOrdinal, Targets
<1>7. ASSUME NEW x \in RepoIds \cup Projects, Stale(x)' PROVE WillBeSeen(x)'
  <2>1. WillBeSeen(x)
    BY <1>1, <1>3, <1>7, StaleStays DEF FreshInv, Recomputed
  <2>2. Owned(x)' = Owned(x)
    BY DEF Owned, Members
  <2>3. ~\E s \in Slots : slots[s].pc = "audit"
    BY <1>4 DEF Busy
  <2> QED BY <1>1, <1>5, <1>6, <2>1, <2>2, <2>3 DEF WillBeSeen
<1> QED BY <1>5, <1>7

LEMMA RecomputedOrKept ==
  ASSUME CountedInv, MaterializePony, NEW x \in RepoIds \cup Projects
  PROVE  /\ Owned(x) \cap Targets # {} => pony'[x] = ComputePonyFactor(CountsByEmail(Owned(x)))
         /\ Owned(x) \cap Targets = {} => pony'[x] = pony[x]
<1> DEFINE projects == {ProjectOf[r] : r \in Targets}
           score(y) == CASE y \in Targets -> ComputePonyFactor(CountsByEmail({y}))
                         [] y \in projects -> ComputePonyFactor(CountsByEmail(Members(y)))
                         [] OTHER -> pony[y]
<1>1. pony' = [y \in RepoIds \cup Projects |-> score(y)]
  BY DEF MaterializePony
<1>2. pony'[x] = score(x)
  BY <1>1
<1>3. Targets \subseteq RepoIds
  BY DEF CountedInv, Audited, Targets
<1>4. \A r, q \in RepoIds : ProjectOf[q] # r
  BY GitLogConstants DEF GitLogConstants, RepoIds
<1>5. CASE x \in RepoIds
  <2>1. x \notin projects
    BY <1>3, <1>4, <1>5
  <2>2. Owned(x) = {x}
    BY <1>5 DEF Owned
  <2>3. x \in Targets => score(x) = ComputePonyFactor(CountsByEmail({x}))
    BY <2>1
  <2>4. x \notin Targets => score(x) = pony[x]
    BY <2>1
  <2> QED BY <1>2, <2>2, <2>3, <2>4
<1>6. CASE x \notin RepoIds
  <2>1. x \notin Targets /\ Owned(x) = Members(x)
    BY <1>3, <1>6 DEF Owned
  <2>2. x \in projects <=> Members(x) \cap Targets # {}
    BY <1>3 DEF Members
  <2>3. x \in projects => score(x) = ComputePonyFactor(CountsByEmail(Members(x)))
    BY <2>1
  <2>4. x \notin projects => score(x) = pony[x]
    BY <2>1
  <2> QED BY <1>2, <2>1, <2>2, <2>3, <2>4
<1> QED BY <1>5, <1>6

LEMMA MaterializeFresh == ASSUME FreshInv, [Next]_vars, MaterializePony PROVE Recomputed'
<1>1. UNCHANGED <<todo, slots, edges, artifacts, faults>> /\ stage = "materializing" /\ CountedInv
  BY DEF MaterializePony, statistics, jobs, FreshInv
<1>2. SUFFICES ASSUME faults' = 0
               PROVE  /\ Pending' = {}
                      /\ \A x \in RepoIds \cup Projects : ~Stale(x)'
  BY DEF Recomputed, Projects, RepoIds
<1>3. Pending = {} /\ Pending' = Pending
  BY <1>1, <1>2 DEF FreshInv, Recomputed, Pending, Busy
<1>4. ASSUME NEW x \in RepoIds \cup Projects PROVE ~Stale(x)'
  <2>1. Owned(x)' = Owned(x) /\ CountsByEmail(Owned(x))' = CountsByEmail(Owned(x))
    BY <1>1 DEF Owned, Members, CountsByEmail
  <2>2. CASE Owned(x) \cap Targets # {}
    <3>1. pony'[x] = ComputePonyFactor(CountsByEmail(Owned(x)))
      BY <1>1, <2>2, RecomputedOrKept
    <3> QED BY <2>1, <3>1 DEF Stale
  <2>3. CASE Owned(x) \cap Targets = {}
    <3>1. pony'[x] = pony[x]
      BY <1>1, <2>3, RecomputedOrKept
    <3>2. ~\E s \in Slots : slots[s].pc = "audit"
      BY <1>3 DEF Busy, Pending
    <3>3. ~WillBeSeen(x)
      BY <2>3, <3>2 DEF WillBeSeen
    <3>4. ~Stale(x)
      BY <1>1, <1>2, <3>3 DEF FreshInv, Recomputed
    <3> QED BY <2>1, <3>1, <3>4 DEF Stale
  <2> QED BY <2>2, <2>3
<1> QED BY <1>3, <1>4

(* A seed starts when no job is left, with an ordinal of its own.           *)
LEMMA SeedFresh == ASSUME FreshInv, [Next]_vars, SeedGitlogBatches PROVE Recomputed'
<1>1. UNCHANGED <<slots, pony, edges, artifacts, faults>> /\ stage = "over" /\ stage' = "working"
  BY DEF SeedGitlogBatches, statistics
<1>2. SUFFICES ASSUME faults' = 0
               PROVE  /\ Pending' \subseteq {NextOrdinal}
                      /\ \A x \in RepoIds \cup Projects : ~Stale(x)'
  <2>1. LatestSeed' = LatestSeed
    BY <1>1 DEF LatestSeed, NextOrdinal
  <2>2. NextOrdinal = LatestSeed + 1
    BY OrdinalIsNext DEF LatestSeed, FreshInv, CountedInv, TimedInv
  <2> QED BY <1>1, <2>1, <2>2 DEF Recomputed, Projects, RepoIds
<1>3. Pending = {}
  BY <1>1, <1>2 DEF FreshInv, Recomputed
<1>4. \A job \in todo' : job.ordinal = NextOrdinal
  <2>1. todo = {}
    BY <1>3 DEF Pending
  <2>2. \A job \in todo' : job \in Batches(Scheduled)
    BY <2>1 DEF SeedGitlogBatches
  <2>3. \A job \in Batches(Scheduled) : job.ordinal = NextOrdinal
    BY DEF Batches
  <2> QED BY <2>2, <2>3
<1>5. \A s \in Slots : ~Busy(s) /\ ~Busy(s)'
  BY <1>1, <1>3 DEF Pending, Busy
<1>6. Pending' \subseteq {NextOrdinal}
  BY <1>4, <1>5 DEF Pending
<1>7. ASSUME NEW x \in RepoIds \cup Projects PROVE ~Stale(x)'
  <2>1. ~WillBeSeen(x)
    BY <1>1, <1>5 DEF WillBeSeen, Busy
  <2>2. ~Stale(x)
    BY <1>1, <1>2, <2>1 DEF FreshInv, Recomputed
  <2> QED BY <1>1, <2>2, StaleStays
<1> QED BY <1>6, <1>7

LEMMA FreshInit == Init => FreshInv
<1> SUFFICES ASSUME Init PROVE FreshInv
  OBVIOUS
<1>1. Pending = {}
  BY DEF Init, Pending, Busy, Idle
<1>2. \A x \in RepoIds \cup Projects : ~Stale(x)
  BY DEF Init, Stale
<1> QED BY <1>1, <1>2, CountedInit DEF FreshInv, Recomputed

LEMMA FreshNext == FreshInv /\ [Next]_vars => FreshInv'
<1> SUFFICES ASSUME FreshInv, [Next]_vars PROVE FreshInv'
  OBVIOUS
<1>1. CountedInv'
  BY CountedNext DEF FreshInv
<1>2. CASE UNCHANGED vars
  <2>1. UNCHANGED <<pony, edges, artifacts, stage, todo, slots, faults>>
    BY <1>2 DEF vars, jobs, statistics
  <2>2. Pending' = Pending
    BY <2>1 DEF Pending, Busy
  <2>3. Recomputed'
    BY <2>1, <2>2, QuietStep DEF FreshInv
  <2> QED BY <1>1, <2>3 DEF FreshInv
<1>3. ASSUME NEW s \in Slots, Fetch(s) \/ Work(s) PROVE FreshInv'
  BY <1>1, <1>3, QuietWork, PersistFresh, RecordFresh DEF FreshInv, Work
<1> QED BY <1>1, <1>2, <1>3, SeedFresh, EndFresh, MaterializeFresh DEF Next, FreshInv

(* Without faults, the pony factors that a run leaves are those of the      *)
(* commits that are stored, of every repository and project, although only  *)
(* those of the latest seed's rows are recomputed: for any batches, slots   *)
(* and order of their commits, a repository whose commits were stored gets  *)
(* a row of the latest seed before the pony factors are computed.  What is  *)
(* computed is the least number of authors with half of the commits.        *)
THEOREM PonyIsFreshAlways == Spec => []PonyIsFresh
<1>1. FreshInv => PonyIsFresh
  <2> SUFFICES ASSUME FreshInv, stage = "over", faults = 0,
                      NEW x \in RepoIds \cup Projects, pony[x] # Unset
               PROVE  LET counts == CountsByEmail(Owned(x))
                      IN pony[x] \in HalfBy(counts) /\ \A n \in HalfBy(counts) : pony[x] <= n
    BY DEF PonyIsFresh, Owned
  <2> DEFINE counts == CountsByEmail(Owned(x))
  <2>1. \A s \in Slots : ~Busy(s)
    BY DEF FreshInv, Recomputed, Pending
  <2>2. ~WillBeSeen(x)
    BY <2>1 DEF WillBeSeen, Busy
  <2>3. pony[x] = ComputePonyFactor(counts)
    BY <2>2 DEF FreshInv, Recomputed, Stale
  <2>4. IsFiniteSet(DOMAIN counts) /\ counts \in [DOMAIN counts -> Nat]
    BY EmailsCounted DEF FreshInv, CountedInv
  <2> HIDE DEF counts
  <2>5. pony[x] \in HalfBy(counts) /\ \A n \in HalfBy(counts) : pony[x] <= n
    BY <2>3, <2>4, PonyFactorIsLeast
  <2> QED BY <2>5 DEF counts
<1> QED BY <1>1, FreshInit, FreshNext, PTL DEF Spec
==============================================================================
