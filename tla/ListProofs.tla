------------------------------ MODULE ListProofs ------------------------------
(***************************************************************************)
(* Numbers, finite sets and the lists of their elements: what the proofs   *)
(* about several components rest on.                                       *)
(***************************************************************************)
EXTENDS Naturals, SequencesExt, WellFoundedInduction, FiniteSetTheorems, TLAPS

(* Every set of numbers that is not empty has a least one.                  *)
LEMMA LeastElement ==
  ASSUME NEW S, S \subseteq Nat, S # {}
  PROVE  \E i \in S : \A j \in S : i <= j
<1> DEFINE less == {ss \in Nat \X Nat : ss[1] < ss[2]}
<1>1. IsWellFoundedOn(less, Nat)
  BY NatLessThanWellFounded, Zenon DEF OpToRel
<1>2. PICK i \in S : \A j \in S : ~ (<<j, i>> \in less)
  <2> HIDE DEF less
  <2> QED BY <1>1, WFMin
<1>3. ASSUME NEW j \in S PROVE i <= j
  <2>1. i \in Nat /\ j \in Nat
    OBVIOUS
  <2>2. ~ (<<j, i>> \in less)
    BY <1>2, <1>3
  <2>3. ~ (j < i)
    BY <2>1, <2>2
  <2> QED BY <2>1, <2>3
<1> QED BY <1>3

(* Every set of numbers that is not empty and bounded has a greatest one.   *)
LEMMA GreatestElement ==
  ASSUME NEW S, NEW n \in Nat, S \subseteq 0..n, S # {}
  PROVE  \E i \in S : \A j \in S : j <= i
<1> DEFINE below == {i \in 0..n : n - i \in S}
<1>1. below \subseteq Nat
  OBVIOUS
<1>2. \A i \in S : i \in Int /\ n - i \in 0..n /\ n - (n - i) = i
  OBVIOUS
<1>3. \A i \in S : n - i \in below
  BY <1>2
<1>4. PICK b \in below : \A a \in below : b <= a
  <2>1. below # {}
    BY <1>3
  <2> HIDE DEF below
  <2> QED BY <1>1, <2>1, LeastElement
<1>5. ASSUME NEW j \in S PROVE j <= n - b
  BY <1>2, <1>3, <1>4
<1> QED BY <1>4, <1>5

(* Induction, over the set of the numbers a statement holds for.            *)
LEMMA Induction ==
  ASSUME NEW S, 0 \in S, \A n \in S \cap Nat : n + 1 \in S
  PROVE  Nat \subseteq S
<1> SUFFICES ASSUME Nat \ S # {} PROVE FALSE
  OBVIOUS
<1>1. PICK i \in Nat \ S : \A j \in Nat \ S : i <= j
  BY LeastElement
<1>2. i # 0 /\ i - 1 \in Nat
  OBVIOUS
<1>3. i - 1 \in S
  BY <1>1, <1>2
<1>4. (i - 1) + 1 = i
  OBVIOUS
<1> QED BY <1>2, <1>3, <1>4

(* A finite set loses one element, and its size one.                        *)
LEMMA OneLess ==
  ASSUME NEW s, IsFiniteSet(s), NEW x \in s
  PROVE  /\ IsFiniteSet(s \ {x}) /\ Cardinality(s \ {x}) = Cardinality(s) - 1
         /\ Cardinality(s) \in Nat \ {0} /\ Cardinality(s \ {x}) \in Nat
<1>1. IsFiniteSet(s \ {x}) /\ Cardinality(s \ {x}) = Cardinality(s) - 1
  BY FS_RemoveElement
<1>2. Cardinality(s) \in Nat /\ Cardinality(s \ {x}) \in Nat
  BY <1>1, FS_CardinalityType
<1> QED BY <1>1, <1>2

(* The first elements of a list without repetitions are as many as asked.   *)
LEMMA FirstSize ==
  ASSUME NEW S, IsFiniteSet(S), NEW list \in SetToSeqs(S), NEW k \in 0..Cardinality(S),
         NEW first, first = {list[i] : i \in 1..k}
  PROVE  IsFiniteSet(first) /\ Cardinality(first) = k
<1>1. /\ Cardinality(S) \in Nat /\ list \in [1..Cardinality(S) -> S]
      /\ \A i, j \in 1..Cardinality(S) : i # j => list[i] # list[j]
  BY FS_CardinalityType DEF SetToSeqs
<1> DEFINE f == [i \in 1..k |-> list[i]]
<1>2. f \in [1..k -> first] /\ \A x \in first : \E i \in 1..k : f[i] = x
  BY <1>1
<1>3. \A i, j \in 1..k : f[i] = f[j] => i = j
  BY <1>1
<1> HIDE DEF f
<1>4. f \in Surjection(1..k, first) /\ f \in Injection(1..k, first)
  BY <1>2, <1>3 DEF Surjection, Injection, IsInjective
<1>5. IsFiniteSet(1..k) /\ Cardinality(1..k) = k
  BY <1>1, FS_Interval
<1> QED BY <1>4, <1>5, FS_Surjection

LEMMA ListOfSet ==
  ASSUME NEW S, IsFiniteSet(S), NEW list \in SetToSeqs(S)
  PROVE  /\ Cardinality(S) \in Nat /\ list \in [1..Cardinality(S) -> S]
         /\ \A i, j \in 1..Cardinality(S) : i # j => list[i] # list[j]
         /\ list \in Seq(S) /\ Len(list) = Cardinality(S) /\ DOMAIN list = 1..Cardinality(S)
         /\ ToSet(list) = S /\ \A x \in S : \E i \in 1..Cardinality(S) : list[i] = x
<1> DEFINE n == Cardinality(S)
           all == {list[i] : i \in 1..n}
<1>1. n \in Nat
  BY FS_CardinalityType
<1>2. list \in [1..n -> S] /\ \A i, j \in 1..n : i # j => list[i] # list[j]
  BY DEF SetToSeqs
<1>3. all \in SUBSET S
  BY <1>2
<1>4. IsFiniteSet(all) /\ Cardinality(all) = n
  <2>1. n \in 0..n
    BY <1>1
  <2>2. all = {list[i] : i \in 1..n}
    OBVIOUS
  <2> HIDE DEF all
  <2> QED BY <2>1, <2>2, FirstSize
<1>5. all = S
  BY <1>3, <1>4, FS_Subset
<1>6. list \in Seq(S) /\ Len(list) = n
  BY <1>1, <1>2
<1>7. \A x \in S : \E i \in 1..n : list[i] = x
  BY <1>5
<1>8. ToSet(list) = S
  BY <1>2, <1>7 DEF ToSet
<1> HIDE DEF all
<1> QED BY <1>1, <1>2, <1>6, <1>7, <1>8

(* The image of a finite set, given as a function onto it.                  *)
LEMMA FiniteImage ==
  ASSUME NEW S, IsFiniteSet(S), NEW f, DOMAIN f = S
  PROVE  IsFiniteSet({f[x] : x \in S})
<1> DEFINE T == {f[x] : x \in S}
           g == [x \in S |-> f[x]]
<1>1. g \in [S -> T] /\ \A y \in T : \E x \in S : g[x] = y
  OBVIOUS
<1> HIDE DEF T, g
<1>2. g \in Surjection(S, T)
  BY <1>1 DEF Surjection
<1>3. IsFiniteSet(T)
  BY <1>2, FS_Surjection
<1> QED BY <1>3 DEF T

(* What comes before what, as a relation: a choice among any two, and       *)
(* transitive.                                                              *)
IsOrder(rel, S) ==
  /\ \A x, y \in S : x # y => <<x, y>> \in rel \/ <<y, x>> \in rel
  /\ \A x, y, z \in S : <<x, y>> \in rel /\ <<y, z>> \in rel => <<x, z>> \in rel

(* A finite set that is not empty has a last element.                       *)
LEMMA LastElement ==
  ASSUME NEW S, IsFiniteSet(S), S # {}, NEW rel, IsOrder(rel, S)
  PROVE  \E m \in S : \A x \in S \ {m} : <<x, m>> \in rel
<1> DEFINE HasLast(n) == \A T \in SUBSET S : Cardinality(T) = n /\ T # {} =>
                           \E m \in T : \A x \in T \ {m} : <<x, m>> \in rel
           Sizes == {n \in Nat : HasLast(n)}
<1>1. ASSUME NEW T \in SUBSET S
      PROVE  IsFiniteSet(T) /\ Cardinality(T) \in Nat /\ (Cardinality(T) = 0 <=> T = {})
  BY FS_Subset, FS_CardinalityType, FS_EmptySet
<1>2. 0 \in Sizes
  BY <1>1
<1>3. ASSUME NEW n \in Sizes \cap Nat PROVE n + 1 \in Sizes
  <2>1. ASSUME NEW T \in SUBSET S, Cardinality(T) = n + 1, T # {}
        PROVE  \E m \in T : \A x \in T \ {m} : <<x, m>> \in rel
    <3>1. PICK a \in T : TRUE
      BY <2>1
    <3>2. CASE T = {a}
      BY <3>2
    <3>3. CASE T # {a}
      <4>1. Cardinality(T \ {a}) = n /\ T \ {a} # {} /\ T \ {a} \in SUBSET S
        BY <1>1, <2>1, <3>1, <3>3, OneLess
      <4>2. PICK b \in T \ {a} : \A x \in (T \ {a}) \ {b} : <<x, b>> \in rel
        BY <4>1
      <4>3. a \in S /\ b \in S /\ a # b
        BY <2>1, <3>1, <4>1
      <4>4. CASE <<a, b>> \in rel
        BY <4>2, <4>4
      <4>5. CASE <<b, a>> \in rel
        <5>1. \A x \in T \ {a} : <<x, a>> \in rel
          BY <2>1, <4>2, <4>3, <4>5 DEF IsOrder
        <5> QED BY <3>1, <5>1
      <4> QED BY <4>3, <4>4, <4>5 DEF IsOrder
    <3> QED BY <3>2, <3>3
  <2> QED BY <2>1
<1>4. Nat \subseteq Sizes
  <2> HIDE DEF Sizes
  <2> QED BY <1>2, <1>3, Induction
<1>5. HasLast(Cardinality(S))
  BY <1>1, <1>4
<1> QED BY <1>5

Sorted(list, rel) == \A i, j \in DOMAIN list : i < j => <<list[i], list[j]>> \in rel

(* A finite set can be listed in any such order: the last element is put    *)
(* behind a list of the others.                                             *)
LEMMA SortedListExists ==
  ASSUME NEW S, IsFiniteSet(S), NEW rel, IsOrder(rel, S)
  PROVE  \E list \in SetToSeqs(S) : Sorted(list, rel)
<1> DEFINE HasList(n) == \A T \in SUBSET S : Cardinality(T) = n =>
                           \E list \in SetToSeqs(T) : Sorted(list, rel)
           Sizes == {n \in Nat : HasList(n)}
<1>1. ASSUME NEW T \in SUBSET S
      PROVE  IsFiniteSet(T) /\ Cardinality(T) \in Nat /\ (Cardinality(T) = 0 <=> T = {})
  BY FS_Subset, FS_CardinalityType, FS_EmptySet
<1>2. 0 \in Sizes
  <2>1. ASSUME NEW T \in SUBSET S, Cardinality(T) = 0
        PROVE  \E list \in SetToSeqs(T) : Sorted(list, rel)
    <3> DEFINE list == [i \in 1..0 |-> rel]
    <3>1. list \in [1..0 -> T] /\ DOMAIN list = {}
      OBVIOUS
    <3>2. list \in SetToSeqs(T)
      BY <2>1, <3>1 DEF SetToSeqs
    <3> HIDE DEF list
    <3> QED BY <3>1, <3>2 DEF Sorted
  <2> QED BY <2>1
<1>3. ASSUME NEW n \in Sizes \cap Nat PROVE n + 1 \in Sizes
  <2>1. ASSUME NEW T \in SUBSET S, Cardinality(T) = n + 1
        PROVE  \E list \in SetToSeqs(T) : Sorted(list, rel)
    <3>1. T # {} /\ IsOrder(rel, T) /\ IsFiniteSet(T)
      <4>1. IsFiniteSet(T) /\ T # {}
        BY <1>1, <2>1
      <4> QED BY <4>1 DEF IsOrder
    <3>2. PICK m \in T : \A x \in T \ {m} : <<x, m>> \in rel
      BY <3>1, LastElement
    <3>3. Cardinality(T \ {m}) = n /\ T \ {m} \in SUBSET S
      BY <1>1, <2>1, <3>2, OneLess
    <3>4. PICK list \in SetToSeqs(T \ {m}) : Sorted(list, rel)
      BY <3>3
    <3>5. list \in [1..n -> T \ {m}] /\ \A i, j \in 1..n : i # j => list[i] # list[j]
      BY <3>3, <3>4 DEF SetToSeqs
    <3> DEFINE longer == [i \in 1..(n + 1) |-> IF i = n + 1 THEN m ELSE list[i]]
    <3>6. longer \in [1..(n + 1) -> T] /\ longer[n + 1] = m /\ \A i \in 1..n : longer[i] = list[i]
      BY <3>2, <3>5
    <3>7. \A i \in 1..(n + 1) : i \in 1..n \/ i = n + 1
      OBVIOUS
    <3> HIDE DEF longer
    <3>8. \A i, j \in 1..(n + 1) : i # j => longer[i] # longer[j]
      BY <3>5, <3>6, <3>7
    <3>9. ASSUME NEW i \in 1..(n + 1), NEW j \in 1..(n + 1), i < j
          PROVE  <<longer[i], longer[j]>> \in rel
      <4>1. i \in 1..n
        BY <3>9
      <4>2. CASE j = n + 1
        BY <3>2, <3>5, <3>6, <4>1, <4>2
      <4>3. CASE j \in 1..n
        BY <3>4, <3>5, <3>6, <3>9, <4>1, <4>3 DEF Sorted
      <4> QED BY <3>7, <4>2, <4>3
    <3>10. longer \in SetToSeqs(T)
      BY <2>1, <3>6, <3>8 DEF SetToSeqs
    <3>11. Sorted(longer, rel)
      BY <3>6, <3>9 DEF Sorted
    <3> QED BY <3>10, <3>11
  <2> QED BY <2>1
<1>4. Nat \subseteq Sizes
  <2> HIDE DEF Sizes
  <2> QED BY <1>2, <1>3, Induction
<1>5. HasList(Cardinality(S))
  BY <1>1, <1>4
<1> QED BY <1>5

-----------------------------------------------------------------------------
(* Folds, which are defined over the subsets of what is folded.             *)

(* The greatest and the least number of a set.                             *)
LEMMA MaxOfNumbers ==
  ASSUME NEW n \in Nat, NEW s \in SUBSET (1..n), s # {}
  PROVE  Max(s) \in s
<1>1. s \subseteq 0..n
  OBVIOUS
<1>2. \E i \in s : \A j \in s : j <= i
  BY <1>1, GreatestElement
<1>3. \E i \in s : \A j \in s : i >= j
  BY <1>2
<1> QED BY <1>3 DEF Max

LEMMA MinOfNumbers ==
  ASSUME NEW n \in Nat, NEW s \in SUBSET (1..n), s # {}
  PROVE  Min(s) \in s
<1>1. s \subseteq Nat
  OBVIOUS
<1>2. \E i \in s : \A j \in s : i <= j
  BY <1>1, LeastElement
<1> QED BY <1>2 DEF Min

LEMMA MaxOfFirst ==
  ASSUME NEW n \in Nat, NEW k \in 1..n
  PROVE  Max(1..k) = k /\ (1..k) \ {k} = 1..(k - 1) /\ 1..k \in SUBSET (1..n) /\ 1..k # {}
<1>1. 1..k \in SUBSET (1..n) /\ 1..k # {} /\ (1..k) \ {k} = 1..(k - 1) /\ k \in 1..k
  OBVIOUS
<1>2. \A x \in 1..k : (\A y \in 1..k : x >= y) <=> x = k
  <2> SUFFICES ASSUME NEW x \in 1..k PROVE (\A y \in 1..k : x >= y) <=> x = k
    OBVIOUS
  <2>1. x # k => ~(x >= k)
    OBVIOUS
  <2> QED BY <1>1, <2>1
<1> QED BY <1>1, <1>2 DEF Max

LEMMA SmallerOf ==
  ASSUME NEW a \in Nat, NEW b \in Nat
  PROVE  Min({a, b}) \in Nat /\ Min({a, b}) <= a /\ Min({a, b}) <= b /\ Min({a, b}) \in {a, b}
<1>1. \E x \in {a, b} : \A y \in {a, b} : x <= y
  <2>1. CASE a <= b
    BY <2>1
  <2>2. CASE ~(a <= b)
    BY <2>2
  <2> QED BY <2>1, <2>2
<1>2. Min({a, b}) \in {a, b} /\ \A y \in {a, b} : Min({a, b}) <= y
  BY <1>1 DEF Min
<1> QED BY <1>2

(* A fold over a finite set is well defined: there is a function of its      *)
(* subsets that takes the elements one after the other, the picked one last. *)
IsPick(pick, S) == \A s \in SUBSET S : s # {} => pick[s] \in s
IsStep(step, D, S) == step \in [D \X S -> D]
IsFoldOf(f, D, base, S, step, pick) ==
  /\ f \in [SUBSET S -> D]
  /\ \A s \in SUBSET S : f[s] = IF s = {} THEN base ELSE step[<<f[s \ {pick[s]}], pick[s]>>]

LEMMA SizesOfSubsets ==
  ASSUME NEW S, IsFiniteSet(S), NEW s \in SUBSET S
  PROVE  /\ IsFiniteSet(s) /\ Cardinality(s) \in Nat /\ Cardinality(s) <= Cardinality(S)
         /\ Cardinality(s) = 0 <=> s = {}
BY FS_Subset, FS_CardinalityType, FS_EmptySet

LEMMA SubsetFoldExists ==
  ASSUME NEW S, IsFiniteSet(S), NEW D, NEW base \in D, NEW step, IsStep(step, D, S), NEW pick, IsPick(pick, S)
  PROVE  \E f : IsFoldOf(f, D, base, S, step, pick)
<1> DEFINE next(f, s) == IF s = {} THEN base ELSE step[<<f[s \ {pick[s]}], pick[s]>>]
           Upto(f, m) == \A s \in SUBSET S : Cardinality(s) <= m => f[s] = next(f, s)
           Sizes == {m \in Nat : \E f \in [SUBSET S -> D] : Upto(f, m)}
<1>1. \A s \in SUBSET S :
        /\ IsFiniteSet(s) /\ Cardinality(s) \in Nat /\ Cardinality(s) <= Cardinality(S)
        /\ Cardinality(s) = 0 <=> s = {}
  BY SizesOfSubsets
<1>2. 0 \in Sizes
  <2> DEFINE f == [s \in SUBSET S |-> base]
  <2>1. \A s \in SUBSET S : Cardinality(s) <= 0 => s = {}
    BY <1>1
  <2>2. f \in [SUBSET S -> D] /\ \A s \in SUBSET S : f[s] = base
    OBVIOUS
  <2> HIDE DEF f
  <2>3. Upto(f, 0)
    BY <2>1, <2>2
  <2> QED BY <2>2, <2>3
<1>3. ASSUME NEW m \in Sizes PROVE m + 1 \in Sizes
  <2>1. PICK f \in [SUBSET S -> D] : Upto(f, m)
    OBVIOUS
  <2> DEFINE g == [s \in SUBSET S |-> next(f, s)]
  <2>2. ASSUME NEW s \in SUBSET S
        PROVE  next(f, s) \in D
    <3>1. CASE s = {}
      BY <3>1
    <3>2. CASE s # {}
      <4>1. pick[s] \in S /\ s \ {pick[s]} \in SUBSET S
        BY <3>2 DEF IsPick
      <4>2. f[s \ {pick[s]}] \in D
        BY <4>1
      <4>3. <<f[s \ {pick[s]}], pick[s]>> \in D \X S
        BY <4>1, <4>2
      <4> QED BY <3>2, <4>3 DEF IsStep
    <3> QED BY <3>1, <3>2
  <2>3. g \in [SUBSET S -> D] /\ \A s \in SUBSET S : g[s] = next(f, s)
    BY <2>2
  <2>4. \A s \in SUBSET S : Cardinality(s) <= m => g[s] = f[s]
    BY <2>1, <2>3
  <2>5. ASSUME NEW s \in SUBSET S, Cardinality(s) <= m + 1
        PROVE  g[s] = next(g, s)
    <3>1. CASE s = {}
      BY <2>3, <3>1
    <3>2. CASE s # {}
      <4>1. pick[s] \in s /\ s \ {pick[s]} \in SUBSET S
        BY <3>2 DEF IsPick
      <4>2. Cardinality(s \ {pick[s]}) <= m
        BY <1>1, <2>5, <4>1, OneLess
      <4>3. g[s \ {pick[s]}] = f[s \ {pick[s]}]
        BY <2>4, <4>1, <4>2
      <4>4. g[s] = next(f, s)
        BY <2>3
      <4> QED BY <3>2, <4>3, <4>4
    <3> QED BY <3>1, <3>2
  <2> HIDE DEF g
  <2>6. Upto(g, m + 1)
    BY <2>5
  <2> HIDE DEF Upto
  <2> QED BY <2>3, <2>6
<1>4. Nat \subseteq Sizes
  <2> HIDE DEF Sizes
  <2> QED BY <1>2, <1>3, Induction
<1>5. Cardinality(S) \in Nat
  BY FS_CardinalityType
<1>6. PICK f \in [SUBSET S -> D] : Upto(f, Cardinality(S))
  BY <1>4, <1>5
<1>7. \A s \in SUBSET S : f[s] = next(f, s)
  BY <1>1, <1>6
<1> QED BY <1>7 DEF IsFoldOf

(* What is true of the base and kept by each step is true of the result.    *)
Folds(h, D, base, S, step, pick) ==
  /\ h[{}] = base
  /\ \A s \in SUBSET S :
       s # {} /\ h[s \ {pick[s]}] \in D => h[s] = step[<<h[s \ {pick[s]}], pick[s]>>]
Preserves(inv, D, base, S, step) ==
  /\ <<{}, base>> \in inv
  /\ \A s \in SUBSET S, x \in S, d \in D :
       x \notin s /\ <<s, d>> \in inv => <<s \cup {x}, step[<<d, x>>]>> \in inv

LEMMA FoldKeeps ==
  ASSUME NEW S, IsFiniteSet(S), NEW D, NEW base \in D, NEW step, IsStep(step, D, S), NEW pick, IsPick(pick, S),
         NEW h, Folds(h, D, base, S, step, pick), NEW inv, Preserves(inv, D, base, S, step)
  PROVE  \A s \in SUBSET S : h[s] \in D /\ <<s, h[s]>> \in inv
<1> DEFINE Holds(s) == h[s] \in D /\ <<s, h[s]>> \in inv
           Sizes == {m \in Nat : \A s \in SUBSET S : Cardinality(s) = m => Holds(s)}
<1>1. \A s \in SUBSET S :
        /\ IsFiniteSet(s) /\ Cardinality(s) \in Nat /\ Cardinality(s) <= Cardinality(S)
        /\ Cardinality(s) = 0 <=> s = {}
  BY SizesOfSubsets
<1>2. 0 \in Sizes
  <2>1. Holds({})
    BY DEF Folds, Preserves
  <2> QED BY <1>1, <2>1
<1>3. ASSUME NEW m \in Nat, m \in Sizes PROVE m + 1 \in Sizes
  <2>1. ASSUME NEW s \in SUBSET S, Cardinality(s) = m + 1
        PROVE  Holds(s)
    <3> DEFINE x == pick[s]
               t == s \ {x}
    <3>1. s # {}
      BY <1>1, <2>1
    <3>2. x \in s /\ x \in S /\ t \in SUBSET S /\ x \notin t /\ t \cup {x} = s
      BY <3>1 DEF IsPick
    <3>3. Cardinality(t) = m
      BY <1>1, <2>1, <3>2, OneLess
    <3>4. h[t] \in D /\ <<t, h[t]>> \in inv
      BY <1>3, <3>2, <3>3
    <3>5. h[s] = step[<<h[t], x>>]
      BY <3>1, <3>4 DEF Folds
    <3>6. h[s] \in D
      BY <3>2, <3>4, <3>5 DEF IsStep
    <3> HIDE DEF x, t
    <3>7. <<t \cup {x}, step[<<h[t], x>>]>> \in inv
      BY <3>2, <3>4 DEF Preserves
    <3> QED BY <3>2, <3>5, <3>6, <3>7
  <2> QED BY <2>1
<1>4. Nat \subseteq Sizes
  <2> HIDE DEF Sizes
  <2> QED BY <1>2, <1>3, Induction
<1> QED BY <1>1, <1>4

(* A fold over a list, whose positions are taken in order.                  *)
LastOf(n) == [s \in SUBSET (1..n) |-> Max(s)]

LEMMA LastIsPicked ==
  ASSUME NEW n \in Nat
  PROVE  /\ IsPick(LastOf(n), 1..n) /\ IsFiniteSet(1..n)
         /\ \A s \in SUBSET (1..n) : LastOf(n)[s] = Max(s)
<1>1. IsFiniteSet(1..n)
  BY FS_Interval
<1>2. \A s \in SUBSET (1..n) : LastOf(n)[s] = Max(s)
  BY DEF LastOf
<1>3. \A s \in SUBSET (1..n) : s # {} => Max(s) \in s
  BY MaxOfNumbers
<1> QED BY <1>1, <1>2, <1>3 DEF IsPick

(* What a fold makes of the first elements, one after the other.            *)
IsChain(g, D, base, n, step) ==
  g \in [0..n -> D] /\ g[0] = base /\ \A k \in 1..n : g[k] = step[<<g[k - 1], k>>]

LEMMA FoldIsChain ==
  ASSUME NEW D, NEW base \in D, NEW n \in Nat, NEW step, IsStep(step, D, 1..n), NEW h,
         Folds(h, D, base, 1..n, step, LastOf(n))
  PROVE  \E g : IsChain(g, D, base, n, step) /\ g[n] = h[1..n]
<1>1. 1..0 = {}
  OBVIOUS
<1>2. \A s \in SUBSET (1..n) : h[s] \in D
  <2> DEFINE inv == (SUBSET (1..n)) \X D
  <2>1. Preserves(inv, D, base, 1..n, step)
    BY DEF Preserves, IsStep
  <2> HIDE DEF inv
  <2> QED BY <2>1, LastIsPicked, FoldKeeps
<1>3. ASSUME NEW k \in 1..n
      PROVE  h[1..k] = step[<<h[1..(k - 1)], k>>] /\ h[1..k] \in D
  <2> DEFINE all == 1..k
  <2>1. Max(all) = k /\ all \ {k} = 1..(k - 1) /\ all \in SUBSET (1..n) /\ all # {}
    BY MaxOfFirst
  <2>2. 1..(k - 1) \in SUBSET (1..n)
    BY <2>1
  <2> HIDE DEF all
  <2>3. LastOf(n)[all] = k
    BY <2>1, LastIsPicked
  <2>4. h[all] = step[<<h[1..(k - 1)], k>>]
    BY <1>2, <2>1, <2>2, <2>3 DEF Folds
  <2> QED BY <1>2, <2>1, <2>4 DEF all
<1>5. \A k \in 0..n : h[1..k] \in D
  BY <1>2
<1> DEFINE g == [k \in 0..n |-> h[1..k]]
<1>6. g \in [0..n -> D] /\ g[n] = h[1..n]
  BY <1>5
<1>7. g[0] = base
  BY <1>1 DEF Folds
<1>8. ASSUME NEW k \in 1..n PROVE g[k] = step[<<g[k - 1], k>>]
  <2>1. k \in 0..n /\ k - 1 \in 0..n
    OBVIOUS
  <2> QED BY <1>3, <1>5, <2>1
<1> QED BY <1>6, <1>7, <1>8 DEF IsChain

LEMMA JoinedSet ==
  ASSUME NEW S, NEW a \in Seq(S), NEW b \in Seq(S)
  PROVE  ToSet(a \o b) = ToSet(a) \cup ToSet(b)
<1>1. /\ DOMAIN a = 1..Len(a) /\ DOMAIN b = 1..Len(b) /\ DOMAIN (a \o b) = 1..(Len(a) + Len(b))
      /\ Len(a) \in Nat /\ Len(b) \in Nat
      /\ \A i \in 1..(Len(a) + Len(b)) : (a \o b)[i] = IF i <= Len(a) THEN a[i] ELSE b[i - Len(a)]
  OBVIOUS
<1>2. ASSUME NEW i \in DOMAIN a PROVE a[i] \in ToSet(a \o b)
  <2>1. i \in DOMAIN (a \o b) /\ (a \o b)[i] = a[i]
    BY <1>1
  <2> QED BY <2>1 DEF ToSet
<1>3. ASSUME NEW i \in DOMAIN b PROVE b[i] \in ToSet(a \o b)
  <2>1. i + Len(a) \in DOMAIN (a \o b) /\ (a \o b)[i + Len(a)] = b[i]
    BY <1>1
  <2> QED BY <2>1 DEF ToSet
<1>4. ASSUME NEW i \in DOMAIN (a \o b) PROVE (a \o b)[i] \in ToSet(a) \cup ToSet(b)
  <2>1. i <= Len(a) => i \in DOMAIN a
    BY <1>1
  <2>2. ~(i <= Len(a)) => i - Len(a) \in DOMAIN b
    BY <1>1
  <2> QED BY <1>1, <2>1, <2>2 DEF ToSet
<1> QED BY <1>2, <1>3, <1>4 DEF ToSet

(* What a list of lists comes to: the elements of each, in order.           *)
LEMMA ListsAreChained ==
  ASSUME NEW S, NEW lists \in Seq(Seq(S))
  PROVE  \E g \in [0..Len(lists) -> Seq(S)] :
           g[0] = <<>> /\ \A k \in 1..Len(lists) : g[k] = g[k - 1] \o lists[k]
<1> DEFINE n == Len(lists)
           D == Seq(S)
           step == [x \in D \X (1..n) |-> x[1] \o lists[x[2]]]
           empty == <<>>
<1>1. n \in Nat /\ \A k \in 1..n : lists[k] \in D
  OBVIOUS
<1>2. \A d \in D, e \in D : d \o e \in D
  OBVIOUS
<1>3. empty \in D
  OBVIOUS
<1> HIDE DEF D, n, empty
<1>4. IsStep(step, D, 1..n) /\ \A d \in D, k \in 1..n : step[<<d, k>>] = d \o lists[k]
  BY <1>1, <1>2 DEF IsStep
<1> HIDE DEF step
<1>5. PICK f : IsFoldOf(f, D, empty, 1..n, step, LastOf(n))
  BY <1>1, <1>3, <1>4, LastIsPicked, SubsetFoldExists
<1>6. Folds(f, D, empty, 1..n, step, LastOf(n))
  BY <1>5 DEF IsFoldOf, Folds
<1>7. PICK g : IsChain(g, D, empty, n, step)
  BY <1>1, <1>3, <1>4, <1>6, FoldIsChain
<1>8. ASSUME NEW k \in 1..n PROVE g[k] = g[k - 1] \o lists[k]
  <2>1. k - 1 \in 0..n
    BY <1>1
  <2> QED BY <1>4, <1>7, <2>1 DEF IsChain
<1> QED BY <1>7, <1>8 DEF IsChain, n, D, empty

LEMMA FlattenedList ==
  ASSUME NEW S, NEW lists \in Seq(Seq(S))
  PROVE  /\ FlattenSeq(lists) \in Seq(S)
         /\ ToSet(FlattenSeq(lists)) = UNION {ToSet(lists[i]) : i \in DOMAIN lists}
<1> DEFINE n == Len(lists)
           P(f) == f = [i \in 1..n |-> IF i = 1 THEN lists[i] ELSE f[i - 1] \o lists[i]]
           f == CHOOSE x : P(x)
<1>1. n \in Nat /\ DOMAIN lists = 1..n /\ \A k \in 1..n : lists[k] \in Seq(S)
  OBVIOUS
<1>2. CASE n = 0
  <2>1. lists = <<>> /\ FlattenSeq(lists) = lists /\ lists \in Seq(S)
    BY <1>2 DEF FlattenSeq
  <2>2. DOMAIN lists = {} /\ ToSet(lists) = {}
    BY <2>1 DEF ToSet
  <2>3. UNION {ToSet(lists[i]) : i \in DOMAIN lists} = {}
    BY <2>2
  <2> QED BY <2>1, <2>2, <2>3, Zenon
<1>3. CASE n # 0
  <2>1. FlattenSeq(lists) = f[n]
    BY <1>3, Zenon DEF FlattenSeq
  <2>2. PICK g \in [0..n -> Seq(S)] : g[0] = <<>> /\ \A k \in 1..n : g[k] = g[k - 1] \o lists[k]
    BY ListsAreChained
  <2>3. P([i \in 1..n |-> g[i]])
    <3> HIDE DEF P, f
    <3>1. g[1] = lists[1]
      <4>1. 1 \in 1..n /\ 1 - 1 = 0
        BY <1>1, <1>3
      <4>2. g[1] = g[0] \o lists[1] /\ g[0] = <<>> /\ lists[1] \in Seq(S)
        BY <1>1, <2>2, <4>1
      <4>3. \A list \in Seq(S) : <<>> \o list = list
        OBVIOUS
      <4> QED BY <4>2, <4>3
    <3>2. ASSUME NEW i \in 1..n, i # 1
          PROVE  i - 1 \in 1..n /\ g[i] = [j \in 1..n |-> g[j]][i - 1] \o lists[i]
      BY <1>1, <2>2, <3>2
    <3> QED BY <3>1, <3>2 DEF P
  <2>4. P(f)
    <3> HIDE DEF P
    <3> QED BY <2>3
  <2> HIDE DEF f
  <2> DEFINE Holds(i) == i \in 1..n => f[i] \in Seq(S) /\ ToSet(f[i]) = UNION {ToSet(lists[j]) : j \in 1..i}
             Indices == {i \in Nat : Holds(i)}
  <2>5. \A i \in 1..n : f[i] = IF i = 1 THEN lists[i] ELSE f[i - 1] \o lists[i]
    BY <2>4, Zenon
  <2> HIDE DEF P
  <2>6. 0 \in Indices
    OBVIOUS
  <2>7. ASSUME NEW i \in Indices \cap Nat PROVE i + 1 \in Indices
    <3> SUFFICES ASSUME i + 1 \in 1..n PROVE Holds(i + 1)
      OBVIOUS
    <3>1. CASE i = 0
      <4>1. i + 1 = 1 /\ 1 \in 1..n /\ 1..1 = {1}
        BY <3>1
      <4>2. f[1] = lists[1] /\ lists[1] \in Seq(S)
        BY <1>1, <2>5, <4>1
      <4>3. UNION {ToSet(lists[j]) : j \in 1..1} = ToSet(lists[1])
        BY <4>1
      <4> QED BY <4>1, <4>2, <4>3
    <3>2. CASE i # 0
      <4>1. i \in 1..n /\ f[i] \in Seq(S) /\ ToSet(f[i]) = UNION {ToSet(lists[j]) : j \in 1..i}
        BY <1>1, <3>2
      <4>2. f[i + 1] = f[i] \o lists[i + 1] /\ lists[i + 1] \in Seq(S)
        <5>1. i + 1 # 1 /\ (i + 1) - 1 = i
          BY <1>1, <3>2
        <5> QED BY <1>1, <2>5, <5>1
      <4>3. ToSet(f[i + 1]) = ToSet(f[i]) \cup ToSet(lists[i + 1])
        BY <4>1, <4>2, JoinedSet
      <4>4. 1..(i + 1) = (1..i) \cup {i + 1}
        BY <1>1
      <4> QED BY <4>1, <4>2, <4>3, <4>4
    <3> QED BY <3>1, <3>2
  <2>8. n \in Indices
    <3> HIDE DEF Indices
    <3> QED BY <1>1, <2>6, <2>7, Induction
  <2> QED BY <1>1, <1>3, <2>1, <2>8
<1> QED BY <1>2, <1>3
===============================================================================
