----------------------------- MODULE FiniteNumbers -----------------------------
(***************************************************************************)
(* Facts about finite sets of natural numbers that the proofs about file   *)
(* numbers and file handles rest on: the greatest and the least of them,   *)
(* a number that is not among them, and their rank.                        *)
(***************************************************************************)
EXTENDS Naturals, FiniteSets, FiniteSetsExt, FiniteSetTheorems,
        FunctionTheorems, WellFoundedInduction, TLAPS

(* A set of natural numbers has a least element.                           *)
LEMMA LeastNumber ==
  ASSUME NEW T, T \subseteq Nat, T # {}
  PROVE  \E x \in T : \A y \in T : x <= y
<1>. DEFINE R == OpToRel(<, Nat)
<1>1. IsWellFoundedOn(R, Nat)
  BY NatLessThanWellFounded
<1>2. \A x, y \in Nat : y < x => <<y, x>> \in R
  BY DEF OpToRel
<1>. HIDE DEF R
<1>3. PICK x \in T : \A y \in T : ~(<<y, x>> \in R)
  BY <1>1, WFMin
<1>4. \A y \in T : ~(y < x)
  BY <1>2, <1>3
<1>5. \A y \in T : x \in Nat /\ y \in Nat
  OBVIOUS
<1>. QED
  BY <1>4, <1>5

(* A finite set of natural numbers is bounded: of the sets that are not,   *)
(* take one with the fewest elements, and one of these away.               *)
LEMMA FiniteBounded ==
  ASSUME NEW S, S \subseteq Nat, IsFiniteSet(S)
  PROVE  \E b \in Nat : \A y \in S : y <= b
<1>. DEFINE Bounded(T) == \E b \in Nat : \A y \in T : y <= b
            Sizes == {k \in Nat : \E T \in SUBSET Nat :
                        IsFiniteSet(T) /\ Cardinality(T) = k /\ ~Bounded(T)}
<1>. SUFFICES ASSUME ~Bounded(S) PROVE FALSE
  OBVIOUS
<1>1. Cardinality(S) \in Sizes
  BY FS_CardinalityType
<1>2. PICK k \in Sizes : \A l \in Sizes : k <= l
  <2>1. Sizes \subseteq Nat /\ Sizes # {}
    BY <1>1
  <2>. HIDE DEF Sizes
  <2>. QED
    BY <2>1, LeastNumber
<1>3. PICK T \in SUBSET Nat : IsFiniteSet(T) /\ Cardinality(T) = k /\ ~Bounded(T)
  OBVIOUS
<1>4. T # {}
  BY <1>3
<1>5. PICK x \in T : TRUE
  BY <1>4
<1>6. IsFiniteSet(T \ {x}) /\ Cardinality(T \ {x}) = k - 1
  BY <1>3, <1>5, FS_RemoveElement
<1>7. k \in Nat /\ k # 0
  BY <1>3, <1>4, FS_EmptySet
<1>8. Bounded(T \ {x})
  <2>1. k - 1 \in Nat /\ ~(k <= k - 1)
    BY <1>7
  <2>2. k - 1 \notin Sizes
    BY <1>2, <2>1
  <2>. QED
    BY <1>6, <2>1, <2>2
<1>9. PICK b \in Nat : \A y \in T \ {x} : y <= b
  BY <1>8
<1>10. x \in Nat
  BY <1>5
<1>11. PICK c \in Nat : b <= c /\ x <= c
  <2>1. b + x \in Nat /\ b <= b + x /\ x <= b + x
    BY <1>10
  <2>. QED
    BY <2>1
<1>12. \A y \in T : y <= c
  <2>. TAKE y \in T
  <2>1. y \in Nat /\ (y = x \/ y <= b)
    BY <1>9
  <2>. QED
    BY <1>11, <2>1
<1>. QED
  BY <1>3, <1>12

(* Max and Min are what they say.                                          *)
LEMMA MaxOfFinite ==
  ASSUME NEW S, S \subseteq Nat, IsFiniteSet(S), S # {}
  PROVE  Max(S) \in S /\ \A y \in S : y <= Max(S)
<1>. DEFINE B == {b \in Nat : \A y \in S : y <= b}
<1>1. PICK b \in B : \A c \in B : b <= c
  <2>1. B \subseteq Nat /\ B # {}
    BY FiniteBounded
  <2>. HIDE DEF B
  <2>. QED
    BY <2>1, LeastNumber
<1>2. b \in Nat /\ \A y \in S : y <= b /\ y \in Nat
  OBVIOUS
<1>3. b \in S
  <2>. SUFFICES ASSUME b \notin S PROVE FALSE
    OBVIOUS
  <2>1. PICK y \in S : TRUE
    OBVIOUS
  <2>2. b # 0
    BY <1>2, <2>1
  <2>3. b - 1 \in Nat /\ ~(b <= b - 1)
    BY <1>2, <2>2
  <2>4. \A z \in S : z <= b - 1
    BY <1>2
  <2>. QED
    BY <1>1, <2>3, <2>4
<1>4. \E x \in S : \A y \in S : x >= y
  BY <1>2, <1>3
<1>5. Max(S) \in S /\ \A y \in S : Max(S) >= y
  BY <1>4 DEF Max
<1>. QED
  BY <1>5

LEMMA MinOfSome ==
  ASSUME NEW S, S \subseteq Nat, S # {}
  PROVE  Min(S) \in S /\ \A y \in S : Min(S) <= y
<1>1. \E x \in S : \A y \in S : x <= y
  BY LeastNumber
<1>2. Min(S) \in S /\ \A y \in S : Min(S) =< y
  BY <1>1 DEF Min
<1>. QED
  BY <1>2

(* Among the first numbers, one more than a finite set has elements, there *)
(* is one that is not in the set.                                          *)
LEMMA FreeNumber ==
  ASSUME NEW S, IsFiniteSet(S)
  PROVE  (1..(Cardinality(S) + 1)) \ S # {}
<1>. DEFINE I == 1..(Cardinality(S) + 1)
<1>1. Cardinality(S) \in Nat
  BY FS_CardinalityType
<1>2. Cardinality(I) = Cardinality(S) + 1
  BY <1>1, FS_Interval
<1>3. CASE I \subseteq S
  <2>1. Cardinality(I) <= Cardinality(S)
    BY <1>3, FS_Subset
  <2>. QED
    BY <1>1, <1>2, <2>1
<1>. QED
  BY <1>3

(* The values of a function on a finite set.                               *)
LEMMA FiniteImage ==
  ASSUME NEW f, IsFiniteSet(DOMAIN f)
  PROVE  IsFiniteSet({f[x] : x \in DOMAIN f})
<1>. DEFINE T == {f[x] : x \in DOMAIN f}
            g == [x \in DOMAIN f |-> f[x]]
<1>1. g \in Surjection(DOMAIN f, T)
  BY DEF Surjection
<1>. HIDE DEF T, g
<1>2. IsFiniteSet(T)
  BY <1>1, FS_Surjection
<1>. QED
  BY <1>2 DEF T

(* The rank of an element of s: how many elements it is not below.  Every  *)
(* rank from 1 to the number of elements is that of exactly one element.   *)
Rank(s, n) == Cardinality({m \in s : m <= n})

LEMMA RankIsBijective ==
  ASSUME NEW s, s \subseteq Nat, IsFiniteSet(s)
  PROVE  /\ \A n \in s : Rank(s, n) \in 1..Cardinality(s)
         /\ \A m, n \in s : m < n => Rank(s, m) < Rank(s, n)
         /\ \A i \in 1..Cardinality(s) : \E n \in s : Rank(s, n) = i
<1>1. Cardinality(s) \in Nat
  BY FS_CardinalityType
<1>2. ASSUME NEW n \in s PROVE Rank(s, n) \in 1..Cardinality(s)
  <2>. DEFINE below == {m \in s : m <= n}
  <2>1. IsFiniteSet(below) /\ Cardinality(below) <= Cardinality(s)
    BY FS_Subset
  <2>2. n \in below
    OBVIOUS
  <2>. HIDE DEF below
  <2>3. Cardinality(below) \in Nat /\ Cardinality(below) # 0
    BY <2>1, <2>2, FS_EmptySet, FS_CardinalityType
  <2>. QED
    BY <1>1, <2>1, <2>3 DEF Rank, below
<1>3. ASSUME NEW m \in s, NEW n \in s, m < n PROVE Rank(s, m) < Rank(s, n)
  <2>. DEFINE low == {x \in s : x <= m}
              high == {x \in s : x <= n}
  <2>1. low \in SUBSET high /\ n \in high /\ n \notin low
    <3>1. m \in Nat /\ n \in Nat /\ \A x \in s : x \in Nat /\ (x <= m => x <= n)
      BY <1>3
    <3>2. ~(n <= m) /\ n <= n
      BY <1>3, <3>1
    <3>3. \A x \in low : x \in high
      BY <3>1
    <3>. QED
      BY <3>2, <3>3
  <2>2. IsFiniteSet(high)
    BY FS_Subset
  <2>. HIDE DEF low, high
  <2>3. Cardinality(low) <= Cardinality(high) /\ Cardinality(low) # Cardinality(high)
    BY <2>1, <2>2, FS_Subset
  <2>4. Cardinality(low) \in Nat /\ Cardinality(high) \in Nat
    BY <2>1, <2>2, FS_Subset, FS_CardinalityType
  <2>. QED
    BY <2>3, <2>4 DEF Rank, low, high
<1>4. ASSUME NEW i \in 1..Cardinality(s) PROVE \E n \in s : Rank(s, n) = i
  <2>. SUFFICES ASSUME \A n \in s : Rank(s, n) # i PROVE FALSE
    OBVIOUS
  <2>. DEFINE I == (1..Cardinality(s)) \ {i}
              r == [n \in s |-> Rank(s, n)]
  <2>1. IsFiniteSet(I) /\ Cardinality(I) = Cardinality(s) - 1
    <3>1. IsFiniteSet(1..Cardinality(s)) /\ Cardinality(1..Cardinality(s)) = Cardinality(s)
      BY <1>1, FS_Interval
    <3>. QED
      BY <1>4, <3>1, FS_RemoveElement
  <2>2. r \in [s -> I]
    BY <1>2
  <2>3. PICK x \in s, y \in s : x # y /\ r[x] = r[y]
    <3>1. Cardinality(I) < Cardinality(s)
      BY <1>1, <2>1
    <3>. HIDE DEF I, r
    <3>. QED
      BY <2>1, <2>2, <3>1, FS_PigeonHole
  <2>4. Rank(s, x) = Rank(s, y) /\ Rank(s, x) \in Nat
    BY <1>2, <2>3
  <2>5. x < y \/ y < x
    BY <2>3
  <2>. QED
    BY <1>3, <2>4, <2>5
<1>. QED
  BY <1>2, <1>3, <1>4
(* A function on the numbers up to n is defined by its first value and by  *)
(* the step from each value to the next.                                   *)
LEMMA RecursionOnNumbers ==
  ASSUME NEW n \in Nat, NEW V, NEW v \in V, NEW step \in [1..n -> [V -> V]]
  PROVE  \E f \in [0..n -> V] : f[0] = v /\ \A i \in 1..n : f[i] = step[i][f[i - 1]]
<1>. DEFINE Defines(f, m) == f[0] = v /\ \A i \in 1..m : f[i] = step[i][f[i - 1]]
            T == {m \in 0..n : ~\E f \in [0..m -> V] : Defines(f, m)}
<1>. SUFFICES ASSUME n \in T PROVE FALSE
  OBVIOUS
<1>1. T \subseteq Nat /\ T \subseteq 0..n
  OBVIOUS
<1>2. PICK m \in T : \A k \in T : m <= k
  <2>. HIDE DEF T
  <2>. QED
    BY <1>1, LeastNumber
<1>3. m # 0
  <2>. SUFFICES ASSUME m = 0 PROVE FALSE
    OBVIOUS
  <2>1. [i \in 0..0 |-> v] \in [0..0 -> V] /\ Defines([i \in 0..0 |-> v], 0)
    OBVIOUS
  <2>. QED
    BY <1>2, <2>1
<1>4. m \in 1..n /\ m - 1 \in 0..n /\ ~(m <= m - 1)
  BY <1>1, <1>3
<1>5. PICK f \in [0..(m - 1) -> V] : Defines(f, m - 1)
  BY <1>2, <1>4
<1>. DEFINE g == [i \in 0..m |-> IF i = m THEN step[m][f[m - 1]] ELSE f[i]]
<1>6. g \in [0..m -> V]
  <2>1. f[m - 1] \in V
    BY <1>4
  <2>2. step[m][f[m - 1]] \in V
    BY <1>4, <2>1
  <2>3. \A i \in 0..m : i # m => i \in 0..(m - 1)
    BY <1>4
  <2>. QED
    BY <2>2, <2>3
<1>7. Defines(g, m)
  <2>1. \A i \in 0..(m - 1) : g[i] = f[i]
    BY <1>4
  <2>2. g[0] = v
    BY <1>4, <1>5, <2>1
  <2>3. ASSUME NEW i \in 1..m PROVE g[i] = step[i][g[i - 1]]
    <3>1. CASE i = m
      BY <1>4, <2>1, <3>1
    <3>2. CASE i # m
      <4>1. i \in 1..(m - 1) /\ i \in 0..(m - 1) /\ i - 1 \in 0..(m - 1)
        BY <1>4, <3>2
      <4>. QED
        BY <1>5, <2>1, <4>1
    <3>. QED
      BY <3>1, <3>2
  <2>. QED
    BY <2>2, <2>3
<1>8. m \in 0..n /\ \E h \in [0..m -> V] : Defines(h, m)
  BY <1>4, <1>6, <1>7
<1>. QED
  BY <1>2, <1>8
=============================================================================
