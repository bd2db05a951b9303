-------------------------- MODULE EnergySumsProofs --------------------------
(***************************************************************************)
(* What the partial sums of EnergySums compute, for every function and     *)
(* every bound.  The proofs are by least counterexample.                   *)
(***************************************************************************)
EXTENDS EnergySums, WellFoundedInduction, FiniteSetTheorems, TLAPS

(* A non-empty set of naturals has a least element. *)
LEMMA LeastElement ==
    ASSUME NEW T, T \subseteq Nat, T # {}
    PROVE  \E m \in T : \A k \in T : m <= k
<1>1. IsWellFoundedOn(OpToRel(<, Nat), Nat)
  BY NatLessThanWellFounded
<1>2. \E m \in T : \A k \in T : ~(<<k, m>> \in OpToRel(<, Nat))
  BY <1>1, WFMin
<1>3. PICK m \in T : \A k \in T : ~(<<k, m>> \in OpToRel(<, Nat))
  BY <1>2
<1>4. \A k \in T : <<k, m>> \in OpToRel(<, Nat) <=> k < m
  BY <1>3 DEF OpToRel
<1>5. \A k \in T : ~(k < m)
  BY <1>3, <1>4, Zenon
<1>6. \A k \in T : m <= k
  BY <1>5
<1>. QED
  BY <1>6

(* The defining equation of the partial sums of f up to n. *)
IsSum(p, f, n) ==
    p = [i \in 0..n |-> IF i = 0 THEN 0 ELSE p[i-1] + f[i-1]]

(* A function that satisfies the defining equation exists. *)
LEMMA SumExists ==
    ASSUME NEW n \in Nat, NEW f \in [0..(n-1) -> Int]
    PROVE  \E p \in [0..n -> Int] : IsSum(p, f, n)
<1>. DEFINE Good(m) == \E p \in [0..m -> Int] : IsSum(p, f, m)
            Bad == {m \in 0..n : ~Good(m)}
<1>1. SUFFICES ASSUME Bad # {} PROVE FALSE
  <2>1. Bad = {} => \A m \in 0..n : Good(m)
    OBVIOUS
  <2>2. n \in 0..n
    OBVIOUS
  <2>3. Good(n) => \E p \in [0..n -> Int] : IsSum(p, f, n)
    OBVIOUS
  <2>. HIDE DEF Good, Bad
  <2>. QED BY <2>1, <2>2, <2>3
<1>a. Bad \subseteq Nat
  OBVIOUS
<1>b. \E m \in Bad : \A k \in Bad : m <= k
  <2>. HIDE DEF Bad
  <2>. QED BY <1>1, <1>a, LeastElement
<1>2. PICK m \in Bad : \A k \in Bad : m <= k
  BY <1>b
<1>3. m # 0
  <2>1. [i \in {0} |-> 0] \in [0..0 -> Int] /\ IsSum([i \in {0} |-> 0], f, 0)
    BY DEF IsSum
  <2>. QED BY <2>1
<1>4. Good(m-1)
  BY <1>2, <1>3
<1>5. PICK p \in [0..(m-1) -> Int] : IsSum(p, f, m-1)
  BY <1>4
<1>. DEFINE q == [i \in 0..m |-> IF i = m THEN p[m-1] + f[m-1] ELSE p[i]]
<1>6. q \in [0..m -> Int]
  BY <1>2, <1>3, <1>5
<1>7. IsSum(q, f, m)
  <2>1. \A i \in 0..(m-1) : p[i] = IF i = 0 THEN 0 ELSE p[i-1] + f[i-1]
    BY <1>5 DEF IsSum
  <2>2. ASSUME NEW i \in 0..m PROVE q[i] = IF i = 0 THEN 0 ELSE q[i-1] + f[i-1]
    <3>1. m \in Nat \ {0} /\ m <= n
      BY <1>2, <1>3
    <3>2. CASE i = m
      BY <3>1, <3>2
    <3>3. CASE i # m
      <4>1. i \in 0..(m-1) /\ q[i] = p[i]
        BY <3>1, <3>3
      <4>2. CASE i = 0
        BY <4>1, <4>2, <2>1
      <4>3. CASE i # 0
        <5>1. i-1 \in 0..m /\ i-1 # m
          BY <3>1, <4>1, <4>3
        <5>2. q[i-1] = p[i-1]
          BY <5>1
        <5>. QED BY <4>1, <4>3, <5>2, <2>1
      <4>. QED BY <4>2, <4>3
    <3>. QED BY <3>2, <3>3
  <2>. QED BY <2>2, <1>6 DEF IsSum
<1>8. Good(m)
  BY <1>6, <1>7
<1>. QED BY <1>2, <1>8

(* g is f with entry k, if there is one, moved by d. *)
DiffersAt(f, g, n, k, d) ==
    \A i \in 0..(n-1) : /\ f[i] \in Int /\ g[i] \in Int
                        /\ g[i] = IF i = k THEN f[i] + d ELSE f[i]

(* Two functions that satisfy it for the same f are equal, and so are two  *)
(* for functions that agree; the sum over a changed entry moves by the     *)
(* change.                                                                 *)
LEMMA SumDifference ==
    ASSUME NEW n \in Nat, NEW f, NEW g, NEW p, NEW q, NEW k \in 0..n, NEW d \in Int,
           DiffersAt(f, g, n, k, d), IsSum(p, f, n), IsSum(q, g, n)
    PROVE  \A i \in 0..n : /\ p[i] \in Int
                           /\ q[i] = IF i <= k THEN p[i] ELSE p[i] + d
<1>. DEFINE Good(i) == p[i] \in Int /\ q[i] = IF i <= k THEN p[i] ELSE p[i] + d
            Bad == {i \in 0..n : ~Good(i)}
<1>1. SUFFICES ASSUME Bad # {} PROVE FALSE
  OBVIOUS
<1>a. Bad \subseteq Nat
  OBVIOUS
<1>b. \E m \in Bad : \A j \in Bad : m <= j
  <2>. HIDE DEF Bad
  <2>. QED BY <1>1, <1>a, LeastElement
<1>2. PICK m \in Bad : \A j \in Bad : m <= j
  BY <1>b
<1>3. \A i \in 0..n : p[i] = IF i = 0 THEN 0 ELSE p[i-1] + f[i-1]
  BY DEF IsSum
<1>4. \A i \in 0..n : q[i] = IF i = 0 THEN 0 ELSE q[i-1] + g[i-1]
  BY DEF IsSum
<1>5. m # 0
  BY <1>3, <1>4
<1>6. Good(m-1)
  BY <1>2, <1>5
<1>7. p[m] = p[m-1] + f[m-1] /\ q[m] = q[m-1] + g[m-1]
  BY <1>2, <1>3, <1>4, <1>5
<1>8. Good(m)
  BY <1>2, <1>5, <1>6, <1>7 DEF DiffersAt
<1>. QED BY <1>2, <1>8

(* PartialSums satisfies its defining equation. *)
LEMMA PartialSumsDef ==
    ASSUME NEW n \in Nat, NEW f \in [0..(n-1) -> Int]
    PROVE  IsSum(PartialSums(f, n), f, n)
<1>1. PICK p : IsSum(p, f, n)
  BY SumExists
<1>2. PartialSums(f, n) = CHOOSE s : s = [i \in 0..n |-> IF i = 0 THEN 0 ELSE s[i-1] + f[i-1]]
  BY DEF PartialSums
<1>. QED BY <1>1, <1>2 DEF IsSum

(* The partial sums are integers that grow by one entry per index. *)
LEMMA PartialSumsStep ==
    ASSUME NEW n \in Nat, NEW f \in [0..(n-1) -> Int]
    PROVE  /\ \A i \in 0..n : PartialSums(f, n)[i] \in Int
           /\ \A i \in 0..(n-1) : PartialSums(f, n)[i+1] = PartialSums(f, n)[i] + f[i]
<1>. DEFINE p == PartialSums(f, n)
<1>1. IsSum(p, f, n)
  BY PartialSumsDef
<1>2. \A i \in 0..n : p[i] \in Int
  <2>. HIDE DEF p
  <2>1. DiffersAt(f, f, n, n, 0)
    BY DEF DiffersAt
  <2>. QED BY <1>1, <2>1, SumDifference
<1>3. \A i \in 0..n : p[i] = IF i = 0 THEN 0 ELSE p[i-1] + f[i-1]
  <2>. HIDE DEF p
  <2>. QED BY <1>1 DEF IsSum
<1>4. \A i \in 0..(n-1) : p[i+1] = p[i] + f[i]
  <2>. HIDE DEF p
  <2>. TAKE i \in 0..(n-1)
  <2>1. i+1 \in 0..n /\ i+1 # 0 /\ (i+1)-1 = i
    OBVIOUS
  <2>. QED BY <1>3, <2>1
<1>. QED BY <1>2, <1>4

(* A sum is an integer, and peeling off its first entry is what the market *)
(* cycle does when a slot is delivered.                                    *)
LEMMA SumRangeStep ==
    ASSUME NEW n \in Nat, NEW f \in [0..(n-1) -> Int], NEW lo \in 0..n
    PROVE  /\ SumRange(f, lo, n) \in Int
           /\ lo < n => SumRange(f, lo, n) = f[lo] + SumRange(f, lo + 1, n)
           /\ SumRange(f, n, n) = 0
<1>. DEFINE p == PartialSums(f, n)
<1>1. \A i \in 0..n : p[i] \in Int
  BY PartialSumsStep
<1>2. \A i \in 0..(n-1) : p[i+1] = p[i] + f[i]
  BY PartialSumsStep
<1>. HIDE DEF p
<1>3. p[n] - p[lo] \in Int /\ p[n] - p[n] = 0
  BY <1>1
<1>4. lo < n => p[n] - p[lo] = f[lo] + (p[n] - p[lo + 1])
  <2>1. SUFFICES ASSUME lo < n PROVE p[n] - p[lo] = f[lo] + (p[n] - p[lo + 1])
    OBVIOUS
  <2>2. lo \in 0..(n-1) /\ lo + 1 \in 0..n /\ n \in 0..n
    BY <2>1
  <2>3. f[lo] \in Int
    BY <2>2
  <2>4. p[n] \in Int /\ p[lo] \in Int /\ p[lo+1] \in Int
    BY <1>1, <2>2
  <2>5. p[lo + 1] = p[lo] + f[lo]
    BY <1>2, <2>2
  <2>. QED BY <2>3, <2>4, <2>5
<1>. QED BY <1>3, <1>4 DEF SumRange, p

(* Changing one entry by d moves the sums that contain it by d. *)
LEMMA SumRangeUpdate ==
    ASSUME NEW n \in Nat, NEW f \in [0..(n-1) -> Int], NEW g \in [0..(n-1) -> Int],
           NEW k \in 0..(n-1), NEW d \in Int, NEW lo \in 0..n,
           DiffersAt(f, g, n, k, d)
    PROVE  /\ lo <= k => SumRange(g, lo, n) = SumRange(f, lo, n) + d
           /\ k < lo => SumRange(g, lo, n) = SumRange(f, lo, n)
<1>. DEFINE p == PartialSums(f, n)
            q == PartialSums(g, n)
<1>1. IsSum(p, f, n) /\ IsSum(q, g, n)
  BY PartialSumsDef
<1>. HIDE DEF p, q
<1>2. \A i \in 0..n : p[i] \in Int /\ q[i] = IF i <= k THEN p[i] ELSE p[i] + d
  <2>1. k \in 0..n
    OBVIOUS
  <2>. QED BY <1>1, <2>1, SumDifference
<1>3. p[n] \in Int /\ p[lo] \in Int /\ q[n] = p[n] + d
      /\ q[lo] = IF lo <= k THEN p[lo] ELSE p[lo] + d
  BY <1>2
<1>4. /\ lo <= k => q[n] - q[lo] = (p[n] - p[lo]) + d
      /\ k < lo => q[n] - q[lo] = p[n] - p[lo]
  BY <1>3
<1>. QED BY <1>4 DEF SumRange, p, q

(* Partial sums of non-negative entries do not decrease. *)
LEMMA PartialSumsMonotone ==
    ASSUME NEW n \in Nat, NEW f \in [0..(n-1) -> Int], NEW lo \in 0..n, NEW hi \in lo..n,
           \A i \in lo..(n-1) : f[i] >= 0
    PROVE  PartialSums(f, n)[lo] <= PartialSums(f, n)[hi]
<1>. DEFINE p == PartialSums(f, n)
            Good(j) == p[lo] <= p[j]
            Bad == {j \in lo..n : ~Good(j)}
<1>1. \A i \in 0..n : p[i] \in Int
  BY PartialSumsStep
<1>2. \A i \in 0..(n-1) : p[i+1] = p[i] + f[i]
  BY PartialSumsStep
<1>. HIDE DEF p
<1>3. SUFFICES ASSUME Bad # {} PROVE FALSE
  BY DEF p
<1>4. Bad \subseteq Nat
  OBVIOUS
<1>5. \E m \in Bad : \A j \in Bad : m <= j
  <2>. HIDE DEF Bad
  <2>. QED BY <1>3, <1>4, LeastElement
<1>6. PICK m \in Bad : \A j \in Bad : m <= j
  BY <1>5
<1>7. m # lo
  BY <1>1
<1>8. m-1 \in lo..n /\ m-1 \in 0..(n-1) /\ m-1 \in lo..(n-1) /\ (m-1)+1 = m
  BY <1>6, <1>7
<1>9. Good(m-1)
  <2>1. m-1 \notin Bad
    BY <1>6, <1>8
  <2>. QED BY <2>1, <1>8
<1>10. p[m] = p[m-1] + f[m-1]
  BY <1>2, <1>8
<1>11. f[m-1] \in Int /\ f[m-1] >= 0 /\ p[m-1] \in Int /\ p[lo] \in Int
  BY <1>1, <1>8
<1>12. Good(m)
  BY <1>9, <1>10, <1>11
<1>. QED BY <1>6, <1>12

(* An entry of a sum of non-negative energies is at most the sum. *)
LEMMA SumRangeElement ==
    ASSUME NEW n \in Nat, NEW f \in [0..(n-1) -> Int], NEW lo \in 0..n, NEW k \in lo..(n-1),
           \A i \in lo..(n-1) : f[i] >= 0
    PROVE  f[k] <= SumRange(f, lo, n)
<1>. DEFINE p == PartialSums(f, n)
<1>1. k \in 0..(n-1) /\ k \in lo..n /\ k + 1 \in 0..n /\ n \in (k+1)..n
  OBVIOUS
<1>2. p[k+1] = p[k] + f[k] /\ f[k] \in Int
  BY <1>1, PartialSumsStep
<1>3. p[lo] \in Int /\ p[k] \in Int /\ p[k+1] \in Int /\ p[n] \in Int
  BY <1>1, PartialSumsStep
<1>4. p[lo] <= p[k]
  BY <1>1, PartialSumsMonotone
<1>5. p[k+1] <= p[n]
  <2>1. \A i \in (k+1)..(n-1) : f[i] >= 0
    OBVIOUS
  <2>. QED BY <1>1, <2>1, PartialSumsMonotone
<1>. HIDE DEF p
<1>6. f[k] <= p[n] - p[lo]
  BY <1>2, <1>3, <1>4, <1>5
<1>. QED BY <1>6 DEF SumRange, p

(* A sum depends only on the entries in its range. *)
LEMMA SumRangeTail ==
    ASSUME NEW n \in Nat, NEW f \in [0..(n-1) -> Int], NEW g \in [0..(n-1) -> Int],
           NEW lo \in 0..n, \A i \in lo..(n-1) : f[i] = g[i]
    PROVE  SumRange(f, lo, n) = SumRange(g, lo, n)
<1>. DEFINE Good(k) == SumRange(f, n - k, n) = SumRange(g, n - k, n)
            Bad == {k \in 0..(n - lo) : ~Good(k)}
<1>1. SUFFICES Bad = {}
  <2>1. n - lo \in 0..(n - lo) /\ n - (n - lo) = lo
    OBVIOUS
  <2>2. ASSUME Bad = {} PROVE Good(n - lo)
    BY <2>1, <2>2
  <2>. QED BY <2>1, <2>2
<1>2. SUFFICES ASSUME Bad # {} PROVE FALSE
  OBVIOUS
<1>a. Bad \subseteq Nat
  OBVIOUS
<1>b. \E m \in Bad : \A j \in Bad : m <= j
  <2>. HIDE DEF Bad
  <2>. QED BY <1>2, <1>a, LeastElement
<1>3. PICK m \in Bad : \A j \in Bad : m <= j
  BY <1>b
<1>4. SumRange(f, n, n) = 0 /\ SumRange(g, n, n) = 0
  <2>1. n \in 0..n
    OBVIOUS
  <2>. QED BY <2>1, SumRangeStep
<1>5. m # 0
  <2>1. n - 0 = n
    OBVIOUS
  <2>. QED BY <1>3, <1>4, <2>1
<1>6. Good(m - 1)
  <2>1. m - 1 \in 0..(n - lo) /\ ~(m <= m - 1)
    BY <1>3, <1>5
  <2>. QED BY <1>3, <2>1
<1>7. /\ n - m \in 0..n /\ n - m < n /\ (n - m) + 1 = n - (m - 1)
      /\ n - m \in lo..(n-1)
  BY <1>3, <1>5
<1>8. /\ SumRange(f, n - m, n) = f[n - m] + SumRange(f, (n - m) + 1, n)
      /\ SumRange(g, n - m, n) = g[n - m] + SumRange(g, (n - m) + 1, n)
  BY <1>7, SumRangeStep
<1>9. Good(m)
  BY <1>6, <1>7, <1>8
<1>. QED BY <1>3, <1>9

(* A dictionary of zeros sums to zero. *)
LEMMA SumRangeZero ==
    ASSUME NEW n \in Nat, NEW f \in [0..(n-1) -> Int], NEW lo \in 0..n,
           \A i \in 0..(n-1) : f[i] = 0
    PROVE  SumRange(f, lo, n) = 0
<1>. DEFINE Good(k) == SumRange(f, n - k, n) = 0
            Bad == {k \in 0..n : ~Good(k)}
<1>1. SUFFICES Bad = {}
  <2>1. n - lo \in 0..n /\ n - (n - lo) = lo
    OBVIOUS
  <2>2. ASSUME Bad = {} PROVE Good(n - lo)
    BY <2>1, <2>2
  <2>. QED BY <2>1, <2>2
<1>2. SUFFICES ASSUME Bad # {} PROVE FALSE
  OBVIOUS
<1>a. Bad \subseteq Nat
  OBVIOUS
<1>b. \E m \in Bad : \A j \in Bad : m <= j
  <2>. HIDE DEF Bad
  <2>. QED BY <1>2, <1>a, LeastElement
<1>3. PICK m \in Bad : \A j \in Bad : m <= j
  BY <1>b
<1>4. SumRange(f, n, n) = 0
  <2>1. n \in 0..n
    OBVIOUS
  <2>. QED BY <2>1, SumRangeStep
<1>5. m # 0
  <2>1. n - 0 = n
    OBVIOUS
  <2>. QED BY <1>3, <1>4, <2>1
<1>6. Good(m - 1)
  <2>1. m - 1 \in 0..n /\ ~(m <= m - 1)
    BY <1>3, <1>5
  <2>. QED BY <1>3, <2>1
<1>7. /\ n - m \in 0..n /\ n - m < n /\ (n - m) + 1 = n - (m - 1)
      /\ n - m \in 0..(n-1)
  BY <1>3, <1>5
<1>8. SumRange(f, n - m, n) = f[n - m] + SumRange(f, (n - m) + 1, n)
  BY <1>7, SumRangeStep
<1>9. Good(m)
  BY <1>6, <1>7, <1>8
<1>. QED BY <1>3, <1>9

(* Changing entry k leaves the partial sums up to k alone. *)
LEMMA PartialSumsUpdate ==
    ASSUME NEW n \in Nat, NEW f \in [0..(n-1) -> Int], NEW g \in [0..(n-1) -> Int],
           NEW k \in 0..(n-1), NEW d \in Int, DiffersAt(f, g, n, k, d)
    PROVE  \A i \in 0..k : PartialSums(g, n)[i] = PartialSums(f, n)[i]
<1>. DEFINE p == PartialSums(f, n)
            q == PartialSums(g, n)
<1>1. IsSum(p, f, n) /\ IsSum(q, g, n)
  BY PartialSumsDef
<1>2. k \in 0..n
  OBVIOUS
<1>. HIDE DEF p, q
<1>3. \A i \in 0..n : q[i] = IF i <= k THEN p[i] ELSE p[i] + d
  BY <1>1, <1>2, SumDifference
<1>4. \A i \in 0..k : i \in 0..n /\ i <= k
  OBVIOUS
<1>. QED BY <1>3, <1>4 DEF p, q
-----------------------------------------------------------------------------
(* Sums over finite sets. *)

(* A set that holds the empty set, and every set of which it holds the     *)
(* rest without one element, holds all subsets of a finite set.            *)
LEMMA SubsetInduction ==
    ASSUME NEW D, IsFiniteSet(D), NEW Good, {} \in Good,
           \A T \in SUBSET D : T # {} /\ T \ {Element(T)} \in Good => T \in Good
    PROVE  \A T \in SUBSET D : T \in Good
<1>. DEFINE Bad == {k \in Nat : \E T \in SUBSET D : T \notin Good /\ Cardinality(T) = k}
<1>1. \A T \in SUBSET D : IsFiniteSet(T) /\ Cardinality(T) \in Nat
  BY FS_Subset, FS_CardinalityType
<1>2. SUFFICES Bad = {}
  BY <1>1
<1>3. SUFFICES ASSUME Bad # {} PROVE FALSE
  OBVIOUS
<1>4. Bad \subseteq Nat
  OBVIOUS
<1>5. PICK k \in Bad : \A j \in Bad : k <= j
  <2>. HIDE DEF Bad
  <2>. QED BY <1>3, <1>4, LeastElement
<1>6. PICK T \in SUBSET D : T \notin Good /\ Cardinality(T) = k
  BY <1>5
<1>7. T # {} /\ Element(T) \in T
  <2>1. T # {}
    BY <1>6
  <2>. QED BY <2>1 DEF Element
<1>8. Cardinality(T \ {Element(T)}) = k - 1 /\ k - 1 \in Nat
  <2>1. Cardinality(T \ {Element(T)}) = k - 1
    BY <1>1, <1>6, <1>7, FS_RemoveElement
  <2>. QED BY <1>1, <2>1
<1>9. T \ {Element(T)} \in Good
  <2>1. k - 1 \notin Bad
    BY <1>5, <1>8
  <2>. QED BY <2>1, <1>8
<1>. QED BY <1>6, <1>7, <1>9

(* The defining equation of the sums of g over the subsets of D. *)
IsTotal(s, g, D) ==
    s = [T \in SUBSET D |-> IF T = {} THEN 0 ELSE g[Element(T)] + s[T \ {Element(T)}]]

(* A function that satisfies the defining equation exists: it is built for *)
(* ever larger subsets.                                                    *)
LEMMA TotalExists ==
    ASSUME NEW D, IsFiniteSet(D), NEW g \in [D -> Int]
    PROVE  \E s : IsTotal(s, g, D)
<1>. DEFINE Level(k) == {T \in SUBSET D : Cardinality(T) <= k}
            Sums(s, T) == IF T = {} THEN 0 ELSE g[Element(T)] + s[T \ {Element(T)}]
            Good(k) == \E s \in [Level(k) -> Int] : \A T \in Level(k) : s[T] = Sums(s, T)
            n == Cardinality(D)
            Bad == {k \in 0 .. n : ~Good(k)}
<1>1. \A T \in SUBSET D : IsFiniteSet(T) /\ Cardinality(T) \in Nat /\ Cardinality(T) <= n
  BY FS_Subset, FS_CardinalityType
<1>2. \A T \in SUBSET D : Cardinality(T) = 0 => T = {}
  BY <1>1, FS_EmptySet
<1>3. \A T \in SUBSET D : T # {} =>
          /\ Element(T) \in T /\ T \ {Element(T)} \in SUBSET D
          /\ Cardinality(T \ {Element(T)}) = Cardinality(T) - 1
  <2>. SUFFICES ASSUME NEW T \in SUBSET D, T # {}
                PROVE  /\ Element(T) \in T /\ T \ {Element(T)} \in SUBSET D
                       /\ Cardinality(T \ {Element(T)}) = Cardinality(T) - 1
    OBVIOUS
  <2>1. Element(T) \in T
    BY DEF Element
  <2>2. Cardinality(T \ {Element(T)}) = Cardinality(T) - 1
    BY <1>1, <2>1, FS_RemoveElement
  <2>. QED BY <2>1, <2>2
<1>4. n \in Nat
  BY FS_CardinalityType
<1>. HIDE DEF n
<1>5. Good(0)
  <2>. DEFINE zero == [T \in Level(0) |-> 0]
  <2>1. zero \in [Level(0) -> Int]
    OBVIOUS
  <2>2. \A T \in Level(0) : T = {}
    BY <1>1, <1>2
  <2>3. \A T \in Level(0) : zero[T] = Sums(zero, T)
    BY <2>2
  <2>. QED BY <2>1, <2>3
<1>6. ASSUME NEW k \in 1 .. n, Good(k - 1) PROVE Good(k)
  <2>1. PICK s \in [Level(k - 1) -> Int] : \A T \in Level(k - 1) : s[T] = Sums(s, T)
    BY <1>6
  <2>. DEFINE r == [T \in Level(k) |-> IF T \in Level(k - 1) THEN s[T] ELSE Sums(s, T)]
  <2>2. ASSUME NEW T \in Level(k), T # {}
        PROVE  T \ {Element(T)} \in Level(k - 1) /\ T \ {Element(T)} \in Level(k) /\ Element(T) \in D
    <3>1. Cardinality(T) \in Nat /\ Cardinality(T) <= k /\ k \in Nat
      BY <1>1
    <3>. QED BY <2>2, <3>1, <1>3
  <2>3. r \in [Level(k) -> Int]
    <3>. SUFFICES ASSUME NEW T \in Level(k), T \notin Level(k - 1) PROVE Sums(s, T) \in Int
      BY <2>1
    <3>1. CASE T = {}
      BY <3>1
    <3>2. CASE T # {}
      <4>1. s[T \ {Element(T)}] \in Int /\ g[Element(T)] \in Int
        BY <2>1, <2>2, <3>2
      <4>. QED BY <3>2, <4>1
    <3>. QED BY <3>1, <3>2
  <2>4. ASSUME NEW T \in Level(k) PROVE r[T] = Sums(r, T)
    <3>1. r[T] = Sums(s, T)
      BY <2>1
    <3>2. CASE T = {}
      BY <3>1, <3>2
    <3>3. CASE T # {}
      <4>1. r[T \ {Element(T)}] = s[T \ {Element(T)}]
        BY <2>2, <3>3
      <4>. QED BY <3>1, <3>3, <4>1
    <3>. QED BY <3>2, <3>3
  <2>. QED BY <2>3, <2>4
<1>7. Bad = {}
  <2>. SUFFICES ASSUME Bad # {} PROVE FALSE
    OBVIOUS
  <2>. HIDE DEF Good
  <2>1. Bad \subseteq Nat
    OBVIOUS
  <2>2. PICK k \in Bad : \A j \in Bad : k <= j
    <3>. HIDE DEF Bad
    <3>. QED BY <2>1, LeastElement
  <2>3. k \in 1 .. n /\ k - 1 \in 0 .. n /\ k - 1 \notin Bad
    BY <1>4, <1>5, <2>2
  <2>. QED BY <2>2, <2>3, <1>6
<1>8. Good(n)
  <2>. HIDE DEF Good
  <2>. QED BY <1>4, <1>7
<1>9. Level(n) = SUBSET D
  BY <1>1
<1>10. PICK s \in [SUBSET D -> Int] : \A T \in SUBSET D : s[T] = Sums(s, T)
  BY <1>8, <1>9
<1>11. IsTotal(s, g, D)
  BY <1>10 DEF IsTotal
<1>. QED BY <1>11

(* The sums behind Total: integers that grow by one value at a time. *)
AreSums(s, g, D) ==
    /\ s \in [SUBSET D -> Int] /\ Total(g) = s[D] /\ s[{}] = 0
    /\ \A T \in SUBSET D : T # {} =>
           /\ Element(T) \in T /\ T \ {Element(T)} \in SUBSET D
           /\ s[T] = g[Element(T)] + s[T \ {Element(T)}]

LEMMA TotalDef ==
    ASSUME NEW D, IsFiniteSet(D), NEW g \in [D -> Int]
    PROVE  \E s : AreSums(s, g, D)
<1>. DEFINE s == CHOOSE r : IsTotal(r, g, D)
<1>1. IsTotal(s, g, D)
  BY TotalExists
<1>2. Total(g) = s[D]
  <2>1. DOMAIN g = D
    OBVIOUS
  <2>. QED BY <2>1 DEF Total, IsTotal
<1>. HIDE DEF s
<1>3. \A T \in SUBSET D : T # {} => Element(T) \in T /\ T \ {Element(T)} \in SUBSET D
  BY DEF Element
<1>4. s[{}] = 0 /\ \A T \in SUBSET D : T # {} => s[T] = g[Element(T)] + s[T \ {Element(T)}]
  BY <1>1 DEF IsTotal
<1>5. \A T \in SUBSET D : s[T] \in Int
  <2>. DEFINE Good == {T \in SUBSET D : s[T] \in Int}
  <2>1. {} \in Good
    BY <1>4
  <2>2. \A T \in SUBSET D : T # {} /\ T \ {Element(T)} \in Good => T \in Good
    BY <1>3, <1>4
  <2>. HIDE DEF Good
  <2>3. \A T \in SUBSET D : T \in Good
    BY <2>1, <2>2, SubsetInduction
  <2>. QED BY <2>3 DEF Good
<1>6. s \in [SUBSET D -> Int]
  <2>1. s = [T \in SUBSET D |-> s[T]]
    BY <1>1 DEF IsTotal
  <2>. QED BY <1>5, <2>1
<1>7. AreSums(s, g, D)
  BY <1>2, <1>3, <1>4, <1>6 DEF AreSums
<1>. QED BY <1>7

(* The sum of two functions has the sum of their totals. *)
LEMMA TotalAdds ==
    ASSUME NEW D, IsFiniteSet(D), NEW f \in [D -> Int], NEW g \in [D -> Int], NEW h \in [D -> Int],
           \A x \in D : h[x] = f[x] + g[x]
    PROVE  Total(f) \in Int /\ Total(g) \in Int /\ Total(h) = Total(f) + Total(g)
<1>1. PICK p : AreSums(p, f, D)
  BY TotalDef, Zenon
<1>2. PICK q : AreSums(q, g, D)
  BY TotalDef, Zenon
<1>3. PICK r : AreSums(r, h, D)
  BY TotalDef, Zenon
<1>. DEFINE Good == {T \in SUBSET D : r[T] = p[T] + q[T]}
<1>4. {} \in Good
  BY <1>1, <1>2, <1>3 DEF AreSums
<1>5. ASSUME NEW T \in SUBSET D, T # {}, T \ {Element(T)} \in Good PROVE T \in Good
  <2>1. Element(T) \in D /\ T \ {Element(T)} \in SUBSET D
    BY <1>1, <1>5 DEF AreSums
  <2>2. /\ p[T] = f[Element(T)] + p[T \ {Element(T)}]
        /\ q[T] = g[Element(T)] + q[T \ {Element(T)}]
        /\ r[T] = h[Element(T)] + r[T \ {Element(T)}]
    BY <1>1, <1>2, <1>3, <1>5 DEF AreSums
  <2>3. h[Element(T)] = f[Element(T)] + g[Element(T)] /\ f[Element(T)] \in Int /\ g[Element(T)] \in Int
    BY <2>1
  <2>4. r[T \ {Element(T)}] = p[T \ {Element(T)}] + q[T \ {Element(T)}]
    BY <1>5 DEF Good
  <2>5. p[T \ {Element(T)}] \in Int /\ q[T \ {Element(T)}] \in Int
    BY <1>1, <1>2, <2>1 DEF AreSums
  <2>. QED BY <2>2, <2>3, <2>4, <2>5 DEF Good
<1>. HIDE DEF Good
<1>6. \A T \in SUBSET D : T \in Good
  BY <1>4, <1>5, SubsetInduction
<1>7. r[D] = p[D] + q[D]
  BY <1>6 DEF Good
<1>8. Total(f) = p[D] /\ Total(g) = q[D] /\ Total(h) = r[D] /\ p[D] \in Int /\ q[D] \in Int
  BY <1>1, <1>2, <1>3 DEF AreSums
<1>. QED BY <1>7, <1>8, Zenon

(* The total of a function that is 0 but for one argument. *)
OnlyAt(f, D, y, d) == \A x \in D : f[x] = IF x = y THEN d ELSE 0

LEMMA TotalSingle ==
    ASSUME NEW D, IsFiniteSet(D), NEW f \in [D -> Int], NEW y \in D, NEW d \in Int, OnlyAt(f, D, y, d)
    PROVE  Total(f) = d
<1>1. PICK p : AreSums(p, f, D)
  BY TotalDef, Zenon
<1>. DEFINE Good == {T \in SUBSET D : p[T] = IF y \in T THEN d ELSE 0}
<1>2. {} \in Good
  BY <1>1 DEF AreSums
<1>3. ASSUME NEW T \in SUBSET D, T # {}, T \ {Element(T)} \in Good PROVE T \in Good
  <2>1. Element(T) \in T /\ Element(T) \in D /\ p[T] = f[Element(T)] + p[T \ {Element(T)}]
    BY <1>1, <1>3 DEF AreSums
  <2>2. p[T \ {Element(T)}] = IF y \in T \ {Element(T)} THEN d ELSE 0
    BY <1>3
  <2>3. f[Element(T)] = IF Element(T) = y THEN d ELSE 0
    BY <2>1 DEF OnlyAt
  <2>. QED BY <2>1, <2>2, <2>3
<1>. HIDE DEF Good
<1>4. \A T \in SUBSET D : T \in Good
  BY <1>2, <1>3, SubsetInduction
<1>5. p[D] = d
  BY <1>4 DEF Good
<1>6. Total(f) = p[D]
  BY <1>1, Zenon DEF AreSums
<1>. QED BY <1>5, <1>6, Zenon

(* A function of zeros has total 0. *)
LEMMA TotalZero ==
    ASSUME NEW D, IsFiniteSet(D), NEW f \in [D -> Int], \A x \in D : f[x] = 0
    PROVE  Total(f) = 0
<1>1. Total(f) \in Int /\ Total(f) = Total(f) + Total(f)
  BY TotalAdds
<1>2. PICK t \in Int : t = Total(f)
  BY <1>1, Zenon
<1>3. t = t + t
  BY <1>1, <1>2, Zenon
<1>4. t = 0
  BY <1>3
<1>. QED BY <1>2, <1>4, Zenon

(* The total of a function that adds two, stated with the quantifier hidden.       *)
AddsUp(f, g, h, D) ==
    /\ IsFiniteSet(D) /\ f \in [D -> Int] /\ g \in [D -> Int] /\ h \in [D -> Int]
    /\ \A x \in D : h[x] = f[x] + g[x]

LEMMA TotalOfSums ==
    ASSUME NEW f, NEW g, NEW h, NEW D, AddsUp(f, g, h, D)
    PROVE  Total(f) \in Int /\ Total(h) = Total(f) + Total(g)
BY TotalAdds DEF AddsUp

(* Changing one value by d changes the total by d. *)
ChangedBy(f, g, D, y, d) ==
    /\ IsFiniteSet(D) /\ f \in [D -> Int] /\ g \in [D -> Int] /\ y \in D /\ d \in Int
    /\ \A x \in D : g[x] = IF x = y THEN f[x] + d ELSE f[x]

LEMMA TotalUpdate ==
    ASSUME NEW f, NEW g, NEW D, NEW y, NEW d, ChangedBy(f, g, D, y, d)
    PROVE  Total(f) \in Int /\ Total(g) = Total(f) + d
<1>0. IsFiniteSet(D) /\ f \in [D -> Int] /\ g \in [D -> Int] /\ y \in D /\ d \in Int
  BY DEF ChangedBy
<1>. DEFINE delta == [x \in D |-> IF x = y THEN d ELSE 0]
<1>1. delta \in [D -> Int] /\ OnlyAt(delta, D, y, d)
  BY <1>0 DEF OnlyAt
<1>. HIDE DEF delta
<1>2. Total(delta) = d
  BY <1>0, <1>1, TotalSingle
<1>3. \A x \in D : g[x] = f[x] + delta[x]
  BY <1>0, <1>1 DEF ChangedBy, OnlyAt
<1>4. Total(f) \in Int /\ Total(g) = Total(f) + Total(delta)
  BY <1>0, <1>1, <1>3, TotalAdds
<1>. QED BY <1>2, <1>4, Zenon
=============================================================================
