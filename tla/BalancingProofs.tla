-------------------------- MODULE BalancingProofs ---------------------------
(***************************************************************************)
(* Proofs about Balancing, for every tree of areas, set of devices, ratio  *)
(* and number of spot trades.                                              *)
(***************************************************************************)
EXTENDS Balancing, EnergySumsProofs

(* What nearly every step needs of the constants. *)
LEMMA Constants ==
    /\ Lower \in [Agents -> Markets] /\ Higher \in [Agents -> Markets] /\ Home \in [Devices -> Markets]
    /\ Ratio["demand"] \in Nat \ {0} /\ Ratio["supply"] \in Nat \ {0} /\ Ratio["spot"] \in Nat \ {0}
    /\ Wh \in Nat /\ Capacity \in Nat /\ PlantEnergy \in Nat /\ MaxDesired \in Nat /\ MaxTrades \in Nat
  BY BalancingAssumption

USE Constants

(* Before the slot begins nothing has been offered, traded or owed; a load *)
(* makes at most one offer per spot trade.                                 *)
Unopened ==
    ~open => /\ requirement = desired /\ trades = 0
             /\ \A f \in Families : sold[f] = 0
             /\ \A a \in Agents : due[a] = 0
Unoffered ==
    \A d \in Loads : \A k \in 1 .. MaxTrades :
        k > trades => offered[<<d, "upward", k>>] = 0
BidsOnlyTwoSided == ~twoSided => \A d \in Loads : bid[d] = 0

BalancingInv ==
    /\ TypeOK /\ Unopened /\ Unoffered /\ BidsOnlyTwoSided
    /\ OffersConserved /\ SpotTradesBalanced /\ BidsLeaveTheCommitment
-----------------------------------------------------------------------------
(* What is bought of an offer is a part of it, with its sign. *)
Part(t, energy) == (0 <= t /\ t <= energy) \/ (energy <= t /\ t <= 0)

States == [want : [Directions -> Nat], bought : [Families -> Int]]
Reached(energies, want) ==
    {s \in States : /\ \A dir \in Directions : s.want[dir] <= want[dir]
                    /\ \A f \in Families : Part(s.bought[f], energies[f])}

LEMMA FamilyFacts ==
    /\ \A f \in Families : f[1] \in Devices /\ f[2] \in Directions /\ f[3] \in Nat /\ Origin(f) \in Markets
    /\ \A f \in Families : f = <<f[1], f[2], f[3]>>
    /\ IsFiniteSet(Families)
<1>1. \A f \in Families : f[1] \in Devices /\ f[2] \in Directions /\ f[3] \in Nat /\ f = <<f[1], f[2], f[3]>>
  BY DEF Families, Devices, Directions
<1>2. \A f \in Families : Origin(f) \in Markets
  BY <1>1 DEF Origin
<1>3. IsFiniteSet(Families)
  <2>. DEFINE T == (Devices \X Directions) \X (0 .. MaxTrades + 1)
              map == [f \in Families |-> <<<<f[1], f[2]>>, f[3]>>]
  <2>1. IsFiniteSet(Directions)
    <3>1. IsFiniteSet({"upward"})
      BY FS_Singleton
    <3>2. IsFiniteSet({"upward"} \cup {"downward"})
      BY <3>1, FS_AddElement
    <3>3. Directions = {"upward"} \cup {"downward"}
      BY DEF Directions
    <3>. QED BY <3>2, <3>3
  <2>2. IsFiniteSet(0 .. MaxTrades + 1)
    BY FS_Interval
  <2>3. IsFiniteSet(T)
    BY <2>1, <2>2, FS_Product, BalancingAssumption
  <2>4. \A f \in Families : f[3] \in 0 .. MaxTrades + 1
    BY DEF Families
  <2>5. map \in [Families -> T]
    BY <1>1, <2>4
  <2>6. \A f, g \in Families : map[f] = map[g] => f = g
    BY <1>1
  <2>7. map \in Injection(Families, T)
    BY <2>5, <2>6 DEF Injection, IsInjective
  <2>. QED BY <2>3, <2>7, FS_Injection
<1>. QED BY <1>1, <1>2, <1>3

LEMMA BuyStep ==
    ASSUME NEW energies \in [Families -> Int], NEW want \in [Directions -> Nat],
           NEW s \in Reached(energies, want), NEW f \in Families
    PROVE  BalancingTrade(energies[f], s, f) \in Reached(energies, want)
<1>. DEFINE e == energies[f]
            dir == DirectionOf(e)
            amount == Amount(e, s.want)
            after == BalancingTrade(e, s, f)
<1>1. e \in Int /\ s \in States /\ s.want \in [Directions -> Nat] /\ s.bought \in [Families -> Int]
  BY DEF Reached, States
<1>2. dir \in Directions
  BY DEF DirectionOf, Directions
<1>3. s.want[dir] \in Nat
  BY <1>1, <1>2
<1>4. amount \in Nat /\ amount <= s.want[dir] /\ amount <= Size(e)
  BY <1>1, <1>3 DEF Amount, Smaller, Size
<1>5. Part(Signed(e, amount), e) /\ Signed(e, amount) \in Int
  BY <1>1, <1>4 DEF Part, Signed, Size
<1>6. after = [want |-> [s.want EXCEPT ![dir] = @ - amount],
               bought |-> [s.bought EXCEPT ![f] = Signed(e, amount)]]
  BY DEF BalancingTrade
<1>7. after.want = [s.want EXCEPT ![dir] = @ - amount] /\ after.bought = [s.bought EXCEPT ![f] = Signed(e, amount)]
  BY <1>6
<1>8. s.want[dir] - amount \in Nat /\ s.want[dir] - amount <= s.want[dir]
  BY <1>3, <1>4
<1>. HIDE DEF e, dir, amount, after
<1>9. after.want \in [Directions -> Nat] /\ \A d \in Directions : after.want[d] <= want[d]
  BY <1>1, <1>2, <1>7, <1>8 DEF Reached
<1>10. after.bought \in [Families -> Int] /\ \A g \in Families : Part(after.bought[g], energies[g])
  BY <1>1, <1>5, <1>7 DEF Reached, e
<1>11. after \in States
  BY <1>6, <1>7, <1>9, <1>10 DEF States
<1>12. after \in Reached(energies, want)
  BY <1>9, <1>10, <1>11 DEF Reached
<1>. QED BY <1>12 DEF after, e

(* The loop over the offers as a function of the number of turns. *)
IsLoop(g, energies, offers, want, n) ==
    g = [i \in 0 .. n |->
            IF i = 0 THEN [want |-> want, bought |-> Nothing]
            ELSE BalancingTrade(energies[offers[i]], g[i - 1], offers[i])]

LEMMA StartReached ==
    ASSUME NEW energies \in [Families -> Int], NEW want \in [Directions -> Nat]
    PROVE  [want |-> want, bought |-> Nothing] \in Reached(energies, want)
<1>. DEFINE start == [want |-> want, bought |-> Nothing]
<1>1. start.want = want /\ start.bought = Nothing
  OBVIOUS
<1>2. Nothing \in [Families -> Int] /\ \A f \in Families : Nothing[f] = 0
  BY DEF Nothing
<1>3. start \in States
  BY <1>2 DEF States
<1>4. \A f \in Families : Part(start.bought[f], energies[f])
  BY <1>1, <1>2 DEF Part
<1>5. \A dir \in Directions : start.want[dir] <= want[dir]
  BY <1>1
<1>. QED BY <1>3, <1>4, <1>5 DEF Reached

LEMMA LoopExists ==
    ASSUME NEW energies \in [Families -> Int], NEW want \in [Directions -> Nat],
           NEW n \in Nat, NEW offers \in [1 .. n -> Families]
    PROVE  \E g \in [0 .. n -> Reached(energies, want)] : IsLoop(g, energies, offers, want, n)
<1>. DEFINE R == Reached(energies, want)
            Good(m) == \E g \in [0 .. m -> R] : IsLoop(g, energies, offers, want, m)
            Bad == {m \in 0 .. n : ~Good(m)}
            start == [want |-> want, bought |-> Nothing]
<1>1. start \in R
  BY StartReached
<1>. HIDE DEF start
<1>2. Good(0)
  <2>1. [i \in 0 .. 0 |-> start] \in [0 .. 0 -> R]
    BY <1>1
  <2>2. IsLoop([i \in 0 .. 0 |-> start], energies, offers, want, 0)
    BY DEF IsLoop, start
  <2>. QED BY <2>1, <2>2
<1>3. ASSUME NEW m \in 0 .. n, m > 0, Good(m - 1) PROVE Good(m)
  <2>1. PICK g \in [0 .. m - 1 -> R] : IsLoop(g, energies, offers, want, m - 1)
    BY <1>3
  <2>. DEFINE next == BalancingTrade(energies[offers[m]], g[m - 1], offers[m])
              h == [i \in 0 .. m |-> IF i = m THEN next ELSE g[i]]
  <2>2. next \in R
    <3>1. offers[m] \in Families /\ g[m - 1] \in R
      BY <1>3, <2>1
    <3>. QED BY <3>1, BuyStep
  <2>3. h \in [0 .. m -> R]
    BY <2>1, <2>2
  <2>4. \A i \in 0 .. m : h[i] = IF i = 0 THEN start ELSE BalancingTrade(energies[offers[i]], h[i - 1], offers[i])
    <3>. TAKE i \in 0 .. m
    <3>1. CASE i = m
      BY <3>1, <1>3
    <3>2. CASE i # m
      <4>1. i \in 0 .. m - 1 /\ h[i] = g[i]
        BY <3>2
      <4>2. g[i] = IF i = 0 THEN start ELSE BalancingTrade(energies[offers[i]], g[i - 1], offers[i])
        BY <4>1, <2>1 DEF IsLoop, start
      <4>3. i # 0 => h[i - 1] = g[i - 1]
        BY <4>1
      <4>. QED BY <4>1, <4>2, <4>3, Zenon
    <3>. QED BY <3>1, <3>2
  <2>. HIDE DEF h
  <2>5. IsLoop(h, energies, offers, want, m)
    BY <2>3, <2>4 DEF IsLoop, start
  <2>. QED BY <2>3, <2>5
<1>. HIDE DEF Good, R
<1>4. Bad = {}
  <2>. SUFFICES ASSUME Bad # {} PROVE FALSE
    OBVIOUS
  <2>. Bad \subseteq Nat
    OBVIOUS
  <2>1. PICK m \in Bad : \A k \in Bad : m <= k
    BY LeastElement
  <2>2. m # 0
    BY <1>2, <2>1
  <2>3. m - 1 \in 0 .. n /\ m - 1 \notin Bad
    BY <2>1, <2>2
  <2>. QED BY <2>1, <2>2, <2>3, <1>3
<1>5. Good(n)
  <2>1. n \in 0 .. n
    OBVIOUS
  <2>2. \A k \in 0 .. n : k \in Bad <=> ~Good(k)
    BY Zenon
  <2>. QED BY <1>4, <2>1, <2>2, Zenon
<1>. QED BY <1>5 DEF Good, R

LEMMA LoopReached ==
    ASSUME NEW energies \in [Families -> Int], NEW want \in [Directions -> Nat],
           NEW n \in Nat, NEW offers \in [1 .. n -> Families],
           NEW g, IsLoop(g, energies, offers, want, n)
    PROVE  \A m \in 0 .. n : g[m] \in Reached(energies, want)
<1>. DEFINE R == Reached(energies, want)
            start == [want |-> want, bought |-> Nothing]
            Bad == {m \in 0 .. n : g[m] \notin R}
<1>1. start \in R
  BY StartReached
<1>. HIDE DEF start, R
<1>2. \A i \in 0 .. n : g[i] = IF i = 0 THEN start ELSE BalancingTrade(energies[offers[i]], g[i - 1], offers[i])
  BY DEF IsLoop, start
<1>3. Bad = {}
  <2>. SUFFICES ASSUME Bad # {} PROVE FALSE
    OBVIOUS
  <2>. Bad \subseteq Nat
    OBVIOUS
  <2>1. PICK m \in Bad : \A k \in Bad : m <= k
    BY LeastElement
  <2>2. m # 0
    BY <1>1, <1>2, <2>1
  <2>3. m - 1 \in 0 .. n /\ g[m - 1] \in R /\ offers[m] \in Families
    BY <2>1, <2>2
  <2>4. BalancingTrade(energies[offers[m]], g[m - 1], offers[m]) \in R
    BY <2>3, BuyStep DEF R
  <2>. QED BY <1>2, <2>1, <2>2, <2>4
<1>. QED BY <1>3 DEF R

(* What the loop leaves is its last turn. *)
LEMMA PurchasesLoop ==
    ASSUME NEW energies \in [Families -> Int], NEW want \in [Directions -> Nat],
           NEW offers \in Seq(Families)
    PROVE  \E g : /\ IsLoop(g, energies, offers, want, Len(offers))
                  /\ Purchases(energies, offers, want) = g[Len(offers)]
<1>1. Len(offers) \in Nat /\ offers \in [1 .. Len(offers) -> Families]
  OBVIOUS
<1>. DEFINE n == Len(offers)
            after == CHOOSE g : IsLoop(g, energies, offers, want, n)
<1>2. \E g : IsLoop(g, energies, offers, want, n)
  BY <1>1, LoopExists
<1>3. IsLoop(after, energies, offers, want, n)
  BY <1>2
<1>4. Purchases(energies, offers, want) = after[n]
  BY DEF Purchases, IsLoop
<1>. HIDE DEF after
<1>. QED BY <1>3, <1>4

(* The loop buys no more than is wanted, and of every offer a part. *)
LEMMA PurchasesReached ==
    ASSUME NEW energies \in [Families -> Int], NEW want \in [Directions -> Nat],
           NEW offers \in Seq(Families)
    PROVE  Purchases(energies, offers, want) \in Reached(energies, want)
<1>. DEFINE n == Len(offers)
<1>1. n \in Nat /\ n \in 0 .. n /\ offers \in [1 .. n -> Families]
  OBVIOUS
<1>2. PICK g : IsLoop(g, energies, offers, want, n) /\ Purchases(energies, offers, want) = g[n]
  BY PurchasesLoop
<1>. HIDE DEF n
<1>3. g[n] \in Reached(energies, want)
  BY <1>1, <1>2, LoopReached
<1>. QED BY <1>2, <1>3
-----------------------------------------------------------------------------
(* What the loop has bought is what it has taken off the want.             *)
Sizes(bought) == [f \in Families |-> Size(bought[f])]
Distinct(offers, n) == \A i, j \in 1 .. n : i # j => offers[i] # offers[j]
Taken(want, left) == want["upward"] - left["upward"] + (want["downward"] - left["downward"])

Counted(want, s) == Total(Sizes(s.bought)) = Taken(want, s.want)
Unbought(s, f) == s.bought[f] = 0
SameBut(f, s, r) == \A g \in Families : g # f => s.bought[g] = r.bought[g]

LEMMA SizesTyped ==
    ASSUME NEW bought \in [Families -> Int]
    PROVE  Sizes(bought) \in [Families -> Int] /\ \A f \in Families : Sizes(bought)[f] = Size(bought[f])
  BY DEF Sizes, Size

LEMMA BuyCounts ==
    ASSUME NEW energies \in [Families -> Int], NEW want \in [Directions -> Nat],
           NEW s \in Reached(energies, want), NEW f \in Families, Unbought(s, f),
           Counted(want, s)
    PROVE  /\ Counted(want, BalancingTrade(energies[f], s, f))
           /\ SameBut(f, BalancingTrade(energies[f], s, f), s)
<1>. DEFINE e == energies[f]
            dir == DirectionOf(e)
            amount == Amount(e, s.want)
            after == BalancingTrade(e, s, f)
<1>1. e \in Int /\ s.want \in [Directions -> Nat] /\ s.bought \in [Families -> Int]
  BY DEF Reached, States
<1>2. dir \in Directions /\ dir \in {"upward", "downward"}
  BY DEF DirectionOf, Directions
<1>3. s.want[dir] \in Nat
  BY <1>1, <1>2
<1>4. amount \in Nat
  BY <1>1, <1>3 DEF Amount, Smaller, Size
<1>5. Signed(e, amount) \in Int /\ Size(Signed(e, amount)) = amount
  BY <1>1, <1>4 DEF Signed, Size
<1>6. after = [want |-> [s.want EXCEPT ![dir] = @ - amount],
               bought |-> [s.bought EXCEPT ![f] = Signed(e, amount)]]
  BY DEF BalancingTrade
<1>7. after.want = [s.want EXCEPT ![dir] = @ - amount] /\ after.bought = [s.bought EXCEPT ![f] = Signed(e, amount)]
  BY <1>6
<1>. HIDE DEF e, dir, amount, after
<1>8. after.bought \in [Families -> Int]
  BY <1>1, <1>5, <1>7
<1>9. \A g \in Families : Sizes(after.bought)[g] = IF g = f THEN Sizes(s.bought)[g] + amount ELSE Sizes(s.bought)[g]
  <2>1. \A g \in Families : after.bought[g] = IF g = f THEN Signed(e, amount) ELSE s.bought[g]
    BY <1>1, <1>7
  <2>2. Sizes(s.bought)[f] = 0
    BY <1>1, SizesTyped DEF Size, Unbought
  <2>. QED BY <1>1, <1>4, <1>5, <1>8, <2>1, <2>2, SizesTyped
<1>10. Total(Sizes(after.bought)) = Total(Sizes(s.bought)) + amount
  <2>. DEFINE x == Sizes(s.bought)
              y == Sizes(after.bought)
  <2>1. x \in [Families -> Int] /\ y \in [Families -> Int]
    BY <1>1, <1>8, SizesTyped
  <2>2. amount \in Int /\ IsFiniteSet(Families)
    BY <1>4, FamilyFacts
  <2>3. \A g \in Families : y[g] = IF g = f THEN x[g] + amount ELSE x[g]
    BY <1>9
  <2>. HIDE DEF x, y
  <2>4. ChangedBy(x, y, Families, f, amount)
    BY <2>1, <2>2, <2>3, Zenon DEF ChangedBy
  <2>5. Total(y) = Total(x) + amount
    BY <2>4, TotalUpdate
  <2>. QED BY <2>5 DEF x, y
<1>11. Taken(want, after.want) = Taken(want, s.want) + amount
  <2>1. s.want["upward"] \in Nat /\ s.want["downward"] \in Nat /\ want["upward"] \in Nat /\ want["downward"] \in Nat
    BY <1>1 DEF Directions
  <2>2. CASE dir = "upward"
    <3>1. after.want["upward"] = s.want["upward"] - amount /\ after.want["downward"] = s.want["downward"]
      BY <1>1, <1>7, <2>2 DEF Directions
    <3>. QED BY <1>4, <2>1, <3>1 DEF Taken
  <2>3. CASE dir = "downward"
    <3>1. after.want["downward"] = s.want["downward"] - amount /\ after.want["upward"] = s.want["upward"]
      BY <1>1, <1>7, <2>3 DEF Directions
    <3>. QED BY <1>4, <2>1, <3>1 DEF Taken
  <2>. QED BY <1>2, <2>2, <2>3
<1>12. \A g \in Families : g # f => after.bought[g] = s.bought[g]
  BY <1>1, <1>7
<1>13. Total(Sizes(after.bought)) = Taken(want, after.want)
  BY <1>10, <1>11, Zenon DEF Counted
<1>. QED BY <1>12, <1>13, Zenon DEF after, e, Counted, SameBut

(* An offer that is not in the list is not bought, and one that is, once.  *)
LEMMA LoopCounts ==
    ASSUME NEW energies \in [Families -> Int], NEW want \in [Directions -> Nat],
           NEW n \in Nat, NEW offers \in [1 .. n -> Families],
           Distinct(offers, n),
           NEW g, IsLoop(g, energies, offers, want, n)
    PROVE  Counted(want, g[n])
<1>. DEFINE start == [want |-> want, bought |-> Nothing]
            Rest(m) == \A f \in Families : (\A i \in 1 .. m : offers[i] # f) => Unbought(g[m], f)
            Bad == {m \in 0 .. n : ~(Rest(m) /\ Counted(want, g[m]))}
<1>1. \A i \in 0 .. n : g[i] = IF i = 0 THEN start ELSE BalancingTrade(energies[offers[i]], g[i - 1], offers[i])
  BY DEF IsLoop
<1>2. \A m \in 0 .. n : g[m] \in Reached(energies, want)
  BY LoopReached
<1>3. Rest(0) /\ Counted(want, g[0])
  <2>1. g[0] = start
    <3>1. 0 \in 0 .. n
      OBVIOUS
    <3>. QED BY <1>1, <3>1, Zenon
  <2>2. g[0].want = want /\ g[0].bought = Nothing
    BY <2>1
  <2>3. \A f \in Families : Nothing[f] = 0
    BY DEF Nothing
  <2>4. Nothing \in [Families -> Int]
    BY DEF Nothing
  <2>5. Total(Sizes(Nothing)) = 0
    <3>1. Sizes(Nothing) \in [Families -> Int] /\ \A f \in Families : Sizes(Nothing)[f] = 0
      BY <2>3, <2>4, SizesTyped DEF Size
    <3>. QED BY <3>1, FamilyFacts, TotalZero
  <2>6. Taken(want, want) = 0
    <3>1. want["upward"] \in Nat /\ want["downward"] \in Nat
      BY DEF Directions
    <3>. QED BY <3>1 DEF Taken
  <2>7. Counted(want, g[0])
    BY <2>2, <2>5, <2>6, Zenon DEF Counted
  <2>. QED BY <2>2, <2>3, <2>7 DEF Unbought
<1>4. ASSUME NEW m \in 1 .. n, Rest(m - 1), Counted(want, g[m - 1]) PROVE Rest(m) /\ Counted(want, g[m])
  <2>. DEFINE s == g[m - 1]
              f == offers[m]
  <2>1. f \in Families /\ s \in Reached(energies, want) /\ m - 1 \in 0 .. n
    BY <1>2
  <2>2. Unbought(s, f)
    <3>1. \A i \in 1 .. m - 1 : offers[i] # f
      BY DEF Distinct
    <3>. QED BY <2>1, <3>1, <1>4
  <2>3. g[m] = BalancingTrade(energies[f], s, f)
    BY <1>1
  <2>4. Counted(want, s)
    BY <1>4
  <2>. HIDE DEF s
  <2>5. Counted(want, g[m]) /\ SameBut(f, g[m], s)
    <3>. HIDE DEF f
    <3>. QED BY <2>1, <2>2, <2>3, <2>4, BuyCounts
  <2>6. Rest(m)
    <3>. SUFFICES ASSUME NEW h \in Families, \A i \in 1 .. m : offers[i] # h PROVE Unbought(g[m], h)
      OBVIOUS
    <3>1. h # f /\ \A i \in 1 .. m - 1 : offers[i] # h
      OBVIOUS
    <3>2. Unbought(s, h)
      BY <1>4, <3>1 DEF s
    <3>. QED BY <2>5, <3>1, <3>2 DEF SameBut, Unbought
  <2>. QED BY <2>5, <2>6
<1>. HIDE DEF Rest
<1>5. Bad = {}
  <2>. SUFFICES ASSUME Bad # {} PROVE FALSE
    OBVIOUS
  <2>1. Bad \subseteq Nat
    OBVIOUS
  <2>2. PICK m \in Bad : \A k \in Bad : m <= k
    <3>. HIDE DEF Bad
    <3>. QED BY <2>1, LeastElement
  <2>3. m \in 1 .. n /\ m - 1 \in 0 .. n /\ m - 1 \notin Bad
    BY <1>3, <2>2
  <2>. QED BY <2>2, <2>3, <1>4
<1>6. Counted(want, g[n])
  <2>1. n \in 0 .. n
    OBVIOUS
  <2>. QED BY <1>5, <2>1, Zenon
<1>. QED BY <1>6

LEMMA PurchasesCount ==
    ASSUME NEW energies \in [Families -> Int], NEW want \in [Directions -> Nat],
           NEW offers \in Seq(Families), Distinct(offers, Len(offers))
    PROVE  Counted(want, Purchases(energies, offers, want))
<1>. DEFINE n == Len(offers)
<1>1. n \in Nat /\ offers \in [1 .. n -> Families] /\ Distinct(offers, n)
  OBVIOUS
<1>2. PICK g : IsLoop(g, energies, offers, want, n) /\ Purchases(energies, offers, want) = g[n]
  BY PurchasesLoop
<1>. HIDE DEF n
<1>3. Counted(want, g[n])
  BY <1>1, <1>2, LoopCounts
<1>. QED BY <1>2, <1>3, Zenon
-----------------------------------------------------------------------------
(* The offers of a market are in a strict total order of their rates, so   *)
(* that the list of them has an offer in every place.                      *)
LEMMA CheaperOrders ==
    /\ \A f \in Families : ~Cheaper(f, f)
    /\ \A f, g \in Families : f # g => Cheaper(f, g) \/ Cheaper(g, f)
    /\ \A f, g, h \in Families : Cheaper(f, g) /\ Cheaper(g, h) => Cheaper(f, h)
<1>. DEFINE rank(f) == Rank[<<f[1], f[2]>>]
<1>1. \A f \in Families : rank(f) \in Nat /\ f[3] \in Nat /\ f = <<f[1], f[2], f[3]>>
  BY FamilyFacts, BalancingAssumption
<1>2. \A f, g \in Families : rank(f) = rank(g) => f[1] = g[1] /\ f[2] = g[2]
  <2>. TAKE f, g \in Families
  <2>1. <<f[1], f[2]>> \in Devices \X Directions /\ <<g[1], g[2]>> \in Devices \X Directions
    BY FamilyFacts
  <2>2. rank(f) = rank(g) => <<f[1], f[2]>> = <<g[1], g[2]>>
    BY <2>1, BalancingAssumption
  <2>. QED BY <2>2
<1>3. \A f, g \in Families : f[1] = g[1] /\ f[2] = g[2] => rank(f) = rank(g)
  OBVIOUS
<1>4. \A f, g : Cheaper(f, g) <=> rank(f) < rank(g) \/ (f[1] = g[1] /\ f[2] = g[2] /\ f[3] < g[3])
  BY DEF Cheaper
<1>. HIDE DEF rank
<1>5. \A f \in Families : ~Cheaper(f, f)
  BY <1>1, <1>4
<1>6. \A f, g \in Families : f # g => Cheaper(f, g) \/ Cheaper(g, f)
  <2>. SUFFICES ASSUME NEW f \in Families, NEW g \in Families, f # g
                PROVE  Cheaper(f, g) \/ Cheaper(g, f)
    OBVIOUS
  <2>1. CASE rank(f) # rank(g)
    BY <2>1, <1>1, <1>4
  <2>2. CASE rank(f) = rank(g)
    <3>1. f[1] = g[1] /\ f[2] = g[2]
      BY <2>2, <1>2
    <3>2. f[3] # g[3]
      BY <3>1, <1>1
    <3>. QED BY <3>1, <3>2, <1>1, <1>4
  <2>. QED BY <2>1, <2>2
<1>7. \A f, g, h \in Families : Cheaper(f, g) /\ Cheaper(g, h) => Cheaper(f, h)
  <2>. SUFFICES ASSUME NEW f \in Families, NEW g \in Families, NEW h \in Families,
                       Cheaper(f, g), Cheaper(g, h)
                PROVE  Cheaper(f, h)
    OBVIOUS
  <2>. QED BY <1>1, <1>3, <1>4
<1>. QED BY <1>5, <1>6, <1>7

CheaperAmong(offers, f) == {g \in offers : Cheaper(g, f)}

LEMMA PlacesDiffer ==
    ASSUME NEW offers, offers \subseteq Families, IsFiniteSet(offers)
    PROVE  /\ \A f \in offers : Cardinality(CheaperAmong(offers, f)) \in 0 .. Cardinality(offers) - 1
           /\ \A f, g \in offers : f # g =>
                  Cardinality(CheaperAmong(offers, f)) # Cardinality(CheaperAmong(offers, g))
<1>. DEFINE below(f) == CheaperAmong(offers, f)
            n == Cardinality(offers)
<1>1. \A f, g \in offers : g \in below(f) <=> Cheaper(g, f)
  BY DEF CheaperAmong
<1>2. \A f \in offers : below(f) \in SUBSET offers
  BY DEF CheaperAmong
<1>. HIDE DEF below
<1>3. \A f \in offers : IsFiniteSet(below(f)) /\ Cardinality(below(f)) \in Nat
  BY <1>2, FS_Subset, FS_CardinalityType
<1>4. \A f \in offers : Cardinality(below(f)) < n
  <2>. TAKE f \in offers
  <2>1. f \notin below(f)
    BY <1>1, CheaperOrders
  <2>2. Cardinality(below(f)) <= n /\ (n = Cardinality(below(f)) => offers = below(f))
    BY <1>2, FS_Subset
  <2>3. n \in Nat
    BY FS_CardinalityType
  <2>. HIDE DEF n
  <2>. QED BY <1>3, <2>1, <2>2, <2>3
<1>5. ASSUME NEW f \in offers, NEW g \in offers, Cheaper(f, g)
      PROVE  Cardinality(below(f)) < Cardinality(below(g))
  <2>1. \A h \in below(f) : h \in below(g)
    BY <1>1, <1>2, <1>5, CheaperOrders
  <2>2. f \in below(g) /\ f \notin below(f)
    BY <1>1, <1>5, CheaperOrders
  <2>3. below(f) \in SUBSET below(g)
    BY <2>1
  <2>4. /\ Cardinality(below(f)) <= Cardinality(below(g))
        /\ Cardinality(below(g)) = Cardinality(below(f)) => below(g) = below(f)
    BY <1>3, <2>3, FS_Subset
  <2>. QED BY <1>3, <2>2, <2>4
<1>6. \A f, g \in offers : f # g => Cardinality(below(f)) # Cardinality(below(g))
  <2>. SUFFICES ASSUME NEW f \in offers, NEW g \in offers, f # g
                PROVE  Cardinality(below(f)) # Cardinality(below(g))
    OBVIOUS
  <2>1. Cheaper(f, g) \/ Cheaper(g, f)
    BY CheaperOrders
  <2>2. Cardinality(below(f)) < Cardinality(below(g)) \/ Cardinality(below(g)) < Cardinality(below(f))
    BY <2>1, <1>5
  <2>. QED BY <1>3, <2>2
<1>7. n \in Nat
  BY FS_CardinalityType
<1>. HIDE DEF n
<1>8. \A f \in offers : Cardinality(below(f)) \in 0 .. n - 1
  BY <1>3, <1>4, <1>7
<1>. QED BY <1>6, <1>8 DEF below, n

LEMMA EveryPlaceTaken ==
    ASSUME NEW offers, offers \subseteq Families, IsFiniteSet(offers), NEW i \in 1 .. Cardinality(offers)
    PROVE  \E f \in offers : Cardinality(CheaperAmong(offers, f)) = i - 1
<1>. DEFINE n == Cardinality(offers)
            place == [f \in offers |-> Cardinality(CheaperAmong(offers, f))]
<1>1. n \in Nat
  BY FS_CardinalityType
<1>2. place \in [offers -> 0 .. n - 1] /\ \A f, g \in offers : f # g => place[f] # place[g]
  BY PlacesDiffer
<1>3. \A f \in offers : place[f] = Cardinality(CheaperAmong(offers, f))
  OBVIOUS
<1>4. i \in 1 .. n
  OBVIOUS
<1>. HIDE DEF n, place
<1>5. place \in Injection(offers, 0 .. n - 1)
  BY <1>2 DEF Injection, IsInjective
<1>6. IsFiniteSet(0 .. n - 1) /\ Cardinality(0 .. n - 1) = n
  <2>1. 0 \in Int /\ n - 1 \in Int
    BY <1>1
  <2>2. IsFiniteSet(0 .. n - 1) /\ Cardinality(0 .. n - 1) = IF 0 > n - 1 THEN 0 ELSE n - 1 - 0 + 1
    BY <2>1, FS_Interval, Zenon
  <2>. QED BY <1>1, <2>2
<1>7. place \in Surjection(offers, 0 .. n - 1)
  BY <1>5, <1>6, FS_Injection DEF n
<1>8. \A k \in 0 .. n - 1 : \E f \in offers : place[f] = k
  BY <1>7 DEF Surjection
<1>9. i - 1 \in 0 .. n - 1
  BY <1>1, <1>4
<1>. QED BY <1>3, <1>8, <1>9

LEMMA SortedOffersTyped ==
    ASSUME NEW book, NEW m
    PROVE  /\ SortedOffers(book, m) \in Seq(Families)
           /\ Distinct(SortedOffers(book, m), Len(SortedOffers(book, m)))
<1>. DEFINE offers == {f \in Families : book[m][f] # 0}
            n == Cardinality(offers)
            chosen(i) == CHOOSE f \in offers : Cardinality(CheaperAmong(offers, f)) = i - 1
            sorted == SortedOffers(book, m)
<1>1. offers \in SUBSET Families
  OBVIOUS
<1>2. sorted = [i \in 1 .. n |-> chosen(i)]
  BY DEF SortedOffers, CheaperAmong
<1>. HIDE DEF offers, sorted
<1>3. IsFiniteSet(offers) /\ n \in Nat
  BY <1>1, FamilyFacts, FS_Subset, FS_CardinalityType
<1>4. \A i \in 1 .. n : chosen(i) \in Families /\ Cardinality(CheaperAmong(offers, chosen(i))) = i - 1
  BY <1>1, <1>3, EveryPlaceTaken
<1>. HIDE DEF n, chosen
<1>5. sorted \in Seq(Families) /\ Len(sorted) = n
  BY <1>2, <1>3, <1>4
<1>6. ASSUME NEW i \in 1 .. n, NEW j \in 1 .. n, sorted[i] = sorted[j] PROVE i = j
  <2>1. chosen(i) = chosen(j)
    BY <1>2, <1>6
  <2>2. i - 1 = j - 1
    BY <1>4, <2>1
  <2>. QED BY <1>3, <2>2
<1>. QED BY <1>5, <1>6 DEF sorted, Distinct
-----------------------------------------------------------------------------
(* What a trade leaves of an offer: at home the rest of it, elsewhere the  *)
(* same rest or nothing.                                                   *)
Consistent(book, f) ==
    /\ \A n \in Markets : book[n][f] \in {0, book[Origin(f)][f]}

LEMMA TradeConserves ==
    ASSUME NEW book \in [Markets -> [Families -> Int]], NEW f \in Families, Consistent(book, f),
           NEW m \in Markets, NEW t \in Int, Part(t, book[m][f])
    PROVE  LET rest == AfterTrade(book, Origin(f), m, f, t)
           IN  /\ rest \in Int
               /\ Size(rest) + Size(t) = Size(book[Origin(f)][f])
               /\ \A n \in Markets : AfterTrade(book, n, m, f, t) \in {0, rest}
<1>. DEFINE o == Origin(f)
            rest == AfterTrade(book, o, m, f, t)
<1>1. o \in Markets
  BY FamilyFacts
<1>2. OnPath(o, m, o)
  <2>1. AgentsBetween[<<o, o>>] = (Above[o] \ Above[o]) \cup (Above[o] \ Above[o])
    BY <1>1 DEF AgentsBetween
  <2>2. AgentsBetween[<<o, o>>] = {}
    BY <2>1
  <2>3. <<o, m, o>> \in Markets \X Markets \X Markets
    BY <1>1
  <2>4. AgentsBetween[<<m, o>>] \cap AgentsBetween[<<o, o>>] = {}
    BY <2>2
  <2>. QED BY <2>3, <2>4 DEF OnPath, Paths
<1>. HIDE DEF o
<1>3. book[m][f] \in Int /\ book[o][f] \in Int /\ book[m][f] \in {0, book[o][f]}
  BY <1>1 DEF Consistent, o
<1>4. CASE t = 0
  <2>1. rest = book[o][f] /\ \A n \in Markets : AfterTrade(book, n, m, f, t) = book[n][f]
    BY <1>4 DEF AfterTrade
  <2>. QED BY <1>3, <1>4, <2>1 DEF Consistent, Size, o
<1>5. CASE t # 0
  <2>1. book[m][f] = book[o][f]
    BY <1>3, <1>5 DEF Part
  <2>2. rest = Residual(book[m][f], t)
    BY <1>2, <1>5 DEF AfterTrade, o
  <2>3. \A n \in Markets : AfterTrade(book, n, m, f, t) \in {0, Residual(book[m][f], t)}
    BY <1>5 DEF AfterTrade
  <2>4. rest \in Int /\ Size(rest) + Size(t) = Size(book[o][f])
    <3>1. \A e, x \in Int : Part(x, e) => Size(e - x) + Size(x) = Size(e) /\ e - x \in Int
      BY DEF Size, Part
    <3>. QED BY <1>3, <2>1, <2>2, <3>1 DEF Residual
  <2>. QED BY <2>2, <2>3, <2>4 DEF o
<1>. QED BY <1>4, <1>5
-----------------------------------------------------------------------------
(* A share adds up over purchases that are whole shares. *)
LEMMA ShareAdds ==
    /\ Share(0) = 0
    /\ \A x, e \in Nat : /\ Share(x) \in Nat
                         /\ e % Ratio["spot"] = 0 => Share(x + e) = Share(x) + Share(e)
<1>1. Ratio["spot"] \in Nat \ {0}
  OBVIOUS
<1>2. \A r \in Nat \ {0}, x, e \in Nat : e % r = 0 => (x + e) \div r = (x \div r) + (e \div r)
  <2>. SUFFICES ASSUME NEW r \in Nat \ {0}, NEW x \in Nat, NEW e \in Nat, e % r = 0
                PROVE  (x + e) \div r = (x \div r) + (e \div r)
    OBVIOUS
  <2>. DEFINE k == e \div r
              q == x \div r
  <2>1. e = r * k /\ k \in Int
    OBVIOUS
  <2>2. q \in Int /\ r * q <= x /\ x < r * q + r
    OBVIOUS
  <2>. HIDE DEF k, q
  <2>3. x + e = r * (q + k) + (x - r * q)
    BY <2>1, <2>2
  <2>4. (x + e) \div r = q + k
    BY <2>2, <2>3, <2>1
  <2>. QED BY <2>4 DEF k, q
<1>3. \A r \in Nat \ {0}, x \in Nat : x \div r \in Nat /\ 0 \div r = 0
  OBVIOUS
<1>. QED BY <1>1, <1>2, <1>3 DEF Share

(* The trades of an agent leave each offer with what they did not buy of   *)
(* it, and count for the agent what they took off its want.                *)
LEMMA TradingConserves ==
    ASSUME TypeOK, OffersConserved, NEW a \in Agents,
           NEW book \in [Markets -> [Families -> Int]],
           \A f \in Families : Consistent(book, f) /\ book[Origin(f)][f] = listed[Origin(f)][f],
           NEW want \in [Directions -> Nat], TriggerBalancingTrades(a, book, want),
           offered' = offered
    PROVE  /\ listed' \in [Markets -> [Families -> Int]]
           /\ {unmatched', balanced'} \subseteq [Agents -> [Directions -> Nat]]
           /\ sold' \in [Families -> Nat]
           /\ OffersConserved'
           /\ \A b \in Agents, dir \in Directions :
                 balanced'[b][dir] + unmatched'[b][dir]
                     = IF b = a THEN balanced[a][dir] + want[dir] ELSE balanced[b][dir] + unmatched[b][dir]
<1>. DEFINE m == Lower[a]
            after == Purchases(book[m], SortedOffers(book, m), want)
            bought == after.bought
            left == after.want
<1>1. m \in Markets /\ book[m] \in [Families -> Int]
  OBVIOUS
<1>2. after \in Reached(book[m], want)
  BY <1>1, SortedOffersTyped, PurchasesReached
<1>3. /\ bought \in [Families -> Int] /\ \A f \in Families : Part(bought[f], book[m][f])
      /\ left \in [Directions -> Nat] /\ \A dir \in Directions : left[dir] <= want[dir]
  <2>. HIDE DEF after
  <2>. QED BY <1>2 DEF Reached, States
<1>4. /\ listed' = [n \in Markets |-> [f \in Families |-> AfterTrade(book, n, m, f, bought[f])]]
      /\ unmatched' = [unmatched EXCEPT ![a] = left]
      /\ sold' = [f \in Families |-> sold[f] + Size(bought[f])]
      /\ balanced' = [balanced EXCEPT ![a] = [dir \in Directions |-> @[dir] + want[dir] - left[dir]]]
  BY DEF TriggerBalancingTrades
<1>. HIDE DEF m, after
<1>5. /\ sold \in [Families -> Nat] /\ offered \in [Families -> Nat]
      /\ unmatched \in [Agents -> [Directions -> Nat]] /\ balanced \in [Agents -> [Directions -> Nat]]
      /\ listed \in [Markets -> [Families -> Int]]
  BY DEF TypeOK
<1>. HIDE DEF bought, left
<1>6. ASSUME NEW f \in Families
      PROVE  LET rest == AfterTrade(book, Origin(f), m, f, bought[f])
             IN  /\ rest \in Int /\ Size(rest) + Size(bought[f]) = Size(listed[Origin(f)][f])
                 /\ \A n \in Markets : AfterTrade(book, n, m, f, bought[f]) \in {0, rest}
  <2>1. bought[f] \in Int /\ Part(bought[f], book[m][f]) /\ Consistent(book, f)
    BY <1>3
  <2>2. LET rest == AfterTrade(book, Origin(f), m, f, bought[f])
        IN  /\ rest \in Int /\ Size(rest) + Size(bought[f]) = Size(book[Origin(f)][f])
            /\ \A n \in Markets : AfterTrade(book, n, m, f, bought[f]) \in {0, rest}
    BY <1>1, <2>1, TradeConserves
  <2>. QED BY <2>2
<1>7. \A n \in Markets, f \in Families : AfterTrade(book, n, m, f, bought[f]) \in Int
  BY <1>6
<1>8. listed' \in [Markets -> [Families -> Int]]
  BY <1>4, <1>7
<1>9. \A f \in Families : Size(bought[f]) \in Nat
  BY <1>3 DEF Size
<1>10. sold' \in [Families -> Nat]
  BY <1>4, <1>5, <1>9
<1>11. \A dir \in Directions : balanced[a][dir] + want[dir] - left[dir] \in Nat
  BY <1>3, <1>5
<1>12. {unmatched', balanced'} \subseteq [Agents -> [Directions -> Nat]]
  BY <1>3, <1>4, <1>5, <1>11
<1>13. OffersConserved'
  <2>. SUFFICES ASSUME NEW f \in Families
                PROVE  /\ Size(listed'[Origin(f)][f]) + sold'[f] = offered[f]
                       /\ \A n \in Markets : listed'[n][f] \in {0, listed'[Origin(f)][f]}
    BY DEF OffersConserved
  <2>1. Origin(f) \in Markets
    BY FamilyFacts
  <2>2. \A n \in Markets : listed'[n][f] = AfterTrade(book, n, m, f, bought[f])
    BY <1>4
  <2>3. sold'[f] = sold[f] + Size(bought[f])
    BY <1>4
  <2>4. Size(listed[Origin(f)][f]) + sold[f] = offered[f]
    BY DEF OffersConserved
  <2>5. Size(listed'[Origin(f)][f]) \in Int /\ Size(bought[f]) \in Int /\ sold[f] \in Int
    BY <1>5, <1>8, <1>9, <2>1 DEF Size
  <2>6. Size(listed'[Origin(f)][f]) + Size(bought[f]) = Size(listed[Origin(f)][f])
    BY <1>6, <2>1, <2>2
  <2>7. Size(listed'[Origin(f)][f]) + sold'[f] = offered[f]
    BY <2>3, <2>4, <2>5, <2>6
  <2>. QED BY <1>6, <2>1, <2>2, <2>7
<1>14. \A b \in Agents, dir \in Directions :
          balanced'[b][dir] + unmatched'[b][dir]
              = IF b = a THEN balanced[a][dir] + want[dir] ELSE balanced[b][dir] + unmatched[b][dir]
  <2>. SUFFICES ASSUME NEW b \in Agents, NEW dir \in Directions
                PROVE  balanced'[b][dir] + unmatched'[b][dir]
                           = IF b = a THEN balanced[a][dir] + want[dir]
                             ELSE balanced[b][dir] + unmatched[b][dir]
    OBVIOUS
  <2>1. CASE b = a
    BY <2>1, <1>3, <1>4, <1>5
  <2>2. CASE b # a
    BY <2>2, <1>4, <1>5
  <2>. QED BY <2>1, <2>2
<1>. QED BY <1>8, <1>10, <1>12, <1>13, <1>14

(* Copying an offer into a market leaves it where it was.                  *)
LEMMA ForwardedConsistent ==
    ASSUME TypeOK, OffersConserved, NEW a \in Agents, NEW copies \in SUBSET Forwardable(a)
    PROVE  /\ Forwarded(a, copies) \in [Markets -> [Families -> Int]]
           /\ \A f \in Families : /\ Consistent(Forwarded(a, copies), f)
                                  /\ Forwarded(a, copies)[Origin(f)][f] = listed[Origin(f)][f]
<1>. DEFINE book == Forwarded(a, copies)
<1>1. \A m \in Markets, f \in Families :
          book[m][f] = IF <<m, f>> \in copies THEN listed[Opposite(a, m)][f] ELSE listed[m][f]
  BY DEF Forwarded
<1>2. \A m \in Markets : Opposite(a, m) \in Markets
  BY DEF Opposite
<1>3. listed \in [Markets -> [Families -> Int]]
  BY DEF TypeOK
<1>4. book \in [Markets -> [Families -> Int]]
  BY <1>2, <1>3 DEF Forwarded
<1>5. ASSUME NEW f \in Families
      PROVE  Consistent(book, f) /\ book[Origin(f)][f] = listed[Origin(f)][f]
  <2>1. Origin(f) \in Markets
    BY FamilyFacts
  <2>2. \A m \in Markets : listed[m][f] \in {0, listed[Origin(f)][f]}
    BY DEF OffersConserved
  <2>3. <<Origin(f), f>> \in copies =>
            listed[Opposite(a, Origin(f))][f] # 0 /\ listed[Origin(f)][f] = 0
    BY DEF Forwardable
  <2>. HIDE DEF book
  <2>4. <<Origin(f), f>> \notin copies
    BY <1>2, <2>1, <2>2, <2>3
  <2>5. book[Origin(f)][f] = listed[Origin(f)][f]
    BY <1>1, <2>1, <2>4
  <2>6. \A m \in Markets : book[m][f] \in {0, listed[Origin(f)][f]}
    BY <1>1, <1>2, <2>2
  <2>. QED BY <2>5, <2>6 DEF Consistent
<1>. QED BY <1>4, <1>5
-----------------------------------------------------------------------------
LEMMA InitBalancing == Init => BalancingInv
<1>. SUFFICES ASSUME Init PROVE BalancingInv
  OBVIOUS
<1>1. \A f \in Families : Origin(f) \in Markets
  BY FamilyFacts
<1>2. Nothing \in [Families -> Nat] /\ Nothing \in [Families -> Int] /\ \A f \in Families : Nothing[f] = 0
  BY DEF Nothing
<1>3. /\ registry \subseteq Devices /\ flexible \in BOOLEAN /\ twoSided \in BOOLEAN
      /\ open = FALSE /\ trades = 0 /\ requirement = desired
      /\ desired \in [Loads -> Nat] /\ bid \in [Loads -> Nat] /\ \A d \in Loads : bid[d] = 0
      /\ used \in [Storages -> Nat]
  <2>1. registry \subseteq Devices /\ flexible \in BOOLEAN /\ twoSided \in BOOLEAN
    BY BalancingAssumption DEF Init
  <2>2. open = FALSE /\ trades = 0 /\ requirement = desired
    BY DEF Init
  <2>3. desired \in [Loads -> Nat]
    BY DEF Init
  <2>4. bid \in [Loads -> Nat] /\ \A d \in Loads : bid[d] = 0
    BY DEF Init
  <2>5. used \in [Storages -> Nat]
    BY DEF Init
  <2>. QED BY <2>1, <2>2, <2>3, <2>4, <2>5, Zenon
<1>4. /\ listed = [m \in Markets |-> Nothing] /\ offered = Nothing /\ sold = Nothing
      /\ due \in [Agents -> Nat] /\ imported \in [Agents -> Nat]
      /\ \A a \in Agents : due[a] = 0 /\ imported[a] = 0
      /\ unmatched \in [Agents -> [Directions -> Nat]] /\ balanced \in [Agents -> [Directions -> Nat]]
      /\ \A a \in Agents, dir \in Directions : unmatched[a][dir] = 0 /\ balanced[a][dir] = 0
  <2>1. listed = [m \in Markets |-> Nothing] /\ offered = Nothing /\ sold = Nothing
    BY DEF Init
  <2>2. due = [a \in Agents |-> 0] /\ imported = due
    BY DEF Init
  <2>3. unmatched = [a \in Agents |-> [dir \in Directions |-> 0]] /\ balanced = unmatched
    BY DEF Init
  <2>4. /\ due \in [Agents -> Nat] /\ imported \in [Agents -> Nat]
        /\ \A a \in Agents : due[a] = 0 /\ imported[a] = 0
    BY <2>2
  <2>5. /\ unmatched \in [Agents -> [Directions -> Nat]] /\ balanced \in [Agents -> [Directions -> Nat]]
        /\ \A a \in Agents, dir \in Directions : unmatched[a][dir] = 0 /\ balanced[a][dir] = 0
    BY <2>3
  <2>. QED BY <2>1, <2>4, <2>5, Zenon
<1>5. TypeOK
  <2>1. open \in BOOLEAN /\ trades \in 0 .. MaxTrades
    <3>1. trades = 0 /\ open = FALSE
      BY <1>3
    <3>2. 0 \in 0 .. MaxTrades
      OBVIOUS
    <3>. QED BY <3>1, <3>2, Zenon
  <2>2. {desired, requirement, bid} \subseteq [Loads -> Nat]
    BY <1>3
  <2>3. {unmatched, balanced} \subseteq [Agents -> [Directions -> Nat]]
    BY <1>4
  <2>4. listed \in [Markets -> [Families -> Int]] /\ {offered, sold} \subseteq [Families -> Nat]
    BY <1>2, <1>4
  <2>. QED BY <1>3, <1>4, <2>1, <2>2, <2>3, <2>4, Zenon DEF TypeOK
<1>6. Unopened /\ Unoffered /\ BidsOnlyTwoSided /\ BidsLeaveTheCommitment
  <2>1. Unopened /\ BidsOnlyTwoSided /\ BidsLeaveTheCommitment
    BY <1>2, <1>3, <1>4 DEF Unopened, BidsOnlyTwoSided, BidsLeaveTheCommitment
  <2>2. Unoffered
    BY <1>2, <1>3, <1>4 DEF Unoffered, Families
  <2>. QED BY <2>1, <2>2
<1>7. OffersConserved
  BY <1>1, <1>2, <1>4 DEF OffersConserved, Size
<1>8. SpotTradesBalanced
  BY <1>4, ShareAdds DEF SpotTradesBalanced
<1>. QED BY <1>5, <1>6, <1>7, <1>8 DEF BalancingInv

(* What a device offers for the cycle is an integer, and a load offers     *)
(* only to ramp up.                                                        *)
LEMMA CycleEnergyFacts ==
    ASSUME TypeOK
    PROVE  /\ \A d \in Loads : RampUp(d) \in Nat /\ RampUp(d) <= desired[d]
           /\ \A f \in Families : CycleEnergy(f) \in Int /\ Size(CycleEnergy(f)) \in Nat
           /\ \A f \in Families : f[1] \in Loads /\ f[2] = "upward" => CycleEnergy(f) = 0
<1>1. Ratio["demand"] \in Nat \ {0} /\ Ratio["supply"] \in Nat \ {0}
  OBVIOUS
<1>2. \A r \in Nat \ {0}, x \in Nat : x \div r \in Nat /\ x \div r <= x
  OBVIOUS
<1>3. \A r \in Nat \ {0}, x \in Int : x \div r \in Int
  OBVIOUS
<1>4. desired \in [Loads -> Nat] /\ used \in [Storages -> Nat]
  BY DEF TypeOK
<1>5. ASSUME NEW d \in Loads PROVE RampUp(d) \in Nat /\ RampUp(d) <= desired[d]
  BY <1>1, <1>2, <1>4 DEF RampUp
<1>6. Wh \in Nat /\ Capacity \in Nat /\ PlantEnergy \in Nat
  OBVIOUS
<1>7. ASSUME NEW d \in Loads PROVE - RampUp(d) * Wh \in Int
  BY <1>5, <1>6
<1>8. ASSUME NEW d \in Storages
      PROVE  - ((Capacity - used[d]) \div Ratio["demand"]) \in Int /\ used[d] \div Ratio["supply"] \in Int
  BY <1>1, <1>3, <1>4, <1>6
<1>9. ASSUME NEW d \in Devices
      PROVE  /\ CycleOffers(d)["downward"] \in Int /\ CycleOffers(d)["upward"] \in Int
             /\ d \in Loads => CycleOffers(d)["upward"] = 0
  <2>1. CASE ~IsEligible(d)
    BY <2>1 DEF CycleOffers, Directions
  <2>2. CASE IsEligible(d) /\ d \in Loads
    <3>1. CycleOffers(d) = [downward |-> - RampUp(d) * Wh, upward |-> 0]
      BY <2>2, BalancingAssumption DEF CycleOffers
    <3>. QED BY <2>2, <3>1, <1>7
  <2>3. CASE IsEligible(d) /\ d \in Storages
    <3>1. d \notin Loads
      BY <2>3, BalancingAssumption
    <3>2. CycleOffers(d) = StorageOffers(d)
      BY <2>3, <3>1, BalancingAssumption DEF CycleOffers
    <3>. QED BY <2>3, <3>1, <3>2, <1>8 DEF StorageOffers
  <2>4. CASE IsEligible(d) /\ d \in Plants
    <3>1. d \notin Loads /\ d \notin Storages
      BY <2>4, BalancingAssumption
    <3>2. CycleOffers(d) = PlantOffers
      BY <2>4, <3>1, BalancingAssumption DEF CycleOffers
    <3>. QED BY <3>1, <3>2, <1>6 DEF PlantOffers
  <2>. QED BY <2>1, <2>2, <2>3, <2>4 DEF Devices
<1>10. ASSUME NEW f \in Families
       PROVE  CycleEnergy(f) \in Int /\ (f[1] \in Loads /\ f[2] = "upward" => CycleEnergy(f) = 0)
  <2>1. f[1] \in Devices /\ f[2] \in {"upward", "downward"}
    BY FamilyFacts DEF Directions
  <2>. QED BY <2>1, <1>9 DEF CycleEnergy
<1>11. \A f \in Families : Size(CycleEnergy(f)) \in Nat
  BY <1>10 DEF Size
<1>. QED BY <1>5, <1>10, <1>11

LEMMA OpenSlotStep == BalancingInv /\ OpenSlot => BalancingInv'
<1>. SUFFICES ASSUME BalancingInv, OpenSlot PROVE BalancingInv'
  OBVIOUS
<1>1. TypeOK
  BY DEF BalancingInv
<1>2. /\ requirement = desired /\ trades = 0 /\ \A f \in Families : sold[f] = 0
      /\ \A a \in Agents : due[a] = 0
  BY DEF BalancingInv, Unopened, OpenSlot
<1>3. /\ desired \in [Loads -> Nat] /\ requirement \in [Loads -> Nat]
      /\ sold \in [Families -> Nat]
  BY <1>1 DEF TypeOK
<1>4. /\ open' = TRUE
      /\ bid' = [d \in Loads |-> IF twoSided THEN FirstBid(d) ELSE 0]
      /\ requirement' = [d \in Loads |-> requirement[d] - RampUp(d)]
      /\ listed' = [m \in Markets |-> [f \in Families |-> IF m = Origin(f) THEN CycleEnergy(f) ELSE 0]]
      /\ offered' = [f \in Families |-> Size(CycleEnergy(f))]
  BY DEF OpenSlot
<1>5. /\ UNCHANGED <<registry, flexible, twoSided, desired, used, trades, imported>>
      /\ UNCHANGED <<unmatched, due, sold, balanced>>
  BY DEF OpenSlot, options
<1>6. \A d \in Loads : RampUp(d) \in Nat /\ RampUp(d) <= desired[d]
  BY <1>1, CycleEnergyFacts
<1>7. \A f \in Families : CycleEnergy(f) \in Int /\ Size(CycleEnergy(f)) \in Nat
  BY <1>1, CycleEnergyFacts
<1>8. \A d \in Loads : requirement[d] - RampUp(d) \in Nat
  BY <1>2, <1>3, <1>6
<1>9. requirement' \in [Loads -> Nat] /\ bid' \in [Loads -> Nat]
  BY <1>4, <1>8 DEF FirstBid
<1>10. listed' \in [Markets -> [Families -> Int]] /\ offered' \in [Families -> Nat]
  BY <1>4, <1>7
<1>11. TypeOK'
  <2>1. {desired', requirement', bid'} \subseteq [Loads -> Nat]
    BY <1>3, <1>5, <1>9
  <2>2. {offered', sold'} \subseteq [Families -> Nat]
    BY <1>3, <1>5, <1>10
  <2>3. {unmatched', balanced'} \subseteq [Agents -> [Directions -> Nat]]
    BY <1>1, <1>5, Zenon DEF TypeOK
  <2>4. registry' \subseteq Devices /\ flexible' \in BOOLEAN /\ twoSided' \in BOOLEAN /\ open' \in BOOLEAN
    BY <1>1, <1>4, <1>5, Zenon DEF TypeOK
  <2>5. used' \in [Storages -> Nat] /\ trades' \in 0 .. MaxTrades
    BY <1>1, <1>5, Zenon DEF TypeOK
  <2>6. due' \in [Agents -> Nat] /\ imported' \in [Agents -> Nat]
    BY <1>1, <1>5, Zenon DEF TypeOK
  <2>. QED BY <1>10, <2>1, <2>2, <2>3, <2>4, <2>5, <2>6, Zenon DEF TypeOK
<1>12. Unopened'
  BY <1>4 DEF Unopened
<1>13. Unoffered'
  <2>. SUFFICES ASSUME NEW d \in Loads, NEW k \in 1 .. MaxTrades, k > trades'
                PROVE  offered'[<<d, "upward", k>>] = 0
    BY DEF Unoffered
  <2>. DEFINE f == <<d, "upward", k>>
  <2>1. f \in Families
    BY DEF Families
  <2>2. f[1] \in Loads /\ f[2] = "upward"
    OBVIOUS
  <2>. HIDE DEF f
  <2>3. CycleEnergy(f) = 0
    BY <1>1, <2>1, <2>2, CycleEnergyFacts
  <2>4. offered'[f] = 0
    BY <1>4, <2>1, <2>3 DEF Size
  <2>. QED BY <2>4 DEF f
<1>14. BidsOnlyTwoSided'
  <2>1. twoSided' = twoSided
    BY <1>5, Zenon
  <2>2. CASE twoSided
    BY <2>1, <2>2, Zenon DEF BidsOnlyTwoSided
  <2>3. CASE ~twoSided
    <3>1. \A d \in Loads : bid'[d] = 0
      BY <2>3, <1>4
    <3>. QED BY <3>1, Zenon DEF BidsOnlyTwoSided
  <2>. QED BY <2>2, <2>3
<1>15. OffersConserved'
  <2>. SUFFICES ASSUME NEW f \in Families
                PROVE  /\ Size(listed'[Origin(f)][f]) + sold'[f] = offered'[f]
                       /\ \A m \in Markets : listed'[m][f] \in {0, listed'[Origin(f)][f]}
    BY DEF OffersConserved
  <2>1. Origin(f) \in Markets
    BY FamilyFacts
  <2>2. listed'[Origin(f)][f] = CycleEnergy(f) /\ \A m \in Markets : listed'[m][f] \in {0, CycleEnergy(f)}
    BY <1>4, <2>1
  <2>3. sold'[f] = 0 /\ offered'[f] = Size(CycleEnergy(f))
    BY <1>2, <1>4, <1>5
  <2>. QED BY <1>7, <2>2, <2>3
<1>16. SpotTradesBalanced'
  BY <1>5 DEF BalancingInv, SpotTradesBalanced
<1>17. BidsLeaveTheCommitment'
  <2>1. \A d \in Loads : bid'[d] <= requirement'[d]
    BY <1>4, <1>8 DEF FirstBid
  <2>. QED BY <2>1 DEF BidsLeaveTheCommitment
<1>. QED BY <1>11, <1>12, <1>13, <1>14, <1>15, <1>16, <1>17 DEF BalancingInv

(* What a step that only trades in the balancing market leaves alone.      *)
LEMMA TradingStep ==
    ASSUME BalancingInv, NEW a \in Agents, NEW book \in [Markets -> [Families -> Int]],
           \A f \in Families : Consistent(book, f) /\ book[Origin(f)][f] = listed[Origin(f)][f],
           NEW want \in [Directions -> Nat], TriggerBalancingTrades(a, book, want),
           UNCHANGED <<options, spotTrades, open, offered>>,
           due' \in [Agents -> Nat], \A b \in Agents : b # a => due'[b] = due[b],
           \A dir \in Directions : want[dir] + Share(due'[a]) = unmatched[a][dir] + Share(due[a]),
           ~open => due' = due /\ \A f \in Families : sold'[f] = 0
    PROVE  BalancingInv'
<1>1. TypeOK /\ OffersConserved /\ SpotTradesBalanced
  BY DEF BalancingInv
<1>2. /\ UNCHANGED <<registry, flexible, twoSided, desired, requirement, bid>>
      /\ UNCHANGED <<used, trades, imported, open, offered>>
  BY DEF options, spotTrades
<1>3. /\ listed' \in [Markets -> [Families -> Int]]
      /\ {unmatched', balanced'} \subseteq [Agents -> [Directions -> Nat]]
      /\ sold' \in [Families -> Nat]
      /\ OffersConserved'
  BY <1>1, <1>2, TradingConserves
<1>4. \A b \in Agents, dir \in Directions :
          balanced'[b][dir] + unmatched'[b][dir]
              = IF b = a THEN balanced[a][dir] + want[dir] ELSE balanced[b][dir] + unmatched[b][dir]
  BY <1>1, <1>2, TradingConserves
<1>5. TypeOK'
  <2>1. registry' \subseteq Devices /\ flexible' \in BOOLEAN /\ twoSided' \in BOOLEAN /\ open' \in BOOLEAN
    BY <1>1, <1>2, Zenon DEF TypeOK
  <2>2. {desired', requirement', bid'} \subseteq [Loads -> Nat] /\ used' \in [Storages -> Nat]
    BY <1>1, <1>2, Zenon DEF TypeOK
  <2>3. trades' \in 0 .. MaxTrades /\ imported' \in [Agents -> Nat]
    BY <1>1, <1>2, Zenon DEF TypeOK
  <2>4. offered \in [Families -> Nat]
    BY <1>1 DEF TypeOK
  <2>5. {offered', sold'} \subseteq [Families -> Nat]
    BY <1>2, <1>3, <2>4
  <2>. QED BY <1>3, <2>1, <2>2, <2>3, <2>5, Zenon DEF TypeOK
<1>6. Unopened' /\ Unoffered' /\ BidsOnlyTwoSided' /\ BidsLeaveTheCommitment'
  <2>5. open' = open /\ (open = TRUE \/ open = FALSE)
    BY <1>1, <1>2 DEF TypeOK
  <2>1. Unopened'
    <3>1. CASE open = TRUE
      <4>1. open' = TRUE
        BY <3>1, <2>5
      <4>. QED BY <4>1 DEF Unopened
    <3>2. CASE open = FALSE
      <4>1. /\ requirement = desired /\ trades = 0
            /\ \A b \in Agents : due[b] = 0
        BY <3>2 DEF Unopened, BalancingInv
      <4>2. due' = due /\ \A f \in Families : sold'[f] = 0
        BY <3>2
      <4>. QED BY <4>1, <4>2, <1>2 DEF Unopened
    <3>. QED BY <2>5, <3>1, <3>2
  <2>2. Unoffered'
    BY <1>2 DEF Unoffered, BalancingInv
  <2>3. BidsOnlyTwoSided'
    BY <1>2, Zenon DEF BidsOnlyTwoSided, BalancingInv
  <2>4. BidsLeaveTheCommitment'
    <3>1. bid' = bid /\ requirement' = requirement
      BY <1>2
    <3>2. CASE open = TRUE
      <4>1. \A d \in Loads : bid[d] <= requirement[d]
        BY <3>2 DEF BidsLeaveTheCommitment, BalancingInv
      <4>2. \A d \in Loads : bid'[d] <= requirement'[d]
        BY <3>1, <4>1, Zenon
      <4>. QED BY <4>2, Zenon DEF BidsLeaveTheCommitment
    <3>3. CASE open = FALSE
      <4>1. open' = FALSE
        BY <3>3, <2>5
      <4>. QED BY <4>1 DEF BidsLeaveTheCommitment
    <3>. QED BY <2>5, <3>2, <3>3
  <2>. QED BY <2>1, <2>2, <2>3, <2>4
<1>7. SpotTradesBalanced'
  <2>. SUFFICES ASSUME NEW b \in Agents, NEW dir \in Directions
                PROVE  balanced'[b][dir] + unmatched'[b][dir] + Share(due'[b]) = Share(imported[b])
    BY <1>2 DEF SpotTradesBalanced
  <2>1. balanced[b][dir] + unmatched[b][dir] + Share(due[b]) = Share(imported[b])
    BY <1>1 DEF SpotTradesBalanced
  <2>2. /\ due \in [Agents -> Nat] /\ imported \in [Agents -> Nat]
        /\ unmatched \in [Agents -> [Directions -> Nat]] /\ balanced \in [Agents -> [Directions -> Nat]]
    BY <1>1 DEF TypeOK
  <2>3. Share(due[b]) \in Nat /\ Share(due'[b]) \in Nat
    BY <2>2, ShareAdds
  <2>4. CASE b = a
    <3>1. balanced'[a][dir] + unmatched'[a][dir] = balanced[a][dir] + want[dir]
      BY <1>4
    <3>2. want[dir] + Share(due'[a]) = unmatched[a][dir] + Share(due[a])
      OBVIOUS
    <3>3. balanced'[a][dir] \in Nat /\ unmatched'[a][dir] \in Nat /\ balanced[a][dir] \in Nat
          /\ unmatched[a][dir] \in Nat /\ want[dir] \in Nat
      BY <1>3, <2>2
    <3>4. Share(due[a]) \in Nat /\ Share(due'[a]) \in Nat /\ Share(imported[a]) \in Nat
      BY <2>2, ShareAdds
    <3>5. balanced[a][dir] + unmatched[a][dir] + Share(due[a]) = Share(imported[a])
      BY <2>1, <2>4
    <3>6. balanced'[a][dir] + unmatched'[a][dir] + Share(due'[a]) = Share(imported[a])
      <4>1. PICK x \in Nat, y \in Nat, s \in Nat : x = balanced'[a][dir] /\ y = unmatched'[a][dir] /\ s = Share(due'[a])
        BY <3>3, <3>4
      <4>2. PICK u \in Nat, v \in Nat, z \in Nat : u = balanced[a][dir] /\ v = unmatched[a][dir] /\ z = Share(due[a])
        BY <3>3, <3>4
      <4>3. PICK w \in Nat, i \in Nat : w = want[dir] /\ i = Share(imported[a])
        BY <3>3, <3>4
      <4>4. x + y = u + w
        BY <3>1, <4>1, <4>2, <4>3, Zenon
      <4>5. w + s = v + z
        BY <3>2, <4>1, <4>2, <4>3, Zenon
      <4>6. u + v + z = i
        BY <3>5, <4>2, <4>3, Zenon
      <4>7. x + y + s = i
        BY <4>4, <4>5, <4>6
      <4>. QED BY <4>1, <4>3, <4>7, Zenon
    <3>. QED BY <2>4, <3>6
  <2>5. CASE b # a
    BY <2>1, <2>2, <2>3, <2>5, <1>3, <1>4
  <2>. QED BY <2>4, <2>5
<1>. QED BY <1>3, <1>5, <1>6, <1>7 DEF BalancingInv

LEMMA EventOfferTradedStep ==
    ASSUME BalancingInv, NEW a \in Agents, EventOfferTraded(a) PROVE BalancingInv'
<1>1. TypeOK /\ OffersConserved
  BY DEF BalancingInv
<1>2. /\ due[a] > 0 /\ TriggerBalancingTrades(a, listed, BalancingEnergy(a))
      /\ due' = [due EXCEPT ![a] = 0]
      /\ UNCHANGED <<options, spotTrades, open, offered>>
  BY DEF EventOfferTraded
<1>3. /\ listed \in [Markets -> [Families -> Int]] /\ due \in [Agents -> Nat]
      /\ unmatched \in [Agents -> [Directions -> Nat]]
  BY <1>1 DEF TypeOK
<1>4. \A f \in Families : Consistent(listed, f) /\ listed[Origin(f)][f] = listed[Origin(f)][f]
  BY <1>1 DEF Consistent, OffersConserved
<1>5. Share(due[a]) \in Nat
  BY <1>3, ShareAdds
<1>6. /\ BalancingEnergy(a) \in [Directions -> Nat]
      /\ \A dir \in Directions : BalancingEnergy(a)[dir] = Share(due[a]) + unmatched[a][dir]
  BY <1>3, <1>5 DEF BalancingEnergy
<1>7. due' \in [Agents -> Nat] /\ due'[a] = 0 /\ \A b \in Agents : b # a => due'[b] = due[b]
  BY <1>2, <1>3
<1>8. \A dir \in Directions : BalancingEnergy(a)[dir] + Share(due'[a]) = unmatched[a][dir] + Share(due[a])
  BY <1>3, <1>5, <1>6, <1>7, ShareAdds
<1>9. open
  <2>1. CASE ~open
    <3>1. due[a] = 0
      BY <2>1, Zenon DEF BalancingInv, Unopened
    <3>. QED BY <3>1, <1>2
  <2>. QED BY <2>1
<1>. QED BY <1>2, <1>3, <1>4, <1>6, <1>7, <1>8, <1>9, TradingStep

LEMMA EventTickStep ==
    ASSUME BalancingInv, NEW a \in Agents, EventTick(a) PROVE BalancingInv'
<1>1. TypeOK /\ OffersConserved
  BY DEF BalancingInv
<1>2. open /\ due' = due /\ UNCHANGED <<options, spotTrades, open, offered>>
  BY DEF EventTick
<1>3. PICK copies \in SUBSET Forwardable(a) :
          TriggerBalancingTrades(a, Forwarded(a, copies), unmatched[a])
  BY DEF EventTick
<1>4. /\ Forwarded(a, copies) \in [Markets -> [Families -> Int]]
      /\ \A f \in Families : /\ Consistent(Forwarded(a, copies), f)
                             /\ Forwarded(a, copies)[Origin(f)][f] = listed[Origin(f)][f]
  BY <1>1, ForwardedConsistent
<1>5. due \in [Agents -> Nat] /\ unmatched[a] \in [Directions -> Nat]
  BY <1>1 DEF TypeOK
<1>6. /\ due' \in [Agents -> Nat] /\ \A b \in Agents : b # a => due'[b] = due[b]
      /\ \A dir \in Directions : unmatched[a][dir] + Share(due'[a]) = unmatched[a][dir] + Share(due[a])
  BY <1>2, <1>5
<1>. QED BY <1>2, <1>3, <1>4, <1>5, <1>6, TradingStep

LEMMA SpotTradeStep ==
    ASSUME BalancingInv, NEW d \in Loads, NEW e \in 1 .. MaxDesired, NEW m \in Markets,
           e % Ratio["spot"] = 0, SpotTrade(d, e, m)
    PROVE  BalancingInv'
<1>. DEFINE f == <<d, "upward", trades + 1>>
            energy == RampDown(d, e)
<1>1. TypeOK /\ OffersConserved /\ SpotTradesBalanced
  BY DEF BalancingInv
<1>2. /\ open /\ Idle /\ trades < MaxTrades
      /\ e <= (IF twoSided THEN bid[d] ELSE requirement[d])
      /\ trades' = trades + 1
      /\ requirement' = [requirement EXCEPT ![d] = @ - e]
      /\ bid' = [bid EXCEPT ![d] = IF twoSided THEN @ - e ELSE @]
      /\ listed' = [listed EXCEPT ![Origin(f)][f] = energy]
      /\ offered' = [offered EXCEPT ![f] = energy]
      /\ due' = [a \in Agents |-> IF a \in AgentsBetween[<<Home[d], m>>] THEN e ELSE 0]
      /\ imported' = [a \in Agents |-> imported[a] + due'[a]]
  BY DEF SpotTrade, Offered
<1>3. /\ UNCHANGED <<registry, flexible, twoSided, desired, used>>
      /\ UNCHANGED <<open, unmatched, sold, balanced>>
  BY DEF SpotTrade, options
<1>4. /\ desired \in [Loads -> Nat] /\ requirement \in [Loads -> Nat] /\ bid \in [Loads -> Nat]
      /\ trades \in Nat /\ MaxTrades \in Nat /\ listed \in [Markets -> [Families -> Int]]
      /\ due \in [Agents -> Nat] /\ imported \in [Agents -> Nat]
      /\ offered \in [Families -> Nat] /\ sold \in [Families -> Nat]
  BY <1>1 DEF TypeOK
<1>5. e \in Nat /\ energy \in Nat
  <2>1. \A r \in Nat \ {0}, x \in Nat : x \div r \in Nat
    OBVIOUS
  <2>2. e \in Nat /\ Ratio["supply"] \in Nat \ {0}
    OBVIOUS
  <2>. QED BY <2>1, <2>2 DEF RampDown
<1>6. f \in Families /\ trades + 1 \in 1 .. MaxTrades
  BY <1>2, <1>4 DEF Families
<1>7. Origin(f) \in Markets
  BY <1>6, FamilyFacts
<1>8. offered[f] = 0 /\ sold[f] = 0 /\ \A n \in Markets : listed[n][f] = 0
  <2>1. offered[f] = 0
    BY <1>2, <1>4, <1>6 DEF BalancingInv, Unoffered
  <2>2. /\ Size(listed[Origin(f)][f]) + sold[f] = offered[f]
        /\ \A n \in Markets : listed[n][f] \in {0, listed[Origin(f)][f]}
    BY <1>1, <1>6 DEF OffersConserved
  <2>3. sold[f] \in Nat /\ listed[Origin(f)][f] \in Int
    BY <1>4, <1>6, <1>7
  <2>. HIDE DEF f
  <2>4. listed[Origin(f)][f] = 0 /\ sold[f] = 0
    BY <2>1, <2>2, <2>3 DEF Size
  <2>. QED BY <2>1, <2>2, <2>4
<1>9. bid[d] <= requirement[d] /\ (~twoSided => bid[d] = 0)
  BY <1>2, Zenon DEF BalancingInv, BidsLeaveTheCommitment, BidsOnlyTwoSided
<1>10. /\ requirement[d] - e \in Nat
       /\ (IF twoSided THEN bid[d] - e ELSE bid[d]) \in Nat
       /\ (IF twoSided THEN bid[d] - e ELSE bid[d]) <= requirement[d] - e
  <2>1. CASE twoSided
    BY <2>1, <1>2, <1>4, <1>5, <1>9
  <2>2. CASE ~twoSided
    BY <2>2, <1>2, <1>4, <1>5, <1>9
  <2>. QED BY <2>1, <2>2
<1>. HIDE DEF f, energy
<1>11. requirement' \in [Loads -> Nat] /\ bid' \in [Loads -> Nat]
  BY <1>2, <1>4, <1>10
<1>12. /\ listed' \in [Markets -> [Families -> Int]] /\ offered' \in [Families -> Nat]
       /\ due' \in [Agents -> Nat] /\ imported' \in [Agents -> Nat]
  <2>1. listed' \in [Markets -> [Families -> Int]] /\ offered' \in [Families -> Nat]
    BY <1>2, <1>4, <1>5, <1>6, <1>7
  <2>2. due' \in [Agents -> Nat]
    BY <1>2, <1>5
  <2>3. imported' \in [Agents -> Nat]
    BY <1>2, <1>4, <2>2
  <2>. QED BY <2>1, <2>2, <2>3
<1>13. TypeOK'
  <2>1. registry' \subseteq Devices /\ flexible' \in BOOLEAN /\ twoSided' \in BOOLEAN /\ open' \in BOOLEAN
    BY <1>1, <1>3, Zenon DEF TypeOK
  <2>2. {desired', requirement', bid'} \subseteq [Loads -> Nat]
    BY <1>3, <1>4, <1>11
  <2>3. used' \in [Storages -> Nat]
    BY <1>1, <1>3, Zenon DEF TypeOK
  <2>4. {unmatched', balanced'} \subseteq [Agents -> [Directions -> Nat]]
    BY <1>1, <1>3, Zenon DEF TypeOK
  <2>5. {offered', sold'} \subseteq [Families -> Nat]
    BY <1>3, <1>4, <1>12
  <2>6. trades' \in 0 .. MaxTrades
    BY <1>2, <1>4
  <2>. QED BY <1>12, <2>1, <2>2, <2>3, <2>4, <2>5, <2>6, Zenon DEF TypeOK
<1>14. Unopened'
  <2>1. open'
    BY <1>2, <1>3
  <2>. QED BY <2>1, Zenon DEF Unopened
<1>15. Unoffered'
  <2>. SUFFICES ASSUME NEW c \in Loads, NEW k \in 1 .. MaxTrades, k > trades'
                PROVE  offered'[<<c, "upward", k>>] = 0
    BY DEF Unoffered
  <2>1. <<c, "upward", k>> # f /\ k > trades
    BY <1>2, <1>4 DEF f
  <2>2. offered[<<c, "upward", k>>] = 0
    BY <2>1 DEF BalancingInv, Unoffered
  <2>. QED BY <1>2, <1>4, <2>1, <2>2 DEF Families
<1>16. BidsOnlyTwoSided'
  <2>1. CASE twoSided
    BY <2>1, <1>3, Zenon DEF BidsOnlyTwoSided
  <2>2. CASE ~twoSided
    <3>1. \A c \in Loads : bid[c] = 0
      BY <2>2, Zenon DEF BalancingInv, BidsOnlyTwoSided
    <3>2. \A c \in Loads : bid'[c] = 0
      BY <2>2, <3>1, <1>2, <1>4
    <3>. QED BY <3>2, Zenon DEF BidsOnlyTwoSided
  <2>. QED BY <2>1, <2>2
<1>17. OffersConserved'
  <2>. SUFFICES ASSUME NEW g \in Families
                PROVE  /\ Size(listed'[Origin(g)][g]) + sold'[g] = offered'[g]
                       /\ \A n \in Markets : listed'[n][g] \in {0, listed'[Origin(g)][g]}
    BY DEF OffersConserved
  <2>1. CASE g = f
    <3>1. listed'[Origin(f)][f] = energy
      BY <1>2, <1>4, <1>6, <1>7
    <3>2. \A n \in Markets : listed'[n][f] \in {0, energy}
      BY <1>2, <1>4, <1>6, <1>7, <1>8
    <3>3. offered'[f] = energy /\ sold'[f] = 0
      BY <1>2, <1>3, <1>4, <1>6, <1>8
    <3>. QED BY <2>1, <3>1, <3>2, <3>3, <1>5 DEF Size
  <2>2. CASE g # f
    <3>1. \A n \in Markets : listed'[n][g] = listed[n][g]
      BY <2>2, <1>2, <1>4, <1>6, <1>7
    <3>2. offered'[g] = offered[g] /\ sold'[g] = sold[g]
      BY <2>2, <1>2, <1>3, <1>4
    <3>3. Origin(g) \in Markets
      BY FamilyFacts
    <3>. QED BY <1>1, <3>1, <3>2, <3>3 DEF OffersConserved
  <2>. QED BY <2>1, <2>2
<1>18. SpotTradesBalanced'
  <2>. SUFFICES ASSUME NEW a \in Agents, NEW dir \in Directions
                PROVE  balanced[a][dir] + unmatched[a][dir] + Share(due'[a]) = Share(imported'[a])
    BY <1>3 DEF SpotTradesBalanced
  <2>1. balanced[a][dir] + unmatched[a][dir] + Share(due[a]) = Share(imported[a])
    BY <1>1 DEF SpotTradesBalanced
  <2>2. due[a] = 0
    BY <1>2 DEF Idle
  <2>3. due'[a] \in {0, e} /\ imported'[a] = imported[a] + due'[a] /\ imported[a] \in Nat
    BY <1>2, <1>4
  <2>4. Share(0) = 0
    BY ShareAdds
  <2>5. CASE due'[a] = 0
    <3>1. imported'[a] = imported[a]
      BY <2>3, <2>5
    <3>. QED BY <2>1, <2>2, <2>5, <3>1
  <2>6. CASE due'[a] = e
    <3>1. Share(imported'[a]) = Share(imported[a]) + Share(e) /\ Share(e) \in Nat /\ Share(imported[a]) \in Nat
      BY <2>3, <2>6, <1>5, ShareAdds
    <3>2. balanced[a][dir] \in Nat /\ unmatched[a][dir] \in Nat
      BY <1>1 DEF TypeOK
    <3>. QED BY <2>1, <2>2, <2>4, <2>6, <3>1, <3>2
  <2>. QED BY <2>3, <2>5, <2>6
<1>19. BidsLeaveTheCommitment'
  <2>1. \A c \in Loads : bid[c] <= requirement[c]
    BY <1>2, Zenon DEF BalancingInv, BidsLeaveTheCommitment
  <2>2. \A c \in Loads : bid'[c] <= requirement'[c]
    BY <2>1, <1>2, <1>4, <1>10
  <2>. QED BY <2>2, Zenon DEF BidsLeaveTheCommitment
<1>. QED BY <1>13, <1>14, <1>15, <1>16, <1>17, <1>18, <1>19, Zenon DEF BalancingInv

LEMMA StepBalancing == BalancingInv /\ [Next]_vars => BalancingInv'
<1>. SUFFICES ASSUME BalancingInv, [Next]_vars PROVE BalancingInv'
  OBVIOUS
<1>1. CASE OpenSlot
  BY <1>1, OpenSlotStep
<1>2. ASSUME NEW d \in Loads, NEW e \in 1 .. MaxDesired, NEW m \in Markets,
             e % Ratio["spot"] = 0, SpotTrade(d, e, m)
      PROVE  BalancingInv'
  BY <1>2, SpotTradeStep
<1>3. ASSUME NEW a \in Agents, EventOfferTraded(a) PROVE BalancingInv'
  BY <1>3, EventOfferTradedStep
<1>4. ASSUME NEW a \in Agents, EventTick(a) PROVE BalancingInv'
  BY <1>4, EventTickStep
<1>5. CASE UNCHANGED vars
  BY <1>5 DEF vars, options, spotTrades, BalancingInv, TypeOK, Unopened, Unoffered, BidsOnlyTwoSided,
              OffersConserved, SpotTradesBalanced, BidsLeaveTheCommitment
<1>. QED BY <1>1, <1>2, <1>3, <1>4, <1>5 DEF Next
-----------------------------------------------------------------------------
LEMMA PurchasersFinite == IsFiniteSet(Agents \X Directions)
<1>1. IsFiniteSet({"upward"})
  BY FS_Singleton
<1>2. IsFiniteSet({"upward"} \cup {"downward"})
  BY <1>1, FS_AddElement
<1>3. Directions = {"upward"} \cup {"downward"}
  BY DEF Directions
<1>. QED BY <1>2, <1>3, FS_Product, BalancingAssumption

(* The trades of an agent add as much to what the agents have bought as to *)
(* what the devices have sold.                                             *)
LEMMA TradingCounts ==
    ASSUME TypeOK, BoughtIsSold, NEW a \in Agents, NEW book \in [Markets -> [Families -> Int]],
           NEW want \in [Directions -> Nat], TriggerBalancingTrades(a, book, want)
    PROVE  BoughtIsSold'
<1>. DEFINE m == Lower[a]
            after == Purchases(book[m], SortedOffers(book, m), want)
            bought == after.bought
            left == after.want
            D == Agents \X Directions
            now == [p \in D |-> balanced[p[1]][p[2]]]
            next == [p \in D |-> balanced'[p[1]][p[2]]]
            up == want["upward"] - left["upward"]
            down == want["downward"] - left["downward"]
            mid == [p \in D |-> IF p = <<a, "upward">> THEN now[p] + up ELSE now[p]]
<1>1. m \in Markets /\ book[m] \in [Families -> Int]
  OBVIOUS
<1>2. after \in Reached(book[m], want) /\ Counted(want, after)
  BY <1>1, SortedOffersTyped, PurchasesReached, PurchasesCount
<1>3. bought \in [Families -> Int] /\ left \in [Directions -> Nat]
  <2>. HIDE DEF after
  <2>. QED BY <1>2 DEF Reached, States
<1>4. /\ sold' = [f \in Families |-> sold[f] + Size(bought[f])]
      /\ balanced' = [balanced EXCEPT ![a] = [dir \in Directions |-> @[dir] + want[dir] - left[dir]]]
  BY DEF TriggerBalancingTrades
<1>5. Total(Sizes(bought)) = Taken(want, left)
  BY <1>2 DEF Counted
<1>. HIDE DEF m, after
<1>6. sold \in [Families -> Nat] /\ balanced \in [Agents -> [Directions -> Nat]]
  BY DEF TypeOK
<1>. HIDE DEF bought, left
<1>7. Total(sold) \in Int /\ Total(sold') = Total(sold) + Taken(want, left)
  <2>. DEFINE sizes == Sizes(bought)
              later == [f \in Families |-> sold[f] + Size(bought[f])]
  <2>1. sizes \in [Families -> Int] /\ \A f \in Families : sizes[f] = Size(bought[f])
    BY <1>3, SizesTyped
  <2>2. sold \in [Families -> Int]
    BY <1>6
  <2>3. later \in [Families -> Int] /\ \A f \in Families : later[f] = sold[f] + sizes[f]
    <3>. HIDE DEF sizes
    <3>. QED BY <2>1, <2>2
  <2>4. IsFiniteSet(Families)
    BY FamilyFacts
  <2>. HIDE DEF sizes, later
  <2>5. Total(sold) \in Int /\ Total(later) = Total(sold) + Total(sizes)
    <3>1. AddsUp(sold, sizes, later, Families)
      BY <2>1, <2>2, <2>3, <2>4, Zenon DEF AddsUp
    <3>. QED BY <3>1, TotalOfSums
  <2>6. sold' = later /\ Total(sizes) = Taken(want, left)
    BY <1>4, <1>5 DEF later, sizes
  <2>. QED BY <2>5, <2>6
<1>8. IsFiniteSet(D)
  BY PurchasersFinite
<1>9. up \in Int /\ down \in Int /\ Taken(want, left) = up + down
  BY <1>3 DEF Directions, Taken
<1>10. <<a, "upward">> \in D /\ <<a, "downward">> \in D
  BY DEF Directions
<1>. HIDE DEF up, down
<1>11. now \in [D -> Int] /\ mid \in [D -> Int] /\ next \in [D -> Int]
  <2>1. now \in [D -> Int]
    BY <1>6
  <2>2. mid \in [D -> Int]
    <3>. HIDE DEF now
    <3>. QED BY <1>9, <2>1
  <2>3. \A dir \in Directions : balanced[a][dir] + want[dir] - left[dir] \in Int
    BY <1>3, <1>6
  <2>4. balanced' \in [Agents -> [Directions -> Int]]
    BY <1>4, <1>6, <2>3
  <2>5. next \in [D -> Int]
    BY <2>4
  <2>. QED BY <2>1, <2>2, <2>5
<1>12. \A p \in D : mid[p] = IF p = <<a, "upward">> THEN now[p] + up ELSE now[p]
  <2>. HIDE DEF now, D
  <2>. QED OBVIOUS
<1>13. ASSUME NEW p \in D
       PROVE  next[p] = IF p = <<a, "downward">> THEN mid[p] + down ELSE mid[p]
  <2>1. p = <<p[1], p[2]>> /\ p[1] \in Agents /\ p[2] \in {"upward", "downward"}
    BY DEF Directions
  <2>2. next[p] = balanced'[p[1]][p[2]] /\ now[p] = balanced[p[1]][p[2]]
    OBVIOUS
  <2>3. mid[p] = IF p = <<a, "upward">> THEN now[p] + up ELSE now[p]
    OBVIOUS
  <2>4. now[p] \in Int
    BY <1>11
  <2>. HIDE DEF now, mid, next
  <2>5. CASE p[1] # a
    <3>1. balanced'[p[1]] = balanced[p[1]]
      BY <1>4, <1>6, <2>1, <2>5
    <3>2. p # <<a, "upward">> /\ p # <<a, "downward">>
      BY <2>5
    <3>. QED BY <2>2, <2>3, <3>1, <3>2
  <2>6. CASE p = <<a, "upward">>
    <3>1. balanced'[a]["upward"] = balanced[a]["upward"] + want["upward"] - left["upward"]
      BY <1>4, <1>6 DEF Directions
    <3>2. p[1] = a /\ p[2] = "upward" /\ p # <<a, "downward">>
      BY <2>6
    <3>3. balanced[a]["upward"] \in Int /\ want["upward"] \in Int /\ left["upward"] \in Int
      BY <1>3, <1>6 DEF Directions
    <3>4. balanced'[a]["upward"] = balanced[a]["upward"] + up
      BY <3>1, <3>3 DEF up
    <3>5. next[p] = now[p] + up
      BY <2>2, <3>2, <3>4
    <3>. QED BY <2>3, <2>6, <3>2, <3>5
  <2>7. CASE p = <<a, "downward">>
    <3>1. balanced'[a]["downward"] = balanced[a]["downward"] + want["downward"] - left["downward"]
      BY <1>4, <1>6 DEF Directions
    <3>2. p[1] = a /\ p[2] = "downward" /\ p # <<a, "upward">>
      BY <2>7
    <3>3. balanced[a]["downward"] \in Int /\ want["downward"] \in Int /\ left["downward"] \in Int
      BY <1>3, <1>6 DEF Directions
    <3>4. balanced'[a]["downward"] = balanced[a]["downward"] + down
      BY <3>1, <3>3 DEF down
    <3>5. next[p] = now[p] + down
      BY <2>2, <3>2, <3>4
    <3>. QED BY <2>3, <2>7, <3>2, <3>5
  <2>. QED BY <2>1, <2>5, <2>6, <2>7
<1>. HIDE DEF now, mid, next, D
<1>14. Total(now) \in Int /\ Total(mid) = Total(now) + up
  <2>1. ChangedBy(now, mid, D, <<a, "upward">>, up)
    BY <1>8, <1>9, <1>10, <1>11, <1>12, Zenon DEF ChangedBy
  <2>. QED BY <2>1, TotalUpdate
<1>15. Total(mid) \in Int /\ Total(next) = Total(mid) + down
  <2>1. ChangedBy(mid, next, D, <<a, "downward">>, down)
    BY <1>8, <1>9, <1>10, <1>11, <1>13, Zenon DEF ChangedBy
  <2>. QED BY <2>1, TotalUpdate
<1>16. Total(sold) = Total(now)
  BY DEF BoughtIsSold, Bought, now, D
<1>17. Total(sold') = Total(next)
  BY <1>7, <1>9, <1>14, <1>15, <1>16
<1>. QED BY <1>17 DEF BoughtIsSold, Bought, next, D

LEMMA InitBought == Init => BoughtIsSold
<1>. SUFFICES ASSUME Init PROVE BoughtIsSold
  OBVIOUS
<1>2. sold \in [Families -> Int] /\ \A f \in Families : sold[f] = 0
  BY DEF Init, Nothing
<1>3. balanced = [a \in Agents |-> [dir \in Directions |-> 0]]
  BY DEF Init
<1>4. Bought \in [Agents \X Directions -> Int] /\ \A p \in Agents \X Directions : Bought[p] = 0
  BY <1>3 DEF Bought
<1>5. IsFiniteSet(Families) /\ IsFiniteSet(Agents \X Directions)
  BY FamilyFacts, PurchasersFinite
<1>6. Total(sold) = 0 /\ Total(Bought) = 0
  BY <1>2, <1>4, <1>5, TotalZero
<1>. QED BY <1>6, Zenon DEF BoughtIsSold

LEMMA StepBought == BalancingInv /\ BoughtIsSold /\ [Next]_vars => BoughtIsSold'
<1>. SUFFICES ASSUME BalancingInv, BoughtIsSold, [Next]_vars PROVE BoughtIsSold'
  OBVIOUS
<1>1. TypeOK /\ OffersConserved
  BY DEF BalancingInv
<1>2. sold' = sold /\ balanced' = balanced => BoughtIsSold'
  BY DEF BoughtIsSold, Bought
<1>3. CASE OpenSlot
  BY <1>2, <1>3 DEF OpenSlot
<1>4. ASSUME NEW d \in Loads, NEW e \in 1 .. MaxDesired, NEW m \in Markets, SpotTrade(d, e, m)
      PROVE  BoughtIsSold'
  BY <1>2, <1>4 DEF SpotTrade
<1>5. ASSUME NEW a \in Agents, EventOfferTraded(a) PROVE BoughtIsSold'
  <2>1. TriggerBalancingTrades(a, listed, BalancingEnergy(a)) /\ listed \in [Markets -> [Families -> Int]]
    BY <1>1, <1>5 DEF EventOfferTraded, TypeOK
  <2>2. BalancingEnergy(a) \in [Directions -> Nat]
    <3>1. Share(due[a]) \in Nat /\ unmatched[a] \in [Directions -> Nat]
      BY <1>1, ShareAdds DEF TypeOK
    <3>. QED BY <3>1 DEF BalancingEnergy
  <2>. QED BY <1>1, <2>1, <2>2, TradingCounts
<1>6. ASSUME NEW a \in Agents, EventTick(a) PROVE BoughtIsSold'
  <2>1. PICK copies \in SUBSET Forwardable(a) :
            TriggerBalancingTrades(a, Forwarded(a, copies), unmatched[a])
    BY <1>6 DEF EventTick
  <2>2. Forwarded(a, copies) \in [Markets -> [Families -> Int]]
    BY <1>1, ForwardedConsistent
  <2>3. unmatched[a] \in [Directions -> Nat]
    BY <1>1 DEF TypeOK
  <2>. QED BY <1>1, <2>1, <2>2, <2>3, TradingCounts
<1>7. CASE UNCHANGED vars
  BY <1>2, <1>7 DEF vars
<1>. QED BY <1>3, <1>4, <1>5, <1>6, <1>7 DEF Next
-----------------------------------------------------------------------------
(* Splitting, copying and buying offers of flexibility through the markets *)
(* of any tree loses none of their energy and sells none twice: every      *)
(* market lists of an offer what is left of it, or nothing (split_offer    *)
(* and accept_offer of BalancingMarket, BalancingEngine).                  *)
THEOREM OffersConservedTheorem == Spec => []OffersConserved
<1>1. BalancingInv => OffersConserved
  BY DEF BalancingInv
<1>. QED BY InitBalancing, StepBalancing, <1>1, PTL DEF Spec

(* Of every spot purchase of its area an agent buys the share it owes, in  *)
(* both directions, or still knows what is missing, and a load never bids  *)
(* for the energy it committed (BalancingAgent, LoadHoursStrategy).        *)
THEOREM CommitmentsHonouredTheorem == Spec => []CommitmentsHonoured
<1>1. BalancingInv => CommitmentsHonoured
  BY DEF BalancingInv, CommitmentsHonoured
<1>. QED BY InitBalancing, StepBalancing, <1>1, PTL DEF Spec

(* All agents together have bought what all devices together have sold,    *)
(* and nothing else, however many markets the offers went through, and     *)
(* however they were split (BalancingAgent, BalancingMarket).              *)
THEOREM BoughtIsSoldTheorem == Spec => []BoughtIsSold
<1>1. Init => BalancingInv /\ BoughtIsSold
  BY InitBalancing, InitBought
<1>2. BalancingInv /\ BoughtIsSold /\ [Next]_vars => BalancingInv' /\ BoughtIsSold'
  BY StepBalancing, StepBought
<1>. QED BY <1>1, <1>2, PTL DEF Spec

(* The type invariant of the balancing markets. *)
THEOREM BalancingTypeCorrect == Spec => []TypeOK
<1>1. BalancingInv => TypeOK
  BY DEF BalancingInv
<1>. QED BY InitBalancing, StepBalancing, <1>1, PTL DEF Spec
=============================================================================
