------------------------- MODULE StorageStateProofs -------------------------
(***************************************************************************)
(* Proofs about StorageState, for every number of slots, every size of the *)
(* battery and every amount traded.                                        *)
(***************************************************************************)
EXTENDS StorageState, EnergySumsProofs

USE StorageAssumption
-----------------------------------------------------------------------------
(* Sums of two dictionaries over the slots still to be delivered. *)

LEMMA PlusType ==
    ASSUME NEW f \in [Slots -> Int], NEW g \in [Slots -> Int]
    PROVE  Plus(f, g) \in [0..(SlotCount - 1) -> Int]
           /\ \A s \in Slots : Plus(f, g)[s] = f[s] + g[s]
BY DEF Plus, Slots, SlotCount

LEMMA SlotFacts ==
    /\ SlotCount \in Nat /\ SlotCount - 1 = LastSlot
    /\ Slots = 0..(SlotCount - 1) /\ Slots \subseteq 0..SlotCount
    /\ NoSlot \in Int /\ NoSlot < 0
BY DEF Slots, SlotCount, NoSlot

LEMMA SumPlusType ==
    ASSUME NEW f \in [Slots -> Int], NEW g \in [Slots -> Int], NEW lo \in Slots
    PROVE  SumRange(Plus(f, g), lo, SlotCount) \in Int
BY PlusType, SlotFacts, SumRangeStep

(* Going from f, g to f2, g2 changes the total of slot k by d. *)
ChangesAt(f, g, f2, g2, k, d) ==
    /\ f \in [Slots -> Int] /\ g \in [Slots -> Int] /\ f2 \in [Slots -> Int]
    /\ g2 \in [Slots -> Int] /\ k \in Slots /\ d \in Int
    /\ \A s \in Slots : f2[s] + g2[s] = IF s = k THEN f[s] + g[s] + d ELSE f[s] + g[s]

LEMMA SumPlusUpdate ==
    ASSUME NEW f, NEW g, NEW f2, NEW g2, NEW k, NEW d, ChangesAt(f, g, f2, g2, k, d),
           NEW lo \in Slots
    PROVE  /\ lo <= k => SumRange(Plus(f2, g2), lo, SlotCount)
                           = SumRange(Plus(f, g), lo, SlotCount) + d
           /\ k < lo => SumRange(Plus(f2, g2), lo, SlotCount)
                          = SumRange(Plus(f, g), lo, SlotCount)
<1>. DEFINE p == Plus(f, g)
            q == Plus(f2, g2)
<1>0. /\ f \in [Slots -> Int] /\ g \in [Slots -> Int] /\ f2 \in [Slots -> Int]
      /\ g2 \in [Slots -> Int] /\ k \in Slots /\ d \in Int
  BY DEF ChangesAt
<1>1. p \in [0..(SlotCount - 1) -> Int] /\ q \in [0..(SlotCount - 1) -> Int]
  BY <1>0, PlusType
<1>2. \A i \in 0..(SlotCount - 1) : q[i] = IF i = k THEN p[i] + d ELSE p[i]
  <2>1. \A s \in Slots : p[s] = f[s] + g[s] /\ q[s] = f2[s] + g2[s]
    BY <1>0, PlusType
  <2>. HIDE DEF p, q
  <2>. QED BY <2>1, SlotFacts DEF ChangesAt
<1>3. k \in 0..(SlotCount - 1) /\ lo \in 0..SlotCount /\ SlotCount \in Nat
  BY <1>0, SlotFacts
<1>. HIDE DEF p, q
<1>4. DiffersAt(p, q, SlotCount, k, d)
  BY <1>1, <1>2 DEF DiffersAt
<1>5. /\ lo <= k => SumRange(q, lo, SlotCount) = SumRange(p, lo, SlotCount) + d
      /\ k < lo => SumRange(q, lo, SlotCount) = SumRange(p, lo, SlotCount)
  BY ONLY <1>0, <1>1, <1>3, <1>4, SumRangeUpdate, ZenonT(60)
<1>. QED BY <1>5 DEF p, q

(* Only the slots from lo on count. *)
LEMMA SumPlusTail ==
    ASSUME NEW f \in [Slots -> Int], NEW g \in [Slots -> Int],
           NEW f2 \in [Slots -> Int], NEW g2 \in [Slots -> Int], NEW lo \in Slots,
           \A s \in Slots : s >= lo => f2[s] + g2[s] = f[s] + g[s]
    PROVE  SumRange(Plus(f2, g2), lo, SlotCount) = SumRange(Plus(f, g), lo, SlotCount)
<1>. DEFINE p == Plus(f, g)
            q == Plus(f2, g2)
<1>1. p \in [0..(SlotCount - 1) -> Int] /\ q \in [0..(SlotCount - 1) -> Int]
  BY PlusType
<1>2. lo \in 0..SlotCount /\ SlotCount \in Nat
  BY SlotFacts
<1>3. \A s \in Slots : p[s] = f[s] + g[s] /\ q[s] = f2[s] + g2[s]
  BY PlusType
<1>. HIDE DEF p, q
<1>4. \A i \in lo..(SlotCount - 1) : i \in Slots /\ i >= lo
  BY SlotFacts
<1>5. \A i \in lo..(SlotCount - 1) : q[i] = p[i]
  BY <1>3, <1>4
<1>6. SumRange(q, lo, SlotCount) = SumRange(p, lo, SlotCount)
  BY ONLY <1>1, <1>2, <1>5, SumRangeTail
<1>. QED BY <1>6 DEF p, q

LEMMA ZeroSum ==
    ASSUME NEW lo \in Slots
    PROVE  SumRange(Plus(Zero, Zero), lo, SlotCount) = 0
<1>. DEFINE z == Plus(Zero, Zero)
<1>1. z \in [0..(SlotCount - 1) -> Int] /\ \A s \in Slots : z[s] = 0
  BY SlotFacts DEF Plus, Zero
<1>2. lo \in 0..SlotCount /\ SlotCount \in Nat /\ Slots = 0..(SlotCount - 1)
  BY SlotFacts
<1>. HIDE DEF z
<1>3. SumRange(z, lo, SlotCount) = 0
  BY <1>1, <1>2, SumRangeZero
<1>. QED BY <1>3 DEF z

(* The first slot of the sum, and any slot of it. *)
LEMMA SumPlusParts ==
    ASSUME NEW f \in [Slots -> Int], NEW g \in [Slots -> Int], NEW lo \in Slots
    PROVE  /\ lo + 1 \in Slots =>
                SumRange(Plus(f, g), lo, SlotCount)
                  = f[lo] + g[lo] + SumRange(Plus(f, g), lo + 1, SlotCount)
           /\ (\A s \in Slots : f[s] + g[s] >= 0) =>
                \A s \in Slots : lo <= s => f[s] + g[s] <= SumRange(Plus(f, g), lo, SlotCount)
<1>. DEFINE p == Plus(f, g)
<1>1. p \in [0..(SlotCount - 1) -> Int] /\ \A s \in Slots : p[s] = f[s] + g[s]
  BY PlusType
<1>. HIDE DEF p
<1>2. lo \in 0..SlotCount /\ lo < SlotCount /\ SlotCount \in Nat
  BY SlotFacts DEF SlotCount, Slots
<1>3. SumRange(p, lo, SlotCount) = p[lo] + SumRange(p, lo + 1, SlotCount)
  BY <1>1, <1>2, SumRangeStep
<1>4. ASSUME \A s \in Slots : f[s] + g[s] >= 0, NEW s \in Slots, lo <= s
      PROVE  p[s] <= SumRange(p, lo, SlotCount)
  <2>1. s \in lo..(SlotCount - 1)
    BY <1>4, SlotFacts
  <2>2. \A i \in lo..(SlotCount - 1) : p[i] >= 0
    BY <1>1, <1>2, <1>4, SlotFacts
  <2>. QED BY <1>1, <1>2, <2>1, <2>2, SumRangeElement
<1>. QED BY <1>1, <1>3, <1>4 DEF p
-----------------------------------------------------------------------------
(* Type correctness, with losses and restarts. *)

LEMMA LossType ==
    ASSUME NEW sold \in Nat, NEW bought \in Nat
    PROVE  Loss(sold, bought) \in Nat
<1>1. bought * ChargingLoss \in Nat /\ sold * DischargingLoss \in Nat
  OBVIOUS
<1>2. \A a \in Nat : a \div LossScale \in Nat
  OBVIOUS
<1>. QED BY <1>1, <1>2 DEF Loss

LEMMA HeadroomType ==
    ASSUME TypeOK
    PROVE  SellHeadroom \in Int /\ BuyHeadroom \in Int
<1>1. /\ SumRange(Plus(pledged_sell, offered_sell), current_slot, SlotCount) \in Int
      /\ SumRange(Plus(pledged_buy, offered_buy), current_slot, SlotCount) \in Int
  <2>1. pledged_sell \in [Slots -> Int] /\ pledged_buy \in [Slots -> Int]
        /\ offered_sell \in [Slots -> Int] /\ offered_buy \in [Slots -> Int]
        /\ current_slot \in Slots
    BY DEF TypeOK
  <2>. QED BY <2>1, SumPlusType, Zenon
<1>. QED BY <1>1 DEF SellHeadroom, BuyHeadroom, TypeOK

(* What may be sold is a natural within the headroom and the power limit. *)
LEMMA AvailableToSell ==
    ASSUME TypeOK, NEW s \in Slots, ~SellLookupRaises(s)
    PROVE  /\ AvailableEnergyToSell(s) \in Nat
           /\ AvailableEnergyToSell(s) > 0 =>
                /\ AvailableEnergyToSell(s) <= SellHeadroom
                /\ AvailableEnergyToSell(s) <= MaxOfferEnergy(s)
<1>. USE HeadroomType
<1>1. MaxOfferEnergy(s) \in Int /\ used_storage \in Int
  BY DEF TypeOK, MaxOfferEnergy
<1>. QED
  BY <1>1 DEF AvailableEnergyToSell, ClampEnergyToSell, Least, SellLookupRaises

(* What may be bought is a natural; while the headroom is not negative it  *)
(* is within the headroom and the power limit of the slot.                 *)
LEMMA AvailableToBuy ==
    ASSUME TypeOK, NEW s \in Slots, NEW e \in AvailableEnergyToBuy(s)
    PROVE  /\ e \in Nat
           /\ e > 0 /\ BuyHeadroom >= 0 => e <= BuyHeadroom /\ e <= MaxBuyEnergy(s)
<1>. USE HeadroomType
<1>1. MaxBuyEnergy(s) \in Int
  BY DEF TypeOK, MaxBuyEnergy
<1>2. ClampEnergyToBuy(s) \in Nat
      /\ (ClampEnergyToBuy(s) > 0 =>
            ClampEnergyToBuy(s) <= BuyHeadroom /\ ClampEnergyToBuy(s) <= MaxBuyEnergy(s))
  BY <1>1 DEF ClampEnergyToBuy, Least
<1>3. \A d \in EnergyToBuyDict(s) :
        d \in Nat /\ (BuyHeadroom >= 0 => d = ClampEnergyToBuy(s))
  BY <1>2 DEF EnergyToBuyDict
<1>4. CASE FreeStorage(s) = 0
  BY <1>4 DEF AvailableEnergyToBuy
<1>5. CASE FreeStorage(s) # 0
  <2>1. PICK d \in EnergyToBuyDict(s) : e = IF HasReachedMaxChargePower(d, s) THEN 0 ELSE d
    BY <1>5 DEF AvailableEnergyToBuy
  <2>. QED BY <1>2, <1>3, <2>1
<1>. QED BY <1>4, <1>5

LEMMA PostSpotBidType ==
    ASSUME TypeOK, PostSpotBid
    PROVE  open_buy' \in [Slots -> Nat] /\ offered_buy' \in [Slots -> Int]
<1>1. \A e \in AvailableEnergyToBuy(spot) : e \in Nat
  BY AvailableToBuy DEF TypeOK
<1>. QED BY <1>1 DEF PostSpotBid, TypeOK

LEMMA TypeStep == TypeOK /\ [Next]_vars => TypeOK'
<1>. SUFFICES ASSUME TypeOK, [Next]_vars PROVE TypeOK'
  OBVIOUS
<1>1. CASE EndSlot
  <2>1. clock' \in Slots
    <3>1. clock \in 0..LastSlot
      BY DEF TypeOK, Slots
    <3>2. clock' = IF clock = LastSlot THEN clock ELSE clock + 1
      BY <1>1 DEF EndSlot
    <3>. QED BY <3>1, <3>2 DEF Slots
  <2>2. pc' \in Phases
    BY <1>1 DEF EndSlot, Phases
  <2>. QED BY <1>1, <2>1, <2>2 DEF EndSlot, TypeOK, stateVars
<1>2. CASE RotateMarkets
  <2>1. open_sell' \in [Slots -> Nat] /\ open_buy' \in [Slots -> Nat]
    BY <1>2 DEF RotateMarkets, TypeOK
  <2>2. pc' \in Phases /\ spot' \in Slots /\ last_past' \in Slots \cup {NoSlot}
    BY <1>2 DEF RotateMarkets, TypeOK, Phases
  <2>. QED BY <1>2, <2>1, <2>2 DEF RotateMarkets, TypeOK, stateVars
<1>3. CASE MarketCycle
  <2>1. pc' \in Phases
    BY <1>3 DEF MarketCycle, Continue, Phases
  <2>2. used_storage' \in Int /\ losses' \in Nat
    <3>1. CASE PastSlot = NoSlot
      BY <1>3, <3>1 DEF MarketCycle, TypeOK
    <3>2. CASE PastSlot # NoSlot
      <4>1. pledged_sell[PastSlot] \in Nat /\ pledged_buy[PastSlot] \in Nat
        BY <3>2 DEF TypeOK, PastSlot
      <4>2. Loss(pledged_sell[PastSlot], pledged_buy[PastSlot]) \in Nat
        BY <4>1, LossType
      <4>3. used_storage' = used_storage - pledged_sell[PastSlot] + pledged_buy[PastSlot]
                              - Loss(pledged_sell[PastSlot], pledged_buy[PastSlot])
            /\ losses' = losses + Loss(pledged_sell[PastSlot], pledged_buy[PastSlot])
        BY <1>3, <3>2 DEF MarketCycle
      <4>4. used_storage \in Int /\ losses \in Nat
        BY DEF TypeOK
      <4>. QED BY <4>1, <4>2, <4>3, <4>4
    <3>. QED BY <3>1, <3>2
  <2>3. offered_sell' \in [Slots -> Int] /\ offered_buy' \in [Slots -> Int]
    BY <1>3 DEF MarketCycle, TypeOK, ResetSpot
  <2>. QED BY <1>3, <2>1, <2>2, <2>3 DEF MarketCycle, TypeOK, areaVars
<1>4. CASE SellToSpotMarket
  <2>1. ~SellLookupRaises(spot) => AvailableEnergyToSell(spot) \in Nat
    BY AvailableToSell DEF TypeOK
  <2>2. pc' \in Phases /\ pending' \in Nat
    BY <1>4, <2>1 DEF SellToSpotMarket, TypeOK, Phases
  <2>3. open_sell' \in [Slots -> Nat]
    BY <1>4, <2>1 DEF SellToSpotMarket, TypeOK
  <2>. QED BY <1>4, <2>2, <2>3 DEF SellToSpotMarket, TypeOK, stateVars, areaVars
<1>5. CASE RegisterPostedOffer
  BY <1>5 DEF RegisterPostedOffer, Continue, TypeOK, Phases, areaVars
<1>6. CASE BuyOnMarketCycle
  <2>1. PostSpotBid
    BY <1>6 DEF BuyOnMarketCycle
  <2>2. pc' \in Phases /\ post' \in 0..SlotCount
    BY <1>6 DEF BuyOnMarketCycle, Continue, TypeOK, Phases, Slots, SlotCount
  <2>. QED BY <1>6, <2>1, <2>2, PostSpotBidType DEF BuyOnMarketCycle, TypeOK, areaVars
<1>7. ASSUME NEW s \in Slots, PostFutureOrders(s) PROVE TypeOK'
  <2>1. pc' \in Phases /\ post' \in 0..SlotCount
    BY <1>7 DEF PostFutureOrders, Continue, TypeOK, Phases, Slots, SlotCount
  <2>2. CASE SellLookupRaises(s)
    BY <1>7, <2>1, <2>2 DEF PostFutureOrders, TypeOK, areaVars
  <2>3. CASE ~SellLookupRaises(s)
    <3>1. AvailableEnergyToSell(s) \in Nat
      BY <2>3, AvailableToSell
    <3>2. \A e \in AvailableEnergyToBuy(s) : e \in Nat
      BY AvailableToBuy
    <3>3. /\ open_sell' \in [Slots -> Nat] /\ open_buy' \in [Slots -> Nat]
          /\ offered_sell' \in [Slots -> Int] /\ offered_buy' \in [Slots -> Int]
      <4>1. PICK e \in AvailableEnergyToBuy(s) :
              LET sell == IF open_sell[s] = 0 THEN AvailableEnergyToSell(s) ELSE 0
                  buy == IF open_buy[s] = 0 THEN e ELSE 0
              IN  /\ open_sell' = [open_sell EXCEPT ![s] = @ + sell]
                  /\ offered_sell' = [offered_sell EXCEPT ![s] = @ + sell]
                  /\ open_buy' = [open_buy EXCEPT ![s] = @ + buy]
                  /\ offered_buy' = [offered_buy EXCEPT ![s] = @ + buy]
        BY <1>7, <2>3 DEF PostFutureOrders
      <4>2. e \in Nat
        BY <3>2
      <4>. QED BY <3>1, <4>1, <4>2 DEF TypeOK
    <3>. QED BY <1>7, <2>1, <3>3 DEF PostFutureOrders, TypeOK, areaVars
  <2>. QED BY <2>2, <2>3
<1>8. CASE DeletePastState
  <2>1. last_past \in Int
    BY DEF TypeOK, Slots
  <2>2. /\ pledged_sell' \in [Slots -> Nat] /\ pledged_buy' \in [Slots -> Nat]
        /\ offered_sell' \in [Slots -> Int] /\ offered_buy' \in [Slots -> Int]
    BY <1>8 DEF DeletePastState, TypeOK
  <2>3. pc' \in Phases
    BY <1>8 DEF DeletePastState, Phases
  <2>. QED BY <1>8, <2>2, <2>3 DEF DeletePastState, TypeOK, areaVars
<1>9. CASE Tick
  <2>1. PostSpotBid
    BY <1>9 DEF Tick
  <2>2. pc' \in Phases
    BY <1>9 DEF Tick, Continue, Phases
  <2>. QED BY <1>9, <2>1, <2>2, PostSpotBidType DEF Tick, TypeOK, areaVars
<1>10. ASSUME NEW s \in Slots, NEW e \in 1..BatteryEnergy, TradeOffer(s, e) PROVE TypeOK'
  <2>1. e \in Nat /\ e <= open_sell[s] /\ open_sell[s] \in Nat
    BY <1>10 DEF TradeOffer, TypeOK
  <2>2. open_sell' \in [Slots -> Nat]
    BY <1>10, <2>1 DEF TradeOffer, TypeOK
  <2>3. pledged_sell' \in [Slots -> Nat]
    BY <1>10, <2>1 DEF TradeOffer, TypeOK
  <2>4. offered_sell' \in [Slots -> Int] /\ ledger' \in [Slots -> Int]
    BY <1>10, <2>1 DEF TradeOffer, TypeOK
  <2>5. pc' \in Phases
    BY <1>10 DEF TradeOffer, Continue, TypeOK, Phases
  <2>. QED BY <1>10, <2>2, <2>3, <2>4, <2>5 DEF TradeOffer, TypeOK, areaVars
<1>11. ASSUME NEW s \in Slots, NEW e \in 1..BatteryEnergy, TradeBid(s, e) PROVE TypeOK'
  <2>1. e \in Nat /\ e <= open_buy[s] /\ open_buy[s] \in Nat
    BY <1>11 DEF TradeBid, TypeOK
  <2>2. open_buy' \in [Slots -> Nat]
    BY <1>11, <2>1 DEF TradeBid, TypeOK
  <2>3. pledged_buy' \in [Slots -> Nat]
    BY <1>11, <2>1 DEF TradeBid, TypeOK
  <2>4. offered_buy' \in [Slots -> Int] /\ ledger' \in [Slots -> Int]
    BY <1>11, <2>1 DEF TradeBid, TypeOK
  <2>5. pc' \in Phases
    BY <1>11 DEF TradeBid, Continue, TypeOK, Phases
  <2>. QED BY <1>11, <2>2, <2>3, <2>4, <2>5 DEF TradeBid, TypeOK, areaVars
<1>12. ASSUME NEW offered \in 1..BatteryEnergy, TryToBuyOffer(offered) PROVE TypeOK'
  <2>1. \A e \in AvailableEnergyToBuy(spot) : Least(offered, e) \in Nat
    <3>1. \A e \in AvailableEnergyToBuy(spot) : e \in Nat
      BY AvailableToBuy DEF TypeOK
    <3>. QED BY <3>1 DEF Least
  <2>2. pc' \in Phases
    BY <1>12 DEF TryToBuyOffer, Continue, TypeOK, Phases
  <2>3. pledged_buy' \in [Slots -> Nat] /\ ledger' \in [Slots -> Int]
    <3>1. PICK available \in AvailableEnergyToBuy(spot) :
            /\ pledged_buy' = [pledged_buy EXCEPT ![spot] = @ + Least(offered, available)]
            /\ \/ ledger' = [ledger EXCEPT ![spot] = @ + Least(offered, available)]
               \/ ledger' = ledger
      BY <1>12 DEF TryToBuyOffer
    <3>2. Least(offered, available) \in Nat
      BY <2>1
    <3>. QED BY <3>1, <3>2 DEF TypeOK
  <2>. QED BY <1>12, <2>2, <2>3 DEF TryToBuyOffer, TypeOK, areaVars
<1>13. ASSUME NEW s \in Slots, Restart(s) PROVE TypeOK'
  BY <1>13 DEF Restart, TypeOK, Phases, stateVars, Zero, Slots
<1>14. CASE Finished \/ UNCHANGED vars
  BY <1>14 DEF Finished, vars, stateVars, areaVars, TypeOK
<1>. QED
  BY <1>1, <1>2, <1>3, <1>4, <1>5, <1>6, <1>7, <1>8, <1>9, <1>10, <1>11, <1>12, <1>13,
     <1>14 DEF Next

(* Every variable of the storage keeps its type, with any losses and any   *)
(* number of restarts; in particular the energy pledged for a slot and the *)
(* energy of the open orders never become negative.                        *)
THEOREM TypeCorrect == Spec => []TypeOK
<1>1. Init => TypeOK
  BY SlotFacts DEF Init, TypeOK, Phases, Zero, Slots
<1>. QED BY <1>1, TypeStep, PTL DEF Spec
-----------------------------------------------------------------------------
(* How the headroom changes when the commitments of one slot change. *)

LEMMA SellHeadroomChange ==
    ASSUME TypeOK, TypeOK', current_slot' = current_slot, used_storage' = used_storage,
           NEW k \in Slots, current_slot <= k, NEW d \in Int,
           \A s \in Slots : pledged_sell'[s] + offered_sell'[s]
                              = IF s = k THEN pledged_sell[s] + offered_sell[s] + d
                                         ELSE pledged_sell[s] + offered_sell[s]
    PROVE  SellHeadroom' = SellHeadroom - d
<1>1. /\ pledged_sell \in [Slots -> Int] /\ offered_sell \in [Slots -> Int]
      /\ pledged_sell' \in [Slots -> Int] /\ offered_sell' \in [Slots -> Int]
      /\ current_slot \in Slots /\ used_storage \in Int
  BY DEF TypeOK
<1>2. SumRange(Plus(pledged_sell', offered_sell'), current_slot, SlotCount)
        = SumRange(Plus(pledged_sell, offered_sell), current_slot, SlotCount) + d
  <2>1. ChangesAt(pledged_sell, offered_sell, pledged_sell', offered_sell', k, d)
    BY <1>1 DEF ChangesAt
  <2>. QED
    BY ONLY <1>1, <2>1, current_slot <= k, SumPlusUpdate
<1>3. SumRange(Plus(pledged_sell, offered_sell), current_slot, SlotCount) \in Int
  BY <1>1, SumPlusType, Zenon
<1>. QED BY <1>1, <1>2, <1>3 DEF SellHeadroom

LEMMA BuyHeadroomChange ==
    ASSUME TypeOK, TypeOK', current_slot' = current_slot, used_storage' = used_storage,
           NEW k \in Slots, current_slot <= k, NEW d \in Int,
           \A s \in Slots : pledged_buy'[s] + offered_buy'[s]
                              = IF s = k THEN pledged_buy[s] + offered_buy[s] + d
                                         ELSE pledged_buy[s] + offered_buy[s]
    PROVE  BuyHeadroom' = BuyHeadroom - d
<1>1. /\ pledged_buy \in [Slots -> Int] /\ offered_buy \in [Slots -> Int]
      /\ pledged_buy' \in [Slots -> Int] /\ offered_buy' \in [Slots -> Int]
      /\ current_slot \in Slots /\ used_storage \in Int
  BY DEF TypeOK
<1>2. SumRange(Plus(pledged_buy', offered_buy'), current_slot, SlotCount)
        = SumRange(Plus(pledged_buy, offered_buy), current_slot, SlotCount) + d
  <2>1. ChangesAt(pledged_buy, offered_buy, pledged_buy', offered_buy', k, d)
    BY <1>1 DEF ChangesAt
  <2>. QED
    BY ONLY <1>1, <2>1, current_slot <= k, SumPlusUpdate
<1>3. SumRange(Plus(pledged_buy, offered_buy), current_slot, SlotCount) \in Int
  BY <1>1, SumPlusType, Zenon
<1>. QED BY <1>1, <1>2, <1>3 DEF BuyHeadroom

(* An invariant state passes every clamp. *)
LEMMA ClampsPass ==
    ASSUME TypeOK, Orders, Power, NEW s \in Slots
    PROVE  SellClampPasses(s) /\ BuyClampPasses(s) /\ MaxBuyEnergy(s) >= 0
           /\ (SellHeadroom >= 0 => ~SellLookupRaises(s))
<1>1. /\ pledged_sell[s] + offered_sell[s] <= BatteryEnergy
      /\ pledged_buy[s] + offered_buy[s] <= BatteryEnergy
  BY DEF Power, PendingAt, TypeOK
<1>2. MaxOfferEnergy(s) >= 0 /\ MaxBuyEnergy(s) >= 0
  BY <1>1 DEF MaxOfferEnergy, MaxBuyEnergy, TypeOK
<1>. QED BY <1>2, HeadroomType DEF SellClampPasses, BuyClampPasses, SellLookupRaises, MaxOfferEnergy, TypeOK
LEMMA ClampsPassNext ==
    ASSUME TypeOK', Power', NEW s \in Slots
    PROVE  SellClampPasses(s)' /\ BuyClampPasses(s)'
<1>1. /\ pledged_sell'[s] + offered_sell'[s] <= BatteryEnergy
      /\ pledged_buy'[s] + offered_buy'[s] <= BatteryEnergy
  BY DEF Power, PendingAt, TypeOK
<1>2. MaxOfferEnergy(s)' >= 0 /\ MaxBuyEnergy(s)' >= 0
  BY <1>1 DEF MaxOfferEnergy, MaxBuyEnergy, TypeOK
<1>. QED BY <1>2 DEF SellClampPasses, BuyClampPasses

-----------------------------------------------------------------------------
(* Each action preserves the inductive invariant. *)

(* Nothing that the battery stores, sold or bought has changed. *)
LEMMA CoveredUnchanged ==
    ASSUME Covered, UNCHANGED <<current_slot, pending, used_storage, pledged_sell, pledged_buy,
                                offered_sell, offered_buy>>
    PROVE  Covered'
BY DEF Covered, SellHeadroom, BuyHeadroom

LEMMA EndSlotSafe ==
    ASSUME IInv, TypeOK', EndSlot
    PROVE  IInv'
<1>. USE DEF IInv
<1>1. /\ pc = "ticks" /\ pc' \in {"done", "rotate"}
      /\ pc' = "rotate" => clock' = clock + 1
      /\ pc' = "done" => clock' = clock
      /\ UNCHANGED <<spot, last_past, current_slot, post, pending, used_storage,
                     pledged_sell, pledged_buy, offered_sell, offered_buy,
                     open_sell, open_buy, ledger, losses, restarts>>
  BY DEF EndSlot, stateVars
<1>2. clock = spot /\ current_slot = spot /\ last_past < current_slot
  BY <1>1 DEF Timing
<1>3. Timing'
  BY <1>1, <1>2 DEF Timing
<1>4. Orders'
  <2>1. NextSpot' = NextSpot
    BY <1>1, <1>2 DEF NextSpot
  <2>. QED BY <1>1, <2>1 DEF Orders, PendingAt
<1>5. Power'
  BY <1>1 DEF Power, PendingAt
<1>6. Covered'
  BY <1>1, CoveredUnchanged
<1>. QED BY <1>1, <1>3, <1>4, <1>5, <1>6

LEMMA RotateMarketsSafe ==
    ASSUME IInv, TypeOK', RotateMarkets
    PROVE  IInv'
<1>. USE DEF IInv
<1>1. /\ pc = "rotate" /\ pc' = "dispatch" /\ spot' = clock
      /\ last_past' = IF spot = clock - 1 THEN spot ELSE NoSlot
      /\ \A s \in Slots : /\ open_sell'[s] = IF s <= clock THEN 0 ELSE open_sell[s]
                          /\ open_buy'[s] = IF s <= clock THEN 0 ELSE open_buy[s]
      /\ UNCHANGED <<clock, current_slot, post, pending, used_storage,
                     pledged_sell, pledged_buy, offered_sell, offered_buy>>
  BY DEF RotateMarkets, stateVars
<1>2. /\ current_slot = spot /\ pending = 0
      /\ clock = spot + 1 \/ (clock = 0 /\ spot = 0)
  BY <1>1 DEF Timing, Orders
<1>3. clock \in Int /\ spot \in Int /\ \A s \in Slots : s \in Int
  BY DEF TypeOK, Slots
<1>4. Timing'
  BY <1>1, <1>2, <1>3 DEF Timing
<1>5. Orders'
  <2>1. NextSpot' = clock /\ NextSpot = clock
    BY <1>1 DEF NextSpot
  <2>2. \A s \in Slots : PendingAt(s)' = 0 /\ PendingAt(s) = 0
    BY <1>1, <1>2 DEF PendingAt
  <2>3. \A s \in Slots : s > clock => s > spot
    BY <1>2, <1>3
  <2>4. clock \in Slots
    BY DEF TypeOK
  <2>5. \A s \in Slots : /\ s < clock => open_sell'[s] = 0 /\ open_buy'[s] = 0
                         /\ s = clock => open_sell'[s] = 0 /\ open_buy'[s] = 0
                         /\ s > clock => open_sell'[s] = open_sell[s]
                                         /\ open_buy'[s] = open_buy[s]
    BY <1>1, <1>3
  <2>6. \A s \in Slots : offered_sell[s] + PendingAt(s) >= 0 /\ offered_buy[s] >= 0
    BY DEF Orders
  <2>7. \A s \in Slots : s > clock => /\ offered_sell[s] = open_sell[s]
                                      /\ offered_buy[s] = open_buy[s]
    BY <2>3 DEF Orders
  <2>8. FutureSlots = 0 =>
          \A s \in Slots : s >= clock => offered_sell[s] = 0 /\ offered_buy[s] = 0
    BY <2>1 DEF Orders
  <2>. QED BY <1>1, <1>2, <2>1, <2>2, <2>4, <2>5, <2>6, <2>7, <2>8 DEF Orders
<1>6. Power'
  BY <1>1, <1>2 DEF Power, PendingAt
<1>7. Covered'
  BY <1>1, CoveredUnchanged
<1>. QED BY <1>1, <1>4, <1>5, <1>6, <1>7

LEMMA NoLoss ==
    ASSUME Ideal, NEW sold \in Nat, NEW bought \in Nat
    PROVE  Loss(sold, bought) = 0
<1>1. bought * ChargingLoss + sold * DischargingLoss = 0
  BY DEF Ideal
<1>2. 0 \div LossScale = 0
  OBVIOUS
<1>. QED BY <1>1, <1>2 DEF Loss, Ideal

(* What a slot has sold and bought fits into the battery. *)
LEMMA SlotFits ==
    ASSUME IInv, pending = 0, NEW s \in Slots, s >= current_slot
    PROVE  /\ pledged_sell[s] + offered_sell[s] <= used_storage - MinEnergy
           /\ pledged_buy[s] + offered_buy[s] <= Capacity - used_storage
           /\ offered_sell[s] >= 0 /\ offered_buy[s] >= 0
<1>. USE DEF IInv
<1>1. /\ pledged_sell \in [Slots -> Int] /\ offered_sell \in [Slots -> Int]
      /\ pledged_buy \in [Slots -> Int] /\ offered_buy \in [Slots -> Int]
      /\ current_slot \in Slots /\ used_storage \in Int
  BY DEF TypeOK
<1>2. /\ \A k \in Slots : pledged_sell[k] >= 0 /\ offered_sell[k] >= 0
      /\ \A k \in Slots : pledged_buy[k] >= 0 /\ offered_buy[k] >= 0
  BY DEF TypeOK, Orders, PendingAt
<1>3. /\ \A k \in Slots : pledged_sell[k] + offered_sell[k] >= 0
      /\ \A k \in Slots : pledged_buy[k] + offered_buy[k] >= 0
  BY <1>1, <1>2
<1>4. /\ pledged_sell[s] + offered_sell[s]
           <= SumRange(Plus(pledged_sell, offered_sell), current_slot, SlotCount)
      /\ pledged_buy[s] + offered_buy[s]
           <= SumRange(Plus(pledged_buy, offered_buy), current_slot, SlotCount)
  BY <1>1, <1>3, SumPlusParts
<1>5. /\ SumRange(Plus(pledged_sell, offered_sell), current_slot, SlotCount) \in Int
      /\ SumRange(Plus(pledged_buy, offered_buy), current_slot, SlotCount) \in Int
  BY <1>1, SumPlusType, Zenon
<1>6. SellHeadroom >= 0 /\ BuyHeadroom >= 0
  BY DEF Covered
<1>. QED BY <1>1, <1>2, <1>4, <1>5, <1>6 DEF SellHeadroom, BuyHeadroom

LEMMA MarketCycleSafe ==
    ASSUME Ideal, IInv, TypeOK', MarketCycle
    PROVE  IInv'
<1>. USE DEF IInv
<1>1. /\ pc = "dispatch" /\ current_slot' = spot /\ pc' \in {"sell", "failed"}
      /\ UNCHANGED <<clock, spot, last_past, post, pending, pledged_sell, pledged_buy,
                     open_sell, open_buy>>
  BY DEF MarketCycle, Continue, areaVars
<1>2. /\ clock = spot /\ pending = 0 /\ spot \in Slots /\ current_slot \in Slots
      /\ open_sell[spot] = 0 /\ open_buy[spot] = 0
      /\ \/ last_past = current_slot /\ spot = current_slot + 1
         \/ last_past = NoSlot /\ current_slot = 0 /\ spot = 0
  BY <1>1 DEF Timing, Orders, TypeOK
<1>3. \A s \in Slots : /\ offered_sell'[s] = IF s = spot THEN 0 ELSE offered_sell[s]
                       /\ offered_buy'[s] = IF s = spot THEN 0 ELSE offered_buy[s]
  <2>1. FutureSlots = 0 => offered_sell[spot] = 0 /\ offered_buy[spot] = 0
    <3>1. NextSpot = spot /\ spot >= spot
      BY <1>1, <1>2 DEF NextSpot, Slots
    <3>. QED BY <1>2, <3>1 DEF Orders
  <2>2. offered_sell' = ResetSpot(offered_sell) /\ offered_buy' = ResetSpot(offered_buy)
    BY DEF MarketCycle
  <2>3. FutureSlots = 0 \/ FutureSlots > 0
    OBVIOUS
  <2>. QED BY <1>2, <2>1, <2>2, <2>3 DEF ResetSpot, TypeOK
<1>4. used_storage' = IF last_past = NoSlot THEN used_storage
                      ELSE used_storage - pledged_sell[last_past] + pledged_buy[last_past]
  <2>1. CASE last_past = NoSlot
    BY <2>1 DEF MarketCycle, PastSlot, TypeOK
  <2>2. CASE last_past # NoSlot
    <3>1. pledged_sell[last_past] \in Nat /\ pledged_buy[last_past] \in Nat
      BY <2>2 DEF TypeOK
    <3>2. Loss(pledged_sell[last_past], pledged_buy[last_past]) = 0
      BY <3>1, NoLoss
    <3>3. used_storage' = used_storage - pledged_sell[last_past] + pledged_buy[last_past]
                            - Loss(pledged_sell[last_past], pledged_buy[last_past])
      BY <2>2 DEF MarketCycle, PastSlot
    <3>. QED BY <2>2, <3>1, <3>2, <3>3 DEF TypeOK
  <2>. QED BY <2>1, <2>2
<1>5. \A s \in Slots : PendingAt(s) = 0 /\ PendingAt(s)' = 0
  BY <1>1, <1>2 DEF PendingAt
<1>6. \A s \in Slots : /\ offered_sell[s] \in Int /\ offered_sell[s] >= 0
                       /\ offered_buy[s] \in Int /\ offered_buy[s] >= 0
                       /\ pledged_sell[s] \in Nat /\ pledged_buy[s] \in Nat
  BY <1>5 DEF TypeOK, Orders
<1>7. Timing'
  BY <1>1, <1>2 DEF Timing, NoSlot, Slots
<1>8. Orders'
  <2>1. NextSpot' = spot + 1 /\ NextSpot = spot
    BY <1>1 DEF NextSpot
  <2>2. FutureSlots = 0 =>
          \A s \in Slots : s >= spot + 1 => offered_sell'[s] = 0 /\ offered_buy'[s] = 0
    <3>1. \A s \in Slots : s >= spot + 1 => s >= spot
      BY <1>2 DEF Slots
    <3>2. FutureSlots = 0 =>
            \A s \in Slots : s >= spot => offered_sell[s] = 0 /\ offered_buy[s] = 0
      BY <2>1 DEF Orders
    <3>. QED BY <1>3, <3>1, <3>2
  <2>3. \A s \in Slots : offered_sell'[s] + 0 >= 0 /\ offered_buy'[s] >= 0
    BY <1>3, <1>6
  <2>4. \A s \in Slots : s > spot => s # spot
    BY <1>2 DEF Slots
  <2>5. \A s \in Slots : s > spot => /\ offered_sell'[s] = open_sell[s]
                                     /\ offered_buy'[s] = open_buy[s]
    BY <1>3, <2>4 DEF Orders
  <2>6. \A s \in Slots : s < spot => open_sell[s] = 0 /\ open_buy[s] = 0
    BY DEF Orders
  <2>7. offered_sell'[spot] = 0 /\ offered_buy'[spot] = 0
    BY <1>2, <1>3
  <2>. QED BY <1>1, <1>2, <1>5, <2>1, <2>2, <2>3, <2>5, <2>6, <2>7 DEF Orders
<1>9. Power'
  BY <1>1, <1>3, <1>5, <1>6 DEF Power
<1>10. Covered'
  <2>1. /\ pledged_sell \in [Slots -> Int] /\ offered_sell \in [Slots -> Int]
        /\ pledged_buy \in [Slots -> Int] /\ offered_buy \in [Slots -> Int]
        /\ offered_sell' \in [Slots -> Int] /\ offered_buy' \in [Slots -> Int]
        /\ used_storage \in Int /\ -offered_sell[spot] \in Int /\ -offered_buy[spot] \in Int
    BY <1>2 DEF TypeOK
  <2>. DEFINE sells == SumRange(Plus(pledged_sell, offered_sell), spot, SlotCount)
              buys == SumRange(Plus(pledged_buy, offered_buy), spot, SlotCount)
  <2>2. SumRange(Plus(pledged_sell, offered_sell'), spot, SlotCount) = sells - offered_sell[spot]
    <3>1. ChangesAt(pledged_sell, offered_sell, pledged_sell, offered_sell', spot,
                    -offered_sell[spot])
      BY <1>2, <1>3, <1>6, <2>1 DEF ChangesAt
    <3>2. spot <= spot
      BY <1>2 DEF Slots
    <3>3. SumRange(Plus(pledged_sell, offered_sell'), spot, SlotCount)
            = sells + (-offered_sell[spot])
      BY ONLY <1>2, <3>1, <3>2, SumPlusUpdate
    <3>4. sells \in Int
      BY <1>2, <2>1, SumPlusType, Zenon
    <3>. HIDE DEF sells
    <3>. QED BY <1>2, <1>6, <3>3, <3>4
  <2>3. SumRange(Plus(pledged_buy, offered_buy'), spot, SlotCount) = buys - offered_buy[spot]
    <3>1. ChangesAt(pledged_buy, offered_buy, pledged_buy, offered_buy', spot,
                    -offered_buy[spot])
      BY <1>2, <1>3, <1>6, <2>1 DEF ChangesAt
    <3>2. spot <= spot
      BY <1>2 DEF Slots
    <3>3. SumRange(Plus(pledged_buy, offered_buy'), spot, SlotCount)
            = buys + (-offered_buy[spot])
      BY ONLY <1>2, <3>1, <3>2, SumPlusUpdate
    <3>4. buys \in Int
      BY <1>2, <2>1, SumPlusType, Zenon
    <3>. HIDE DEF buys
    <3>. QED BY <1>2, <1>6, <3>3, <3>4
  <2>4. SellHeadroom' = used_storage' - (sells - offered_sell[spot]) - MinEnergy
        /\ BuyHeadroom' = Capacity - used_storage' - (buys - offered_buy[spot])
    BY <1>1, <2>2, <2>3 DEF SellHeadroom, BuyHeadroom
  <2>5. sells \in Int /\ buys \in Int
    BY <1>2, <2>1, SumPlusType, Zenon
  <2>6. CASE last_past = NoSlot
    <3>1. SellHeadroom = used_storage - sells - MinEnergy
          /\ BuyHeadroom = Capacity - used_storage - buys /\ used_storage' = used_storage
      BY <1>2, <1>4, <2>6 DEF SellHeadroom, BuyHeadroom, NoSlot, Slots
    <3>. HIDE DEF sells, buys
    <3>. QED BY <1>1, <1>2, <1>6, <2>1, <2>4, <2>5, <3>1 DEF Covered
  <2>7. CASE last_past = current_slot /\ spot = current_slot + 1
    <3>1. /\ SumRange(Plus(pledged_sell, offered_sell), current_slot, SlotCount)
               = pledged_sell[current_slot] + offered_sell[current_slot] + sells
          /\ SumRange(Plus(pledged_buy, offered_buy), current_slot, SlotCount)
               = pledged_buy[current_slot] + offered_buy[current_slot] + buys
      BY <1>2, <2>1, <2>7, SumPlusParts
    <3>. HIDE DEF sells, buys
    <3>2. /\ SellHeadroom = used_storage - (pledged_sell[current_slot]
                              + offered_sell[current_slot] + sells) - MinEnergy
          /\ BuyHeadroom = Capacity - used_storage - (pledged_buy[current_slot]
                              + offered_buy[current_slot] + buys)
      BY <3>1 DEF SellHeadroom, BuyHeadroom
    <3>3. used_storage' = used_storage - pledged_sell[current_slot] + pledged_buy[current_slot]
      BY <1>2, <1>4, <2>7 DEF NoSlot, Slots
    <3>4. SellHeadroom' >= 0 /\ BuyHeadroom' >= 0
      BY <1>2, <1>6, <2>1, <2>4, <2>5, <3>2, <3>3 DEF Covered
    <3>5. MinEnergy <= used_storage' /\ used_storage' <= Capacity
      <4>1. current_slot >= current_slot
        BY <1>2 DEF Slots
      <4>2. /\ pledged_sell[current_slot] <= used_storage - MinEnergy
            /\ pledged_buy[current_slot] <= Capacity - used_storage
        BY <1>2, <1>6, <2>1, <4>1, SlotFits
      <4>. QED BY <1>2, <1>6, <2>1, <3>3, <4>2
    <3>. QED BY <1>1, <1>2, <3>4, <3>5 DEF Covered
  <2>. QED BY <1>2, <2>6, <2>7
<1>11. pc' # "failed"
  <2>1. \A s \in Slots : SellClampPasses(s)' /\ BuyClampPasses(s)'
    BY <1>9, ClampsPassNext
  <2>2. \A s \in {spot} \cup FutureOf(spot) : SellClampPasses(s)' /\ BuyClampPasses(s)'
    BY <1>2, <2>1 DEF FutureOf
  <2>. QED BY <2>2 DEF MarketCycle, Continue
<1>. QED BY <1>7, <1>8, <1>9, <1>10, <1>11

LEMMA SellToSpotMarketSafe ==
    ASSUME IInv, TypeOK', SellToSpotMarket
    PROVE  IInv'
<1>. USE DEF IInv
<1>1. /\ pc = "sell"
      /\ UNCHANGED <<clock, spot, last_past, current_slot, post, used_storage, pledged_sell,
                     pledged_buy, offered_sell, offered_buy, open_buy>>
  BY DEF SellToSpotMarket, areaVars, stateVars
<1>2. /\ clock = spot /\ current_slot = spot /\ last_past < current_slot
      /\ pending = 0 /\ open_sell[spot] = 0 /\ offered_sell[spot] = 0 /\ spot \in Slots
  BY <1>1 DEF Timing, Orders, TypeOK
<1>3. ~SellLookupRaises(spot)
  BY <1>2, ClampsPass DEF Covered
<1>4. /\ AvailableEnergyToSell(spot) \in Nat
      /\ AvailableEnergyToSell(spot) > 0 =>
           /\ AvailableEnergyToSell(spot) <= SellHeadroom
           /\ AvailableEnergyToSell(spot) <= MaxOfferEnergy(spot)
  BY <1>2, <1>3, AvailableToSell
<1>5. \/ pc' = "buy" /\ pending' = 0 /\ open_sell' = open_sell
      \/ /\ pc' = "register" /\ pending' = AvailableEnergyToSell(spot) /\ pending' > 0
         /\ open_sell' = [open_sell EXCEPT ![spot] = pending']
  BY <1>2, <1>3 DEF SellToSpotMarket
<1>6. /\ pending' \in Nat
      /\ pending' > 0 => pending' <= SellHeadroom /\ pending' <= MaxOfferEnergy(spot)
      /\ open_sell'[spot] = pending'
      /\ \A s \in Slots : s # spot => open_sell'[s] = open_sell[s]
      /\ pc' \in {"buy", "register"} /\ (pc' = "buy" => pending' = 0)
  <2>1. open_sell \in [Slots -> Nat]
    BY DEF TypeOK
  <2>. QED BY <1>2, <1>4, <1>5, <2>1
<1>7. Timing'
  BY <1>1, <1>2, <1>6 DEF Timing
<1>8. \A s \in Slots : PendingAt(s)' = (IF s = spot THEN pending' ELSE 0) /\ PendingAt(s) = 0
  BY <1>1, <1>2 DEF PendingAt
<1>9. Orders'
  <2>1. NextSpot' = NextSpot
    BY <1>1, <1>6 DEF NextSpot
  <2>2. \A s \in Slots : offered_sell[s] + PendingAt(s)' >= 0 /\ offered_buy[s] >= 0
    BY <1>2, <1>6, <1>8 DEF Orders, TypeOK
  <2>3. \A s \in Slots : /\ s < spot => s # spot /\ open_sell[s] = 0 /\ open_buy[s] = 0
                         /\ s > spot => s # spot /\ offered_sell[s] = open_sell[s]
                                        /\ offered_buy[s] = open_buy[s]
    BY <1>2 DEF Orders, Slots
  <2>4. offered_sell[spot] + pending' = open_sell'[spot]
    <3>1. offered_sell[spot] = 0 /\ open_sell'[spot] = pending'
      BY <1>2, <1>6, Zenon
    <3>2. pending' \in Nat
      BY <1>6
    <3>3. \A n \in Nat : 0 + n = n
      OBVIOUS
    <3>. QED BY ONLY <3>1, <3>2, <3>3, Zenon
  <2>5. offered_buy[spot] = open_buy[spot]
    BY <1>1 DEF Orders
  <2>6. FutureSlots = 0 =>
          \A s \in Slots : s >= NextSpot => offered_sell[s] = 0 /\ offered_buy[s] = 0
    BY DEF Orders
  <2>. QED BY <1>1, <1>6, <2>1, <2>2, <2>3, <2>4, <2>5, <2>6 DEF Orders
<1>10. Power'
  <2>. SUFFICES ASSUME NEW s \in Slots
       PROVE  /\ pledged_sell[s] + offered_sell[s] + PendingAt(s)' <= BatteryEnergy
              /\ pledged_buy[s] + offered_buy[s] <= BatteryEnergy
    BY <1>1 DEF Power
  <2>1. /\ pledged_sell[s] + offered_sell[s] + 0 <= BatteryEnergy
        /\ pledged_buy[s] + offered_buy[s] <= BatteryEnergy
    BY <1>8 DEF Power
  <2>2. pledged_sell[s] \in Nat /\ offered_sell[s] \in Int
    BY DEF TypeOK
  <2>3. s = spot => PendingAt(s)' = pending'
    BY <1>8
  <2>4. s # spot => PendingAt(s)' = 0
    BY <1>8
  <2>5. pending' > 0 => pending' <= BatteryEnergy - pledged_sell[spot] - offered_sell[spot]
    BY <1>6 DEF MaxOfferEnergy
  <2>6. pending' \in Nat
    BY <1>6
  <2>. QED BY ONLY <2>1, <2>2, <2>3, <2>4, <2>5, <2>6, StorageAssumption
<1>11. Covered'
  <2>1. SellHeadroom' = SellHeadroom /\ BuyHeadroom' = BuyHeadroom
    BY <1>1 DEF SellHeadroom, BuyHeadroom
  <2>. QED BY <1>1, <1>2, <1>6, <2>1, HeadroomType DEF Covered
<1>. QED BY <1>6, <1>7, <1>9, <1>10, <1>11

LEMMA RegisterPostedOfferSafe ==
    ASSUME IInv, TypeOK', RegisterPostedOffer
    PROVE  IInv'
<1>. USE DEF IInv
<1>1. /\ pc = "register" /\ pending' = 0 /\ pc' \in {"buy", "failed"}
      /\ UNCHANGED <<clock, spot, last_past, current_slot, post, used_storage, pledged_sell,
                     pledged_buy, offered_buy, open_sell, open_buy>>
      /\ offered_sell' = [offered_sell EXCEPT ![spot] = @ + pending]
  BY DEF RegisterPostedOffer, Continue, areaVars
<1>2. /\ clock = spot /\ current_slot = spot /\ last_past < current_slot
      /\ pending \in Nat /\ spot \in Slots /\ spot <= spot
  BY <1>1 DEF Timing, TypeOK, Slots
<1>3. \A s \in Slots : /\ PendingAt(s)' = 0
                       /\ offered_sell'[s] = offered_sell[s] + PendingAt(s)
                       /\ offered_sell[s] \in Int
  BY <1>1, <1>2 DEF PendingAt, TypeOK
<1>4. Timing'
  BY <1>1, <1>2 DEF Timing
<1>5. Orders'
  <2>1. NextSpot' = spot + 1 /\ NextSpot = spot + 1
    BY <1>1 DEF NextSpot
  <2>2. \A s \in Slots : s > spot => PendingAt(s) = 0
    BY <1>2 DEF PendingAt, Slots
  <2>3. \A s \in Slots : s >= spot + 1 => s > spot
    BY <1>2 DEF Slots
  <2>4. offered_sell'[spot] = open_sell[spot]
    BY <1>1, <1>2, <1>3 DEF Orders, PendingAt
  <2>5. \A s \in Slots : offered_sell'[s] >= 0
    BY <1>3 DEF Orders
  <2>6. \A s \in Slots : s > spot => offered_sell'[s] = offered_sell[s]
    BY <1>3, <2>2
  <2>. QED BY <1>1, <1>2, <1>3, <2>1, <2>3, <2>4, <2>5, <2>6 DEF Orders
<1>6. Power'
  <2>. SUFFICES ASSUME NEW s \in Slots
       PROVE  /\ pledged_sell[s] + offered_sell'[s] + 0 <= BatteryEnergy
              /\ pledged_buy[s] + offered_buy[s] <= BatteryEnergy
    BY <1>1, <1>3 DEF Power
  <2>1. /\ pledged_sell[s] + offered_sell[s] + PendingAt(s) <= BatteryEnergy
        /\ pledged_buy[s] + offered_buy[s] <= BatteryEnergy
    BY DEF Power
  <2>2. pledged_sell[s] \in Nat /\ offered_sell[s] \in Int /\ PendingAt(s) \in Int
    BY <1>2 DEF TypeOK, PendingAt
  <2>3. offered_sell'[s] = offered_sell[s] + PendingAt(s)
    BY <1>3
  <2>. QED BY ONLY <2>1, <2>2, <2>3, StorageAssumption
<1>7. Covered'
  <2>1. SellHeadroom' = SellHeadroom - pending
    <3>1. \A s \in Slots : pledged_sell'[s] + offered_sell'[s]
                             = IF s = spot THEN pledged_sell[s] + offered_sell[s] + pending
                                           ELSE pledged_sell[s] + offered_sell[s]
      BY <1>1, <1>2, <1>3 DEF PendingAt, TypeOK
    <3>2. pending \in Int
      BY <1>2
    <3>. QED BY <1>1, <1>2, <3>1, <3>2, SellHeadroomChange
  <2>2. BuyHeadroom' = BuyHeadroom
    BY <1>1 DEF BuyHeadroom
  <2>. QED BY <1>1, <1>2, <2>1, <2>2, HeadroomType DEF Covered
<1>8. pc' # "failed"
  <2>1. SellClampPasses(spot)'
    BY <1>1, <1>2, <1>6, ClampsPassNext
  <2>. QED BY <2>1 DEF RegisterPostedOffer, Continue
<1>. QED BY <1>4, <1>5, <1>6, <1>7, <1>8

(* An offer of a and a bid of b units are posted for slot k and registered. *)
OrdersPosted(k, a, b) ==
    /\ \A s \in Slots : /\ open_sell'[s] = IF s = k THEN open_sell[s] + a ELSE open_sell[s]
                        /\ offered_sell'[s] = IF s = k THEN offered_sell[s] + a
                                                       ELSE offered_sell[s]
                        /\ open_buy'[s] = IF s = k THEN open_buy[s] + b ELSE open_buy[s]
                        /\ offered_buy'[s] = IF s = k THEN offered_buy[s] + b
                                                      ELSE offered_buy[s]
    /\ UNCHANGED <<clock, spot, last_past, current_slot, pending, used_storage,
                   pledged_sell, pledged_buy>>

LEMMA OrdersPostedSafe ==
    ASSUME IInv, TypeOK', pc \in {"buy", "ticks", "future"},
           pc' \in {"future", "ticks", "failed"},
           NEW k \in Slots, NEW a \in Nat, NEW b \in Nat,
           k = spot \/ (FutureSlots # 0 /\ k > spot),
           a > 0 => a <= SellHeadroom /\ a <= MaxOfferEnergy(k),
           b > 0 => b <= BuyHeadroom /\ b <= MaxBuyEnergy(k),
           OrdersPosted(k, a, b)
    PROVE  Orders' /\ Power' /\ Covered'
<1>. USE DEF IInv
<1>1. UNCHANGED <<clock, spot, last_past, current_slot, pending, used_storage,
                  pledged_sell, pledged_buy>>
  BY DEF OrdersPosted
<1>2. current_slot = spot /\ pending = 0 /\ spot \in Slots /\ spot \in Int /\ spot <= k
  <2>1. current_slot = spot /\ pending = 0 /\ spot \in Slots
    BY DEF Timing, Orders, TypeOK
  <2>2. spot \in Int /\ k \in Int
    BY <2>1 DEF Slots
  <2>3. spot <= k
    BY <2>2
  <2>. QED BY <2>1, <2>2, <2>3
<1>3. \A s \in Slots : /\ PendingAt(s)' = 0 /\ PendingAt(s) = 0
                       /\ offered_sell[s] \in Int /\ offered_buy[s] \in Int
                       /\ open_sell[s] \in Nat /\ open_buy[s] \in Nat
                       /\ pledged_sell[s] \in Nat /\ pledged_buy[s] \in Nat /\ s \in Int
  <2>1. \A s \in Slots : PendingAt(s)' = 0 /\ PendingAt(s) = 0
    BY <1>1, <1>2 DEF PendingAt
  <2>2. \A s \in Slots : /\ offered_sell[s] \in Int /\ offered_buy[s] \in Int
                         /\ open_sell[s] \in Nat /\ open_buy[s] \in Nat
                         /\ pledged_sell[s] \in Nat /\ pledged_buy[s] \in Nat
    BY DEF TypeOK
  <2>3. \A s \in Slots : s \in Int
    BY DEF Slots
  <2>. QED BY <2>1, <2>2, <2>3
<1>4. \A s \in Slots : offered_sell[s] + 0 >= 0 /\ offered_buy[s] >= 0
  BY <1>3 DEF Orders
<1>5. Orders'
  <2>1. NextSpot' = spot + 1 /\ NextSpot = spot + 1
    BY <1>1 DEF NextSpot
  <2>2. \A s \in Slots : offered_sell'[s] + PendingAt(s)' >= 0 /\ offered_buy'[s] >= 0
    BY <1>3, <1>4 DEF OrdersPosted
  <2>3. \A s \in Slots : s < spot => open_sell'[s] = 0 /\ open_buy'[s] = 0
    <3>1. \A s \in Slots : s < spot => s # k /\ open_sell[s] = 0 /\ open_buy[s] = 0
      BY <1>2, <1>3 DEF Orders
    <3>. QED BY <3>1 DEF OrdersPosted
  <2>4. \A s \in Slots : s > spot => /\ offered_sell'[s] = open_sell'[s]
                                     /\ offered_buy'[s] = open_buy'[s]
    <3>1. \A s \in Slots : s > spot => /\ offered_sell[s] = open_sell[s]
                                       /\ offered_buy[s] = open_buy[s]
      BY DEF Orders
    <3>. QED BY <3>1 DEF OrdersPosted
  <2>5. /\ offered_sell'[spot] + pending' = open_sell'[spot]
        /\ offered_buy'[spot] = open_buy'[spot]
    <3>1. offered_sell[spot] + 0 = open_sell[spot] /\ offered_buy[spot] = open_buy[spot]
      BY <1>2 DEF Orders
    <3>2. pending' = 0 /\ offered_sell[spot] = open_sell[spot]
      BY <1>1, <1>2, <1>3, <3>1
    <3>3. /\ offered_sell'[spot] = open_sell'[spot] /\ offered_buy'[spot] = open_buy'[spot]
      BY <1>2, <3>1, <3>2 DEF OrdersPosted
    <3>4. offered_sell'[spot] \in Int
      BY <1>2 DEF TypeOK
    <3>. QED BY <3>2, <3>3, <3>4
  <2>6. FutureSlots = 0 =>
          \A s \in Slots : s >= spot + 1 => offered_sell'[s] = 0 /\ offered_buy'[s] = 0
    <3>1. FutureSlots = 0 => k = spot
      OBVIOUS
    <3>2. \A s \in Slots : s >= spot + 1 => s # spot
      BY <1>2, <1>3
    <3>3. FutureSlots = 0 =>
            \A s \in Slots : s >= spot + 1 => offered_sell[s] = 0 /\ offered_buy[s] = 0
      BY <2>1 DEF Orders
    <3>. QED BY <3>1, <3>2, <3>3 DEF OrdersPosted
  <2>. QED BY <1>1, <1>2, <2>1, <2>2, <2>3, <2>4, <2>5, <2>6 DEF Orders
<1>6. Power'
  <2>. SUFFICES ASSUME NEW s \in Slots
       PROVE  /\ pledged_sell[s] + offered_sell'[s] + 0 <= BatteryEnergy
              /\ pledged_buy[s] + offered_buy'[s] <= BatteryEnergy
    BY <1>1, <1>3 DEF Power
  <2>1. /\ pledged_sell[s] + offered_sell[s] + 0 <= BatteryEnergy
        /\ pledged_buy[s] + offered_buy[s] <= BatteryEnergy
    BY <1>3 DEF Power
  <2>2. /\ s = k => /\ offered_sell'[s] = offered_sell[s] + a
                    /\ offered_buy'[s] = offered_buy[s] + b
        /\ s # k => offered_sell'[s] = offered_sell[s] /\ offered_buy'[s] = offered_buy[s]
    BY DEF OrdersPosted
  <2>3. /\ a > 0 => a <= BatteryEnergy - pledged_sell[k] - offered_sell[k]
        /\ b > 0 => b <= BatteryEnergy - pledged_buy[k] - offered_buy[k]
    BY DEF MaxOfferEnergy, MaxBuyEnergy
  <2>4. /\ pledged_sell[s] \in Nat /\ offered_sell[s] \in Int
        /\ pledged_buy[s] \in Nat /\ offered_buy[s] \in Int
    BY <1>3
  <2>. QED BY ONLY <2>1, <2>2, <2>3, <2>4, a \in Nat, b \in Nat, StorageAssumption
<1>7. Covered'
  <2>1. SellHeadroom' = SellHeadroom - a
    <3>1. \A s \in Slots : pledged_sell'[s] + offered_sell'[s]
                             = IF s = k THEN pledged_sell[s] + offered_sell[s] + a
                                        ELSE pledged_sell[s] + offered_sell[s]
      BY <1>1, <1>3 DEF OrdersPosted
    <3>. QED BY <1>1, <1>2, <3>1, SellHeadroomChange
  <2>2. BuyHeadroom' = BuyHeadroom - b
    <3>1. \A s \in Slots : pledged_buy'[s] + offered_buy'[s]
                             = IF s = k THEN pledged_buy[s] + offered_buy[s] + b
                                        ELSE pledged_buy[s] + offered_buy[s]
      BY <1>1, <1>3 DEF OrdersPosted
    <3>. QED BY <1>1, <1>2, <3>1, BuyHeadroomChange
  <2>3. SellHeadroom >= 0 /\ BuyHeadroom >= 0
        /\ MinEnergy <= used_storage /\ used_storage <= Capacity
    BY <1>2 DEF Covered
  <2>. QED BY <1>1, <1>2, <2>1, <2>2, <2>3, HeadroomType DEF Covered
<1>. QED BY <1>5, <1>6, <1>7

(* A spot bid is an order of the kind above. *)
LEMMA SpotBidPosted ==
    ASSUME IInv, TypeOK', pc \in {"buy", "ticks"}, PostSpotBid,
           UNCHANGED <<clock, spot, last_past, current_slot, pending, used_storage,
                       pledged_sell, pledged_buy, offered_sell, open_sell>>
    PROVE  \E b \in Nat : /\ b > 0 => b <= BuyHeadroom /\ b <= MaxBuyEnergy(spot)
                          /\ OrdersPosted(spot, 0, b)
<1>. USE DEF IInv
<1>1. /\ spot \in Slots
      /\ \A s \in Slots : open_sell[s] \in Nat /\ offered_sell[s] \in Int
                          /\ open_buy[s] \in Nat /\ offered_buy[s] \in Int
  BY DEF TypeOK
<1>2. CASE UNCHANGED <<open_buy, offered_buy>>
  <2>1. OrdersPosted(spot, 0, 0)
    BY <1>1, <1>2 DEF OrdersPosted
  <2>2. 0 \in Nat /\ ~(0 > 0)
    OBVIOUS
  <2>. QED BY <2>1, <2>2
<1>3. CASE ~UNCHANGED <<open_buy, offered_buy>>
  <2>1. PICK e \in AvailableEnergyToBuy(spot) :
          /\ open_buy[spot] = 0
          /\ open_buy' = [open_buy EXCEPT ![spot] = e]
          /\ offered_buy' = [offered_buy EXCEPT ![spot] = @ + e]
    BY <1>1, <1>3 DEF PostSpotBid
  <2>2. e \in Nat /\ (e > 0 => e <= BuyHeadroom /\ e <= MaxBuyEnergy(spot))
    BY <1>1, AvailableToBuy DEF Covered
  <2>3. open_buy \in [Slots -> Nat] /\ offered_buy \in [Slots -> Int]
    BY DEF TypeOK
  <2>4. OrdersPosted(spot, 0, e)
    BY <1>1, <2>1, <2>2, <2>3 DEF OrdersPosted
  <2>. QED BY <2>2, <2>4
<1>. QED BY <1>2, <1>3

LEMMA BuyOnMarketCycleSafe ==
    ASSUME IInv, TypeOK', BuyOnMarketCycle
    PROVE  IInv'
<1>. USE DEF IInv
<1>1. /\ pc = "buy" /\ pc' \in {"future", "failed"} /\ post' = spot + 1 /\ PostSpotBid
      /\ UNCHANGED <<clock, spot, last_past, current_slot, pending, used_storage,
                     pledged_sell, pledged_buy, offered_sell, open_sell>>
  BY DEF BuyOnMarketCycle, Continue, areaVars
<1>2. PICK b \in Nat : /\ b > 0 => b <= BuyHeadroom /\ b <= MaxBuyEnergy(spot)
                       /\ OrdersPosted(spot, 0, b)
  BY <1>1, SpotBidPosted
<1>3. spot \in Slots /\ 0 \in Nat /\ ~(0 > 0)
  BY DEF TypeOK
<1>4. Orders' /\ Power' /\ Covered'
  BY <1>1, <1>2, <1>3, OrdersPostedSafe
<1>5. Timing'
  <2>1. spot \in Int
    BY <1>3 DEF Slots
  <2>. QED BY <1>1, <2>1 DEF Timing
<1>6. pc' # "failed"
  <2>1. BuyClampPasses(spot) /\ BuyClampPasses(spot)'
    BY <1>1, <1>3, <1>4, ClampsPass, ClampsPassNext
  <2>. QED BY <2>1 DEF BuyOnMarketCycle, Continue
<1>. QED BY <1>4, <1>5, <1>6

LEMMA TickSafe ==
    ASSUME IInv, TypeOK', Tick
    PROVE  IInv'
<1>. USE DEF IInv
<1>1. /\ pc = "ticks" /\ pc' \in {"ticks", "failed"} /\ PostSpotBid
      /\ UNCHANGED <<clock, spot, last_past, current_slot, post, pending, used_storage,
                     pledged_sell, pledged_buy, offered_sell, open_sell>>
  BY DEF Tick, Continue, areaVars
<1>2. PICK b \in Nat : /\ b > 0 => b <= BuyHeadroom /\ b <= MaxBuyEnergy(spot)
                       /\ OrdersPosted(spot, 0, b)
  BY <1>1, SpotBidPosted
<1>3. spot \in Slots /\ 0 \in Nat /\ ~(0 > 0)
  BY DEF TypeOK
<1>4. Orders' /\ Power' /\ Covered'
  BY <1>1, <1>2, <1>3, OrdersPostedSafe
<1>5. Timing'
  BY <1>1 DEF Timing
<1>6. pc' # "failed"
  <2>1. BuyClampPasses(spot) /\ SellClampPasses(spot)' /\ BuyClampPasses(spot)'
    BY <1>1, <1>3, <1>4, ClampsPass, ClampsPassNext
  <2>2. MinEnergy <= used_storage' /\ used_storage' <= Capacity
    BY <1>4 DEF Covered
  <2>3. /\ pledged_sell[spot] + offered_sell[spot] <= used_storage - MinEnergy
        /\ pledged_buy[spot] + offered_buy[spot] <= Capacity - used_storage
        /\ offered_sell[spot] >= 0 /\ offered_buy[spot] >= 0
    <3>1. pending = 0 /\ spot >= current_slot
      BY <1>1, <1>3 DEF Timing, Orders, Slots
    <3>. QED BY <1>3, <3>1, SlotFits
  <2>4. /\ pledged_sell[spot] \in Nat /\ offered_sell[spot] \in Int /\ used_storage \in Int
        /\ pledged_buy[spot] \in Nat /\ offered_buy[spot] \in Int
        /\ offered_buy'[spot] = offered_buy[spot] + b
    BY <1>2, <1>3 DEF TypeOK, OrdersPosted
  <2>5. b <= Capacity - used_storage - pledged_buy[spot] - offered_buy[spot]
    <3>1. /\ pledged_buy'[spot] + offered_buy'[spot] = pledged_buy[spot] + offered_buy[spot] + b
      BY <1>1, <2>4
    <3>2. SumRange(Plus(pledged_buy, offered_buy), spot, SlotCount) \in Int
          /\ pledged_buy[spot] + offered_buy[spot]
               <= SumRange(Plus(pledged_buy, offered_buy), spot, SlotCount)
      <4>1. /\ pledged_buy \in [Slots -> Int] /\ offered_buy \in [Slots -> Int]
            /\ \A s \in Slots : pledged_buy[s] + offered_buy[s] >= 0
        BY DEF TypeOK, Orders
      <4>2. spot <= spot
        BY <1>3 DEF Slots
      <4>. QED BY <1>3, <4>1, <4>2, SumPlusParts, SumPlusType
    <3>3. current_slot = spot
      BY <1>1 DEF Timing
    <3>4. b > 0 => b <= Capacity - used_storage
                          - SumRange(Plus(pledged_buy, offered_buy), spot, SlotCount)
      BY <1>2, <3>3 DEF BuyHeadroom
    <3>. QED BY <2>3, <2>4, <3>2, <3>4
  <2>6. /\ 0 <= offered_sell'[spot] /\ offered_sell'[spot] <= Capacity - MinEnergy
        /\ 0 <= pledged_sell'[spot] /\ pledged_sell'[spot] <= Capacity - MinEnergy
    BY <1>1, <2>2, <2>3, <2>4
  <2>7. /\ 0 <= pledged_buy'[spot] /\ pledged_buy'[spot] <= Capacity - MinEnergy
        /\ 0 <= offered_buy'[spot] /\ offered_buy'[spot] <= Capacity - MinEnergy
    BY <1>1, <2>2, <2>3, <2>4, <2>5
  <2>8. CheckStatePasses(spot)'
    BY <1>1, <2>1, <2>2, <2>6, <2>7 DEF CheckStatePasses
  <2>. QED BY <2>1, <2>8 DEF Tick, Continue
<1>. QED BY <1>4, <1>5, <1>6

LEMMA PostFutureOrdersSafe ==
    ASSUME IInv, TypeOK', NEW s \in Slots, PostFutureOrders(s)
    PROVE  IInv'
<1>. USE DEF IInv
<1>1. /\ pc = "future" /\ s = post /\ post' = post + 1 /\ s \in FutureOf(spot)
      /\ UNCHANGED <<clock, spot, last_past, current_slot, pending, used_storage,
                     pledged_sell, pledged_buy>>
  BY DEF PostFutureOrders, areaVars
<1>2. /\ current_slot = spot /\ pending = 0 /\ post > spot /\ spot \in Int /\ post \in Int
  BY <1>1 DEF Timing, Orders, TypeOK, Slots
<1>3. FutureSlots # 0 /\ s > spot
  BY <1>1, <1>2 DEF FutureOf, Slots
<1>4. ~SellLookupRaises(s) /\ BuyClampPasses(s)
  BY <1>2, ClampsPass DEF Covered
<1>5. PICK e \in AvailableEnergyToBuy(s) :
        LET sell == IF open_sell[s] = 0 THEN AvailableEnergyToSell(s) ELSE 0
            buy == IF open_buy[s] = 0 THEN e ELSE 0
        IN  /\ open_sell' = [open_sell EXCEPT ![s] = @ + sell]
            /\ offered_sell' = [offered_sell EXCEPT ![s] = @ + sell]
            /\ open_buy' = [open_buy EXCEPT ![s] = @ + buy]
            /\ offered_buy' = [offered_buy EXCEPT ![s] = @ + buy]
            /\ Continue("future", /\ BuyClampPasses(s)
                                  /\ SellClampPasses(s)' /\ BuyClampPasses(s)')
  BY <1>4 DEF PostFutureOrders
<1>. DEFINE a == IF open_sell[s] = 0 THEN AvailableEnergyToSell(s) ELSE 0
            b == IF open_buy[s] = 0 THEN e ELSE 0
<1>6. a \in Nat /\ (a > 0 => a <= SellHeadroom /\ a <= MaxOfferEnergy(s))
  BY <1>4, AvailableToSell
<1>7. b \in Nat /\ (b > 0 => b <= BuyHeadroom /\ b <= MaxBuyEnergy(s))
  BY AvailableToBuy DEF Covered
<1>8. OrdersPosted(s, a, b)
  <2>1. /\ open_sell' = [open_sell EXCEPT ![s] = @ + a]
        /\ offered_sell' = [offered_sell EXCEPT ![s] = @ + a]
        /\ open_buy' = [open_buy EXCEPT ![s] = @ + b]
        /\ offered_buy' = [offered_buy EXCEPT ![s] = @ + b]
    BY <1>5
  <2>2. /\ open_sell \in [Slots -> Nat] /\ open_buy \in [Slots -> Nat]
        /\ offered_sell \in [Slots -> Int] /\ offered_buy \in [Slots -> Int]
    BY DEF TypeOK
  <2>. HIDE DEF a, b
  <2>. QED BY <1>1, <2>1, <2>2 DEF OrdersPosted
<1>9. pc' \in {"future", "failed"}
  BY <1>5 DEF Continue
<1>. HIDE DEF a, b
<1>10. Orders' /\ Power' /\ Covered'
  BY <1>1, <1>3, <1>6, <1>7, <1>8, <1>9, OrdersPostedSafe
<1>11. pc' = "future"
  <2>1. SellClampPasses(s)' /\ BuyClampPasses(s)'
    BY <1>10, ClampsPassNext
  <2>. QED BY <1>4, <1>5, <2>1 DEF Continue
<1>12. Timing'
  BY <1>1, <1>2, <1>11 DEF Timing
<1>. QED BY <1>10, <1>11, <1>12

LEMMA DeletePastStateSafe ==
    ASSUME IInv, TypeOK', DeletePastState
    PROVE  IInv'
<1>. USE DEF IInv
<1>1. /\ pc = "future" /\ pc' = "ticks"
      /\ UNCHANGED <<clock, spot, last_past, current_slot, post, pending, used_storage,
                     open_sell, open_buy>>
      /\ \A s \in Slots :
           /\ pledged_sell'[s] = IF s < last_past THEN 0 ELSE pledged_sell[s]
           /\ pledged_buy'[s] = IF s < last_past THEN 0 ELSE pledged_buy[s]
           /\ offered_sell'[s] = IF s < last_past THEN 0 ELSE offered_sell[s]
           /\ offered_buy'[s] = IF s < last_past THEN 0 ELSE offered_buy[s]
  BY DEF DeletePastState, areaVars
<1>2. /\ clock = spot /\ current_slot = spot /\ last_past < current_slot /\ pending = 0
      /\ spot \in Slots /\ spot \in Int /\ last_past \in Int
  BY <1>1 DEF Timing, Orders, TypeOK, Slots, NoSlot
<1>3. \A s \in Slots : s \in Int /\ PendingAt(s) = 0 /\ PendingAt(s)' = 0
                       /\ (s >= spot => ~(s < last_past))
  BY <1>1, <1>2 DEF PendingAt, Slots
<1>4. Timing'
  BY <1>1, <1>2 DEF Timing
<1>5. Orders'
  <2>1. NextSpot' = spot + 1 /\ NextSpot = spot + 1
    BY <1>1 DEF NextSpot
  <2>2. \A s \in Slots : s >= spot => /\ offered_sell'[s] = offered_sell[s]
                                      /\ offered_buy'[s] = offered_buy[s]
    BY <1>1, <1>3
  <2>3. \A s \in Slots : (s > spot => s >= spot) /\ (s >= spot + 1 => s >= spot)
    BY <1>2, <1>3
  <2>4. spot >= spot
    BY <1>2
  <2>5. \A s \in Slots : offered_sell'[s] + PendingAt(s)' >= 0 /\ offered_buy'[s] >= 0
    BY <1>1, <1>3 DEF Orders, TypeOK
  <2>. QED BY <1>1, <1>2, <2>1, <2>2, <2>3, <2>4, <2>5 DEF Orders
<1>6. Power'
  <2>. SUFFICES ASSUME NEW s \in Slots
       PROVE  /\ pledged_sell'[s] + offered_sell'[s] + 0 <= BatteryEnergy
              /\ pledged_buy'[s] + offered_buy'[s] <= BatteryEnergy
    BY <1>3 DEF Power
  <2>1. /\ pledged_sell[s] + offered_sell[s] + 0 <= BatteryEnergy
        /\ pledged_buy[s] + offered_buy[s] <= BatteryEnergy
    BY <1>3 DEF Power
  <2>2. CASE s < last_past
    BY <1>1, <2>2
  <2>3. CASE ~(s < last_past)
    BY <1>1, <2>1, <2>3
  <2>. QED BY <2>2, <2>3
<1>7. Covered'
  <2>1. SellHeadroom' = SellHeadroom
    <3>1. SumRange(Plus(pledged_sell', offered_sell'), current_slot, SlotCount)
            = SumRange(Plus(pledged_sell, offered_sell), current_slot, SlotCount)
      <4>1. /\ pledged_sell \in [Slots -> Int] /\ offered_sell \in [Slots -> Int]
            /\ pledged_sell' \in [Slots -> Int] /\ offered_sell' \in [Slots -> Int]
        BY DEF TypeOK
      <4>2. \A s \in Slots : s >= spot =>
              pledged_sell'[s] + offered_sell'[s] = pledged_sell[s] + offered_sell[s]
        BY <1>1, <1>3
      <4>. QED BY <1>2, <4>1, <4>2, SumPlusTail
    <3>. QED BY <1>1, <3>1 DEF SellHeadroom
  <2>2. BuyHeadroom' = BuyHeadroom
    <3>1. SumRange(Plus(pledged_buy', offered_buy'), current_slot, SlotCount)
            = SumRange(Plus(pledged_buy, offered_buy), current_slot, SlotCount)
      <4>1. /\ pledged_buy \in [Slots -> Int] /\ offered_buy \in [Slots -> Int]
            /\ pledged_buy' \in [Slots -> Int] /\ offered_buy' \in [Slots -> Int]
        BY DEF TypeOK
      <4>2. \A s \in Slots : s >= spot =>
              pledged_buy'[s] + offered_buy'[s] = pledged_buy[s] + offered_buy[s]
        BY <1>1, <1>3
      <4>. QED BY <1>2, <4>1, <4>2, SumPlusTail
    <3>. QED BY <1>1, <3>1 DEF BuyHeadroom
  <2>. QED BY <1>1, <2>1, <2>2 DEF Covered
<1>. QED BY <1>1, <1>4, <1>5, <1>6, <1>7

LEMMA TradeOfferSafe ==
    ASSUME IInv, TypeOK', NEW s \in Slots, NEW e \in 1..BatteryEnergy, TradeOffer(s, e)
    PROVE  IInv'
<1>. USE DEF IInv
<1>1. /\ pc = "ticks" \/ (pc = "register" /\ s = spot)
      /\ pc' \in {pc, "failed"} /\ e <= open_sell[s] /\ e \in Nat /\ e > 0
      /\ UNCHANGED <<clock, spot, last_past, current_slot, post, pending, used_storage,
                     pledged_buy, offered_buy, open_buy>>
      /\ open_sell' = [open_sell EXCEPT ![s] = @ - e]
      /\ pledged_sell' = [pledged_sell EXCEPT ![s] = @ + e]
      /\ offered_sell' = [offered_sell EXCEPT ![s] = @ - e]
  BY DEF TradeOffer, Continue, areaVars
<1>2. /\ clock = spot /\ current_slot = spot /\ last_past < current_slot
      /\ spot \in Slots /\ spot \in Int /\ s \in Int
  <2>1. clock = spot /\ current_slot = spot /\ last_past < current_slot /\ spot \in Slots
    BY <1>1 DEF Timing, TypeOK
  <2>2. spot \in Int /\ s \in Int
    BY <2>1 DEF Slots
  <2>. QED BY <2>1, <2>2
<1>3. \A k \in Slots : /\ k # s => /\ open_sell'[k] = open_sell[k]
                                   /\ pledged_sell'[k] = pledged_sell[k]
                                   /\ offered_sell'[k] = offered_sell[k]
                       /\ k = s => /\ open_sell'[k] = open_sell[k] - e
                                   /\ pledged_sell'[k] = pledged_sell[k] + e
                                   /\ offered_sell'[k] = offered_sell[k] - e
  <2>1. /\ open_sell \in [Slots -> Nat] /\ pledged_sell \in [Slots -> Nat]
        /\ offered_sell \in [Slots -> Int]
    BY DEF TypeOK
  <2>. QED BY <1>1, <2>1
<1>4. \A k \in Slots : /\ open_sell[k] \in Nat /\ pledged_sell[k] \in Nat
                       /\ offered_sell[k] \in Int /\ PendingAt(k) \in Nat
                       /\ PendingAt(k)' = PendingAt(k)
  BY <1>1 DEF TypeOK, PendingAt
<1>5. s >= spot
  <2>1. s < spot => open_sell[s] = 0
    BY DEF Orders
  <2>. QED BY <1>1, <1>2, <1>4, <2>1
<1>6. offered_sell[s] + PendingAt(s) = open_sell[s]
  <2>1. CASE s = spot
    BY <1>1, <2>1 DEF Orders, PendingAt
  <2>2. CASE s > spot
    <3>1. offered_sell[s] = open_sell[s] /\ PendingAt(s) = 0
      BY <1>2, <2>2 DEF Orders, PendingAt
    <3>. QED BY <1>4, <3>1
  <2>. QED BY <1>2, <1>5, <2>1, <2>2
<1>7. Timing'
  BY <1>1, <1>2 DEF Timing
<1>8. Power'
  <2>. SUFFICES ASSUME NEW k \in Slots
       PROVE  /\ pledged_sell'[k] + offered_sell'[k] + PendingAt(k) <= BatteryEnergy
              /\ pledged_buy[k] + offered_buy[k] <= BatteryEnergy
    BY <1>1, <1>4 DEF Power
  <2>1. /\ pledged_sell[k] + offered_sell[k] + PendingAt(k) <= BatteryEnergy
        /\ pledged_buy[k] + offered_buy[k] <= BatteryEnergy
    BY DEF Power
  <2>. QED BY <1>1, <1>3, <1>4, <2>1
<1>9. pc' = pc
  <2>1. SellClampPasses(s)'
    BY <1>8, ClampsPassNext
  <2>. QED BY <2>1 DEF TradeOffer, Continue
<1>10. Orders'
  <2>1. NextSpot' = spot + 1 /\ NextSpot = spot + 1
    BY <1>1 DEF NextSpot
  <2>2. \A k \in Slots : offered_sell'[k] + PendingAt(k)' >= 0 /\ offered_buy[k] >= 0
    <3>. SUFFICES ASSUME NEW k \in Slots
         PROVE  offered_sell'[k] + PendingAt(k) >= 0 /\ offered_buy[k] >= 0
      BY <1>4
    <3>1. offered_sell[k] + PendingAt(k) >= 0 /\ offered_buy[k] >= 0
      BY DEF Orders
    <3>. QED BY <1>1, <1>3, <1>4, <1>6, <3>1
  <2>3. \A k \in Slots : k < spot => open_sell'[k] = 0 /\ open_buy[k] = 0
    <3>1. \A k \in Slots : k < spot => k # s
      BY <1>2, <1>5 DEF Slots
    <3>. QED BY <1>3, <3>1 DEF Orders
  <2>4. \A k \in Slots : k > spot => /\ offered_sell'[k] = open_sell'[k]
                                     /\ offered_buy[k] = open_buy[k]
    <3>1. \A k \in Slots : k > spot => /\ offered_sell[k] = open_sell[k]
                                       /\ offered_buy[k] = open_buy[k]
      BY DEF Orders
    <3>. QED BY <1>3, <3>1
  <2>5. /\ offered_sell'[spot] + pending = open_sell'[spot]
        /\ offered_buy[spot] = open_buy[spot]
    <3>1. offered_sell[spot] + pending = open_sell[spot] /\ offered_buy[spot] = open_buy[spot]
      BY <1>1 DEF Orders
    <3>2. pending \in Nat
      BY DEF TypeOK
    <3>. QED BY <1>1, <1>2, <1>3, <1>4, <3>1, <3>2
  <2>6. FutureSlots = 0 =>
          \A k \in Slots : k >= spot + 1 => offered_sell'[k] = 0 /\ offered_buy[k] = 0
    <3>. SUFFICES ASSUME FutureSlots = 0, NEW k \in Slots, k >= spot + 1
         PROVE  offered_sell'[k] = 0 /\ offered_buy[k] = 0
      OBVIOUS
    <3>1. offered_sell[k] = 0 /\ offered_buy[k] = 0
      BY <2>1 DEF Orders
    <3>2. k > spot
      BY <1>2 DEF Slots
    <3>3. open_sell[k] = 0
      BY <3>1, <3>2 DEF Orders
    <3>4. k # s
      BY <1>1, <3>3
    <3>. QED BY <1>3, <3>1, <3>4
  <2>7. pc \notin {"dispatch", "sell"} /\ (pc # "register" => pending = 0)
    BY <1>1 DEF Orders
  <2>. QED BY <1>1, <1>9, <2>1, <2>2, <2>3, <2>4, <2>5, <2>6, <2>7 DEF Orders
<1>11. Covered'
  <2>1. SellHeadroom' = SellHeadroom - 0
    <3>1. \A k \in Slots : pledged_sell'[k] + offered_sell'[k]
                             = IF k = s THEN pledged_sell[k] + offered_sell[k] + 0
                                        ELSE pledged_sell[k] + offered_sell[k]
      BY <1>1, <1>3, <1>4
    <3>2. 0 \in Int /\ current_slot <= s
      BY <1>2, <1>5
    <3>. QED BY <1>1, <3>1, <3>2, SellHeadroomChange
  <2>2. BuyHeadroom' = BuyHeadroom
    BY <1>1 DEF BuyHeadroom
  <2>. QED BY <1>1, <2>1, <2>2, HeadroomType DEF Covered
<1>. QED BY <1>1, <1>7, <1>8, <1>9, <1>10, <1>11

LEMMA TradeBidSafe ==
    ASSUME IInv, TypeOK', NEW s \in Slots, NEW e \in 1..BatteryEnergy, TradeBid(s, e)
    PROVE  IInv'
<1>. USE DEF IInv
<1>1. /\ pc = "ticks" /\ pc' \in {pc, "failed"} /\ e <= open_buy[s] /\ e \in Nat /\ e > 0
      /\ UNCHANGED <<clock, spot, last_past, current_slot, post, pending, used_storage,
                     pledged_sell, offered_sell, open_sell>>
      /\ open_buy' = [open_buy EXCEPT ![s] = @ - e]
      /\ pledged_buy' = [pledged_buy EXCEPT ![s] = @ + e]
      /\ offered_buy' = [offered_buy EXCEPT ![s] = @ - e]
  BY DEF TradeBid, Continue, areaVars
<1>2. /\ clock = spot /\ current_slot = spot /\ last_past < current_slot
      /\ spot \in Slots /\ spot \in Int /\ s \in Int
  <2>1. clock = spot /\ current_slot = spot /\ last_past < current_slot /\ spot \in Slots
    BY <1>1 DEF Timing, TypeOK
  <2>2. spot \in Int /\ s \in Int
    BY <2>1 DEF Slots
  <2>. QED BY <2>1, <2>2
<1>3. \A k \in Slots : /\ k # s => /\ open_buy'[k] = open_buy[k]
                                   /\ pledged_buy'[k] = pledged_buy[k]
                                   /\ offered_buy'[k] = offered_buy[k]
                       /\ k = s => /\ open_buy'[k] = open_buy[k] - e
                                   /\ pledged_buy'[k] = pledged_buy[k] + e
                                   /\ offered_buy'[k] = offered_buy[k] - e
  <2>1. /\ open_buy \in [Slots -> Nat] /\ pledged_buy \in [Slots -> Nat]
        /\ offered_buy \in [Slots -> Int]
    BY DEF TypeOK
  <2>. QED BY <1>1, <2>1
<1>4. \A k \in Slots : /\ open_buy[k] \in Nat /\ pledged_buy[k] \in Nat
                       /\ offered_buy[k] \in Int /\ PendingAt(k)' = PendingAt(k)
  BY <1>1 DEF TypeOK, PendingAt
<1>5. s >= spot
  <2>1. s < spot => open_buy[s] = 0
    BY DEF Orders
  <2>. QED BY <1>1, <1>2, <1>4, <2>1
<1>6. offered_buy[s] = open_buy[s]
  <2>1. CASE s = spot
    BY <1>1, <2>1 DEF Orders
  <2>2. CASE s > spot
    BY <2>2 DEF Orders
  <2>. QED BY <1>2, <1>5, <2>1, <2>2
<1>7. Timing'
  BY <1>1, <1>2 DEF Timing
<1>8. Power'
  <2>. SUFFICES ASSUME NEW k \in Slots
       PROVE  /\ pledged_sell[k] + offered_sell[k] + PendingAt(k) <= BatteryEnergy
              /\ pledged_buy'[k] + offered_buy'[k] <= BatteryEnergy
    BY <1>1, <1>4 DEF Power
  <2>1. /\ pledged_sell[k] + offered_sell[k] + PendingAt(k) <= BatteryEnergy
        /\ pledged_buy[k] + offered_buy[k] <= BatteryEnergy
    BY DEF Power
  <2>. QED BY <1>1, <1>3, <1>4, <2>1
<1>9. pc' = pc
  <2>1. BuyClampPasses(s)'
    BY <1>8, ClampsPassNext
  <2>. QED BY <2>1 DEF TradeBid, Continue
<1>10. Orders'
  <2>1. NextSpot' = spot + 1 /\ NextSpot = spot + 1
    BY <1>1, <1>9 DEF NextSpot
  <2>2. \A k \in Slots : offered_sell[k] + PendingAt(k)' >= 0 /\ offered_buy'[k] >= 0
    <3>. SUFFICES ASSUME NEW k \in Slots
         PROVE  offered_sell[k] + PendingAt(k) >= 0 /\ offered_buy'[k] >= 0
      BY <1>4
    <3>1. offered_sell[k] + PendingAt(k) >= 0 /\ offered_buy[k] >= 0
      BY DEF Orders
    <3>. QED BY <1>1, <1>3, <1>4, <1>6, <3>1
  <2>3. \A k \in Slots : k < spot => open_sell[k] = 0 /\ open_buy'[k] = 0
    <3>1. \A k \in Slots : k < spot => k # s
      BY <1>2, <1>5 DEF Slots
    <3>. QED BY <1>3, <3>1 DEF Orders
  <2>4. \A k \in Slots : k > spot => /\ offered_sell[k] = open_sell[k]
                                     /\ offered_buy'[k] = open_buy'[k]
    <3>1. \A k \in Slots : k > spot => /\ offered_sell[k] = open_sell[k]
                                       /\ offered_buy[k] = open_buy[k]
      BY DEF Orders
    <3>. QED BY <1>3, <3>1
  <2>5. /\ offered_sell[spot] + pending = open_sell[spot]
        /\ offered_buy'[spot] = open_buy'[spot]
    <3>1. offered_sell[spot] + pending = open_sell[spot] /\ offered_buy[spot] = open_buy[spot]
      BY <1>1 DEF Orders
    <3>. QED BY <1>2, <1>3, <3>1
  <2>6. FutureSlots = 0 =>
          \A k \in Slots : k >= spot + 1 => offered_sell[k] = 0 /\ offered_buy'[k] = 0
    <3>. SUFFICES ASSUME FutureSlots = 0, NEW k \in Slots, k >= spot + 1
         PROVE  offered_sell[k] = 0 /\ offered_buy'[k] = 0
      OBVIOUS
    <3>1. offered_sell[k] = 0 /\ offered_buy[k] = 0
      BY <2>1 DEF Orders
    <3>2. k # s
      BY <1>1, <1>6, <3>1
    <3>. QED BY <1>3, <3>1, <3>2
  <2>. QED BY <1>1, <1>9, <2>1, <2>2, <2>3, <2>4, <2>5, <2>6 DEF Orders
<1>11. Covered'
  <2>1. BuyHeadroom' = BuyHeadroom - 0
    <3>1. \A k \in Slots : pledged_buy'[k] + offered_buy'[k]
                             = IF k = s THEN pledged_buy[k] + offered_buy[k] + 0
                                        ELSE pledged_buy[k] + offered_buy[k]
      BY <1>1, <1>3, <1>4
    <3>2. 0 \in Int /\ current_slot <= s
      BY <1>2, <1>5
    <3>. QED BY <1>1, <3>1, <3>2, BuyHeadroomChange
  <2>2. SellHeadroom' = SellHeadroom
    BY <1>1 DEF SellHeadroom
  <2>. QED BY <1>1, <2>1, <2>2, HeadroomType DEF Covered
<1>. QED BY <1>1, <1>7, <1>8, <1>9, <1>10, <1>11

LEMMA TryToBuyOfferSafe ==
    ASSUME IInv, TypeOK', NEW offered \in 1..BatteryEnergy, TryToBuyOffer(offered)
    PROVE  IInv'
<1>. USE DEF IInv
<1>1. /\ pc \in {"ticks", "dispatch"} /\ pc' \in {pc, "failed"}
      /\ UNCHANGED <<clock, spot, last_past, current_slot, post, pending, used_storage,
                     pledged_sell, offered_sell, offered_buy, open_sell, open_buy>>
  BY DEF TryToBuyOffer, Continue, areaVars
<1>2. spot \in Slots /\ current_slot <= spot /\ pending = 0
  <2>1. spot \in Slots /\ current_slot \in Slots /\ pending = 0
        /\ (current_slot = spot \/ spot = current_slot + 1)
    BY <1>1 DEF Timing, Orders, TypeOK
  <2>2. spot \in Int /\ current_slot \in Int
    BY <2>1 DEF Slots
  <2>. QED BY <2>1, <2>2
<1>3. PICK available \in AvailableEnergyToBuy(spot) :
        /\ Least(offered, available) > 0
        /\ pledged_buy' = [pledged_buy EXCEPT ![spot] = @ + Least(offered, available)]
  BY DEF TryToBuyOffer
<1>. DEFINE e == Least(offered, available)
<1>4. e \in Nat /\ e <= BuyHeadroom /\ e <= MaxBuyEnergy(spot)
  <2>1. /\ available \in Nat
        /\ available > 0 => available <= BuyHeadroom /\ available <= MaxBuyEnergy(spot)
    BY <1>2, AvailableToBuy DEF Covered
  <2>2. MaxBuyEnergy(spot) \in Int /\ BuyHeadroom \in Int
    BY <1>2, HeadroomType DEF MaxBuyEnergy, TypeOK
  <2>. QED BY <1>3, <2>1, <2>2 DEF Least
<1>5. \A k \in Slots : /\ k = spot => pledged_buy'[k] = pledged_buy[k] + e
                       /\ k # spot => pledged_buy'[k] = pledged_buy[k]
                       /\ pledged_buy[k] \in Nat /\ offered_buy[k] \in Int
  <2>1. pledged_buy \in [Slots -> Nat] /\ offered_buy \in [Slots -> Int]
    BY DEF TypeOK
  <2>2. pledged_buy' = [pledged_buy EXCEPT ![spot] = @ + e]
    BY <1>3
  <2>. HIDE DEF e
  <2>. QED BY <2>1, <2>2
<1>. HIDE DEF e
<1>6. Power'
  <2>. SUFFICES ASSUME NEW k \in Slots
       PROVE  /\ pledged_sell[k] + offered_sell[k] + PendingAt(k) <= BatteryEnergy
              /\ pledged_buy'[k] + offered_buy[k] <= BatteryEnergy
    BY <1>1 DEF Power, PendingAt
  <2>1. /\ pledged_sell[k] + offered_sell[k] + PendingAt(k) <= BatteryEnergy
        /\ pledged_buy[k] + offered_buy[k] <= BatteryEnergy
    BY DEF Power
  <2>2. e <= BatteryEnergy - pledged_buy[spot] - offered_buy[spot]
    BY <1>4 DEF MaxBuyEnergy
  <2>. QED BY <1>4, <1>5, <2>1, <2>2
<1>7. pc' = pc
  <2>1. BuyClampPasses(spot) /\ BuyClampPasses(spot)'
    BY <1>1, <1>2, <1>6, ClampsPass, ClampsPassNext
  <2>. QED BY <2>1 DEF TryToBuyOffer, Continue
<1>8. Timing'
  BY <1>1, <1>7 DEF Timing
<1>9. Orders'
  BY <1>1, <1>7 DEF Orders, PendingAt, NextSpot
<1>10. Covered'
  <2>1. BuyHeadroom' = BuyHeadroom - e
    <3>1. \A k \in Slots : pledged_buy'[k] + offered_buy'[k]
                             = IF k = spot THEN pledged_buy[k] + offered_buy[k] + e
                                           ELSE pledged_buy[k] + offered_buy[k]
      BY <1>1, <1>4, <1>5
    <3>. QED BY <1>1, <1>2, <1>4, <3>1, BuyHeadroomChange
  <2>2. SellHeadroom' = SellHeadroom
    BY <1>1 DEF SellHeadroom
  <2>. QED BY <1>1, <1>4, <2>1, <2>2, HeadroomType DEF Covered
<1>. QED BY <1>1, <1>6, <1>7, <1>8, <1>9, <1>10
-----------------------------------------------------------------------------
LEMMA InitSafe == Init => IInv
<1>. SUFFICES ASSUME Init PROVE IInv
  OBVIOUS
<1>1. TypeOK
  BY SlotFacts DEF Init, TypeOK, Phases, Zero, Slots
<1>2. Timing
  BY DEF Init, Timing
<1>3. Orders /\ Power
  BY <1>1 DEF Init, Orders, Power, PendingAt, Zero, TypeOK
<1>4. Covered
  <2>1. \A lo \in Slots : SumRange(Plus(Zero, Zero), lo, SlotCount) = 0
    BY ZeroSum
  <2>2. SellHeadroom = InitialEnergy - MinEnergy /\ BuyHeadroom = Capacity - InitialEnergy
    BY <1>1, <2>1 DEF Init, SellHeadroom, BuyHeadroom, TypeOK
  <2>. QED BY <2>2 DEF Init, Covered
<1>. QED BY <1>1, <1>2, <1>3, <1>4 DEF IInv, Init

LEMMA SafeStep ==
    ASSUME Ideal, IInv, [Next]_vars
    PROVE  IInv'
<1>1. TypeOK'
  BY TypeStep DEF IInv
<1>2. ASSUME NEW s \in Slots, Restart(s) PROVE FALSE
  BY <1>2 DEF Restart, Ideal, IInv, TypeOK
<1>3. CASE Finished \/ UNCHANGED vars
  <2>1. UNCHANGED vars
    BY <1>3 DEF Finished
  <2>2. Timing' /\ Orders' /\ Power'
    BY <2>1 DEF vars, areaVars, stateVars, IInv, Timing, Orders, Power, PendingAt, NextSpot
  <2>3. Covered' /\ pc' # "failed"
    BY <2>1, CoveredUnchanged DEF vars, stateVars, IInv
  <2>. QED BY <1>1, <2>2, <2>3 DEF IInv
<1>. QED
  BY <1>1, <1>2, <1>3, EndSlotSafe, RotateMarketsSafe, MarketCycleSafe, SellToSpotMarketSafe,
     RegisterPostedOfferSafe, BuyOnMarketCycleSafe, PostFutureOrdersSafe,
     DeletePastStateSafe, TickSafe, TradeOfferSafe, TradeBidSafe, TryToBuyOfferSafe DEF Next

LEMMA SafeAlways == ASSUME Ideal PROVE Spec => []IInv
<1>1. IInv /\ [Next]_vars => IInv'
  BY SafeStep
<1>. QED BY <1>1, InitSafe, PTL DEF Spec

(* Without losses and restarts no assertion of StorageState ever fires and *)
(* no lookup raises, for any battery, number of slots and trades.          *)
THEOREM NoAssertionFailsTheorem ==
    ASSUME Ideal PROVE Spec => []NoAssertionFails
<1>1. IInv => NoAssertionFails
  BY DEF IInv, NoAssertionFails
<1>. QED BY <1>1, SafeAlways, PTL

(* The energy sold and on offer for all slots to come is always covered by *)
(* the stored energy above the minimum state of charge, and the battery    *)
(* has room for all that is bought and bid for.                            *)
THEOREM CommitmentsTheorem ==
    ASSUME Ideal PROVE Spec => []CommitmentsCovered
<1>1. IInv => CommitmentsCovered
  BY DEF IInv, Covered, CommitmentsCovered, SellCommitmentsCovered, BuyCommitmentsCovered
<1>. QED BY <1>1, SafeAlways, PTL

(* The state of the storage agrees with the orders open in the markets. *)
THEOREM OfferedIsOpenTheorem ==
    ASSUME Ideal PROVE Spec => []OfferedIsOpen
<1>1. IInv => OfferedIsOpen
  <2>. SUFFICES ASSUME IInv, pc \in {"ticks", "future"}, NEW s \in Slots, s >= spot
       PROVE  offered_sell[s] = open_sell[s] /\ offered_buy[s] = open_buy[s]
    BY DEF OfferedIsOpen
  <2>1. spot \in Slots /\ spot \in Int /\ s \in Int
    <3>1. spot \in Slots
      BY DEF IInv, TypeOK
    <3>. QED BY <3>1 DEF Slots
  <2>2. CASE s = spot
    <3>1. offered_sell[spot] + 0 = open_sell[spot] /\ offered_buy[spot] = open_buy[spot]
      BY DEF IInv, Orders
    <3>2. offered_sell[spot] \in Int
      BY <2>1 DEF IInv, TypeOK
    <3>. QED BY <2>2, <3>1, <3>2
  <2>3. CASE s > spot
    BY <2>3 DEF IInv, Orders
  <2>. QED BY <2>1, <2>2, <2>3
<1>. QED BY <1>1, SafeAlways, PTL

(* The storage implements the battery contract. *)
THEOREM BatteryContractTheorem ==
    ASSUME Ideal PROVE Spec => BatteryContract
<1>1. Init => Contract!Init
  BY DEF Init, Contract!Init
<1>2. ASSUME IInv, IInv', [Next]_vars
      PROVE  [Contract!Deliver]_<<used_storage, current_slot>>
  <2>1. CASE MarketCycle
    <3>1. /\ pc = "dispatch" /\ current_slot' = spot
          /\ UNCHANGED <<pledged_sell, pledged_buy, last_past>>
      BY <2>1 DEF MarketCycle, areaVars
    <3>2. pending = 0 /\ \/ last_past = current_slot /\ spot = current_slot + 1
                         \/ last_past = NoSlot /\ current_slot = 0 /\ spot = 0
      BY <1>2, <3>1 DEF IInv, Timing, Orders
    <3>3. CASE last_past = NoSlot
      <4>1. spot = current_slot
        BY <1>2, <3>2, <3>3 DEF NoSlot, IInv, TypeOK, Slots
      <4>2. used_storage' = used_storage
        BY <1>2, <2>1, <3>3 DEF MarketCycle, PastSlot, IInv, TypeOK
      <4>. QED BY <3>1, <4>1, <4>2
    <3>4. CASE last_past = current_slot /\ spot = current_slot + 1
      <4>1. current_slot \in Slots /\ current_slot \in Int /\ last_past # NoSlot
        BY <1>2, <3>4 DEF IInv, TypeOK, Slots, NoSlot
      <4>2. /\ pledged_sell[current_slot] \in Nat /\ pledged_buy[current_slot] \in Nat
            /\ offered_sell[current_slot] \in Int /\ offered_buy[current_slot] \in Int
            /\ used_storage \in Int
        BY <1>2, <4>1 DEF IInv, TypeOK
      <4>3. used_storage' = used_storage - pledged_sell[current_slot]
                              + pledged_buy[current_slot]
        <5>1. Loss(pledged_sell[current_slot], pledged_buy[current_slot]) = 0
          BY <4>2, NoLoss
        <5>2. used_storage' = used_storage - pledged_sell[current_slot]
                                + pledged_buy[current_slot]
                                - Loss(pledged_sell[current_slot], pledged_buy[current_slot])
          BY <2>1, <3>4, <4>1 DEF MarketCycle, PastSlot
        <5>. QED BY <4>2, <5>1, <5>2
      <4>4. /\ pledged_sell[current_slot] <= BatteryEnergy
            /\ pledged_buy[current_slot] <= BatteryEnergy
        <5>1. PendingAt(current_slot) = 0
          BY <3>2 DEF PendingAt
        <5>2. /\ pledged_sell[current_slot] + offered_sell[current_slot] + 0 <= BatteryEnergy
              /\ pledged_buy[current_slot] + offered_buy[current_slot] <= BatteryEnergy
              /\ offered_sell[current_slot] + 0 >= 0 /\ offered_buy[current_slot] >= 0
          BY <1>2, <4>1, <5>1 DEF IInv, Power, Orders
        <5>. QED BY <4>2, <5>2
      <4>5. used_storage' \in MinEnergy..Capacity
        BY <1>2 DEF IInv, Covered, TypeOK
      <4>6. used_storage' - used_storage \in (-BatteryEnergy)..BatteryEnergy
        BY <4>2, <4>3, <4>4
      <4>. QED BY <3>1, <3>4, <4>5, <4>6 DEF Contract!Deliver
    <3>. QED BY <3>2, <3>3, <3>4
  <2>2. CASE ~MarketCycle
    <3>1. ASSUME NEW s \in Slots, Restart(s) PROVE FALSE
      BY <1>2, <3>1 DEF Restart, Ideal, IInv, TypeOK
    <3>2. UNCHANGED <<used_storage, current_slot>>
      BY <1>2, <2>2, <3>1 DEF Next, EndSlot, RotateMarkets, SellToSpotMarket,
         RegisterPostedOffer, BuyOnMarketCycle, DeletePastState, Tick, PostFutureOrders,
         TradeOffer, TradeBid, TryToBuyOffer, Finished, vars, stateVars
    <3>. QED BY <3>2
  <2>. QED BY <2>1, <2>2
<1>. QED BY <1>1, <1>2, SafeAlways, PTL DEF Spec, BatteryContract, Contract!Spec
-----------------------------------------------------------------------------
(* Energy conservation, when no purchase is refused by the market. *)

(* A trade for a slot that is not delivered yet leaves the delivered part  *)
(* of the ledger alone.                                                    *)
Moved(f, g, k, d) ==
    /\ f \in [Slots -> Int] /\ g \in [Slots -> Int] /\ k \in Slots /\ d \in Int
    /\ \A s \in Slots : g[s] = IF s = k THEN f[s] + d ELSE f[s]

LEMMA LedgerUpdate ==
    ASSUME NEW f, NEW g, NEW k, NEW d, Moved(f, g, k, d), NEW c \in Slots, c <= k
    PROVE  PartialSums(g, SlotCount)[c] = PartialSums(f, SlotCount)[c]
<1>1. SlotCount \in Nat /\ Slots = 0..(SlotCount - 1)
  BY SlotFacts
<1>2. /\ f \in [0..(SlotCount - 1) -> Int] /\ g \in [0..(SlotCount - 1) -> Int]
      /\ k \in 0..(SlotCount - 1) /\ d \in Int
  BY <1>1 DEF Moved
<1>3. DiffersAt(f, g, SlotCount, k, d)
  BY <1>1 DEF DiffersAt, Moved
<1>4. c \in 0..k
  BY <1>2 DEF Slots
<1>5. \A i \in 0..k : PartialSums(g, SlotCount)[i] = PartialSums(f, SlotCount)[i]
  BY ONLY <1>1, <1>2, <1>3, PartialSumsUpdate, ZenonT(60)
<1>. QED BY <1>4, <1>5

LEMMA LedgerStep ==
    ASSUME NEW f \in [Slots -> Int], NEW c \in Slots
    PROVE  /\ PartialSums(f, SlotCount)[c] \in Int
           /\ c + 1 \in Slots =>
                PartialSums(f, SlotCount)[c + 1] = PartialSums(f, SlotCount)[c] + f[c]
           /\ PartialSums(f, SlotCount)[0] = 0
<1>1. /\ SlotCount \in Nat /\ Slots = 0..(SlotCount - 1) /\ Slots \subseteq 0..SlotCount
      /\ f \in [0..(SlotCount - 1) -> Int] /\ 0 \in 0..SlotCount
  BY SlotFacts DEF SlotCount
<1>2. IsSum(PartialSums(f, SlotCount), f, SlotCount)
  BY <1>1, PartialSumsDef
<1>. DEFINE p == PartialSums(f, SlotCount)
<1>. HIDE DEF p
<1>3. p[0] = 0
  BY <1>1, <1>2 DEF IsSum, p
<1>4. /\ \A i \in 0..SlotCount : p[i] \in Int
      /\ \A i \in 0..(SlotCount - 1) : p[i+1] = p[i] + f[i]
  BY <1>1, PartialSumsStep DEF p
<1>. QED BY <1>1, <1>3, <1>4 DEF p

LEMMA FlowStep ==
    ASSUME Ideal, ~AcceptMayFail, IInv, TypeOK', Flow, [Next]_vars
    PROVE  Flow'
<1>1. /\ ledger \in [Slots -> Int] /\ current_slot \in Slots /\ current_slot \in Int
      /\ spot \in Slots /\ spot \in Int /\ used_storage \in Int
      /\ \A s \in Slots : pledged_sell[s] \in Nat /\ pledged_buy[s] \in Nat /\ s \in Int
  <2>1. /\ ledger \in [Slots -> Int] /\ current_slot \in Slots
        /\ spot \in Slots /\ used_storage \in Int
        /\ \A s \in Slots : pledged_sell[s] \in Nat /\ pledged_buy[s] \in Nat
    BY DEF IInv, TypeOK
  <2>2. \A s \in Slots : s \in Int
    BY DEF Slots
  <2>. QED BY <2>1, <2>2
<1>2. CASE UNCHANGED <<current_slot, used_storage, pledged_sell, pledged_buy, ledger, losses>>
  BY <1>2 DEF Flow
<1>3. CASE DeletePastState
  <2>1. /\ UNCHANGED <<current_slot, used_storage, ledger, losses>>
        /\ \A s \in Slots :
             /\ pledged_sell'[s] = IF s < last_past THEN 0 ELSE pledged_sell[s]
             /\ pledged_buy'[s] = IF s < last_past THEN 0 ELSE pledged_buy[s]
    BY <1>3 DEF DeletePastState
  <2>2. last_past < current_slot /\ last_past \in Int
    BY <1>3 DEF DeletePastState, IInv, Timing, TypeOK, Slots, NoSlot
  <2>3. \A s \in Slots : s >= current_slot => ~(s < last_past)
    BY <1>1, <2>2
  <2>. QED BY <2>1, <2>3 DEF Flow
<1>4. ASSUME NEW s \in Slots, NEW e \in 1..BatteryEnergy, TradeOffer(s, e) PROVE Flow'
  <2>1. /\ UNCHANGED <<current_slot, used_storage, losses, pledged_buy>>
        /\ pledged_sell' = [pledged_sell EXCEPT ![s] = @ + e]
        /\ ledger' = [ledger EXCEPT ![s] = @ - e]
        /\ pc \in {"ticks", "register"} /\ e <= open_sell[s] /\ e \in Nat /\ e > 0
    BY <1>4 DEF TradeOffer
  <2>2. current_slot = spot /\ open_sell[s] \in Nat /\ (s < spot => open_sell[s] = 0)
    BY <2>1 DEF IInv, Timing, Orders, TypeOK
  <2>3. current_slot <= s
    BY <1>1, <2>1, <2>2
  <2>4. Moved(ledger, ledger', s, -e)
    <3>1. -e \in Int /\ \A x \in Int : x + (-e) = x - e
      BY <2>1
    <3>. QED BY <1>1, <2>1, <3>1 DEF Moved
  <2>5. PartialSums(ledger', SlotCount)[current_slot] = PartialSums(ledger, SlotCount)[current_slot]
    BY ONLY <1>1, <2>3, <2>4, LedgerUpdate
  <2>6. \A k \in Slots : k >= current_slot => ledger'[k] = pledged_buy'[k] - pledged_sell'[k]
    <3>. SUFFICES ASSUME NEW k \in Slots, k >= current_slot
         PROVE  ledger'[k] = pledged_buy[k] - pledged_sell'[k]
      BY <2>1
    <3>1. ledger[k] = pledged_buy[k] - pledged_sell[k]
      BY DEF Flow
    <3>2. pledged_sell \in [Slots -> Nat]
      BY DEF IInv, TypeOK
    <3>. QED BY <1>1, <2>1, <3>1, <3>2
  <2>. QED BY <2>1, <2>5, <2>6 DEF Flow
<1>5. ASSUME NEW s \in Slots, NEW e \in 1..BatteryEnergy, TradeBid(s, e) PROVE Flow'
  <2>1. /\ UNCHANGED <<current_slot, used_storage, losses, pledged_sell>>
        /\ pledged_buy' = [pledged_buy EXCEPT ![s] = @ + e]
        /\ ledger' = [ledger EXCEPT ![s] = @ + e]
        /\ pc = "ticks" /\ e <= open_buy[s] /\ e \in Nat /\ e > 0
    BY <1>5 DEF TradeBid
  <2>2. current_slot = spot /\ open_buy[s] \in Nat /\ (s < spot => open_buy[s] = 0)
    BY <2>1 DEF IInv, Timing, Orders, TypeOK
  <2>3. current_slot <= s
    BY <1>1, <2>1, <2>2
  <2>4. PartialSums(ledger', SlotCount)[current_slot] = PartialSums(ledger, SlotCount)[current_slot]
    <3>1. Moved(ledger, ledger', s, e)
      BY <1>1, <2>1 DEF Moved
    <3>. QED BY ONLY <1>1, <2>3, <3>1, LedgerUpdate
  <2>5. \A k \in Slots : k >= current_slot => ledger'[k] = pledged_buy'[k] - pledged_sell'[k]
    <3>. SUFFICES ASSUME NEW k \in Slots, k >= current_slot
         PROVE  ledger'[k] = pledged_buy'[k] - pledged_sell[k]
      BY <2>1
    <3>1. ledger[k] = pledged_buy[k] - pledged_sell[k]
      BY DEF Flow
    <3>2. pledged_buy \in [Slots -> Nat]
      BY DEF IInv, TypeOK
    <3>. QED BY <1>1, <2>1, <3>1, <3>2
  <2>. QED BY <2>1, <2>4, <2>5 DEF Flow
<1>6. ASSUME NEW offered \in 1..BatteryEnergy, TryToBuyOffer(offered) PROVE Flow'
  <2>1. UNCHANGED <<current_slot, used_storage, losses, pledged_sell>>
        /\ pc \in {"ticks", "dispatch"}
    BY <1>6 DEF TryToBuyOffer
  <2>2. current_slot <= spot
    <3>1. current_slot = spot \/ spot = current_slot + 1
      BY <2>1 DEF IInv, Timing
    <3>. QED BY <1>1, <3>1
  <2>3. PICK available \in AvailableEnergyToBuy(spot) :
          /\ pledged_buy' = [pledged_buy EXCEPT ![spot] = @ + Least(offered, available)]
          /\ ledger' = [ledger EXCEPT ![spot] = @ + Least(offered, available)]
    BY <1>6 DEF TryToBuyOffer
  <2>. DEFINE e == Least(offered, available)
  <2>4. e \in Int
    <3>1. available \in Nat
      BY <1>1, AvailableToBuy DEF IInv
    <3>. QED BY <3>1 DEF Least
  <2>5. /\ pledged_buy' = [pledged_buy EXCEPT ![spot] = @ + e]
        /\ ledger' = [ledger EXCEPT ![spot] = @ + e]
    BY <2>3
  <2>. HIDE DEF e
  <2>6. PartialSums(ledger', SlotCount)[current_slot] = PartialSums(ledger, SlotCount)[current_slot]
    <3>1. Moved(ledger, ledger', spot, e)
      BY <1>1, <2>4, <2>5 DEF Moved
    <3>. QED BY ONLY <1>1, <2>2, <3>1, LedgerUpdate
  <2>7. \A k \in Slots : k >= current_slot => ledger'[k] = pledged_buy'[k] - pledged_sell'[k]
    <3>. SUFFICES ASSUME NEW k \in Slots, k >= current_slot
         PROVE  ledger'[k] = pledged_buy'[k] - pledged_sell[k]
      BY <2>1
    <3>1. ledger[k] = pledged_buy[k] - pledged_sell[k]
      BY DEF Flow
    <3>2. pledged_buy \in [Slots -> Nat]
      BY DEF IInv, TypeOK
    <3>. QED BY <1>1, <2>4, <2>5, <3>1, <3>2
  <2>. QED BY <2>1, <2>6, <2>7 DEF Flow
<1>7. CASE MarketCycle
  <2>1. /\ pc = "dispatch" /\ current_slot' = spot
        /\ UNCHANGED <<pledged_sell, pledged_buy, ledger>>
    BY <1>7 DEF MarketCycle
  <2>2. \/ last_past = current_slot /\ spot = current_slot + 1
        \/ last_past = NoSlot /\ current_slot = 0 /\ spot = 0
    BY <2>1 DEF IInv, Timing
  <2>3. losses' = 0 /\ used_storage' = IF last_past = NoSlot THEN used_storage
                 ELSE used_storage - pledged_sell[last_past] + pledged_buy[last_past]
    <3>1. CASE last_past = NoSlot
      BY <1>1, <1>7, <3>1 DEF MarketCycle, PastSlot, Flow
    <3>2. CASE last_past # NoSlot
      <4>1. pledged_sell[last_past] \in Nat /\ pledged_buy[last_past] \in Nat
        BY <1>1, <2>2, <3>2
      <4>2. Loss(pledged_sell[last_past], pledged_buy[last_past]) = 0
        BY <4>1, NoLoss
      <4>3. used_storage' = used_storage - pledged_sell[last_past] + pledged_buy[last_past]
                              - Loss(pledged_sell[last_past], pledged_buy[last_past])
            /\ losses' = losses + Loss(pledged_sell[last_past], pledged_buy[last_past])
        BY <1>7, <3>2 DEF MarketCycle, PastSlot
      <4>. QED BY <1>1, <3>2, <4>1, <4>2, <4>3 DEF Flow
    <3>. QED BY <3>1, <3>2
  <2>4. CASE last_past = NoSlot
    <3>1. spot = current_slot
      BY <1>1, <2>2, <2>4 DEF NoSlot, Slots
    <3>. QED BY <2>1, <2>3, <2>4, <3>1 DEF Flow
  <2>5. CASE last_past = current_slot /\ spot = current_slot + 1
    <3>1. last_past # NoSlot
      BY <1>1, <2>5 DEF NoSlot, Slots
    <3>2. used_storage' = used_storage - pledged_sell[current_slot] + pledged_buy[current_slot]
      BY <2>3, <2>5, <3>1
    <3>3. PartialSums(ledger, SlotCount)[spot]
            = PartialSums(ledger, SlotCount)[current_slot] + ledger[current_slot]
          /\ PartialSums(ledger, SlotCount)[current_slot] \in Int
      BY <1>1, <2>5, LedgerStep
    <3>4. ledger[current_slot] = pledged_buy[current_slot] - pledged_sell[current_slot]
          /\ used_storage = InitialEnergy + PartialSums(ledger, SlotCount)[current_slot]
      BY <1>1 DEF Flow
    <3>5. used_storage' = InitialEnergy + PartialSums(ledger, SlotCount)[spot]
      BY <1>1, <3>2, <3>3, <3>4
    <3>6. \A s \in Slots : s >= spot => ledger[s] = pledged_buy[s] - pledged_sell[s]
      BY <1>1, <2>5 DEF Flow
    <3>. QED BY <2>1, <2>3, <3>5, <3>6 DEF Flow
  <2>. QED BY <2>2, <2>4, <2>5
<1>8. ASSUME NEW s \in Slots, Restart(s) PROVE FALSE
  BY <1>8 DEF Restart, Ideal, IInv, TypeOK
<1>9. CASE EndSlot \/ RotateMarkets \/ SellToSpotMarket \/ Finished \/ UNCHANGED vars
  BY <1>2, <1>9 DEF EndSlot, RotateMarkets, SellToSpotMarket, Finished, vars, stateVars
<1>10. CASE RegisterPostedOffer \/ BuyOnMarketCycle \/ Tick
  BY <1>2, <1>10 DEF RegisterPostedOffer, BuyOnMarketCycle, Tick
<1>11. ASSUME NEW s \in Slots, PostFutureOrders(s) PROVE Flow'
  BY <1>2, <1>11 DEF PostFutureOrders
<1>. QED BY <1>3, <1>4, <1>5, <1>6, <1>7, <1>8, <1>9, <1>10, <1>11 DEF Next

(* When no purchase is refused, the stored energy is at every moment the   *)
(* initial energy plus what was really bought minus what was really sold   *)
(* in the delivered slots.                                                 *)
THEOREM EnergyFlowTheorem ==
    ASSUME Ideal, ~AcceptMayFail PROVE Spec => []EnergyFlow
<1>1. Init => Flow
  <2>. SUFFICES ASSUME Init PROVE Flow
    OBVIOUS
  <2>1. 0 \in Slots /\ Zero \in [Slots -> Int]
    BY DEF Slots, Zero
  <2>2. PartialSums(Zero, SlotCount)[0] = 0
    BY <2>1, LedgerStep
  <2>. QED BY <2>1, <2>2 DEF Init, Flow, Zero
<1>2. IInv /\ IInv' /\ Flow /\ [Next]_vars => Flow'
  BY FlowStep DEF IInv
<1>3. IInv /\ Flow => EnergyFlow
  <2>. SUFFICES ASSUME IInv, Flow PROVE EnergyFlow
    OBVIOUS
  <2>1. PartialSums(ledger, SlotCount)[current_slot] \in Int
    BY LedgerStep DEF IInv, TypeOK
  <2>. QED BY <2>1 DEF EnergyFlow, Flow
<1>. QED BY <1>1, <1>2, <1>3, SafeAlways, PTL DEF Spec
-----------------------------------------------------------------------------
(* The power limit on sales with losses, refused purchases and restarts,   *)
(* where the battery itself may run short: from Discharge alone.           *)

(* The two facts about a slot that a step has to keep. *)
SlotDischarge(s) ==
    /\ open_sell[s] <= offered_sell[s] + PendingAt(s)
    /\ pledged_sell[s] + offered_sell[s] + PendingAt(s) <= BatteryEnergy

LEMMA SlotTypes ==
    ASSUME TypeOK, Discharge, NEW s \in Slots
    PROVE  /\ open_sell[s] \in Nat /\ offered_sell[s] \in Int /\ pledged_sell[s] \in Nat
           /\ pending \in Nat /\ PendingAt(s) \in Nat /\ spot \in Int /\ s \in Int
           /\ last_past \in Int /\ BatteryEnergy \in Nat /\ SlotDischarge(s)
BY SlotFacts DEF TypeOK, PendingAt, Discharge, SlotDischarge, Slots

(* Steps that leave the sales and the slots alone. *)
LEMMA SalesUntouched ==
    ASSUME Discharge, pc \notin {"register", "failed"} \/ pc' = pc, pc' # "dispatch" \/ pc' = pc,
           UNCHANGED <<spot, last_past, pending, open_sell, offered_sell, pledged_sell>>
    PROVE  Discharge'
BY DEF Discharge, PendingAt

LEMMA RotateMarketsDischarge ==
    ASSUME TypeOK, TypeOK', Discharge, RotateMarkets
    PROVE  Discharge'
<1>1. /\ pc = "rotate" /\ pc' = "dispatch" /\ pending = 0 /\ spot' = clock
      /\ last_past' = (IF spot = clock - 1 THEN spot ELSE NoSlot)
      /\ \A s \in Slots : open_sell'[s] = IF s <= clock THEN 0 ELSE open_sell[s]
      /\ UNCHANGED <<pending, offered_sell, pledged_sell>>
  BY DEF RotateMarkets, Discharge, stateVars
<1>2. clock \in Slots /\ spot \in Int /\ clock \in Int /\ clock >= 0
  BY DEF TypeOK, Slots
<1>3. last_past' <= spot'
  BY <1>1, <1>2, SlotFacts
<1>4. \A s \in Slots : s <= spot' => open_sell'[s] = 0
  BY <1>1
<1>5. \A s \in Slots : PendingAt(s) = 0 /\ PendingAt(s)' = 0
  BY <1>1 DEF PendingAt
<1>6. \A s \in Slots : SlotDischarge(s)'
  <2>. SUFFICES ASSUME NEW s \in Slots PROVE SlotDischarge(s)'
    OBVIOUS
  <2>. QED BY <1>1, <1>5, SlotTypes DEF SlotDischarge
<1>7. \A s \in Slots : s < spot' => s <= spot'
  BY <1>1, <1>2 DEF Slots
<1>8. spot' <= spot' /\ spot' \in Slots
  BY <1>1, <1>2
<1>. QED BY <1>1, <1>3, <1>4, <1>6, <1>7, <1>8 DEF Discharge, SlotDischarge

LEMMA MarketCycleDischarge ==
    ASSUME TypeOK, TypeOK', Discharge, MarketCycle
    PROVE  Discharge'
<1>1. /\ pc = "dispatch" /\ pc' \in {"sell", "failed"} /\ pending = 0 /\ open_sell[spot] = 0
      /\ UNCHANGED <<spot, last_past, pending, open_sell, pledged_sell>>
      /\ offered_sell' = ResetSpot(offered_sell) /\ spot \in Slots
  BY DEF MarketCycle, Discharge, areaVars, Continue, TypeOK
<1>2. \A s \in Slots : offered_sell'[s] = offered_sell[s] \/ (s = spot /\ offered_sell'[s] = 0)
  BY <1>1 DEF ResetSpot, TypeOK
<1>3. \A s \in Slots : PendingAt(s) = 0 /\ PendingAt(s)' = 0
  BY <1>1 DEF PendingAt
<1>4. ASSUME NEW s \in Slots PROVE SlotDischarge(s)'
  BY <1>1, <1>2, <1>3, SlotTypes DEF SlotDischarge
<1>. QED BY <1>1, <1>4 DEF Discharge, SlotDischarge

LEMMA SellToSpotMarketDischarge ==
    ASSUME TypeOK, TypeOK', Discharge, SellToSpotMarket
    PROVE  Discharge'
<1>1. /\ pc = "sell" /\ pc' # "dispatch" /\ pending = 0 /\ spot \in Slots
      /\ UNCHANGED <<spot, last_past, offered_sell, pledged_sell>>
  BY DEF SellToSpotMarket, Discharge, areaVars, stateVars, TypeOK
<1>2. CASE UNCHANGED <<pending, open_sell>>
  BY <1>1, <1>2, SalesUntouched
<1>3. CASE ~UNCHANGED <<pending, open_sell>>
  <2>. DEFINE e == AvailableEnergyToSell(spot)
  <2>1. /\ ~SellLookupRaises(spot) /\ e > 0 /\ ~(open_sell[spot] > 0) /\ pc' = "register"
        /\ pending' = e /\ open_sell' = [open_sell EXCEPT ![spot] = e]
    BY <1>3 DEF SellToSpotMarket
  <2>2. e \in Nat /\ e <= BatteryEnergy - pledged_sell[spot] - offered_sell[spot]
    BY <1>1, <2>1, AvailableToSell DEF MaxOfferEnergy
  <2>. HIDE DEF e
  <2>3. \A s \in Slots : open_sell'[s] = IF s = spot THEN e ELSE open_sell[s]
    BY <2>1 DEF TypeOK
  <2>4. \A s \in Slots : PendingAt(s) = 0 /\ PendingAt(s)' = IF s = spot THEN e ELSE 0
    BY <1>1, <2>1 DEF PendingAt
  <2>5. ASSUME NEW s \in Slots PROVE SlotDischarge(s)'
    BY <1>1, <2>1, <2>2, <2>3, <2>4, SlotTypes DEF SlotDischarge
  <2>6. \A s \in Slots : s < spot => open_sell'[s] = 0
    BY <1>1, <2>3, SlotTypes DEF Discharge
  <2>. QED BY <1>1, <2>1, <2>5, <2>6 DEF Discharge, SlotDischarge
<1>. QED BY <1>2, <1>3

LEMMA RegisterPostedOfferDischarge ==
    ASSUME TypeOK, TypeOK', Discharge, RegisterPostedOffer
    PROVE  Discharge'
<1>1. /\ pc' \in {"buy", "failed"} /\ pending' = 0 /\ spot \in Slots
      /\ UNCHANGED <<spot, last_past, open_sell, pledged_sell>>
      /\ offered_sell' = [offered_sell EXCEPT ![spot] = @ + pending]
  BY DEF RegisterPostedOffer, areaVars, Continue, TypeOK
<1>2. \A s \in Slots : /\ offered_sell'[s] = offered_sell[s] + PendingAt(s)
                       /\ PendingAt(s)' = 0
  BY <1>1 DEF PendingAt, TypeOK
<1>3. ASSUME NEW s \in Slots PROVE SlotDischarge(s)'
  BY <1>1, <1>2, SlotTypes DEF SlotDischarge
<1>. QED BY <1>1, <1>3 DEF Discharge, SlotDischarge

LEMMA PostFutureOrdersDischarge ==
    ASSUME TypeOK, TypeOK', Discharge, NEW t \in Slots, PostFutureOrders(t)
    PROVE  Discharge'
<1>1. /\ pc = "future" /\ pc' \in {"future", "failed"} /\ pending = 0 /\ spot \in Slots
      /\ spot < t /\ UNCHANGED <<spot, last_past, pending, pledged_sell>>
  BY DEF PostFutureOrders, Discharge, areaVars, Continue, TypeOK, FutureOf
<1>2. CASE UNCHANGED <<open_sell, offered_sell>>
  BY <1>1, <1>2, SalesUntouched
<1>3. CASE ~UNCHANGED <<open_sell, offered_sell>>
  <2>. DEFINE e == IF open_sell[t] = 0 THEN AvailableEnergyToSell(t) ELSE 0
  <2>1. /\ ~SellLookupRaises(t)
        /\ open_sell' = [open_sell EXCEPT ![t] = @ + e]
        /\ offered_sell' = [offered_sell EXCEPT ![t] = @ + e]
    BY <1>3 DEF PostFutureOrders
  <2>2. e \in Nat /\ (e > 0 => e <= BatteryEnergy - pledged_sell[t] - offered_sell[t])
    BY <2>1, AvailableToSell DEF MaxOfferEnergy
  <2>. HIDE DEF e
  <2>3. \A s \in Slots : /\ open_sell'[s] = IF s = t THEN open_sell[s] + e ELSE open_sell[s]
                         /\ offered_sell'[s] = IF s = t THEN offered_sell[s] + e
                                                        ELSE offered_sell[s]
    BY <2>1 DEF TypeOK
  <2>4. \A s \in Slots : PendingAt(s) = 0 /\ PendingAt(s)' = 0
    BY <1>1 DEF PendingAt
  <2>5. ASSUME NEW s \in Slots PROVE SlotDischarge(s)'
    BY <1>1, <2>2, <2>3, <2>4, SlotTypes DEF SlotDischarge
  <2>6. ASSUME NEW s \in Slots, s < spot PROVE open_sell'[s] = 0
    <3>1. s # t
      BY <1>1, <2>6 DEF Slots
    <3>. QED BY <2>3, <2>6, <3>1 DEF Discharge
  <2>. QED BY <1>1, <2>5, <2>6 DEF Discharge, SlotDischarge
<1>. QED BY <1>2, <1>3

LEMMA DeletePastStateDischarge ==
    ASSUME TypeOK, TypeOK', Discharge, DeletePastState
    PROVE  Discharge'
<1>1. /\ pc = "future" /\ pc' = "ticks" /\ pending = 0
      /\ UNCHANGED <<spot, last_past, pending, open_sell>>
      /\ \A s \in Slots : /\ pledged_sell'[s] = IF s < last_past THEN 0 ELSE pledged_sell[s]
                          /\ offered_sell'[s] = IF s < last_past THEN 0 ELSE offered_sell[s]
  BY DEF DeletePastState, Discharge, areaVars
<1>2. \A s \in Slots : s < last_past => open_sell[s] = 0
  <2>. SUFFICES ASSUME NEW s \in Slots, s < last_past PROVE open_sell[s] = 0
    OBVIOUS
  <2>1. s < spot
    BY SlotTypes DEF Discharge
  <2>. QED BY <2>1 DEF Discharge
<1>3. \A s \in Slots : PendingAt(s) = 0 /\ PendingAt(s)' = 0
  BY <1>1 DEF PendingAt
<1>4. ASSUME NEW s \in Slots PROVE SlotDischarge(s)'
  BY <1>1, <1>2, <1>3, SlotTypes DEF SlotDischarge
<1>. QED BY <1>1, <1>4 DEF Discharge, SlotDischarge

LEMMA TradeOfferDischarge ==
    ASSUME TypeOK, TypeOK', Discharge, NEW t \in Slots, NEW e \in 1..BatteryEnergy, TradeOffer(t, e)
    PROVE  Discharge'
<1>1. /\ pc \in {"ticks", "register"} /\ pc' \in {pc, "failed"} /\ e <= open_sell[t]
      /\ UNCHANGED <<spot, last_past, pending>> /\ e \in Nat /\ e > 0
      /\ \A s \in Slots :
            /\ open_sell'[s] = IF s = t THEN open_sell[s] - e ELSE open_sell[s]
            /\ pledged_sell'[s] = IF s = t THEN pledged_sell[s] + e ELSE pledged_sell[s]
            /\ offered_sell'[s] = IF s = t THEN offered_sell[s] - e ELSE offered_sell[s]
  BY DEF TradeOffer, areaVars, Continue, TypeOK
<1>2. \A s \in Slots : PendingAt(s)' = PendingAt(s)
  BY <1>1 DEF PendingAt
<1>3. ASSUME NEW s \in Slots PROVE SlotDischarge(s)'
  BY <1>1, <1>2, SlotTypes DEF SlotDischarge
<1>4. ASSUME NEW s \in Slots, s < spot PROVE open_sell'[s] = 0
  BY <1>1, <1>4, SlotTypes DEF Discharge
<1>. QED BY <1>1, <1>3, <1>4 DEF Discharge, SlotDischarge

LEMMA RestartDischarge ==
    ASSUME TypeOK, TypeOK', Discharge, NEW t \in Slots, Restart(t)
    PROVE  Discharge'
<1>1. /\ pc = "ticks" /\ pc' = "rotate" /\ pending = 0 /\ spot' = 0 /\ last_past' = NoSlot
      /\ UNCHANGED <<pending, offered_sell, pledged_sell>>
      /\ \A s \in Slots : open_sell'[s] = 0
  BY DEF Restart, Discharge, stateVars, Zero
<1>2. \A s \in Slots : PendingAt(s) = 0 /\ PendingAt(s)' = 0
  BY <1>1 DEF PendingAt
<1>3. ASSUME NEW s \in Slots PROVE SlotDischarge(s)'
  BY <1>1, <1>2, SlotTypes DEF SlotDischarge
<1>. QED BY <1>1, <1>3, SlotFacts DEF Discharge, SlotDischarge

LEMMA DischargeStep == TypeOK /\ TypeOK' /\ Discharge /\ [Next]_vars => Discharge'
<1>. SUFFICES ASSUME TypeOK, TypeOK', Discharge, [Next]_vars PROVE Discharge'
  OBVIOUS
<1>1. CASE EndSlot
  BY <1>1, SalesUntouched DEF EndSlot, stateVars
<1>2. CASE BuyOnMarketCycle \/ Tick
  BY <1>2, SalesUntouched DEF BuyOnMarketCycle, Tick, Continue, areaVars
<1>3. ASSUME NEW s \in Slots, NEW e \in 1..BatteryEnergy, TradeBid(s, e) PROVE Discharge'
  BY <1>3, SalesUntouched DEF TradeBid, Continue, areaVars
<1>4. ASSUME NEW e \in 1..BatteryEnergy, TryToBuyOffer(e) PROVE Discharge'
  BY <1>4, SalesUntouched DEF TryToBuyOffer, Continue, areaVars
<1>5. CASE Finished \/ UNCHANGED vars
  BY <1>5, SalesUntouched DEF Finished, vars, areaVars, stateVars
<1>. QED
  BY <1>1, <1>2, <1>3, <1>4, <1>5, RotateMarketsDischarge, MarketCycleDischarge,
     SellToSpotMarketDischarge, RegisterPostedOfferDischarge, PostFutureOrdersDischarge,
     DeletePastStateDischarge, TradeOfferDischarge, RestartDischarge DEF Next

(* Whatever is lost in the battery, refused by the market or brought back  *)
(* by a restart, the energy sold and on sale for a slot stays within what  *)
(* the power limit lets through in one slot.                               *)
THEOREM DischargeLimitTheorem == Spec => []DischargeLimitRespected
<1>1. Init => Discharge
  <2>. SUFFICES ASSUME Init PROVE Discharge
    OBVIOUS
  <2>1. \A s \in Slots : /\ open_sell[s] = 0 /\ offered_sell[s] = 0 /\ pledged_sell[s] = 0
                         /\ PendingAt(s) = 0
    BY DEF Init, Zero, PendingAt
  <2>. QED BY <2>1, SlotFacts DEF Init, Discharge
<1>2. TypeOK /\ Discharge => DischargeLimitRespected
  BY SlotTypes DEF DischargeLimitRespected, SlotDischarge
<1>. QED BY <1>1, <1>2, DischargeStep, TypeCorrect, PTL DEF Spec
=============================================================================
