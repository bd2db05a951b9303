---------------------------- MODULE StorageState ----------------------------
(***************************************************************************)
(* The energy ledger of a storage asset (StorageState) driven by the       *)
(* storage strategy (StorageStrategy) through market slots: rotation of    *)
(* the area's markets, the asset's market-cycle handler with its posts to  *)
(* the spot market and to the future market, the ticks, the trades that    *)
(* come back from the markets, one-sided purchases, and a restart of the   *)
(* simulation from exported state.                                         *)
(*                                                                         *)
(* Time slots are numbered 0..LastSlot.  Energies are whole units, so the  *)
(* tolerance constants of the code vanish.  A slot missing from a dict is  *)
(* a 0 here (write_default_to_dict writes 0 before every use).  The        *)
(* handler event_market_cycle is split at the points where it calls into a *)
(* market, because the market calls other traders back before it returns.  *)
(***************************************************************************)
EXTENDS EnergySums

CONSTANTS
    LastSlot,          \* the last slot of the simulation
    FutureSlots,       \* slots offered ahead by the future market, 0: disabled
    TwoSided,          \* TRUE: two-sided spot market, FALSE: one-sided
    Capacity,          \* capacity
    MinEnergy,         \* min_allowed_soc_ratio * capacity
    InitialEnergy,     \* initial_capacity_kWh
    BatteryEnergy,     \* battery_energy_per_slot: max power times slot length
    LossScale,         \* loss ratios are ...Loss / LossScale
    ChargingLoss, DischargingLoss,
    SelfDischarge,     \* energy lost in every slot
    AcceptMayFail,     \* TRUE: accept_offer may raise a MarketException
    MaxRestarts        \* bound on restarts from exported state

ASSUME StorageAssumption ==
    /\ LastSlot \in Nat /\ FutureSlots \in Nat /\ TwoSided \in BOOLEAN
    /\ Capacity \in Nat /\ MinEnergy \in Nat /\ InitialEnergy \in Nat
    /\ MinEnergy <= InitialEnergy /\ InitialEnergy <= Capacity
    /\ BatteryEnergy \in Nat /\ LossScale \in Nat \ {0}
    /\ ChargingLoss \in Nat /\ DischargingLoss \in Nat /\ SelfDischarge \in Nat
    /\ AcceptMayFail \in BOOLEAN /\ MaxRestarts \in Nat

(* No losses and no restart: the setting of the safety theorems. *)
Ideal ==
    /\ ChargingLoss = 0 /\ DischargingLoss = 0 /\ SelfDischarge = 0
    /\ MaxRestarts = 0

Slots == 0..LastSlot
SlotCount == LastSlot + 1
NoSlot == -1

VARIABLES
    pc,             \* where the simulation is in its slot, see Phases
    clock,          \* slot of the area's current tick
    spot,           \* slot of the area's spot market
    last_past,      \* slot of area.last_past_market, or NoSlot
    current_slot,   \* StorageState._current_market_slot
    post,           \* next slot of the future-market posting loop
    pending,        \* energy of the spot offer that is posted, not registered
    used_storage,
    pledged_sell, pledged_buy, offered_sell, offered_buy,
    open_sell, open_buy,  \* energy of the asset's orders open in the markets
    ledger,         \* history: energy really bought minus sold, per slot
    losses,         \* history: the sum of loss_history
    restarts

stateVars == <<used_storage, pledged_sell, pledged_buy, offered_sell, offered_buy>>
areaVars == <<clock, spot, last_past>>
vars == <<pc, areaVars, current_slot, post, pending, stateVars,
          open_sell, open_buy, ledger, losses, restarts>>

(* rotate: the area is about to cycle its markets.  dispatch: rotated, the *)
(* asset has not yet handled its market cycle.  sell, register, buy,       *)
(* future: inside event_market_cycle.  failed: an assertion or a KeyError  *)
(* escaped a handler, which ends the simulation.                           *)
Phases == {"rotate", "dispatch", "sell", "register", "buy", "future",
           "ticks", "done", "failed"}

Zero == [s \in Slots |-> 0]
Least(a, b) == IF a <= b THEN a ELSE b
Abs(a) == IF a < 0 THEN -a ELSE a
FutureOf(s) == {t \in Slots : s < t /\ t <= s + FutureSlots}
-----------------------------------------------------------------------------
(* StorageState: what may still be sold and bought. *)

FreeStorage(s) == Capacity - (used_storage - pledged_sell[s] + pledged_buy[s])

MaxBuyEnergy_IgnoresPledged(s) == BatteryEnergy - offered_buy[s]

MaxOfferEnergy(s) == BatteryEnergy - pledged_sell[s] - offered_sell[s]
MaxBuyEnergy(s)   == BatteryEnergy - pledged_buy[s] - offered_buy[s]

SellHeadroom_SpotOnly ==
    used_storage - pledged_sell[current_slot] - offered_sell[current_slot] - MinEnergy

(* available_energy_for_all_slots of the two clamp methods. *)
SellHeadroom ==
    used_storage - SumRange(Plus(pledged_sell, offered_sell), current_slot, SlotCount)
      - MinEnergy

BuyHeadroom ==
    Capacity - used_storage
      - SumRange(Plus(pledged_buy, offered_buy), current_slot, SlotCount)

ClampEnergyToSell(s) == Least(SellHeadroom, Least(MaxOfferEnergy(s), BatteryEnergy))
ClampEnergyToBuy(s) ==
    LET e == Least(BuyHeadroom, Least(MaxBuyEnergy(s), BatteryEnergy))
    IN  IF e < 0 THEN 0 ELSE e

(* The clamp loops assert that the power limit of the slot is respected;   *)
(* they leave the loop first when nothing is available.                    *)
SellClampPasses(s) == SellHeadroom >= 0 => MaxOfferEnergy(s) >= 0
BuyClampPasses(s)  == BuyHeadroom >= 0 => MaxBuyEnergy(s) >= 0

NetEnergy(s) == pledged_sell[s] + offered_sell[s] - pledged_buy[s] - offered_buy[s]
HasReachedMaxDischargePower(e, s) == Abs(e + NetEnergy(s)) > BatteryEnergy
HasReachedMaxChargePower(e, s)    == Abs(e - NetEnergy(s)) > BatteryEnergy

(* get_available_energy_to_sell_kWh: when the clamp loop broke out, the    *)
(* returned dict has no entry for the slot and the lookup raises KeyError. *)
SellLookupRaises(s) ==
    used_storage # 0 /\ (SellHeadroom < 0 \/ MaxOfferEnergy(s) < 0)

AvailableEnergyToSell(s) ==
    IF used_storage = 0 \/ HasReachedMaxDischargePower(ClampEnergyToSell(s), s)
    THEN 0 ELSE ClampEnergyToSell(s)

(* get_available_energy_to_buy_kWh, as the set of its possible results:    *)
(* when the clamp loop broke out, the method reads the value an earlier    *)
(* clamp left in energy_to_buy_dict, which is not kept here.               *)
EnergyToBuyDict(s) == IF BuyHeadroom < 0 THEN 0..BatteryEnergy ELSE {ClampEnergyToBuy(s)}

AvailableEnergyToBuy(s) ==
    IF FreeStorage(s) = 0 THEN {0}
    ELSE {IF HasReachedMaxChargePower(e, s) THEN 0 ELSE e : e \in EnergyToBuyDict(s)}

(* check_state and _validate_energy_bounds: the assertions of the code. *)
CheckStatePasses(s) ==
    /\ SellClampPasses(s) /\ BuyClampPasses(s)
    /\ MinEnergy <= used_storage /\ used_storage <= Capacity
    /\ \A e \in {offered_sell[s], pledged_sell[s], pledged_buy[s], offered_buy[s]} :
           0 <= e /\ e <= Capacity - MinEnergy

Loss(sold, bought) ==
    (bought * ChargingLoss + sold * DischargingLoss) \div LossScale + SelfDischarge
-----------------------------------------------------------------------------
(* An action ends in phase next, or in "failed" if an assertion of the     *)
(* handler does not pass.                                                  *)
Continue(next, passes) == pc' = IF passes THEN next ELSE "failed"

Init ==
    /\ pc = "rotate" /\ clock = 0 /\ spot = 0 /\ last_past = NoSlot
    /\ current_slot = 0 /\ post = 0 /\ pending = 0
    /\ used_storage = InitialEnergy
    /\ pledged_sell = Zero /\ pledged_buy = Zero
    /\ offered_sell = Zero /\ offered_buy = Zero
    /\ open_sell = Zero /\ open_buy = Zero
    /\ ledger = Zero /\ losses = 0 /\ restarts = 0

(* The last tick of a slot: the simulation goes to the next slot or ends. *)
EndSlot ==
    /\ pc = "ticks"
    /\ IF clock = LastSlot
       THEN pc' = "done" /\ clock' = clock
       ELSE pc' = "rotate" /\ clock' = clock + 1
    /\ UNCHANGED <<spot, last_past, current_slot, post, pending, stateVars,
                   open_sell, open_buy, ledger, losses, restarts>>

(* Area.cycle_markets: the old spot market becomes the last past market    *)
(* (an older one is deleted), the future market deletes the orders of the  *)
(* slot that becomes spot, the new spot market is created.                 *)
RotateMarkets ==
    /\ pc = "rotate"
    /\ pc' = "dispatch"
    /\ spot' = clock
    /\ last_past' = IF spot = clock - 1 THEN spot ELSE NoSlot
    /\ open_sell' = [s \in Slots |-> IF s <= clock THEN 0 ELSE open_sell[s]]
    /\ open_buy' = [s \in Slots |-> IF s <= clock THEN 0 ELSE open_buy[s]]
    /\ UNCHANGED <<clock, current_slot, post, pending, stateVars, ledger, losses, restarts>>

ResetSpot_Never(f) == f

(* Future orders are deleted when their slot becomes the spot market. *)
ResetSpot(f) == IF FutureSlots > 0 THEN [f EXCEPT ![spot] = 0] ELSE f

PastSlot_IsSpot == spot

(* The slot whose pledges are delivered by a market cycle. *)
PastSlot == last_past

(* StorageState.market_cycle *)
MarketCycle ==
    LET sold == IF PastSlot = NoSlot THEN 0 ELSE pledged_sell[PastSlot]
        bought == IF PastSlot = NoSlot THEN 0 ELSE pledged_buy[PastSlot]
        loss == IF PastSlot = NoSlot THEN 0 ELSE Loss(sold, bought)
    IN  /\ pc = "dispatch"
        /\ current_slot' = spot
        /\ offered_sell' = ResetSpot(offered_sell)
        /\ offered_buy' = ResetSpot(offered_buy)
        /\ used_storage' = used_storage - sold + bought - loss
        /\ losses' = losses + loss
        /\ UNCHANGED <<areaVars, post, pending, pledged_sell, pledged_buy,
                       open_sell, open_buy, ledger, restarts>>
        /\ Continue("sell", \A s \in {spot} \cup FutureOf(spot) :
                               SellClampPasses(s)' /\ BuyClampPasses(s)')

(* _sell_energy_to_spot_market up to the return of post_first_offer, which *)
(* returns None if the asset already has an offer there.                   *)
SellToSpotMarket ==
    LET e == AvailableEnergyToSell(spot)
    IN  /\ pc = "sell"
        /\ \/ /\ SellLookupRaises(spot)
              /\ pc' = "failed"
              /\ UNCHANGED <<pending, open_sell>>
           \/ /\ ~SellLookupRaises(spot) /\ e = 0
              /\ pc' = "buy"
              /\ UNCHANGED <<pending, open_sell>>
           \/ /\ ~SellLookupRaises(spot) /\ e > 0
              /\ IF open_sell[spot] > 0
                 THEN pc' = "failed" /\ UNCHANGED <<pending, open_sell>>
                 ELSE /\ pc' = "register"
                      /\ pending' = e
                      /\ open_sell' = [open_sell EXCEPT ![spot] = e]
        /\ UNCHANGED <<areaVars, current_slot, post, stateVars, open_buy, ledger,
                       losses, restarts>>

(* register_energy_from_posted_offer, called once the market has returned  *)
(* and so after every reaction of other traders to the new offer.          *)
RegisterPostedOffer ==
    /\ pc = "register"
    /\ offered_sell' = [offered_sell EXCEPT ![spot] = @ + pending]
    /\ pending' = 0
    /\ UNCHANGED <<areaVars, current_slot, post, used_storage, pledged_sell, pledged_buy,
                   offered_buy, open_sell, open_buy, ledger, losses, restarts>>
    /\ Continue("buy", SellClampPasses(spot)')

(* _buy_energy_two_sided_spot_market: a bid for all the energy that can be *)
(* bought, unless one is open; the market may reject it.                   *)
PostSpotBid ==
    IF ~TwoSided \/ open_buy[spot] > 0
    THEN UNCHANGED <<open_buy, offered_buy>>
    ELSE \E e \in AvailableEnergyToBuy(spot) :
            \/ /\ open_buy' = [open_buy EXCEPT ![spot] = e]
               /\ offered_buy' = [offered_buy EXCEPT ![spot] = @ + e]
            \/ UNCHANGED <<open_buy, offered_buy>>

BuyOnMarketCycle ==
    /\ pc = "buy"
    /\ post' = spot + 1
    /\ PostSpotBid
    /\ UNCHANGED <<areaVars, current_slot, pending, used_storage, pledged_sell, pledged_buy,
                   offered_sell, open_sell, ledger, losses, restarts>>
    /\ Continue("future", BuyClampPasses(spot) /\ BuyClampPasses(spot)')

(* One iteration of FutureMarketStrategy.event_market_cycle for a storage: *)
(* both energies are read before either order is registered.               *)
PostFutureOrders(s) ==
    /\ pc = "future" /\ s = post /\ s \in FutureOf(spot)
    /\ post' = post + 1
    /\ UNCHANGED <<areaVars, current_slot, pending, used_storage, pledged_sell, pledged_buy,
                   ledger, losses, restarts>>
    /\ IF SellLookupRaises(s)
       THEN pc' = "failed" /\ UNCHANGED <<open_sell, offered_sell, open_buy, offered_buy>>
       ELSE LET sell == IF open_sell[s] = 0 THEN AvailableEnergyToSell(s) ELSE 0
            IN  \E e \in AvailableEnergyToBuy(s) :
                  LET buy == IF open_buy[s] = 0 THEN e ELSE 0
                  IN  /\ open_sell' = [open_sell EXCEPT ![s] = @ + sell]
                      /\ offered_sell' = [offered_sell EXCEPT ![s] = @ + sell]
                      /\ open_buy' = [open_buy EXCEPT ![s] = @ + buy]
                      /\ offered_buy' = [offered_buy EXCEPT ![s] = @ + buy]
                      /\ Continue("future", /\ BuyClampPasses(s)
                                            /\ SellClampPasses(s)' /\ BuyClampPasses(s)')

(* _delete_past_state, the end of the handler: the slots before the last   *)
(* past market are dropped.                                                *)
DeletePastState ==
    LET Kept(f) == [s \in Slots |-> IF s < last_past THEN 0 ELSE f[s]]
    IN  /\ pc = "future" /\ post \notin FutureOf(spot)
        /\ pc' = "ticks"
        /\ pledged_sell' = Kept(pledged_sell) /\ pledged_buy' = Kept(pledged_buy)
        /\ offered_sell' = Kept(offered_sell) /\ offered_buy' = Kept(offered_buy)
        /\ UNCHANGED <<areaVars, current_slot, post, pending, used_storage,
                       open_sell, open_buy, ledger, losses, restarts>>

(* StorageStrategy.event_tick up to check_state. *)
Tick ==
    /\ pc = "ticks"
    /\ PostSpotBid
    /\ UNCHANGED <<areaVars, current_slot, post, pending, used_storage, pledged_sell,
                   pledged_buy, offered_sell, open_sell, ledger, losses, restarts>>
    /\ Continue("ticks", BuyClampPasses(spot) /\ CheckStatePasses(spot)')

TradeOffer_KeepsOffered(s, e) ==
    /\ pc = "ticks" /\ e <= open_sell[s]
    /\ open_sell' = [open_sell EXCEPT ![s] = @ - e]
    /\ pledged_sell' = [pledged_sell EXCEPT ![s] = @ + e]
    /\ ledger' = [ledger EXCEPT ![s] = @ - e]
    /\ UNCHANGED <<pc, areaVars, current_slot, post, pending, used_storage, pledged_buy,
                   offered_sell, offered_buy, open_buy, losses, restarts>>

(* event_offer_traded for e units of the asset's own offer: during the     *)
(* ticks, or in a one-sided market already while the offer is posted.      *)
TradeOffer(s, e) ==
    /\ pc = "ticks" \/ (pc = "register" /\ ~TwoSided /\ s = spot)
    /\ e <= open_sell[s]
    /\ open_sell' = [open_sell EXCEPT ![s] = @ - e]
    /\ pledged_sell' = [pledged_sell EXCEPT ![s] = @ + e]
    /\ offered_sell' = [offered_sell EXCEPT ![s] = @ - e]
    /\ ledger' = [ledger EXCEPT ![s] = @ - e]
    /\ UNCHANGED <<areaVars, current_slot, post, pending, used_storage, pledged_buy,
                   offered_buy, open_buy, losses, restarts>>
    /\ Continue(pc, SellClampPasses(s)')

(* event_bid_traded for e units of the asset's own bid. *)
TradeBid(s, e) ==
    /\ pc = "ticks"
    /\ e <= open_buy[s]
    /\ open_buy' = [open_buy EXCEPT ![s] = @ - e]
    /\ pledged_buy' = [pledged_buy EXCEPT ![s] = @ + e]
    /\ offered_buy' = [offered_buy EXCEPT ![s] = @ - e]
    /\ ledger' = [ledger EXCEPT ![s] = @ + e]
    /\ UNCHANGED <<areaVars, current_slot, post, pending, used_storage, pledged_sell,
                   offered_sell, open_sell, losses, restarts>>
    /\ Continue(pc, BuyClampPasses(s)')

(* _try_to_buy_offer for an affordable offer of the one-sided market: the  *)
(* energy is pledged first, then the offer is accepted; a MarketException  *)
(* is swallowed.  event_offer can call it before the asset has handled the *)
(* market cycle of the slot.                                               *)
TryToBuyOffer(offered) ==
    /\ ~TwoSided /\ pc \in {"ticks", "dispatch"}
    /\ \E available \in AvailableEnergyToBuy(spot) :
         LET e == Least(offered, available)
         IN  /\ e > 0
             /\ pledged_buy' = [pledged_buy EXCEPT ![spot] = @ + e]
             /\ \/ ledger' = [ledger EXCEPT ![spot] = @ + e]
                \/ AcceptMayFail /\ ledger' = ledger
    /\ UNCHANGED <<areaVars, current_slot, post, pending, used_storage, pledged_sell,
                   offered_sell, offered_buy, open_sell, open_buy, losses, restarts>>
    /\ Continue(pc, BuyClampPasses(spot) /\ BuyClampPasses(spot)')

(* The simulation is started again from the state exported at a pause      *)
(* (slot clock) or at the end of a slot (slot clock + 1).  The areas are   *)
(* activated at slot 0, then restore_state brings back the dicts and the   *)
(* stored energy; orders, markets and _current_market_slot are not saved.  *)
Restart(slot) ==
    /\ pc = "ticks" /\ restarts < MaxRestarts
    /\ slot \in {clock, clock + 1} \cap Slots
    /\ restarts' = restarts + 1
    /\ pc' = "rotate" /\ clock' = slot /\ spot' = 0 /\ last_past' = NoSlot
    /\ current_slot' = 0
    /\ open_sell' = Zero /\ open_buy' = Zero
    /\ UNCHANGED <<post, pending, stateVars, ledger, losses>>

Finished == pc \in {"done", "failed"} /\ UNCHANGED vars

Next ==
    \/ EndSlot \/ RotateMarkets \/ MarketCycle
    \/ SellToSpotMarket \/ RegisterPostedOffer \/ BuyOnMarketCycle
    \/ DeletePastState \/ Tick
    \/ \E s \in Slots : PostFutureOrders(s)
    \/ \E s \in Slots, e \in 1..BatteryEnergy : TradeOffer(s, e) \/ TradeBid(s, e)
    \/ \E e \in 1..BatteryEnergy : TryToBuyOffer(e)
    \/ \E s \in Slots : Restart(s)
    \/ Finished

Spec == Init /\ [][Next]_vars
-----------------------------------------------------------------------------
(* Every variable stays in its type. *)
TypeOK ==
    /\ pc \in Phases
    /\ clock \in Slots /\ spot \in Slots /\ current_slot \in Slots
    /\ last_past \in Slots \cup {NoSlot}
    /\ post \in 0..SlotCount /\ pending \in Nat
    /\ used_storage \in Int /\ losses \in Nat /\ restarts \in 0..MaxRestarts
    /\ pledged_sell \in [Slots -> Nat] /\ pledged_buy \in [Slots -> Nat]
    /\ offered_sell \in [Slots -> Int] /\ offered_buy \in [Slots -> Int]
    /\ open_sell \in [Slots -> Nat] /\ open_buy \in [Slots -> Nat]
    /\ ledger \in [Slots -> Int]

(* No assertion of StorageState fires and no lookup raises: the handlers   *)
(* never leave the event loop with an exception.                           *)
NoAssertionFails == pc # "failed"

(* What is pledged and offered for all the slots still to be delivered is  *)
(* covered by the energy above the minimum state of charge, whatever the   *)
(* order in which slots were traded.                                       *)
SellCommitmentsCovered == SellHeadroom >= pending

(* The battery can take everything it has bought and bid for in the slots  *)
(* still to be delivered.                                                  *)
BuyCommitmentsCovered == BuyHeadroom >= 0

CommitmentsCovered == SellCommitmentsCovered /\ BuyCommitmentsCovered

(* The energy sold and on sale for a slot stays within what the power      *)
(* limit lets through in one slot, also with losses, failed purchases and  *)
(* a restart that brings back the amounts of orders that are gone.         *)
DischargeLimitRespected ==
    \A s \in Slots : pledged_sell[s] + offered_sell[s] <= BatteryEnergy

(* Without a restart the same holds for the energy bought and bid for.     *)
ChargeLimitRespected ==
    \A s \in Slots : pledged_buy[s] + offered_buy[s] <= BatteryEnergy

(* The energy the state believes to be on offer is the energy of the       *)
(* orders open in the markets, for every slot that can still be traded.    *)
OfferedIsOpen ==
    pc \in {"ticks", "future"} =>
        \A s \in Slots : s >= spot => /\ offered_sell[s] = open_sell[s]
                                      /\ offered_buy[s] = open_buy[s]

(* The stored energy is the initial energy plus what was really bought     *)
(* minus what was really sold in the delivered slots, minus the losses.    *)
EnergyFlow ==
    pc \notin {"rotate", "dispatch"} =>
        used_storage = InitialEnergy + PartialSums(ledger, SlotCount)[current_slot] - losses

(* What a storage promises to the grid, whatever is traded: see Battery. *)
Contract == INSTANCE Battery WITH stored <- used_storage, slot <- current_slot

(* The storage implements the battery contract: between two market cycles  *)
(* the stored energy never moves, a cycle moves it by at most what the     *)
(* power limit allows for one slot, and it stays between the minimum and   *)
(* the capacity.                                                           *)
BatteryContract == Contract!Spec
-----------------------------------------------------------------------------
(* The inductive invariant behind the safety theorems, for the Ideal       *)
(* setting: its parts relate the phases of a slot, the orders open in the  *)
(* markets, the power limit of a slot and the energy in the battery.       *)

Timing ==
    /\ pc = "rotate" => /\ current_slot = spot
                        /\ clock = spot + 1 \/ (clock = 0 /\ spot = 0)
    /\ pc = "dispatch" =>
          /\ clock = spot
          /\ \/ last_past = current_slot /\ spot = current_slot + 1
             \/ last_past = NoSlot /\ current_slot = 0 /\ spot = 0
    /\ pc \notin {"rotate", "dispatch"} =>
          clock = spot /\ current_slot = spot /\ last_past < current_slot
    /\ pc = "future" => post > spot

PendingAt(s) == IF s = spot THEN pending ELSE 0

(* The first slot that has had no spot market yet. *)
NextSpot == IF pc = "rotate" THEN clock ELSE IF pc = "dispatch" THEN spot ELSE spot + 1

Orders ==
    /\ pc # "register" => pending = 0
    /\ \A s \in Slots : offered_sell[s] + PendingAt(s) >= 0 /\ offered_buy[s] >= 0
    /\ \A s \in Slots : s < spot => open_sell[s] = 0 /\ open_buy[s] = 0
    /\ \A s \in Slots : s > spot => /\ offered_sell[s] = open_sell[s]
                                    /\ offered_buy[s] = open_buy[s]
    /\ pc # "dispatch" => /\ offered_sell[spot] + pending = open_sell[spot]
                          /\ offered_buy[spot] = open_buy[spot]
    /\ pc \in {"dispatch", "sell"} => open_sell[spot] = 0
    /\ pc = "dispatch" => open_buy[spot] = 0
    /\ FutureSlots = 0 =>
          \A s \in Slots : s >= NextSpot => offered_sell[s] = 0 /\ offered_buy[s] = 0

Power ==
    \A s \in Slots : /\ pledged_sell[s] + offered_sell[s] + PendingAt(s) <= BatteryEnergy
                    /\ pledged_buy[s] + offered_buy[s] <= BatteryEnergy

Covered ==
    /\ SellHeadroom >= pending /\ BuyHeadroom >= 0
    /\ MinEnergy <= used_storage /\ used_storage <= Capacity

IInv == TypeOK /\ pc # "failed" /\ Timing /\ Orders /\ Power /\ Covered

(* In addition, for EnergyFlow: the pledges of the slots still to be       *)
(* delivered are what was really traded for them.                          *)
Flow ==
    /\ losses = 0
    /\ \A s \in Slots : s >= current_slot => ledger[s] = pledged_buy[s] - pledged_sell[s]
    /\ used_storage = InitialEnergy + PartialSums(ledger, SlotCount)[current_slot]

(* For DischargeLimitRespected, with losses, refused purchases and         *)
(* restarts: what is still open in the market for a slot is part of what   *)
(* the state believes to be on offer there, so a trade or a reset of the   *)
(* slot frees no more than was counted.                                    *)
Discharge ==
    /\ pc \notin {"register", "failed"} => pending = 0
    /\ last_past <= spot
    /\ \A s \in Slots : s < spot => open_sell[s] = 0
    /\ pc = "dispatch" => open_sell[spot] = 0
    /\ \A s \in Slots :
          /\ open_sell[s] <= offered_sell[s] + PendingAt(s)
          /\ pledged_sell[s] + offered_sell[s] + PendingAt(s) <= BatteryEnergy
=============================================================================
