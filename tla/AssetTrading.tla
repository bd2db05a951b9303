---------------------------- MODULE AssetTrading ----------------------------
(***************************************************************************)
(* An asset that plans its energy per market slot and trades it: a load    *)
(* ("load" by hours of the day, "load_profile" by a profile), a PV ("pv"   *)
(* with the Gaussian curve, "pv_profile" with a predefined or user         *)
(* profile), a smart meter ("meter"), or one of the suppliers that have no *)
(* state of their own ("commercial", "plant", "maker", "bus").             *)
(*                                                                         *)
(* The asset meets three markets of its area: the spot market of the       *)
(* current slot, the future market of the slots ahead, and the settlement  *)
(* markets of slots that are over, where it trades the difference between  *)
(* what it measured and what it traded.  Energy is in integer units.       *)
(***************************************************************************)
EXTENDS StrategyOrders, Functions, FiniteSets

CONSTANTS
    Kinds,
    Powers,         \* energies per slot an asset may be configured with
    Infinite,       \* INF_ENERGY, what a supplier without a limit offers
    Measured(_),    \* compute_altered_energy: what may be measured for a forecast
    FutureSlots,    \* slots the future market is ahead of the spot market
    SettlementAge,  \* slots a settlement market stays open
    UpdateTicks,
    LastSlot, LastTick, MaxReconfigurations   \* of reconfigurations and restarts

ASSUME AssetAssumption == FutureSlots \in Nat /\ SettlementAge \in Nat /\ LastSlot \in Nat /\ LastTick \in Nat

Sides == {"buy", "sell"}
Slots == 0 .. LastSlot + FutureSlots
Loads == {"load", "load_profile"}
PVs == {"pv", "pv_profile"}
Suppliers == {"commercial", "plant", "maker", "bus"}

VARIABLES
    kind, oneSided, balancing,
    pc, failed, slot, tick,
    power, hours, connected,   \* the configuration of the asset
    active,        \* the spot market is one of the active markets
    past,          \* the area has a market of the slot that is over (current_market)
    restarts,
    plan, left,    \* desired or forecast energy, and what of it is not traded, per side
    total,         \* total_energy_demanded_Wh
    deviation, unsettled,
    spot, future, settlement,
    reconfigured,
    traded, measured, settled   \* what really happened, in the slots still of interest

config == <<kind, oneSided, balancing>>
params == <<power, hours, connected, reconfigured>>
state == <<plan, left, total, deviation, unsettled>>
orders == <<spot, future, settlement>>
history == <<traded, measured, settled>>
process == <<past, restarts>>
vars == <<config, params, state, orders, history, pc, failed, slot, tick, active, process>>

Get(f, s) == IF s \in DOMAIN f THEN f[s] ELSE 0
Fail(cause) == pc' = "failed" /\ failed' = cause
Goto(next) == pc' = next /\ UNCHANGED failed
-----------------------------------------------------------------------------
(* ConsumptionState and ProductionState.  A slot that is known keeps its   *)
(* energy unless it is overwritten.                                        *)

SetEnergy(st, side, s, energy, overwrite) ==
    IF ~ overwrite /\ s \in DOMAIN st.left[side] THEN st
    ELSE [plan |-> [st.plan EXCEPT ![side] = (s :> energy) @@ @],
          left |-> [st.left EXCEPT ![side] = (s :> energy) @@ @]]
SetDesiredEnergy(st, s, energy, overwrite) == SetEnergy(st, "buy", s, energy, overwrite)
SetAvailableEnergy(st, s, energy, overwrite) == SetEnergy(st, "sell", s, energy, overwrite)
CanBuyMoreEnergy(s) == Get(left["buy"], s) > 0
EnergyToAccept(energy, s) == Min({energy, left["buy"][s]})

(* decrement_energy_requirement and decrement_available_energy assert that *)
(* the result is not negative.                                             *)
Decrement(side, s, energy, next) ==
    /\ left' = [left EXCEPT ![side][s] = @ - energy]
    /\ traded' = [traded EXCEPT ![side][s] = @ + energy]
    /\ IF left'[side][s] < 0 THEN Fail("below zero") ELSE Goto(next)

DecrementAvailableEnergy(s, energy, next) == Decrement("sell", s, energy, next)
DecrementEnergyRequirement(s, energy, next) == Decrement("buy", s, energy, next)

(* Values of slots before the oldest settlement market are dropped, those  *)
(* of the slots that still have an energy to trade in the state.           *)
DeletePastState(f, current) ==
    LET old == IF past THEN {s \in DOMAIN current : s < slot - 1 - SettlementAge} ELSE {}
    IN  [s \in DOMAIN f \ old |-> f[s]]
-----------------------------------------------------------------------------
(* The energy of a slot: LoadHoursEnergyParameters and                     *)
(* DefinedLoadEnergyParameters, PVEnergyParameters and its profiles, and   *)
(* SmartMeterEnergyParameters, where a negative value is production.       *)

AllowedOperatingHours(s) == kind # "load" \/ s \in hours
LoadEnergy(s) == IF AllowedOperatingHours(s) THEN power ELSE 0
MeterConsumption(p) == IF p > 0 THEN p ELSE 0
MeterProduction(p) == IF p < 0 THEN - p ELSE 0

Ahead == slot .. slot + FutureSlots

(* The forecast of the Gaussian PV overwrites at every cycle, whatever the *)
(* caller asks for; the profiles do so only when reconfigured.             *)
GaussianForecast(st, p) == FoldSet(LAMBDA s, x : SetAvailableEnergy(x, s, p, TRUE), st, Ahead)
ProfileForecast(st, reconfigure, p) ==
    FoldSet(LAMBDA s, x : SetAvailableEnergy(x, s, p, reconfigure), st, Ahead)
SetProducedEnergyForecast(st, reconfigure, p) ==
    IF kind = "pv" THEN GaussianForecast(st, p) ELSE ProfileForecast(st, reconfigure, p)

UpdateEnergyRequirement_Overwrites(st) ==
    FoldSet(LAMBDA s, x : SetDesiredEnergy(x, s, LoadEnergy(s), TRUE), st, Ahead)
UpdateEnergyRequirement(st) ==
    FoldSet(LAMBDA s, x : SetDesiredEnergy(x, s, LoadEnergy(s), FALSE), st, Ahead)

SetEnergyForecast(st, reconfigure, p) ==
    SetAvailableEnergy(SetDesiredEnergy(st, slot, MeterConsumption(p), FALSE),
                       slot, MeterProduction(p), reconfigure)

(* event_activate: PV and meter know the energy of the open slots before   *)
(* the first cycle.                                                        *)
Activated ==
    [side \in Sides |->
        CASE kind \in PVs /\ side = "sell" -> [s \in 0 .. FutureSlots |-> power]
          [] kind = "meter" /\ side = "buy" -> (0 :> MeterConsumption(power))
          [] kind = "meter" /\ side = "sell" -> (0 :> MeterProduction(power))
          [] OTHER -> <<>>]

Init ==
    /\ kind \in Kinds /\ oneSided \in BOOLEAN
    /\ balancing \in {kind \in Loads, FALSE}
    /\ power \in {p \in Powers : p < 0 => kind = "meter"}
    /\ hours = Slots /\ connected \in {TRUE, kind # "maker"}
    /\ pc = "cycle" /\ failed = "no" /\ slot = 0 /\ tick = 0 /\ active = FALSE
    /\ past = FALSE /\ restarts = 0
    /\ plan = Activated /\ left = Activated
    /\ total = (IF kind = "meter" THEN MeterConsumption(power) ELSE 0)
    /\ deviation = <<>> /\ unsettled = <<>>
    /\ spot = NewAccount /\ future = [s \in 1 .. FutureSlots |-> NewAccount] /\ settlement = <<>>
    /\ reconfigured = 0
    /\ traded = [side \in Sides |-> [s \in Slots |-> 0]]
    /\ measured = <<>> /\ settled = [s \in Slots |-> 0]

CycleEnergy ==
    CASE kind \in Loads -> UpdateEnergyRequirement([plan |-> plan, left |-> left])
      [] kind \in PVs -> SetProducedEnergyForecast([plan |-> plan, left |-> left], FALSE, power)
      [] kind = "meter" -> SetEnergyForecast([plan |-> plan, left |-> left], FALSE, power)

(* update_total_demanded_energy: by hours the slot that is over counts,    *)
(* by profile every slot that is looked up does, the slots ahead twice.    *)
TotalDemand(p) ==
    CASE kind = "load" -> IF past THEN Get(p["buy"], slot - 1) ELSE 0
      [] kind = "load_profile" -> Get(p["buy"], slot)
                                  + 2 * SumFunction([s \in slot + 1 .. slot + FutureSlots |-> Get(p["buy"], s)])
      [] kind = "meter" -> Get(p["buy"], slot)
      [] OTHER -> 0

(* set_energy_measurement_kWh for the slot that is over: the deviation is  *)
(* against what the state says was traded.                                 *)
UnsettledEnergy(energy, p, l) ==
    LET s == slot - 1 IN
    CASE kind \in Loads -> energy - (Get(p["buy"], s) - Get(l["buy"], s))
      [] kind \in PVs -> (Get(p["sell"], s) - Get(l["sell"], s)) - energy
      [] OTHER -> 0
MeterReportsBoth == Get(plan["buy"], slot - 1) > 0 /\ Get(plan["sell"], slot - 1) > 0
Forecast(p) == IF kind \in Loads THEN Get(p["buy"], slot - 1) ELSE Get(p["sell"], slot - 1)

SetEnergyMeasurement(p, l) ==
    IF ~ past THEN UNCHANGED <<deviation, unsettled, measured>>
    ELSE \E energy \in Measured(Forecast(p)) :
             LET d == UnsettledEnergy(energy, p, l) IN
             /\ measured' = (slot - 1 :> energy)
             /\ deviation' = (slot - 1 :> d) @@ deviation
             /\ unsettled' = (slot - 1 :> (IF d < 0 THEN - d ELSE d)) @@ unsettled
-----------------------------------------------------------------------------
(* event_market_cycle.  delete_past_markets_offers and _delete_past_bids   *)
(* forget the orders of every slot that is not ahead, those of settlement  *)
(* markets that are still open included.                                   *)

Forget(b) == [b EXCEPT !.posted = <<>>, !.bids = <<>>, !.bought = {}, !.split = {}]
ForgetSplit(b) == [b EXCEPT !.split = {}]

(* post_first_bid and post_first_offer look for an own order in the        *)
(* market; an order without energy is refused by the market.               *)
PostFirstBid_Again(b, energy) == IF energy <= 0 THEN b ELSE PostBid(b, energy, TRUE)
PostFirstBid(b, energy) ==
    IF b.listedBids # {} \/ energy <= 0 THEN b ELSE PostBid(b, energy, TRUE)
PostFirstOffer(b, energy) ==
    IF b.listed # {} \/ energy <= 0 THEN b ELSE PostOffer(b, energy, TRUE, <<>>)

(* The load leaves the share it offers to the balancing market out. *)
RampUp(p) == IF balancing THEN p \div 2 ELSE 0
SpotBid(b, p, l) ==
    IF oneSided \/ ~ AllowedOperatingHours(slot) \/ Get(l["buy"], slot) = 0 \/ b.bids # <<>> THEN b
    ELSE PostFirstBid(b, Get(l["buy"], slot) - RampUp(Get(p["buy"], slot)))

(* event_market_cycle_price and _post_offer: what is available and not on  *)
(* offer yet.  In a one-sided market buyers react while it is posted.      *)
SpotOfferEnergy(b, l) == Get(l["sell"], slot) - OpenOfferEnergy(b)
SpotOffer(b, l, takes) ==
    IF SpotOfferEnergy(b, l) > 0 THEN PostOffer(b, SpotOfferEnergy(b, l), FALSE, takes) ELSE b
MeterOrders(b, st, takes) == SpotBid(SpotOffer(b, st.left, takes), st.plan, st.left)
TakesOf(energy) ==
    {<<>>} \cup (IF oneSided THEN {t \in UNION {[1 .. n -> 1 .. 2] : n \in 1 .. 2} :
                                       FoldSeq(LAMBDA x, y : x + y, 0, t) <= energy} ELSE {})
Taken(takes) == FoldSeq(LAMBDA x, y : x + y, 0, takes)

(* SettlementMarketStrategy.event_market_cycle *)
CanPostSettlementBid(d, s) == Get(d, s) > 0
CanPostSettlementOffer(d, s) == Get(d, s) < 0
PostSettlement(s, b, d, u) ==
    CASE CanPostSettlementBid(d, s) -> PostFirstBid(b, u[s])
      [] CanPostSettlementOffer(d, s) -> PostFirstOffer(b, u[s])
      [] OTHER -> b

(* FutureMarketStrategy.event_market_cycle: a slot that has seen an offer  *)
(* of the asset is left alone, a slot without an open bid is bid for.      *)
PostFuture(s, b, l) ==
    CASE kind \in Loads /\ Get(l["buy"], s) > 0 /\ b.bids = <<>> -> PostBid(b, l["buy"][s], FALSE)
      [] kind \in PVs /\ Get(l["sell"], s) > 0 /\ b.posted = <<>> -> PostOffer(b, l["sell"][s], FALSE, <<>>)
      [] OTHER -> b

EventMarketCycle ==
    /\ pc = "cycle" /\ kind \notin Suppliers /\ ~ (kind = "meter" /\ past /\ MeterReportsBoth)
    /\ active' = AllowedOperatingHours(slot)
    /\ LET st == CycleEnergy IN
       /\ SetEnergyMeasurement(st.plan, st.left)
       /\ total' = total + TotalDemand(st.plan)
       /\ plan' = [side \in Sides |-> DeletePastState(st.plan[side], st.left[side])]
       /\ \E takes \in TakesOf(SpotOfferEnergy(spot, st.left)) :
              /\ spot' = IF kind \in Loads THEN SpotBid(spot, st.plan, st.left)
                         ELSE IF kind = "meter" THEN MeterOrders(spot, st, takes)
                         ELSE SpotOffer(spot, st.left, takes)
              /\ left' = [side \in Sides |->
                          DeletePastState(IF side = "sell" /\ takes # <<>>
                                          THEN [st.left["sell"] EXCEPT ![slot] = @ - Taken(takes)]
                                          ELSE st.left[side], st.left[side])]
              /\ traded' = [traded EXCEPT !["sell"][slot] = @ + Taken(takes)]
       /\ settlement' = [s \in DOMAIN settlement |->
                         IF kind = "meter" THEN Forget(settlement[s])
                         ELSE PostSettlement(s, Forget(settlement[s]), deviation', unsettled')]
       /\ future' = [s \in DOMAIN future |-> PostFuture(s, ForgetSplit(future[s]), left')]
    /\ Goto(IF balancing THEN "balancing" ELSE "match")
    /\ UNCHANGED <<config, params, settled, slot, tick, process>>

(* The measurement of a meter that planned both sides raises. *)
MeterCycleFails ==
    /\ pc = "cycle" /\ kind = "meter" /\ past /\ MeterReportsBoth /\ Fail("both")
    /\ UNCHANGED <<config, params, state, orders, history, slot, tick, active, process>>

(* The suppliers offer the same energy in every slot; the bus also bids    *)
(* for it; a finite plant without power and a market maker that is not     *)
(* connected stay out.  None of them forgets its orders.                   *)
EnergyPerSlot == IF kind = "plant" THEN power ELSE Infinite
SupplierMarketCycle ==
    /\ pc = "cycle" /\ kind \in Suppliers
    /\ IF EnergyPerSlot > 0 /\ connected
       THEN \E takes \in TakesOf(EnergyPerSlot) :
                LET b == PostOffer(spot, EnergyPerSlot, FALSE, takes) IN
                /\ spot' = IF kind = "bus" /\ ~ oneSided THEN PostBid(b, Infinite, TRUE) ELSE b
                /\ traded' = [traded EXCEPT !["sell"][slot] = @ + Taken(takes)]
       ELSE UNCHANGED <<spot, traded>>
    /\ Goto("match")
    /\ UNCHANGED <<config, params, state, future, settlement, measured, settled, slot, tick, active, process>>

(* event_balancing_market_cycle of the load: the share is committed. *)
EventBalancingMarketCycle ==
    /\ pc = "balancing"
    /\ LET ramp == IF active THEN RampUp(plan["buy"][slot]) ELSE 0 IN
       /\ left' = [left EXCEPT !["buy"][slot] = @ - ramp]
       /\ IF left["buy"][slot] - ramp < 0 THEN Fail("balancing") ELSE Goto("match")
    /\ UNCHANGED <<config, params, plan, total, deviation, unsettled, orders, history, slot, tick, active, process>>
-----------------------------------------------------------------------------
(* event_tick; prices are updated every UpdateTicks ticks.                 *)

UpdateRates(b) == UpdateOfferRates(UpdateBidRates(b), LAMBDA o : <<>>)
UpdateSpotRates(b, takes) ==
    UpdateOfferRates(UpdateBidRates(b), LAMBDA o : IF o \in OpenInMarket(b) THEN takes ELSE <<>>)

(* _one_sided_market_event_tick: an offer of somebody else is accepted as  *)
(* far as energy is needed.                                                *)
BuyOffer(energy, next) ==
    IF CanBuyMoreEnergy(slot) /\ AllowedOperatingHours(slot) /\ energy > 0
    THEN DecrementEnergyRequirement(slot, EnergyToAccept(energy, slot), next)
    ELSE Goto(next) /\ UNCHANGED <<left, traded>>

(* The loads update their bid, or buy; the others update their offers and  *)
(* bids, while buyers may react in a one-sided market.  The bus buys every *)
(* offer that is cheap enough, without limit.                              *)
LoadTick(due, next) ==
    IF oneSided /\ active
    THEN UNCHANGED spot /\ \E energy \in 0 .. 2 : BuyOffer(energy, next)
    ELSE /\ spot' = IF due /\ active THEN UpdateRates(spot) ELSE spot
         /\ Goto(next) /\ UNCHANGED <<left, traded>>
ProducerTick(due, next) ==
    \E takes \in IF due /\ Cardinality(OpenInMarket(spot)) = 1 THEN TakesOf(OpenOfferEnergy(spot)) ELSE {<<>>} :
        /\ spot' = IF due THEN UpdateSpotRates(spot, takes) ELSE spot
        /\ IF takes = <<>> THEN Goto(next) /\ UNCHANGED <<left, traded>>
           ELSE DecrementAvailableEnergy(slot, Taken(takes), next)
SupplierTick(next) ==
    /\ \E energy \in IF kind = "bus" /\ oneSided THEN 0 .. 1 ELSE {0} :
           traded' = [traded EXCEPT !["buy"][slot] = @ + energy]
    /\ Goto(next) /\ UNCHANGED <<spot, left>>

FutureTick(due) ==
    future' = IF due /\ kind \notin Suppliers THEN [s \in DOMAIN future |-> UpdateRates(future[s])] ELSE future
SettlementTick(due) ==
    settlement' = IF due /\ kind \notin Suppliers
                  THEN [s \in DOMAIN settlement |-> UpdateRates(settlement[s])] ELSE settlement

EventTick ==
    /\ pc = "tick"
    /\ LET next == IF tick < LastTick THEN "match" ELSE "rotate"
           due == tick % UpdateTicks = 0
       IN  /\ tick' = IF tick < LastTick THEN tick + 1 ELSE tick
           /\ IF kind \in Suppliers THEN SupplierTick(next)
              ELSE IF kind \in Loads THEN LoadTick(due, next) ELSE ProducerTick(due, next)
           /\ FutureTick(due) /\ SettlementTick(due)
    /\ UNCHANGED <<config, params, plan, total, deviation, unsettled, measured, settled, slot, active, process>>

(* event_offer in a one-sided market.  The load compares the slot with     *)
(* _cycled_market, which holds the slot that is over; the meter does not   *)
(* compare.                                                                *)
CycledMarket == slot - 1
Reacts == kind = "meter" \/ (kind \in Loads /\ slot = CycledMarket)
EventOffer ==
    /\ pc \in {"cycle", "match"} /\ oneSided /\ Reacts /\ CanBuyMoreEnergy(slot)
    /\ \E energy \in 1 .. 2 : BuyOffer(energy, pc)
    /\ UNCHANGED <<config, params, plan, total, deviation, unsettled, measured, settled, orders, slot, tick, active, process>>
-----------------------------------------------------------------------------
(* Area.tick before every tick of the asset: the spot, settlement and      *)
(* future markets may accept an order of the asset, event_bid_traded and   *)
(* event_offer_traded.  A finite plant does not listen to trades.  In a    *)
(* one-sided simulation offers are bought in the spot market only.         *)

PlantAcceptOffer(b, o, energy) ==
    LET c == AcceptOffer(b, o, energy) IN IF kind = "plant" THEN [c EXCEPT !.sold = b.sold] ELSE c
Traded(side, energy, next) ==
    IF kind \in Suppliers
    THEN traded' = [traded EXCEPT ![side][slot] = @ + energy] /\ Goto(next) /\ UNCHANGED left
    ELSE Decrement(side, slot, energy, next)
EventBidTraded(o, energy, next) == spot' = AcceptBid(spot, o, energy) /\ Traded("buy", energy, next)
EventOfferTraded(o, energy, next) == spot' = PlantAcceptOffer(spot, o, energy) /\ Traded("sell", energy, next)

MatchSpot ==
    /\ pc = "match"
    /\ LET next == IF oneSided THEN "tick" ELSE "match_settlement" IN
       \/ Goto(next) /\ UNCHANGED <<spot, left, traded>>
       \/ \E o \in spot.listedBids : \E energy \in 1 .. Min({o.energy, 2}) : EventBidTraded(o, energy, next)
       \/ \E o \in spot.listed : \E energy \in 1 .. Min({o.energy, 2}) : EventOfferTraded(o, energy, next)
    /\ UNCHANGED <<config, params, plan, total, deviation, unsettled, future, settlement, measured, settled,
                   slot, tick, active, process>>

(* decrement_unsettled_deviation *)
DecrementUnsettled(s, energy) ==
    /\ unsettled' = [unsettled EXCEPT ![s] = @ - energy]
    /\ settled' = [settled EXCEPT ![s] = @ + energy]
    /\ IF unsettled[s] < energy THEN Fail("below zero") ELSE Goto("match_future")
SettlementBidTraded(s, o, energy) ==
    settlement' = [settlement EXCEPT ![s] = AcceptBid(@, o, energy)] /\ DecrementUnsettled(s, energy)
SettlementOfferTraded(s, o, energy) ==
    settlement' = [settlement EXCEPT ![s] = AcceptOffer(@, o, energy)] /\ DecrementUnsettled(s, energy)
MatchSettlement ==
    /\ pc = "match_settlement"
    /\ \/ Goto("match_future") /\ UNCHANGED <<settlement, unsettled, settled>>
       \/ \E s \in DOMAIN settlement : \E o \in settlement[s].listedBids : \E energy \in 1 .. o.energy :
              SettlementBidTraded(s, o, energy)
       \/ \E s \in DOMAIN settlement : \E o \in settlement[s].listed : \E energy \in 1 .. o.energy :
              SettlementOfferTraded(s, o, energy)
    /\ UNCHANGED <<config, params, plan, left, total, deviation, spot, future, traded, measured, slot, tick, active, process>>

MatchFuture ==
    /\ pc = "match_future"
    /\ \/ Goto("tick") /\ UNCHANGED <<future, left, traded>>
       \/ \E s \in DOMAIN future : \E o \in future[s].listedBids : \E energy \in 1 .. o.energy :
              /\ future' = [future EXCEPT ![s] = AcceptBid(@, o, energy)]
              /\ DecrementEnergyRequirement(s, energy, "tick")
       \/ \E s \in DOMAIN future : \E o \in future[s].listed : \E energy \in 1 .. o.energy :
              /\ future' = [future EXCEPT ![s] = AcceptOffer(@, o, energy)]
              /\ DecrementAvailableEnergy(s, energy, "tick")
    /\ UNCHANGED <<config, params, plan, total, deviation, unsettled, spot, settlement, measured, settled,
                   slot, tick, active, process>>
-----------------------------------------------------------------------------
(* area_reconfigure_event, between two ticks.                              *)

(* New hours: energy that is known stays, unless the spot market, active   *)
(* so far, is outside the hours now.                                       *)
ReconfigureLoad ==
    /\ kind = "load"
    /\ power' \in Powers /\ power' > 0 /\ hours' \in {Slots, Slots \ {slot}}
    /\ LET zero == active /\ slot \notin hours'
           st == SetEnergy([plan |-> plan, left |-> left], "buy", slot, 0, TRUE)
       IN  plan' = (IF zero THEN st.plan ELSE plan) /\ left' = (IF zero THEN st.left ELSE left)
    /\ total' = total + TotalDemand(plan')
ReconfigureProfile ==
    /\ kind = "load_profile" /\ power' \in Powers /\ power' > 0
    /\ UNCHANGED <<hours, plan, left, total>>
ReconfigurePV ==
    /\ kind \in PVs /\ power' \in Powers /\ power' > 0
    /\ LET st == SetProducedEnergyForecast([plan |-> plan, left |-> left], TRUE, power')
       IN  plan' = st.plan /\ left' = st.left
    /\ UNCHANGED <<hours, total>>
ReconfigureMeter ==
    /\ kind = "meter" /\ power' \in Powers
    /\ LET st == SetEnergyForecast([plan |-> plan, left |-> left], TRUE, power')
       IN  plan' = st.plan /\ left' = st.left
    /\ total' = total + TotalDemand(plan') /\ UNCHANGED hours
AreaReconfigureEvent ==
    /\ pc = "match" /\ reconfigured + restarts < MaxReconfigurations /\ reconfigured' = reconfigured + 1
    /\ \/ (ReconfigureLoad \/ ReconfigureProfile \/ ReconfigurePV \/ ReconfigureMeter) /\ UNCHANGED connected
       \/ kind = "maker" /\ connected' \in BOOLEAN /\ UNCHANGED <<power, hours, plan, left, total>>
    /\ UNCHANGED <<config, deviation, unsettled, orders, history, pc, failed, slot, tick, active, process>>

(* The area moves to the next slot: the spot market closes, the future     *)
(* market drops the slot and opens one more, a settlement market opens for *)
(* the slot that is over and the oldest one closes.                        *)
RotateMarkets ==
    /\ pc = "rotate"
    /\ IF slot = LastSlot THEN Goto("done") /\ UNCHANGED <<slot, tick, orders, past>>
       ELSE /\ Goto("cycle") /\ slot' = slot + 1 /\ tick' = 0 /\ past' = TRUE
            /\ spot' = NewAccount
            /\ future' = [s \in slot + 2 .. slot + 1 + FutureSlots |->
                          IF s \in DOMAIN future THEN future[s] ELSE NewAccount]
            /\ settlement' = [s \in {x \in 0 .. slot : x >= slot - SettlementAge /\ SettlementAge > 0} |->
                              IF s \in DOMAIN settlement THEN settlement[s] ELSE NewAccount]
    /\ traded' = [side \in Sides |-> [s \in Slots |-> IF s < slot THEN 0 ELSE traded[side][s]]]
    /\ measured' = <<>>
    /\ UNCHANGED <<config, params, state, settled, active, restarts>>

(* A new process goes on from the state saved at the end of a slot.  What  *)
(* the activation of the first slot set is overwritten by what was saved:  *)
(* all of a ProductionState, but of a ConsumptionState only the desired    *)
(* energy and the total.  Orders and settlement are not saved.             *)
RestoreConsumption == [plan |-> plan["buy"] @@ Activated["buy"], left |-> Activated["buy"]]
RestoreProduction == [plan |-> plan["sell"] @@ Activated["sell"], left |-> left["sell"] @@ Activated["sell"]]

(* The area has a past market only if the market its activation created,   *)
(* that of the first slot, is the one that is over.                        *)
Restart ==
    /\ pc = "rotate" /\ slot < LastSlot
    /\ reconfigured = 0 /\ restarts < MaxReconfigurations /\ restarts' = restarts + 1
    /\ Goto("cycle") /\ slot' = slot + 1 /\ tick' = 0 /\ active' = FALSE
    /\ past' = (slot = 0)
    /\ plan' = [buy |-> RestoreConsumption.plan, sell |-> RestoreProduction.plan]
    /\ left' = [buy |-> RestoreConsumption.left, sell |-> RestoreProduction.left]
    /\ deviation' = <<>> /\ unsettled' = <<>> /\ measured' = <<>>
    /\ spot' = NewAccount /\ future' = [s \in slot + 2 .. slot + 1 + FutureSlots |-> NewAccount]
    /\ settlement' = [s \in {x \in {0} : past' /\ SettlementAge > 0} |-> NewAccount]
    /\ traded' = [side \in Sides |-> [s \in Slots |-> IF s < slot THEN 0 ELSE traded[side][s]]]
    /\ UNCHANGED <<config, params, total, settled>>

Next ==
    \/ EventMarketCycle \/ MeterCycleFails \/ SupplierMarketCycle \/ EventBalancingMarketCycle
    \/ EventTick \/ EventOffer \/ MatchSpot \/ MatchSettlement \/ MatchFuture
    \/ AreaReconfigureEvent \/ RotateMarkets \/ Restart
Spec == Init /\ [][Next]_vars
-----------------------------------------------------------------------------
(* Properties. *)

Net(s) == IF kind \in Loads THEN traded["buy"][s] ELSE traded["sell"][s]
Trading == {"match", "match_settlement", "match_future", "tick", "rotate"}
Abs(x) == IF x < 0 THEN - x ELSE x

TypeOK ==
    /\ pc \in {"cycle", "balancing", "match", "match_settlement", "match_future", "tick", "rotate",
              "done", "failed"}
    /\ failed \in {"no", "below zero", "balancing", "both"}
    /\ slot \in 0 .. LastSlot /\ tick \in 0 .. LastTick
    /\ power \in Powers /\ hours \subseteq Slots /\ connected \in BOOLEAN /\ active \in BOOLEAN
    /\ \A side \in Sides :
           /\ DOMAIN left[side] \subseteq DOMAIN plan[side] /\ DOMAIN plan[side] \subseteq Slots
           /\ restarts = 0 => DOMAIN plan[side] = DOMAIN left[side]
           /\ \A s \in DOMAIN plan[side] : plan[side][s] \in Nat
           /\ \A s \in DOMAIN left[side] : left[side][s] \in Int
    /\ DOMAIN unsettled = DOMAIN deviation /\ DOMAIN measured \subseteq DOMAIN deviation
    /\ DOMAIN future = slot + 1 .. slot + FutureSlots
    /\ DOMAIN settlement \subseteq 0 .. slot - 1

(* The assertions of the state classes (base_states.py) and the check of   *)
(* the smart meter never end a run in which nobody reconfigured the asset, *)
(* except that a load which has bought ahead may find less energy left     *)
(* than the share it commits to the balancing market.                      *)
AssertionsHold ==
    pc = "failed" => reconfigured > 0 \/ (failed = "balancing" /\ traded["buy"][slot] > 0)

(* Unless it is reconfigured, no asset trades more in a slot than its      *)
(* configuration says, spot and future market together.  The Gaussian PV   *)
(* is left out: see PVSellsOnce.  That holds after a restart too, except   *)
(* that a load buys again what it had bought ahead.                        *)
TradedWithinPlan ==
    reconfigured = 0 => \A s \in Slots :
        /\ kind = "meter" => traded["buy"][s] <= Max({power, 0})
        /\ kind \in Loads =>
               traded["buy"][s] <= (IF FutureSlots > 0 THEN 1 + restarts ELSE 1) * power
        /\ kind = "pv_profile" \/ (kind = "pv" /\ FutureSlots = 0) => traded["sell"][s] <= power
        /\ kind = "meter" => traded["sell"][s] <= Max({- power, 0})
        /\ kind = "plant" => traded["sell"][s] <= power

(* While a slot is traded, the orders the asset has in the spot market are *)
(* exactly the energy it still has to trade, neither less nor more, also   *)
(* after partial trades, price updates and trades that happen while an     *)
(* offer is being posted; and the asset knows of each of them.  In the     *)
(* future market they never exceed it.                                     *)
OrdersMatchEnergy ==
    pc \in Trading /\ reconfigured = 0 /\ kind \notin Suppliers =>
        /\ Agrees(spot) /\ \A s \in DOMAIN future : Agrees(future[s])
        /\ Energy(spot.listed) = Get(left["sell"], slot)
        /\ Energy(spot.listedBids) = IF oneSided THEN 0 ELSE Get(left["buy"], slot)
        /\ \A s \in DOMAIN future :
               /\ Energy(future[s].listed) <= Get(left["sell"], s)
               /\ Energy(future[s].listedBids) = IF kind \in Loads THEN left["buy"][s] ELSE 0

(* What a load or PV may settle for a slot is exactly the difference       *)
(* between what it measured and what it traded in that slot.  Energy sold  *)
(* ahead by a Gaussian PV, the balancing share, and what a load bought     *)
(* before a restart, are not counted.                                      *)
DeviationIsReal ==
    reconfigured = 0 /\ (kind \in Loads => restarts = 0) /\ kind \in Loads \cup {"pv_profile"} /\ ~ balancing =>
        \A s \in DOMAIN measured :
            deviation[s] = IF kind \in Loads THEN measured[s] - Net(s) ELSE Net(s) - measured[s]

(* Settlement trades never exceed the deviation and go in its direction:   *)
(* settled and unsettled energy add up to it, and the orders in a          *)
(* settlement market are on one side only and within what is unsettled.    *)
SettlesOnlyTheDeviation ==
    \A s \in DOMAIN deviation :
        /\ settled[s] + unsettled[s] = Abs(deviation[s]) /\ unsettled[s] >= 0
        /\ s \in DOMAIN settlement /\ pc \in Trading =>
               /\ Energy(settlement[s].listedBids) = (IF deviation[s] > 0 THEN unsettled[s] ELSE 0)
               /\ Energy(settlement[s].listed) = (IF deviation[s] < 0 THEN unsettled[s] ELSE 0)

(* Unless it is reconfigured or restarted, the total demand of a load by   *)
(* hours counts every slot that is over once.                              *)
DemandCountedOnce ==
    kind = "load" /\ reconfigured + restarts = 0 /\ pc \in Trading => total = slot * power

(* state/base_states.py asserts that the available energy of a device does *)
(* not fall below zero, that is, that it never sells what it does not      *)
(* have.  The Gaussian PV forgets at every cycle what it has sold ahead.   *)
PVSellsOnce ==
    kind = "pv" /\ reconfigured = 0 => \A s \in Slots : traded["sell"][s] <= power
=============================================================================
